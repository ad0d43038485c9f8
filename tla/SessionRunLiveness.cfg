CONSTANTS
    c1 = c1
    c2 = c2
    l1 = l1
    l2 = l2
    None = None
    Clients <- OneClient
    Loops <- TwoLoops
    MaxIntents = 2
    MaxApprovals = 1
    MaxCrashes = 0
SPECIFICATION FairSpec
CHECK_DEADLOCK FALSE
PROPERTIES
    MutexReleased
    CancelledLoopStops
