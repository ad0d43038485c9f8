CONSTANTS
    c1 = c1
    c2 = c2
    l1 = l1
    l2 = l2
    None = None
    Clients <- TwoClients
    Loops <- TwoLoops
    MaxIntents = 3
    MaxApprovals = 0
    MaxCrashes = 0
SPECIFICATION Spec
CHECK_DEADLOCK FALSE
INVARIANTS
    DrainedFollowUpStarts
