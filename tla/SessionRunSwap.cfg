CONSTANTS
    c1 = c1
    c2 = c2
    l1 = l1
    l2 = l2
    None = None
    Clients <- OneClient
    Loops <- TwoLoops
    MaxIntents = 2
    MaxApprovals = 2
    MaxCrashes = 0
SPECIFICATION Spec
CHECK_DEADLOCK FALSE
INVARIANTS
    ExecutesWhatWasApproved
