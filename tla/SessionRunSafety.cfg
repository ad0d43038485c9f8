CONSTANTS
    c1 = c1
    c2 = c2
    l1 = l1
    l2 = l2
    None = None
    Clients <- TwoClients
    Loops <- TwoLoops
    MaxIntents = 3
    MaxApprovals = 1
    MaxCrashes = 1
SPECIFICATION Spec
CHECK_DEADLOCK FALSE
SYMMETRY Symmetry
CONSTRAINT ApprovalsAlone
INVARIANTS
    TypeOK
    MutexHeld
    NoAbandonedRun
    FollowUpsFireOnce
    StaleNeverExecutes
PROPERTY OutcomeIsFinal
