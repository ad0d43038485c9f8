CONSTANTS
    s1 = s1
    s2 = s2
    s3 = s3
    c1 = c1
    c2 = c2
    n1 = n1
    None = None
    Sessions <- MCSessions
    Clients <- MCClients
    Names <- NoNames
    MaxSeq = 4
    Deletes = FALSE
    ForkBelow = FALSE
SPECIFICATION Spec
SYMMETRY Symmetry
CHECK_DEADLOCK FALSE
PROPERTY RefinesEventLog
