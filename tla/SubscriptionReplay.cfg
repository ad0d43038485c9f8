CONSTANTS
    c1 = c1
    c2 = c2
    c3 = c3
    d1 = d1
    d2 = d2
    i1 = i1
    i2 = i2
    Nobody = Nobody
    Focus = {"feed"}
    Conns = {c1, c2, c3}
    MaxPty = 1
    PtyCrashes = 1
    Capacity = 3
    Coalesce = 2
    MaxSpills = 2
    MaxChunk = 5
    MaxBytes = 10
    MaxBatch = 2
    Digests = {d1}
    Items = {i1}
    SharedProvider = TRUE
    MaxDeaths = 0
    MaxEdits = 1
    Logs = {"s1", "s2"}
    Ring = 3
    MaxTip = 3
    MaxBreaks = 1
    MaxSwitches = 1
    Launchers = {"l1", "l2"}
    NoLauncher = "none"
    MaxDaemons = 2
SPECIFICATION HostFairSpec
CHECK_DEADLOCK FALSE
PROPERTY ReconnectReplays
