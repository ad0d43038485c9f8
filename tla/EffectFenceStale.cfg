CONSTANTS
    t1 = t1
    t2 = t2
    t3 = t3
    d1 = d1
    d2 = d2
    None = None
    NoDriver = NoDriver
    Focus = {"fence"}
    Callers = {t1}
    Digests = {d1, d2}
    MaxEffects = 3
    MaxCrashes = 1
    StoreFails = FALSE
    Chats = {"s1", "s2"}
    Drivers <- Threads
    Recipe <- MixedRecipe
    MaxRetries = 1
    MaxStarts = 2
    Owners = {"o1"}
    Agents = {"a1"}
    MaxTrees = 2
    MaxWtDeaths = 1
    MaxMeddling = 2
    Commands = {"p"}
    Versions = {"v1", "v2"}
    MaxInstalls = 2
    MaxKills = 1
    MaxUserEdits = 2
SPECIFICATION AgentSpec
CHECK_DEADLOCK FALSE
INVARIANT NoBlindReplay
