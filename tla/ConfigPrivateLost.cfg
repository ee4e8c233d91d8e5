SPECIFICATION FairSpec
CONSTANTS
    Configs = {"default.json", "pvp.json"}
    Default = "default.json"
    NoConfig = nothing
    Operations = {"save"}
    GDK = TRUE
    TakeTurns = TRUE
    PrivateCrash = TRUE
    MaxOps = 1
    MaxCrashes = 1
    MaxFaults = 0
PROPERTIES
    StartCompletes
CHECK_DEADLOCK FALSE
