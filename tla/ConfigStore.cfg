SPECIFICATION FairSpec
CONSTANTS
    Configs = {"default.json", "pvp.json", "build.json"}
    Default = "default.json"
    NoConfig = nothing
    Operations = {"save", "reload", "switch", "create", "delete"}
    GDK = TRUE
    TakeTurns = TRUE
    PrivateCrash = FALSE
    MaxOps = 5
    MaxCrashes = 2
    MaxFaults = 1
INVARIANTS
    TypeOK
    ConfigsKept
    Settled
PROPERTIES
    
    StartCompletes
    FlagReleased
CHECK_DEADLOCK FALSE
