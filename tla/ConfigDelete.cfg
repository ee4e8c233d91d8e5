SPECIFICATION Spec
CONSTANTS
    Configs = {"default.json", "pvp.json"}
    Default = "default.json"
    NoConfig = nothing
    Operations = {"save", "create", "delete_command"}
    GDK = TRUE
    TakeTurns = TRUE
    PrivateCrash = FALSE
    MaxOps = 3
    MaxCrashes = 0
    MaxFaults = 0
INVARIANTS
    DeletedIsGone
CHECK_DEADLOCK FALSE
