SPECIFICATION FairSpec
CONSTANTS
    Modules = {hud, chat}
    Movable = {chat}
    NoModule = none
    DefaultOn = {hud}
    MaxClicks = 1
    MaxRestarts = 1
INVARIANTS
    TypeOK
    FlagsAgree
    RestoreOwed
    RestoreNotStuck
    DestroyedAreDeaf
PROPERTIES
    EjectKeepsChoices
    TogglesApplied
    RestartHonoured
    EjectCompletes
