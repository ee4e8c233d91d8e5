SPECIFICATION FairSpec
CONSTANTS
    Modules = {hud}
    Movable = {}
    NoModule = none
    DefaultOn = {}
    MaxClicks = 1
    MaxRestarts = 1
INVARIANTS
    TogglesAtSafePoint
