SPECIFICATION Spec
CONSTANTS
    Platforms = {"CoreWindow", "Hwnd"}
    MaxGen = 5
    MaxFaults = 2
INVARIANTS
    TypeOK
    ReadyToDraw
    TearingAllowed
PROPERTIES
    LeaseKept
    

