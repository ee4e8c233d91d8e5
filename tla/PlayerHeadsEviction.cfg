SPECIFICATION Spec
CONSTANTS
    Players = {alex, steve}
    Workers = {w1}
    NoPlayer = nobody
    Outcomes = {"ok"}
    MaxDescriptors = 2
    MaxCached = 1
    MaxTextures = 2
    MaxQueue = 2
INVARIANTS
    OnlyUnusedFreed
