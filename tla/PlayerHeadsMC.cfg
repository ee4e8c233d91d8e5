SPECIFICATION Spec
CONSTANTS
    Players = {alex, steve, zuri}
    Workers = {w1}
    NoPlayer = nobody
    Outcomes = {"ok", "failed", "left", "unavailable"}
    MaxDescriptors = 2
    MaxCached = 1
    MaxTextures = 1
    MaxQueue = 1
SYMMETRY PlayerSymmetry
INVARIANTS
    TypeOK
    DescriptorsConserved
