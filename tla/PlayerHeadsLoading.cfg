SPECIFICATION FairSpec
CONSTANTS
    Players = {alex, steve}
    Workers = {w1}
    NoPlayer = nobody
    Outcomes = {"ok", "failed"}
    MaxDescriptors = 2
    MaxCached = 2
    MaxTextures = 1
    MaxQueue = 4
INVARIANTS
    LoadingIsUnderway
    OwnHead
PROPERTIES
    HeadsSettle
