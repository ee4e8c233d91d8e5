SPECIFICATION FairSpec
CONSTANTS
    Workers = {w1}
    NoWorker = nobody
    MaxRequests = 1
PROPERTIES
    StopReturns
