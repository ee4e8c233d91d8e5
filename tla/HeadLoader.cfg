SPECIFICATION FairSpec
CONSTANTS
    Workers = {w1, w2, w3}
    NoWorker = nobody
    MaxRequests = 2
INVARIANTS
    TypeOK
    NoTaskForgotten
PROPERTIES
    PoolKept
    TasksFinish
