SPECIFICATION FairSpec
CONSTANTS
    w1 = w1
    w2 = w2
    NoWorker = NoWorker
    MaxId = 2
    Secret = {}
    Poison = {}
    Workers = {w1}
    Queued = {1}
    Retagged = {2}
    MaxAttempts = 2
    BatchSize = 2
    MaxOutages = 1
    MaxCrashes = 1
INVARIANTS
    TypeOK
    OwnVector
    VectorHasMemory
PROPERTIES
    EventuallyEmbedded
    JobsSettle
CHECK_DEADLOCK FALSE
