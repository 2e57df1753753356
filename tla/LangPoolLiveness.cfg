CONSTANTS
    j1 = j1
    j2 = j2
    Jobs = {j1, j2}
    MaxWorkers = 1
    MaxQueueDepth = 1
    RecycleAfterJobs = 2
    IdleTtl = TRUE
    UsizeModulus = 16
    Timed = {j1, j2}
    Oversized = {}
    MaxAttempts = 2
    OutCap = 1
    None = None
    Noise = Noise
SPECIFICATION FairSpec
INVARIANT WorkerBound
PROPERTIES EveryCallReturns ReaperDrains
CHECK_DEADLOCK FALSE
