CONSTANTS
    j1 = j1
    Jobs = {j1}
    MaxWorkers = 1
    MaxQueueDepth = 1
    RecycleAfterJobs = 2
    IdleTtl = TRUE
    UsizeModulus = 16
    Timed = {j1}
    Oversized = {j1}
    MaxAttempts = 1
    OutCap = 1
    None = None
    Noise = Noise
SPECIFICATION FairSpec
PROPERTY EveryCallReturns
CHECK_DEADLOCK FALSE
