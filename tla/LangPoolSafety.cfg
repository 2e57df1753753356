CONSTANTS
    j1 = j1
    j2 = j2
    j3 = j3
    Jobs = {j1, j2, j3}
    MaxWorkers = 2
    MaxQueueDepth = 0
    RecycleAfterJobs = 2
    IdleTtl = TRUE
    UsizeModulus = 16
    Timed = {j1, j2, j3}
    Oversized = {}
    MaxAttempts = 2
    OutCap = 1
    None = None
    Noise = Noise
SPECIFICATION Spec
SYMMETRY JobSymmetry
INVARIANTS TypeOK AdmissionBound NoLeak
PROPERTY KeepsContract
CHECK_DEADLOCK FALSE
