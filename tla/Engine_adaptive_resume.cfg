SPECIFICATION Spec
CONSTANTS
    NumChunks = 2
    Workers = {w1, w2}
    MaxAttempts = 1
    Interval = 1
    Adaptive = TRUE
    PlanBatch = 1
    HasManifest = FALSE
    ExpectedHash = FALSE
    Corruption = FALSE
    Routing = FALSE
    CallbackErrors = FALSE
    Interrupts = FALSE
    DiskErrors = FALSE
    MaxSessions = 2
    MaxCrashes = 1
SYMMETRY WorkerSymmetry
INVARIANT EmptyQueueIsNotTheEnd
CHECK_DEADLOCK FALSE
