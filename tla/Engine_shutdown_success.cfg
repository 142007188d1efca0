SPECIFICATION Spec
CONSTANTS
    NumChunks = 2
    Workers = {w1, w2}
    MaxAttempts = 1
    Interval = 1
    Adaptive = FALSE
    PlanBatch = 2
    HasManifest = FALSE
    ExpectedHash = FALSE
    Corruption = FALSE
    Routing = FALSE
    CallbackErrors = FALSE
    Interrupts = TRUE
    DiskErrors = FALSE
    MaxSessions = 1
    MaxCrashes = 0
SYMMETRY WorkerSymmetry
INVARIANT ShutdownIsNotSuccess
CHECK_DEADLOCK FALSE
