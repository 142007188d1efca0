SPECIFICATION Spec
CONSTANTS
    NumChunks = 2
    Workers = {w1, w2}
    MaxAttempts = 2
    Interval = 2
    Adaptive = FALSE
    PlanBatch = 2
    HasManifest = TRUE
    ExpectedHash = FALSE
    Corruption = TRUE
    Routing = FALSE
    CallbackErrors = TRUE
    Interrupts = FALSE
    DiskErrors = TRUE
    MaxSessions = 3
    MaxCrashes = 2
SYMMETRY WorkerSymmetry
INVARIANT TypeOK
INVARIANT CompleteIsOnDisk
INVARIANT FinalizesOnlyWhole
PROPERTY ImplementsPromise
CHECK_DEADLOCK FALSE
