SPECIFICATION FairSpec
CONSTANTS
    NumChunks = 3
    Workers = {w1, w2}
    MaxAttempts = 2
    Interval = 1
    Adaptive = TRUE
    PlanBatch = 2
    HasManifest = FALSE
    ExpectedHash = FALSE
    Corruption = FALSE
    Routing = TRUE
    CallbackErrors = FALSE
    Interrupts = TRUE
    DiskErrors = TRUE
    MaxSessions = 1
    MaxCrashes = 1
PROPERTY SessionEnds
CHECK_DEADLOCK FALSE
