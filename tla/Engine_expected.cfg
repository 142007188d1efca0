SPECIFICATION Spec
CONSTANTS
    NumChunks = 3
    Workers = {w1, w2}
    MaxAttempts = 1
    Interval = 1
    Adaptive = TRUE
    PlanBatch = 2
    HasManifest = FALSE
    ExpectedHash = TRUE
    Corruption = TRUE
    Routing = TRUE
    CallbackErrors = TRUE
    Interrupts = TRUE
    DiskErrors = FALSE
    MaxSessions = 2
    MaxCrashes = 1
SYMMETRY WorkerSymmetry
INVARIANT DeliversOnlyExpected
INVARIANT BytesAreResumable
INVARIANT OnePlacePerChunk
INVARIANT LossIsBounded
PROPERTY CompleteIsFinal
CHECK_DEADLOCK FALSE
