SPECIFICATION FairSpec
CONSTANTS
    Mirrors = {m1, m2}
    Workers = {w1, w2}
    NumChunks = 3
    MaxAttempts = 3
    Threshold = 1
    BaseCooldown = 1
    MaxCooldown = 2
    Backoff = 2
    Patience = 1
    ZeroDuration = TRUE
INVARIANT TypeOK
INVARIANT BreakerMatchesFailures
INVARIANT EveryRequestAccounted
INVARIANT RetriesGoElsewhere
PROPERTY ClosesEarlyOnlyForOldRequests
PROPERTY SessionEnds
CHECK_DEADLOCK FALSE
