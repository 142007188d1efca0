SPECIFICATION FairSpec
CONSTANTS
    Mirrors = {m1, m2}
    Workers = {w1, w2}
    NumChunks = 2
    MaxAttempts = 5
    Threshold = 3
    BaseCooldown = 1
    MaxCooldown = 2
    Backoff = 2
    Patience = 1
    ZeroDuration = FALSE
PROPERTY WaitFailsOnlyInCooldown
CHECK_DEADLOCK FALSE
