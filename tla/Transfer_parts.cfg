SPECIFICATION Spec
CONSTANTS
    Thieves = {p1, p2}
    MaxTasks = 3
    FirstCapacity = 1
    StealAttempts = 2
    Pool = {w1, w2, w3}
    FileSize = 8
    MinSplit = 1
    Factor = 2
    Throughputs = {1}
    UseIdleCapacity = TRUE
    Callers = {c1, c2}
    FirstRate = 2
    OtherRates = {1, 2}
    Amounts = {1, 3}
    MaxTime = 2
    MaxGranted = 4
    Size = 5
    SubBlock = 2
    Flush = 2
    MaxPiece = 3
    FetchAttempts = 3
    Digests = {d1, d2}
    MaxLeaves = 5
    Assemblers = {a1, a2}
    StagedChunks = 3
    MaxDeaths = 1
    Writers = {t1, t2}
    TotalSize = 3
    Recorders = {r1, r2}
    Bounds = {1, 2}
    Durations = {0, 1, 3}
    ChunkBytes = 1
    MaxChunks = 3
    ResponseLimit = 4
    MaxHeaders = 3
    Rtts = {1, 3}
    TransferSizes = {0, 2, 4}
    TransferTimes = {0, 1, 2}
    WindowSize = 2
    ControllerMin = 2
    ControllerMax = 16
    ControllerDefault = 4
    Mss = 1
    Overhead = 1
    MaxOutcomes = 4
INVARIANT PartsTypeOK
INVARIANT SwapTakesAQueuedTask
INVARIANT EveryByteOnce
INVARIANT SplitsAreSound
INVARIANT GrantsAreEarned
INVARIANT WakesWhenEarned
INVARIANT PrefixIsVerified
INVARIANT DigestIsOfTheChunk
INVARIANT ChecksSayTheTruth
INVARIANT AssemblyIsAtomic
INVARIANT WritesLandWhole
INVARIANT ScrapeIsConsistent
INVARIANT TunnelStartsAtPayload
INVARIANT SizingRestsOnEvidence
INVARIANT ResumableInPlace
PROPERTY ImplementsWorkQueue
CHECK_DEADLOCK FALSE
