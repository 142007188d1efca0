SPECIFICATION Spec
CONSTANTS
    FileSize = 9
    MinSize = 1
    MaxSize = 4
    DefaultSizes = {2, 3, 5}
    NumWorkers = 2
    PlanBatch = 2
    ResumeAdaptive = {TRUE, FALSE}
    MaxSessions = 3
INVARIANT NeverPlannedTwice
INVARIANT IndicesAreUnique
INVARIANT FreshDeliveriesCover
CHECK_DEADLOCK FALSE
