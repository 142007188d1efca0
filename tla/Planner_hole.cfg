SPECIFICATION Spec
CONSTANTS
    FileSize = 9
    MinSize = 1
    MaxSize = 4
    DefaultSizes = {2, 3}
    NumWorkers = 2
    PlanBatch = 2
    ResumeAdaptive = {TRUE}
    MaxSessions = 2
CHECK_DEADLOCK FALSE
INVARIANT DeliveriesCover
