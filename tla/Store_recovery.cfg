SPECIFICATION Spec
CONSTANTS
    Savers = {s1}
    MaxSaves = 2
    MaxFaults = 2
    BackupEnabled = TRUE
    ReplaceFails = TRUE
    DirSyncFails = FALSE
    DiskErrors = FALSE
    PowerLoss = FALSE
INVARIANT AlwaysResumable
CHECK_DEADLOCK FALSE
