SPECIFICATION Spec
CONSTANTS
    Savers = {s1, s2}
    MaxSaves = 3
    MaxFaults = 3
    BackupEnabled = TRUE
    ReplaceFails = FALSE
    DirSyncFails = FALSE
    DiskErrors = TRUE
    PowerLoss = TRUE
SYMMETRY SaverSymmetry
INVARIANT TypeOK
INVARIANT NeverTorn
INVARIANT NotRolledBack
INVARIANT AlwaysResumable
PROPERTY ImplementsRegister
CHECK_DEADLOCK FALSE
