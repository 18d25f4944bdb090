SPECIFICATION Spec
CONSTANTS
    Tenants = 2
    MaxSavepoints = 1
    MaxWrites = 2
    MaxDrops = 1
    Streams = TRUE
    CommitFails = TRUE
    Fatal = TRUE
INVARIANT FailedScopeLeavesNothing
INVARIANT OkScopeIsPermanent
INVARIANT NothingStaysOpen
