SPECIFICATION Spec
CONSTANTS
    Sources <- SomeSources
    Root <- Directories
    Runners <- TwoOfThem
    Pooled <- OnePooled
    Bigint = 3
    ReuseOpen = FALSE
    MaxCalls = 2
    MaxSteps = 2
    MaxFaults = 2
INVARIANT EffectsMatchRows
INVARIANT OkMeansDone
INVARIANT NothingLeft
PROPERTY Implements
PROPERTY CallsReturn
CHECK_DEADLOCK FALSE
