SPECIFICATION Spec
CONSTANTS
    Streams <- TwoStreams
    Asks <- Requests
    MaxOthers = 1
    MaxDrops = 1
    MayDie = TRUE
INVARIANT HonestRows
INVARIANT LeavesNothing
PROPERTY Finishes
CHECK_DEADLOCK FALSE
