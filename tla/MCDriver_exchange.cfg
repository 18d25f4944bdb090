\* Any two of seven kinds of command through one driver.
SPECIFICATION Spec
CONSTANTS
    SessionCalls = {}
    HandleCalls = {h1, h2}
    None = None
    Kinds = {"SimpleQuery", "ExtendedQuery", "Prepare", "ExecutePortal", "CloseStatement", "CopyIn", "ExecutePrepared"}
    COMMAND_BUFFER = 1
    TxStatus = {"I", "T"}
    MaxRows = 1
    MaxSets = 2
    MaxNotices = 0
    CopyViaQuery = TRUE
INVARIANTS
    ReplyIsOwn
    ReplyIsComplete
    FirstFaultReported
    IdleStatusFresh
SYMMETRY CallSymmetry
