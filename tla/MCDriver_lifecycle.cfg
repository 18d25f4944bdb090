\* Two calls of three kinds, a query that turns out to be a COPY FROM STDIN
\* among them, a two-slot channel, Session::close and drop, and handles that
\* outlive the Session.
SPECIFICATION FairSpec
CONSTANTS
    SessionCalls = {c1}
    HandleCalls = {h1}
    None = None
    Kinds = {"BindPortal", "CopyIn", "SimpleQuery"}
    COMMAND_BUFFER = 2
    TxStatus = {"I"}
    MaxRows = 0
    MaxSets = 1
    MaxNotices = 1
    CopyViaQuery = TRUE
PROPERTIES
    EveryCallAnswered
    DriverEnds
    ServesInOrder
