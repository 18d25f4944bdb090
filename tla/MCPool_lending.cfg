\* Two callers and the maintenance task for two slots, with health checks and
\* expiry, and callers that drop futures and connections anywhere.
SPECIFICATION FairSpec
CONSTANTS
    Tasks = {t1, t2}
    Conns = {c1, c2}
    None = None
    MAX_SIZE = 2
    MIN_IDLE = 1
    HealthCheck = TRUE
    Expiry = TRUE
    Abandon = TRUE
INVARIANTS
    Ownership
    SlotsAccounted
PROPERTIES
    Lends
    AcquireReturns
    ClosedPoolDrains
