\* Is an idle connection outside any transaction when calls are abandoned?
SPECIFICATION Spec
CONSTANTS
    Tasks = {t1, t2}
    Conns = {c1, c2}
    None = None
    MAX_SIZE = 1
    MIN_IDLE = 0
    HealthCheck = FALSE
    Expiry = FALSE
    Abandon = TRUE
INVARIANTS
    IdleIsClean
SYMMETRY PoolSymmetry
