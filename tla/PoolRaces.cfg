SPECIFICATION Spec
CONSTANTS
    Threads = {t1, t2, t3, t4}
    Events = {e1, e2, e3}
    Callers <- TwoCallers
    ThreadLimit = 2
    IdleThreadLimit = 1
    Limits <- OnlyOne
    IdleLimits <- NoLimits
    Env <- Anything
    None = None
SYMMETRY Symmetric
INVARIANTS
    CountsIdleWorkers
    EachThreadHasOneOwner
    WorkersWithinLimit
    ShutdownJoins
CHECK_DEADLOCK FALSE
