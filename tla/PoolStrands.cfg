SPECIFICATION Spec
CONSTANTS
    Threads = {t1, t2, t3}
    Events = {e1, e2}
    Callers <- TwoCallers
    ThreadLimit = 2
    IdleThreadLimit = 1
    Limits <- NoLimits
    IdleLimits <- NoLimits
    Env <- Stops
    None = None
INVARIANTS
    NoEventStranded
CHECK_DEADLOCK FALSE
