SPECIFICATION FairSpec
CONSTANTS
    Threads = {t1, t2, t3}
    Events = {e1}
    Callers <- TwoCallers
    ThreadLimit = 2
    IdleThreadLimit = 1
    Limits <- NoLimits
    IdleLimits <- OnlyZero
    Env <- StopsWaits
    None = None
INVARIANTS
    ServedUntilShutdown
PROPERTIES
    EveryEventRuns
    CallsReturn
    WorkersEnd
CHECK_DEADLOCK FALSE
