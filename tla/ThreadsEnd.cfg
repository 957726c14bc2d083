SPECIFICATION FairSpec
CONSTANTS
    Workers = {w1, w2}
    Events = {e1, e2}
    Main = main
    None = None
    Env <- Creators
INVARIANTS
    ContextIsAlive
    NoBackgroundThreads
PROPERTIES
    EveryEventRuns
    CallsReturn
CHECK_DEADLOCK FALSE
