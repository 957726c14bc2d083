SPECIFICATION SpecHistory
CONSTANTS
    MaxItems = 4
    MaxNesting = 3
    MaxCalls = 9
    Counts <- MCCounts
    Env <- Failing
INVARIANTS
    ChildrenUndoneFirst
    InContext
PROPERTIES
    FailureRecovers
    ImplementsHistory
CHECK_DEADLOCK FALSE
