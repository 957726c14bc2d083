SPECIFICATION SpecCounted
CONSTANTS
    MaxEffects = 3
    MaxPlaceholders = 2
    MaxNesting = 1
    MaxDepth = 2
    Places = {}
    Env <- Everyone
INVARIANTS
    CountIsExact
CHECK_DEADLOCK FALSE
