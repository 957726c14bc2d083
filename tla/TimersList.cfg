SPECIFICATION Spec
CONSTANTS
    Timers = {t1, t2}
    Types <- ReArmed
    Delays = {1, 2}
    Env <- Delaying
    MaxCalls = 3
    MaxNesting = 1
    MaxEvents = 1
    MaxLate = 1
    MaxOversleep = 1
    MaxAdjustment = 1
    None = None
INVARIANTS
    ListedOnce
    NoOversleep
CHECK_DEADLOCK FALSE
SYMMETRY Symmetric
