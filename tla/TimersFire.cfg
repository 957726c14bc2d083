SPECIFICATION FairSpec
CONSTANTS
    Timers = {t1}
    Types <- Every
    Delays = {2}
    Env <- Stopping
    MaxCalls = 3
    MaxNesting = 2
    MaxEvents = 2
    MaxLate = 1
    MaxOversleep = 4
    MaxAdjustment = 1
    None = None
PROPERTIES
    NothingAfterCancel
    NeverEarly
    OneShotFiresOnce
    TimersFire
    ThreadEnds
CHECK_DEADLOCK FALSE
