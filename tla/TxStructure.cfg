SPECIFICATION FairSpec
CONSTANTS
    MaxItems = 3
    MaxNesting = 3
    MaxCalls = 9
    Counts <- MCCounts
    Env <- AnyFault
INVARIANTS
    OneHolder
    WithinMaxCount
    PopsWhatItPeeked
PROPERTIES
    CallsReturn
    OnlyOpenBatchesStrand
CHECK_DEADLOCK FALSE
