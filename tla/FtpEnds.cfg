SPECIFICATION FairSpec
CONSTANTS
    Dirs = {"a", "b"}
    Root = "a"
    Kinds <- AllKinds
    MaxRequests = 1
    MaxLosses = 2
    MaxStops = 1
    Attempts = 1
    Env <- Trouble
    None = None
PROPERTIES
    RequestsEnd
    NoReconnectAfterDisconnect
CHECK_DEADLOCK FALSE
