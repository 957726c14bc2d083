SPECIFICATION Spec
CONSTANTS
    Dirs = {"a", "b"}
    Root = "a"
    Kinds = {"remove", "list", "download", "upload"}
    MaxRequests = 2
    MaxLosses = 1
    MaxStops = 1
    Attempts = 1
    Env <- Trouble
    None = None
INVARIANTS
    TypeOK
    RepliesFindTheirCommands
    CarriedOutInContext
    ReportsAreTrue
PROPERTIES
    ReportedOnce
CHECK_DEADLOCK FALSE
