SPECIFICATION Spec
CONSTANTS
    MaxEffects = 2
    MaxPlaceholders = 2
    MaxNesting = 1
    MaxDepth = 2
    Places = {"here"}
    Env <- Everyone
INVARIANTS
    TypeOK
    OneUndoPerBatch
    AbsorbersClosed
PROPERTIES
    EditorImplementsHistory
CHECK_DEADLOCK FALSE
