SPECIFICATION Spec
CONSTANTS
    None = None
    MaxUpdates = 2
    BatchLimit = 2
    MaxStarts = 1
    SkipFails = TRUE
INVARIANTS
    OldIsNeverHandled
CHECK_DEADLOCK FALSE
