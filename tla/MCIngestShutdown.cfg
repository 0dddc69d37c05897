CONSTANTS
    MaxSize = 2
    FlushInterval = 1
    MaxBody = 1
    MaxAccepted = 2
    MaxRestarts = 0
SPECIFICATION Spec
INVARIANT CleanShutdownKeepsAll
CHECK_DEADLOCK FALSE
