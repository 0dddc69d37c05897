CONSTANTS
    Subscribers = {s1}
    AutoIncrement = FALSE
    SseLimit = 2
    KeepAlive = 1
    MaxTs = 2
    MaxBatch = 2
    MaxLogs = 2
SPECIFICATION Spec
INVARIANT NothingSkipped
CHECK_DEADLOCK FALSE
