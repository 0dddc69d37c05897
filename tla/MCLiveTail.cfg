CONSTANTS
    Subscribers = {s1}
    AutoIncrement = TRUE
    SseLimit = 2
    KeepAlive = 2
    MaxTs = 2
    MaxBatch = 2
    MaxLogs = 3
SPECIFICATION FairSpec
INVARIANTS TypeOK NothingSkipped AtMostOnce
PROPERTIES TailComplete GoneClientsReaped
CHECK_DEADLOCK FALSE
