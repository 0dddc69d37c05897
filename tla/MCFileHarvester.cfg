CONSTANTS
    Length <- MCLengthLive
    MaxLineBytes = 1
    ReadBufferSize = 2
    StartAtEnd = TRUE
    FlushPartial = TRUE
    MaxFiles = 2
    MaxTroubles = 1
SPECIFICATION FairSpec
INVARIANTS TypeOK OnceUnlessRaced ReadLinesIngested
PROPERTY Tailed
CHECK_DEADLOCK FALSE
