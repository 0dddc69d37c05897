CONSTANTS
    Length <- MCLength
    MaxLineBytes = 2
    ReadBufferSize = 2
    StartAtEnd = FALSE
    FlushPartial = TRUE
    MaxFiles = 2
    MaxTroubles = 1
SPECIFICATION Spec
INVARIANT OnceUnlessRevisited
CHECK_DEADLOCK FALSE
