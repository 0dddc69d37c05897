CONSTANTS
    MaxSize = 2
    FlushInterval = 1
    MaxBody = 2
    MaxAccepted = 5
    MaxRestarts = 1
SPECIFICATION FairSpec
INVARIANTS TypeOK InOrder Accounted GoneForGood DropOldest WatermarkExact Announced
PROPERTIES ImplementsOrderedStore Settles
CHECK_DEADLOCK FALSE
