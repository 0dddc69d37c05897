CONSTANTS
    Columns = {level}
    five = five
    padded = padded
    other = other
    Values <- MCValues
    Text <- MCText
    Affinity <- MCAffinity
    Null = null
    Filters <- MCFilters
    MaxRows = 3
    MaxRestarts = 1
SPECIFICATION Spec
INVARIANT ReadableAfterRestart
CHECK_DEADLOCK FALSE
