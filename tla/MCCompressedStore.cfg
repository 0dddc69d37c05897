CONSTANTS
    Columns = {level, service}
    five = five
    padded = padded
    other = other
    Values <- MCValues
    Text <- MCText
    Affinity <- MCAffinity
    Null = null
    Filters <- MCFilters
    MaxRows = 3
    MaxRestarts = 1
SPECIFICATION Spec
INVARIANTS TypeOK Readable OneToOne QueryExact
CHECK_DEADLOCK FALSE
SYMMETRY Symmetry
