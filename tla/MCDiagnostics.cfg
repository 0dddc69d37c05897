CONSTANTS
    Threads = {t1, t2}
    Interval = 1
    Retention = 2
    MaxTime = 4
    MaxObservations = 2
    MaxItems = 2
    MaxStops = 1
    MaxSets = 1
SPECIFICATION Spec
INVARIANTS TypeOK Accounted DisjointWindows AnswerPaired
CHECK_DEADLOCK FALSE
SYMMETRY Symmetry
