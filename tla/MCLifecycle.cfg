CONSTANTS
    Clients = {c1, c2}
    Readers = {r1, r2}
    Connections = {d1, d2}
    Tasks = {flush, vacuum}
    Callers = {q1}
    MaxAccepts = 2
SPECIFICATION FairSpec
INVARIANTS TypeOK NoUseAfterClose ExclusiveLease NeverWaits
PROPERTY StopEnds
CHECK_DEADLOCK FALSE
