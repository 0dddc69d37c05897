CONSTANTS
    Processes = {p1, p2}
    Migrations <- MCMigrations
    Base = "base"
    StartVersions = {0, 2}
    MaxCommands = 3
    MaxCrashes = 1
    MaxFaults = 1
SPECIFICATION FairSpec
INVARIANTS TypeOK AllOrNothing InOrder OnlyRepeatableTwice
PROPERTY BootTerminates
CHECK_DEADLOCK FALSE
