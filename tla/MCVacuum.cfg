CONSTANTS
    PageSize = 4
    BasePages = 1
    MaxSize = 2
    TargetSize = 2
    MaxAge = 1
    Budget = 2
    HasTimestamp = TRUE
    MaxTime = 4
    MaxInserts = 5
    MaxStops = 1
SPECIFICATION FairSpec
INVARIANT TypeOK
PROPERTIES FreshOnlyWhenOver Trimmed ExpiredGone
