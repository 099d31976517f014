CONSTANTS
    s1 = s1
    s2 = s2
    p1 = p1
    Stations <- TwoStations
    Passes <- OnePass
    Limit = 1
    Lookback = 1
    MaxClock = 2
    MaxReleases = 2
SPECIFICATION FairSpec
INVARIANTS
    SkipsNothing
PROPERTIES
    ReleaseIsPlanned
CHECK_DEADLOCK FALSE
