CONSTANTS
    Day = 8
    Horizon = 26
    MaxTick = 10
    Zone <- Zones
    Definition <- Definitions
    Beginnings <- FirstDay
SPECIFICATION FairSpec
CHECK_DEADLOCK FALSE
INVARIANTS
    TypeOK
    InOrderOnce
    DueExact
    OnceADay
PROPERTY
    DueEnds
