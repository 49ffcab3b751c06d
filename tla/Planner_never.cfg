CONSTANTS
    Day = 8
    Horizon = 12
    MaxTick = 2
    Zone <- GreenwichZone
    Definition <- NeverDefinition
    Beginnings <- FirstDay
SPECIFICATION FairSpec
CHECK_DEADLOCK FALSE
PROPERTY
    DueEnds
