CONSTANTS
    Day = 8
    Horizon = 12
    MaxTick = 2
    Zone <- GreenwichZone
    Definition <- EveryDefinition
    Beginnings <- FirstDay
SPECIFICATION Spec
CHECK_DEADLOCK FALSE
INVARIANT
    DueExact
