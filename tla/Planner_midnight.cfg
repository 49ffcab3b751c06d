CONSTANTS
    Day = 8
    Horizon = 30
    MaxTick = 4
    Zone <- MidnightZones
    Definition <- NoonDefinition
    Beginnings <- FirstDay
SPECIFICATION Spec
CHECK_DEADLOCK FALSE
INVARIANT
    OnceADay
