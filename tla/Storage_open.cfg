CONSTANTS
    Process = {p1, p2}
    Daemon = {p1}
    p1 = p1
    p2 = p2
    Nobody = Nobody
    Nuker = Nuker
    Task = {t1}
    t1 = t1
    NewestVersion = 2
    MaxFiles = 1
    MaxOpens = 2
    MaxFaults = 1
    Moment <- Instants
    Zones <- Mixed
    MaxRuns = 2
SPECIFICATION FairSpec
CHECK_DEADLOCK FALSE
INVARIANTS
    TypeOK
    AlwaysComplete
    AppliedOnce
    UsersFindTheirTables
    ServiceKeepsItsDatabase
    LatestAtOneOffset
    LatestWithinOffsets
PROPERTIES
    LegacyIsLegacy
    ImplementsSchema
    EveryOpenEnds
