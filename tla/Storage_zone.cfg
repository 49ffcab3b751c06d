CONSTANTS
    Process = {p1, p2}
    Daemon = {p1}
    p1 = p1
    p2 = p2
    Nobody = Nobody
    Nuker = Nuker
    Task = {t1}
    t1 = t1
    NewestVersion = 2
    MaxFiles = 0
    MaxOpens = 1
    MaxFaults = 0
    Moment <- Instants
    Zones <- AllInUtc
    MaxRuns = 2
SPECIFICATION Spec
CHECK_DEADLOCK FALSE
INVARIANT
    LastRunIsLatest
