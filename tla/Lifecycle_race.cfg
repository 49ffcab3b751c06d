SPECIFICATION Spec
CONSTANTS
    Pid = {p1, p2}
    Client = {c1, c2}
    p1 = p1
    p2 = p2
    c1 = c1
    c2 = c2
    Nobody = Nobody
    Foreground = TRUE
    MaxCommands = 3
    MaxCrashes = 1
SYMMETRY Symmetry
CHECK_DEADLOCK FALSE
INVARIANTS
    TypeOK
    SingleService
    RowFollowsService
    Published
PROPERTIES
    NotRunningIsTrue
    StartedMeansServing
