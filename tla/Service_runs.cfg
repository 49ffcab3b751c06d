CONSTANTS
    Task <- TwoTasks
    Schedule <- Mixed
    Overlapping <- None
    Editable <- None
    MisfireGrace = 2
    Concurrency = 1
    Faults = {"crash"}
    MaxFaults = 1
    MaxTime = 4
    MaxStarts = 2
    MaxRuns = 4
SPECIFICATION Spec
CHECK_DEADLOCK FALSE
PROPERTY
    ImplementsPool
INVARIANTS
    TypeOK
    CountersExact
    NoOverlap
    ConcurrencyLimit
    MisfireSkipped
    RecordedInOrder
    AtMostOnce
    HeartbeatHonest
    StoppedMeansQuiet
    CommandsApart
