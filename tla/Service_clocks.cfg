CONSTANTS
    Task <- OneTask
    Schedule <- EachTick
    Overlapping <- OneTask
    Editable <- OneTask
    MisfireGrace = 1
    Concurrency = 2
    Faults = {"suspend", "setback", "store", "definition"}
    MaxFaults = 1
    MaxTime = 3
    MaxStarts = 1
    MaxRuns = 4
SPECIFICATION Spec
CHECK_DEADLOCK FALSE
INVARIANTS
    NoOverlap
    NoSilentLoss
