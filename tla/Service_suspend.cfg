CONSTANTS
    Task <- OneTask
    Schedule <- EachTick
    Overlapping <- None
    Editable <- None
    MisfireGrace = 1
    Concurrency = 1
    Faults = {"suspend"}
    MaxFaults = 1
    MaxTime = 5
    MaxStarts = 1
    MaxRuns = 4
SPECIFICATION Spec
CHECK_DEADLOCK FALSE
INVARIANT
    MisfireSkipped
