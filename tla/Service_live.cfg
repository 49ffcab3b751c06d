CONSTANTS
    Task <- OneTask
    Schedule <- EachTick
    Overlapping <- OneTask
    Editable <- None
    MisfireGrace = 1
    Concurrency = 1
    Faults = {}
    MaxFaults = 0
    MaxTime = 3
    MaxStarts = 1
    MaxRuns = 4
SPECIFICATION FairSpec
CHECK_DEADLOCK FALSE
PROPERTIES
    ShutdownCompletes
    DispatchNeverBlocks
    EveryRunServed
