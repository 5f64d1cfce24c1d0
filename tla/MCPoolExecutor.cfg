SPECIFICATION MCSpec

CONSTANTS
    s1 = s1
    Budget = 3
    NumWorkers = 2
    Spawners = {s1}
    CAP = 2
    MaxTasks = 3
    MaxScopes = 1
    MaxPokes = 1
    MaxTicks = 1
    MaxDrops = 1

CHECK_DEADLOCK FALSE

INVARIANTS
    TypeOK
    LoungeCounts
    NoLostWakeup

PROPERTIES
    WorkConserving
    EveryTaskRuns
    PoolStops
