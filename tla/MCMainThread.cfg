SPECIFICATION FairSpec

CONSTANTS
    o1 = o1
    Others = {o1}
    MaxTasks = 4
    MaxPushed = 2
    MaxNested = 2
    MaxSuspended = 1

CHECK_DEADLOCK FALSE

INVARIANTS
    TypeOK
    NoMainTaskStranded
    NoLocalTaskStranded

PROPERTIES
    MainTasksRun
    NestedCallsEnd
