SPECIFICATION FairSpec

CONSTANTS
    MaxTasks = 3
    MaxYields = 3

CHECK_DEADLOCK FALSE

INVARIANTS
    TypeOK
    ScopeWaits
    ResultsComplete

PROPERTIES
    ScopeEnds
