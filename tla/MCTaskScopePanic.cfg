SPECIFICATION Spec
CONSTANTS
    MaxTasks = 2
    MaxYields = 1
CHECK_DEADLOCK FALSE
INVARIANTS
    DrivenToCompletion
