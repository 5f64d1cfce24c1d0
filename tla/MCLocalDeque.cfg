SPECIFICATION FairSpec

CONSTANTS
    p1 = p1
    p2 = p2
    Thieves = {p1, p2}
    SLOT_LENGTH = 3
    MaxTasks = 4

CHECK_DEADLOCK FALSE

INVARIANTS
    TypeOK
    ExactlyOnce
    NoTaskLost
    NeverFull

PROPERTIES
    EveryTaskTaken
