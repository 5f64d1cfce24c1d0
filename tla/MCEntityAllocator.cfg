SPECIFICATION FairSpec

CONSTANTS
    l1 = l1
    l2 = l2
    r1 = r1
    r2 = r2
    Locals = {l1, l2}
    Remotes = {r1, r2}
    BITS = 2
    NUM_CHUNKS = 2
    LOCAL_SIZE = 1
    GENERATIONS = 5
    MaxCount = 3
    MaxOps = 4

CHECK_DEADLOCK FALSE

INVARIANTS
    TypeOK
    UniqueHandOut
    NoIdLost
    UnderflowHarmless

PROPERTIES
    RemoteReturns
