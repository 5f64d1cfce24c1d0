SPECIFICATION FairSpec
CONSTANTS
    scene = scene
    mesh = mesh
    image = image
    Paths <- MCPaths
    Kind <- MCKind
    Reads <- MCReads
    Trees <- MCTrees
    OldTrees <- MCOldTrees
    Readers = {}
    None = None
    MaxContent = 2
    Dup = 2
    MaxRuns = 1
    MaxEvents = 0
PROPERTY RunEnds
CHECK_DEADLOCK FALSE
