SPECIFICATION FairSpec
CONSTANTS
    scene = scene
    mesh = mesh
    image = image
    Paths <- MCPaths
    Kind <- MCKind
    Reads <- MCReads
    Trees <- MCTrees
    OldTrees <- MCOldTrees
    Readers = {r}
    None = None
    MaxContent = 2
    Dup = 2
    MaxRuns = 2
    MaxEvents = 1
INVARIANTS TypeOK ReadsWhole InLine
CHECK_DEADLOCK FALSE
PROPERTY PassEnds
