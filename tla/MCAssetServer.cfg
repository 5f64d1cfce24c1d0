SPECIFICATION FairSpec
CONSTANTS
    x = x
    y = y
    z = z
    None = None
    App = App
    Paths <- MCPaths
    Asked = {x}
    Deps <- MCDeps
    Waiters = {w}
    MaxEntries <- MCEntries
    MaxRequests = 2
INVARIANTS TypeOK HandleKeepsEntry DropIsComing WaitsForLoading LoadedIsLoaded
CHECK_DEADLOCK FALSE
PROPERTY WaiterReturns
