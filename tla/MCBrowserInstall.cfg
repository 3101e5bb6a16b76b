SPECIFICATION Spec
CONSTANTS
    p1 = p1
    p2 = p2
    Free = Free
    Empty = Empty
    Processes <- MCPair
    Posix = FALSE
    MaxPolls = 2
    MaxStalls = 1
    MaxKills = 1
INVARIANTS
    LeaseExcludes
    ReturnedBrowserStays
PROPERTIES
    SuccessorIsSafe
    EveryInstallerEnds
