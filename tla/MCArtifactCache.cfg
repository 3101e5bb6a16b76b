SPECIFICATION Spec
CONSTANTS
    p1 = p1
    p2 = p2
    a = a
    b = b
    c = c
    NoLease = NoLease
    Processes <- MCProcesses
    Ids <- MCIds
    Size <- MCSize
    Batch <- MCBatch
    MaxArtifacts = 2
    MaxBytes = 3
    MaxDamage = 1
    MaxFaults = 1
INVARIANTS
    StoreWithinBounds
    AssemblyFindsEverything
PROPERTIES
    ValidEntriesAreKept
    EveryProcessEnds
