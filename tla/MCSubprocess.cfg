SPECIFICATION Spec
CONSTANTS
    Kinds <- MCKinds
    Frames = 2
    Output = 3
    Limit = 1
    Pipe = 1
INVARIANTS
    NothingIsLeft
    SuccessIsObserved
    NobodyBlocksTheChild
PROPERTIES
    EveryCallEnds
