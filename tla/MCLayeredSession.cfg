SPECIFICATION Spec
CONSTANTS
    None = None
    N = 3
    Chunks = 2
    Pipe = 1
    Destination = "frames"
INVARIANTS
    NobodyWaitsInACircle
    SuccessIsObserved
    NothingIsLeft
PROPERTIES
    DeliversTheComposition
