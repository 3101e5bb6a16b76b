SPECIFICATION Spec
CONSTANTS
    hold = hold
    late = late
    None = None
    Jobs <- MCJobs
    Frames <- MCFrames
    Plans <- MCPlans
    VideoOrder <- MCVideoOrder
    MediaTime <- MCMediaTime
    MaxConcurrent = 2
INVARIANTS
    TicksAdvance
PROPERTIES
    PagesAreDisposed
    DeliversTheFilm
