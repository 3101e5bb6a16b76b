SPECIFICATION RuntimeSpec
CONSTANTS
    hold = hold
    late = late
    brief = brief
    None = None
    Frames <- MCFrames
    Plans <- MCPlans
    VideoOrder <- MCVideoOrder
    MediaTime <- MCMediaTime
    MaxConcurrent = 2
INVARIANTS
    LifecycleAgreement
    NothingOutlivesItsCommand
    FrameReadyIsExact
    DisposalReleasesEverything
PROPERTIES
    VideoWorkEnds
