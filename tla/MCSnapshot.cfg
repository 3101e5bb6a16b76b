SPECIFICATION Spec
CONSTANTS
    NanosPerSecond = 10
    OutputRate <- MCOutputRate
    MaxFrame = 8
    MaxScenes = 2
    MaxShots = 3
    MaxAudioTracks = 3
    MaxDuckingWindows = 1
    SampleRate = 5
    DuckingAttack = 1
    DuckingRelease = 1
    AuthoredShots <- MCAuthoredShots
    CueTimes <- MCCueTimes
    MusicTracks <- MCMusicTracks
    CaptionTracks <- MCCaptionTracks
    NativeAssets = {"clip", "other"}
    Canvas <- MCCanvas
    Rasters <- MCRasters
    Box <- MCBox
    PositionScale = 4
    MaxMediaLayouts = 2
    MaxCheckpoints = 7
CHECK_DEADLOCK FALSE
INVARIANTS
    EveryFrameHasASnapshot
