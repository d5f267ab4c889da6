CONSTANTS
    Dimensions <- MCDimensions
    InitialDimensions = "160x90"
    Closed = "closed"
    Unusable = "unusable"
    NoUpdate = NoUpdate
    NoFrame = NoFrame
    MaxCaps <- MCMaxCaps
    MaxErrors <- MCMaxErrors
    Backends <- MCBackends
    UsizeMax = 1000000
    U32Max = 65535
    ScreenSizes <- MCSizes
SPECIFICATION FairSpec
INVARIANTS
    NoCapsLost
    NothingLeftBehind
    MasksFollowPolygons
PROPERTIES
    RefusalIsFinal
    FramesFollowCaps
    CaptureStops
CHECK_DEADLOCK FALSE
