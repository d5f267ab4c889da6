CONSTANTS
    NumZones = 2
    Colours <- MCColours
    Black = "black"
    NoFrame = NoFrame
SPECIFICATION FairSpec
PROPERTIES
    RenderedIsShown
    DarkBeforeAnyScene
    ImplementsLight
    CancelEndsCall
    RecoversWithDevice
