CONSTANTS
    NumZones = 3
    Colours <- MCColours
    Black = "black"
    White = "white"
    NoFrame = NoFrame
    Stimulus <- MCStimulus
SPECIFICATION FairSpec
INVARIANTS
    TrustedFrameIsShown
PROPERTIES
    ImplementsDevice
