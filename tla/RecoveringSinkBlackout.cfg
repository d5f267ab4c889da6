CONSTANTS
    NumZones = 2
    Colours <- MCColours
    Black = "black"
    NoFrame = NoFrame
SPECIFICATION Spec
INVARIANT OkBlackoutIsDark
