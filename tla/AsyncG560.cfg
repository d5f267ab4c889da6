CONSTANTS
    NumZones = 2
    Colours <- MCColours
    Black = "black"
    NoFrame = NoFrame
    QueueLength = 2
    MaxCalls = 3
SPECIFICATION FairSpec
INVARIANTS
    SafetyFlagHasOwner
    DarkUntilNextWrite
    ExpiryHasACause
PROPERTIES
    ImplementsDevice
    EveryCallAnswered
    DeviceReleased
CHECK_DEADLOCK FALSE
