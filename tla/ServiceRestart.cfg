CONSTANTS
    ProxyLength = 2
    ManualColours <- MCManual
    Black = "black"
    Scene = "scene"
    RestartAtWill = TRUE
SPECIFICATION Spec
INVARIANT OffIsOff
CHECK_DEADLOCK FALSE
