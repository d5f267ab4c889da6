CONSTANTS
    ProxyLength = 2
    ManualColours <- MCManual
    Black = "black"
    Scene = "scene"
    RestartAtWill = FALSE
SPECIFICATION Spec
INVARIANT ManualIsShown
CHECK_DEADLOCK FALSE
