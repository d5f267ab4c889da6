CONSTANTS
    ProxyLength = 2
    ManualColours <- MCManual
    Black = "black"
    Scene = "scene"
    RestartAtWill = FALSE
SPECIFICATION FairSpec
INVARIANTS
    LightsFollowConfig
    
    EngineOnlyWhenWanted
PROPERTIES
    Stops
CHECK_DEADLOCK FALSE
