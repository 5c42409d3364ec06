SPECIFICATION FairSpec
CONSTANTS
    Modes <- AllModes
    Production = TRUE
    Job = {j1}
    AsyncPublish = TRUE
    Timely = TRUE
    MaxDrops = 2
    MaxFaults = 1
PROPERTIES CloseResolves RecoversAfterReconnect
CHECK_DEADLOCK FALSE
