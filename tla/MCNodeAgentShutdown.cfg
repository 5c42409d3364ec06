SPECIFICATION Spec
CONSTANTS
    Modes <- Enforce
    Production = FALSE
    Job = {j1}
    AsyncPublish = FALSE
    Timely = TRUE
    MaxDrops = 1
    MaxFaults = 0
PROPERTY SessionKeptWhileClosing
CHECK_DEADLOCK FALSE
