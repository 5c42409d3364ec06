SPECIFICATION Spec
CONSTANTS
    Modes <- AllModes
    Production = TRUE
    Job = {j1, j2}
    AsyncPublish = FALSE
    Timely = FALSE
    MaxDrops = 2
    MaxFaults = 1
SYMMETRY JobSymmetry
INVARIANTS TypeOK AdmitsOnThisTransport ClosedIsQuiet NeverInstalledAfterClose
CHECK_DEADLOCK FALSE
