SPECIFICATION FairSpec
CONSTANTS
    Controllers = {c1}
    Workers = {w1}
    Tids = {t1}
    NoTid = NoTid
    NoController = NoController
    Faults = {"restart", "signal", "timeout", "crash"}
    MaxReported = 1
    MaxErrors = 2
    MaxRetries = 1
    MaxQueued = 2
CHECK_DEADLOCK FALSE
PROPERTIES
    MasterStops
    ControllersStop
    StuckMasterStops
