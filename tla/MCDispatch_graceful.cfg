SPECIFICATION Spec
CONSTANTS
    Controllers = {c1, c2}
    Workers = {w1}
    Tids = {t1}
    NoTid = NoTid
    NoController = NoController
    Faults = {"stop", "signal"}
    MaxReported = 1
    MaxErrors = 3
    MaxRetries = 1
    MaxQueued = 2
SYMMETRY Symmetry
CHECK_DEADLOCK FALSE
INVARIANTS
    GracefulShutdown
