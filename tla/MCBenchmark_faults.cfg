SPECIFICATION BenchmarkSpec
CONSTANTS
    Controllers = {c1, c2}
    Workers = {w1}
    Tids = {t1, t2}
    NoTid = NoTid
    NoController = NoController
    Faults = {"timeout", "worker", "crash"}
    MaxReported = 1
    MaxErrors = 3
    MaxRetries = 1
    MaxQueued = 2
SYMMETRY Symmetry
CHECK_DEADLOCK FALSE
INVARIANTS
    ExclusiveAssignment
    CountIsExact
    EndsWhenAllDone
PROPERTIES
    LifecycleImplemented
