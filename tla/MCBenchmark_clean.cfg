SPECIFICATION FairBenchmarkSpec
CONSTANTS
    Controllers = {c1, c2}
    Workers = {w1}
    Tids = {t1, t2, t3}
    NoTid = NoTid
    NoController = NoController
    Faults = {}
    MaxReported = 1
    MaxErrors = 3
    MaxRetries = 1
    MaxQueued = 2
CHECK_DEADLOCK FALSE
INVARIANTS
    GracefulShutdown
PROPERTIES
    BenchmarkTerminates
