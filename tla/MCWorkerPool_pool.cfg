SPECIFICATION FairSpec
CONSTANTS
    Workers = {w1, w2}
    Tids = {t1, t2}
    Nobody = Nobody
    NoTask = NoTask
    PoisonPill = PoisonPill
    MayBeKilled = TRUE
    PipeSize = 1
    MaxPrefetched = 1
    MaxPills = 2
CHECK_DEADLOCK FALSE
INVARIANTS
    TypeOK
    ReadyHasNoResult
    NoOrphans
PROPERTIES
    PoolLifecycle
    TasksReported
    ShutsDownUnlessAbandoned
