SPECIFICATION FairSpec
CONSTANTS
    Osts = {1, 2}
    TargetList <- TwoTargets
    Levels = {10, 60, NotListed}
    NotListed = NotListed
    SourceThreshold = 40
    TargetThreshold = 70
    TasksMayBeLost = TRUE
    MaxFiles = 2
CHECK_DEADLOCK FALSE
INVARIANTS
    NeverInconsistent
PROPERTIES
    CachesDrained
