SPECIFICATION Spec
CONSTANTS
    Osts = {1, 2, 3}
    TargetList <- TwoTargets
    Levels = {10, 60}
    NotListed = NotListed
    SourceThreshold = 50
    TargetThreshold = 50
    TasksMayBeLost = FALSE
    MaxFiles = 1
INVARIANTS
    TypeOK
    OneToOne
    BlockedOnlyByTasks
    EveryFileScheduled
PROPERTIES
    RespectsThresholds
