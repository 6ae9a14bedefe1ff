SPECIFICATION FairSpec
CONSTANTS
    Osts = {1, 2}
    Selections <- EveryOrOne
    Nobody = Nobody
    PipeSize = 1
    ResultPipeSize = 1
    MeasureInterval = 3
    Waits = 2
    MaxLate = 2
    MayBeKilled = TRUE
CHECK_DEADLOCK FALSE
INVARIANTS
    ClearNeverBlocks
    CleanRefill
    SleepsNoLonger
PROPERTIES
    EndNoticed
    MasterEndsUnlessUnread
