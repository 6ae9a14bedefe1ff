CONSTANTS
    Executions = {1, 2}
    Mdts = {1, 2}
    NoMdt = 0
    PollTimeout = 1
    Interval = 2
    StoreMaxCount = 2
    OstOf <- SameOst
    Osts = {1, 2}
    NoFile = NoFile
    NoState = NoState
    Definitions <- AllClasses
    InitArgs <- Arguments
    TaskModules <- Modules

SPECIFICATION FairSpec

CHECK_DEADLOCK FALSE

INVARIANTS
    MeasuresItsOst
    EveryExecutionReports
    StoredOnce
    NotKeptTooLong

PROPERTIES
    NothingForgotten
    AlertWhileHanging
    FailuresReported
    SinkEnds
