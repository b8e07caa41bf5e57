SPECIFICATION LifecycleSpec
CONSTANTS
    Partitions = {p1}
    LogEnd = 2
    Kinds = {"normal"}
    BatchSize = 1
    RecordQueueSize = 2
    LaneCap = 2
    WriterBatch = 2
    MaxRetries = 1
    SignalCommitRequiresPg = FALSE
    ShortCircuit = TRUE
    EnableDlq = TRUE
    MayTimeOut = FALSE
    FaultBudgets <- MCNoFaults
INVARIANT AtLeastOnce
