SPECIFICATION Spec
CONSTANTS
    Partitions = {p1}
    LogEnd = 4
    Kinds = {"critical"}
    BatchSize = 2
    RecordQueueSize = 1
    LaneCap = 2
    WriterBatch = 2
    MaxRetries = 1
    SignalCommitRequiresPg = TRUE
    ShortCircuit = TRUE
    EnableDlq = TRUE
    MayTimeOut = TRUE
    FaultBudgets <- MCCrash
INVARIANT StrictLossAccounted
