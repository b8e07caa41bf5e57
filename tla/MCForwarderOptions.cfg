SPECIFICATION Spec
CONSTANTS
    Partitions = {p1, p2}
    LogEnd = 1
    Kinds = {"critical", "noise", "poison"}
    BatchSize = 2
    RecordQueueSize = 1
    LaneCap = 1
    WriterBatch = 2
    MaxRetries = 1
    SignalCommitRequiresPg = FALSE
    ShortCircuit = FALSE
    EnableDlq = FALSE
    MayTimeOut = TRUE
    FaultBudgets <- MCOptions
INVARIANT LossAccounted
