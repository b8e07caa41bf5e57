SPECIFICATION MCFairLifecycle
CONSTANTS
    Partitions = {p1, p2}
    LogEnd = 2
    Kinds = {"noise", "normal"}
    BatchSize = 1
    RecordQueueSize = 2
    LaneCap = 2
    WriterBatch = 2
    MaxRetries = 1
    SignalCommitRequiresPg = FALSE
    ShortCircuit = TRUE
    EnableDlq = TRUE
    MayTimeOut = TRUE
    FaultBudgets <- MCLifecycleFaults
INVARIANT LifecycleTypeOK
INVARIANT LossAccounted
INVARIANT PausedOnlyWhileFlagged
PROPERTY HoldsEnd
