SPECIFICATION Spec
CONSTANTS
    Partitions = {p1}
    LogEnd = 2
    Kinds = {"critical", "normal"}
    BatchSize = 2
    RecordQueueSize = 1
    LaneCap = 1
    WriterBatch = 2
    MaxRetries = 1
    SignalCommitRequiresPg = TRUE
    ShortCircuit = TRUE
    EnableDlq = TRUE
    MayTimeOut = FALSE
    FaultBudgets <- MCNoFaults
INVARIANT PgBeforeCommit
