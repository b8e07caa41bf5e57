SPECIFICATION FairSpec
CONSTANTS
    Partitions = {p1}
    LogEnd = 3
    Kinds = {"noise", "critical"}
    BatchSize = 1
    RecordQueueSize = 1
    LaneCap = 1
    WriterBatch = 2
    MaxRetries = 1
    SignalCommitRequiresPg = FALSE
    ShortCircuit = TRUE
    EnableDlq = TRUE
    MayTimeOut = TRUE
    FaultBudgets <- MCDb
PROPERTY EventuallySettled
