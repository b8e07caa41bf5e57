SPECIFICATION Spec
CONSTANTS
    Partitions = {p1}
    LogEnd = 2
    Kinds = {"noise", "critical", "poison"}
    BatchSize = 2
    RecordQueueSize = 1
    LaneCap = 1
    WriterBatch = 2
    MaxRetries = 1
    SignalCommitRequiresPg = FALSE
    ShortCircuit = TRUE
    EnableDlq = TRUE
    MayTimeOut = TRUE
    FaultBudgets <- MCEachPart
INVARIANT LossAccounted
INVARIANT CommitCoversBatch
INVARIANT NoiseBarrierFed
INVARIANT NoSilentPgLoss
PROPERTY RefinesContract
