SPECIFICATION FairSpec
CONSTANTS
    Partitions = {p1}
    LogEnd = 2
    Kinds = {"noise", "normal", "poison"}
    BatchSize = 2
    RecordQueueSize = 1
    LaneCap = 1
    WriterBatch = 2
    MaxRetries = 1
    SignalCommitRequiresPg = FALSE
    ShortCircuit = TRUE
    EnableDlq = TRUE
    MayTimeOut = FALSE
    FaultBudgets <- MCCrash
INVARIANT TypeOK
INVARIANT AtLeastOnce
PROPERTY CaughtUp
PROPERTY CommitNeverRegresses
