SPECIFICATION ServicesSpec
CONSTANTS
    RowCount = 3
    Limits = {2}
    BatchMax = 2
    Scopes <- MCScopes
    MaxRuns = 2
    MaxCrashes = 1
    LastId = 3
    PageSize = 2
    Stored <- MCStored
    Answers <- MCAnswers
    MaxJobs = 1
    MaxFaults = 1
    Cleaners = {daily, admin}
    Events <- MCEvents
    Cutoffs <- MCCutoffs
    DeleteBatch = 2
    MaxCleanups = 2
    StoreFaults = 1
    TopicEnd = 3
    Malformed = {2}
    BufferSize = 2
    FlushInterval = 2
    LastSecond = 2
    UploadFaults = 1
    MaxDeaths = 1
    FoundRows = 2
    LastRow = 6
    HighRows = {1, 2, 3, 5, 6}
    DbMax = 2
    EmergencyAt = 2
    CleanTo = 1
    RotateTo = 1
    CopyBatch = 2
    RotationSpan = 3
    MinSpan = 1
    CleanupBudget = 2
    HealAt = 1
    FileFaults = 2
    CacheLives = 1
    Requests = {r1, r2}
    RecordsMax = 1
    StoreRaises = 2
    ReplayLives = 1
    Readers = {reader1, reader2}
    FalseTtl = 2
    MethodsTtl = 1
    LastMoment = 3
    QueryFaults = 1
    Topics = {topic1, topic2}
    InstallRuns = 2
    InstallDeaths = 1
    Methods = {method1, method2}
    MaxDocs = 2
    WatcherFaults = 2
    WatcherDeaths = 1
    Lanes = {critical, normal}
    Emissions <- MCEmissions
    LaneSize = 2
    WriteBatch = 2
    WriterRetries = 1
    CatalogSize = 2
    MaxRouted = 3
    DbFaults = 1
    WriterCrashes = 1
    Principals = {p1}
    Lookups = {processor, writer}
    ActorTtl = 2
    IdentityTtl = 3
    RefreshEvery = 2
    LastTime = 4
    MaxRenamings = 1
    MaxEdits = 1
    MaxPrefetches = 1
    IamFaults = 1
    Instants = {1, 2}
    MaxStored = 3
    PageLimit = 2
    ScanSize = 1
    MaxScan = 2
    SuppressionTtl = 1
    LoadFaults = 1
    Filters = {f1, f2}
    LastPage = 1
    Rows = {e1, e2}
    Marks = {resolved}
    Actors = {a1}
    CallFaults = 1
    MaxActs = 2
    Clicks = {"page"}
    Commands = {"command"}
    Problems = {missing}
    WriterLanes = {critical, normal}
    OldNames <- MCOldNames
    KnownRows = {1}
    RepairBatch = 2
    LongestWait = 2
    LastStartSecond = 2
    MaxTrouble = 2
    Routables = {1, 2, 3}
    LevelOf <- MCLevelOf
    LowLevel = "LOW"
    AllTopic = "all"
    QueueSize = 2
    Creators = {creator1, creator2}
    MaxDeliveries = 1
    EventKinds <- MCEventKinds
    ScanLimit = 1
    Askers = {asker}
    NarrativeTtl = 1
    LastHour = 1
    MaxEvents = 2
    MaxAsked = 2
    ApiRequests = {"a1", "a2"}
    GrantAt <- MCGrantAt
    AsksOf <- MCAsksOf
    Modes <- MCModes
    LastVersion = 4
    OrgOf <- MCOrgOf
    TimeOf <- MCTimeOf
    RiskyEvents = {1}
    LowEvents = {2}
    BufferMax = 1
    RowsMax = 1
    MaxMoves = 3
    Threads = {t1, t2}
    PageCount = 2
    EndpointPage = 2
    CacheTtl = 1
    WaitCap = 1
    RetryAfters = {2}
    LastTick = 2
    LastPlace = 4
    Columns = {"type", "name"}
    Extracted <- MCExtracted
    Unreadable = {}
    Unresolvable = {3}
    CatalogNames = {"topic"}
    NameOf <- MCNameOf
    NoName = "none"
    PassLimits = {3}
    PassBatch = 2
    MaxPasses = 1
    Recurring = {"topic/delete"}
    Reviewers = {"ana", "ben"}
    StaleHours = 0
    Durations = {1}
    ReviewHours = 1
    MaxGrants = 1
    MaxDecisions = 2
    Settings <- MCSettings
    References = {"slack"}
    InEnv = {"key", "secret"}
    HeldBy <- MCHeldBy
    LastPayload = 1
    Resolvers = {"r1", "r2"}
    SecretTtl = 2
    FetchSpan = 1
    LastBeat = 3
    Outages = 1
    LastRowId = 3
    LateId = 1
    RawPayloads = {"read", "odd", "broken"}
    ClassOf <- MCClassOf
    OldClassOf <- MCOldClassOf
    NoObjects = {"broken"}
    Unclear = {"other"}
    RerunBatch = 1
    MaxReruns = 2
    MaxRowChanges = 1
    RerunFaults = 1
    SchemaOf <- MCSchemaOf
    ForwarderSchema = 2
    RegistryFaults = 1
    Buckets = {s3}
    WriteCalls = {w1, w2}
    LastSent = 3
    IdOf <- MCIdOf
    SinkBuffer = 2
    SinkFaults = 1
    StatusReaders = {q1, q2}
    HealthTtl = 1
    LatestTtl = 1
    FetchMax = 1
    HealthyWithin = 1
    StallAfter = 2
    Lags = {0, 3}
    LastInstant = 4
    MaxChanges = 1
    MaxAsks = 2
    QuietAfter = 1
    DeadAfter = 2
    ErrorShare = 1
    DegradedAfter = 2
    LastSecondOfHealth = 4
    MaxMarks = 4
CHECK_DEADLOCK FALSE
INVARIANT ServicesTypeOK
INVARIANT JobsAreHonest
INVARIANT StoredIsKept
INVARIANT ShownIsCurrent
INVARIANT AnswersAreComplete
INVARIANT SetupConsistent
INVARIANT StoreConsistent
