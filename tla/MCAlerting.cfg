SPECIFICATION AlertingSpec
CONSTANTS
    Callers = {c1, c2}
    FailureThreshold = 2
    RecoveryTimeout = 1
    FailureWindow = 2
    HalfOpenRequests = 2
    MaxForces = 1
    Fingerprints = {fp1, fp2, fp3}
    RateLimit = 1
    RateWindow = 1
    DedupWindow = 3
    PruneEvery = 2
    MaxAttempts = 2
    DigestMax = 1
    SlackDigest = TRUE
    MaxNotifies = 3
    MaxReloads = 1
    BucketKeys = {k1, k2}
    HighThreshold = 2
    MaxDenials = 3
    ProduceFaults = 2
    Spellings = {"User:sa-1", "sa-1"}
    Persons = {"sa-1"}
    Person <- MCPerson
    Whitelist = {}
    Addresses = {ip1, ip2}
    Kinds = {"auth_failure_spike"}
    SpikeAt <- MCSpikeAt
    RateSpan = 2
    Cooldown = 2
    KnownIpsMax = 1
    MaxPerWindow = 2
    Actors = {a1, a2}
    BurstAt = 2
    BurstSpan = 2
    MaxFailures = 4
    Patterns = {q1, q2}
    PatternThreshold = 1
    PatternSpan = 3
    PatternQueueMax = 1
    MaxOccurrences = 2
    Pairs = {pair1, pair2}
    Alertable = {pair1, pair2}
    BaselineQueueMax = 1
    MaxLives = 2
    MaxSightings = 3
    CheckEvery = 2
    SilenceThreshold = 3
    WebhookThreads = {"processor", "timer"}
    AlertKeys <- MCAlertKeys
    WebhookMax = 1
    WebhookCooldown = 1
    MinuteTicks = 3
    LastTick = 5
    Methods <- MCMethods
    Types = {"request", "authorization", "authentication", "access-transparency"}
    Statuses = {"unsaid", "FAILURE", "NOT_FOUND", "PERMISSION_DENIED", "INVALID_CREDENTIALS"}
    MarkSets <- MCMarkSets
INVARIANT AlertingTypeOK
INVARIANT ClosedBelowThreshold
INVARIANT NotTooOften
INVARIANT DenialsAccounted
INVARIANT BurstCaught
INVARIANT PatternKept
INVARIANT NewIpOnce
INVARIANT SilenceNoticed
INVARIANT WebhookBounded
INVARIANT VerdictsAgree
PROPERTY CircuitRecovers
PROPERTY NothingForgotten
PROPERTY DenialsReported
PROPERTY SpikeReportedOnce
