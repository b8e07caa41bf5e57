----------------------------- MODULE MCServices -----------------------------
(***************************************************************************)
(* Instances of the storage and service components for TLC.  As in         *)
(* MCAlerting a behaviour picks one of them and leaves the others at rest. *)
(***************************************************************************)
EXTENDS
    Backfill, ColdArchive, Collector, HotCache, ReplayControl, NoiseView,
    Installer, SchemaWatcher, EventStore, ActorNames, EventPaging,
    EventsView, SchemaRegistration, Sinks, Health, ForwarderStartup,
    TopicRouting, Summaries, ForwarderApi, AdminDirectory, PatternReview,
    SecretLookup

VARIABLE machine    \* the component that runs in this behaviour

MCScopes == {1 .. RowCount, 1 .. 2}
MCStored == {[name |-> "named", low |-> TRUE], [name |-> "unknown", low |-> FALSE]}
MCAnswers == {[name |-> "named", low |-> FALSE], [name |-> "raw", low |-> TRUE], Raises}
MCEvents == {<<1, 1>>, <<2, 1>>}
MCCutoffs == {<<2, 2>>}

\* two messages of one fingerprint, the later without a name, and one that no table takes
MCEmissions ==
    {[print |-> 1, at |-> 1, resource |-> 1, named |-> TRUE, poison |-> FALSE],
     [print |-> 1, at |-> 2, resource |-> 1, named |-> FALSE, poison |-> FALSE],
     [print |-> 2, at |-> 1, resource |-> 2, named |-> FALSE, poison |-> TRUE]}
MCIdOf == <<1, 2, 2>>
MCOldNames == {<<"raw", "prefixed", "prefixed">>, <<"json", "json", "json">>}
MCLevelOf == <<"CRITICAL", "LOW", "CRITICAL">>
MCEventKinds == {[signal |-> "noise", failed |-> FALSE],
                 [signal |-> "action_required", failed |-> TRUE]}
MCGrantAt ==
    [v \in 0 .. LastVersion |->
        IF v = 0 THEN [role |-> "exporter", orgs |-> {"org1"}]
                 ELSE [role |-> "admin", orgs |-> {"org1", "org2"}]]
MCAsksOf == [a1 |-> {<<"export", "early">>, <<"export", "tooLong">>},
             a2 |-> {<<"highRisk", "all">>, <<"vacuum", "all">>}]
MCModes == {<<TRUE, TRUE>>, <<FALSE, FALSE>>}
MCOrgOf == <<"org1", "org2">>
MCTimeOf == <<1, 2>>
MCExtracted == <<{"type", "name"}, {}, {"type"}, {"type", "name"}>>
MCNameOf == <<"topic", "topic", "topic", "none">>

MCSettings == <<"key", "secret">>
MCHeldBy == [v \in 0 .. 1 |-> IF v = 0 THEN {"key", "secret", "slack"} ELSE {"key", "secret"}]
MCClassOf == [p \in RawPayloads |-> IF p = "read" THEN "read" ELSE "other"]
MCOldClassOf == [p \in RawPayloads |-> "other"]
MCSchemaOf == [page |-> 2, command |-> 2]

servicesVars ==
    << machine,
       fieldVars, actorVars, archiveVars, collectorVars, cacheVars,
       replayVars, noiseVars, installVars, watcherVars, storeVars,
       namesVars, pagingVars, viewVars, registryVars, sinksVars,
       statusViewVars, forwarderHealthVars, startupVars, routingVars,
       summariesVars, apiVars, directoryVars, resourceVars, reviewVars,
       secretVars, rerunVars >>

ServicesInit ==
    /\ machine \in {"fields", "actors", "archive", "collector", "cache",
                    "replay", "noise", "installer", "watcher", "store",
                    "names", "page", "view", "registry", "sinks",
                    "status", "health", "startup", "routing", "summary",
                    "api", "directory", "resources", "review", "secrets",
                    "rerun"}
    /\ FieldInit
    /\ machine # "fields" => rows = {} /\ payload = [p \in Places |-> "full"]
    /\ ActorInit
    /\ machine # "actors" => actorRows = [i \in Ids |-> Missing] /\ answer = [i \in Ids |-> Raises]
    /\ ArchiveInit
    /\ machine # "archive" => enabled
    /\ CollectorInit
    /\ CacheInit
    /\ ReplayInit
    /\ NoiseInit
    /\ machine # "noise" => tableThere
    /\ InstallInit
    /\ machine # "installer" => ~upgraded /\ tokenFile = None
    /\ WatcherInit
    /\ machine # "watcher" => documented = {}
    /\ StoreInit
    /\ NamesInit
    /\ PagingInit
    /\ ViewInit
    /\ machine # "view" => filters = (CHOOSE f \in Filters : TRUE) /\ detailCalls = {}
    /\ RegistryInit
    /\ SinksInit
    /\ StatusInit
    /\ ForwarderHealthInit
    /\ StartupInit
    /\ machine # "startup" => problems = {} /\ hotStore = "off" /\ ~databaseUp /\ ~inFile /\ ~iamWarm /\ rowName[1] = "raw"
    /\ RoutingInit
    /\ machine # "routing" => config = [enabled |-> {}, all |-> FALSE, dropLow |-> FALSE, dry |-> FALSE] /\ topicsThere = {}
    /\ SummariesInit
    /\ ForwarderApiInit
    /\ machine # "api" => grantFile = 0 /\ authOn = TRUE /\ cacheOn = TRUE
    /\ DirectoryInit
    /\ ResourceInit
    /\ ReviewInit
    /\ machine # "review" => guarded = TRUE /\ roleOf = [r \in Reviewers |-> "viewer"]
    /\ SecretInit
    /\ machine # "secrets" => asmEnabled
    /\ RerunInit
    /\ machine # "rerun" => \A i \in RowIds \ {LateId} : rowOf[i].payload = "odd"

FieldNextAlone ==
    /\ machine = "fields"
    /\ UNCHANGED <<machine,
                   actorVars, archiveVars, collectorVars, cacheVars,
                   replayVars, noiseVars, installVars, watcherVars,
                   storeVars, namesVars, pagingVars, viewVars,
                   registryVars, sinksVars, statusViewVars,
                   forwarderHealthVars, startupVars, routingVars,
                   summariesVars, apiVars, directoryVars, resourceVars,
                   reviewVars, secretVars, rerunVars>>
    /\ FieldNext

ActorNextAlone ==
    /\ machine = "actors"
    /\ UNCHANGED <<machine,
                   fieldVars, archiveVars, collectorVars, cacheVars,
                   replayVars, noiseVars, installVars, watcherVars,
                   storeVars, namesVars, pagingVars, viewVars,
                   registryVars, sinksVars, statusViewVars,
                   forwarderHealthVars, startupVars, routingVars,
                   summariesVars, apiVars, directoryVars, resourceVars,
                   reviewVars, secretVars, rerunVars>>
    /\ ActorNext

ArchiveNextAlone ==
    /\ machine = "archive"
    /\ UNCHANGED <<machine,
                   fieldVars, actorVars, collectorVars, cacheVars,
                   replayVars, noiseVars, installVars, watcherVars,
                   storeVars, namesVars, pagingVars, viewVars,
                   registryVars, sinksVars, statusViewVars,
                   forwarderHealthVars, startupVars, routingVars,
                   summariesVars, apiVars, directoryVars, resourceVars,
                   reviewVars, secretVars, rerunVars>>
    /\ ArchiveNext

CollectorNextAlone ==
    /\ machine = "collector"
    /\ UNCHANGED <<machine,
                   fieldVars, actorVars, archiveVars, cacheVars,
                   replayVars, noiseVars, installVars, watcherVars,
                   storeVars, namesVars, pagingVars, viewVars,
                   registryVars, sinksVars, statusViewVars,
                   forwarderHealthVars, startupVars, routingVars,
                   summariesVars, apiVars, directoryVars, resourceVars,
                   reviewVars, secretVars, rerunVars>>
    /\ CollectorNext

CacheNextAlone ==
    /\ machine = "cache"
    /\ UNCHANGED <<machine,
                   fieldVars, actorVars, archiveVars, collectorVars,
                   replayVars, noiseVars, installVars, watcherVars,
                   storeVars, namesVars, pagingVars, viewVars,
                   registryVars, sinksVars, statusViewVars,
                   forwarderHealthVars, startupVars, routingVars,
                   summariesVars, apiVars, directoryVars, resourceVars,
                   reviewVars, secretVars, rerunVars>>
    /\ CacheNext

ReplayNextAlone ==
    /\ machine = "replay"
    /\ UNCHANGED <<machine,
                   fieldVars, actorVars, archiveVars, collectorVars,
                   cacheVars, noiseVars, installVars, watcherVars,
                   storeVars, namesVars, pagingVars, viewVars,
                   registryVars, sinksVars, statusViewVars,
                   forwarderHealthVars, startupVars, routingVars,
                   summariesVars, apiVars, directoryVars, resourceVars,
                   reviewVars, secretVars, rerunVars>>
    /\ ReplayNext

NoiseNextAlone ==
    /\ machine = "noise"
    /\ UNCHANGED <<machine,
                   fieldVars, actorVars, archiveVars, collectorVars,
                   cacheVars, replayVars, installVars, watcherVars,
                   storeVars, namesVars, pagingVars, viewVars,
                   registryVars, sinksVars, statusViewVars,
                   forwarderHealthVars, startupVars, routingVars,
                   summariesVars, apiVars, directoryVars, resourceVars,
                   reviewVars, secretVars, rerunVars>>
    /\ NoiseNext

InstallNextAlone ==
    /\ machine = "installer"
    /\ UNCHANGED <<machine,
                   fieldVars, actorVars, archiveVars, collectorVars,
                   cacheVars, replayVars, noiseVars, watcherVars,
                   storeVars, namesVars, pagingVars, viewVars,
                   registryVars, sinksVars, statusViewVars,
                   forwarderHealthVars, startupVars, routingVars,
                   summariesVars, apiVars, directoryVars, resourceVars,
                   reviewVars, secretVars, rerunVars>>
    /\ InstallNext

WatcherNextAlone ==
    /\ machine = "watcher"
    /\ UNCHANGED <<machine,
                   fieldVars, actorVars, archiveVars, collectorVars,
                   cacheVars, replayVars, noiseVars, installVars,
                   storeVars, namesVars, pagingVars, viewVars,
                   registryVars, sinksVars, statusViewVars,
                   forwarderHealthVars, startupVars, routingVars,
                   summariesVars, apiVars, directoryVars, resourceVars,
                   reviewVars, secretVars, rerunVars>>
    /\ WatcherNext

StoreNextAlone ==
    /\ machine = "store"
    /\ UNCHANGED <<machine,
                   fieldVars, actorVars, archiveVars, collectorVars,
                   cacheVars, replayVars, noiseVars, installVars,
                   watcherVars, namesVars, pagingVars, viewVars,
                   registryVars, sinksVars, statusViewVars,
                   forwarderHealthVars, startupVars, routingVars,
                   summariesVars, apiVars, directoryVars, resourceVars,
                   reviewVars, secretVars, rerunVars>>
    /\ StoreNext

NamesNextAlone ==
    /\ machine = "names"
    /\ UNCHANGED <<machine,
                   fieldVars, actorVars, archiveVars, collectorVars,
                   cacheVars, replayVars, noiseVars, installVars,
                   watcherVars, storeVars, pagingVars, viewVars,
                   registryVars, sinksVars, statusViewVars,
                   forwarderHealthVars, startupVars, routingVars,
                   summariesVars, apiVars, directoryVars, resourceVars,
                   reviewVars, secretVars, rerunVars>>
    /\ NamesNext

PagingNextAlone ==
    /\ machine = "page"
    /\ UNCHANGED <<machine,
                   fieldVars, actorVars, archiveVars, collectorVars,
                   cacheVars, replayVars, noiseVars, installVars,
                   watcherVars, storeVars, namesVars, viewVars,
                   registryVars, sinksVars, statusViewVars,
                   forwarderHealthVars, startupVars, routingVars,
                   summariesVars, apiVars, directoryVars, resourceVars,
                   reviewVars, secretVars, rerunVars>>
    /\ PagingNext

ViewNextAlone ==
    /\ machine = "view"
    /\ UNCHANGED <<machine,
                   fieldVars, actorVars, archiveVars, collectorVars,
                   cacheVars, replayVars, noiseVars, installVars,
                   watcherVars, storeVars, namesVars, pagingVars,
                   registryVars, sinksVars, statusViewVars,
                   forwarderHealthVars, startupVars, routingVars,
                   summariesVars, apiVars, directoryVars, resourceVars,
                   reviewVars, secretVars, rerunVars>>
    /\ ViewNext

RegistryNextAlone ==
    /\ machine = "registry"
    /\ UNCHANGED <<machine,
                   fieldVars, actorVars, archiveVars, collectorVars,
                   cacheVars, replayVars, noiseVars, installVars,
                   watcherVars, storeVars, namesVars, pagingVars,
                   viewVars, sinksVars, statusViewVars,
                   forwarderHealthVars, startupVars, routingVars,
                   summariesVars, apiVars, directoryVars, resourceVars,
                   reviewVars, secretVars, rerunVars>>
    /\ RegistryNext

SinksNextAlone ==
    /\ machine = "sinks"
    /\ UNCHANGED <<machine,
                   fieldVars, actorVars, archiveVars, collectorVars,
                   cacheVars, replayVars, noiseVars, installVars,
                   watcherVars, storeVars, namesVars, pagingVars,
                   viewVars, registryVars, statusViewVars,
                   forwarderHealthVars, startupVars, routingVars,
                   summariesVars, apiVars, directoryVars, resourceVars,
                   reviewVars, secretVars, rerunVars>>
    /\ SinksNext

StatusNextAlone ==
    /\ machine = "status"
    /\ UNCHANGED <<machine,
                   fieldVars, actorVars, archiveVars, collectorVars,
                   cacheVars, replayVars, noiseVars, installVars,
                   watcherVars, storeVars, namesVars, pagingVars,
                   viewVars, registryVars, sinksVars,
                   forwarderHealthVars, startupVars, routingVars,
                   summariesVars, apiVars, directoryVars, resourceVars,
                   reviewVars, secretVars, rerunVars>>
    /\ StatusNext

ForwarderHealthNextAlone ==
    /\ machine = "health"
    /\ UNCHANGED <<machine,
                   fieldVars, actorVars, archiveVars, collectorVars,
                   cacheVars, replayVars, noiseVars, installVars,
                   watcherVars, storeVars, namesVars, pagingVars,
                   viewVars, registryVars, sinksVars, statusViewVars,
                   startupVars, routingVars, summariesVars, apiVars,
                   directoryVars, resourceVars, reviewVars, secretVars,
                   rerunVars>>
    /\ ForwarderHealthNext

StartupNextAlone ==
    /\ machine = "startup"
    /\ UNCHANGED <<machine,
                   fieldVars, actorVars, archiveVars, collectorVars,
                   cacheVars, replayVars, noiseVars, installVars,
                   watcherVars, storeVars, namesVars, pagingVars,
                   viewVars, registryVars, sinksVars, statusViewVars,
                   forwarderHealthVars, routingVars, summariesVars,
                   apiVars, directoryVars, resourceVars, reviewVars,
                   secretVars, rerunVars>>
    /\ StartupNext

RoutingNextAlone ==
    /\ machine = "routing"
    /\ UNCHANGED <<machine,
                   fieldVars, actorVars, archiveVars, collectorVars,
                   cacheVars, replayVars, noiseVars, installVars,
                   watcherVars, storeVars, namesVars, pagingVars,
                   viewVars, registryVars, sinksVars, statusViewVars,
                   forwarderHealthVars, startupVars, summariesVars,
                   apiVars, directoryVars, resourceVars, reviewVars,
                   secretVars, rerunVars>>
    /\ RoutingNext

SummariesNextAlone ==
    /\ machine = "summary"
    /\ UNCHANGED <<machine,
                   fieldVars, actorVars, archiveVars, collectorVars,
                   cacheVars, replayVars, noiseVars, installVars,
                   watcherVars, storeVars, namesVars, pagingVars,
                   viewVars, registryVars, sinksVars, statusViewVars,
                   forwarderHealthVars, startupVars, routingVars,
                   apiVars, directoryVars, resourceVars, reviewVars,
                   secretVars, rerunVars>>
    /\ SummariesNext

ForwarderApiNextAlone ==
    /\ machine = "api"
    /\ UNCHANGED <<machine,
                   fieldVars, actorVars, archiveVars, collectorVars,
                   cacheVars, replayVars, noiseVars, installVars,
                   watcherVars, storeVars, namesVars, pagingVars,
                   viewVars, registryVars, sinksVars, statusViewVars,
                   forwarderHealthVars, startupVars, routingVars,
                   summariesVars, directoryVars, resourceVars,
                   reviewVars, secretVars, rerunVars>>
    /\ ForwarderApiNext

DirectoryNextAlone ==
    /\ machine = "directory"
    /\ UNCHANGED <<machine,
                   fieldVars, actorVars, archiveVars, collectorVars,
                   cacheVars, replayVars, noiseVars, installVars,
                   watcherVars, storeVars, namesVars, pagingVars,
                   viewVars, registryVars, sinksVars, statusViewVars,
                   forwarderHealthVars, startupVars, routingVars,
                   summariesVars, apiVars, resourceVars, reviewVars,
                   secretVars, rerunVars>>
    /\ DirectoryNext

ResourceNextAlone ==
    /\ machine = "resources"
    /\ UNCHANGED <<machine,
                   fieldVars, actorVars, archiveVars, collectorVars,
                   cacheVars, replayVars, noiseVars, installVars,
                   watcherVars, storeVars, namesVars, pagingVars,
                   viewVars, registryVars, sinksVars, statusViewVars,
                   forwarderHealthVars, startupVars, routingVars,
                   summariesVars, apiVars, directoryVars, reviewVars,
                   secretVars, rerunVars>>
    /\ ResourceNext

ReviewNextAlone ==
    /\ machine = "review"
    /\ UNCHANGED <<machine,
                   fieldVars, actorVars, archiveVars, collectorVars,
                   cacheVars, replayVars, noiseVars, installVars,
                   watcherVars, storeVars, namesVars, pagingVars,
                   viewVars, registryVars, sinksVars, statusViewVars,
                   forwarderHealthVars, startupVars, routingVars,
                   summariesVars, apiVars, directoryVars, resourceVars,
                   secretVars, rerunVars>>
    /\ ReviewNext

SecretNextAlone ==
    /\ machine = "secrets"
    /\ UNCHANGED <<machine,
                   fieldVars, actorVars, archiveVars, collectorVars,
                   cacheVars, replayVars, noiseVars, installVars,
                   watcherVars, storeVars, namesVars, pagingVars,
                   viewVars, registryVars, sinksVars, statusViewVars,
                   forwarderHealthVars, startupVars, routingVars,
                   summariesVars, apiVars, directoryVars, resourceVars,
                   reviewVars, rerunVars>>
    /\ SecretNext

RerunNextAlone ==
    /\ machine = "rerun"
    /\ UNCHANGED <<machine,
                   fieldVars, actorVars, archiveVars, collectorVars,
                   cacheVars, replayVars, noiseVars, installVars,
                   watcherVars, storeVars, namesVars, pagingVars,
                   viewVars, registryVars, sinksVars, statusViewVars,
                   forwarderHealthVars, startupVars, routingVars,
                   summariesVars, apiVars, directoryVars, resourceVars,
                   reviewVars, secretVars>>
    /\ RerunNext

ServicesNext ==
    \/ FieldNextAlone
    \/ ActorNextAlone
    \/ ArchiveNextAlone
    \/ CollectorNextAlone
    \/ CacheNextAlone
    \/ ReplayNextAlone
    \/ NoiseNextAlone
    \/ InstallNextAlone
    \/ WatcherNextAlone
    \/ StoreNextAlone
    \/ NamesNextAlone
    \/ PagingNextAlone
    \/ ViewNextAlone
    \/ RegistryNextAlone
    \/ SinksNextAlone
    \/ StatusNextAlone
    \/ ForwarderHealthNextAlone
    \/ StartupNextAlone
    \/ RoutingNextAlone
    \/ SummariesNextAlone
    \/ ForwarderApiNextAlone
    \/ DirectoryNextAlone
    \/ ResourceNextAlone
    \/ ReviewNextAlone
    \/ SecretNextAlone
    \/ RerunNextAlone

ServicesSpec == ServicesInit /\ [][ServicesNext]_servicesVars

ServicesTypeOK ==
    /\ machine = "fields" => FieldTypeOK
    /\ machine = "actors" => ActorTypeOK
    /\ machine = "archive" => ArchiveTypeOK
    /\ machine = "collector" => CollectorTypeOK
    /\ machine = "cache" => CacheTypeOK
    /\ machine = "replay" => ReplayTypeOK
    /\ machine = "noise" => NoiseTypeOK
    /\ machine = "installer" => InstallTypeOK
    /\ machine = "watcher" => WatcherTypeOK
    /\ machine = "store" => StoreTypeOK
    /\ machine = "names" => NamesTypeOK
    /\ machine = "page" => PagingTypeOK
    /\ machine = "view" => ViewTypeOK
    /\ machine = "registry" => RegistryTypeOK
    /\ machine = "sinks" => SinksTypeOK
    /\ machine = "status" => StatusTypeOK
    /\ machine = "health" => ForwarderHealthTypeOK
    /\ machine = "startup" => StartupTypeOK
    /\ machine = "routing" => RoutingTypeOK
    /\ machine = "summary" => SummariesTypeOK
    /\ machine = "api" => ForwarderApiTypeOK
    /\ machine = "directory" => DirectoryTypeOK
    /\ machine = "resources" => ResourceTypeOK
    /\ machine = "review" => ReviewTypeOK
    /\ machine = "secrets" => SecretTypeOK
    /\ machine = "rerun" => RerunTypeOK

\* What a job, a replay or a run reports is so: fields and actors filled in, one replay at a time.
JobsAreHonest ==
    /\ machine = "fields" => CompleteMeansDone
    /\ machine = "actors" => CleanRunComplete
    /\ machine = "replay" => ReplaySlotExact
    /\ machine = "resources" => ReportedPassIsDone
    /\ machine = "rerun" => RerunIsHonest

\* What is deleted, committed or moved is kept where the code says: uploaded before it is
\* deleted, collected once it is committed, in the live file or the one it is rebuilt from.
StoredIsKept ==
    /\ machine = "archive" => UploadedBeforeDeleted
    /\ machine = "collector" => CommittedIsCollected
    /\ machine = "cache" => RotationRecovers
    /\ machine = "sinks" => FailuresAreKept
    /\ machine = "routing" => RoutedIsAccounted
    /\ machine = "review" => ReviewsStand

\* What is shown or looked up is as recent as its caches promise, and what was asked for.
ShownIsCurrent ==
    /\ machine = "noise" => MissingNoiseIsRecent
    /\ machine = "names" => ActorNamesCurrent
    /\ machine = "view" => ViewIsCurrent
    /\ machine = "status" => StatusIsJustified
    /\ machine = "health" => HealthIsEarned
    /\ machine = "summary" => SummaryAddsUp
    /\ machine = "api" => AccessHolds
    /\ machine = "directory" => CutByTheLimitOnly
    /\ machine = "secrets" => SecretsHold

\* What is asked for is answered whole: no event twice or left out, all of them within the
\* scope and the window, the newest first.
AnswersAreComplete ==
    /\ machine = "page" => PagesComplete
    /\ machine = "api" => AnswersAreWhole

\* Several files, snapshots or registries written one after the other agree after kills and races.
SetupConsistent ==
    /\ machine = "installer" => InstallConsistent
    /\ machine = "watcher" => BookedIsRecorded
    /\ machine = "registry" => RegisteredIsUsable
    /\ machine = "startup" => StartupIsSound
=============================================================================
