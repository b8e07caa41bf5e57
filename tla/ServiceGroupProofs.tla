-------------------------- MODULE ServiceGroupProofs --------------------------
(***************************************************************************)
(* The services of MCServices side by side: a behaviour of the group is a  *)
(* behaviour of each of them, so what is proved of a component alone is    *)
(* an invariant of the group.                                              *)
(***************************************************************************)
EXTENDS MCServices, AnswerProofs, JobProofs, ServiceProofs

\* A step of the group is a step of the component that runs, and leaves the others alone.
LEMMA StepOfOne ==
    ASSUME [ServicesNext]_servicesVars
    PROVE  /\ [StoreNext]_storeVars
           /\ [InstallNext]_installVars
           /\ [WatcherNext]_watcherVars
           /\ [RegistryNext]_registryVars
           /\ [StartupNext]_startupVars
           /\ [ArchiveNext]_archiveVars
           /\ [CollectorNext]_collectorVars
           /\ [CacheNext]_cacheVars
           /\ [SinksNext]_sinksVars
           /\ [RoutingNext]_routingVars
           /\ [ReviewNext]_reviewVars
           /\ [FieldNext]_fieldVars
           /\ [ActorNext]_actorVars
           /\ [ReplayNext]_replayVars
           /\ [ResourceNext]_resourceVars
           /\ [RerunNext]_rerunVars
           /\ [NoiseNext]_noiseVars
           /\ [NamesNext]_namesVars
           /\ [ViewNext]_viewVars
           /\ [StatusNext]_statusViewVars
           /\ [ForwarderHealthNext]_forwarderHealthVars
           /\ [SummariesNext]_summariesVars
           /\ [ForwarderApiNext]_apiVars
           /\ [DirectoryNext]_directoryVars
           /\ [SecretNext]_secretVars
           /\ [PagingNext]_pagingVars
<1>1. CASE UNCHANGED servicesVars
    BY <1>1 DEF servicesVars
<1>2. CASE PagingNextAlone
    BY <1>2 DEF PagingNextAlone
<1>3. CASE NoiseNextAlone
    BY <1>3 DEF NoiseNextAlone
<1>4. CASE NamesNextAlone
    BY <1>4 DEF NamesNextAlone
<1>5. CASE FieldNextAlone
    BY <1>5 DEF FieldNextAlone
<1>6. CASE ArchiveNextAlone
    BY <1>6 DEF ArchiveNextAlone
<1>7. CASE StoreNextAlone
    BY <1>7 DEF StoreNextAlone
<1>8. CASE InstallNextAlone
    BY <1>8 DEF InstallNextAlone
<1>9. CASE WatcherNextAlone
    BY <1>9 DEF WatcherNextAlone
<1>10. CASE RegistryNextAlone
    BY <1>10 DEF RegistryNextAlone
<1>11. CASE StartupNextAlone
    BY <1>11 DEF StartupNextAlone
<1>12. CASE CollectorNextAlone
    BY <1>12 DEF CollectorNextAlone
<1>13. CASE CacheNextAlone
    BY <1>13 DEF CacheNextAlone
<1>14. CASE SinksNextAlone
    BY <1>14 DEF SinksNextAlone
<1>15. CASE RoutingNextAlone
    BY <1>15 DEF RoutingNextAlone
<1>16. CASE ReviewNextAlone
    BY <1>16 DEF ReviewNextAlone
<1>17. CASE ActorNextAlone
    BY <1>17 DEF ActorNextAlone
<1>18. CASE ReplayNextAlone
    BY <1>18 DEF ReplayNextAlone
<1>19. CASE ResourceNextAlone
    BY <1>19 DEF ResourceNextAlone
<1>20. CASE RerunNextAlone
    BY <1>20 DEF RerunNextAlone
<1>21. CASE ViewNextAlone
    BY <1>21 DEF ViewNextAlone
<1>22. CASE StatusNextAlone
    BY <1>22 DEF StatusNextAlone
<1>23. CASE ForwarderHealthNextAlone
    BY <1>23 DEF ForwarderHealthNextAlone
<1>24. CASE SummariesNextAlone
    BY <1>24 DEF SummariesNextAlone
<1>25. CASE ForwarderApiNextAlone
    BY <1>25 DEF ForwarderApiNextAlone
<1>26. CASE DirectoryNextAlone
    BY <1>26 DEF DirectoryNextAlone
<1>27. CASE SecretNextAlone
    BY <1>27 DEF SecretNextAlone
<1> QED
    BY <1>1, <1>2, <1>3, <1>4, <1>5, <1>6, <1>7, <1>8, <1>9, <1>10, <1>11, <1>12, <1>13, <1>14,
       <1>15, <1>16, <1>17, <1>18, <1>19, <1>20, <1>21, <1>22, <1>23, <1>24, <1>25, <1>26, <1>27
    DEF ServicesNext

LEMMA GroupRunsEach ==
    ServicesSpec =>
        /\ StoreSpec /\ InstallSpec /\ WatcherSpec /\ RegistrySpec /\ StartupSpec
        /\ ArchiveSpec /\ CollectorSpec /\ CacheSpec /\ SinksSpec /\ RoutingSpec /\ ReviewSpec
        /\ FieldSpec /\ ActorSpec /\ ReplaySpec /\ ResourceSpec /\ RerunSpec
        /\ NoiseSpec /\ NamesSpec /\ ViewSpec /\ StatusSpec /\ ForwarderHealthSpec
        /\ SummariesSpec /\ ForwarderApiSpec /\ DirectorySpec /\ SecretSpec
        /\ PagingSpec
<1>1. ServicesInit =>
          /\ StoreInit /\ InstallInit /\ WatcherInit /\ RegistryInit /\ StartupInit
          /\ ArchiveInit /\ CollectorInit /\ CacheInit /\ SinksInit /\ RoutingInit /\ ReviewInit
          /\ FieldInit /\ ActorInit /\ ReplayInit /\ ResourceInit /\ RerunInit
          /\ NoiseInit /\ NamesInit /\ ViewInit /\ StatusInit /\ ForwarderHealthInit
          /\ SummariesInit /\ ForwarderApiInit /\ DirectoryInit /\ SecretInit
          /\ PagingInit
    BY DEF ServicesInit
<1> QED
    BY <1>1, StepOfOne, PTL
        DEF ServicesSpec, StoreSpec, InstallSpec, WatcherSpec, RegistrySpec, StartupSpec,
            ArchiveSpec, CollectorSpec, CacheSpec, SinksSpec, RoutingSpec, ReviewSpec, FieldSpec,
            ActorSpec, ReplaySpec, ResourceSpec, RerunSpec, NoiseSpec, NamesSpec, ViewSpec,
            StatusSpec, ForwarderHealthSpec, SummariesSpec, ForwarderApiSpec, DirectorySpec, SecretSpec,
            PagingSpec

\* Files, snapshots and registries that are written one after the other agree, after kills,
\* repairs and races: the installer's, the schema watcher's, the schema registry's and those
\* of the forwarder's start.
THEOREM SetupStaysConsistent == ServicesSpec => []SetupConsistent
<1>1. InstallConsistent /\ BookedIsRecorded /\ RegisteredIsUsable /\ StartupIsSound => SetupConsistent
    BY DEF SetupConsistent
<1> QED
    BY <1>1, GroupRunsEach, InstallationStaysConsistent, BookedStaysRecorded,
       RegisteredStaysUsable, StartStaysSound, PTL

\* What is deleted, committed, moved or refused is kept where the code says: by the archive,
\* the collector, the cache's rotation, the sinks, the router and the reviews.
THEOREM StoredStaysKept == ServicesSpec => []StoredIsKept
<1>1. UploadedBeforeDeleted /\ CommittedIsCollected /\ RotationRecovers /\ FailuresAreKept
      /\ RoutedIsAccounted /\ ReviewsStand => StoredIsKept
    BY DEF StoredIsKept
<1> QED
    BY <1>1, GroupRunsEach, UploadComesFirst, CommittedStaysCollected, RotationsRecover,
       FailuresStayKept, RoutingStaysAccounted, ReviewsAlwaysStand, PTL

\* What a job, a run of the classification script or a replay reports is so: a complete scan
\* has filled what was due, a clean run has renamed what it was started for, a busy slot has
\* a replay, whatever was stored, deleted, refused or killed between their steps.
THEOREM JobsStayHonest == ServicesSpec => []JobsAreHonest
<1>1. CompleteMeansDone /\ CleanRunComplete /\ ReplaySlotExact /\ ReportedPassIsDone
      /\ RerunIsHonest => JobsAreHonest
    BY DEF JobsAreHonest
<1> QED
    BY <1>1, GroupRunsEach, CompleteStaysDone, CleanRunsComplete, SlotStaysExact,
       PassesStayDone, RerunsStayHonest, PTL

\* What is shown or looked up is as recent as its caches promise and what was asked for,
\* whatever threads, operators, failures and changes of the sources come between: the noise
\* table, the names of actors, the events page, the status, the forwarder's health, its API's
\* tokens and exports, the summaries, the cloud's listings and the secrets.
THEOREM ShownStaysCurrent == ServicesSpec => []ShownIsCurrent
<1>1. MissingNoiseIsRecent /\ ActorNamesCurrent /\ ViewIsCurrent /\ StatusIsJustified
      /\ HealthIsEarned /\ SummaryAddsUp /\ AccessHolds /\ CutByTheLimitOnly /\ SecretsHold
      => ShownIsCurrent
    BY DEF ShownIsCurrent
<1> QED
    BY <1>1, GroupRunsEach, MissingNoiseStaysRecent, NamesStayCurrent, ViewStaysCurrent,
       StatusStaysJustified, HealthStaysEarned, SummariesStayWhole, AccessAlwaysHolds,
       CutsStayTheLimits, SecretsAlwaysHold, PTL

\* What is asked for is answered whole, whatever is stored, deleted, suppressed or cached
\* meanwhile: the pages of the event list, and the searches of the forwarder's API.
THEOREM AnswersStayComplete == ServicesSpec => []AnswersAreComplete
<1>1. PagesComplete /\ AnswersAreWhole => AnswersAreComplete
    BY DEF AnswersAreComplete
<1> QED
    BY <1>1, GroupRunsEach, PagesStayComplete, AnswersStayWhole, PTL

\* Each service stays within the values its code can hold, whatever it does and whatever fails
\* around it: its threads, requests and jobs in the stages they have, its counters below their
\* limits, its tables, files and caches made of rows, pages and tokens there are.
THEOREM ServiceTypesHold == ServicesSpec => []ServicesTypeOK
<1>1. /\ FieldTypeOK /\ ActorTypeOK /\ ArchiveTypeOK /\ CollectorTypeOK
      /\ CacheTypeOK /\ ReplayTypeOK /\ NoiseTypeOK /\ InstallTypeOK
      /\ WatcherTypeOK /\ StoreTypeOK /\ NamesTypeOK /\ PagingTypeOK
      /\ ViewTypeOK /\ RegistryTypeOK /\ SinksTypeOK /\ StatusTypeOK
      /\ ForwarderHealthTypeOK /\ StartupTypeOK /\ RoutingTypeOK /\ SummariesTypeOK
      /\ ForwarderApiTypeOK /\ DirectoryTypeOK /\ ResourceTypeOK /\ ReviewTypeOK
      /\ SecretTypeOK /\ RerunTypeOK
      => ServicesTypeOK
    BY DEF ServicesTypeOK
<1> QED
    BY <1>1, GroupRunsEach,
       FieldsKeepTypes, ActorsKeepTypes, ArchivesKeepTypes, CollectorsKeepTypes,
       CachesKeepTypes, ReplaysKeepTypes, NoiseKeepsTypes, InstallKeepsTypes,
       WatcherKeepsTypes, StoredKeepsTypes, NamesKeepTypes, PagesKeepTypes,
       ViewKeepsTypes, RegistryKeepsTypes, SinksKeepTypes, StatusKeepsTypes,
       HealthKeepsTypes, StartupKeepsTypes, RoutingKeepsTypes, SummariesKeepTypes,
       ApiKeepsTypes, DirectoryKeepsTypes, ResourcesKeepTypes, ReviewKeepsTypes,
       SecretsKeepTypes, RerunsKeepTypes, PTL
=============================================================================
