----------------------------- MODULE MCAlerting -----------------------------
(***************************************************************************)
(* Instances of the alerting components for TLC.  They share no state that *)
(* their properties depend on, so a behaviour picks one of them and leaves *)
(* the others in their initial states: TLC explores the sum of their state *)
(* spaces, not the product.                                                *)
(***************************************************************************)
EXTENDS
    CircuitBreaker, Notifier, DenialAggregator, Detectors, IpBaseline,
    Watchdog, WebhookSender, EventVerdict

VARIABLE machine    \* the component that runs in this behaviour

MCPerson == [s \in Spellings |-> "sa-1"]
MCSpikeAt == [k \in Kinds |-> 2]
MCRestingEvent == CHOOSE e \in AuditEvents : e.marks = {}

Called(tables, words, parts, start) ==
    [tables |-> tables, words |-> words, parts |-> words \cup parts, start |-> start]

\* One method for each way the tables and the words of its name can answer.
MCMethods ==
    { Called({"critical", "platformHighRisk"}, {"delete"}, {}, "other"),      \* DeleteOrganization
      Called({"critical", "internalTopic"}, {"delete"}, {}, "other"),         \* kafka.DeleteTopics
      Called({"critical"}, {"revoke"}, {"revokerole"}, "other"),              \* RevokeRoleResourcesForPrincipal
      Called({"high"}, {"unbind"}, {"bind"}, "other"),                        \* UnbindAllRolesForPrincipal
      Called({"high"}, {"bind"}, {"bindroleforprincipal"}, "other"),          \* BindRoleForPrincipal
      Called({"high"}, {"create", "apikey"}, {"createapikey"}, "other"),      \* CreateApiKey
      Called({"high", "kafkaAcls"}, {"delete"}, {}, "other"),                 \* kafka.DeleteAcls
      Called({"medium"}, {"update"}, {}, "other"),                            \* UpdateKafkaCluster
      Called({"medium"}, {}, {"set"}, "other"),                               \* ResetExporter
      Called({"medium", "internalTopic"}, {"create"}, {}, "other"),           \* kafka.CreateTopics
      Called({"readOnly"}, {"get"}, {}, "get"),                               \* GetStatement
      Called({"readOnly"}, {"list"}, {"set"}, "other"),                       \* kafka.ListOffsets
      Called({"readOnly", "bulkNoise", "internalTopic"}, {"produce"}, {}, "other"),
      Called({"authentication", "bulkNoise", "bulkAuthentication"}, {"authentication"}, {}, "other"),
      Called({"authorizationCheck", "bulkNoise"}, {"authorize"}, {}, "other"), \* mds.Authorize
      Called({"flinkFailure"}, {}, {}, "other"),                              \* FlinkJobFailed
      Called({"flinkLifecycle"}, {}, {}, "other"),                            \* FlinkJobStarted
      Called({"flinkCancelled"}, {}, {}, "other"),                            \* FlinkJobCancelled
      Called({"alwaysInformational"}, {"config"}, {}, "other"),               \* TableflowCatalogConfig
      Called({"contextEngine"}, {"delete"}, {}, "other"),                     \* DeleteContextEngine
      Called({"schemaLookup"}, {"get"}, {}, "other"),                         \* schema-registry.GetSchema
      Called({"schemaRegistration"}, {"register"}, {}, "other"),              \* schema-registry.RegisterSchema
      Called({"platformHighRisk"}, {}, {}, "other"),                          \* SuspendOrganization
      Called({}, {"drop"}, {}, "other"),          \* listed nowhere: DropMirror
      Called({}, {"secret"}, {}, "other"),        \* RotateSecret
      Called({}, {"assign"}, {"assignrole"}, "other"),
      Called({}, {}, {}, "other") }
MCMarkSets ==
    {{}} \cup {{mark} : mark \in Marks}
        \cup {{"platform", "internalCrn"}, {"platform", "adminRole"}, {"readOnly", "dryRun"}}
MCAlertKeys == [processor |-> {"critical"}, timer |-> {"denial"}]

\* The aggregator ends with its process.
AggregatorOrEnd ==
    \/ AggregatorNext
    \/ closing = "exited" /\ UNCHANGED aggregatorVars

\* An event that was stored as bulk noise goes no further.
VerdictOrEnd ==
    \/ VerdictNext
    \/ row # NotYet /\ published = NotYet /\ UNCHANGED verdictVars

alertingVars ==
    << machine,
       breakerVars, notifierVars, aggregatorVars, trackerVars, burstVars,
       patternVars, baselineVars, watchdogVars, webhookVars, verdictVars >>

AlertingInit ==
    /\ machine \in {"breaker", "notifier", "aggregator", "tracker",
                    "bursts", "patterns", "baseline", "watchdog",
                    "webhook", "verdict"}
    /\ BreakerInit
    /\ NotifierInit
    /\ AggregatorInit
    /\ TrackerInit
    /\ BurstInit
    /\ PatternInit
    /\ BaselineInit
    /\ WatchdogInit
    /\ WebhookInit
    /\ VerdictInit
    /\ machine # "verdict" => event = MCRestingEvent

BreakerNextAlone ==
    /\ machine = "breaker"
    /\ UNCHANGED <<machine,
                   notifierVars, aggregatorVars, trackerVars, burstVars,
                   patternVars, baselineVars, watchdogVars, webhookVars,
                   verdictVars>>
    /\ BreakerNext

NotifierNextAlone ==
    /\ machine = "notifier"
    /\ UNCHANGED <<machine,
                   breakerVars, aggregatorVars, trackerVars, burstVars,
                   patternVars, baselineVars, watchdogVars, webhookVars,
                   verdictVars>>
    /\ NotifierNext

AggregatorOrEndAlone ==
    /\ machine = "aggregator"
    /\ UNCHANGED <<machine,
                   breakerVars, notifierVars, trackerVars, burstVars,
                   patternVars, baselineVars, watchdogVars, webhookVars,
                   verdictVars>>
    /\ AggregatorOrEnd

TrackerNextAlone ==
    /\ machine = "tracker"
    /\ UNCHANGED <<machine,
                   breakerVars, notifierVars, aggregatorVars, burstVars,
                   patternVars, baselineVars, watchdogVars, webhookVars,
                   verdictVars>>
    /\ TrackerNext

BurstNextAlone ==
    /\ machine = "bursts"
    /\ UNCHANGED <<machine,
                   breakerVars, notifierVars, aggregatorVars,
                   trackerVars, patternVars, baselineVars, watchdogVars,
                   webhookVars, verdictVars>>
    /\ BurstNext

PatternNextAlone ==
    /\ machine = "patterns"
    /\ UNCHANGED <<machine,
                   breakerVars, notifierVars, aggregatorVars,
                   trackerVars, burstVars, baselineVars, watchdogVars,
                   webhookVars, verdictVars>>
    /\ PatternNext

BaselineNextAlone ==
    /\ machine = "baseline"
    /\ UNCHANGED <<machine,
                   breakerVars, notifierVars, aggregatorVars,
                   trackerVars, burstVars, patternVars, watchdogVars,
                   webhookVars, verdictVars>>
    /\ BaselineNext

WatchdogNextAlone ==
    /\ machine = "watchdog"
    /\ UNCHANGED <<machine,
                   breakerVars, notifierVars, aggregatorVars,
                   trackerVars, burstVars, patternVars, baselineVars,
                   webhookVars, verdictVars>>
    /\ WatchdogNext

WebhookNextAlone ==
    /\ machine = "webhook"
    /\ UNCHANGED <<machine,
                   breakerVars, notifierVars, aggregatorVars,
                   trackerVars, burstVars, patternVars, baselineVars,
                   watchdogVars, verdictVars>>
    /\ WebhookNext

VerdictOrEndAlone ==
    /\ machine = "verdict"
    /\ UNCHANGED <<machine,
                   breakerVars, notifierVars, aggregatorVars,
                   trackerVars, burstVars, patternVars, baselineVars,
                   watchdogVars, webhookVars>>
    /\ VerdictOrEnd

AlertingNext ==
    \/ BreakerNextAlone
    \/ NotifierNextAlone
    \/ AggregatorOrEndAlone
    \/ TrackerNextAlone
    \/ BurstNextAlone
    \/ PatternNextAlone
    \/ BaselineNextAlone
    \/ WatchdogNextAlone
    \/ WebhookNextAlone
    \/ VerdictOrEndAlone

\* A machine's fairness binds only in the behaviours it runs in.  The callers
\* keep calling, and calls that are made again and again come back well once the
\* service is up; the notifier's timers and threads and the clocks run; the
\* aggregator's threads get to work.
BreakerFairness ==
    /\ WF_breakerVars(machine = "breaker" /\ \E c \in Callers : AdmitCall(c))
    /\ SF_breakerVars(machine = "breaker" /\ \E c \in Callers : CallSucceeds(c))
    /\ WF_breakerVars(machine = "breaker" /\ ServiceTick)

NotifierFairness ==
    /\ WF_notifierVars(machine = "notifier" /\ FlushExpiredWindow)
    /\ SF_notifierVars(machine = "notifier" /\ SendDigest)
    /\ WF_notifierVars(machine = "notifier" /\ \E s \in senders : Delivered(s) \/ AttemptFails(s))
    /\ WF_notifierVars(machine = "notifier" /\ NotifierTick)
    /\ WF_notifierVars(machine = "notifier" /\ DayTick)

AggregatorFairness ==
    /\ WF_aggregatorVars(machine = "aggregator" /\ TimerFlush)
    /\ \A f \in Flushers : WF_aggregatorVars(machine = "aggregator" /\ FlusherNext(f))
    /\ WF_aggregatorVars(machine = "aggregator" /\ ShutdownNext)

AlertingSpec ==
    /\ AlertingInit
    /\ [][AlertingNext]_alertingVars
    /\ BreakerFairness
    /\ NotifierFairness
    /\ AggregatorFairness

AlertingTypeOK ==
    /\ machine = "breaker" => BreakerTypeOK
    /\ machine = "notifier" => NotifierTypeOK
    /\ machine = "aggregator" => AggregatorTypeOK
    /\ machine = "tracker" => TrackerTypeOK
    /\ machine = "bursts" => BurstTypeOK
    /\ machine = "patterns" => PatternTypeOK
    /\ machine = "baseline" => BaselineTypeOK
    /\ machine = "watchdog" => WatchdogTypeOK
    /\ machine = "webhook" => WebhookTypeOK
    /\ machine = "verdict" => VerdictTypeOK
=============================================================================
