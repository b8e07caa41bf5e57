------------------------------ MODULE EventVerdict ------------------------------
(***************************************************************************)
(* What the pipeline says of one audit event, and where.  The consumer may *)
(* take it for bulk noise before it is parsed; flatten_audit rates how     *)
(* critical it is; build_enriched_event adds the signal and publishes it;  *)
(* _route_to_queue picks the writer's lane; the writer of a signal lane    *)
(* normalises the enriched event once more; a replay of the enriched topic *)
(* rates it again.  Six tests of "denied" or "failed" and two rankings are *)
(* written out in as many places, and the properties say where they agree. *)
(*                                                                         *)
(* An event is its method, its type, what its payload says of the outcome  *)
(* in three fields, and marks.  A method is what the code looks for in its *)
(* name: the tables that list it, the marker words that stand in it alone  *)
(* or anywhere (upper and lower case are the same), and how it begins.  A  *)
(* rule list answers with its first rule that applies.  Reasons, labels    *)
(* and risk levels, which follow from the same rules, are left out.        *)
(***************************************************************************)
EXTENDS Naturals, Sequences, FiniteSetsExt

CONSTANTS
    Methods,        \* the methods that occur
    Types,          \* the types of event that occur
    Statuses,       \* the values of data.result.status that occur
    MarkSets        \* the marks that occur together

(* The marker words *)

Deleting == {"delete", "deleted", "terminate", "destroy", "remove"}
Changing == {"create", "created", "invite", "provision", "stop", "pause", "resume", "restore",
             "update", "updated", "alter", "patch", "set", "configure", "configured", "enable",
             "disable"}
Reading == {"list", "get", "describe", "read", "fetch", "consume", "search"}
Writing == {"produce", "write"}
Authenticating == {"authenticate", "authentication"}
Authorizing == {"authorize", "authorization"}
\* what classify_event takes for a change of access; it overlooks "bind"
AccessNames == {"grant", "revoke", "invite", "assign", "removerole", "rolebinding",
                "createapikey", "deleteapikey"}
\* what _classify_signal_core looks for in "action", which only the row's pass has
DestructiveText == {"delete", "remove", "drop", "destroy", "terminate", "unbind", "revoke"}
ChangeText == {"grant", "revoke", "assignrole", "rolebinding", "bind", "unbind", "createapikey",
               "deleteapikey", "updateconfig", "alterconfig", "config", "patch", "set"}
\* so do SECURITY_MUTATION_VERBS
SecurityVerbs == {"grant", "revoke", "unbind", "bind", "deleteapi", "deleteserviceaccount",
                  "revokerole", "grantrole", "assignrole", "removerolefromresource", "unbound"}
\* the name patterns and SENSITIVE_KEYWORDS of methods.py
DeletionPatterns == {"delete", "remove", "purge", "drop"}
ChangePatterns == {"create", "add", "new", "register", "update", "alter", "modify", "change", "set"}
SensitiveKeywords == {"apikey", "serviceaccount", "acl", "rolebinding", "identity", "credential",
                      "secret", "password", "token", "permission"}

Words == Deleting \cup Changing \cup Reading \cup Writing \cup Authenticating \cup Authorizing
            \cup AccessNames \cup DestructiveText \cup ChangeText \cup SecurityVerbs
            \cup DeletionPatterns \cup ChangePatterns \cup SensitiveKeywords
            \cup {"bindroleforprincipal"}

(* The tables of methods.py, event_normalization and event_signals *)

Tables == {"critical", "high", "medium", "readOnly", "authentication", "authorizationCheck",
           "bulkNoise", "bulkAuthentication", "schemaLookup", "kafkaAcls", "contextEngine",
           "flinkFailure", "flinkLifecycle", "flinkCancelled", "alwaysInformational",
           "internalTopic", "platformHighRisk", "schemaRegistration"}

AllMethods == [tables : SUBSET Tables, words : SUBSET Words, parts : SUBSET Words,
               start : {"get", "list", "describe", "other"}]

Listed(table) == {m \in Methods : table \in m.tables}

CriticalMethods == Listed("critical")
HighMethods == Listed("high")
MediumMethods == Listed("medium")
ReadOnlyMethods == Listed("readOnly")
AuthenticationMethods == Listed("authentication")
AuthorizationCheckMethods == Listed("authorizationCheck")
BulkNoiseMethods == Listed("bulkNoise")
\* a failed authentication is to be seen, an access check is not
AlwaysNoise == BulkNoiseMethods \ Listed("bulkAuthentication")
SchemaLookups == Listed("schemaLookup")
AclMethods == Listed("kafkaAcls")
ContextEngine == Listed("contextEngine")
FlinkFailures == Listed("flinkFailure")
Lifecycle == Listed("flinkLifecycle")
Cancelled == Listed("flinkCancelled")
AlwaysInformational == Listed("alwaysInformational")
InternalTopicMethods == Listed("internalTopic")
PlatformHighRisk == Listed("platformHighRisk")
Registrations == Listed("schemaRegistration")

SecurityFailures == {"UNAUTHENTICATED", "PERMISSION_DENIED", "UNAUTHORIZED", "FORBIDDEN",
                     "INVALID_CREDENTIALS"}
Marks == {"internal",       \* the resource is one of Confluent's own topics
          "internalCrn",    \* so it is, but named by a CRN
          "platform",       \* the actor is Confluent's own account
          "adminRole",      \* the role bound is an administrator's
          "readOnly",       \* accessType READ_ONLY
          "dryRun"}         \* validateOnly

ASSUME EventVerdictAssumption ==
    /\ Methods \subseteq AllMethods
    /\ Types \subseteq {"request", "authorization", "authentication", "access-transparency"}
    /\ Statuses \subseteq SecurityFailures \cup {"unsaid", "SUCCESS", "FAILURE", "NOT_FOUND"}
    /\ MarkSets \subseteq SUBSET Marks
    \* the names in BULK_NOISE_METHODS are those of reads, writes and checks
    /\ \A m \in BulkNoiseMethods :
          /\ m.words \cup m.parts \subseteq {"fetch", "produce"} \cup Authenticating \cup Authorizing
          /\ m.tables \cap {"contextEngine", "flinkFailure", "flinkCancelled"} = {}

\* No rule tells an access that was granted from one that is not spoken of.
AuditEvents == [method : Methods, type : Types, granted : {"no", "unsaid"},
                authz : {"unsaid", "DENY"}, status : Statuses, marks : MarkSets]

Contains(e, markers) == e.method.parts \cap markers # {}
Says(e, markers) == e.method.words \cap markers # {}

Rule(when, says) == [when |-> when, says |-> says]
FirstRule(rules) == rules[Min({i \in DOMAIN rules : rules[i].when})].says

-----------------------------------------------------------------------------
(* Denied or failed, as each place sees it *)

\* _try_short_circuit_noise, on the raw payload
DeniedRaw(e) ==
    \/ e.granted = "no"
    \/ e.authz = "DENY"
    \/ e.status \in {"FAILURE", "UNAUTHENTICATED"}

\* event_intelligence: the words deny, denied, forbid, unauthoriz, then the enums
DeniedInDigest(e) == DeniedRaw(e) \/ e.status \in {"PERMISSION_DENIED", "UNAUTHORIZED", "FORBIDDEN"}

\* event_normalization.is_denied, the column of the row
DeniedInRow(e) == e.granted = "no" \/ e.status = "PERMISSION_DENIED"

FailedInSignal(e) == e.status \in {"FAILURE", "NOT_FOUND"}

-----------------------------------------------------------------------------
(* The rules *)

\* calculate_criticality: a security failure or a denied access is told first, whatever
\* the method; then the tables, then the words in the method's name.
\* flatten_audit calls it before it sets resultStatus.
RatingRules(e, status) ==
    LET signalOnly == AuthenticationMethods \cup AuthorizationCheckMethods
    IN  <<
            Rule(status \in SecurityFailures /\ e.method \in signalOnly, "LOW"),
            Rule(status \in SecurityFailures, "MEDIUM"),
            Rule(e.granted = "no" /\ e.method \in AuthorizationCheckMethods, "LOW"),
            Rule(e.granted = "no" /\ e.method \in CriticalMethods \cup HighMethods, "HIGH"),
            Rule(e.granted = "no", "LOW"),
            Rule(e.method \in CriticalMethods, "CRITICAL"),
            Rule(e.method \in HighMethods, "HIGH"),
            Rule(e.method \in MediumMethods, "MEDIUM"),
            Rule(Contains(e, DeletionPatterns), "HIGH"),
            Rule(e.method \in AuthorizationCheckMethods, "LOW"),
            Rule(Says(e, SensitiveKeywords), "HIGH"),
            Rule(Contains(e, ChangePatterns), "MEDIUM"),
            Rule(TRUE, "LOW") >>

Criticality(e, status) == FirstRule(RatingRules(e, status))

\* _change_type; created, updated and configured are told apart by no rule.
ChangeRules(e) ==
    <<
        Rule(DeniedInDigest(e), "denied"),
        Rule(e.type = "authentication" \/ Says(e, Authenticating), "authenticated"),
        Rule(e.type = "authorization" \/ Says(e, Authorizing), "authorized"),
        Rule(Says(e, Deleting), "deleted"),
        Rule(Says(e, Changing) \/ Contains(e, {"config"}), "changed"),
        Rule(Says(e, Reading), "read/listed"),
        Rule(Says(e, Writing), "changed"),
        Rule(TRUE, "unknown") >>

ChangeType(e) == FirstRule(ChangeRules(e))

\* classify_event; a change that is created, updated or configured has one of four
\* impacts and gets the same signal with each.
ImpactRules(e) ==
    <<
        Rule(e.type = "access-transparency" \/ DeniedInDigest(e), "security_sensitive"),
        Rule(e.method \in SchemaLookups, "read_only"),
        Rule(e.method \in AclMethods /\ e.type # "authorization", "access_change"),
        Rule(e.type = "authorization" \/ Contains(e, {"authorize"}), "authorization_check"),
        Rule(e.type = "authentication" \/ Contains(e, Authenticating), "authentication"),
        Rule(Contains(e, AccessNames), "access_change"),
        Rule(ChangeType(e) = "deleted", "destructive"),
        Rule(TRUE, "other") >>

Impact(e) == FirstRule(ImpactRules(e))

\* named: the field "action" is there, which flatten_audit's output has not.
Destroys(e, named) ==
    \/ Impact(e) = "destructive"
    \/ ChangeType(e) = "deleted"
    \/ named /\ Contains(e, DestructiveText)

Alters(e, named) ==
    \/ Impact(e) = "access_change"
    \/ ChangeType(e) = "changed"
    \/ named /\ Contains(e, ChangeText)

\* _classify_signal_core
CoreRules(e, named) ==
    <<
        Rule(DeniedInDigest(e), "action_required"),
        Rule(e.method \in AlwaysNoise, "noise"),
        Rule(e.method \in ContextEngine /\ Contains(e, {"delete", "remove", "drop", "destroy"}),
             "action_required"),
        Rule(e.method \in ContextEngine /\ e.method.start # "other", "informational"),
        Rule(e.method \in ContextEngine, "attention"),
        Rule(\/ e.method \in FlinkFailures
             \/ e.method \in Cancelled /\ FailedInSignal(e), "action_required"),
        Rule(e.method \in Lifecycle \cup Cancelled, "attention"),
        Rule(e.method.start \in {"get", "list"} \/ e.method \in AlwaysInformational,
             "informational"),
        Rule(FailedInSignal(e), "action_required"),
        Rule("adminRole" \in e.marks /\ Contains(e, {"bindroleforprincipal"}),
             "action_required"),
        Rule(Destroys(e, named), "action_required"),
        Rule(Alters(e, named), "attention"),
        Rule(Impact(e) \in {"authentication", "authorization_check"}, "noise"),
        Rule(TRUE, "informational") >>

\* Mutated: noise is told before denials.
CoreSignal_NoiseFirst(e, named) ==
    IF e.method \in AlwaysNoise THEN "noise"
    ELSE IF DeniedInDigest(e) THEN "action_required" ELSE "informational"

CoreSignal(e, named) == FirstRule(CoreRules(e, named))

\* classify_signal's overrides, and the last two of normalize_event.  The name of a topic
\* is taken out of its CRN in the same step as "action" is put in.
SignalRules(e, named) ==
    <<
        Rule("dryRun" \in e.marks, "noise"),
        Rule("readOnly" \in e.marks, "informational"),
        Rule(e.type = "access-transparency", "action_required"),
        Rule(/\ "internal" \in e.marks \/ (named /\ "internalCrn" \in e.marks)
             /\ e.method \in InternalTopicMethods, "noise"),
        Rule("platform" \in e.marks
               /\ ~(named /\ (e.method \in PlatformHighRisk \/ Contains(e, SecurityVerbs))),
             "informational"),
        Rule(named /\ e.method \in Registrations, "attention"),
        Rule(TRUE, CoreSignal(e, named)) >>

\* Mutated: Confluent's own account is known as such only once "action" is there.
Signal_ActionOnly(e, named) ==
    IF "platform" \in e.marks /\ named THEN "informational" ELSE CoreSignal(e, named)

Signal(e, named) == FirstRule(SignalRules(e, named))

\* _route_to_queue
Lane(e) ==
    FirstRule(<<
        Rule("dryRun" \in e.marks, "bulk"),
        Rule(e.method \in CriticalMethods \cup HighMethods, "critical"),
        Rule(e.method \in ReadOnlyMethods \cup AuthenticationMethods
                            \cup AuthorizationCheckMethods, "bulk"),
        Rule(TRUE, "normal") >>)

Enriched(e) == [criticality |-> Criticality(e, "unsaid"), signal |-> Signal(e, FALSE)]

NotYet == [signal |-> "none"]

-----------------------------------------------------------------------------

VARIABLES
    event,          \* the event
    published,      \* what the enriched topic says of it, or NotYet
    row,            \* its row in Postgres, or NotYet
    replayed        \* what a replay made of it, or NotYet

verdictVars == <<event, published, row, replayed>>

VerdictTypeOK ==
    /\ event \in AuditEvents
    /\ published.signal \in {"none", "action_required", "attention", "informational", "noise"}
    /\ row # NotYet => row.table \in {"audit_events", "audit_events_noise"}

VerdictInit ==
    /\ event \in AuditEvents
    /\ published = NotYet /\ row = NotYet /\ replayed = NotYet

\* Mutated: the payload's boolean is not looked at.
IsBulkNoise_Enums(e) ==
    /\ e.method \in BulkNoiseMethods
    /\ ~(e.authz = "DENY" \/ e.status \in {"FAILURE", "UNAUTHENTICATED"})

IsBulkNoise(e) == e.method \in BulkNoiseMethods /\ ~DeniedRaw(e)

NoiseRow(e, denied) == [table |-> "audit_events_noise", signal |-> "noise", denied |-> denied]

\* _split_noise puts the raw payload on the bulk lane, whose writer keeps it.
ShortCircuit ==
    /\ published = NotYet /\ row = NotYet
    /\ IsBulkNoise(event)
    /\ row' = NoiseRow(event, event.granted = "no")
    /\ UNCHANGED <<event, published, replayed>>

\* The processor; bulk noise reaches it when its lane is full.
Process ==
    /\ published = NotYet /\ row = NotYet
    /\ published' = Enriched(event)
    /\ UNCHANGED <<event, row, replayed>>

\* The lane's writer: minimal_normalize keeps the enriched is_denied, write_batch
\* normalises the enriched event again, which now has its action.
WriteRow ==
    /\ published # NotYet /\ row = NotYet
    /\ row' = IF Lane(event) = "bulk" THEN NoiseRow(event, DeniedInRow(event))
              ELSE [table |-> "audit_events", signal |-> Signal(event, TRUE),
                    denied |-> DeniedInRow(event)]
    /\ UNCHANGED <<event, published, replayed>>

\* A replay of the raw topic enriches the event anew.
ReplayRaw ==
    /\ published # NotYet
    /\ replayed' = Enriched(event)
    /\ UNCHANGED <<event, published, row>>

\* One of the enriched topic only rates it again (recompute_enriched_event), with the
\* status, and puts what calculate_criticality calls the signal over the published one.
ReplayEnriched ==
    /\ published # NotYet
    /\ replayed' = [criticality |-> Criticality(event, event.status),
                    signal |-> IF event.status \in SecurityFailures \/ event.granted = "no"
                               THEN "denial" ELSE "none"]
    /\ UNCHANGED <<event, published, row>>

VerdictNext == ShortCircuit \/ Process \/ WriteRow \/ ReplayRaw \/ ReplayEnriched

VerdictSpec == VerdictInit /\ [][VerdictNext]_verdictVars

-----------------------------------------------------------------------------
(* Properties *)

\* Wherever in the two cascades a method is caught, a refused access check reaches the
\* enriched topic as action_required and the table as denied; only the marks that
\* overrule every rule take the signal away.
DenialsSurface ==
    row # NotYet /\ event.granted = "no" =>
        /\ row.denied
        /\ published # NotYet
        /\ \/ published.signal = "action_required"
           \/ event.marks \cap {"dryRun", "readOnly", "platform"} # {}
           \/ "internal" \in event.marks /\ event.method \in InternalTopicMethods

\* What the consumer takes for noise the full path would not have called for action
\* on, but for four statuses and a type that it does not look at.
ShortCutAgrees ==
    row # NotYet /\ published = NotYet =>
        \/ Signal(event, FALSE) # "action_required"
        \/ event.status \in {"PERMISSION_DENIED", "UNAUTHORIZED", "FORBIDDEN", "NOT_FOUND"}
        \/ event.type = "access-transparency"

Urgency == [noise |-> 0, informational |-> 0, attention |-> 1, action_required |-> 2]

\* The words by which the row's pass may come to another signal.
SecondPassWords == DestructiveText \cup ChangeText \cup SecurityVerbs

\* The row's signal is derived again, from an event that has gained two fields, and the
\* two may differ: a method that says "revoke" or "drop", or a deletion told by an
\* authorization event, is published as less than what the row says.  But the row is
\* never calmer than what was published, except for a schema registration, which it only
\* reviews, and for an internal topic that was named by its CRN; and without a marker
\* word in the method's name it says the same.
RowAsPublished ==
    row # NotYet /\ row.table = "audit_events" =>
        \/ row.signal = published.signal
        \/ /\ Urgency[row.signal] >= Urgency[published.signal]
           /\ \/ Contains(event, SecondPassWords)
              \/ "platform" \in event.marks /\ event.method \in PlatformHighRisk
        \/ row.signal = "attention" /\ event.method \in Registrations
        \/ /\ row.signal = "noise"
           /\ "internalCrn" \in event.marks /\ event.method \in InternalTopicMethods

\* Whichever topic is replayed, an event is rated as it was, unless its status is a
\* security failure, which the first rating did not see.
ReplayRatesAlike ==
    replayed # NotYet =>
        \/ replayed.criticality = published.criticality
        \/ event.status \in SecurityFailures

\* Where an event is judged in several places, the verdicts agree, but for the
\* methods, words, marks and statuses named above.
VerdictsAgree == DenialsSurface /\ ShortCutAgrees /\ RowAsPublished /\ ReplayRatesAlike
=============================================================================
