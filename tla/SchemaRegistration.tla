--------------------------- MODULE SchemaRegistration ---------------------------
(***************************************************************************)
(* The schemas of the topics AuditLens writes, in a registry that several  *)
(* parties register with: the settings page (probe, post unless the latest *)
(* version is the same, set the compatibility), the command line (probe,   *)
(* post, read again, set the compatibility), each subject after the other, *)
(* and the Tableflow page, which puts a JSON schema under the subject of   *)
(* the enriched topic.  The forwarder registers nothing: its serializer    *)
(* looks its schema up, and an event for which it does not find it goes to *)
(* the dead letter queue.                                                  *)
(*                                                                         *)
(* Two subjects, the enriched topic's and one that stands for the others.  *)
(* The registry is configured and its credentials are right; the registered  *)
(* of the Avro schemas are compatible with each other in both directions.  *)
(***************************************************************************)
EXTENDS Naturals, Sequences, SequencesExt

CONSTANTS
    Clicks,             \* requests of the settings page
    Commands,           \* runs of register_sr_schemas.py
    SchemaOf,           \* the version of the schemas each of them ships with
    ForwarderSchema,    \* the version the forwarder ships with
    RegistryFaults      \* bound on the calls that fail and the registrars that are killed

ASSUME SchemaRegistrationAssumption ==
    /\ RegistryFaults \in Nat
    /\ SchemaOf \in [Clicks \cup Commands -> Nat \ {0}] /\ ForwarderSchema \in Nat \ {0}

Registrars == Clicks \cup Commands
Subjects == {"enriched", "others"}
JsonSchema == 99        \* schemas/audit.enriched.v1.json
Unregistered == 0       \* no latest version; versions count from 1

VARIABLES
    registered,       \* what is registered under a subject, oldest first
    compatibility,  \* of a subject
    step, subject,  \* where a registrar is
    latest,         \* the version its probe read
    reported,       \* what it reports for a subject
    tableflow,      \* "off", "posted" (schema dealt with) or "on"
    lookedUp,       \* the serializer knows its schema
    refused,        \* it has refused an event, not before a registration of its schema
    registryFaults

registryVars == <<registered, compatibility, step, subject, latest, reported, tableflow, lookedUp,
                  refused, registryFaults>>
registrarVars == <<step, subject, latest, reported>>
topicVars == <<tableflow, lookedUp, refused>>

RegistryTypeOK ==
    /\ registered \in [Subjects -> Seq(Range(SchemaOf) \cup {JsonSchema})]
    /\ compatibility \in [Subjects -> {"BACKWARD", "FORWARD"}]
    /\ step \in [Registrars -> {"probe", "post", "reread", "compatibility", "done", "dead"}]
    /\ subject \in [Registrars -> Subjects]
    /\ reported \in [Registrars -> [Subjects -> {"nothing", "skipped", "registered", "updated", "error"}]]
    /\ tableflow \in {"off", "posted", "on"}
    /\ lookedUp \in BOOLEAN /\ refused \in BOOLEAN

RegistryInit ==
    /\ registered = [s \in Subjects |-> <<>>]
    /\ compatibility = [s \in Subjects |-> "BACKWARD"]
    /\ step = [c \in Registrars |-> "probe"] /\ subject = [c \in Registrars |-> "enriched"]
    /\ latest = [c \in Registrars |-> Unregistered]
    /\ reported = [c \in Registrars |-> [s \in Subjects |-> "nothing"]]
    /\ tableflow = "off" /\ lookedUp = FALSE /\ refused = FALSE
    /\ registryFaults = 0

-----------------------------------------------------------------------------
(* The registry *)

LatestVersion(s) == IF registered[s] = <<>> THEN Unregistered ELSE Last(registered[s])
Known(s, schema) == schema \in Range(registered[s])

\* What is registered already is left where it is; Avro and JSON do not go together.
Accepts(s, schema) ==
    \/ registered[s] = <<>> \/ Known(s, schema)
    \/ (schema = JsonSchema) = (LatestVersion(s) = JsonSchema)

Registered(s, schema) ==
    IF Known(s, schema) THEN registered
    ELSE [registered EXCEPT ![s] = Append(@, schema)]

RegistryFails == registryFaults < RegistryFaults /\ registryFaults' = registryFaults + 1

-----------------------------------------------------------------------------
(* The settings page and the command *)

\* The result of a subject is noted, and the next subject begins.
Book(c, result) ==
    /\ reported' = [reported EXCEPT ![c][subject[c]] = result]
    /\ latest' = [latest EXCEPT ![c] = Unregistered]
    /\ subject' = [subject EXCEPT ![c] = "others"]
    /\ step' = [step EXCEPT ![c] = IF subject[c] = "enriched" THEN "probe" ELSE "done"]

\* The compatibility is set for the enriched subject only.
Continue(c, result) ==
    IF subject[c] = "enriched"
    THEN /\ reported' = [reported EXCEPT ![c][subject[c]] = result]
         /\ step' = [step EXCEPT ![c] = "compatibility"]
         /\ UNCHANGED <<subject, latest>>
    ELSE Book(c, result)

\* Mutated: a schema that is there is left alone, its compatibility too.
Skip_Wholly(c) == Book(c, "skipped")

\* The page posts nothing where the latest version is its own.
Skip(c) == Continue(c, "skipped")

Inspect(c) ==
    /\ step[c] = "probe"
    /\ IF c \in Clicks /\ LatestVersion(subject[c]) = SchemaOf[c]
       THEN Skip(c)
       ELSE /\ latest' = [latest EXCEPT ![c] = LatestVersion(subject[c])]
            /\ step' = [step EXCEPT ![c] = "post"]
            /\ UNCHANGED <<subject, reported>>
    /\ UNCHANGED <<registered, compatibility, topicVars, registryFaults>>

\* What a registrar makes of a successful post.
Result(c) ==
    IF latest[c] = Unregistered THEN "registered"
    ELSE IF c \in Commands /\ latest[c] = SchemaOf[c] THEN "skipped"
    ELSE "updated"

Register(c) ==
    /\ step[c] = "post"
    /\ IF ~Accepts(subject[c], SchemaOf[c])
       THEN UNCHANGED registered /\ Book(c, "error")
       ELSE /\ registered' = Registered(subject[c], SchemaOf[c])
            /\ IF c \in Clicks THEN Continue(c, Result(c))
               ELSE /\ step' = [step EXCEPT ![c] = "reread"]
                    /\ reported' = [reported EXCEPT ![c][subject[c]] = Result(c)]
                    /\ UNCHANGED <<subject, latest>>
    /\ UNCHANGED <<compatibility, topicVars, registryFaults>>

\* The command reads the version it got.
Reread(c) ==
    /\ step[c] = "reread"
    /\ Continue(c, reported[c][subject[c]])
    /\ UNCHANGED <<registered, compatibility, topicVars, registryFaults>>

SetCompatibility(c) ==
    /\ step[c] = "compatibility"
    /\ compatibility' = [compatibility EXCEPT ![subject[c]] = "FORWARD"]
    /\ Book(c, reported[c][subject[c]])
    /\ UNCHANGED <<registered, topicVars, registryFaults>>

\* A call fails, or what it did is done and its answer is lost.
CallFails(c) ==
    /\ step[c] \notin {"done", "dead"}
    /\ RegistryFails
    /\ registered' \in {registered} \cup
           (IF step[c] = "post" /\ Accepts(subject[c], SchemaOf[c])
            THEN {Registered(subject[c], SchemaOf[c])} ELSE {})
    /\ \/ UNCHANGED compatibility
       \/ /\ step[c] = "compatibility"
          /\ compatibility' = [compatibility EXCEPT ![subject[c]] = "FORWARD"]
    /\ Book(c, "error")
    /\ UNCHANGED <<topicVars>>

RegistrarDies(c) ==
    /\ step[c] \notin {"done", "dead"}
    /\ RegistryFails
    /\ step' = [step EXCEPT ![c] = "dead"]
    /\ UNCHANGED <<registered, compatibility, subject, latest, reported, topicVars>>

-----------------------------------------------------------------------------
(* Tableflow and the forwarder *)

\* tableflow_enable registers first; whether that worked is only noted.
PostForTableflow ==
    /\ tableflow = "off"
    /\ \/ /\ Accepts("enriched", JsonSchema)
          /\ registered' = Registered("enriched", JsonSchema)
          /\ UNCHANGED registryFaults
       \/ /\ ~Accepts("enriched", JsonSchema)
          /\ UNCHANGED <<registered, registryFaults>>
       \/ RegistryFails /\ UNCHANGED registered
    /\ tableflow' = "posted"
    /\ UNCHANGED <<compatibility, registrarVars, lookedUp, refused>>

\* The topic is enabled, or the request for it fails.
EnableTableflow ==
    /\ tableflow = "posted"
    /\ tableflow' = "on" \/ (tableflow' = "off" /\ RegistryFails)
    /\ tableflow' = "on" => UNCHANGED registryFaults
    /\ UNCHANGED <<registered, compatibility, registrarVars, lookedUp, refused>>

\* tableflow_disable leaves the schema.
DisableTableflow ==
    /\ tableflow = "on"
    /\ tableflow' = "off"
    /\ UNCHANGED <<registered, compatibility, registrarVars, lookedUp, refused,
                   registryFaults>>

\* A registrar has come to its end without an error for a subject.
Succeeded(c, s) ==
    step[c] = "done" /\ reported[c][s] \in {"skipped", "registered", "updated"}

\* The serializer looks its schema up until it has found it.
Serialize ==
    /\ ~lookedUp
    /\ IF Known("enriched", ForwarderSchema)
       THEN lookedUp' = TRUE /\ UNCHANGED refused
       ELSE /\ refused' = (refused \/ \E c \in Registrars :
                             SchemaOf[c] = ForwarderSchema /\ Succeeded(c, "enriched"))
            /\ UNCHANGED lookedUp
    /\ UNCHANGED <<registered, compatibility, registrarVars, tableflow, registryFaults>>

RegistryNext ==
    \/ \E c \in Registrars :
          Inspect(c) \/ Register(c) \/ Reread(c) \/ SetCompatibility(c) \/ CallFails(c) \/ RegistrarDies(c)
    \/ PostForTableflow
    \/ EnableTableflow
    \/ DisableTableflow
    \/ Serialize

RegistrySpec == RegistryInit /\ [][RegistryNext]_registryVars

-----------------------------------------------------------------------------
(* Properties *)

\* Whatever else registers meanwhile, fails or is killed: what a registrar has reported
\* without an error is there, the enriched subject accepts only what its readers can read,
\* and a forwarder of that release refuses no event from then on.
RegisteredIsUsable ==
    /\ \A c \in Registrars, s \in Subjects :
          Succeeded(c, s) =>
              /\ Known(s, SchemaOf[c])
              /\ s = "enriched" => compatibility[s] = "FORWARD"
    /\ ~refused
=============================================================================
