---------------------------- MODULE SchemaWatcher ----------------------------
(***************************************************************************)
(* The schema watcher (schema-watcher/watcher.py): a check every day that  *)
(* reads the published audit-log documentation, compares it with the       *)
(* snapshot of the last recorded version, adds new methods to the data     *)
(* file that classification reads at startup, announces them and records   *)
(* a version and its snapshot.                                             *)
(*                                                                         *)
(* Snapshots: run_check opens the file and then serialises the schema,     *)
(* whose parts are Python sets, which orjson refuses.  The file is left    *)
(* empty and the check ends in an exception; the next one finds the empty  *)
(* file and ends when it parses it.  So no snapshot is ever read back, the *)
(* branch for an unchanged schema is never taken (the eight CloudEvents    *)
(* fields are always new against an empty schema), and the watcher finds   *)
(* nothing after the first version whose snapshot it began to write.       *)
(***************************************************************************)
EXTENDS Naturals

CONSTANTS
    Methods,        \* methods the documentation may name
    MaxDocs,        \* bound: changes of the documentation
    WatcherFaults,  \* bound: requests and file writes that fail
    WatcherDeaths   \* bound: times the process is killed

VARIABLES
    documented,     \* the methods the documentation names now
    dataFile,       \* schema_methods.json: methods by level, all levels together
    versions,       \* entries of schema_versions.json
    booked,         \* the methods those entries name as added
    told,           \* the methods of Slack messages that were accepted
    snapshots,      \* versions whose snapshot file exists, always empty
    checking,       \* where run_check is
    fetched,        \* the methods of the schema it works with
    history,        \* the number of versions it loaded
    docsLeft, watcherFaultsLeft, watcherDeathsLeft

watcherVars == <<documented, dataFile, versions, booked, told, snapshots, checking,
                 fetched, history, docsLeft, watcherFaultsLeft, watcherDeathsLeft>>
filesOfWatcher == <<dataFile, versions, booked, told, snapshots>>
bounds == <<docsLeft, watcherFaultsLeft, watcherDeathsLeft>>

WatcherTypeOK ==
    /\ {documented, dataFile, booked, told, fetched} \subseteq SUBSET Methods
    /\ {versions, history} \subseteq Nat
    /\ snapshots \subseteq Nat
    /\ checking \in {"asleep", "loading", "updating", "alerting", "saving", "snapshot"}

WatcherInit ==
    /\ documented \in SUBSET Methods
    /\ dataFile = {} /\ versions = 0 /\ booked = {} /\ told = {} /\ snapshots = {}
    /\ checking = "asleep" /\ fetched = {} /\ history = 0
    /\ docsLeft = MaxDocs
    /\ watcherFaultsLeft = WatcherFaults
    /\ watcherDeathsLeft = WatcherDeaths

Publish ==
    /\ docsLeft > 0
    /\ docsLeft' = docsLeft - 1
    /\ documented' \in SUBSET Methods \ {documented}
    /\ UNCHANGED <<filesOfWatcher, checking, fetched, history, watcherFaultsLeft,
                   watcherDeathsLeft>>

\* fetch_confluent_schema; when its three attempts fail the check is over.
FetchSchema ==
    /\ checking = "asleep"
    /\ fetched' = documented
    /\ checking' = "loading"
    /\ UNCHANGED <<documented, filesOfWatcher, history, bounds>>

\* load_version_history and the snapshot of the last version: an empty file
\* raises, none stands for an empty schema, so everything is new.
LoadSnapshot ==
    /\ checking = "loading"
    /\ history' = versions
    /\ IF versions > 0 /\ versions \in snapshots
       THEN checking' = "asleep"
       ELSE checking' = IF fetched = {} THEN "alerting" ELSE "updating"
    /\ UNCHANGED <<documented, filesOfWatcher, fetched, bounds>>

\* Mutated: the version is recorded first.
UpdateDataFile_Later ==
    /\ checking = "updating"
    /\ checking' = "alerting"
    /\ UNCHANGED <<documented, filesOfWatcher, fetched, history, bounds>>

\* update_methods_data_file: a new file that replaces the old one.
UpdateDataFile ==
    /\ checking = "updating"
    /\ dataFile' = dataFile \cup fetched
    /\ checking' = "alerting"
    /\ UNCHANGED <<documented, versions, booked, told, snapshots, fetched, history, bounds>>

\* The data file cannot be written: the check is over.
UpdateFails ==
    /\ checking = "updating"
    /\ watcherFaultsLeft > 0
    /\ watcherFaultsLeft' = watcherFaultsLeft - 1
    /\ checking' = "asleep"
    /\ UNCHANGED <<documented, filesOfWatcher, fetched, history, docsLeft,
                   watcherDeathsLeft>>

\* send_slack_alert: a message that is refused three times is only logged.
SendSlackAlert ==
    /\ checking = "alerting"
    /\ checking' = "saving"
    /\ \/ /\ told' = told \cup fetched
          /\ UNCHANGED watcherFaultsLeft
       \/ /\ watcherFaultsLeft > 0
          /\ watcherFaultsLeft' = watcherFaultsLeft - 1
          /\ UNCHANGED told
    /\ UNCHANGED <<documented, dataFile, versions, booked, snapshots, fetched, history,
                   docsLeft, watcherDeathsLeft>>

\* save_version_history: a failure is only logged.
SaveVersion ==
    /\ checking = "saving"
    /\ checking' = "snapshot"
    /\ \/ /\ versions' = versions + 1
          /\ booked' = booked \cup fetched
          /\ UNCHANGED watcherFaultsLeft
       \/ /\ watcherFaultsLeft > 0
          /\ watcherFaultsLeft' = watcherFaultsLeft - 1
          /\ UNCHANGED <<versions, booked>>
    /\ UNCHANGED <<documented, dataFile, told, snapshots, fetched, history, docsLeft,
                   watcherDeathsLeft>>

\* The file is created, then serialising the sets raises: the check is over.
SaveSnapshot ==
    /\ checking = "snapshot"
    /\ snapshots' = snapshots \cup {history + 1}
    /\ checking' = "asleep"
    /\ UNCHANGED <<documented, dataFile, versions, booked, told, fetched, history, bounds>>

WatcherKilled ==
    /\ checking # "asleep"
    /\ watcherDeathsLeft > 0
    /\ watcherDeathsLeft' = watcherDeathsLeft - 1
    /\ checking' = "asleep"
    /\ UNCHANGED <<documented, filesOfWatcher, fetched, history, docsLeft,
                   watcherFaultsLeft>>

WatcherNext ==
    \/ Publish \/ FetchSchema \/ LoadSnapshot \/ UpdateDataFile \/ UpdateFails
    \/ SendSlackAlert \/ SaveVersion \/ SaveSnapshot \/ WatcherKilled

WatcherSpec == WatcherInit /\ [][WatcherNext]_watcherVars

-----------------------------------------------------------------------------
(* Properties *)

\* What a version records, and what Slack was told, is in the data file: a kill
\* or a failure between the steps of a check may repeat an announcement, and
\* never makes the watcher take for known what classification does not know.
BookedIsRecorded == booked \cup told \subseteq dataFile
=============================================================================
