------------------------------ MODULE ColdArchive ------------------------------
(***************************************************************************)
(* Retention with a cold store: cleanup_retention of event_service.py      *)
(* calls archive_events_before of cold_storage_service.py, which uploads   *)
(* one object per day that has a row older than the cutoff, and then       *)
(* deletes the rows older than the cutoff.  The API's daily task and the   *)
(* admin route run it, each on a thread of its own, with no lock between   *)
(* them; the forwarder's writer deletes old rows too and archives none.    *)
(* The clock and retention_days show only in the cutoff.  The other steps  *)
(* of cleanup_retention (raw payloads, triage rows, noise, feedback) touch *)
(* nothing that these two read, and are left out.                          *)
(***************************************************************************)
EXTENDS Integers, FiniteSets, FiniteSetsExt

CONSTANTS
    Cleaners,       \* the threads that may be in cleanup_retention
    Events,         \* rows: pairs of a day and a time in that day
    Cutoffs,        \* the cutoffs cleanups have, pairs of the same kind
    DeleteBatch,    \* _EVENT_DELETE_BATCH
    MaxCleanups,    \* bound: cleanups started
    StoreFaults     \* bound: uploads that fail, settings that cannot be read

ASSUME ColdArchiveAssumption ==
    /\ \A e \in Events \cup Cutoffs : e[1] \in Nat /\ e[2] \in Nat
    /\ DeleteBatch \in Nat \ {0}
    /\ {MaxCleanups, StoreFaults} \subseteq Nat

DayOf(e) == e[1]
Days == {DayOf(e) : e \in Events}
Before(e, cutoff) == e[1] < cutoff[1] \/ (e[1] = cutoff[1] /\ e[2] < cutoff[2])
Objects == Days \X (0 .. Cardinality(Days) - 1)

NoCleanup == [at |-> "idle"]

VARIABLES
    table,          \* audit_events
    store,          \* the objects of the bucket, by day and number
    enabled,        \* cold_storage/enabled with a known provider and a bucket
    cleaner,        \* where each thread is
    cleanupsLeft, storeFaultsLeft,
    deleted,        \* ghost: rows deleted
    uploaded,       \* ghost: rows that were in an object when it was uploaded
    exempt          \* ghost: rows deleted by a run that was not to archive, or by the
                    \* forwarder's sweep, or that came while the run that deleted them
                    \* was under way

archiveVars == <<table, store, enabled, cleaner, cleanupsLeft, storeFaultsLeft, deleted,
                 uploaded, exempt>>

ArchiveTypeOK ==
    /\ {table, deleted, uploaded, exempt} \subseteq SUBSET Events
    /\ store \in [Objects -> SUBSET Events]
    /\ enabled \in BOOLEAN
    /\ \A c \in Cleaners : cleaner[c].at \in {"idle", "archiving", "deleting"}
    /\ cleanupsLeft \in 0 .. MaxCleanups /\ storeFaultsLeft \in 0 .. StoreFaults

ArchiveInit ==
    /\ table = {}
    /\ store = [o \in Objects |-> {}]
    /\ enabled \in BOOLEAN
    /\ cleaner = [c \in Cleaners |-> NoCleanup]
    /\ cleanupsLeft = MaxCleanups
    /\ storeFaultsLeft = StoreFaults
    /\ deleted = {} /\ uploaded = {} /\ exempt = {}

\* The forwarder stores an event, of whatever age; a fingerprint once deleted could
\* come again only by a replay, and does not here.
EventArrives(e) ==
    /\ e \notin table \cup deleted
    /\ table' = table \cup {e}
    /\ cleaner' = [c \in Cleaners |-> IF cleaner[c].at = "idle" THEN NoCleanup
                                      ELSE [cleaner[c] EXCEPT !.late = @ \cup {e}]]
    /\ UNCHANGED <<store, enabled, cleanupsLeft, storeFaultsLeft, deleted, uploaded, exempt>>

\* Settings are saved.
Configure ==
    /\ cleanupsLeft = MaxCleanups
    /\ enabled' = ~enabled
    /\ UNCHANGED <<table, store, cleaner, cleanupsLeft, storeFaultsLeft, deleted, uploaded,
                   exempt>>

DaysBefore(cutoff) == {DayOf(e) : e \in {x \in table : Before(x, cutoff)}}

\* cleanup_retention up to the list of days.  The backend is chosen once: one that
\* is disabled archives nothing, and the deletes follow.
BeginCleanup(c, cutoff) ==
    /\ cleaner[c] = NoCleanup
    /\ cleanupsLeft > 0
    /\ cleanupsLeft' = cleanupsLeft - 1
    /\ cleaner' = [cleaner EXCEPT ![c] =
            [at |-> IF enabled THEN "archiving" ELSE "deleting", cutoff |-> cutoff,
             days |-> IF enabled THEN DaysBefore(cutoff) ELSE {},
             archived |-> 0, errors |-> FALSE, late |-> {}, archives |-> enabled,
             deletes |-> TRUE]]
    /\ UNCHANGED <<table, store, enabled, storeFaultsLeft, deleted, uploaded, exempt>>

\* get_backend cannot read the settings, and takes cold storage for disabled.
BeginUnarchived(c, cutoff) ==
    /\ cleaner[c] = NoCleanup
    /\ enabled
    /\ cleanupsLeft > 0 /\ storeFaultsLeft > 0
    /\ cleanupsLeft' = cleanupsLeft - 1
    /\ storeFaultsLeft' = storeFaultsLeft - 1
    /\ cleaner' = [cleaner EXCEPT ![c] =
            [at |-> "deleting", cutoff |-> cutoff, days |-> {}, archived |-> 0,
             errors |-> FALSE, late |-> {}, archives |-> FALSE, deletes |-> TRUE]]
    /\ UNCHANGED <<table, store, enabled, deleted, uploaded, exempt>>

\* The admin route archives once by itself, minding no error, before it calls
\* cleanup_retention, which archives again.
RouteArchives(c, cutoff) ==
    /\ cleaner[c] = NoCleanup
    /\ enabled
    /\ cleanupsLeft > 0
    /\ cleanupsLeft' = cleanupsLeft - 1
    /\ cleaner' = [cleaner EXCEPT ![c] =
            [at |-> "archiving", cutoff |-> cutoff, days |-> DaysBefore(cutoff), archived |-> 0,
             errors |-> FALSE, late |-> {}, archives |-> TRUE, deletes |-> FALSE]]
    /\ UNCHANGED <<table, store, enabled, storeFaultsLeft, deleted, uploaded, exempt>>

\* _serialize_events_for_date: the whole day, past the cutoff too
RowsOf(day, cutoff) == {e \in table : DayOf(e) = day}

\* One turn of the archive's loop.  The object's number is the count of days this
\* run has archived, so that a later run may write over the object of an earlier one.
UploadDay(c) ==
    /\ cleaner[c].at = "archiving" /\ cleaner[c].days # {}
    /\ LET day  == Min(cleaner[c].days)
           rows == RowsOf(day, cleaner[c].cutoff)
       IN  /\ store' = [store EXCEPT ![<<day, cleaner[c].archived>>] = rows]
           /\ uploaded' = uploaded \cup rows
           /\ cleaner' = [cleaner EXCEPT ![c].days = @ \ {day}, ![c].archived = @ + 1]
    /\ UNCHANGED <<table, enabled, cleanupsLeft, storeFaultsLeft, deleted, exempt>>

UploadFails(c) ==
    /\ cleaner[c].at = "archiving" /\ cleaner[c].days # {}
    /\ storeFaultsLeft > 0
    /\ storeFaultsLeft' = storeFaultsLeft - 1
    /\ cleaner' = [cleaner EXCEPT ![c].days = @ \ {Min(@)}, ![c].errors = TRUE]
    /\ UNCHANGED <<table, store, enabled, cleanupsLeft, deleted, uploaded, exempt>>

\* Mutated: the errors are logged and the deletes follow.
EndArchive_Anyway(c) ==
    /\ cleaner[c].at = "archiving" /\ cleaner[c].days = {}
    /\ cleaner' = [cleaner EXCEPT ![c].at = "deleting"]
    /\ UNCHANGED <<table, store, enabled, cleanupsLeft, storeFaultsLeft, deleted, uploaded,
                   exempt>>

\* After the archive: any error ends the cleanup before its deletes.
EndArchive(c) ==
    /\ cleaner[c].at = "archiving" /\ cleaner[c].days = {}
    /\ cleaner' = [cleaner EXCEPT ![c] =
            IF cleaner[c].errors \/ ~cleaner[c].deletes THEN NoCleanup
            ELSE [cleaner[c] EXCEPT !.at = "deleting"]]
    /\ UNCHANGED <<table, store, enabled, cleanupsLeft, storeFaultsLeft, deleted, uploaded,
                   exempt>>

\* One batch of deletes, of rows the query finds now; a short one is the last.
DeleteRows(c) ==
    /\ cleaner[c].at = "deleting"
    /\ LET due == {e \in table : Before(e, cleaner[c].cutoff)}
       IN  \E batch \in SUBSET due :
            /\ Cardinality(batch) = Min({DeleteBatch, Cardinality(due)})
            /\ table' = table \ batch
            /\ deleted' = deleted \cup batch
            /\ exempt' = exempt \cup (IF cleaner[c].archives THEN batch \cap cleaner[c].late
                                        ELSE batch)
            /\ cleaner' = IF Cardinality(batch) < DeleteBatch
                          THEN [cleaner EXCEPT ![c] = NoCleanup] ELSE cleaner
    /\ UNCHANGED <<store, enabled, cleanupsLeft, storeFaultsLeft, uploaded>>

\* cleanup_retention of the forwarder's writer (db_writer.py): batches on a timer of its
\* own, after the same number of days, and nothing is archived.
WriterSweeps(cutoff) ==
    LET due == {e \in table : Before(e, cutoff)}
    IN  \E batch \in SUBSET due :
            /\ batch # {}
            /\ Cardinality(batch) = Min({DeleteBatch, Cardinality(due)})
            /\ table' = table \ batch
            /\ deleted' = deleted \cup batch
            /\ exempt' = exempt \cup batch
            /\ UNCHANGED <<store, enabled, cleaner, cleanupsLeft, storeFaultsLeft, uploaded>>

\* The API process dies in the middle, or the database raises.
CleanupDies(c) ==
    /\ cleaner[c] # NoCleanup
    /\ cleaner' = [cleaner EXCEPT ![c] = NoCleanup]
    /\ UNCHANGED <<table, store, enabled, cleanupsLeft, storeFaultsLeft, deleted, uploaded,
                   exempt>>

ArchiveNext ==
    \/ \E e \in Events : EventArrives(e)
    \/ Configure
    \/ \E cutoff \in Cutoffs : WriterSweeps(cutoff)
    \/ \E c \in Cleaners :
        \/ \E cutoff \in Cutoffs :
            BeginCleanup(c, cutoff) \/ BeginUnarchived(c, cutoff) \/ RouteArchives(c, cutoff)
        \/ UploadDay(c)
        \/ UploadFails(c)
        \/ EndArchive(c)
        \/ DeleteRows(c)
        \/ CleanupDies(c)

ArchiveSpec == ArchiveInit /\ [][ArchiveNext]_archiveVars

-----------------------------------------------------------------------------
(* Properties *)

\* Whatever uploads fail, whichever days they are of, wherever a cleanup dies and
\* two cleanups interleave: a run that archives deletes no row that was there when
\* it began and that no upload took.
UploadedBeforeDeleted == deleted \subseteq uploaded \cup exempt
=============================================================================
