------------------------------ MODULE EventStore ------------------------------
(***************************************************************************)
(* What a writer thread of the forwarder does with a batch of its lane     *)
(* (flush_db_writer_batch and _requeue_or_dlq of audit_forwarder.py,       *)
(* write_batch and upsert_catalog of product/db_writer.py): one INSERT for *)
(* the whole batch that skips fingerprints already in audit_events, the    *)
(* retention sweep when it is due, the catalog rows for the catalog        *)
(* thread; on any exception the whole batch again, each event up to a      *)
(* number of times, then the dead-letter topic.                            *)
(*                                                                         *)
(* The fingerprint of an event that is not of the Kafka data plane is its  *)
(* actor, action, resource and second: two messages may have the same one, *)
(* and only the first is stored.                                           *)
(***************************************************************************)
EXTENDS Naturals, Sequences, FiniteSets, SequencesExt

CONSTANTS
    Lanes,          \* lanes with a writer that stores in audit_events
    Emissions,      \* messages: [print, at, resource, named, poison]
    LaneSize,       \* room in a lane
    WriteBatch,     \* events a writer takes at once
    WriterRetries,  \* _WRITER_MAX_RETRIES
    CatalogSize,    \* room in catalog_queue
    MaxRouted,      \* bound: events put in lanes, redeliveries included
    DbFaults,       \* bound: statements that raise
    WriterCrashes   \* bound: crashes of the forwarder

ASSUME EventStoreAssumption ==
    {LaneSize, WriteBatch, WriterRetries, CatalogSize, MaxRouted, DbFaults,
     WriterCrashes} \subseteq Nat

VARIABLES
    lane,           \* what waits in each lane: <<emission, failed writes>>
    taken,          \* the batch each writer holds
    writer,         \* where each writer is
    stored,         \* audit_events
    catalogQueue, catalog,
    deadLetters,    \* emissions sent to the dead-letter topic, with failed writes
    swept,          \* fingerprints that retention deleted
    unplaced,       \* ghost: emissions dropped at a full lane, and counted as dropped
    seen,           \* ghost: emissions put in a lane
    lost,           \* ghost: emissions in memory at a crash; Kafka has them still
    learnt,         \* ghost: resources the catalog was told a name of
    routed, dbFaultsLeft, storeCrashesLeft

storeVars == <<lane, taken, writer, stored, catalogQueue, catalog, deadLetters, swept,
               unplaced, seen, lost, learnt, routed, dbFaultsLeft, storeCrashesLeft>>
catalogVars == <<catalogQueue, catalog, learnt>>
storeGhosts == <<unplaced, seen, lost>>
storeBounds == <<routed, dbFaultsLeft, storeCrashesLeft>>

Resources == {e.resource : e \in Emissions}
Unlisted == [named |-> FALSE, first |-> 0, last |-> 0]
Prints(S) == {e.print : e \in S}

StoreTypeOK ==
    /\ \A l \in Lanes : Len(lane[l]) <= LaneSize /\ Len(taken[l]) <= WriteBatch
    /\ writer \in [Lanes -> {"waits", "writing", "sweeping", "queueing"}]
    /\ stored \subseteq Emissions
    /\ Len(catalogQueue) <= CatalogSize
    /\ learnt \subseteq Resources
    /\ dbFaultsLeft \in 0 .. DbFaults

StoreInit ==
    /\ lane = [l \in Lanes |-> << >>]
    /\ taken = [l \in Lanes |-> << >>]
    /\ writer = [l \in Lanes |-> "waits"]
    /\ stored = {} /\ catalogQueue = << >>
    /\ catalog = [r \in Resources |-> Unlisted]
    /\ deadLetters = {} /\ swept = {} /\ unplaced = {} /\ seen = {} /\ lost = {} /\ learnt = {}
    /\ routed = 0
    /\ dbFaultsLeft = DbFaults
    /\ storeCrashesLeft = WriterCrashes

\* The processor routes an event; it may be one that was routed before.
RouteEvent(l, e) ==
    /\ routed < MaxRouted
    /\ Len(lane[l]) < LaneSize
    /\ lane' = [lane EXCEPT ![l] = Append(@, <<e, 0>>)]
    /\ routed' = routed + 1
    /\ seen' = seen \cup {e}
    /\ UNCHANGED <<taken, writer, stored, catalogVars, deadLetters, swept, unplaced, lost,
                   dbFaultsLeft, storeCrashesLeft>>

\* As many as are there when the deadline passes, up to a batch.
TakeWriteBatch(l) ==
    /\ writer[l] = "waits"
    /\ \E n \in 1 .. WriteBatch :
          /\ n <= Len(lane[l])
          /\ taken' = [taken EXCEPT ![l] = SubSeq(lane[l], 1, n)]
          /\ lane' = [lane EXCEPT ![l] = SubSeq(@, n + 1, Len(@))]
    /\ writer' = [writer EXCEPT ![l] = "writing"]
    /\ UNCHANGED <<stored, catalogVars, deadLetters, swept, storeGhosts, storeBounds>>

BatchOf(l) == {p[1] : p \in ToSet(taken[l])}
HasPoison(l) == \E e \in BatchOf(l) : e.poison

\* The rows the INSERT adds: for each new fingerprint its first event in the batch.
NewRows(l) ==
    LET events == [i \in DOMAIN taken[l] |-> taken[l][i][1]]
    IN  {events[i] : i \in {j \in DOMAIN events :
            /\ events[j].print \notin Prints(stored)
            /\ \A k \in 1 .. j - 1 : events[k].print # events[j].print}}

\* write_batch: all rows or none.
InsertRows(l) ==
    /\ writer[l] = "writing"
    /\ ~HasPoison(l)
    /\ stored' = stored \cup NewRows(l)
    /\ writer' = [writer EXCEPT ![l] = "sweeping"]
    /\ UNCHANGED <<lane, taken, catalogVars, deadLetters, swept, storeGhosts, storeBounds>>

\* cleanup_retention_if_due: nothing is due, or rows up to some age go.
SweepOldRows(l) ==
    /\ writer[l] = "sweeping"
    /\ \E cutoff \in {0} \cup {e.at + 1 : e \in stored} :
          LET old == {e \in stored : e.at < cutoff}
          IN  stored' = stored \ old /\ swept' = swept \cup Prints(old)
    /\ writer' = [writer EXCEPT ![l] = "queueing"]
    /\ UNCHANGED <<lane, taken, catalogVars, deadLetters, storeGhosts, storeBounds>>

\* The deferred catalog rows, until the queue is full.
QueueCatalogRows(l) ==
    /\ writer[l] = "queueing"
    /\ LET rows == [i \in DOMAIN taken[l] |-> taken[l][i][1]]
           all  == catalogQueue \o rows
       IN  catalogQueue' = IF Len(all) <= CatalogSize THEN all ELSE SubSeq(all, 1, CatalogSize)
    /\ writer' = [writer EXCEPT ![l] = "waits"]
    /\ taken' = [taken EXCEPT ![l] = << >>]
    /\ UNCHANGED <<lane, stored, catalog, learnt, deadLetters, swept, storeGhosts, storeBounds>>

\* The places of the events that are tried again, and in their order.
Retried(l) == {i \in DOMAIN taken[l] : taken[l][i][2] < WriterRetries}
InOrder(S) == {pick \in [1 .. Cardinality(S) -> S] :
                  \A i, j \in DOMAIN pick : i < j => pick[i] < pick[j]}

\* _requeue_or_dlq: each event in turn is put back, sent to the dead-letter topic after
\* its last attempt, or dropped where the lane has filled up.
RequeueOrDlq(l) ==
    LET Failed(i) == <<taken[l][i][1], taken[l][i][2] + 1>>
        room      == LaneSize - Len(lane[l])
        again     == Cardinality(Retried(l))
        kept      == IF again <= room THEN again ELSE room
    IN  /\ \E pick \in InOrder(Retried(l)) :
              /\ lane' = [lane EXCEPT ![l] = @ \o [i \in 1 .. kept |-> Failed(pick[i])]]
              /\ unplaced' = unplaced \cup {taken[l][pick[i]][1] : i \in kept + 1 .. again}
        /\ deadLetters' = deadLetters \cup {Failed(i) : i \in DOMAIN taken[l] \ Retried(l)}
        /\ taken' = [taken EXCEPT ![l] = << >>]
        /\ writer' = [writer EXCEPT ![l] = "waits"]

\* Mutated: the batch that failed is given up.
BatchFails_Forgotten(l) ==
    /\ writer[l] \in {"writing", "sweeping"}
    /\ HasPoison(l) \/ dbFaultsLeft > 0
    /\ dbFaultsLeft' = IF HasPoison(l) THEN dbFaultsLeft ELSE dbFaultsLeft - 1
    /\ taken' = [taken EXCEPT ![l] = << >>]
    /\ writer' = [writer EXCEPT ![l] = "waits"]
    /\ UNCHANGED <<lane, stored, catalogVars, deadLetters, swept, storeGhosts, routed,
                   storeCrashesLeft>>

\* A row that cannot be built or stored fails the batch each time, a database that
\* fails fails it now: before the INSERT, or in the sweep, when the rows are stored.
BatchFails(l) ==
    /\ writer[l] \in {"writing", "sweeping"}
    /\ HasPoison(l) \/ dbFaultsLeft > 0
    /\ dbFaultsLeft' = IF HasPoison(l) THEN dbFaultsLeft ELSE dbFaultsLeft - 1
    /\ RequeueOrDlq(l)
    /\ UNCHANGED <<stored, catalogVars, swept, seen, lost, routed, storeCrashesLeft>>

-----------------------------------------------------------------------------
(* The catalog thread *)

\* _dedupe_catalog_rows: the latest row of each resource, the later of two equal ones.
Latest(r) ==
    LET rows == {i \in DOMAIN catalogQueue : catalogQueue[i].resource = r}
        best == CHOOSE i \in rows : \A j \in rows :
                    \/ catalogQueue[j].at < catalogQueue[i].at
                    \/ catalogQueue[j].at = catalogQueue[i].at /\ j <= i
    IN  catalogQueue[best]

Told == {catalogQueue[i].resource : i \in DOMAIN catalogQueue}

\* _upsert_catalog_rows: a name replaces none, none replaces nothing; the time is
\* that of this row, be it older.
Upserted(entry, row) ==
    [named |-> row.named \/ entry.named,
     first |-> IF entry = Unlisted THEN row.at ELSE entry.first,
     last  |-> row.at]

UpsertCatalog ==
    /\ catalogQueue # << >>
    /\ catalog' = [r \in Resources |-> IF r \in Told THEN Upserted(catalog[r], Latest(r))
                                       ELSE catalog[r]]
    /\ learnt' = learnt \cup {r \in Told : Latest(r).named}
    /\ catalogQueue' = << >>
    /\ UNCHANGED <<lane, taken, writer, stored, deadLetters, swept, storeGhosts, storeBounds>>

\* The upsert raises: its rows are gone.
UpsertFails ==
    /\ catalogQueue # << >>
    /\ dbFaultsLeft > 0
    /\ dbFaultsLeft' = dbFaultsLeft - 1
    /\ catalogQueue' = << >>
    /\ UNCHANGED <<lane, taken, writer, stored, catalog, learnt, deadLetters, swept,
                   storeGhosts, routed, storeCrashesLeft>>

InMemory == {p[1] : p \in UNION {ToSet(lane[l]) \cup ToSet(taken[l]) : l \in Lanes}}

ForwarderCrash ==
    /\ storeCrashesLeft > 0
    /\ storeCrashesLeft' = storeCrashesLeft - 1
    /\ lost' = lost \cup InMemory
    /\ lane' = [l \in Lanes |-> << >>]
    /\ taken' = [l \in Lanes |-> << >>]
    /\ writer' = [l \in Lanes |-> "waits"]
    /\ catalogQueue' = << >>
    /\ UNCHANGED <<stored, catalog, learnt, deadLetters, swept, unplaced, seen, routed,
                   dbFaultsLeft>>

StoreNext ==
    \/ \E l \in Lanes :
        \/ \E e \in Emissions : RouteEvent(l, e)
        \/ TakeWriteBatch(l)
        \/ InsertRows(l)
        \/ SweepOldRows(l)
        \/ QueueCatalogRows(l)
        \/ BatchFails(l)
    \/ UpsertCatalog
    \/ UpsertFails
    \/ ForwarderCrash

StoreSpec == StoreInit /\ [][StoreNext]_storeVars

-----------------------------------------------------------------------------
(* Properties *)

\* Two writers, retries, redeliveries and crashes leave one row per fingerprint.
OneRowEach == Cardinality(Prints(stored)) = Cardinality(stored)

\* An event that was put in a lane is there or with its writer, or its fingerprint is
\* or was in the table, or it went to the dead-letter topic, or it was counted as
\* dropped, or a crash took it before its offset was committed.
EventsAccounted ==
    \A e \in seen :
        \/ e \in InMemory \cup unplaced \cup lost
        \/ e.print \in Prints(stored) \cup swept
        \/ e \in {p[1] : p \in deadLetters}

\* The catalog lists only resources of events that were stored, and a name it was
\* told is there, whatever comes later with none.
CatalogFollows ==
    \A r \in Resources :
        /\ catalog[r] # Unlisted =>
              \E e \in Emissions : e.resource = r /\ e.print \in Prints(stored) \cup swept
        /\ r \in learnt => catalog[r].named

\* No failed write loses an event unseen, stores one twice or runs ahead in the catalog.
StoreConsistent == OneRowEach /\ EventsAccounted /\ CatalogFollows
=============================================================================
