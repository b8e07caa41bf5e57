------------------------------- MODULE IpBaseline -------------------------------
(***************************************************************************)
(* src/product/ip_baseline_tracker.py and the alert audit_forwarder.py     *)
(* makes of it: pairs of an actor and an address, known in memory at once  *)
(* and in Postgres when a writer thread gets to them.  The process may die *)
(* between the two; the next one seeds its memory from the table.          *)
(***************************************************************************)
EXTENDS Naturals, Sequences

CONSTANTS
    Pairs,              \* (actor, source_ip)
    Alertable,          \* those whose first sight is worth an alert
    BaselineQueueMax,   \* maxsize of _queue
    MaxLives,           \* bound: processes
    MaxSightings        \* bound: audit events in the life of a process

ASSUME BaselineAssumption ==
    /\ Alertable \subseteq Pairs
    /\ {BaselineQueueMax, MaxLives, MaxSightings} \subseteq Nat \ {0}

NoPair == "no pair"

VARIABLES
    seen,           \* _seen
    baselineQueue,  \* _queue
    savingPair,     \* the item of _writer_loop
    baselineTable,  \* actor_ip_baseline: the pairs on file
    dedupPairs,     \* _ip_alert_dedup of the processor: pairs within its window
    anyDestination, \* notifier.has_destinations()
    lives,
    sightings,
    announced,      \* ghost: alerts made of each pair, up to two
    excused         \* ghost: pairs whose record was lost, by whatever fault

baselineVars == <<seen, baselineQueue, savingPair, baselineTable, dedupPairs,
                  anyDestination, lives, sightings, announced, excused>>

BaselineTypeOK ==
    /\ seen \subseteq Pairs
    /\ baselineQueue \in Seq(Pairs) /\ Len(baselineQueue) <= BaselineQueueMax
    /\ savingPair \in Pairs \cup {NoPair}
    /\ baselineTable \subseteq Pairs
    /\ dedupPairs \subseteq Pairs
    /\ anyDestination \in BOOLEAN
    /\ lives \in 1 .. MaxLives
    /\ sightings \in 0 .. MaxSightings
    /\ announced \in [Pairs -> 0 .. 2]
    /\ excused \subseteq Pairs

BaselineInit ==
    /\ seen = {}
    /\ baselineQueue = <<>>
    /\ savingPair = NoPair
    /\ baselineTable = {}
    /\ dedupPairs = {}
    /\ anyDestination = TRUE
    /\ lives = 1
    /\ sightings = 0
    /\ announced = [p \in Pairs |-> 0]
    /\ excused = {}

\* record: every sighting is queued, the new ones and the others.
Enqueue(p) ==
    \/ /\ Len(baselineQueue) < BaselineQueueMax
       /\ baselineQueue' = Append(baselineQueue, p)
       /\ UNCHANGED excused
    \/ /\ Len(baselineQueue) >= BaselineQueueMax
       /\ excused' = excused \cup {p}
       /\ UNCHANGED baselineQueue

\* The processor's alert on a new pair.  A pair first seen while there is no
\* destination is not new the next time.
AlertOnNew(p) ==
    IF /\ p \notin seen
       /\ anyDestination
       /\ p \in Alertable \ dedupPairs
    THEN /\ dedupPairs' = dedupPairs \cup {p}
         /\ announced' = [announced EXCEPT ![p] = IF @ < 2 THEN @ + 1 ELSE @]
    ELSE UNCHANGED <<dedupPairs, announced>>

RecordPair(p) ==
    /\ sightings < MaxSightings
    /\ sightings' = sightings + 1
    /\ seen' = seen \cup {p}
    /\ Enqueue(p)
    /\ AlertOnNew(p)
    /\ UNCHANGED <<savingPair, baselineTable, anyDestination, lives>>

\* _writer_loop
TakePair ==
    /\ savingPair = NoPair
    /\ baselineQueue # <<>>
    /\ savingPair' = Head(baselineQueue)
    /\ baselineQueue' = Tail(baselineQueue)
    /\ UNCHANGED <<seen, baselineTable, dedupPairs, anyDestination, lives,
                   sightings, announced, excused>>

\* _upsert; a failure is logged and the item forgotten.
UpsertPair ==
    /\ savingPair # NoPair
    /\ savingPair' = NoPair
    /\ \/ /\ baselineTable' = baselineTable \cup {savingPair}
          /\ UNCHANGED excused
       \/ /\ excused' = excused \cup {savingPair}
          /\ UNCHANGED baselineTable
    /\ UNCHANGED <<seen, baselineQueue, dedupPairs, anyDestination, lives,
                   sightings, announced>>

\* _ip_alert_dedup lets a pair through again after _IP_ALERT_DEDUP_WINDOW.
DedupExpires(p) ==
    /\ p \in dedupPairs
    /\ dedupPairs' = dedupPairs \ {p}
    /\ UNCHANGED <<seen, baselineQueue, savingPair, baselineTable, anyDestination,
                   lives, sightings, announced, excused>>

DestinationsChange ==
    /\ anyDestination' = ~anyDestination
    /\ UNCHANGED <<seen, baselineQueue, savingPair, baselineTable, dedupPairs,
                   lives, sightings, announced, excused>>

\* Mutated: the seed reads the table and keeps nothing of it.
Seed_Skipped ==
    \/ /\ seen' = {}
       /\ excused' = excused \cup (seen \ baselineTable)
    \/ /\ seen' = {}
       /\ excused' = Pairs

\* _seed_from_db: the table, or nothing when the query fails.
Seed ==
    \/ /\ seen' = baselineTable
       /\ excused' = excused \cup (seen \ baselineTable)
    \/ /\ seen' = {}
       /\ excused' = Pairs

\* The process dies with what is queued, and the next one starts.
Restart ==
    /\ lives < MaxLives
    /\ lives' = lives + 1
    /\ sightings' = 0
    /\ baselineQueue' = <<>>
    /\ savingPair' = NoPair
    /\ dedupPairs' = {}
    /\ Seed
    /\ UNCHANGED <<baselineTable, anyDestination, announced>>

BaselineNext ==
    \/ \E p \in Pairs : RecordPair(p) \/ DedupExpires(p)
    \/ TakePair
    \/ UpsertPair
    \/ DestinationsChange
    \/ Restart

BaselineSpec == BaselineInit /\ [][BaselineNext]_baselineVars

-----------------------------------------------------------------------------
(* Properties *)

\* A pair is announced as new a second time only if its record was lost: dropped
\* for a full queue, refused by the database, in memory when the process died, or
\* not read back by a seed that failed.
NewIpOnce == \A p \in Pairs : announced[p] > 1 => p \in excused
=============================================================================
