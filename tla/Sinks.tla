------------------------------- MODULE Sinks -------------------------------
(***************************************************************************)
(* The sink manager: a call's events go to every sink, each write a task   *)
(* of its own, and what a sink reports as failed goes to the dead letter   *)
(* queue once.  A Kafka sink hands events to its producer and never learns *)
(* what becomes of them; a bucket sink answers success for events it only  *)
(* buffers, so that an upload that fails is reported to a later call, or,  *)
(* from a flush, to nobody.                                                *)
(*                                                                         *)
(* Every sink and the dead letter queue is enabled.  Formats, partitions,  *)
(* object names (unique in a life of the process) and metrics are left     *)
(* out.                                                                    *)
(***************************************************************************)
EXTENDS Naturals, FiniteSets

CONSTANTS
    Buckets,        \* the sinks that upload to S3 and to GCS
    WriteCalls,     \* callers of write
    LastSent,       \* bound on the events
    IdOf,           \* their ids, that a message may lack
    SinkBuffer,     \* buffer_size
    SinkFaults      \* bound on what fails and on the crashes

ASSUME SinksAssumption ==
    /\ {LastSent, SinkFaults, SinkBuffer} \subseteq Nat
    /\ IdOf \in [1 .. LastSent -> Nat]
    /\ "kafka" \notin Buckets /\ "dlq" \notin Buckets

AllSinks == Buckets \cup {"kafka"}
Producers == {"kafka", "dlq"}

VARIABLES
    ready,          \* _initialized
    sent,           \* the events written so far
    batch,          \* of each call, {} between calls
    waiting,        \* the sinks whose task is still to run
    failed,         \* failed_records of the others
    held,           \* a sink's _buffer, a producer's queue
    landed,         \* what has arrived
    flushing,       \* the buckets flush_all has still to flush
    returned,       \* ghost: events whose write has returned
    gone,           \* ghost: events that something dropped that tells nobody
    sinkFaults
callVars == <<batch, waiting, failed>>
sinksVars == <<ready, sent, callVars, held, landed, flushing, returned, gone, sinkFaults>>

SinksTypeOK ==
    /\ ready \in BOOLEAN
    /\ sent \in 0 .. LastSent /\ sinkFaults \in 0 .. SinkFaults
    /\ {batch, failed} \subseteq [WriteCalls -> SUBSET (1 .. sent)]
    /\ waiting \in [WriteCalls -> SUBSET AllSinks]
    /\ {held, landed} \subseteq [AllSinks \cup {"dlq"} -> SUBSET (1 .. sent)]
    /\ flushing \subseteq Buckets
    /\ {returned, gone} \subseteq SUBSET (1 .. sent)

SinksInit ==
    /\ ready = FALSE /\ sent = 0 /\ sinkFaults = 0
    /\ batch = [c \in WriteCalls |-> {}] /\ failed = batch /\ waiting = batch
    /\ held = [s \in AllSinks \cup {"dlq"} |-> {}] /\ landed = held
    /\ flushing = {} /\ returned = {} /\ gone = {}

\* With events the same id names, that the dead letter queue keeps one of
Alike(events) == {e \in 1 .. sent : \E d \in events : IdOf[d] = IdOf[e]}

SinkFails == sinkFaults < SinkFaults /\ sinkFaults' = sinkFaults + 1

\* The sinks connect one after the other; the first that cannot raises: no write is taken.
Initialize ==
    /\ ~ready
    /\ \/ ready' = TRUE /\ UNCHANGED sinkFaults
       \/ SinkFails /\ UNCHANGED ready
    /\ UNCHANGED <<sent, callVars, held, landed, flushing, returned, gone>>

\* write: one task for each sink
Write(c) ==
    /\ ready /\ batch[c] = {}
    /\ \E n \in 1 .. 2 :
          /\ sent + n <= LastSent /\ sent' = sent + n
          /\ batch' = [batch EXCEPT ![c] = sent + 1 .. sent']
    /\ waiting' = [waiting EXCEPT ![c] = AllSinks]
    /\ UNCHANGED <<ready, failed, held, landed, flushing, returned, gone, sinkFaults>>

\* Each event is serialised and handed to the producer, or reported as failed.
WriteKafka(c) ==
    /\ "kafka" \in waiting[c]
    /\ waiting' = [waiting EXCEPT ![c] = @ \ {"kafka"}]
    /\ \E bad \in SUBSET batch[c] :
          /\ IF bad = {} THEN UNCHANGED sinkFaults ELSE SinkFails
          /\ failed' = [failed EXCEPT ![c] = @ \cup bad]
          /\ held' = [held EXCEPT !["kafka"] = @ \cup (batch[c] \ bad)]
    /\ UNCHANGED <<ready, sent, batch, landed, flushing, returned, gone>>

\* Mutant: a failed upload is reported for the events of the call alone.
Upload_OfCall(c, b, events) ==
    \/ /\ landed' = [landed EXCEPT ![b] = @ \cup events]
       /\ UNCHANGED <<failed, sinkFaults>>
    \/ /\ SinkFails
       /\ failed' = [failed EXCEPT ![c] = @ \cup batch[c]]
       /\ UNCHANGED landed

\* _write_batch by a call: the batch is stored, or all of it is the call's failure.
Upload(c, b, events) ==
    \/ /\ landed' = [landed EXCEPT ![b] = @ \cup events]
       /\ UNCHANGED <<failed, sinkFaults>>
    \/ /\ SinkFails
       /\ failed' = [failed EXCEPT ![c] = @ \cup events]
       /\ UNCHANGED landed

\* BufferedSink.write: a full buffer or an interval that is over makes it upload.
WriteBucket(c, b) ==
    LET buffer == held[b] \cup batch[c] IN
    /\ b \in waiting[c]
    /\ waiting' = [waiting EXCEPT ![c] = @ \ {b}]
    /\ \/ /\ Cardinality(buffer) < SinkBuffer
          /\ held' = [held EXCEPT ![b] = buffer]
          /\ UNCHANGED <<failed, landed, sinkFaults>>
       \/ /\ held' = [held EXCEPT ![b] = {}]
          /\ Upload(c, b, buffer)
    /\ UNCHANGED <<ready, sent, batch, flushing, returned, gone>>

\* One of the failed events for each id that failed
OncePerId(events) ==
    {e \in events : \A d \in events : IdOf[d] = IdOf[e] => e <= d}

\* Failures go to the dead letter queue, whose producer refuses some of them, and is
\* flushed for a while.
WriteFailures(failures) ==
    \E refused \in SUBSET failures :
       LET dead == held["dlq"] \cup (failures \ refused) IN
       /\ IF refused = {} THEN UNCHANGED sinkFaults ELSE SinkFails
       /\ gone' = gone \cup Alike(refused)
       /\ \/ /\ held' = [held EXCEPT !["dlq"] = {}]
             /\ landed' = [landed EXCEPT !["dlq"] = @ \cup dead]
          \/ held' = [held EXCEPT !["dlq"] = dead] /\ UNCHANGED landed

\* All tasks are done.
Gather(c) ==
    /\ batch[c] # {} /\ waiting[c] = {}
    /\ IF failed[c] = {} THEN UNCHANGED <<held, landed, gone, sinkFaults>>
       ELSE WriteFailures(OncePerId(failed[c]))
    /\ returned' = returned \cup batch[c]
    /\ batch' = [batch EXCEPT ![c] = {}] /\ failed' = [failed EXCEPT ![c] = {}]
    /\ UNCHANGED <<ready, sent, waiting, flushing>>

\* A producer delivers a message, or gives it up: no delivery report is asked for.
Delivery(p) ==
    /\ \E e \in held[p] :
          /\ held' = [held EXCEPT ![p] = @ \ {e}]
          /\ \/ /\ landed' = [landed EXCEPT ![p] = @ \cup {e}]
                /\ UNCHANGED <<gone, sinkFaults>>
             \/ /\ SinkFails
                /\ gone' = gone \cup Alike({e})
                /\ UNCHANGED landed
    /\ UNCHANGED <<ready, sent, callVars, flushing, returned>>

\* flush_all, and close_all, which flushes twice; a producer's flush waits for Delivery
FlushAll ==
    /\ ready /\ flushing = {} /\ flushing' = Buckets
    /\ UNCHANGED <<ready, sent, callVars, held, landed, returned, gone, sinkFaults>>

\* The buffer is uploaded, and nobody reads the result.
FlushBucket(b) ==
    /\ b \in flushing /\ flushing' = flushing \ {b}
    /\ held' = [held EXCEPT ![b] = {}]
    /\ \/ /\ landed' = [landed EXCEPT ![b] = @ \cup held[b]]
          /\ UNCHANGED <<gone, sinkFaults>>
       \/ /\ held[b] # {} /\ SinkFails
          /\ gone' = gone \cup held[b] /\ UNCHANGED landed
    /\ UNCHANGED <<ready, sent, callVars, returned>>

SinkCrash ==
    /\ ready /\ SinkFails /\ ready' = FALSE
    /\ gone' = gone \cup Alike(UNION {held[s] : s \in DOMAIN held})
                   \cup Alike(UNION {failed[c] : c \in WriteCalls})
    /\ batch' = [c \in WriteCalls |-> {}] /\ failed' = batch' /\ waiting' = batch'
    /\ held' = [s \in DOMAIN held |-> {}] /\ flushing' = {}
    /\ UNCHANGED <<sent, landed, returned>>

SinksNext ==
    \/ Initialize \/ FlushAll \/ SinkCrash
    \/ \E c \in WriteCalls :
          Write(c) \/ WriteKafka(c) \/ Gather(c) \/ (\E b \in Buckets : WriteBucket(c, b))
    \/ \E p \in Producers : Delivery(p)
    \/ \E b \in Buckets : FlushBucket(b)

SinksSpec == SinksInit /\ [][SinksNext]_sinksVars

-----------------------------------------------------------------------------
\* What every sink has, holds or has reported to a call, with the dead letter queue
Accounted(e, s) ==
    \/ e \in landed[s] \cup held[s]
    \/ \E c \in WriteCalls : e \in failed[c]
    \/ \E d \in landed["dlq"] \cup held["dlq"] : IdOf[d] = IdOf[e]

\* An event whose write has returned is with each sink or in the dead letter queue,
\* however late the upload it was buffered for fails and whichever call that is told
\* to.  Gone are those of a crash, of a producer that gives up, of a dead letter queue
\* that refuses and of a flush that fails.
FailuresAreKept ==
    \A e \in returned \ gone : \A s \in AllSinks : Accounted(e, s)

=============================================================================
