------------------------------ MODULE Forwarder ------------------------------
(***************************************************************************)
(* The delivery pipeline of audit_forwarder.py: one consumer thread, one   *)
(* processor thread and three priority writer threads in one process, the  *)
(* Kafka producer they share, and the rebalance callbacks that run inside  *)
(* the consumer's polls.                                                   *)
(*                                                                         *)
(*   Kafka log --Fetch--> env --PutEnvelope--> recordQ --> processor       *)
(*       |                                                  |  |  |        *)
(*       '-- short-circuited noise --> laneQ["bulk"] <------'  |  '-> DLQ  *)
(*                                     laneQ[...] --> writers  |           *)
(*                                                     |       v           *)
(*                                                     pg    outbox->topics*)
(*                                                                         *)
(* The source promises at-least-once delivery: an offset is committed only *)
(* when every record below it has a durable home.  What the code gives up  *)
(* on the way is booked in the ghost variable excused, by cause, so that   *)
(* the promise can be stated exactly and each exception can be exhibited.  *)
(***************************************************************************)
EXTENDS Integers, Sequences, FiniteSets

CONSTANTS
    Partitions,             \* partitions of the audit log topic
    LogEnd,                 \* records of a partition: offsets 0 .. LogEnd - 1
    Kinds,                  \* kinds of record that occur in the log
    BatchSize,              \* BATCH_SIZE: messages of one consume() call
    RecordQueueSize,        \* RECORD_QUEUE_SIZE, in envelopes
    LaneCap,                \* capacity of each priority lane
    WriterBatch,            \* batch size of each writer thread
    MaxRetries,             \* _WRITER_MAX_RETRIES
    SignalCommitRequiresPg, \* SIGNAL_COMMIT_REQUIRES_PG
    ShortCircuit,           \* ENABLE_NOISE_SHORT_CIRCUIT
    EnableDlq,              \* ENABLE_DLQ
    MayTimeOut,             \* whether the bounded waits may expire
    FaultBudgets            \* how often each fault may occur, one way per run

Lanes == {"critical", "normal", "bulk"}

Faults == {"crash", "rebalance", "db", "delivery", "dlq", "buffer",
           "commit", "consume", "poll",
           "join"}   \* a join at shutdown expires: only in Lifecycle

(***************************************************************************)
(* The ways the process lets go of a record it may not have made durable.  *)
(***************************************************************************)
Causes == {"discarded",   \* consumer.poll(0) returned it and nobody looked
           "revoked",     \* skipped: its partition had been revoked
           "declined",    \* its batch was not committed
           "handover",    \* on_revoke committed past it
           "requeued",    \* a failed noise write sent it to the lane's end
           "dropped",     \* a full lane or a full record_queue refused it
           "unpublished", \* no producer buffer, DLQ off, or DLQ send failed
           "abandoned"}   \* in memory when the process stopped: only in Lifecycle

ASSUME ForwarderAssumption ==
    /\ LogEnd \in Nat
    /\ Kinds \subseteq {"noise", "critical", "normal", "bulk", "poison"}
    /\ BatchSize \in Nat \ {0}
    /\ RecordQueueSize \in Nat \ {0}
    /\ LaneCap \in Nat \ {0}
    /\ WriterBatch \in Nat \ {0}
    /\ MaxRetries \in Nat \ {0}
    /\ SignalCommitRequiresPg \in BOOLEAN
    /\ ShortCircuit \in BOOLEAN
    /\ EnableDlq \in BOOLEAN
    /\ MayTimeOut \in BOOLEAN
    /\ FaultBudgets \subseteq [Faults -> Nat]

VARIABLES
    \* the brokers and Postgres: they survive a crash of the process
    kind,           \* kind[r]: what the record r is
    committed,      \* committed[p]: the group's committed offset
    topics,         \* records whose audit.* messages are all acknowledged
    dlq,            \* records acknowledged on the dead letter topic
    pg,             \* records with a row in audit_events or audit_events_noise
    \* the consumer thread
    assigned,       \* partitions this member owns
    position,       \* position[p]: next offset to fetch
    cpc,            \* "consume", "put", "wait" (queue full, paused), or
                    \* "reput" (the second put: only in Lifecycle)
    env,            \* the envelope being split
    recordQ,        \* record_queue
    \* the processor thread
    ppc,            \* "idle", "event", "route", "noise", "signal" or "commit"
    cur,            \* the envelope being processed
    todo,           \* its messages still to process
    batchMax,       \* batch_max_offsets
    signalRequired, \* signal_in_flight
    failed,         \* batch_had_processing_failure
    shouldCommit,   \* the verdict so far on committing this batch
    errorsBefore,   \* batch_delivery_errors_before
    \* module-level state shared by threads and callbacks
    deliveryErrors, \* delivery_errors["count"]
    processed,      \* _processed_offsets
    revoked,        \* _revoked_partitions
    noiseHwm,       \* _noise_persisted_offsets
    signalHwm,      \* _signal_persisted_offsets
    outbox,         \* records handed to the producer, not yet acknowledged
    dlqOutbox,      \* the same for the dead letter topic
    \* the writer threads
    laneQ,          \* critical_queue, normal_queue, bulk_queue
    wBatch,         \* the batch each writer holds
    wpc,            \* "collect" or "requeue"
    \* ghost and bound
    excused,        \* excused[c]: records let go for cause c
    budget          \* faults the environment may still inject

brokerVars == <<kind, committed, topics, dlq, pg>>
consumerVars == <<assigned, position, cpc, env>>
batchVars == <<cur, todo, batchMax, signalRequired, failed, shouldCommit, errorsBefore>>
processorVars == <<ppc, batchVars>>
barrierVars == <<noiseHwm, signalHwm>>
producerVars == <<outbox, dlqOutbox, deliveryErrors>>
writerVars == <<wBatch, wpc>>
vars == <<brokerVars, consumerVars, recordQ, processorVars, processed, revoked,
          barrierVars, producerVars, laneQ, writerVars, excused, budget>>

-----------------------------------------------------------------------------
Offsets == 0 .. LogEnd - 1
Records == Partitions \X Offsets
Hwms == [Partitions -> Offsets \cup {-1}]
NoHwm == [p \in Partitions |-> -1]

Items == [rec : Records, retry : 0 .. MaxRetries, sc : BOOLEAN]
Envelopes == [msgs : Seq(Records), noise : SUBSET Records, err : BOOLEAN]
NoEnvelope == [msgs |-> <<>>, noise |-> {}, err |-> FALSE]

SeqRange(s) == {s[i] : i \in DOMAIN s}

(***************************************************************************)
(* The records an envelope stands for, and its size against BATCH_SIZE.    *)
(***************************************************************************)
EnvelopeRecords(e) == SeqRange(e.msgs) \cup e.noise
EnvelopeSize(e) == Len(e.msgs) + Cardinality(e.noise) + (IF e.err THEN 1 ELSE 0)

(***************************************************************************)
(* new is the high-water mark old after the records of S were added.       *)
(***************************************************************************)
IsRaised(new, old, S) ==
    /\ new \in Hwms
    /\ \A p \in Partitions :
        /\ new[p] >= old[p]
        /\ \A r \in S : r[1] = p => new[p] >= r[2]
        /\ new[p] # old[p] => \E r \in S : r[1] = p /\ r[2] = new[p]

\* Faulty variant: the mark is kept per topic, not per partition.
Raise_PerTopic(hwm, r) == [p \in Partitions |-> IF r[2] > hwm[p] THEN r[2] ELSE hwm[p]]

Raise(hwm, r) == [hwm EXCEPT ![r[1]] = IF r[2] > @ THEN r[2] ELSE @]

(***************************************************************************)
(* Where a commit of a high-water mark leaves the committed offsets.       *)
(***************************************************************************)
\* Faulty variant: one past the next offset.
CommitTo_OffByOne(hwm, S) ==
    [p \in Partitions |-> IF p \in S /\ hwm[p] >= 0 THEN hwm[p] + 2 ELSE committed[p]]

CommitTo(hwm, S) ==
    [p \in Partitions |-> IF p \in S /\ hwm[p] >= 0 THEN hwm[p] + 1 ELSE committed[p]]

(***************************************************************************)
(* The records that committed offsets pass over: no later fetch of the     *)
(* group returns them.                                                     *)
(***************************************************************************)
Below(offsets) == {r \in Records : r[2] < offsets[r[1]]}

Settled == topics \cup dlq \cup pg
Excused == UNION {excused[c] : c \in Causes}

Excuse(c, S) == [excused EXCEPT ![c] = @ \cup S]

Spend(f) == budget[f] > 0 /\ budget' = [budget EXCEPT ![f] = @ - 1]

(***************************************************************************)
(* _route_to_queue picks the lane from the method name; noise that takes   *)
(* the full path is read-only or an authorization check, hence bulk.       *)
(***************************************************************************)
LaneOf(r) == IF kind[r] \in {"critical", "normal"} THEN kind[r] ELSE "bulk"

HasRoom(l) == Len(laneQ[l]) < LaneCap

NewItem(r, sc) == [rec |-> r, retry |-> 0, sc |-> sc]

-----------------------------------------------------------------------------
BrokerTypeOK ==
    /\ kind \in [Records -> Kinds]
    /\ committed \in [Partitions -> 0 .. LogEnd]
    /\ topics \in SUBSET Records
    /\ dlq \in SUBSET Records
    /\ pg \in SUBSET Records

ConsumerTypeOK ==
    /\ assigned \in SUBSET Partitions
    /\ position \in [Partitions -> 0 .. LogEnd]
    /\ cpc \in {"consume", "put", "wait", "reput"}
    /\ env \in Envelopes
    /\ recordQ \in Seq(Envelopes)

ProcessorTypeOK ==
    /\ ppc \in {"idle", "event", "route", "noise", "signal", "commit"}
    /\ cur \in Envelopes
    /\ todo \in Seq(Records)
    /\ ppc = "route" => todo # <<>>
    /\ batchMax \in Hwms
    /\ signalRequired \in Hwms
    /\ failed \in BOOLEAN
    /\ shouldCommit \in BOOLEAN
    /\ errorsBefore \in Nat

SharedTypeOK ==
    /\ deliveryErrors \in Nat
    /\ processed \in Hwms
    /\ revoked \in SUBSET Partitions
    /\ noiseHwm \in Hwms
    /\ signalHwm \in Hwms
    /\ outbox \in SUBSET Records
    /\ dlqOutbox \in SUBSET Records

WriterTypeOK ==
    /\ laneQ \in [Lanes -> Seq(Items)]
    /\ wBatch \in [Lanes -> Seq(Items)]
    /\ wpc \in [Lanes -> {"collect", "requeue"}]

GhostTypeOK ==
    /\ excused \in [Causes -> SUBSET Records]
    /\ budget \in [Faults -> Nat]

(***************************************************************************)
(* Every variable holds a value of its kind: offsets and marks stay within *)
(* the log, an item's retries within _WRITER_MAX_RETRIES, and the routing  *)
(* phase always has an event to route.                                     *)
(***************************************************************************)
TypeOK ==
    /\ BrokerTypeOK /\ ConsumerTypeOK /\ ProcessorTypeOK
    /\ SharedTypeOK /\ WriterTypeOK /\ GhostTypeOK

(***************************************************************************)
(* What a process starts with: main() before its threads run.              *)
(***************************************************************************)
ColdStart ==
    /\ assigned = {} /\ position = [p \in Partitions |-> 0]
    /\ cpc = "consume" /\ env = NoEnvelope /\ recordQ = <<>>
    /\ ppc = "idle" /\ cur = NoEnvelope /\ todo = <<>>
    /\ batchMax = NoHwm /\ signalRequired = NoHwm
    /\ failed = FALSE /\ shouldCommit = FALSE
    /\ errorsBefore = 0 /\ deliveryErrors = 0
    /\ processed = NoHwm /\ revoked = {}
    /\ noiseHwm = NoHwm /\ signalHwm = NoHwm
    /\ outbox = {} /\ dlqOutbox = {}
    /\ laneQ = [l \in Lanes |-> <<>>]
    /\ wBatch = [l \in Lanes |-> <<>>]
    /\ wpc = [l \in Lanes |-> "collect"]

Init ==
    /\ kind \in [Records -> Kinds]
    /\ committed = [p \in Partitions |-> 0]
    /\ topics = {} /\ dlq = {} /\ pg = {}
    /\ ColdStart
    /\ excused = [c \in Causes |-> {}]
    /\ budget \in FaultBudgets

-----------------------------------------------------------------------------
(***************************************************************************)
(* THE CONSUMER THREAD.  consume() returns up to BATCH_SIZE messages and   *)
(* _split_noise walks them; the two are interleaved message by message.    *)
(* Noise goes straight to the bulk lane when it has room within the put's  *)
(* timeout, and takes the full path otherwise.                             *)
(***************************************************************************)
ShortCircuitNoise(r) ==
    /\ ShortCircuit /\ kind[r] = "noise" /\ HasRoom("bulk")
    /\ laneQ' = [laneQ EXCEPT !["bulk"] = Append(@, NewItem(r, TRUE))]
    /\ env' = [env EXCEPT !.noise = @ \cup {r}]

TakeFullPath(r) ==
    /\ \/ ~ ShortCircuit \/ kind[r] # "noise"
       \/ MayTimeOut /\ ~ HasRoom("bulk")
    /\ env' = [env EXCEPT !.msgs = Append(@, r)]
    /\ UNCHANGED laneQ

Fetch(p) ==
    /\ cpc = "consume" /\ p \in assigned /\ position[p] < LogEnd
    /\ EnvelopeSize(env) < BatchSize
    /\ \/ ShortCircuitNoise(<<p, position[p]>>)
       \/ TakeFullPath(<<p, position[p]>>)
    /\ position' = [position EXCEPT ![p] = @ + 1]
    /\ UNCHANGED <<brokerVars, assigned, cpc, recordQ, processorVars, processed, revoked,
                   barrierVars, producerVars, writerVars, excused, budget>>

(***************************************************************************)
(* consume() may return an error in place of a message.                    *)
(***************************************************************************)
FetchError ==
    /\ cpc = "consume" /\ assigned # {} /\ EnvelopeSize(env) < BatchSize
    /\ Spend("consume")
    /\ env' = [env EXCEPT !.err = TRUE]
    /\ UNCHANGED <<brokerVars, assigned, position, cpc, recordQ, processorVars, processed,
                   revoked, barrierVars, producerVars, laneQ, writerVars, excused>>

(***************************************************************************)
(* An empty consume() is followed by consumer.poll(0) "to drive heart-     *)
(* beats"; a message that poll returns is thrown away.                     *)
(***************************************************************************)
HeartbeatPoll(p) ==
    /\ cpc = "consume" /\ env = NoEnvelope
    /\ p \in assigned /\ position[p] < LogEnd
    /\ Spend("poll")
    /\ excused' = Excuse("discarded", {<<p, position[p]>>})
    /\ position' = [position EXCEPT ![p] = @ + 1]
    /\ UNCHANGED <<brokerVars, assigned, cpc, env, recordQ, processorVars, processed,
                   revoked, barrierVars, producerVars, laneQ, writerVars>>

FinishSplit ==
    /\ cpc = "consume" /\ env # NoEnvelope
    /\ cpc' = "put"
    /\ UNCHANGED <<brokerVars, assigned, position, env, recordQ, processorVars, processed,
                   revoked, barrierVars, producerVars, laneQ, writerVars, excused, budget>>

PutEnvelope ==
    /\ cpc = "put" /\ Len(recordQ) < RecordQueueSize
    /\ recordQ' = Append(recordQ, env)
    /\ env' = NoEnvelope
    /\ cpc' = "consume"
    /\ UNCHANGED <<brokerVars, assigned, position, processorVars, processed, revoked,
                   barrierVars, producerVars, laneQ, writerVars, excused, budget>>

(***************************************************************************)
(* record_queue.put timed out: pause, poll until the queue has drained to  *)
(* half, resume, and put again.                                            *)
(***************************************************************************)
PauseOnFull ==
    /\ cpc = "put" /\ Len(recordQ) = RecordQueueSize /\ MayTimeOut
    /\ cpc' = "wait"
    /\ UNCHANGED <<brokerVars, assigned, position, env, recordQ, processorVars, processed,
                   revoked, barrierVars, producerVars, laneQ, writerVars, excused, budget>>

\* Faulty variant: strictly below half.
Drained_Below == Len(recordQ) < RecordQueueSize \div 2

Drained == Len(recordQ) <= RecordQueueSize \div 2

ResumeAfterDrain ==
    /\ cpc = "wait" /\ Drained
    /\ cpc' = "put"
    /\ UNCHANGED <<brokerVars, assigned, position, env, recordQ, processorVars, processed,
                   revoked, barrierVars, producerVars, laneQ, writerVars, excused, budget>>

-----------------------------------------------------------------------------
(***************************************************************************)
(* REBALANCE.  The callbacks run inside consume() and poll(), that is,     *)
(* before a batch is split or while the consumer waits for room.           *)
(***************************************************************************)
Polling == (cpc = "consume" /\ env = NoEnvelope) \/ cpc = "wait"

CommitProcessed(P) ==
    LET target == CommitTo(processed, P) IN
    \/ /\ committed' = target
       /\ excused' = Excuse("handover", Below(target) \ Below(committed))
    \/ UNCHANGED <<committed, excused>>   \* the commit raised: logged only

OnRevoke(P) ==
    /\ Polling /\ P # {} /\ P \subseteq assigned
    /\ Spend("rebalance")
    /\ revoked' = revoked \cup P
    /\ assigned' = assigned \ P
    /\ CommitProcessed(P)
    /\ UNCHANGED <<kind, topics, dlq, pg, position, cpc, env, recordQ, processorVars,
                   processed, barrierVars, producerVars, laneQ, writerVars>>

(***************************************************************************)
(* The group coordinator hands partitions (back) to this member, which     *)
(* resumes them at the committed offset.                                   *)
(***************************************************************************)
\* Faulty variant: a partition is read again from its beginning.
ResumeAt_Earliest(P) == [p \in Partitions |-> IF p \in P THEN 0 ELSE position[p]]

ResumeAt(P) == [p \in Partitions |-> IF p \in P THEN committed[p] ELSE position[p]]

OnAssign(P) ==
    /\ Polling /\ P # {} /\ P \subseteq Partitions \ assigned
    /\ assigned' = assigned \cup P
    /\ position' = ResumeAt(P)
    /\ revoked' = revoked \ P
    /\ UNCHANGED <<brokerVars, cpc, env, recordQ, processorVars, processed, barrierVars,
                   producerVars, laneQ, writerVars, excused, budget>>

-----------------------------------------------------------------------------
(***************************************************************************)
(* THE PROCESSOR THREAD                                                    *)
(***************************************************************************)
TakeEnvelope ==
    /\ ppc = "idle" /\ recordQ # <<>>
    /\ cur' = Head(recordQ)
    /\ todo' = Head(recordQ).msgs
    /\ recordQ' = Tail(recordQ)
    /\ batchMax' = NoHwm /\ signalRequired' = NoHwm
    /\ failed' = Head(recordQ).err
    /\ errorsBefore' = deliveryErrors
    /\ ppc' = "event"
    /\ UNCHANGED <<brokerVars, consumerVars, shouldCommit, processed, revoked, barrierVars,
                   producerVars, laneQ, writerVars, excused, budget>>

SkipRevoked ==
    /\ ppc = "event" /\ todo # <<>> /\ Head(todo)[1] \in revoked
    /\ todo' = Tail(todo)
    /\ excused' = Excuse("revoked", {Head(todo)})
    /\ UNCHANGED <<brokerVars, consumerVars, recordQ, ppc, cur, batchMax, signalRequired,
                   failed, shouldCommit, errorsBefore, processed, revoked, barrierVars,
                   producerVars, laneQ, writerVars, budget>>

(***************************************************************************)
(* send_to_dlq: handed to the producer, or lost because the DLQ is off or  *)
(* the producer's buffer is full (the exception is swallowed).             *)
(***************************************************************************)
SendToDlq(r) ==
    \/ EnableDlq /\ dlqOutbox' = dlqOutbox \cup {r} /\ UNCHANGED <<excused, budget>>
    \/ ~ EnableDlq /\ excused' = Excuse("unpublished", {r}) /\ UNCHANGED <<dlqOutbox,
                                                                           budget>>
    \/ /\ EnableDlq /\ Spend("buffer")
       /\ excused' = Excuse("unpublished", {r})
       /\ UNCHANGED dlqOutbox

(***************************************************************************)
(* A record that does not parse, or whose shape raises, goes to the DLQ    *)
(* and is passed over.                                                     *)
(***************************************************************************)
ProcessPoison ==
    /\ ppc = "event" /\ todo # <<>>
    /\ LET r == Head(todo) IN
        /\ r[1] \notin revoked /\ kind[r] = "poison"
        /\ SendToDlq(r)
        /\ batchMax' = Raise(batchMax, r)
        /\ processed' = Raise(processed, r)
    /\ todo' = Tail(todo)
    /\ UNCHANGED <<brokerVars, consumerVars, recordQ, ppc, cur, signalRequired, failed,
                   shouldCommit, errorsBefore, revoked, barrierVars, outbox, deliveryErrors,
                   laneQ, writerVars>>

(***************************************************************************)
(* Any other record passes the revocation test and is parsed; from here on *)
(* a revocation no longer stops it.                                        *)
(***************************************************************************)
StartEvent ==
    /\ ppc = "event" /\ todo # <<>>
    /\ Head(todo)[1] \notin revoked /\ kind[Head(todo)] # "poison"
    /\ ppc' = "route"
    /\ UNCHANGED <<brokerVars, consumerVars, recordQ, batchVars, processed, revoked,
                   barrierVars, producerVars, laneQ, writerVars, excused, budget>>

(***************************************************************************)
(* _route_to_queue: put within the timeout, or find the lane full.         *)
(***************************************************************************)
\* Faulty variant: the put is acknowledged but the item is gone.
Accepted_Lost(r) == HasRoom(LaneOf(r)) /\ UNCHANGED laneQ

Accepted(r) ==
    /\ HasRoom(LaneOf(r))
    /\ laneQ' = [laneQ EXCEPT ![LaneOf(r)] = Append(@, NewItem(r, FALSE))]

Refused(r) == ~ HasRoom(LaneOf(r)) /\ MayTimeOut /\ UNCHANGED laneQ

(***************************************************************************)
(* safe_produce of the event's messages.  When the producer's buffer stays *)
(* full the event is sent to the DLQ instead; the False it returns is not  *)
(* looked at.                                                              *)
(***************************************************************************)
Publish(r, gone) ==
    \/ /\ outbox' = outbox \cup {r}
       /\ excused' = Excuse("dropped", gone)
       /\ UNCHANGED <<dlqOutbox, budget>>
    \/ /\ Spend("buffer")
       /\ \/ /\ EnableDlq /\ dlqOutbox' = dlqOutbox \cup {r}
             /\ excused' = Excuse("dropped", gone)
          \/ /\ excused' = [Excuse("dropped", gone) EXCEPT !["unpublished"] = @ \cup {r}]
             /\ UNCHANGED dlqOutbox
       /\ UNCHANGED outbox

RouteAndPublish ==
    /\ ppc = "route"
    /\ LET r == Head(todo)
           l == LaneOf(r)
       IN /\ \/ /\ Accepted(r)
                /\ Publish(r, {})
                /\ UNCHANGED failed
             \/ /\ Refused(r)
                /\ Publish(r, IF l = "critical" THEN {} ELSE {r})
                /\ failed' = (failed \/ l = "critical")
          /\ signalRequired' =
                IF SignalCommitRequiresPg /\ l # "bulk" /\ (HasRoom(l) \/ l # "critical")
                THEN Raise(signalRequired, r)
                ELSE signalRequired
          /\ batchMax' = Raise(batchMax, r)
          /\ processed' = Raise(processed, r)
    /\ todo' = Tail(todo)
    /\ ppc' = "event"
    /\ UNCHANGED <<brokerVars, consumerVars, recordQ, cur, shouldCommit, errorsBefore,
                   revoked, barrierVars, deliveryErrors, writerVars>>

(***************************************************************************)
(* producer.flush(30), and the verdict on what it left unsent.             *)
(***************************************************************************)
\* Faulty variants: delivery errors, or unsent messages, are not looked at.
EvaluateBatchCommit_IgnoreErrors(remaining) == remaining = {} /\ ~ failed
EvaluateBatchCommit_IgnoreUnsent(remaining) ==
    deliveryErrors = errorsBefore /\ ~ failed

EvaluateBatchCommit(remaining) ==
    remaining = {} /\ deliveryErrors = errorsBefore /\ ~ failed

FlushAndEvaluate ==
    /\ ppc = "event" /\ todo = <<>>
    /\ LET remaining == outbox \cup dlqOutbox IN
        /\ remaining = {} \/ MayTimeOut
        /\ shouldCommit' = EvaluateBatchCommit(remaining)
    /\ ppc' = "noise"
    /\ UNCHANGED <<brokerVars, consumerVars, recordQ, cur, todo, batchMax, signalRequired,
                   failed, errorsBefore, processed, revoked, barrierVars, producerVars,
                   laneQ, writerVars, excused, budget>>

(***************************************************************************)
(* The two persistence barriers.  Each is passed when the writers' high-   *)
(* water marks have caught up, or is given up when its timeout expires.    *)
(***************************************************************************)
\* Faulty variants: any record's acknowledgement will do; one past the mark.
NoisePersisted_Some == cur.noise = {} \/ \E r \in cur.noise : noiseHwm[r[1]] >= r[2]
NoisePersisted_Strict == \A r \in cur.noise : noiseHwm[r[1]] > r[2]

NoisePersisted == \A r \in cur.noise : noiseHwm[r[1]] >= r[2]

\* Faulty variant: the strict mode does not wait.
SignalPersisted_Skip == TRUE

SignalPersisted == \A p \in Partitions : signalHwm[p] >= signalRequired[p]

AwaitNoise ==
    /\ ppc = "noise"
    /\ \/ NoisePersisted /\ UNCHANGED shouldCommit
       \/ ~ NoisePersisted /\ MayTimeOut /\ shouldCommit' = FALSE
    /\ ppc' = "signal"
    /\ UNCHANGED <<brokerVars, consumerVars, recordQ, cur, todo, batchMax, signalRequired,
                   failed, errorsBefore, processed, revoked, barrierVars, producerVars,
                   laneQ, writerVars, excused, budget>>

AwaitSignal ==
    /\ ppc = "signal"
    /\ \/ SignalPersisted /\ UNCHANGED shouldCommit
       \/ ~ SignalPersisted /\ MayTimeOut /\ shouldCommit' = FALSE
    /\ ppc' = "commit"
    /\ UNCHANGED <<brokerVars, consumerVars, recordQ, cur, todo, batchMax, signalRequired,
                   failed, errorsBefore, processed, revoked, barrierVars, producerVars,
                   laneQ, writerVars, excused, budget>>

(***************************************************************************)
(* The end of the batch: commit the merged offsets, fail to, or decline.   *)
(* Either way the iteration's locals are gone.                             *)
(***************************************************************************)
EndBatch ==
    /\ ppc' = "idle"
    /\ cur' = NoEnvelope /\ todo' = <<>>
    /\ batchMax' = NoHwm /\ signalRequired' = NoHwm
    /\ failed' = FALSE /\ shouldCommit' = FALSE /\ errorsBefore' = 0

CommitMergedOffsets ==
    \E merged \in Hwms :
        /\ IsRaised(merged, batchMax, cur.noise)
        /\ committed' = CommitTo(merged, Partitions)

CommitBatch ==
    /\ ppc = "commit" /\ shouldCommit
    /\ CommitMergedOffsets
    /\ EndBatch
    /\ UNCHANGED <<kind, topics, dlq, pg, consumerVars, recordQ, processed,
                   revoked, barrierVars, producerVars, laneQ, writerVars, excused, budget>>

CommitRaises ==
    /\ ppc = "commit" /\ shouldCommit
    /\ Spend("commit")
    /\ UNCHANGED committed \/ CommitMergedOffsets   \* refused, or the reply was lost
    /\ EndBatch
    /\ UNCHANGED <<kind, topics, dlq, pg, consumerVars, recordQ, processed, revoked,
                   barrierVars, producerVars, laneQ, writerVars, excused>>

DeclineBatch ==
    /\ ppc = "commit" /\ ~ shouldCommit
    /\ excused' = Excuse("declined", EnvelopeRecords(cur))
    /\ EndBatch
    /\ UNCHANGED <<brokerVars, consumerVars, recordQ, processed, revoked,
                   barrierVars, producerVars, laneQ, writerVars, budget>>

-----------------------------------------------------------------------------
(***************************************************************************)
(* THE PRODUCER.  Acknowledgements arrive at any time.  A failure reaches  *)
(* delivery_callback when the processor drives the producer, in poll() or  *)
(* flush(); a failed DLQ message only moves a statistic.                   *)
(***************************************************************************)
Deliver(r) ==
    /\ r \in outbox
    /\ outbox' = outbox \ {r}
    /\ topics' = topics \cup {r}
    /\ UNCHANGED <<kind, committed, dlq, pg, consumerVars, recordQ, processorVars, processed,
                   revoked, barrierVars, dlqOutbox, deliveryErrors, laneQ, writerVars,
                   excused, budget>>

DeliveryFails(r) ==
    /\ r \in outbox /\ ppc \in {"event", "route"}
    /\ Spend("delivery")
    /\ outbox' = outbox \ {r}
    /\ deliveryErrors' = deliveryErrors + 1
    /\ UNCHANGED <<brokerVars, consumerVars, recordQ, processorVars, processed, revoked,
                   barrierVars, dlqOutbox, laneQ, writerVars, excused>>

DlqDeliver(r) ==
    /\ r \in dlqOutbox
    /\ dlqOutbox' = dlqOutbox \ {r}
    /\ dlq' = dlq \cup {r}
    /\ UNCHANGED <<kind, committed, topics, pg, consumerVars, recordQ, processorVars,
                   processed, revoked, barrierVars, outbox, deliveryErrors, laneQ,
                   writerVars, excused, budget>>

DlqDeliveryFails(r) ==
    /\ r \in dlqOutbox
    /\ Spend("dlq")
    /\ dlqOutbox' = dlqOutbox \ {r}
    /\ excused' = Excuse("unpublished", {r})
    /\ UNCHANGED <<brokerVars, consumerVars, recordQ, processorVars, processed, revoked,
                   barrierVars, outbox, deliveryErrors, laneQ, writerVars>>

-----------------------------------------------------------------------------
(***************************************************************************)
(* THE WRITER THREADS.  _writer_loop drains its lane into a batch, writes  *)
(* it, and acknowledges the offsets or returns the items to the lane.      *)
(***************************************************************************)
WriterGet(l) ==
    /\ wpc[l] = "collect" /\ Len(wBatch[l]) < WriterBatch /\ laneQ[l] # <<>>
    /\ wBatch' = [wBatch EXCEPT ![l] = Append(@, Head(laneQ[l]))]
    /\ laneQ' = [laneQ EXCEPT ![l] = Tail(@)]
    /\ UNCHANGED <<brokerVars, consumerVars, recordQ, processorVars, processed, revoked,
                   barrierVars, producerVars, wpc, excused, budget>>

BatchRecords(b) == {i.rec : i \in SeqRange(b)}
ShortCircuited(b) == {i.rec : i \in {j \in SeqRange(b) : j.sc}}

\* Faulty variant: the acknowledgement is forgotten.
RecordNoisePersisted_Forget(b) == UNCHANGED noiseHwm

RecordNoisePersisted(b) ==
    noiseHwm' \in Hwms /\ IsRaised(noiseHwm', noiseHwm, ShortCircuited(b))

RecordSignalPersisted(b) ==
    signalHwm' \in Hwms /\ IsRaised(signalHwm', signalHwm, BatchRecords(b))

WriterWrite(l) ==
    /\ wpc[l] = "collect" /\ wBatch[l] # <<>>
    /\ pg' = pg \cup BatchRecords(wBatch[l])
    /\ IF l = "bulk"
       THEN RecordNoisePersisted(wBatch[l]) /\ UNCHANGED signalHwm
       ELSE /\ IF SignalCommitRequiresPg
               THEN RecordSignalPersisted(wBatch[l])
               ELSE UNCHANGED signalHwm
            /\ UNCHANGED noiseHwm
    /\ wBatch' = [wBatch EXCEPT ![l] = <<>>]
    /\ UNCHANGED <<kind, committed, topics, dlq, consumerVars, recordQ, processorVars,
                   processed, revoked, producerVars, laneQ, wpc, excused, budget>>

(***************************************************************************)
(* The flush raised: before the INSERT took effect, or after it (the       *)
(* acknowledgement was lost, or the retention cleanup that follows failed).*)
(***************************************************************************)
WriteFails(l) ==
    /\ wpc[l] = "collect" /\ wBatch[l] # <<>>
    /\ Spend("db")
    /\ pg' \in {pg, pg \cup BatchRecords(wBatch[l])}
    /\ wpc' = [wpc EXCEPT ![l] = "requeue"]
    /\ UNCHANGED <<kind, committed, topics, dlq, consumerVars, recordQ, processorVars, processed, revoked,
                   barrierVars, producerVars, laneQ, wBatch, excused>>

(***************************************************************************)
(* _requeue_or_dlq, one item of the failed batch: to the DLQ when its      *)
(* retries are used up, else to the end of the lane, else (lane full) gone.*)
(***************************************************************************)
RequeueOrDlq(l) ==
    /\ wpc[l] = "requeue" /\ wBatch[l] # <<>>
    /\ LET item == Head(wBatch[l]) IN
        \/ /\ item.retry = MaxRetries
           /\ SendToDlq(item.rec)
           /\ UNCHANGED laneQ
        \/ /\ item.retry < MaxRetries /\ HasRoom(l)
           /\ laneQ' = [laneQ EXCEPT ![l] = Append(@, [item EXCEPT !.retry = @ + 1])]
           /\ excused' = Excuse("requeued", IF item.sc THEN {item.rec} ELSE {})
           /\ UNCHANGED <<dlqOutbox, budget>>
        \/ /\ item.retry < MaxRetries /\ ~ HasRoom(l)
           /\ excused' = Excuse("dropped", {item.rec})
           /\ UNCHANGED <<laneQ, dlqOutbox, budget>>
    /\ wBatch' = [wBatch EXCEPT ![l] = Tail(@)]
    /\ wpc' = [wpc EXCEPT ![l] = IF Len(wBatch[l]) = 1 THEN "collect" ELSE "requeue"]
    /\ UNCHANGED <<brokerVars, consumerVars, recordQ, processorVars, processed, revoked,
                   barrierVars, outbox, deliveryErrors>>

-----------------------------------------------------------------------------
(***************************************************************************)
(* The process dies and is started again: only the brokers and Postgres    *)
(* remember anything.                                                      *)
(***************************************************************************)
Crash ==
    /\ Spend("crash")
    /\ assigned' = {} /\ position' = [p \in Partitions |-> 0]
    /\ cpc' = "consume" /\ env' = NoEnvelope /\ recordQ' = <<>>
    /\ ppc' = "idle" /\ cur' = NoEnvelope /\ todo' = <<>>
    /\ batchMax' = NoHwm /\ signalRequired' = NoHwm
    /\ failed' = FALSE /\ shouldCommit' = FALSE
    /\ errorsBefore' = 0 /\ deliveryErrors' = 0
    /\ processed' = NoHwm /\ revoked' = {}
    /\ noiseHwm' = NoHwm /\ signalHwm' = NoHwm
    /\ outbox' = {} /\ dlqOutbox' = {}
    /\ laneQ' = [l \in Lanes |-> <<>>]
    /\ wBatch' = [l \in Lanes |-> <<>>]
    /\ wpc' = [l \in Lanes |-> "collect"]
    /\ UNCHANGED <<brokerVars, excused>>

(***************************************************************************)
(* The log is drained and every thread waits for work.                     *)
(***************************************************************************)
AllQuiet ==
    /\ assigned = Partitions /\ \A p \in Partitions : position[p] = LogEnd
    /\ cpc = "consume" /\ env = NoEnvelope /\ recordQ = <<>>
    /\ ppc = "idle" /\ outbox = {} /\ dlqOutbox = {}
    /\ \A l \in Lanes : laneQ[l] = <<>> /\ wBatch[l] = <<>>

Quiescent == AllQuiet /\ UNCHANGED vars

ConsumerStep ==
    \/ \E p \in Partitions : Fetch(p)
    \/ FinishSplit \/ PutEnvelope \/ PauseOnFull \/ ResumeAfterDrain

ProcessorStep ==
    \/ TakeEnvelope \/ SkipRevoked \/ ProcessPoison \/ StartEvent \/ RouteAndPublish
    \/ FlushAndEvaluate \/ AwaitNoise \/ AwaitSignal
    \/ CommitBatch \/ DeclineBatch

WriterStep(l) == WriterGet(l) \/ WriterWrite(l) \/ RequeueOrDlq(l)

ProducerStep == \E r \in Records : Deliver(r) \/ DlqDeliver(r)

Rebalance == \E P \in SUBSET Partitions : OnAssign(P)

FaultStep ==
    \/ FetchError
    \/ \E p \in Partitions : HeartbeatPoll(p)
    \/ \E P \in SUBSET Partitions : OnRevoke(P)
    \/ CommitRaises
    \/ \E r \in Records : DeliveryFails(r) \/ DlqDeliveryFails(r)
    \/ \E l \in Lanes : WriteFails(l)
    \/ Crash

Next ==
    \/ ConsumerStep \/ ProcessorStep \/ ProducerStep \/ Rebalance
    \/ \E l \in Lanes : WriterStep(l)
    \/ FaultStep
    \/ Quiescent

(***************************************************************************)
(* Every thread of the process keeps running, the group coordinator hands  *)
(* out every partition, the brokers acknowledge.  Faults are never owed.   *)
(***************************************************************************)
Fairness ==
    /\ WF_vars(ConsumerStep)
    /\ WF_vars(ProcessorStep)
    /\ WF_vars(ProducerStep)
    /\ WF_vars(Rebalance)
    /\ \A l \in Lanes : WF_vars(WriterStep(l))

Spec == Init /\ [][Next]_vars
FairSpec == Spec /\ Fairness

-----------------------------------------------------------------------------
(***************************************************************************)
(* PROPERTIES                                                              *)
(***************************************************************************)

(***************************************************************************)
(* Whatever the faults, a record is passed over by the committed offset    *)
(* only if it is durable (acknowledged on the audit topics or the DLQ, or  *)
(* in Postgres) or the process is known to have let go of it: the commit   *)
(* at the end of a batch exposes nothing by itself, over all the records   *)
(* of earlier batches, of earlier incarnations and of both paths.          *)
(***************************************************************************)
LossAccounted == Below(committed) \subseteq Settled \cup Excused

(***************************************************************************)
(* The promise of OPERATIONS_MODEL.md: a committed record is durable.      *)
(***************************************************************************)
AtLeastOnce == Below(committed) \subseteq Settled

(***************************************************************************)
(* Once the processor has decided to commit a batch, every message it took *)
(* from the queue in that batch is durable or booked: flush, the error     *)
(* counter and the failure flag leave no gap between them, whatever the    *)
(* producer reports and whenever it reports it.                            *)
(***************************************************************************)
CommitCoversBatch ==
    ppc = "commit" /\ shouldCommit => SeqRange(cur.msgs) \subseteq Settled \cup Excused

(***************************************************************************)
(* The invariant behind it, one phase of the batch at a time.              *)
(***************************************************************************)
InHand == outbox \cup dlqOutbox \cup Settled \cup Excused

BatchInv ==
    /\ ppc \in {"event", "route"} =>
        /\ errorsBefore <= deliveryErrors
        /\ errorsBefore = deliveryErrors =>
              SeqRange(cur.msgs) \subseteq SeqRange(todo) \cup InHand
    /\ ppc \in {"noise", "signal", "commit"} /\ shouldCommit =>
        SeqRange(cur.msgs) \subseteq Settled \cup Excused

(***************************************************************************)
(* While the processor waits at the noise barrier, every short-circuited   *)
(* record it waits for is still on its way: in the bulk lane, in the bulk  *)
(* writer's hands, already acknowledged, or given up by the writer.  The   *)
(* 60 second timeout never expires for a record nobody holds.              *)
(***************************************************************************)
Carried(l) == {i.rec : i \in SeqRange(laneQ[l]) \cup SeqRange(wBatch[l])}

GivenUp == excused["dropped"] \cup excused["unpublished"] \cup dlq \cup dlqOutbox

NoiseBarrierFed ==
    ppc = "noise" =>
        \A r \in cur.noise : \/ noiseHwm[r[1]] >= r[2]
                            \/ r \in Carried("bulk") \cup GivenUp

(***************************************************************************)
(* As long as the process does not crash, a committed record that did not  *)
(* parse as poison has its Postgres row, is carried by a lane or a writer, *)
(* or was let go of for a booked reason: commits run ahead of Postgres,    *)
(* but no event leaves the lanes unnoticed.                                *)
(***************************************************************************)
NoSilentPgLoss ==
    {r \in Below(committed) : kind[r] # "poison"}
        \subseteq pg \cup (UNION {Carried(l) : l \in Lanes}) \cup GivenUp \cup Excused

(***************************************************************************)
(* Every record is eventually durable or booked, through any finite number *)
(* of faults: no barrier, full queue or blocked put wedges the pipeline.   *)
(***************************************************************************)
EventuallySettled == \A r \in Records : <>(r \in Settled \cup Excused)

(***************************************************************************)
(* Without the faults that decline a batch the group catches up with the   *)
(* log and stays caught up.                                                *)
(***************************************************************************)
CaughtUp == <>[](\A p \in Partitions : committed[p] = LogEnd)

(***************************************************************************)
(* SIGNAL_COMMIT_REQUIRES_PG: "full PG-before-commit durability".          *)
(***************************************************************************)
Unstored == {r \in Below(committed) : kind[r] \in {"critical", "normal"}} \ pg

PgBeforeCommit == SignalCommitRequiresPg => Unstored = {}

(***************************************************************************)
(* What the setting does give when all signals take one lane: a signal     *)
(* below the committed offset has its row, or was booked when its batch    *)
(* was declined or a full queue refused it.  Events that wait in a lane,   *)
(* are redelivered after a crash, or outlive the barrier of their batch    *)
(* are never committed by a later batch without one of the two.            *)
(***************************************************************************)
StrictLossAccounted == SignalCommitRequiresPg => Unstored \subseteq Excused

(***************************************************************************)
(* While the member keeps its partitions a commit never moves an offset    *)
(* back, crashes and restarts included: a restarted process resumes where  *)
(* the group was and commits nothing it had already passed.                *)
(***************************************************************************)
CommitNeverRegresses ==
    [][\A p \in Partitions : committed'[p] >= committed[p]]_vars

(***************************************************************************)
(* The pipeline implements the delivery contract: what is durable or       *)
(* waived stays so, and an offset moves only over such records.            *)
(***************************************************************************)
Contract == INSTANCE DeliveryContract WITH durable <- Settled, waived <- Excused

RefinesContract == Contract!Spec
=============================================================================
