------------------------------ MODULE Lifecycle ------------------------------
(***************************************************************************)
(* When the pipeline of Forwarder fetches, and how it stops.  The consumer *)
(* loop pauses its partitions for two reasons, a full record_queue and     *)
(* writer lanes under pressure; a signal makes every thread leave its loop *)
(* at its own next test of _shutdown_requested, while main() joins them    *)
(* one after the other, flushes, commits and closes the consumer.          *)
(*                                                                         *)
(* The handlers are those of Forwarder; this module adds the guards and    *)
(* the state that decide whether a thread still runs them.                 *)
(***************************************************************************)
EXTENDS Forwarder

ASSUME LifecycleAssumption == LaneCap \in Nat \ {0, 1}

VARIABLES
    entered,              \* the consumer is past its loop's tests, at consume()
    paused,               \* paused
    writerPressurePaused, \* writer_pressure_paused
    fetchPaused,          \* partitions the library does not fetch from
    stored,               \* the library's offset store: last record returned
    shutdown,             \* _shutdown_requested
    alive,                \* threads that have not left their loops
    mpc,                  \* main(): "run", "processor", "writers", "flush",
                          \* "commit", "close" or "done"
    processorStillAlive   \* processor_still_alive

Threads == {"consumer", "processor"} \cup Lanes

pauseVars == <<entered, paused, writerPressurePaused, fetchPaused>>
mainVars == <<mpc, processorStillAlive>>
lifeVars == <<pauseVars, stored, shutdown, alive, mainVars>>
lvars == <<vars, lifeVars>>

LifecycleTypeOK ==
    /\ entered \in BOOLEAN
    /\ paused \in BOOLEAN
    /\ writerPressurePaused \in BOOLEAN
    /\ fetchPaused \subseteq assigned
    /\ stored \in Hwms
    /\ shutdown \in BOOLEAN
    /\ alive \subseteq Threads
    /\ mpc \in {"run", "processor", "writers", "flush", "commit", "close", "done"}
    /\ processorStillAlive \in BOOLEAN

LifecycleInit ==
    /\ Init
    /\ entered = FALSE
    /\ paused = FALSE /\ writerPressurePaused = FALSE
    /\ fetchPaused = {}
    /\ stored = NoHwm
    /\ shutdown = FALSE
    /\ alive = Threads
    /\ mpc = "run" /\ processorStillAlive = FALSE

-----------------------------------------------------------------------------
(***************************************************************************)
(* THE CONSUMER LOOP.  At its top it tests the shutdown flag, then whether *)
(* a writer lane is at 80% of its capacity.                                *)
(***************************************************************************)
\* Faulty variant: one item early, which an empty lane of two satisfies.
UnderPressure_OffByOne == \E l \in Lanes : Len(laneQ[l]) >= (LaneCap * 8) \div 10 - 1

UnderPressure == \E l \in Lanes : Len(laneQ[l]) >= (LaneCap * 8) \div 10

LoopTop ==
    /\ "consumer" \in alive /\ mpc # "done"
    /\ cpc = "consume" /\ env = NoEnvelope /\ ~ entered

PauseForPressure ==
    /\ LoopTop /\ ~ shutdown
    /\ UnderPressure /\ ~ writerPressurePaused
    /\ fetchPaused' = assigned
    /\ paused' = TRUE /\ writerPressurePaused' = TRUE
    /\ UNCHANGED <<vars, entered, stored, shutdown, alive, mainVars>>

(***************************************************************************)
(* The pressure is gone: the partitions are resumed only if record_queue   *)
(* is below half as well.  The loop goes on to consume() either way.       *)
(***************************************************************************)
\* Faulty variant: the flag is cleared although nothing was resumed.
ResumeIfBelowHalf_ClearFlag ==
    /\ paused' = FALSE
    /\ fetchPaused' = IF Len(recordQ) < RecordQueueSize \div 2 THEN {} ELSE fetchPaused

ResumeIfBelowHalf ==
    IF Len(recordQ) < RecordQueueSize \div 2
    THEN paused' = FALSE /\ fetchPaused' = {}
    ELSE UNCHANGED <<paused, fetchPaused>>

RelievePressure ==
    /\ LoopTop /\ ~ shutdown
    /\ ~ UnderPressure /\ writerPressurePaused
    /\ writerPressurePaused' = FALSE
    /\ ResumeIfBelowHalf
    /\ entered' = TRUE
    /\ UNCHANGED <<vars, stored, shutdown, alive, mainVars>>

EnterConsume ==
    /\ LoopTop /\ ~ shutdown
    /\ ~ UnderPressure /\ ~ writerPressurePaused
    /\ entered' = TRUE
    /\ UNCHANGED <<vars, paused, writerPressurePaused, fetchPaused, stored, shutdown,
                   alive, mainVars>>

(***************************************************************************)
(* consume() returns a batch, or nothing.  A turn of the loop that finds   *)
(* nothing and would test nothing new is left out.                         *)
(***************************************************************************)
Fetchable(p) == p \in assigned \ fetchPaused /\ position[p] < LogEnd

\* Faulty variant: the next offset, which a commit would count once more.
StoreOffset_Next(p) == stored' = [stored EXCEPT ![p] = position[p] + 1]

StoreOffset(p) == stored' = [stored EXCEPT ![p] = position[p]]

ConsumeNext(p) ==
    /\ "consumer" \in alive /\ mpc # "done"
    /\ entered /\ Fetchable(p)
    /\ Fetch(p)
    /\ StoreOffset(p)
    /\ UNCHANGED <<pauseVars, shutdown, alive, mainVars>>

ConsumeNothing ==
    /\ "consumer" \in alive /\ mpc # "done"
    /\ entered /\ cpc = "consume" /\ env = NoEnvelope
    /\ shutdown \/ UnderPressure
    /\ shutdown \/ \A p \in Partitions : ~ Fetchable(p)
    /\ entered' = FALSE
    /\ UNCHANGED <<vars, paused, writerPressurePaused, fetchPaused, stored, shutdown,
                   alive, mainVars>>

(***************************************************************************)
(* Each poll(0), idle or paused, throws away what it returns; a partition  *)
(* assigned during a pause is not paused and does return records.          *)
(***************************************************************************)
PollDiscards(p) ==
    /\ "consumer" \in alive /\ mpc # "done"
    /\ \/ cpc = "consume" /\ env = NoEnvelope /\ (entered \/ writerPressurePaused)
       \/ cpc = "wait"
    /\ Fetchable(p)
    /\ Spend("poll")
    /\ excused' = Excuse("discarded", {<<p, position[p]>>})
    /\ position' = [position EXCEPT ![p] = @ + 1]
    /\ StoreOffset(p)
    /\ UNCHANGED <<brokerVars, assigned, cpc, env, recordQ, processorVars, processed,
                   revoked, barrierVars, producerVars, laneQ, writerVars, pauseVars,
                   shutdown, alive, mainVars>>

(***************************************************************************)
(* The envelope is put; when the queue stays full the partitions are       *)
(* paused until it has drained to half or the process is shutting down,    *)
(* and it is put once more.  That second put may fail: the batch is gone.  *)
(***************************************************************************)
SplitDone ==
    /\ "consumer" \in alive /\ mpc # "done"
    /\ FinishSplit
    /\ UNCHANGED lifeVars

PutFirst ==
    /\ "consumer" \in alive /\ mpc # "done"
    /\ PutEnvelope
    /\ entered' = FALSE
    /\ UNCHANGED <<paused, writerPressurePaused, fetchPaused, stored, shutdown, alive, mainVars>>

PauseForRoom ==
    /\ "consumer" \in alive /\ mpc # "done"
    /\ PauseOnFull
    /\ fetchPaused' = IF paused THEN fetchPaused ELSE assigned
    /\ paused' = TRUE
    /\ UNCHANGED <<entered, writerPressurePaused, stored, shutdown, alive, mainVars>>

LeaveDrainWait ==
    /\ "consumer" \in alive /\ mpc # "done"
    /\ cpc = "wait" /\ (Drained \/ shutdown)
    /\ cpc' = "reput"
    /\ fetchPaused' = IF paused THEN {} ELSE fetchPaused
    /\ paused' = FALSE
    /\ UNCHANGED <<brokerVars, assigned, position, env, recordQ, processorVars, processed,
                   revoked, barrierVars, producerVars, laneQ, writerVars, excused, budget,
                   entered, writerPressurePaused, stored, shutdown, alive, mainVars>>

PutAgain ==
    /\ "consumer" \in alive /\ mpc # "done"
    /\ cpc = "reput"
    /\ \/ /\ Len(recordQ) < RecordQueueSize
          /\ recordQ' = Append(recordQ, env)
          /\ UNCHANGED excused
       \/ /\ Len(recordQ) = RecordQueueSize /\ MayTimeOut
          /\ excused' = Excuse("dropped", EnvelopeRecords(env))
          /\ UNCHANGED recordQ
    /\ env' = NoEnvelope
    /\ cpc' = "consume" /\ entered' = FALSE
    /\ UNCHANGED <<brokerVars, assigned, position, processorVars, processed, revoked,
                   barrierVars, producerVars, laneQ, writerVars, budget, paused,
                   writerPressurePaused, fetchPaused, stored, shutdown, alive, mainVars>>

-----------------------------------------------------------------------------
(***************************************************************************)
(* REBALANCE.  A partition comes without a pause, whatever the flags say.  *)
(* Partitions are taken away when the consumer is closed; revocations      *)
(* before that are the subject of Forwarder.                               *)
(***************************************************************************)
Assign(P) ==
    /\ "consumer" \in alive /\ mpc # "done"
    /\ OnAssign(P)
    /\ UNCHANGED lifeVars

-----------------------------------------------------------------------------
(***************************************************************************)
(* SHUTDOWN.  The signal handler sets the flag; each thread reads it where *)
(* its loop does.  The consumer leaves an empty envelope as the sentinel,  *)
(* unless record_queue stays full.                                         *)
(***************************************************************************)
RequestShutdown ==
    /\ ~ shutdown
    /\ shutdown' = TRUE
    /\ UNCHANGED <<vars, pauseVars, stored, alive, mainVars>>

ConsumerLeaves ==
    /\ LoopTop /\ shutdown
    /\ \/ Len(recordQ) < RecordQueueSize /\ recordQ' = Append(recordQ, NoEnvelope)
       \/ Len(recordQ) = RecordQueueSize /\ MayTimeOut /\ UNCHANGED recordQ
    /\ alive' = alive \ {"consumer"}
    /\ UNCHANGED <<brokerVars, consumerVars, processorVars, processed, revoked, barrierVars,
                   producerVars, laneQ, writerVars, excused, budget, pauseVars, stored,
                   shutdown, mainVars>>

(***************************************************************************)
(* The processor leaves at the sentinel, or when its get() times out on an *)
(* empty queue after the flag was set, whatever the consumer still holds.  *)
(***************************************************************************)
ProcessorSeesEnd ==
    \/ recordQ # <<>> /\ Head(recordQ) = NoEnvelope
    \/ recordQ = <<>> /\ shutdown

ProcessorLeaves ==
    /\ "processor" \in alive /\ ppc = "idle" /\ mpc # "done"
    /\ ProcessorSeesEnd
    /\ recordQ' = IF recordQ = <<>> THEN recordQ ELSE Tail(recordQ)
    /\ alive' = alive \ {"processor"}
    /\ UNCHANGED <<brokerVars, consumerVars, processorVars, processed, revoked, barrierVars,
                   producerVars, laneQ, writerVars, excused, budget, pauseVars, stored,
                   shutdown, mainVars>>

(***************************************************************************)
(* A writer leaves when its lane and its batch are empty, whoever may      *)
(* still put into the lane.                                                *)
(***************************************************************************)
WriterLeaves(l) ==
    /\ l \in alive /\ mpc # "done"
    /\ shutdown /\ laneQ[l] = <<>> /\ wBatch[l] = <<>>
    /\ alive' = alive \ {l}
    /\ UNCHANGED <<vars, pauseVars, stored, shutdown, mainVars>>

(***************************************************************************)
(* main(): the joins, each with a deadline.                                *)
(***************************************************************************)
Join(here, threads, next) ==
    /\ mpc = here /\ shutdown
    /\ \/ threads \cap alive = {} /\ UNCHANGED budget
       \/ threads \cap alive # {} /\ Spend("join")
    /\ mpc' = next
    /\ UNCHANGED <<brokerVars, consumerVars, recordQ, processorVars, processed, revoked,
                   barrierVars, producerVars, laneQ, writerVars, excused, pauseVars,
                   stored, shutdown, alive>>

JoinConsumer == Join("run", {"consumer"}, "processor") /\ UNCHANGED processorStillAlive
JoinProcessor ==
    /\ Join("processor", {"processor"}, "writers")
    /\ processorStillAlive' = ("processor" \in alive)
JoinWriters == Join("writers", Lanes, "flush") /\ UNCHANGED processorStillAlive

(***************************************************************************)
(* The last flush, and whether the final commit is made.                   *)
(***************************************************************************)
\* Faulty variant: made although the processor is still working.
MayCommitAtEnd_Always(remaining) == remaining = {}

MayCommitAtEnd(remaining) == remaining = {} /\ ~ processorStillAlive

FinalFlush ==
    /\ mpc = "flush"
    /\ LET remaining == outbox \cup dlqOutbox IN
        /\ remaining = {} \/ MayTimeOut
        /\ mpc' = IF MayCommitAtEnd(remaining) THEN "commit" ELSE "close"
    /\ UNCHANGED <<vars, pauseVars, stored, shutdown, alive, processorStillAlive>>

(***************************************************************************)
(* commit() without arguments: every offset in the library's store.  What  *)
(* it passes over while it is still in an envelope is abandoned.           *)
(***************************************************************************)
InEnvelopes == EnvelopeRecords(env) \cup UNION {EnvelopeRecords(e) : e \in SeqRange(recordQ)}

FinalCommit ==
    /\ mpc = "commit"
    /\ mpc' = "close"
    /\ committed' = CommitTo(stored, assigned)
    /\ excused' = Excuse("abandoned", InEnvelopes \cap Below(committed'))
    /\ UNCHANGED <<kind, topics, dlq, pg, consumerVars, recordQ, processorVars, processed,
                   revoked, barrierVars, producerVars, laneQ, writerVars, budget, pauseVars,
                   stored, shutdown, alive, processorStillAlive>>

(***************************************************************************)
(* consumer.close() revokes what is assigned, which calls on_revoke.       *)
(***************************************************************************)
CloseConsumer ==
    /\ mpc = "close"
    /\ mpc' = "done"
    /\ CommitProcessed(assigned)
    /\ assigned' = {} /\ fetchPaused' = {}
    /\ revoked' = revoked \cup assigned
    /\ UNCHANGED <<kind, topics, dlq, pg, position, cpc, env, recordQ, processorVars,
                   processed, barrierVars, producerVars, laneQ, writerVars, budget, entered,
                   paused, writerPressurePaused, stored, shutdown, alive, processorStillAlive>>

-----------------------------------------------------------------------------
ConsumerLoop ==
    \/ PauseForPressure \/ RelievePressure \/ EnterConsume \/ ConsumeNothing
    \/ \E p \in Partitions : ConsumeNext(p)
    \/ SplitDone \/ PutFirst \/ PauseForRoom \/ LeaveDrainWait \/ PutAgain
    \/ ConsumerLeaves

ProcessorRuns ==
    /\ "processor" \in alive /\ mpc # "done"
    /\ ProcessorStep
    /\ ppc = "idle" => Head(recordQ) # NoEnvelope
    /\ UNCHANGED lifeVars

WriterRuns(l) == l \in alive /\ mpc # "done" /\ WriterStep(l) /\ UNCHANGED lifeVars

ProducerRuns == mpc # "done" /\ ProducerStep /\ UNCHANGED lifeVars

MainStep ==
    \/ JoinConsumer \/ JoinProcessor \/ JoinWriters
    \/ FinalFlush \/ FinalCommit \/ CloseConsumer

Stopped == mpc = "done" /\ UNCHANGED lvars

LifecycleNext ==
    \/ ConsumerLoop
    \/ ProcessorRuns \/ ProcessorLeaves
    \/ \E l \in Lanes : WriterRuns(l) \/ WriterLeaves(l)
    \/ ProducerRuns
    \/ \E P \in SUBSET Partitions : Assign(P)
    \/ \E p \in Partitions : PollDiscards(p)
    \/ RequestShutdown \/ MainStep
    \/ Stopped

LifecycleSpec == LifecycleInit /\ [][LifecycleNext]_lvars

(***************************************************************************)
(* The threads and the brokers as in Forwarder, and main() once it has     *)
(* been told to stop.  Nobody owes the signal.                             *)
(***************************************************************************)
LifecycleFairness ==
    /\ WF_lvars(ConsumerLoop)
    /\ WF_lvars(ProcessorRuns \/ ProcessorLeaves)
    /\ WF_lvars(ProducerRuns)
    /\ WF_lvars(\E P \in SUBSET Partitions : Assign(P))
    /\ \A l \in Lanes : WF_lvars(WriterRuns(l) \/ WriterLeaves(l))
    /\ WF_lvars(MainStep)

FairLifecycle == LifecycleSpec /\ LifecycleFairness

-----------------------------------------------------------------------------
(***************************************************************************)
(* PROPERTIES                                                              *)
(***************************************************************************)

(***************************************************************************)
(* Partitions the library does not fetch from are always known to be       *)
(* paused: between two causes that pause and resume the same assignment, a *)
(* shutdown and rebalances in between, the flag the resume paths test is   *)
(* never down while a partition is paused.                                 *)
(***************************************************************************)
PausedOnlyWhileFlagged == fetchPaused # {} => paused

(***************************************************************************)
(* A pause for writer pressure ends, and a requested shutdown completes    *)
(* without a join running into its deadline.  The writers drain their      *)
(* lanes while the processor goes on filling them or waits for them at a   *)
(* barrier; and in whichever order the threads notice the flag, and        *)
(* whether or not the sentinel found room, none waits for one that left.   *)
(***************************************************************************)
Held == writerPressurePaused \/ shutdown

HoldsEnd == Held ~> mpc = "done" \/ ~ Held

(***************************************************************************)
(* As long as nobody asks the process to stop, it fetches the whole log:   *)
(* each pause ends when neither of its causes stands.                      *)
(***************************************************************************)
KeepsFetching == <>(shutdown \/ \A p \in Partitions : position[p] = LogEnd)
=============================================================================
