--------------------------- MODULE ForwarderProofs ---------------------------
(***************************************************************************)
(* Theorems about Forwarder, and about Lifecycle, its start, pauses and    *)
(* shutdown, for every number of partitions and records, every queue size  *)
(* and every fault budget.                                                 *)
(***************************************************************************)
EXTENDS Lifecycle, TLAPS

-----------------------------------------------------------------------------
(***************************************************************************)
(* What the operators of the model return.                                 *)
(***************************************************************************)
LEMMA RaiseType ==
    ASSUME NEW hwm \in Hwms, NEW r \in Records
    PROVE  Raise(hwm, r) \in Hwms
BY ForwarderAssumption DEF Hwms, Records, Offsets, Raise

LEMMA CommitToType ==
    ASSUME NEW hwm \in Hwms, NEW S, committed \in [Partitions -> 0 .. LogEnd]
    PROVE  CommitTo(hwm, S) \in [Partitions -> 0 .. LogEnd]
BY ForwarderAssumption DEF Hwms, Offsets, CommitTo

LEMMA NoHwmType == NoHwm \in Hwms
BY DEF NoHwm, Hwms

LEMMA NoEnvelopeType == NoEnvelope \in Envelopes /\ NoEnvelope.msgs = <<>>
BY DEF NoEnvelope, Envelopes

LEMMA ExcuseType ==
    ASSUME NEW c \in Causes, NEW S \in SUBSET Records,
           excused \in [Causes -> SUBSET Records]
    PROVE  Excuse(c, S) \in [Causes -> SUBSET Records]
BY DEF Excuse

LEMMA SpendType ==
    ASSUME NEW f \in Faults, Spend(f), budget \in [Faults -> Nat]
    PROVE  budget' \in [Faults -> Nat]
BY DEF Spend

LEMMA NewItemType ==
    ASSUME NEW r \in Records, NEW sc \in BOOLEAN
    PROVE  NewItem(r, sc) \in Items
BY ForwarderAssumption DEF NewItem, Items

LEMMA LaneOfType == \A r : LaneOf(r) \in Lanes
BY DEF LaneOf, Lanes

LEMMA AppendType ==
    ASSUME NEW S, NEW f \in [Lanes -> Seq(S)], NEW l \in Lanes, NEW x \in S
    PROVE  [f EXCEPT ![l] = Append(@, x)] \in [Lanes -> Seq(S)]
OBVIOUS

LEMMA TailType ==
    ASSUME NEW S, NEW f \in [Lanes -> Seq(S)], NEW l \in Lanes, f[l] # <<>>
    PROVE  /\ [f EXCEPT ![l] = Tail(@)] \in [Lanes -> Seq(S)]
           /\ Head(f[l]) \in S
OBVIOUS

LEMMA EmptyType ==
    ASSUME NEW S, NEW f \in [Lanes -> Seq(S)], NEW l \in Lanes
    PROVE  [f EXCEPT ![l] = <<>>] \in [Lanes -> Seq(S)]
OBVIOUS

LEMMA SeqRangeType ==
    ASSUME NEW S, NEW s \in Seq(S)
    PROVE  SeqRange(s) \in SUBSET S
BY DEF SeqRange

LEMMA EnvelopeRecordsType ==
    ASSUME NEW e \in Envelopes
    PROVE  EnvelopeRecords(e) \in SUBSET Records
BY SeqRangeType DEF EnvelopeRecords, Envelopes

LEMMA BatchRecordsType ==
    ASSUME NEW b \in Seq(Items)
    PROVE  BatchRecords(b) \in SUBSET Records
<1>1. SeqRange(b) \in SUBSET Items
  BY SeqRangeType
<1> QED BY <1>1 DEF BatchRecords, Items

-----------------------------------------------------------------------------
LEMMA InitType == Init => TypeOK
<1> SUFFICES ASSUME Init PROVE TypeOK
  OBVIOUS
<1> USE ForwarderAssumption, NoHwmType, NoEnvelopeType DEF Init, ColdStart
<1>1. BrokerTypeOK
  BY DEF BrokerTypeOK
<1>2. ConsumerTypeOK
  BY DEF ConsumerTypeOK
<1>3. ProcessorTypeOK
  <2>1. todo \in Seq(Records) /\ errorsBefore \in Nat /\ cur \in Envelopes
    BY SMT
  <2>2. failed \in BOOLEAN /\ shouldCommit \in BOOLEAN
    BY Zenon
  <2> QED BY <2>1, <2>2 DEF ProcessorTypeOK
<1>4. SharedTypeOK
  BY DEF SharedTypeOK
<1>5. WriterTypeOK
  BY DEF WriterTypeOK, Lanes
<1>6. GhostTypeOK
  BY DEF GhostTypeOK
<1> QED BY <1>1, <1>2, <1>3, <1>4, <1>5, <1>6 DEF TypeOK

(***************************************************************************)
(* The consumer thread and the rebalance callbacks.                        *)
(***************************************************************************)
LEMMA FetchType ==
    ASSUME TypeOK, NEW p \in Partitions, Fetch(p)
    PROVE  TypeOK'
<1> DEFINE r == <<p, position[p]>>
<1>1. r \in Records /\ position' \in [Partitions -> 0 .. LogEnd]
  BY ForwarderAssumption DEF TypeOK, ConsumerTypeOK, Fetch, Records, Offsets
<1>2. laneQ' \in [Lanes -> Seq(Items)] /\ env' \in Envelopes
  <2>1. CASE ShortCircuitNoise(r)
    <3>1. NewItem(r, TRUE) \in Items
      BY <1>1, NewItemType
    <3>2. laneQ' \in [Lanes -> Seq(Items)]
      BY <2>1, <3>1, AppendType DEF TypeOK, WriterTypeOK, ShortCircuitNoise, Lanes
    <3>3. env' \in Envelopes
      BY <2>1, <1>1 DEF TypeOK, ConsumerTypeOK, ShortCircuitNoise, Envelopes
    <3> QED BY <3>2, <3>3
  <2>2. CASE TakeFullPath(r)
    <3>1. Append(env.msgs, r) \in Seq(Records)
      BY <1>1 DEF TypeOK, ConsumerTypeOK, Envelopes
    <3>2. env' \in Envelopes
      BY <2>2, <3>1 DEF TypeOK, ConsumerTypeOK, TakeFullPath, Envelopes
    <3> QED BY <2>2, <3>2 DEF TypeOK, WriterTypeOK, TakeFullPath
  <2> QED BY <2>1, <2>2 DEF Fetch
<1> QED
  BY <1>1, <1>2
  DEF TypeOK, Fetch, BrokerTypeOK, ConsumerTypeOK, ProcessorTypeOK, SharedTypeOK,
      WriterTypeOK, GhostTypeOK, brokerVars, processorVars, batchVars, barrierVars,
      producerVars, writerVars

LEMMA ConsumerType ==
    ASSUME TypeOK, ConsumerStep
    PROVE  TypeOK'
<1> USE DEF TypeOK, BrokerTypeOK, ConsumerTypeOK, ProcessorTypeOK, SharedTypeOK,
      WriterTypeOK, GhostTypeOK, brokerVars, consumerVars, processorVars, batchVars,
      barrierVars, producerVars, writerVars
<1>1. ASSUME NEW p \in Partitions, Fetch(p) PROVE TypeOK'
  BY <1>1, FetchType
<1>2. CASE FinishSplit
  BY <1>2 DEF FinishSplit
<1>3. CASE PutEnvelope
  BY <1>3, NoEnvelopeType DEF PutEnvelope
<1>4. CASE PauseOnFull
  BY <1>4 DEF PauseOnFull
<1>5. CASE ResumeAfterDrain
  BY <1>5 DEF ResumeAfterDrain
<1> QED BY <1>1, <1>2, <1>3, <1>4, <1>5 DEF ConsumerStep

LEMMA RebalanceType ==
    ASSUME TypeOK, Rebalance
    PROVE  TypeOK'
<1>1. PICK P \in SUBSET Partitions : OnAssign(P)
  BY DEF Rebalance
<1> QED
  BY <1>1, ForwarderAssumption
  DEF TypeOK, BrokerTypeOK, ConsumerTypeOK, ProcessorTypeOK, SharedTypeOK,
      WriterTypeOK, GhostTypeOK, brokerVars, consumerVars, processorVars, batchVars,
      barrierVars, producerVars, writerVars, OnAssign, ResumeAt

(***************************************************************************)
(* The processor thread.                                                   *)
(***************************************************************************)
LEMMA SendToDlqType ==
    ASSUME TypeOK, NEW r \in Records, SendToDlq(r)
    PROVE  /\ dlqOutbox' \in SUBSET Records
           /\ excused' \in [Causes -> SUBSET Records]
           /\ budget' \in [Faults -> Nat]
<1>1. Excuse("unpublished", {r}) \in [Causes -> SUBSET Records]
  BY ExcuseType DEF TypeOK, GhostTypeOK, Causes
<1> QED
  BY <1>1, SpendType DEF SendToDlq, TypeOK, GhostTypeOK, SharedTypeOK, Faults

LEMMA PublishType ==
    ASSUME TypeOK, NEW r \in Records, NEW gone \in SUBSET Records, Publish(r, gone)
    PROVE  /\ outbox' \in SUBSET Records
           /\ dlqOutbox' \in SUBSET Records
           /\ excused' \in [Causes -> SUBSET Records]
           /\ budget' \in [Faults -> Nat]
<1>1. Excuse("dropped", gone) \in [Causes -> SUBSET Records]
  BY ExcuseType DEF TypeOK, GhostTypeOK, Causes
<1> QED
  BY <1>1, SpendType DEF Publish, TypeOK, GhostTypeOK, SharedTypeOK, Faults

LEMMA TakeEnvelopeType ==
    ASSUME TypeOK, TakeEnvelope
    PROVE  TypeOK'
<1> USE DEF TypeOK, TakeEnvelope
<1>1. Head(recordQ) \in Envelopes /\ Tail(recordQ) \in Seq(Envelopes)
  BY DEF ConsumerTypeOK
<1>2. Head(recordQ).msgs \in Seq(Records) /\ Head(recordQ).err \in BOOLEAN
  BY <1>1 DEF Envelopes
<1>3. ProcessorTypeOK'
  BY <1>1, <1>2, NoHwmType DEF ProcessorTypeOK, SharedTypeOK
<1> QED
  BY <1>1, <1>3
  DEF BrokerTypeOK, ConsumerTypeOK, SharedTypeOK, WriterTypeOK, GhostTypeOK, brokerVars,
      consumerVars, barrierVars, producerVars, writerVars

LEMMA HeadTodo ==
    ASSUME TypeOK, todo # <<>>
    PROVE  Head(todo) \in Records /\ Tail(todo) \in Seq(Records)
BY DEF TypeOK, ProcessorTypeOK

LEMMA SkipRevokedType ==
    ASSUME TypeOK, SkipRevoked
    PROVE  TypeOK'
<1>1. excused' \in [Causes -> SUBSET Records]
  BY HeadTodo, ExcuseType DEF SkipRevoked, TypeOK, GhostTypeOK, Causes
<1>2. todo' \in Seq(Records) /\ ppc' = "event"
  BY HeadTodo DEF SkipRevoked
<1> QED
  BY <1>1, <1>2
  DEF TypeOK, BrokerTypeOK, ConsumerTypeOK, ProcessorTypeOK, SharedTypeOK,
      WriterTypeOK, GhostTypeOK, brokerVars, consumerVars, processorVars, batchVars,
      barrierVars, producerVars, writerVars, SkipRevoked

LEMMA ProcessPoisonType ==
    ASSUME TypeOK, ProcessPoison
    PROVE  TypeOK'
<1> DEFINE r == Head(todo)
<1>1. r \in Records /\ todo' \in Seq(Records) /\ ppc' = "event"
  BY HeadTodo DEF ProcessPoison
<1>2. batchMax' \in Hwms /\ processed' \in Hwms
  BY <1>1, RaiseType DEF ProcessPoison, TypeOK, ProcessorTypeOK, SharedTypeOK
<1>3. SendToDlq(r)
  BY DEF ProcessPoison
<1>4. /\ dlqOutbox' \in SUBSET Records
      /\ excused' \in [Causes -> SUBSET Records]
      /\ budget' \in [Faults -> Nat]
  BY <1>1, <1>3, SendToDlqType
<1> QED
  BY <1>1, <1>2, <1>4
  DEF TypeOK, BrokerTypeOK, ConsumerTypeOK, ProcessorTypeOK, SharedTypeOK,
      WriterTypeOK, GhostTypeOK, brokerVars, consumerVars, processorVars, batchVars,
      barrierVars, producerVars, writerVars, ProcessPoison

LEMMA RouteAndPublishType ==
    ASSUME TypeOK, RouteAndPublish
    PROVE  TypeOK'
<1> DEFINE r == Head(todo)
           l == LaneOf(r)
<1>1. r \in Records /\ todo' \in Seq(Records) /\ ppc' = "event"
  BY HeadTodo DEF RouteAndPublish, TypeOK, ProcessorTypeOK
<1>2. batchMax' \in Hwms /\ processed' \in Hwms /\ signalRequired' \in Hwms
  BY <1>1, RaiseType DEF RouteAndPublish, TypeOK, ProcessorTypeOK, SharedTypeOK
<1>3. laneQ' \in [Lanes -> Seq(Items)]
  <2>1. CASE Accepted(r)
    BY <2>1, <1>1, NewItemType, LaneOfType, AppendType DEF Accepted, TypeOK, WriterTypeOK
  <2>2. CASE Refused(r)
    BY <2>2 DEF Refused, TypeOK, WriterTypeOK
  <2> QED BY <2>1, <2>2 DEF RouteAndPublish
<1>4. \E gone \in SUBSET {r} : Publish(r, gone)
  BY DEF RouteAndPublish
<1>5. /\ outbox' \in SUBSET Records
      /\ dlqOutbox' \in SUBSET Records
      /\ excused' \in [Causes -> SUBSET Records]
      /\ budget' \in [Faults -> Nat]
  BY <1>1, <1>4, PublishType
<1>6. failed' \in BOOLEAN
  BY DEF RouteAndPublish, TypeOK, ProcessorTypeOK
<1> QED
  BY <1>1, <1>2, <1>3, <1>5, <1>6
  DEF RouteAndPublish, TypeOK, BrokerTypeOK, ConsumerTypeOK, ProcessorTypeOK, SharedTypeOK,
      WriterTypeOK, GhostTypeOK, brokerVars, consumerVars, barrierVars, writerVars

LEMMA EndBatchType ==
    ASSUME EndBatch
    PROVE  ProcessorTypeOK'
<1>1. todo' \in Seq(Records) /\ errorsBefore' \in Nat
  BY DEF EndBatch
<1>2. failed' \in BOOLEAN /\ shouldCommit' \in BOOLEAN
  BY Zenon DEF EndBatch
<1> QED
  BY <1>1, <1>2, NoHwmType, NoEnvelopeType DEF EndBatch, ProcessorTypeOK

LEMMA CommitMergedType ==
    ASSUME TypeOK, CommitMergedOffsets
    PROVE  committed' \in [Partitions -> 0 .. LogEnd]
BY CommitToType DEF CommitMergedOffsets, TypeOK, BrokerTypeOK

LEMMA BatchEndType ==
    ASSUME TypeOK, CommitBatch \/ CommitRaises \/ DeclineBatch
    PROVE  TypeOK'
<1>1. ProcessorTypeOK'
  BY EndBatchType DEF CommitBatch, CommitRaises, DeclineBatch
<1>2. BrokerTypeOK'
  BY CommitMergedType
  DEF CommitBatch, CommitRaises, DeclineBatch, TypeOK, BrokerTypeOK, brokerVars
<1>3. GhostTypeOK'
  <2>1. EnvelopeRecords(cur) \in SUBSET Records
    BY EnvelopeRecordsType DEF TypeOK, ProcessorTypeOK
  <2>2. Excuse("declined", EnvelopeRecords(cur)) \in [Causes -> SUBSET Records]
    BY <2>1, ExcuseType DEF TypeOK, GhostTypeOK, Causes
  <2> QED
    BY <2>2, SpendType
    DEF CommitBatch, CommitRaises, DeclineBatch, TypeOK, GhostTypeOK, Faults
<1>4. ConsumerTypeOK' /\ SharedTypeOK' /\ WriterTypeOK'
  BY DEF CommitBatch, CommitRaises, DeclineBatch, TypeOK, ConsumerTypeOK, SharedTypeOK,
         WriterTypeOK, consumerVars, barrierVars, producerVars, writerVars
<1> QED BY <1>1, <1>2, <1>3, <1>4 DEF TypeOK

LEMMA ProcessorType ==
    ASSUME TypeOK, ProcessorStep
    PROVE  TypeOK'
<1> USE DEF TypeOK, BrokerTypeOK, ConsumerTypeOK, ProcessorTypeOK, SharedTypeOK,
      WriterTypeOK, GhostTypeOK, brokerVars, consumerVars, processorVars, batchVars,
      barrierVars, producerVars, writerVars
<1>1. CASE StartEvent
  BY <1>1 DEF StartEvent
<1>2. CASE FlushAndEvaluate
  <2>1. shouldCommit' \in BOOLEAN
    BY <1>2, Zenon DEF FlushAndEvaluate, EvaluateBatchCommit
  <2> QED BY <1>2, <2>1 DEF FlushAndEvaluate
<1>3. CASE AwaitNoise
  <2>1. shouldCommit' \in BOOLEAN
    BY <1>3, Zenon DEF AwaitNoise
  <2> QED BY <1>3, <2>1 DEF AwaitNoise
<1>4. CASE AwaitSignal
  <2>1. shouldCommit' \in BOOLEAN
    BY <1>4, Zenon DEF AwaitSignal
  <2> QED BY <1>4, <2>1 DEF AwaitSignal
<1> QED
  BY <1>1, <1>2, <1>3, <1>4, TakeEnvelopeType, SkipRevokedType, ProcessPoisonType,
     RouteAndPublishType, BatchEndType
  DEF ProcessorStep

(***************************************************************************)
(* The producer and the writer threads.                                    *)
(***************************************************************************)
LEMMA ProducerType ==
    ASSUME TypeOK, ProducerStep
    PROVE  TypeOK'
<1>1. PICK r \in Records : Deliver(r) \/ DlqDeliver(r)
  BY DEF ProducerStep
<1>2. CASE Deliver(r)
  BY <1>2 DEF TypeOK, BrokerTypeOK, ConsumerTypeOK, ProcessorTypeOK, SharedTypeOK,
      WriterTypeOK, GhostTypeOK, brokerVars, consumerVars, processorVars, batchVars,
      barrierVars, producerVars, writerVars, Deliver
<1>3. CASE DlqDeliver(r)
  BY <1>3 DEF TypeOK, BrokerTypeOK, ConsumerTypeOK, ProcessorTypeOK, SharedTypeOK,
      WriterTypeOK, GhostTypeOK, brokerVars, consumerVars, processorVars, batchVars,
      barrierVars, producerVars, writerVars, DlqDeliver
<1> QED BY <1>1, <1>2, <1>3

LEMMA WriterGetType ==
    ASSUME TypeOK, NEW l \in Lanes, WriterGet(l)
    PROVE  TypeOK'
<1>1. Head(laneQ[l]) \in Items /\ laneQ' \in [Lanes -> Seq(Items)]
  BY TailType DEF WriterGet, TypeOK, WriterTypeOK
<1>2. wBatch' \in [Lanes -> Seq(Items)]
  BY <1>1, AppendType DEF WriterGet, TypeOK, WriterTypeOK
<1> QED
  BY <1>1, <1>2 DEF TypeOK, BrokerTypeOK, ConsumerTypeOK, ProcessorTypeOK, SharedTypeOK,
      WriterTypeOK, GhostTypeOK, brokerVars, consumerVars, processorVars, batchVars,
      barrierVars, producerVars, writerVars, WriterGet

LEMMA WriterWriteType ==
    ASSUME TypeOK, NEW l \in Lanes, WriterWrite(l)
    PROVE  TypeOK'
<1>1. wBatch' \in [Lanes -> Seq(Items)]
  BY EmptyType DEF WriterWrite, TypeOK, WriterTypeOK
<1>2. BatchRecords(wBatch[l]) \in SUBSET Records
  BY BatchRecordsType DEF TypeOK, WriterTypeOK
<1>3. noiseHwm' \in Hwms /\ signalHwm' \in Hwms
  BY DEF WriterWrite, RecordNoisePersisted, RecordSignalPersisted, TypeOK, SharedTypeOK
<1> QED
  BY <1>1, <1>2, <1>3 DEF TypeOK, BrokerTypeOK, ConsumerTypeOK, ProcessorTypeOK, SharedTypeOK,
      WriterTypeOK, GhostTypeOK, brokerVars, consumerVars, processorVars, batchVars,
      barrierVars, producerVars, writerVars, WriterWrite

LEMMA RequeueOrDlqType ==
    ASSUME TypeOK, NEW l \in Lanes, RequeueOrDlq(l)
    PROVE  TypeOK'
<1> DEFINE item == Head(wBatch[l])
           again == [item EXCEPT !.retry = @ + 1]
<1>1. item \in Items /\ wBatch' \in [Lanes -> Seq(Items)]
  BY TailType DEF RequeueOrDlq, TypeOK, WriterTypeOK
<1>2. item.rec \in Records
  BY <1>1 DEF Items
<1>3. wpc' \in [Lanes -> {"collect", "requeue"}]
  BY DEF RequeueOrDlq, TypeOK, WriterTypeOK
<1>4. /\ laneQ' \in [Lanes -> Seq(Items)]
      /\ dlqOutbox' \in SUBSET Records
      /\ excused' \in [Causes -> SUBSET Records]
      /\ budget' \in [Faults -> Nat]
  <2>1. CASE SendToDlq(item.rec) /\ UNCHANGED laneQ
    BY <2>1, <1>2, SendToDlqType DEF TypeOK, WriterTypeOK
  <2>2. CASE /\ item.retry < MaxRetries
             /\ laneQ' = [laneQ EXCEPT ![l] = Append(@, again)]
             /\ excused' = Excuse("requeued", IF item.sc THEN {item.rec} ELSE {})
             /\ UNCHANGED <<dlqOutbox, budget>>
    <3>1. again \in Items
      <4>1. item.retry + 1 \in 0 .. MaxRetries
        BY <1>1, <2>2, ForwarderAssumption DEF Items
      <4> HIDE DEF item
      <4> QED BY <1>1, <4>1 DEF Items
    <3>2. laneQ' \in [Lanes -> Seq(Items)]
      BY <2>2, <3>1, AppendType DEF TypeOK, WriterTypeOK
    <3>3. excused' \in [Causes -> SUBSET Records]
      BY <2>2, <1>2, ExcuseType DEF TypeOK, GhostTypeOK, Causes
    <3> QED BY <2>2, <3>2, <3>3 DEF TypeOK, SharedTypeOK, GhostTypeOK
  <2>3. CASE /\ excused' = Excuse("dropped", {item.rec})
             /\ UNCHANGED <<laneQ, dlqOutbox, budget>>
    <3>1. excused' \in [Causes -> SUBSET Records]
      BY <2>3, <1>2, ExcuseType DEF TypeOK, GhostTypeOK, Causes
    <3> QED BY <2>3, <3>1 DEF TypeOK, SharedTypeOK, WriterTypeOK, GhostTypeOK
  <2> QED BY <2>1, <2>2, <2>3 DEF RequeueOrDlq
<1> QED
  BY <1>1, <1>3, <1>4
  DEF RequeueOrDlq, TypeOK, BrokerTypeOK, ConsumerTypeOK, ProcessorTypeOK, SharedTypeOK,
      WriterTypeOK, GhostTypeOK, brokerVars, consumerVars, processorVars, batchVars,
      barrierVars

(***************************************************************************)
(* The faults.                                                             *)
(***************************************************************************)
LEMMA FetchErrorType ==
    ASSUME TypeOK, FetchError
    PROVE  TypeOK'
<1>1. budget' \in [Faults -> Nat]
  BY SpendType DEF FetchError, TypeOK, GhostTypeOK, Faults
<1>2. env' \in Envelopes
  BY DEF FetchError, TypeOK, ConsumerTypeOK, Envelopes
<1> QED
  BY <1>1, <1>2 DEF TypeOK, BrokerTypeOK, ConsumerTypeOK, ProcessorTypeOK, SharedTypeOK,
      WriterTypeOK, GhostTypeOK, brokerVars, consumerVars, processorVars, batchVars,
      barrierVars, producerVars, writerVars, FetchError

LEMMA HeartbeatPollType ==
    ASSUME TypeOK, NEW p \in Partitions, HeartbeatPoll(p)
    PROVE  TypeOK'
<1>1. budget' \in [Faults -> Nat]
  BY SpendType DEF HeartbeatPoll, TypeOK, GhostTypeOK, Faults
<1>2. <<p, position[p]>> \in Records /\ position' \in [Partitions -> 0 .. LogEnd]
  BY ForwarderAssumption DEF HeartbeatPoll, TypeOK, ConsumerTypeOK, Records, Offsets
<1>3. excused' \in [Causes -> SUBSET Records]
  BY <1>2, ExcuseType DEF HeartbeatPoll, TypeOK, GhostTypeOK, Causes
<1> QED
  BY <1>1, <1>2, <1>3 DEF TypeOK, BrokerTypeOK, ConsumerTypeOK, ProcessorTypeOK, SharedTypeOK,
      WriterTypeOK, GhostTypeOK, brokerVars, consumerVars, processorVars, batchVars,
      barrierVars, producerVars, writerVars, HeartbeatPoll

LEMMA OnRevokeType ==
    ASSUME TypeOK, NEW P \in SUBSET Partitions, OnRevoke(P)
    PROVE  TypeOK'
<1> DEFINE target == CommitTo(processed, P)
<1>1. budget' \in [Faults -> Nat]
  BY SpendType DEF OnRevoke, CommitProcessed, TypeOK, GhostTypeOK, Faults
<1>2. target \in [Partitions -> 0 .. LogEnd]
  BY CommitToType DEF TypeOK, BrokerTypeOK, SharedTypeOK
<1>3. Excuse("handover", Below(target) \ Below(committed)) \in [Causes -> SUBSET Records]
  BY ExcuseType DEF TypeOK, GhostTypeOK, Causes, Below
<1>4. /\ committed' \in [Partitions -> 0 .. LogEnd]
      /\ excused' \in [Causes -> SUBSET Records]
  BY <1>2, <1>3 DEF OnRevoke, CommitProcessed, TypeOK, BrokerTypeOK, GhostTypeOK
<1> QED
  BY <1>1, <1>4
  DEF OnRevoke, CommitProcessed, TypeOK, BrokerTypeOK, ConsumerTypeOK, ProcessorTypeOK, SharedTypeOK,
      WriterTypeOK, GhostTypeOK, processorVars, batchVars, barrierVars, producerVars,
      writerVars

LEMMA DeliveryFailsType ==
    ASSUME TypeOK, NEW r \in Records, DeliveryFails(r) \/ DlqDeliveryFails(r)
    PROVE  TypeOK'
<1>1. budget' \in [Faults -> Nat]
  BY SpendType DEF DeliveryFails, DlqDeliveryFails, TypeOK, GhostTypeOK, Faults
<1>2. excused' \in [Causes -> SUBSET Records]
  BY ExcuseType DEF DeliveryFails, DlqDeliveryFails, TypeOK, GhostTypeOK, Causes
<1>3. CASE DeliveryFails(r)
  BY <1>1, <1>2, <1>3 DEF TypeOK, BrokerTypeOK, ConsumerTypeOK, ProcessorTypeOK, SharedTypeOK,
      WriterTypeOK, GhostTypeOK, brokerVars, consumerVars, processorVars, batchVars,
      barrierVars, producerVars, writerVars, DeliveryFails
<1>4. CASE DlqDeliveryFails(r)
  BY <1>1, <1>2, <1>4 DEF TypeOK, BrokerTypeOK, ConsumerTypeOK, ProcessorTypeOK, SharedTypeOK,
      WriterTypeOK, GhostTypeOK, brokerVars, consumerVars, processorVars, batchVars,
      barrierVars, producerVars, writerVars, DlqDeliveryFails
<1> QED BY <1>3, <1>4

LEMMA WriteFailsType ==
    ASSUME TypeOK, NEW l \in Lanes, WriteFails(l)
    PROVE  TypeOK'
<1>1. budget' \in [Faults -> Nat]
  BY SpendType DEF WriteFails, TypeOK, GhostTypeOK, Faults
<1>2. pg' \in SUBSET Records
  BY BatchRecordsType DEF WriteFails, TypeOK, BrokerTypeOK, WriterTypeOK
<1> QED
  BY <1>1, <1>2 DEF TypeOK, BrokerTypeOK, ConsumerTypeOK, ProcessorTypeOK, SharedTypeOK,
      WriterTypeOK, GhostTypeOK, brokerVars, consumerVars, processorVars, batchVars,
      barrierVars, producerVars, writerVars, WriteFails

LEMMA CrashType ==
    ASSUME TypeOK, Crash
    PROVE  TypeOK'
<1> USE ForwarderAssumption, NoHwmType, NoEnvelopeType DEF Crash, TypeOK
<1>1. budget' \in [Faults -> Nat]
  BY SpendType DEF GhostTypeOK, Faults
<1>2. BrokerTypeOK' /\ GhostTypeOK'
  BY <1>1 DEF BrokerTypeOK, GhostTypeOK, brokerVars
<1>3. ConsumerTypeOK'
  BY DEF ConsumerTypeOK
<1>4. ProcessorTypeOK'
  <2>1. todo' \in Seq(Records) /\ errorsBefore' \in Nat
    BY SMT
  <2>2. failed' \in BOOLEAN /\ shouldCommit' \in BOOLEAN
    BY Zenon
  <2> QED BY <2>1, <2>2 DEF ProcessorTypeOK
<1>5. SharedTypeOK' /\ WriterTypeOK'
  BY DEF SharedTypeOK, WriterTypeOK, Lanes
<1> QED BY <1>2, <1>3, <1>4, <1>5

-----------------------------------------------------------------------------
LEMMA StutterType ==
    ASSUME TypeOK, UNCHANGED vars
    PROVE  TypeOK'
BY DEF TypeOK, BrokerTypeOK, ConsumerTypeOK, ProcessorTypeOK, SharedTypeOK,
      WriterTypeOK, GhostTypeOK, brokerVars, consumerVars, processorVars, batchVars,
      barrierVars, producerVars, writerVars, vars

LEMMA NextType ==
    ASSUME TypeOK, [Next]_vars
    PROVE  TypeOK'
<1>1. ASSUME NEW l \in Lanes, WriterStep(l) PROVE TypeOK'
  BY <1>1, WriterGetType, WriterWriteType, RequeueOrDlqType DEF WriterStep
<1>2. CASE FaultStep
  BY <1>2, FetchErrorType, HeartbeatPollType, OnRevokeType, BatchEndType, DeliveryFailsType,
     WriteFailsType, CrashType DEF FaultStep
<1>3. CASE Quiescent \/ UNCHANGED vars
  BY <1>3, StutterType DEF Quiescent
<1> QED
  BY <1>1, <1>2, <1>3, ConsumerType, ProcessorType, ProducerType, RebalanceType DEF Next

(***************************************************************************)
(* Type correctness: in every behaviour every variable keeps its type; in  *)
(* particular no mark or committed offset leaves the log, and no item is   *)
(* requeued more than _WRITER_MAX_RETRIES times.                           *)
(***************************************************************************)
THEOREM TypeCorrect == Spec => []TypeOK
<1>1. TypeOK /\ [Next]_vars => TypeOK'
  BY NextType
<1> QED BY InitType, <1>1, PTL DEF Spec

-----------------------------------------------------------------------------
(***************************************************************************)
(* The ledger.  Settled and Excused only grow: what is durable stays       *)
(* durable, what is booked stays booked.                                   *)
(***************************************************************************)
LEMMA ExcuseGrows ==
    ASSUME TypeOK, NEW c \in Causes, NEW S
    PROVE  /\ \A d \in Causes : excused[d] \subseteq Excuse(c, S)[d]
           /\ S \subseteq Excuse(c, S)[c]
BY DEF Excuse, TypeOK, GhostTypeOK

BookKept == \A d \in Causes : excused[d] \subseteq excused'[d]

LEMMA SendToDlqBooks ==
    ASSUME TypeOK, NEW r, SendToDlq(r)
    PROVE  /\ BookKept
           /\ dlqOutbox \subseteq dlqOutbox'
           /\ r \in dlqOutbox' \/ r \in excused'["unpublished"]
<1>1. "unpublished" \in Causes
  BY DEF Causes
<1> QED BY <1>1, ExcuseGrows DEF SendToDlq, BookKept

LEMMA PublishBooks ==
    ASSUME TypeOK, NEW r, NEW gone, Publish(r, gone)
    PROVE  /\ BookKept
           /\ outbox \subseteq outbox' /\ dlqOutbox \subseteq dlqOutbox'
           /\ r \in outbox' \cup dlqOutbox' \/ r \in excused'["unpublished"]
<1>1. "unpublished" \in Causes /\ "dropped" \in Causes
  BY DEF Causes
<1>2. \A d \in Causes : excused[d] \subseteq Excuse("dropped", gone)[d]
  BY <1>1, ExcuseGrows
<1>3. DOMAIN Excuse("dropped", gone) = Causes
  BY DEF Excuse, TypeOK, GhostTypeOK
<1> QED BY <1>1, <1>2, <1>3 DEF Publish, BookKept

LEMMA ExcusedGrows ==
    ASSUME BookKept
    PROVE  /\ Excused \subseteq Excused'
           /\ \A d \in Causes : excused'[d] \subseteq Excused'
BY DEF BookKept, Excused

(***************************************************************************)
(* Every step but a crash or a failed delivery keeps what the producer     *)
(* holds in hand, or turns it into something durable or booked.            *)
(***************************************************************************)
LEMMA LedgerStep ==
    ASSUME TypeOK, [Next]_vars
    PROVE  /\ BookKept
           /\ topics \subseteq topics' /\ dlq \subseteq dlq' /\ pg \subseteq pg'
           /\ \/ Crash
              \/ \E r \in Records : DeliveryFails(r)
              \/ /\ outbox \subseteq outbox' \cup topics'
                 /\ dlqOutbox \subseteq dlqOutbox' \cup dlq' \cup excused'["unpublished"]
                 /\ deliveryErrors' = deliveryErrors
<1> DEFINE Goal ==
        /\ BookKept
        /\ topics \subseteq topics' /\ dlq \subseteq dlq' /\ pg \subseteq pg'
        /\ outbox \subseteq outbox' \cup topics'
        /\ dlqOutbox \subseteq dlqOutbox' \cup dlq' \cup excused'["unpublished"]
        /\ deliveryErrors' = deliveryErrors
<1> USE DEF brokerVars, consumerVars, processorVars, batchVars, barrierVars, producerVars,
            writerVars
<1>1. CASE UNCHANGED vars \/ Quiescent
  BY <1>1 DEF vars, Quiescent, BookKept
<1>2. CASE ConsumerStep \/ Rebalance
  BY <1>2 DEF ConsumerStep, Rebalance, Fetch, FinishSplit, PutEnvelope, PauseOnFull,
              ResumeAfterDrain, OnAssign, BookKept
<1>3. CASE TakeEnvelope \/ StartEvent \/ FlushAndEvaluate \/ AwaitNoise \/ AwaitSignal
           \/ CommitBatch \/ CommitRaises
  BY <1>3 DEF TakeEnvelope, StartEvent, FlushAndEvaluate, AwaitNoise, AwaitSignal,
              CommitBatch, CommitRaises, BookKept
<1>4. CASE SkipRevoked \/ DeclineBatch
  BY <1>4, ExcuseGrows DEF SkipRevoked, DeclineBatch, BookKept, Causes
<1>5. CASE ProcessPoison
  <2>1. SendToDlq(Head(todo))
    BY <1>5 DEF ProcessPoison
  <2> QED BY <1>5, <2>1, SendToDlqBooks DEF ProcessPoison
<1>6. CASE RouteAndPublish
  <2>1. \E gone : Publish(Head(todo), gone)
    BY <1>6 DEF RouteAndPublish
  <2> QED BY <1>6, <2>1, PublishBooks DEF RouteAndPublish
<1>7. CASE ProducerStep
  BY <1>7 DEF ProducerStep, Deliver, DlqDeliver, BookKept
<1>8. ASSUME NEW l \in Lanes, WriterStep(l) PROVE Goal
  <2>1. CASE WriterGet(l) \/ WriterWrite(l)
    BY <2>1 DEF WriterGet, WriterWrite, BookKept
  <2>2. CASE RequeueOrDlq(l)
    <3>1. CASE SendToDlq(Head(wBatch[l]).rec)
      BY <2>2, <3>1, SendToDlqBooks DEF RequeueOrDlq
    <3>2. CASE \E c \in Causes : \E S : excused' = Excuse(c, S) /\ UNCHANGED dlqOutbox
      BY <2>2, <3>2, ExcuseGrows DEF RequeueOrDlq, BookKept
    <3> QED BY <2>2, <3>1, <3>2 DEF RequeueOrDlq, Causes
  <2> QED BY <1>8, <2>1, <2>2 DEF WriterStep
<1>9. CASE FetchError \/ \E l \in Lanes : WriteFails(l)
  BY <1>9 DEF FetchError, WriteFails, BookKept
<1>10. ASSUME NEW p \in Partitions, HeartbeatPoll(p) PROVE Goal
  BY <1>10, ExcuseGrows DEF HeartbeatPoll, BookKept, Causes
<1>11. ASSUME NEW P \in SUBSET Partitions, OnRevoke(P) PROVE Goal
  BY <1>11, ExcuseGrows DEF OnRevoke, CommitProcessed, BookKept, Causes
<1>12. ASSUME NEW r \in Records, DlqDeliveryFails(r) PROVE Goal
  BY <1>12, ExcuseGrows DEF DlqDeliveryFails, BookKept, Causes
<1>13. CASE Crash \/ \E r \in Records : DeliveryFails(r)
  BY <1>13 DEF Crash, DeliveryFails, BookKept
<1> QED
  BY <1>1, <1>2, <1>3, <1>4, <1>5, <1>6, <1>7, <1>8, <1>9, <1>10, <1>11, <1>12, <1>13
  DEF Next, ProcessorStep, FaultStep

LEMMA InHandStep ==
    ASSUME TypeOK, [Next]_vars
    PROVE  /\ Settled \cup Excused \subseteq Settled' \cup Excused'
           /\ \/ Crash
              \/ \E r \in Records : DeliveryFails(r)
              \/ InHand \subseteq InHand' /\ deliveryErrors' = deliveryErrors
<1>1. Excused \subseteq Excused' /\ excused'["unpublished"] \subseteq Excused'
  BY LedgerStep, ExcusedGrows DEF Causes
<1> QED BY <1>1, LedgerStep DEF InHand, Settled

-----------------------------------------------------------------------------
(***************************************************************************)
(* The batch in hand.  BatchInv is the inductive strengthening of          *)
(* CommitCoversBatch: until the flush, a message already processed is in   *)
(* the producer's hands, durable or booked, unless a delivery has failed   *)
(* since the batch began; after the flush, nothing is left in its hands.   *)
(***************************************************************************)
LEMMA InitBatch == Init => BatchInv
BY DEF Init, ColdStart, BatchInv

LEMMA HeadTailRange ==
    ASSUME NEW S, NEW s \in Seq(S), s # <<>>
    PROVE  SeqRange(s) \subseteq {Head(s)} \cup SeqRange(Tail(s))
<1> SUFFICES ASSUME NEW i \in DOMAIN s, i # 1
             PROVE  s[i] \in SeqRange(Tail(s))
  BY DEF SeqRange
<1>1. i - 1 \in DOMAIN Tail(s) /\ Tail(s)[i - 1] = s[i]
  OBVIOUS
<1> QED BY <1>1 DEF SeqRange

(***************************************************************************)
(* The steps that process one message of the batch put it in hand.         *)
(***************************************************************************)
LEMMA EventInHand ==
    ASSUME TypeOK, SkipRevoked \/ ProcessPoison \/ RouteAndPublish
    PROVE  /\ SeqRange(todo) \subseteq SeqRange(todo') \cup InHand'
           /\ InHand \subseteq InHand'
           /\ cur' = cur /\ errorsBefore' = errorsBefore /\ deliveryErrors' = deliveryErrors
           /\ ppc' = "event" /\ ppc \in {"event", "route"}
<1> DEFINE r == Head(todo)
<1>1. todo # <<>> /\ todo' = Tail(todo)
  BY DEF SkipRevoked, ProcessPoison, RouteAndPublish, TypeOK, ProcessorTypeOK
<1>2. SeqRange(todo) \subseteq {r} \cup SeqRange(todo')
  BY <1>1, HeadTailRange DEF TypeOK, ProcessorTypeOK
<1>3. ppc' = "event" /\ ppc \in {"event", "route"}
  BY DEF SkipRevoked, ProcessPoison, RouteAndPublish
<1>4. r \in InHand'
  <2>1. CASE SkipRevoked
    BY <2>1, ExcuseGrows DEF SkipRevoked, InHand, Excused, Causes
  <2>2. CASE ProcessPoison
    <3>1. SendToDlq(r)
      BY <2>2 DEF ProcessPoison
    <3> QED BY <3>1, SendToDlqBooks DEF InHand, Excused, Causes
  <2>3. CASE RouteAndPublish
    <3>1. \E gone : Publish(r, gone)
      BY <2>3 DEF RouteAndPublish
    <3> QED BY <3>1, PublishBooks DEF InHand, Excused, Causes
  <2> QED BY <2>1, <2>2, <2>3
<1>5. [Next]_vars
  BY DEF Next, ProcessorStep
<1>6. ~ Crash
  BY <1>3 DEF Crash
<1>7. deliveryErrors' = deliveryErrors
  BY DEF SkipRevoked, ProcessPoison, RouteAndPublish, producerVars
<1>8. ~ \E q \in Records : DeliveryFails(q)
  BY <1>7 DEF DeliveryFails, TypeOK, SharedTypeOK
<1>9. cur' = cur /\ errorsBefore' = errorsBefore
  BY DEF SkipRevoked, ProcessPoison, RouteAndPublish
<1> QED BY <1>2, <1>3, <1>4, <1>5, <1>6, <1>7, <1>8, <1>9, InHandStep

LEMMA BatchStep ==
    ASSUME TypeOK, BatchInv, [Next]_vars
    PROVE  BatchInv'
<1>1. Settled \cup Excused \subseteq Settled' \cup Excused'
  BY InHandStep
<1>2. CASE UNCHANGED processorVars /\ ~ \E r \in Records : DeliveryFails(r)
  <2>1. CASE Crash
    BY <2>1 DEF Crash, BatchInv
  <2>2. CASE ~ Crash
    <3>1. InHand \subseteq InHand' /\ deliveryErrors' = deliveryErrors
      BY <1>2, <2>2, InHandStep
    <3> QED BY <1>1, <1>2, <3>1 DEF BatchInv, processorVars, batchVars
  <2> QED BY <2>1, <2>2
<1>3. ASSUME NEW r \in Records, DeliveryFails(r) PROVE BatchInv'
  BY <1>1, <1>3
  DEF DeliveryFails, BatchInv, TypeOK, SharedTypeOK, ProcessorTypeOK, processorVars, batchVars
<1>4. CASE TakeEnvelope
  <2>1. cur' = Head(recordQ) /\ todo' = cur'.msgs /\ ppc' = "event"
    BY <1>4 DEF TakeEnvelope
  <2>2. errorsBefore' = deliveryErrors' /\ errorsBefore' \in Nat
    BY <1>4 DEF TakeEnvelope, producerVars, TypeOK, SharedTypeOK
  <2> QED BY <2>1, <2>2 DEF BatchInv
<1>5. CASE SkipRevoked \/ ProcessPoison \/ RouteAndPublish
  BY <1>5, EventInHand DEF BatchInv
<1>6. CASE StartEvent
  <2>1. InHand' = InHand
    BY <1>6 DEF StartEvent, InHand, Settled, Excused, brokerVars, producerVars
  <2> QED BY <1>6, <2>1 DEF StartEvent, BatchInv, batchVars, producerVars
<1>7. CASE FlushAndEvaluate
  <2>1. SeqRange(todo) = {}
    BY <1>7 DEF FlushAndEvaluate, SeqRange
  <2> QED BY <1>1, <1>7, <2>1 DEF FlushAndEvaluate, EvaluateBatchCommit, BatchInv, InHand
<1>8. CASE AwaitNoise \/ AwaitSignal
  BY <1>1, <1>8 DEF AwaitNoise, AwaitSignal, BatchInv
<1>9. CASE CommitBatch \/ CommitRaises \/ DeclineBatch
  BY <1>9 DEF CommitBatch, CommitRaises, DeclineBatch, EndBatch, BatchInv
<1>10. CASE Crash
  BY <1>10 DEF Crash, BatchInv
<1>11. \/ UNCHANGED processorVars
       \/ \E r \in Records : DeliveryFails(r)
       \/ ProcessorStep \/ CommitRaises \/ Crash
  BY DEF Next, ConsumerStep, Fetch, FinishSplit, PutEnvelope, PauseOnFull, ResumeAfterDrain,
         ProducerStep, Deliver, DlqDeliver, Rebalance, OnAssign, WriterStep, WriterGet,
         WriterWrite, RequeueOrDlq, FaultStep, FetchError, HeartbeatPoll, OnRevoke, CommitProcessed,
         DlqDeliveryFails, WriteFails, Quiescent, vars
<1> QED
  BY <1>2, <1>3, <1>4, <1>5, <1>6, <1>7, <1>8, <1>9, <1>10, <1>11 DEF ProcessorStep

(***************************************************************************)
(* A batch is committed only when every message of it is durable or        *)
(* booked, for any batch size, any queue capacities and any number of      *)
(* faults.                                                                 *)
(***************************************************************************)
THEOREM BatchCovered == Spec => []CommitCoversBatch
<1>1. TypeOK /\ BatchInv /\ [Next]_vars => BatchInv'
  BY BatchStep
<1>2. BatchInv => CommitCoversBatch
  BY DEF BatchInv, CommitCoversBatch
<1> QED BY InitBatch, TypeCorrect, <1>1, <1>2, PTL DEF Spec

-----------------------------------------------------------------------------
(***************************************************************************)
(* The pipeline's variables keep their types.  Most steps of Lifecycle are *)
(* steps of Forwarder or leave its variables alone; the others follow.     *)
(***************************************************************************)
TypeParts == TypeOK /\ LifecycleTypeOK

LEMMA LifecycleInitType == LifecycleInit => TypeParts
BY InitType, NoHwmType
   DEF LifecycleInit, LifecycleTypeOK, TypeParts, Threads, Init, ColdStart

LEMMA ConsumerLoopType ==
    ASSUME TypeParts, ConsumerLoop
    PROVE  TypeOK'
<1>1. CASE PauseForPressure \/ RelievePressure \/ EnterConsume \/ ConsumeNothing
  BY <1>1, StutterType
  DEF PauseForPressure, RelievePressure, EnterConsume, ConsumeNothing, TypeParts
<1>2. CASE \E p \in Partitions : ConsumeNext(p)
  BY <1>2, NextType DEF ConsumeNext, Next, ConsumerStep, TypeParts
<1>3. CASE SplitDone \/ PutFirst \/ PauseForRoom
  BY <1>3, NextType DEF SplitDone, PutFirst, PauseForRoom, Next, ConsumerStep, TypeParts
<1>4. CASE LeaveDrainWait
  <2>1. BrokerTypeOK' /\ ConsumerTypeOK'
    BY <1>4 DEF LeaveDrainWait, TypeParts, TypeOK, BrokerTypeOK, ConsumerTypeOK, brokerVars
  <2>2. ProcessorTypeOK'
    BY <1>4 DEF LeaveDrainWait, TypeParts, TypeOK, ProcessorTypeOK, processorVars, batchVars
  <2>3. SharedTypeOK' /\ WriterTypeOK' /\ GhostTypeOK'
    BY <1>4
    DEF LeaveDrainWait, TypeParts, TypeOK, SharedTypeOK, WriterTypeOK, GhostTypeOK, barrierVars,
        producerVars, writerVars
  <2> QED BY <2>1, <2>2, <2>3 DEF TypeOK
<1>5. CASE PutAgain
  <2>1. excused' \in [Causes -> SUBSET Records]
    <3>1. env \in Envelopes /\ excused \in [Causes -> SUBSET Records] /\ "dropped" \in Causes
      BY DEF TypeParts, TypeOK, ConsumerTypeOK, GhostTypeOK, Causes
    <3>2. excused' = excused \/ excused' = Excuse("dropped", EnvelopeRecords(env))
      BY <1>5 DEF PutAgain
    <3> QED BY <3>1, <3>2, ExcuseType, EnvelopeRecordsType
  <2>2. recordQ' \in Seq(Envelopes) /\ env' \in Envelopes
    BY <1>5, NoEnvelopeType DEF PutAgain, TypeParts, TypeOK, ConsumerTypeOK
  <2> QED
    BY <1>5, <2>1, <2>2
    DEF PutAgain, TypeParts, TypeOK, BrokerTypeOK, ConsumerTypeOK, ProcessorTypeOK,
        SharedTypeOK, WriterTypeOK, GhostTypeOK, brokerVars, processorVars, batchVars,
        barrierVars, producerVars, writerVars
<1>6. CASE ConsumerLeaves
  <2>1. recordQ' \in Seq(Envelopes)
    BY <1>6, NoEnvelopeType DEF ConsumerLeaves, TypeParts, TypeOK, ConsumerTypeOK
  <2> QED
    BY <1>6, <2>1
    DEF ConsumerLeaves, TypeParts, TypeOK, BrokerTypeOK, ConsumerTypeOK, ProcessorTypeOK,
        SharedTypeOK, WriterTypeOK, GhostTypeOK, brokerVars, consumerVars, processorVars,
        batchVars, barrierVars, producerVars, writerVars
<1> QED BY <1>1, <1>2, <1>3, <1>4, <1>5, <1>6 DEF ConsumerLoop

LEMMA PollDiscardsType ==
    ASSUME TypeParts, NEW p \in Partitions, PollDiscards(p)
    PROVE  TypeOK'
<1>1. budget' \in [Faults -> Nat]
  BY SpendType DEF PollDiscards, TypeParts, TypeOK, GhostTypeOK, Faults
<1>2. position[p] \in Offsets
  BY ForwarderAssumption DEF PollDiscards, Fetchable, TypeParts, TypeOK, ConsumerTypeOK, Offsets
<1>3. excused' \in [Causes -> SUBSET Records]
  <2>1. {<<p, position[p]>>} \in SUBSET Records
    BY <1>2 DEF Records
  <2>2. Excuse("discarded", {<<p, position[p]>>}) \in [Causes -> SUBSET Records]
    BY <2>1, ExcuseType DEF TypeParts, TypeOK, GhostTypeOK, Causes
  <2> QED BY <2>2 DEF PollDiscards
<1>4. position' \in [Partitions -> 0 .. LogEnd]
  BY <1>2, ForwarderAssumption DEF PollDiscards, TypeParts, TypeOK, ConsumerTypeOK, Offsets
<1> QED
  BY <1>1, <1>3, <1>4
  DEF PollDiscards, TypeParts, TypeOK, BrokerTypeOK, ConsumerTypeOK, ProcessorTypeOK,
      SharedTypeOK, WriterTypeOK, GhostTypeOK, brokerVars, processorVars, batchVars,
      barrierVars, producerVars, writerVars

LEMMA ProcessorLeavesType ==
    ASSUME TypeParts, ProcessorLeaves
    PROVE  TypeOK'
<1>1. recordQ' \in Seq(Envelopes)
  BY DEF ProcessorLeaves, TypeParts, TypeOK, ConsumerTypeOK
<1> QED
  BY <1>1
  DEF ProcessorLeaves, TypeParts, TypeOK, BrokerTypeOK, ConsumerTypeOK, ProcessorTypeOK,
      SharedTypeOK, WriterTypeOK, GhostTypeOK, brokerVars, consumerVars, processorVars,
      batchVars, barrierVars, producerVars, writerVars

LEMMA MainType ==
    ASSUME TypeParts, MainStep
    PROVE  TypeOK'
<1>1. CASE JoinConsumer \/ JoinProcessor \/ JoinWriters
  <2>1. budget' \in [Faults -> Nat]
    BY <1>1, SpendType
    DEF JoinConsumer, JoinProcessor, JoinWriters, Join, TypeParts, TypeOK, GhostTypeOK, Faults
  <2> QED
    BY <1>1, <2>1
    DEF JoinConsumer, JoinProcessor, JoinWriters, Join, TypeParts, TypeOK, BrokerTypeOK,
        ConsumerTypeOK, ProcessorTypeOK, SharedTypeOK, WriterTypeOK, GhostTypeOK, brokerVars,
        consumerVars, processorVars, batchVars, barrierVars, producerVars, writerVars
<1>2. CASE FinalFlush
  BY <1>2, StutterType DEF FinalFlush, TypeParts
<1>3. CASE FinalCommit
  <2>1. committed' \in [Partitions -> 0 .. LogEnd]
    BY <1>3, CommitToType DEF FinalCommit, TypeParts, TypeOK, BrokerTypeOK, LifecycleTypeOK
  <2>2. excused' \in [Causes -> SUBSET Records]
    BY <1>3, ExcuseType DEF FinalCommit, TypeParts, TypeOK, GhostTypeOK, Causes, Below
  <2> QED
    BY <1>3, <2>1, <2>2
    DEF FinalCommit, TypeParts, TypeOK, BrokerTypeOK, ConsumerTypeOK, ProcessorTypeOK,
        SharedTypeOK, WriterTypeOK, GhostTypeOK, consumerVars, processorVars, batchVars,
        barrierVars, producerVars, writerVars
<1>4. CASE CloseConsumer
  <2> DEFINE target == CommitTo(processed, assigned)
  <2>1. target \in [Partitions -> 0 .. LogEnd]
    BY CommitToType DEF TypeParts, TypeOK, BrokerTypeOK, SharedTypeOK
  <2>2. Excuse("handover", Below(target) \ Below(committed)) \in [Causes -> SUBSET Records]
    BY ExcuseType DEF TypeParts, TypeOK, GhostTypeOK, Causes, Below
  <2>3. /\ committed' \in [Partitions -> 0 .. LogEnd]
        /\ excused' \in [Causes -> SUBSET Records]
    BY <1>4, <2>1, <2>2
    DEF CloseConsumer, CommitProcessed, TypeParts, TypeOK, BrokerTypeOK, GhostTypeOK
  <2> QED
    BY <1>4, <2>3
    DEF CloseConsumer, TypeParts, TypeOK, BrokerTypeOK, ConsumerTypeOK, ProcessorTypeOK,
        SharedTypeOK, WriterTypeOK, GhostTypeOK, processorVars, batchVars, barrierVars,
        producerVars, writerVars
<1> QED BY <1>1, <1>2, <1>3, <1>4 DEF MainStep

LEMMA PipelineType ==
    ASSUME TypeParts, [LifecycleNext]_lvars
    PROVE  TypeOK'
<1>1. CASE ProcessorRuns \/ ProducerRuns \/ \E P \in SUBSET Partitions : Assign(P)
  BY <1>1, NextType DEF ProcessorRuns, ProducerRuns, Assign, Rebalance, Next, TypeParts
<1>2. CASE \E l \in Lanes : WriterRuns(l)
  BY <1>2, NextType DEF WriterRuns, Next, TypeParts
<1>3. CASE \/ \E l \in Lanes : WriterLeaves(l)
           \/ RequestShutdown \/ Stopped \/ UNCHANGED lvars
  BY <1>3, StutterType DEF WriterLeaves, RequestShutdown, Stopped, lvars, TypeParts
<1> QED
  BY <1>1, <1>2, <1>3, ConsumerLoopType, ProcessorLeavesType, PollDiscardsType, MainType
  DEF LifecycleNext

-----------------------------------------------------------------------------
(***************************************************************************)
(* The loop's and main()'s own variables.  Only an assignment and the      *)
(* final close touch assigned, and neither leaves a pause outside it.      *)
(***************************************************************************)
LEMMA StoreOffsetType ==
    ASSUME TypeParts, NEW p \in Partitions, Fetchable(p), StoreOffset(p)
    PROVE  stored' \in Hwms
<1>1. position[p] \in Offsets
  BY ForwarderAssumption DEF Fetchable, TypeParts, TypeOK, ConsumerTypeOK, Offsets
<1> QED BY <1>1 DEF StoreOffset, TypeParts, LifecycleTypeOK, Hwms

LEMMA LoopVarsType ==
    ASSUME TypeParts, ConsumerLoop
    PROVE  LifecycleTypeOK'
<1> USE DEF TypeParts, LifecycleTypeOK
<1>1. CASE PauseForPressure
  BY <1>1 DEF PauseForPressure, vars, consumerVars, mainVars
<1>2. CASE RelievePressure
  BY <1>2 DEF RelievePressure, ResumeIfBelowHalf, vars, consumerVars, mainVars
<1>3. CASE EnterConsume \/ ConsumeNothing
  BY <1>3 DEF EnterConsume, ConsumeNothing, vars, consumerVars, mainVars
<1>4. ASSUME NEW p \in Partitions, ConsumeNext(p) PROVE LifecycleTypeOK'
  <2>1. stored' \in Hwms
    BY <1>4, StoreOffsetType DEF ConsumeNext
  <2> QED BY <1>4, <2>1 DEF ConsumeNext, Fetch, pauseVars, mainVars
<1>5. CASE SplitDone \/ PutFirst \/ PauseForRoom
  BY <1>5 DEF SplitDone, FinishSplit, PutFirst, PutEnvelope, PauseForRoom, PauseOnFull,
              lifeVars, pauseVars, mainVars
<1>6. CASE LeaveDrainWait \/ PutAgain
  BY <1>6 DEF LeaveDrainWait, PutAgain, mainVars
<1>7. CASE ConsumerLeaves
  BY <1>7 DEF ConsumerLeaves, consumerVars, pauseVars, mainVars
<1> QED BY <1>1, <1>2, <1>3, <1>4, <1>5, <1>6, <1>7 DEF ConsumerLoop

LEMMA ExitVarsType ==
    ASSUME TypeParts, MainStep
    PROVE  LifecycleTypeOK'
<1> USE DEF TypeParts, LifecycleTypeOK
<1>1. CASE JoinConsumer \/ JoinProcessor \/ JoinWriters
  <2>1. CASE JoinProcessor
    <3>1. processorStillAlive' = ("processor" \in alive)
      BY <2>1 DEF JoinProcessor
    <3>2. ("processor" \in alive) \in BOOLEAN
      OBVIOUS
    <3>3. /\ UNCHANGED <<consumerVars, pauseVars, stored, shutdown, alive>>
          /\ mpc' = "writers"
      BY <2>1 DEF JoinProcessor, Join
    <3>4. processorStillAlive' \in BOOLEAN
      BY <3>1, <3>2, Zenon
    <3> QED BY <3>3, <3>4 DEF consumerVars, pauseVars
  <2>2. CASE JoinConsumer \/ JoinWriters
    BY <2>2 DEF JoinConsumer, JoinWriters, Join, consumerVars, pauseVars
  <2> QED BY <1>1, <2>1, <2>2
<1>2. CASE FinalFlush
  BY <1>2 DEF FinalFlush, vars, consumerVars, pauseVars
<1>3. CASE FinalCommit
  BY <1>3 DEF FinalCommit, consumerVars, pauseVars
<1>4. CASE CloseConsumer
  BY <1>4 DEF CloseConsumer
<1> QED BY <1>1, <1>2, <1>3, <1>4 DEF MainStep

LEMMA LifeVarsType ==
    ASSUME TypeParts, [LifecycleNext]_lvars
    PROVE  LifecycleTypeOK'
<1> USE DEF TypeParts, LifecycleTypeOK
<1>1. CASE ProcessorRuns
  BY <1>1 DEF ProcessorRuns, ProcessorStep, TakeEnvelope, SkipRevoked, ProcessPoison, StartEvent,
              RouteAndPublish, FlushAndEvaluate, AwaitNoise, AwaitSignal, CommitBatch,
              DeclineBatch, consumerVars, lifeVars, pauseVars, mainVars
<1>2. ASSUME NEW l \in Lanes, WriterRuns(l) PROVE LifecycleTypeOK'
  BY <1>2 DEF WriterRuns, WriterStep, WriterGet, WriterWrite, RequeueOrDlq, consumerVars,
              lifeVars, pauseVars, mainVars
<1>3. CASE ProducerRuns
  BY <1>3 DEF ProducerRuns, ProducerStep, Deliver, DlqDeliver, consumerVars, lifeVars,
              pauseVars, mainVars
<1>4. ASSUME NEW P \in SUBSET Partitions, Assign(P) PROVE LifecycleTypeOK'
  BY <1>4 DEF Assign, OnAssign, lifeVars, pauseVars, mainVars
<1>5. ASSUME NEW p \in Partitions, PollDiscards(p) PROVE LifecycleTypeOK'
  <2>1. stored' \in Hwms
    BY <1>5, StoreOffsetType DEF PollDiscards
  <2> QED BY <1>5, <2>1 DEF PollDiscards, pauseVars, mainVars
<1>6. CASE ProcessorLeaves \/ \E l \in Lanes : WriterLeaves(l)
  BY <1>6 DEF ProcessorLeaves, WriterLeaves, vars, consumerVars, pauseVars, mainVars
<1>7. CASE RequestShutdown \/ Stopped \/ UNCHANGED lvars
  BY <1>7 DEF RequestShutdown, Stopped, lvars, vars, consumerVars, lifeVars, pauseVars, mainVars
<1> QED
  BY <1>1, <1>2, <1>3, <1>4, <1>5, <1>6, <1>7, LoopVarsType, ExitVarsType DEF LifecycleNext

(***************************************************************************)
(* Type correctness of the pipeline with its loop and its shutdown: in     *)
(* particular a paused partition is an assigned one, and the offset store  *)
(* that the final commit reads holds offsets of the log.                   *)
(***************************************************************************)
THEOREM LifecycleTypeCorrect == LifecycleSpec => [](TypeOK /\ LifecycleTypeOK)
<1>1. TypeParts /\ [LifecycleNext]_lvars => TypeParts'
  BY PipelineType, LifeVarsType DEF TypeParts
<1>2. TypeParts <=> TypeOK /\ LifecycleTypeOK
  BY DEF TypeParts
<1> QED BY LifecycleInitType, <1>1, <1>2, PTL DEF LifecycleSpec

-----------------------------------------------------------------------------
(***************************************************************************)
(* No partition is paused while the flag that the resume paths test is     *)
(* down, whatever the order of the two causes and of the shutdown.  Of the *)
(* steps that lower the flag, one resumes what is assigned, and the other  *)
(* finds it down only if nothing was paused.                               *)
(***************************************************************************)
THEOREM PauseFlagged == LifecycleSpec => []PausedOnlyWhileFlagged
<1>1. LifecycleInit => PausedOnlyWhileFlagged
  BY DEF LifecycleInit, PausedOnlyWhileFlagged
<1>2. ASSUME PausedOnlyWhileFlagged, [LifecycleNext]_lvars
      PROVE  PausedOnlyWhileFlagged'
  <2> USE DEF PausedOnlyWhileFlagged
  <2>1. CASE PauseForPressure \/ PauseForRoom
    BY <1>2, <2>1 DEF PauseForPressure, PauseForRoom
  <2>2. CASE RelievePressure \/ LeaveDrainWait
    BY <1>2, <2>2 DEF RelievePressure, ResumeIfBelowHalf, LeaveDrainWait
  <2>3. CASE CloseConsumer
    BY <2>3 DEF CloseConsumer
  <2>4. \/ PauseForPressure \/ PauseForRoom \/ RelievePressure \/ LeaveDrainWait
        \/ CloseConsumer \/ UNCHANGED <<paused, fetchPaused>>
    BY <1>2
    DEF LifecycleNext, ConsumerLoop, EnterConsume, ConsumeNothing, ConsumeNext, SplitDone,
        PutFirst, PutAgain, ConsumerLeaves, ProcessorRuns, ProcessorLeaves, WriterRuns,
        WriterLeaves, ProducerRuns, Assign, PollDiscards, RequestShutdown, MainStep,
        JoinConsumer, JoinProcessor, JoinWriters, Join, FinalFlush, FinalCommit, Stopped,
        lvars, lifeVars, pauseVars
  <2> QED BY <1>2, <2>1, <2>2, <2>3, <2>4
<1> QED BY <1>1, <1>2, PTL DEF LifecycleSpec
=============================================================================
