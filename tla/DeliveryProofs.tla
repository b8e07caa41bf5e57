--------------------------- MODULE DeliveryProofs ----------------------------
(***************************************************************************)
(* At-least-once delivery, for every value of Forwarder's constants.  The  *)
(* argument is about order.  What was read lies in the pipe of envelopes   *)
(* in the order of the log, so that a commit of the oldest envelope's last *)
(* offset passes over nothing younger; and the short-circuited records lie *)
(* in the bulk lane in that order too, so that the noise high-water mark   *)
(* speaks for every record below it.                                       *)
(***************************************************************************)
EXTENDS ForwarderProofs

-----------------------------------------------------------------------------
(***************************************************************************)
(* THE PIPE.  The envelopes between the fetch and the commit, oldest       *)
(* first: the one being processed, those in record_queue, and the one      *)
(* being split.  Everywhere else there is an empty envelope.               *)
(***************************************************************************)
Pipe ==
    [k \in Nat |-> IF k = 0 THEN cur
                   ELSE IF k <= Len(recordQ) THEN recordQ[k]
                   ELSE IF k = Len(recordQ) + 1 THEN env
                   ELSE NoEnvelope]

In(pipe, q) == \E k \in Nat : q \in EnvelopeRecords(pipe[k])

Shifted(pipe) == [k \in Nat |-> pipe[k + 1]]

UpTo(q, r) == q[1] = r[1] /\ q[2] <= r[2]

(***************************************************************************)
(* The log is read in order: what lies below a record of the pipe, or      *)
(* below the position, is in C or in the pipe, and not behind that record. *)
(***************************************************************************)
InOrder(pipe, pos, C) ==
    /\ \A k \in Nat : \A r \in EnvelopeRecords(pipe[k]), q \in Records :
          UpTo(q, r) => q \in C \/ \E j \in 0 .. k : q \in EnvelopeRecords(pipe[j])
    /\ \A q \in Records : q[2] < pos[q[1]] => q \in C \/ In(pipe, q)

LEMMA EmptyEnvelope == EnvelopeRecords(NoEnvelope) = {} /\ NoEnvelope.noise = {}
BY DEF EnvelopeRecords, NoEnvelope, SeqRange

LEMMA PipeEnd ==
    /\ Pipe[0] = cur
    /\ recordQ \in Seq(Envelopes) => /\ Len(recordQ) + 1 \in Nat
                                     /\ Pipe[Len(recordQ) + 1] = env
                                     /\ \A k \in Nat : k > Len(recordQ) + 1 => Pipe[k] = NoEnvelope
BY DEF Pipe

LEMMA PutPipe ==
    ASSUME TypeOK, PutEnvelope
    PROVE  Pipe' = Pipe
<1>1. /\ recordQ \in Seq(Envelopes) /\ env \in Envelopes
      /\ recordQ' = Append(recordQ, env) /\ env' = NoEnvelope /\ cur' = cur
  BY DEF TypeOK, ConsumerTypeOK, PutEnvelope, processorVars, batchVars
<1>2. Len(recordQ') = Len(recordQ) + 1 /\ Len(recordQ) \in Nat
  BY <1>1
<1>3. \A k \in Nat : k # 0 /\ k <= Len(recordQ) => recordQ'[k] = recordQ[k]
  BY <1>1
<1>4. recordQ'[Len(recordQ) + 1] = env
  BY <1>1
<1> QED BY <1>1, <1>2, <1>3, <1>4 DEF Pipe

LEMMA TakePipe ==
    ASSUME TypeOK, TakeEnvelope
    PROVE  Pipe' = Shifted(Pipe)
<1>1. /\ recordQ \in Seq(Envelopes) /\ recordQ # <<>> /\ recordQ' = Tail(recordQ)
      /\ env' = env /\ cur' = Head(recordQ)
  BY DEF TypeOK, ConsumerTypeOK, TakeEnvelope, consumerVars
<1>2. Len(recordQ') = Len(recordQ) - 1 /\ Len(recordQ) \in Nat \ {0}
  BY <1>1
<1>3. \A k \in Nat : k # 0 /\ k <= Len(recordQ') => recordQ'[k] = recordQ[k + 1]
  BY <1>1
<1>4. cur' = recordQ[1]
  BY <1>1
<1>5. ASSUME NEW k \in Nat PROVE Pipe'[k] = Pipe[k + 1]
  <2>1. CASE k = 0
    BY <1>1, <1>2, <1>4, <2>1 DEF Pipe
  <2>2. CASE k # 0
    <3>1. (k <= Len(recordQ') <=> k + 1 <= Len(recordQ)) /\ k + 1 # 0 /\ k + 1 \in Nat
      BY <1>2
    <3>2. (k = Len(recordQ') + 1) <=> (k + 1 = Len(recordQ) + 1)
      BY <1>2
    <3> QED BY <1>1, <1>3, <2>2, <3>1, <3>2 DEF Pipe
  <2> QED BY <2>1, <2>2
<1> QED BY <1>5 DEF Pipe, Shifted

LEMMA EndBatchPipe ==
    ASSUME EndBatch, UNCHANGED <<recordQ, env>>
    PROVE  Pipe' = [Pipe EXCEPT ![0] = NoEnvelope]
BY DEF EndBatch, Pipe

LEMMA SplitPipe ==
    ASSUME TypeOK, UNCHANGED <<recordQ, cur>>
    PROVE  Pipe' = [Pipe EXCEPT ![Len(recordQ) + 1] = env']
<1> DEFINE n == Len(recordQ)
<1>1. n \in Nat /\ n + 1 # 0
  BY DEF TypeOK, ConsumerTypeOK
<1>2. ASSUME NEW k \in Nat PROVE Pipe'[k] = IF k = n + 1 THEN env' ELSE Pipe[k]
  BY <1>1 DEF Pipe
<1> QED BY <1>2 DEF Pipe

LEMMA CrashPipe ==
    ASSUME Crash
    PROVE  Pipe' = [k \in Nat |-> NoEnvelope]
BY DEF Crash, Pipe

LEMMA SamePipe ==
    ASSUME UNCHANGED <<cur, recordQ, env>>
    PROVE  Pipe' = Pipe
BY DEF Pipe

-----------------------------------------------------------------------------
LEMMA InOrderGrows ==
    ASSUME NEW pipe, NEW pos, NEW C, NEW D, C \subseteq D, InOrder(pipe, pos, C)
    PROVE  InOrder(pipe, pos, D)
BY DEF InOrder

(***************************************************************************)
(* The oldest envelope leaves the pipe when all it holds is in C, and the  *)
(* next one takes its place.                                               *)
(***************************************************************************)
LEMMA DropFirst ==
    ASSUME NEW pipe \in [Nat -> Envelopes], NEW pos, NEW C, InOrder(pipe, pos, C),
           EnvelopeRecords(pipe[0]) \subseteq C
    PROVE  InOrder([pipe EXCEPT ![0] = NoEnvelope], pos, C)
<1> DEFINE new == [pipe EXCEPT ![0] = NoEnvelope]
<1>1. \A k \in Nat : EnvelopeRecords(new[k]) \subseteq EnvelopeRecords(pipe[k])
  BY EmptyEnvelope
<1>2. \A k \in Nat : \A q : q \in EnvelopeRecords(pipe[k]) => q \in C \/ q \in EnvelopeRecords(new[k])
  OBVIOUS
<1>3. \A q : In(pipe, q) => q \in C \/ In(new, q)
  BY <1>2 DEF In
<1>4. ASSUME NEW k \in Nat, NEW r \in EnvelopeRecords(new[k]), NEW q \in Records, UpTo(q, r)
      PROVE  q \in C \/ \E j \in 0 .. k : q \in EnvelopeRecords(new[j])
  <2>1. q \in C \/ \E j \in 0 .. k : q \in EnvelopeRecords(pipe[j])
    BY <1>1, <1>4 DEF InOrder
  <2> QED BY <1>2, <2>1
<1> HIDE DEF new
<1> QED BY <1>3, <1>4 DEF InOrder, new

LEMMA ShiftOrder ==
    ASSUME NEW pipe, NEW pos, NEW C, InOrder(pipe, pos, C),
           EnvelopeRecords(pipe[0]) = {}
    PROVE  InOrder(Shifted(pipe), pos, C)
<1>1. \A k \in Nat : Shifted(pipe)[k] = pipe[k + 1]
  BY DEF Shifted
<1>2. ASSUME NEW j \in Nat, NEW q \in EnvelopeRecords(pipe[j])
      PROVE  j - 1 \in Nat /\ q \in EnvelopeRecords(Shifted(pipe)[j - 1])
  <2>1. j # 0
    BY <1>2
  <2> QED BY <1>1, <1>2, <2>1
<1>3. \A q : In(pipe, q) => In(Shifted(pipe), q)
  BY <1>2 DEF In
<1>4. ASSUME NEW k \in Nat, NEW r \in EnvelopeRecords(Shifted(pipe)[k]), NEW q \in Records,
             UpTo(q, r)
      PROVE  q \in C \/ \E j \in 0 .. k : q \in EnvelopeRecords(Shifted(pipe)[j])
  <2>1. k + 1 \in Nat /\ r \in EnvelopeRecords(pipe[k + 1])
    BY <1>1
  <2>2. q \in C \/ \E j \in 0 .. k + 1 : q \in EnvelopeRecords(pipe[j])
    BY <1>4, <2>1 DEF InOrder
  <2>3. CASE \E j \in 0 .. k + 1 : q \in EnvelopeRecords(pipe[j])
    <3>1. PICK j \in 0 .. k + 1 : q \in EnvelopeRecords(pipe[j])
      BY <2>3
    <3>2. j - 1 \in 0 .. k /\ q \in EnvelopeRecords(Shifted(pipe)[j - 1])
      BY <1>2, <3>1
    <3> QED BY <3>2
  <2> QED BY <2>2, <2>3
<1> QED BY <1>3, <1>4 DEF InOrder

(***************************************************************************)
(* The next record of a partition joins the youngest envelope.             *)
(***************************************************************************)
LEMMA JoinLast ==
    ASSUME NEW pipe \in [Nat -> Envelopes], NEW pos, NEW C, InOrder(pipe, pos, C),
           pos \in [Partitions -> 0 .. LogEnd], NEW p \in Partitions,
           NEW n \in Nat, \A k \in Nat : k > n => EnvelopeRecords(pipe[k]) = {},
           NEW e, EnvelopeRecords(e) = EnvelopeRecords(pipe[n]) \cup {<<p, pos[p]>>}
    PROVE  InOrder([pipe EXCEPT ![n] = e], [pos EXCEPT ![p] = @ + 1], C)
<1> DEFINE new == [pipe EXCEPT ![n] = e]
           last == <<p, pos[p]>>
<1>1. \A k \in Nat : k # n => new[k] = pipe[k]
  OBVIOUS
<1>2. new[n] = e
  OBVIOUS
<1> HIDE DEF new
<1>3. \A k \in Nat : \A q : q \in EnvelopeRecords(pipe[k]) => q \in EnvelopeRecords(new[k])
  BY <1>1, <1>2
<1>4. \A q : In(pipe, q) => \E j \in 0 .. n : q \in EnvelopeRecords(new[j])
  <2> SUFFICES ASSUME NEW q, NEW k \in Nat, q \in EnvelopeRecords(pipe[k])
               PROVE  \E j \in 0 .. n : q \in EnvelopeRecords(new[j])
    BY DEF In
  <2>1. k \in 0 .. n
    OBVIOUS
  <2> QED BY <1>3, <2>1
<1>5. last \in EnvelopeRecords(new[n]) /\ n \in 0 .. n
  BY <1>2
<1>6. ASSUME NEW q \in Records, q[2] < [pos EXCEPT ![p] = @ + 1][q[1]]
      PROVE  q \in C \/ \E j \in 0 .. n : q \in EnvelopeRecords(new[j])
  <2>1. CASE q = last
    BY <1>5, <2>1
  <2>2. CASE q # last
    <3>1. q[2] < pos[q[1]]
      <4>1. q = <<q[1], q[2]>> /\ q[2] \in Nat /\ q[1] \in Partitions
        BY ForwarderAssumption DEF Records, Offsets
      <4>2. q[1] = p => q[2] # pos[p]
        BY <2>2, <4>1
      <4> QED BY <1>6, <4>1, <4>2
    <3> QED BY <1>4, <3>1 DEF InOrder
  <2> QED BY <2>1, <2>2
<1>7. \A q : (\E j \in 0 .. n : q \in EnvelopeRecords(new[j])) => In(new, q)
  BY DEF In
<1>8. ASSUME NEW k \in Nat, NEW r \in EnvelopeRecords(new[k]), NEW q \in Records, UpTo(q, r)
      PROVE  q \in C \/ \E j \in 0 .. k : q \in EnvelopeRecords(new[j])
  <2>1. CASE r \in EnvelopeRecords(pipe[k])
    <3>1. q \in C \/ \E j \in 0 .. k : q \in EnvelopeRecords(pipe[j])
      BY <1>8, <2>1 DEF InOrder
    <3> QED BY <1>3, <3>1
  <2>2. CASE r \notin EnvelopeRecords(pipe[k])
    <3>1. k = n /\ r = last
      BY <1>1, <1>2, <1>8, <2>2
    <3>2. q[2] < [pos EXCEPT ![p] = @ + 1][q[1]]
      BY <1>8, <3>1, ForwarderAssumption DEF UpTo, Records, Offsets
    <3> QED BY <1>6, <3>1, <3>2
  <2> QED BY <2>1, <2>2
<1> QED BY <1>6, <1>7, <1>8 DEF InOrder, new

(***************************************************************************)
(* Between batches the processor holds nothing.                            *)
(***************************************************************************)
IdleHoldsNothing == ppc = "idle" => cur = NoEnvelope /\ todo = <<>>

LEMMA PipeType ==
    ASSUME TypeOK
    PROVE  Pipe \in [Nat -> Envelopes]
<1>1. /\ cur \in Envelopes /\ env \in Envelopes /\ NoEnvelope \in Envelopes
      /\ recordQ \in Seq(Envelopes)
  BY NoEnvelopeType DEF TypeOK, ConsumerTypeOK, ProcessorTypeOK
<1>2. \A k \in Nat : k # 0 /\ k <= Len(recordQ) => recordQ[k] \in Envelopes
  BY <1>1
<1> QED BY <1>1, <1>2 DEF Pipe

(***************************************************************************)
(* Every step keeps the pipe in order, provided that what leaves it at the *)
(* end of a batch is in D, and what the heartbeat poll throws away.        *)
(***************************************************************************)
LEMMA FetchJoins ==
    ASSUME TypeOK, NEW p \in Partitions, Fetch(p)
    PROVE  /\ EnvelopeRecords(env') = EnvelopeRecords(env) \cup {<<p, position[p]>>}
           /\ position' = [position EXCEPT ![p] = @ + 1]
           /\ UNCHANGED <<recordQ, cur>>
<1> DEFINE r == <<p, position[p]>>
<1>1. env \in Envelopes /\ r \in Records
  BY ForwarderAssumption DEF TypeOK, ConsumerTypeOK, Fetch, Records, Offsets
<1>2. CASE ShortCircuitNoise(r)
  BY <1>1, <1>2 DEF ShortCircuitNoise, Fetch, EnvelopeRecords, Envelopes, processorVars, batchVars
<1>3. CASE TakeFullPath(r)
  <2>1. /\ env.msgs \in Seq(Records) /\ env'.msgs = Append(env.msgs, r)
        /\ env'.noise = env.noise
    BY <1>1, <1>3 DEF TakeFullPath, Envelopes
  <2>2. SeqRange(env'.msgs) = SeqRange(env.msgs) \cup {r}
    <3> DEFINE s == env.msgs
               longer == Append(s, r)
    <3>1. /\ Len(s) \in Nat /\ longer[Len(s) + 1] = r
          /\ DOMAIN s = 1 .. Len(s) /\ DOMAIN longer = 1 .. Len(s) + 1
          /\ \A i \in 1 .. Len(s) : longer[i] = s[i]
      BY <1>1, <2>1
    <3>2. env'.msgs = longer
      BY <2>1
    <3> HIDE DEF s, longer
    <3>3. /\ \A i \in 1 .. Len(s) + 1 : i \in 1 .. Len(s) \/ i = Len(s) + 1
          /\ \A i \in 1 .. Len(s) : i \in 1 .. Len(s) + 1
          /\ Len(s) + 1 \in 1 .. Len(s) + 1
      BY <3>1
    <3>4. SeqRange(longer) = SeqRange(s) \cup {r}
      BY <3>1, <3>3 DEF SeqRange
    <3> QED BY <3>2, <3>4 DEF s
  <2> QED BY <2>1, <2>2 DEF Fetch, EnvelopeRecords, processorVars, batchVars
<1> QED BY <1>2, <1>3 DEF Fetch

LEMMA PipeFrame ==
    ASSUME [Next]_vars
    PROVE  \/ \E p \in Partitions : Fetch(p) \/ HeartbeatPoll(p)
           \/ \E P \in SUBSET Partitions : OnAssign(P)
           \/ FetchError \/ PutEnvelope \/ TakeEnvelope \/ Crash
           \/ CommitBatch \/ CommitRaises \/ DeclineBatch
           \/ UNCHANGED <<cur, recordQ, env, position>>
BY DEF Next, ConsumerStep, FinishSplit, PauseOnFull, ResumeAfterDrain,
       ProcessorStep, SkipRevoked, ProcessPoison, StartEvent, RouteAndPublish,
       FlushAndEvaluate, AwaitNoise, AwaitSignal,
       ProducerStep, Deliver, DlqDeliver, Rebalance, WriterStep, WriterGet,
       WriterWrite, RequeueOrDlq, FaultStep, OnRevoke,
       DeliveryFails, DlqDeliveryFails, WriteFails, Quiescent, vars,
       consumerVars, processorVars, batchVars

LEMMA OrderStep ==
    ASSUME TypeOK, IdleHoldsNothing, [Next]_vars,
           NEW C, NEW D, C \subseteq D,
           InOrder(Pipe, position, C), Below(committed) \subseteq C,
           CommitBatch \/ CommitRaises \/ DeclineBatch => EnvelopeRecords(cur) \subseteq D,
           \A p \in Partitions : HeartbeatPoll(p) => <<p, position[p]>> \in D
    PROVE  InOrder(Pipe', position', D)
<1>1. InOrder(Pipe, position, D) /\ Pipe \in [Nat -> Envelopes]
  BY InOrderGrows, PipeType
<1>2. /\ recordQ \in Seq(Envelopes) /\ Len(recordQ) + 1 \in Nat
      /\ Pipe[Len(recordQ) + 1] = env /\ Pipe[0] = cur
      /\ \A k \in Nat : k > Len(recordQ) + 1 => EnvelopeRecords(Pipe[k]) = {}
  BY PipeEnd, EmptyEnvelope DEF TypeOK, ConsumerTypeOK
<1>3. position \in [Partitions -> 0 .. LogEnd]
  BY DEF TypeOK, ConsumerTypeOK
<1>4. ASSUME NEW p \in Partitions, Fetch(p) PROVE InOrder(Pipe', position', D)
  <2>1. /\ Pipe' = [Pipe EXCEPT ![Len(recordQ) + 1] = env']
        /\ EnvelopeRecords(env') = EnvelopeRecords(env) \cup {<<p, position[p]>>}
        /\ position' = [position EXCEPT ![p] = @ + 1]
    BY <1>4, FetchJoins, SplitPipe
  <2> QED BY <1>1, <1>2, <1>3, <2>1, JoinLast
<1>5. ASSUME NEW p \in Partitions, HeartbeatPoll(p) PROVE InOrder(Pipe', position', D)
  <2>1. Pipe' = Pipe /\ position' = [position EXCEPT ![p] = @ + 1]
    BY <1>5, SamePipe DEF HeartbeatPoll, processorVars, batchVars
  <2>2. <<p, position[p]>> \in D
    BY <1>5
  <2>3. ASSUME NEW q \in Records, q[2] < position'[q[1]] PROVE q \in D \/ In(Pipe, q)
    <3>1. q = <<q[1], q[2]>> /\ q[2] \in Nat /\ q[1] \in Partitions
      BY ForwarderAssumption DEF Records, Offsets
    <3>2. q # <<p, position[p]>> => q[2] < position[q[1]]
      BY <1>3, <2>1, <2>3, <3>1
    <3> QED BY <1>1, <2>2, <3>2 DEF InOrder
  <2> QED BY <1>1, <2>1, <2>3 DEF InOrder
<1>6. ASSUME NEW P \in SUBSET Partitions, OnAssign(P) PROVE InOrder(Pipe', position', D)
  <2>1. Pipe' = Pipe /\ position' = ResumeAt(P)
    BY <1>6, SamePipe DEF OnAssign, processorVars, batchVars
  <2>2. ASSUME NEW q \in Records, q[2] < position'[q[1]] PROVE q \in D \/ In(Pipe, q)
    <3>1. q[2] < position[q[1]] \/ q \in Below(committed)
      BY <2>1, <2>2 DEF ResumeAt, Below, Records
    <3> QED BY <1>1, <3>1 DEF InOrder
  <2> QED BY <1>1, <2>1, <2>2 DEF InOrder
<1>7. CASE FetchError
  <2>1. /\ UNCHANGED <<recordQ, cur, position>>
        /\ EnvelopeRecords(env') = EnvelopeRecords(env)
    BY <1>7 DEF FetchError, processorVars, batchVars, EnvelopeRecords, TypeOK,
                ConsumerTypeOK, Envelopes
  <2>2. Pipe' = [Pipe EXCEPT ![Len(recordQ) + 1] = env']
    BY <2>1, SplitPipe
  <2>3. \A k \in Nat : EnvelopeRecords(Pipe'[k]) = EnvelopeRecords(Pipe[k])
    BY <1>1, <1>2, <2>1, <2>2
  <2> QED BY <1>1, <2>1, <2>3 DEF InOrder, In
<1>8. CASE PutEnvelope
  BY <1>1, <1>8, PutPipe DEF PutEnvelope
<1>9. CASE TakeEnvelope
  <2>1. EnvelopeRecords(Pipe[0]) = {} /\ UNCHANGED position
    BY <1>2, <1>9, EmptyEnvelope DEF TakeEnvelope, IdleHoldsNothing, consumerVars
  <2>2. Pipe' = Shifted(Pipe)
    BY <1>9, TakePipe
  <2> QED BY <1>1, <2>1, <2>2, ShiftOrder
<1>10. CASE CommitBatch \/ CommitRaises \/ DeclineBatch
  <2>1. EndBatch /\ UNCHANGED <<recordQ, env, position>>
    BY <1>10 DEF CommitBatch, CommitRaises, DeclineBatch, consumerVars
  <2>2. Pipe' = [Pipe EXCEPT ![0] = NoEnvelope]
    BY <2>1, EndBatchPipe
  <2> QED BY <1>1, <1>2, <1>10, <2>1, <2>2, DropFirst
<1>11. CASE Crash
  <2>1. /\ Pipe' = [k \in Nat |-> NoEnvelope]
        /\ position' = [p \in Partitions |-> 0]
    BY <1>11, CrashPipe DEF Crash
  <2>2. \A q \in Records : ~ q[2] < position'[q[1]]
    BY <2>1, ForwarderAssumption DEF Records, Offsets
  <2> QED BY <2>1, <2>2, EmptyEnvelope DEF InOrder
<1>12. CASE UNCHANGED <<cur, recordQ, env, position>>
  BY <1>1, <1>12, SamePipe
<1> QED
  BY <1>4, <1>5, <1>6, <1>7, <1>8, <1>9, <1>10, <1>11, <1>12, PipeFrame

-----------------------------------------------------------------------------
(***************************************************************************)
(* THE LINE.  What the bulk writer has yet to write, in order: the batch   *)
(* it holds and then its lane.  The short-circuited records of an envelope *)
(* stand there from the moment they are fetched.                           *)
(***************************************************************************)
Line == wBatch["bulk"] \o laneQ["bulk"]

OnLine(line, q, m) == \E n \in 1 .. m : line[n].sc /\ line[n].rec = q

Ahead(pipe, k, q, C) ==
    \/ q \in C \/ q \in SeqRange(pipe[k].msgs)
    \/ \E j \in Nat : j < k /\ q \in EnvelopeRecords(pipe[j])

(***************************************************************************)
(* A short-circuited record that is not in C stands in the line, and a     *)
(* record with a higher offset acknowledges it, or stands before it, only  *)
(* if an older envelope answers for it.  So the high-water mark of the     *)
(* noise writer, though it is only a maximum, speaks for every record of   *)
(* the oldest envelope.                                                    *)
(***************************************************************************)
NoiseWaits(pipe, line, C) ==
    /\ \A k \in Nat : \A q \in pipe[k].noise : q \in C \/ OnLine(line, q, Len(line))
    /\ \A m \in 1 .. Len(line) : line[m].sc /\ line[m].retry > 0 => line[m].rec \in C

NoiseReached(pipe, line, hwm, C) ==
    \A q \in Records :
        \/ hwm[q[1]] >= q[2]
        \/ \E m \in 1 .. Len(line) : line[m].sc /\ UpTo(q, line[m].rec)
        => q \in C \/ In(pipe, q)

NoiseAnswered(pipe, line, hwm, C) ==
    \A k \in Nat : \A q \in pipe[k].noise :
        /\ hwm[q[1]] >= q[2] => Ahead(pipe, k, q, C)
        /\ \A m \in 1 .. Len(line) : line[m].sc /\ UpTo(q, line[m].rec) =>
                Ahead(pipe, k, q, C) \/ OnLine(line, q, m)

NoiseInOrder(pipe, line, hwm, C) ==
    /\ NoiseWaits(pipe, line, C)
    /\ NoiseReached(pipe, line, hwm, C)
    /\ NoiseAnswered(pipe, line, hwm, C)

LEMMA NoiseGrows ==
    ASSUME NEW pipe, NEW line, NEW hwm, NEW C, NEW D, C \subseteq D,
           NoiseInOrder(pipe, line, hwm, C)
    PROVE  NoiseInOrder(pipe, line, hwm, D)
BY DEF NoiseInOrder, NoiseWaits, NoiseReached, NoiseAnswered, Ahead

LEMMA NoiseDrop ==
    ASSUME NEW pipe \in [Nat -> Envelopes], NEW line, NEW hwm, NEW C,
           NoiseInOrder(pipe, line, hwm, C), EnvelopeRecords(pipe[0]) \subseteq C
    PROVE  NoiseInOrder([pipe EXCEPT ![0] = NoEnvelope], line, hwm, C)
<1> DEFINE new == [pipe EXCEPT ![0] = NoEnvelope]
<1>1. \A k \in Nat : k # 0 => new[k] = pipe[k]
  OBVIOUS
<1>2. new[0].noise = {}
  BY EmptyEnvelope
<1> HIDE DEF new
<1>3. \A q : In(pipe, q) => q \in C \/ In(new, q)
  BY <1>1 DEF In
<1>4. \A k \in Nat : \A q : k # 0 /\ Ahead(pipe, k, q, C) => Ahead(new, k, q, C)
  BY <1>1 DEF Ahead
<1>5. NoiseWaits(new, line, C)
  BY <1>1, <1>2 DEF NoiseWaits, NoiseInOrder
<1>6. NoiseReached(new, line, hwm, C)
  BY <1>3 DEF NoiseReached, NoiseInOrder
<1>7. NoiseAnswered(new, line, hwm, C)
  BY <1>1, <1>2, <1>4 DEF NoiseAnswered, NoiseInOrder
<1> QED BY <1>5, <1>6, <1>7 DEF NoiseInOrder, new

LEMMA NoiseShift ==
    ASSUME NEW pipe, NEW line, NEW hwm, NEW C,
           NoiseInOrder(pipe, line, hwm, C), EnvelopeRecords(pipe[0]) = {}
    PROVE  NoiseInOrder(Shifted(pipe), line, hwm, C)
<1> DEFINE new == Shifted(pipe)
<1>1. \A k \in Nat : k + 1 \in Nat /\ new[k] = pipe[k + 1]
  BY DEF Shifted
<1> HIDE DEF new
<1>2. ASSUME NEW j \in Nat, NEW q \in EnvelopeRecords(pipe[j])
      PROVE  j - 1 \in Nat /\ q \in EnvelopeRecords(new[j - 1])
  <2>1. j # 0
    BY <1>2
  <2> QED BY <1>1, <1>2, <2>1
<1>3. \A q : In(pipe, q) => In(new, q)
  BY <1>2 DEF In
<1>4. ASSUME NEW k \in Nat, NEW q, Ahead(pipe, k + 1, q, C) PROVE Ahead(new, k, q, C)
  <2>1. CASE \E j \in Nat : j < k + 1 /\ q \in EnvelopeRecords(pipe[j])
    <3>1. PICK j \in Nat : j < k + 1 /\ q \in EnvelopeRecords(pipe[j])
      BY <2>1
    <3>2. j - 1 \in Nat /\ q \in EnvelopeRecords(new[j - 1]) /\ j - 1 < k
      BY <1>2, <3>1
    <3> QED BY <3>2 DEF Ahead
  <2> QED BY <1>1, <1>4, <2>1 DEF Ahead
<1>5. NoiseWaits(new, line, C)
  BY <1>1 DEF NoiseWaits, NoiseInOrder
<1>6. NoiseReached(new, line, hwm, C)
  BY <1>3 DEF NoiseReached, NoiseInOrder
<1>7. NoiseAnswered(new, line, hwm, C)
  BY <1>1, <1>4 DEF NoiseAnswered, NoiseInOrder
<1> QED BY <1>5, <1>6, <1>7 DEF NoiseInOrder, new

(***************************************************************************)
(* A record that takes the full path joins the youngest envelope.          *)
(***************************************************************************)
LEMMA NoiseBypassed ==
    ASSUME NEW pipe \in [Nat -> Envelopes], NEW line, NEW hwm, NEW C,
           NoiseInOrder(pipe, line, hwm, C), NEW n \in Nat, NEW e,
           e.noise = pipe[n].noise, SeqRange(pipe[n].msgs) \subseteq SeqRange(e.msgs)
    PROVE  NoiseInOrder([pipe EXCEPT ![n] = e], line, hwm, C)
<1> DEFINE new == [pipe EXCEPT ![n] = e]
<1>1. \A k \in Nat : /\ new[k].noise = pipe[k].noise
                     /\ SeqRange(pipe[k].msgs) \subseteq SeqRange(new[k].msgs)
  OBVIOUS
<1> HIDE DEF new
<1>2. \A k \in Nat : EnvelopeRecords(pipe[k]) \subseteq EnvelopeRecords(new[k])
  BY <1>1 DEF EnvelopeRecords
<1>3. \A q : In(pipe, q) => In(new, q)
  BY <1>2 DEF In
<1>4. \A k \in Nat : \A q : Ahead(pipe, k, q, C) => Ahead(new, k, q, C)
  BY <1>1, <1>2 DEF Ahead
<1>5. NoiseWaits(new, line, C)
  BY <1>1 DEF NoiseWaits, NoiseInOrder
<1>6. NoiseReached(new, line, hwm, C)
  BY <1>3 DEF NoiseReached, NoiseInOrder
<1>7. NoiseAnswered(new, line, hwm, C)
  BY <1>1, <1>4 DEF NoiseAnswered, NoiseInOrder
<1> QED BY <1>5, <1>6, <1>7 DEF NoiseInOrder, new

(***************************************************************************)
(* A short-circuited record joins the youngest envelope and the line.      *)
(***************************************************************************)
LEMMA AppendAt ==
    ASSUME NEW S, NEW s \in Seq(S), NEW x \in S
    PROVE  /\ Append(s, x) \in Seq(S) /\ Len(s) \in Nat /\ Len(Append(s, x)) = Len(s) + 1
           /\ Append(s, x)[Len(s) + 1] = x
           /\ \A i \in 1 .. Len(s) : Append(s, x)[i] = s[i]
OBVIOUS

LEMMA NoiseJoins ==
    ASSUME NEW pipe \in [Nat -> Envelopes], NEW line \in Seq(Items), NEW hwm, NEW C,
           NoiseInOrder(pipe, line, hwm, C), NEW n \in Nat, NEW e, NEW x \in Items,
           x.sc, x.retry = 0,
           e.noise = pipe[n].noise \cup {x.rec}, e.msgs = pipe[n].msgs,
           \A k \in Nat : k > n => EnvelopeRecords(pipe[k]) = {},
           \A q \in Records : UpTo(q, x.rec) /\ q # x.rec => q \in C \/ In(pipe, q)
    PROVE  NoiseInOrder([pipe EXCEPT ![n] = e], Append(line, x), hwm, C)
<1> DEFINE new == [pipe EXCEPT ![n] = e]
           longer == Append(line, x)
           r == x.rec
<1>1. \A k \in Nat : /\ k # n => new[k] = pipe[k]
                     /\ new[n] = e
  OBVIOUS
<1>2. /\ Len(line) \in Nat /\ Len(longer) = Len(line) + 1 /\ longer[Len(line) + 1] = x
      /\ \A i \in 1 .. Len(line) : longer[i] = line[i]
  BY AppendAt
<1> HIDE DEF new, longer
<1>3. \A k \in Nat : EnvelopeRecords(pipe[k]) \subseteq EnvelopeRecords(new[k])
  BY <1>1 DEF EnvelopeRecords
<1>4. (\A q : In(pipe, q) => In(new, q)) /\ In(new, r)
  BY <1>1, <1>3 DEF In, EnvelopeRecords
<1>5. \A k \in Nat : \A q : Ahead(pipe, k, q, C) => Ahead(new, k, q, C)
  BY <1>1, <1>3 DEF Ahead
<1>6. \A q, m : m \in 1 .. Len(line) /\ OnLine(line, q, m) => OnLine(longer, q, m)
  BY <1>2 DEF OnLine
<1>7. \A q : OnLine(line, q, Len(line)) => OnLine(longer, q, Len(longer))
  BY <1>2 DEF OnLine
<1>8. OnLine(longer, r, Len(longer))
  BY <1>2 DEF OnLine
<1>9. NoiseWaits(new, longer, C)
  <2>1. \A k \in Nat : \A q \in new[k].noise : q \in C \/ OnLine(longer, q, Len(longer))
    BY <1>1, <1>7, <1>8 DEF NoiseWaits, NoiseInOrder
  <2>2. \A m \in 1 .. Len(longer) : longer[m].sc /\ longer[m].retry > 0 => longer[m].rec \in C
    BY <1>2 DEF NoiseWaits, NoiseInOrder
  <2> QED BY <2>1, <2>2 DEF NoiseWaits
<1>10. NoiseReached(new, longer, hwm, C)
  BY <1>2, <1>4 DEF NoiseReached, NoiseInOrder
<1>11. NoiseAnswered(new, longer, hwm, C)
  <2> SUFFICES ASSUME NEW k \in Nat, NEW q \in new[k].noise
               PROVE  /\ hwm[q[1]] >= q[2] => Ahead(new, k, q, C)
                      /\ \A m \in 1 .. Len(longer) : longer[m].sc /\ UpTo(q, longer[m].rec) =>
                              Ahead(new, k, q, C) \/ OnLine(longer, q, m)
    BY DEF NoiseAnswered
  <2>1. ASSUME NEW m \in 1 .. Len(longer), m = Len(longer)
        PROVE  Ahead(new, k, q, C) \/ OnLine(longer, q, m)
    BY <1>9, <2>1 DEF NoiseWaits, Ahead
  <2>2. CASE q \in pipe[k].noise
    <3>1. \A m \in 1 .. Len(longer) : m # Len(longer) => m \in 1 .. Len(line) /\ longer[m] = line[m]
      BY <1>2
    <3> QED BY <1>5, <1>6, <2>1, <2>2, <3>1 DEF NoiseAnswered, NoiseInOrder
  <2>3. CASE q \notin pipe[k].noise
    <3>1. k = n /\ q = r
      BY <1>1, <2>3
    <3>2. ASSUME \/ hwm[r[1]] >= r[2]
                 \/ \E m \in 1 .. Len(line) : line[m].sc /\ UpTo(r, line[m].rec)
          PROVE  Ahead(new, n, r, C)
      <4>1. r \in C \/ In(pipe, r)
        BY <3>2 DEF NoiseReached, NoiseInOrder, Items
      <4>2. CASE In(pipe, r)
        <5>1. PICK j \in Nat : r \in EnvelopeRecords(pipe[j])
          BY <4>2 DEF In
        <5>2. j < n \/ j = n
          BY <5>1
        <5>3. j = n => r \in SeqRange(pipe[n].msgs)
          BY <2>3, <3>1, <5>1 DEF EnvelopeRecords
        <5> QED BY <1>1, <1>3, <5>1, <5>2, <5>3 DEF Ahead
      <4> QED BY <4>1, <4>2 DEF Ahead
    <3>3. \A m \in 1 .. Len(longer) : m # Len(longer) => m \in 1 .. Len(line) /\ longer[m] = line[m]
      BY <1>2
    <3> QED BY <2>1, <3>1, <3>2, <3>3
  <2> QED BY <2>2, <2>3
<1> QED BY <1>9, <1>10, <1>11 DEF NoiseInOrder, new, longer

(***************************************************************************)
(* An item joins the line behind the others: of a record nobody waits for, *)
(* or of one that is in C and had stood there before.                      *)
(***************************************************************************)
LEMMA NoiseFollows ==
    ASSUME NEW pipe, NEW line \in Seq(Items), NEW hwm, NEW C,
           NoiseInOrder(pipe, line, hwm, C), NEW x \in Items,
           x.sc => x.rec \in C /\ OnLine(line, x.rec, Len(line))
    PROVE  NoiseInOrder(pipe, Append(line, x), hwm, C)
<1> DEFINE longer == Append(line, x)
<1>1. /\ Len(line) \in Nat /\ Len(longer) = Len(line) + 1 /\ longer[Len(line) + 1] = x
      /\ \A i \in 1 .. Len(line) : longer[i] = line[i]
  BY AppendAt
<1> HIDE DEF longer
<1>2. \A m \in 1 .. Len(longer) : m # Len(longer) => m \in 1 .. Len(line) /\ longer[m] = line[m]
  BY <1>1
<1>3. \A q, m : m \in 1 .. Len(line) /\ OnLine(line, q, m) => OnLine(longer, q, m)
  BY <1>1 DEF OnLine
<1>4. \A q : OnLine(line, q, Len(line)) => OnLine(longer, q, Len(longer))
  BY <1>1 DEF OnLine
<1>5. NoiseWaits(pipe, longer, C)
  BY <1>1, <1>2, <1>4 DEF NoiseWaits, NoiseInOrder
<1>6. NoiseReached(pipe, longer, hwm, C)
  <2>1. ASSUME NEW q, x.sc, UpTo(q, x.rec)
        PROVE  \E m \in 1 .. Len(line) : line[m].sc /\ UpTo(q, line[m].rec)
    BY <2>1 DEF OnLine
  <2> QED BY <1>1, <1>2, <2>1 DEF NoiseReached, NoiseInOrder
<1>7. NoiseAnswered(pipe, longer, hwm, C)
  <2> SUFFICES ASSUME NEW k \in Nat, NEW q \in pipe[k].noise,
                      NEW m \in 1 .. Len(longer), longer[m].sc, UpTo(q, longer[m].rec)
               PROVE  Ahead(pipe, k, q, C) \/ OnLine(longer, q, m)
    BY DEF NoiseAnswered, NoiseInOrder
  <2>1. CASE m = Len(longer)
    BY <1>5, <2>1 DEF NoiseWaits, Ahead
  <2>2. CASE m # Len(longer)
    BY <1>2, <1>3, <2>2 DEF NoiseAnswered, NoiseInOrder
  <2> QED BY <2>1, <2>2
<1> QED BY <1>5, <1>6, <1>7 DEF NoiseInOrder, longer

(***************************************************************************)
(* The first items of the line leave it, their records being in C; the     *)
(* mark rises no further than they reach.                                  *)
(***************************************************************************)
LEMMA ConcatAt ==
    ASSUME NEW S, NEW s \in Seq(S), NEW t \in Seq(S)
    PROVE  /\ s \o t \in Seq(S) /\ Len(s) \in Nat /\ Len(t) \in Nat
           /\ Len(s \o t) = Len(s) + Len(t)
           /\ \A i \in 1 .. Len(s) : (s \o t)[i] = s[i]
           /\ \A i \in 1 .. Len(t) : (s \o t)[Len(s) + i] = t[i]
OBVIOUS

LEMMA NoiseLeaves ==
    ASSUME NEW pipe, NEW b \in Seq(Items), NEW rest \in Seq(Items),
           NEW hwm, NEW new, NEW C,
           NoiseInOrder(pipe, b \o rest, hwm, C),
           \A i \in 1 .. Len(b) : b[i].sc => b[i].rec \in C,
           \A q \in Records : new[q[1]] >= q[2] =>
               \/ hwm[q[1]] >= q[2]
               \/ \E i \in 1 .. Len(b) : b[i].sc /\ UpTo(q, b[i].rec),
           pipe \in [Nat -> Envelopes]
    PROVE  NoiseInOrder(pipe, rest, new, C)
<1> DEFINE line == b \o rest
           n == Len(b)
<1>1. /\ n \in Nat /\ Len(rest) \in Nat /\ Len(line) = n + Len(rest)
      /\ \A i \in 1 .. n : line[i] = b[i]
      /\ \A i \in 1 .. Len(rest) : line[n + i] = rest[i]
  BY ConcatAt
<1>2. NoiseInOrder(pipe, line, hwm, C)
  OBVIOUS
<1> HIDE DEF line
<1>3. ASSUME NEW q, NEW i \in 1 .. n, OnLine(line, q, i) PROVE q \in C
  <2>1. PICK j \in 1 .. i : line[j].sc /\ line[j].rec = q
    BY <1>3 DEF OnLine
  <2>2. j \in 1 .. n
    BY <1>1
  <2> QED BY <1>1, <2>1, <2>2
<1>4. ASSUME NEW q, NEW m \in 0 .. Len(rest), OnLine(line, q, n + m)
      PROVE  q \in C \/ OnLine(rest, q, m)
  <2>1. PICK i \in 1 .. n + m : line[i].sc /\ line[i].rec = q
    BY <1>4 DEF OnLine
  <2>2. CASE i <= n
    BY <1>1, <2>1, <2>2
  <2>3. CASE i > n
    <3>1. i - n \in 1 .. m /\ i - n \in 1 .. Len(rest) /\ n + (i - n) = i
      BY <1>1, <2>1, <2>3
    <3>2. rest[i - n] = line[i]
      BY <1>1, <3>1
    <3> QED BY <2>1, <3>1, <3>2 DEF OnLine
  <2> QED BY <1>1, <2>2, <2>3
<1>5. \A m \in 1 .. Len(rest) : n + m \in 1 .. Len(line) /\ rest[m] = line[n + m]
  BY <1>1
<1>6. NoiseWaits(pipe, rest, C)
  <2>1. Len(rest) \in 0 .. Len(rest)
    BY <1>1
  <2> QED BY <1>1, <1>2, <1>4, <1>5, <2>1 DEF NoiseWaits, NoiseInOrder
<1>7. NoiseReached(pipe, rest, new, C)
  BY <1>1, <1>2, <1>5 DEF NoiseReached, NoiseInOrder
<1>8. NoiseAnswered(pipe, rest, new, C)
  <2> SUFFICES ASSUME NEW k \in Nat, NEW q \in pipe[k].noise
               PROVE  /\ new[q[1]] >= q[2] => Ahead(pipe, k, q, C)
                      /\ \A m \in 1 .. Len(rest) : rest[m].sc /\ UpTo(q, rest[m].rec) =>
                              Ahead(pipe, k, q, C) \/ OnLine(rest, q, m)
    BY DEF NoiseAnswered
  <2>1. ASSUME new[q[1]] >= q[2] PROVE Ahead(pipe, k, q, C)
    <3>1. q \in Records
      BY DEF Envelopes
    <3>2. CASE hwm[q[1]] >= q[2]
      BY <1>2, <3>2 DEF NoiseAnswered, NoiseInOrder
    <3>3. ASSUME NEW i \in 1 .. n, b[i].sc, UpTo(q, b[i].rec) PROVE Ahead(pipe, k, q, C)
      <4>1. i \in 1 .. Len(line) /\ line[i] = b[i]
        BY <1>1
      <4>2. Ahead(pipe, k, q, C) \/ OnLine(line, q, i)
        BY <1>2, <3>3, <4>1 DEF NoiseAnswered, NoiseInOrder
      <4> QED BY <1>3, <4>2 DEF Ahead
    <3> QED BY <2>1, <3>1, <3>2, <3>3
  <2>2. ASSUME NEW m \in 1 .. Len(rest), rest[m].sc, UpTo(q, rest[m].rec)
        PROVE  Ahead(pipe, k, q, C) \/ OnLine(rest, q, m)
    <3>1. Ahead(pipe, k, q, C) \/ OnLine(line, q, n + m)
      BY <1>2, <1>5, <2>2 DEF NoiseAnswered, NoiseInOrder
    <3>2. m \in 0 .. Len(rest)
      OBVIOUS
    <3> QED BY <1>4, <3>1, <3>2 DEF Ahead
  <2> QED BY <2>1, <2>2
<1> QED BY <1>6, <1>7, <1>8 DEF NoiseInOrder

-----------------------------------------------------------------------------
Covered == Settled \cup Excused

LEMMA LineType ==
    ASSUME TypeOK
    PROVE  /\ wBatch["bulk"] \in Seq(Items) /\ laneQ["bulk"] \in Seq(Items)
           /\ Line \in Seq(Items)
BY ConcatAt DEF TypeOK, WriterTypeOK, Lanes, Line

LEMMA SameLine ==
    ASSUME UNCHANGED <<laneQ, wBatch>>
    PROVE  Line' = Line
BY DEF Line

LEMMA ConcatAppend ==
    ASSUME NEW s \in Seq(Items), NEW t \in Seq(Items), NEW x \in Items
    PROVE  s \o Append(t, x) = Append(s \o t, x)
OBVIOUS

LEMMA Retried ==
    ASSUME NEW item \in Items, item.retry < MaxRetries
    PROVE  [item EXCEPT !.retry = @ + 1] \in Items
BY ForwarderAssumption DEF Items

LEMMA AppendToLine ==
    ASSUME TypeOK, NEW l \in Lanes, NEW x \in Items, UNCHANGED wBatch,
           laneQ' = [laneQ EXCEPT ![l] = Append(@, x)]
    PROVE  Line' = IF l = "bulk" THEN Append(Line, x) ELSE Line
<1>1. /\ wBatch["bulk"] \in Seq(Items) /\ laneQ["bulk"] \in Seq(Items)
      /\ laneQ'["bulk"] = IF l = "bulk" THEN Append(laneQ["bulk"], x) ELSE laneQ["bulk"]
  BY LineType DEF TypeOK, WriterTypeOK, Lanes
<1>2. wBatch["bulk"] \o Append(laneQ["bulk"], x) = Append(wBatch["bulk"] \o laneQ["bulk"], x)
  BY <1>1, ConcatAppend
<1>3. l = "bulk" => Line' = wBatch["bulk"] \o Append(laneQ["bulk"], x)
  BY <1>1 DEF Line
<1>4. l # "bulk" => Line' = Line
  BY <1>1 DEF Line
<1> QED BY <1>2, <1>3, <1>4 DEF Line

LEMMA GetKeepsLine ==
    ASSUME TypeOK, NEW l \in Lanes, WriterGet(l)
    PROVE  Line' = Line
<1>1. /\ wBatch["bulk"] \in Seq(Items) /\ laneQ["bulk"] \in Seq(Items)
  BY LineType
<1>2. l # "bulk" => wBatch'["bulk"] = wBatch["bulk"] /\ laneQ'["bulk"] = laneQ["bulk"]
  BY DEF WriterGet, TypeOK, WriterTypeOK, Lanes
<1>3. l = "bulk" => /\ laneQ["bulk"] # <<>>
                    /\ wBatch'["bulk"] = Append(wBatch["bulk"], Head(laneQ["bulk"]))
                    /\ laneQ'["bulk"] = Tail(laneQ["bulk"])
  BY DEF WriterGet, TypeOK, WriterTypeOK, Lanes
<1>4. \A s, t \in Seq(Items) : t # <<>> => Append(s, Head(t)) \o Tail(t) = s \o t
  OBVIOUS
<1> QED BY <1>1, <1>2, <1>3, <1>4 DEF Line

(***************************************************************************)
(* What the bulk writer writes, or returns to the lane, leaves the line.   *)
(***************************************************************************)
LEMMA ScRecord ==
    ASSUME NEW b \in Seq(Items), NEW i \in 1 .. Len(b)
    PROVE  /\ b[i] \in Items /\ b[i].rec \in BatchRecords(b)
           /\ b[i].sc => b[i].rec \in ShortCircuited(b)
BY DEF BatchRecords, ShortCircuited, SeqRange

LEMMA ScReached ==
    ASSUME NEW b \in Seq(Items), NEW r \in ShortCircuited(b)
    PROVE  \E i \in 1 .. Len(b) : b[i].sc /\ b[i].rec = r
BY DEF ShortCircuited, SeqRange

LEMMA NoiseWritten ==
    ASSUME TypeOK, WriterWrite("bulk"), NoiseInOrder(Pipe, Line, noiseHwm, Covered),
           Covered \subseteq Covered'
    PROVE  NoiseInOrder(Pipe', Line', noiseHwm', Covered')
<1> DEFINE b == wBatch["bulk"]
           rest == laneQ["bulk"]
<1>1. b \in Seq(Items) /\ rest \in Seq(Items) /\ Line = b \o rest
  BY LineType DEF Line
<1>2. Line' = rest
  <2>1. wBatch'["bulk"] = <<>> /\ laneQ' = laneQ
    BY DEF WriterWrite, TypeOK, WriterTypeOK, Lanes
  <2> QED BY <1>1, <2>1 DEF Line
<1>3. Pipe' = Pipe /\ Pipe \in [Nat -> Envelopes]
  BY SamePipe, PipeType DEF WriterWrite, consumerVars, processorVars, batchVars
<1>4. BatchRecords(b) \subseteq Covered'
  BY DEF WriterWrite, Covered, Settled
<1>5. \A i \in 1 .. Len(b) : b[i].sc => b[i].rec \in Covered'
  BY <1>1, <1>4, ScRecord
<1>6. noiseHwm' \in Hwms /\ IsRaised(noiseHwm', noiseHwm, ShortCircuited(b))
  BY DEF WriterWrite, RecordNoisePersisted
<1>7. ASSUME NEW q \in Records, noiseHwm'[q[1]] >= q[2]
      PROVE  \/ noiseHwm[q[1]] >= q[2]
             \/ \E i \in 1 .. Len(b) : b[i].sc /\ UpTo(q, b[i].rec)
  <2>1. CASE noiseHwm'[q[1]] = noiseHwm[q[1]]
    BY <1>7, <2>1
  <2>2. CASE noiseHwm'[q[1]] # noiseHwm[q[1]]
    <3>1. PICK r \in ShortCircuited(b) : r[1] = q[1] /\ r[2] = noiseHwm'[q[1]]
      BY <1>6, <2>2 DEF IsRaised, Records
    <3>2. UpTo(q, r)
      BY <1>7, <3>1 DEF UpTo
    <3> QED BY <1>1, <3>1, <3>2, ScReached
  <2> QED BY <2>1, <2>2
<1>8. NoiseInOrder(Pipe, b \o rest, noiseHwm, Covered')
  BY <1>1, NoiseGrows
<1> HIDE DEF b, rest
<1> QED BY <1>1, <1>2, <1>3, <1>5, <1>7, <1>8, NoiseLeaves

LEMMA NoiseRequeued ==
    ASSUME TypeOK, RequeueOrDlq("bulk"), NoiseInOrder(Pipe, Line, noiseHwm, Covered),
           Covered \subseteq Covered'
    PROVE  NoiseInOrder(Pipe', Line', noiseHwm', Covered')
<1> DEFINE b == wBatch["bulk"]
           lane == laneQ["bulk"]
           item == Head(b)
           again == [item EXCEPT !.retry = @ + 1]
<1>1. b \in Seq(Items) /\ lane \in Seq(Items) /\ Line = b \o lane /\ b # <<>>
  BY LineType DEF Line, RequeueOrDlq
<1>2. Pipe' = Pipe /\ Pipe \in [Nat -> Envelopes] /\ noiseHwm' = noiseHwm
  BY SamePipe, PipeType DEF RequeueOrDlq, consumerVars, processorVars, batchVars, barrierVars
<1>3. wBatch'["bulk"] = Tail(b)
  BY DEF RequeueOrDlq, TypeOK, WriterTypeOK, Lanes
<1>4. /\ item \in Items /\ <<item>> \in Seq(Items) /\ Tail(b) \in Seq(Items)
      /\ Line[1] = item /\ 1 \in 1 .. Len(Line)
  <2>1. b[1] = item /\ 1 \in 1 .. Len(b) /\ item \in Items /\ Tail(b) \in Seq(Items)
    BY <1>1
  <2>2. /\ Len(b \o lane) = Len(b) + Len(lane) /\ Len(b) \in Nat /\ Len(lane) \in Nat
        /\ \A i \in 1 .. Len(b) : (b \o lane)[i] = b[i]
    BY <1>1, ConcatAt
  <2>4. Line = b \o lane
    BY <1>1
  <2> HIDE DEF b, lane, item
  <2>3. <<item>> \in Seq(Items)
    BY <2>1
  <2>5. 1 \in 1 .. Len(Line) /\ Line[1] = item
    BY <2>1, <2>2, <2>4
  <2> QED BY <2>1, <2>3, <2>5
<1>5. item.sc => item.rec \in Covered' /\ OnLine(Line, item.rec, Len(Line))
  <2>1. OnLine(Line, item.rec, Len(Line)) \/ ~ item.sc
    BY <1>4 DEF OnLine
  <2>2. item.retry = MaxRetries /\ item.sc => item.rec \in Covered
    BY <1>4, ForwarderAssumption DEF NoiseInOrder, NoiseWaits
  <2>3. item.retry < MaxRetries /\ item.sc =>
            item.rec \in excused'["requeued"] \cup excused'["dropped"]
    BY <1>4 DEF RequeueOrDlq, Excuse, TypeOK, GhostTypeOK, Causes, Items
  <2>4. excused'["requeued"] \cup excused'["dropped"] \subseteq Covered'
    BY DEF Covered, Excused, Causes
  <2>5. item.retry = MaxRetries \/ item.retry < MaxRetries
    BY DEF RequeueOrDlq
  <2> QED BY <2>1, <2>2, <2>3, <2>4, <2>5
<1>6. NoiseInOrder(Pipe, Line, noiseHwm, Covered')
  BY NoiseGrows
<1>7. again.sc = item.sc /\ again.rec = item.rec
  BY <1>4 DEF Items
<1>11. \/ laneQ'["bulk"] = lane
       \/ laneQ'["bulk"] = Append(lane, again) /\ again \in Items
  <2>1. CASE UNCHANGED laneQ
    BY <2>1
  <2>2. CASE item.retry < MaxRetries /\ laneQ' = [laneQ EXCEPT !["bulk"] = Append(@, again)]
    <3>1. again \in Items
      BY <1>4, <2>2, Retried
    <3>2. laneQ'["bulk"] = Append(lane, again)
      BY <2>2 DEF TypeOK, WriterTypeOK, Lanes
    <3> QED BY <3>1, <3>2
  <2> QED BY <2>1, <2>2 DEF RequeueOrDlq
<1>8. ASSUME NEW t \in Seq(Items), Line' = Tail(b) \o t,
             NoiseInOrder(Pipe, b \o t, noiseHwm, Covered')
      PROVE  NoiseInOrder(Pipe', Line', noiseHwm', Covered')
  <2>1. b \o t = <<item>> \o Line' /\ Line' \in Seq(Items)
    <3>1. \A s, u \in Seq(Items) : s # <<>> =>
              /\ s \o u = <<Head(s)>> \o (Tail(s) \o u)
              /\ Tail(s) \o u \in Seq(Items)
      OBVIOUS
    <3> QED BY <1>1, <1>8, <3>1
  <2>2. /\ Len(<<item>>) = 1
        /\ \A i \in 1 .. Len(<<item>>) : <<item>>[i] = item
    OBVIOUS
  <2>3. \A i \in 1 .. Len(<<item>>) : <<item>>[i].sc => <<item>>[i].rec \in Covered'
    BY <1>5, <2>2
  <2> QED BY <1>2, <1>4, <1>8, <2>1, <2>3, NoiseLeaves
<1>9. CASE laneQ'["bulk"] = lane
  <2>1. Line' = Tail(b) \o lane
    BY <1>3, <1>9 DEF Line
  <2> QED BY <1>1, <1>6, <1>8, <2>1
<1>10. CASE laneQ'["bulk"] = Append(lane, again) /\ again \in Items
  <2>1. Line' = Tail(b) \o Append(lane, again) /\ Append(lane, again) \in Seq(Items)
    BY <1>1, <1>3, <1>10 DEF Line
  <2>2. b \o Append(lane, again) = Append(b \o lane, again)
    BY <1>1, <1>10, ConcatAppend
  <2>3. NoiseInOrder(Pipe, Append(Line, again), noiseHwm, Covered')
    BY <1>5, <1>6, <1>7, <1>10, LineType, NoiseFollows
  <2> QED BY <1>1, <1>8, <2>1, <2>2, <2>3
<1> QED BY <1>9, <1>10, <1>11

LEMMA CoveredGrows ==
    ASSUME TypeOK, [Next]_vars
    PROVE  Covered \subseteq Covered'
BY InHandStep DEF Covered

LEMMA NoiseFetched ==
    ASSUME TypeOK, NEW p \in Partitions, Fetch(p), InOrder(Pipe, position, Covered),
           NoiseInOrder(Pipe, Line, noiseHwm, Covered)
    PROVE  NoiseInOrder(Pipe', Line', noiseHwm', Covered)
<1> DEFINE r == <<p, position[p]>>
           n == Len(recordQ) + 1
<1>1. /\ n \in Nat /\ Pipe[n] = env /\ Pipe \in [Nat -> Envelopes]
      /\ \A k \in Nat : k > n => EnvelopeRecords(Pipe[k]) = {}
  BY PipeEnd, PipeType, EmptyEnvelope DEF TypeOK, ConsumerTypeOK
<1>2. Pipe' = [Pipe EXCEPT ![n] = env'] /\ noiseHwm' = noiseHwm
  BY SplitPipe DEF Fetch, processorVars, batchVars, barrierVars
<1>3. env \in Envelopes /\ r \in Records
  BY ForwarderAssumption DEF TypeOK, ConsumerTypeOK, Fetch, Records, Offsets
<1>4. CASE ShortCircuitNoise(r)
  <2> DEFINE x == NewItem(r, TRUE)
  <2>1. x \in Items /\ x.sc /\ x.retry = 0 /\ x.rec = r
    BY <1>3, NewItemType DEF NewItem
  <2>2. Line' = Append(Line, x)
    BY <1>4, <2>1, AppendToLine DEF ShortCircuitNoise, Fetch, Lanes, writerVars
  <2>3. env'.noise = Pipe[n].noise \cup {x.rec} /\ env'.msgs = Pipe[n].msgs
    BY <1>1, <1>3, <1>4, <2>1 DEF ShortCircuitNoise, Envelopes
  <2>4. ASSUME NEW q \in Records, UpTo(q, r), q # r PROVE q \in Covered \/ In(Pipe, q)
    <3>1. q = <<q[1], q[2]>> /\ q[2] \in Int /\ position[p] \in Int
      BY ForwarderAssumption DEF Records, Offsets, TypeOK, ConsumerTypeOK
    <3>2. q[2] < position[q[1]]
      BY <2>4, <3>1 DEF UpTo
    <3> QED BY <3>2 DEF InOrder
  <2> HIDE DEF n, x, r
  <2> QED BY <1>1, <1>2, <2>1, <2>2, <2>3, <2>4, LineType, NoiseJoins
<1>5. CASE TakeFullPath(r)
  <2>1. Line' = Line
    BY <1>5, SameLine DEF TakeFullPath, Fetch, writerVars
  <2>2. env'.noise = env.noise /\ env'.msgs = Append(env.msgs, r) /\ env.msgs \in Seq(Records)
    BY <1>3, <1>5 DEF TakeFullPath, Envelopes
  <2>3. SeqRange(env.msgs) \subseteq SeqRange(env'.msgs)
    BY <1>3, <2>2 DEF SeqRange
  <2> HIDE DEF n, r
  <2> QED BY <1>1, <1>2, <2>1, <2>2, <2>3, NoiseBypassed
<1> QED BY <1>4, <1>5 DEF Fetch

LEMMA NoiseFrame ==
    ASSUME [Next]_vars
    PROVE  \/ \E p \in Partitions : Fetch(p)
           \/ FetchError \/ PutEnvelope \/ TakeEnvelope \/ Crash \/ RouteAndPublish
           \/ CommitBatch \/ CommitRaises \/ DeclineBatch
           \/ \E l \in Lanes : WriterGet(l) \/ WriterWrite(l) \/ RequeueOrDlq(l)
           \/ UNCHANGED <<cur, recordQ, env, laneQ, wBatch, noiseHwm>>
BY DEF Next, ConsumerStep, FinishSplit, PauseOnFull, ResumeAfterDrain,
       ProcessorStep, SkipRevoked, ProcessPoison, StartEvent,
       FlushAndEvaluate, AwaitNoise, AwaitSignal,
       ProducerStep, Deliver, DlqDeliver, Rebalance, OnAssign, WriterStep,
       FaultStep, HeartbeatPoll, OnRevoke, DeliveryFails, DlqDeliveryFails, WriteFails,
       Quiescent, vars, consumerVars, processorVars, batchVars, barrierVars, writerVars

LEMMA NoiseStep ==
    ASSUME TypeOK, IdleHoldsNothing, [Next]_vars, InOrder(Pipe, position, Covered),
           NoiseInOrder(Pipe, Line, noiseHwm, Covered),
           CommitBatch \/ CommitRaises \/ DeclineBatch => EnvelopeRecords(cur) \subseteq Covered'
    PROVE  NoiseInOrder(Pipe', Line', noiseHwm', Covered')
<1>1. NoiseInOrder(Pipe, Line, noiseHwm, Covered') /\ Covered \subseteq Covered'
  BY CoveredGrows, NoiseGrows
<1>2. Pipe \in [Nat -> Envelopes] /\ Pipe[0] = cur /\ Line \in Seq(Items)
  BY PipeType, PipeEnd, LineType
<1>3. ASSUME NEW p \in Partitions, Fetch(p)
      PROVE  NoiseInOrder(Pipe', Line', noiseHwm', Covered')
  <2>1. NoiseInOrder(Pipe', Line', noiseHwm', Covered)
    BY <1>3, NoiseFetched
  <2> QED BY <1>1, <2>1, NoiseGrows
<1>4. CASE FetchError
  <2>1. /\ UNCHANGED <<recordQ, cur, laneQ, wBatch, noiseHwm>>
        /\ env'.noise = env.noise /\ env'.msgs = env.msgs
    BY <1>4 DEF FetchError, processorVars, batchVars, barrierVars, writerVars, TypeOK,
                ConsumerTypeOK, Envelopes
  <2>2. /\ Pipe' = [Pipe EXCEPT ![Len(recordQ) + 1] = env'] /\ Line' = Line
        /\ Len(recordQ) + 1 \in Nat /\ Pipe[Len(recordQ) + 1] = env
    BY <2>1, SplitPipe, SameLine, PipeEnd DEF TypeOK, ConsumerTypeOK
  <2> QED BY <1>1, <1>2, <2>1, <2>2, NoiseBypassed
<1>5. CASE PutEnvelope
  <2>1. Pipe' = Pipe /\ Line' = Line /\ noiseHwm' = noiseHwm
    BY <1>5, PutPipe, SameLine DEF PutEnvelope, barrierVars, writerVars
  <2> QED BY <1>1, <2>1
<1>6. CASE TakeEnvelope
  <2>1. /\ Pipe' = Shifted(Pipe) /\ Line' = Line /\ noiseHwm' = noiseHwm
        /\ EnvelopeRecords(Pipe[0]) = {}
    BY <1>2, <1>6, TakePipe, SameLine, EmptyEnvelope
    DEF TakeEnvelope, barrierVars, writerVars, IdleHoldsNothing
  <2> QED BY <1>1, <2>1, NoiseShift
<1>7. CASE CommitBatch \/ CommitRaises \/ DeclineBatch
  <2>1. EndBatch /\ UNCHANGED <<recordQ, env, laneQ, wBatch, noiseHwm>>
    BY <1>7 DEF CommitBatch, CommitRaises, DeclineBatch, consumerVars, barrierVars, writerVars
  <2>2. Pipe' = [Pipe EXCEPT ![0] = NoEnvelope] /\ Line' = Line /\ noiseHwm' = noiseHwm
    BY <2>1, EndBatchPipe, SameLine
  <2> QED BY <1>1, <1>2, <1>7, <2>2, NoiseDrop
<1>8. CASE Crash
  <2>1. Pipe' = [k \in Nat |-> NoEnvelope]
    BY <1>8, CrashPipe
  <2>2. wBatch'["bulk"] = <<>> /\ laneQ'["bulk"] = <<>>
    BY <1>8 DEF Crash, Lanes
  <2>3. Line' = <<>>
    BY <2>2 DEF Line
  <2>4. \A q \in Records : ~ noiseHwm'[q[1]] >= q[2]
    BY <1>8, ForwarderAssumption DEF Crash, NoHwm, Records, Offsets
  <2>5. \A k \in Nat : Pipe'[k].noise = {}
    BY <2>1, EmptyEnvelope
  <2>6. 1 .. Len(Line') = {}
    BY <2>3
  <2> HIDE DEF Line
  <2> QED BY <2>4, <2>5, <2>6 DEF NoiseInOrder, NoiseWaits, NoiseReached, NoiseAnswered
<1>9. CASE RouteAndPublish
  <2> DEFINE r == Head(todo)
             x == NewItem(r, FALSE)
  <2>1. Pipe' = Pipe /\ noiseHwm' = noiseHwm /\ UNCHANGED wBatch
    BY <1>9, SamePipe DEF RouteAndPublish, consumerVars, barrierVars, writerVars
  <2>2. r \in Records /\ x \in Items /\ ~ x.sc
    BY <1>9, HeadTodo, NewItemType DEF RouteAndPublish, NewItem, TypeOK, ProcessorTypeOK
  <2>3. CASE Accepted(r)
    <3>1. Line' = Append(Line, x) \/ Line' = Line
      BY <2>1, <2>2, <2>3, AppendToLine, LaneOfType DEF Accepted
    <3> QED BY <1>1, <1>2, <2>1, <2>2, <3>1, NoiseFollows
  <2>4. CASE Refused(r)
    BY <1>1, <2>1, <2>4, SameLine DEF Refused
  <2> QED BY <1>9, <2>3, <2>4 DEF RouteAndPublish
<1>10. ASSUME NEW l \in Lanes, WriterGet(l)
       PROVE  NoiseInOrder(Pipe', Line', noiseHwm', Covered')
  <2>1. Pipe' = Pipe /\ Line' = Line /\ noiseHwm' = noiseHwm
    BY <1>10, GetKeepsLine, SamePipe
    DEF WriterGet, consumerVars, processorVars, batchVars, barrierVars
  <2> QED BY <1>1, <2>1
<1>11. ASSUME NEW l \in Lanes, l # "bulk", WriterWrite(l) \/ RequeueOrDlq(l)
       PROVE  NoiseInOrder(Pipe', Line', noiseHwm', Covered')
  <2>1. Pipe' = Pipe /\ noiseHwm' = noiseHwm
    BY <1>11, SamePipe
    DEF WriterWrite, RequeueOrDlq, consumerVars, processorVars, batchVars, barrierVars
  <2>2. wBatch'["bulk"] = wBatch["bulk"] /\ laneQ'["bulk"] = laneQ["bulk"]
    BY <1>11 DEF WriterWrite, RequeueOrDlq, TypeOK, WriterTypeOK, Lanes
  <2>3. Line' = Line
    BY <2>2 DEF Line
  <2> QED BY <1>1, <2>1, <2>3
<1>12. CASE WriterWrite("bulk") \/ RequeueOrDlq("bulk")
  BY <1>1, <1>12, NoiseWritten, NoiseRequeued
<1>13. CASE UNCHANGED <<cur, recordQ, env, laneQ, wBatch, noiseHwm>>
  <2>1. Pipe' = Pipe /\ Line' = Line /\ noiseHwm' = noiseHwm
    BY <1>13, SamePipe, SameLine
  <2> QED BY <1>1, <2>1
<1> QED
  BY <1>3, <1>4, <1>5, <1>6, <1>7, <1>8, <1>9, <1>10, <1>11, <1>12, <1>13, NoiseFrame

-----------------------------------------------------------------------------
(***************************************************************************)
(* THE BATCH.  The marks of the batch in hand are offsets of its messages. *)
(***************************************************************************)
BatchMarks ==
    /\ SeqRange(todo) \subseteq SeqRange(cur.msgs)
    /\ \A p \in Partitions : batchMax[p] >= 0 => <<p, batchMax[p]>> \in SeqRange(cur.msgs)

LEMMA RaiseMarks ==
    ASSUME NEW hwm \in Hwms, NEW r \in Records, NEW p \in Partitions
    PROVE  Raise(hwm, r)[p] = hwm[p] \/ <<p, Raise(hwm, r)[p]>> = r
BY DEF Hwms, Records, Raise

LEMMA HeadInRange ==
    ASSUME NEW S, NEW s \in Seq(S), s # <<>>
    PROVE  Head(s) \in SeqRange(s) /\ SeqRange(Tail(s)) \subseteq SeqRange(s)
<1>1. \A i \in DOMAIN Tail(s) : i + 1 \in DOMAIN s /\ Tail(s)[i] = s[i + 1]
  OBVIOUS
<1>2. Head(s) = s[1] /\ 1 \in DOMAIN s
  OBVIOUS
<1> QED BY <1>1, <1>2 DEF SeqRange

LEMMA BatchFrame ==
    ASSUME [Next]_vars
    PROVE  \/ TakeEnvelope \/ SkipRevoked \/ ProcessPoison \/ StartEvent \/ RouteAndPublish
           \/ FlushAndEvaluate \/ AwaitNoise \/ AwaitSignal
           \/ CommitBatch \/ CommitRaises \/ DeclineBatch \/ Crash
           \/ UNCHANGED <<processorVars, committed>>
           \/ UNCHANGED processorVars /\ \E P \in SUBSET Partitions : OnRevoke(P)
BY DEF Next, ConsumerStep, Fetch, FinishSplit, PutEnvelope, PauseOnFull, ResumeAfterDrain,
       ProcessorStep, ProducerStep, Deliver, DlqDeliver, Rebalance, OnAssign, WriterStep,
       WriterGet, WriterWrite, RequeueOrDlq, FaultStep, FetchError, HeartbeatPoll, OnRevoke,
       DeliveryFails, DlqDeliveryFails, WriteFails, Quiescent, vars, brokerVars

LEMMA IdleStep ==
    ASSUME IdleHoldsNothing, [Next]_vars
    PROVE  IdleHoldsNothing'
BY BatchFrame
DEF IdleHoldsNothing, TakeEnvelope, SkipRevoked, ProcessPoison, StartEvent, RouteAndPublish,
    FlushAndEvaluate, AwaitNoise, AwaitSignal, CommitBatch, CommitRaises, DeclineBatch,
    EndBatch, Crash, processorVars, batchVars

LEMMA MarksStep ==
    ASSUME TypeOK, BatchMarks, [Next]_vars
    PROVE  BatchMarks'
<1>1. CASE TakeEnvelope
  BY <1>1 DEF TakeEnvelope, BatchMarks, NoHwm
<1>2. CASE SkipRevoked
  BY <1>2, HeadInRange DEF SkipRevoked, BatchMarks, TypeOK, ProcessorTypeOK
<1>3. CASE ProcessPoison \/ RouteAndPublish
  <2>1. /\ todo # <<>> /\ todo' = Tail(todo) /\ todo \in Seq(Records)
        /\ batchMax' = Raise(batchMax, Head(todo)) /\ cur' = cur
    BY <1>3 DEF ProcessPoison, RouteAndPublish, TypeOK, ProcessorTypeOK
  <2>2. Head(todo) \in Records /\ batchMax \in Hwms
    BY <2>1, HeadTodo DEF TypeOK, ProcessorTypeOK
  <2> QED BY <2>1, <2>2, HeadInRange, RaiseMarks DEF BatchMarks
<1>4. CASE StartEvent \/ FlushAndEvaluate \/ AwaitNoise \/ AwaitSignal
  BY <1>4 DEF StartEvent, FlushAndEvaluate, AwaitNoise, AwaitSignal, BatchMarks, batchVars
<1>5. CASE CommitBatch \/ CommitRaises \/ DeclineBatch \/ Crash
  <2>1. todo' = <<>> /\ batchMax' = NoHwm
    BY <1>5 DEF CommitBatch, CommitRaises, DeclineBatch, EndBatch, Crash
  <2> QED BY <2>1 DEF BatchMarks, NoHwm, SeqRange
<1>6. CASE UNCHANGED processorVars
  BY <1>6 DEF processorVars, batchVars, BatchMarks
<1> QED BY <1>1, <1>2, <1>3, <1>4, <1>5, <1>6, BatchFrame

LEMMA MergedMark ==
    ASSUME TypeOK, BatchMarks, NEW merged \in Hwms, IsRaised(merged, batchMax, cur.noise),
           NEW p \in Partitions, merged[p] >= 0
    PROVE  <<p, merged[p]>> \in EnvelopeRecords(cur)
<1>1. CASE merged[p] = batchMax[p]
  BY <1>1 DEF BatchMarks, EnvelopeRecords
<1>2. CASE merged[p] # batchMax[p]
  <2>1. PICK s \in cur.noise : s[1] = p /\ s[2] = merged[p]
    BY <1>2 DEF IsRaised
  <2>2. s = <<p, merged[p]>>
    BY <2>1 DEF TypeOK, ProcessorTypeOK, Envelopes, Records
  <2> QED BY <2>2 DEF EnvelopeRecords
<1> QED BY <1>1, <1>2

(***************************************************************************)
(* A commit passes over nothing but records of the oldest envelope and     *)
(* what the order of the pipe puts below them.                             *)
(***************************************************************************)
LEMMA CommitPasses ==
    ASSUME TypeOK, BatchMarks, CommitMergedOffsets, NEW C,
           InOrder(Pipe, position, C), Below(committed) \subseteq C,
           EnvelopeRecords(cur) \subseteq C
    PROVE  Below(committed') \subseteq C
<1>1. PICK merged \in Hwms : /\ IsRaised(merged, batchMax, cur.noise)
                             /\ committed' = CommitTo(merged, Partitions)
  BY DEF CommitMergedOffsets
<1> SUFFICES ASSUME NEW q \in Below(committed'), q \notin Below(committed) PROVE q \in C
  OBVIOUS
<1> DEFINE p == q[1]
           r == <<p, merged[p]>>
<1>2. q \in Records /\ p \in Partitions /\ q[2] \in Int /\ merged[p] \in Int
  BY ForwarderAssumption DEF Below, Records, Offsets, Hwms
<1>3. merged[p] >= 0 /\ q[2] <= merged[p]
  BY <1>1, <1>2 DEF Below, CommitTo
<1>4. r \in EnvelopeRecords(cur)
  BY <1>1, <1>2, <1>3, MergedMark
<1>5. UpTo(q, r) /\ Pipe[0] = cur
  BY <1>3, PipeEnd DEF UpTo
<1>6. q \in C \/ \E j \in 0 .. 0 : q \in EnvelopeRecords(Pipe[j])
  BY <1>2, <1>4, <1>5 DEF InOrder
<1> QED BY <1>5, <1>6

-----------------------------------------------------------------------------
(***************************************************************************)
(* LOSS IS ACCOUNTED FOR.  The inductive invariant: the pipe and the line  *)
(* are in order with respect to what is durable or booked, a batch about   *)
(* to be committed is entirely so, and so is everything committed.         *)
(***************************************************************************)
NoisePassed ==
    ppc \in {"signal", "commit"} /\ shouldCommit => cur.noise \subseteq Covered

DeliveryInv ==
    /\ IdleHoldsNothing
    /\ BatchMarks
    /\ InOrder(Pipe, position, Covered)
    /\ NoiseInOrder(Pipe, Line, noiseHwm, Covered)
    /\ NoisePassed
    /\ LossAccounted

LEMMA InitDelivery == Init => DeliveryInv
<1> SUFFICES ASSUME Init PROVE DeliveryInv
  OBVIOUS
<1> USE DEF Init, ColdStart
<1>1. Pipe = [k \in Nat |-> NoEnvelope] /\ Line = <<>> /\ 1 .. Len(Line) = {}
  BY DEF Pipe, Line, Lanes
<1>2. \A q \in Records : ~ q[2] < position[q[1]] /\ ~ noiseHwm[q[1]] >= q[2]
  BY ForwarderAssumption DEF Records, Offsets, NoHwm
<1>3. InOrder(Pipe, position, Covered)
  BY <1>1, <1>2, EmptyEnvelope DEF InOrder
<1>4. NoiseInOrder(Pipe, Line, noiseHwm, Covered)
  <2> HIDE DEF Init, ColdStart, Line, Pipe
  <2> QED BY <1>1, <1>2, EmptyEnvelope
      DEF NoiseInOrder, NoiseWaits, NoiseReached, NoiseAnswered
<1>5. BatchMarks
  BY DEF BatchMarks, NoHwm, SeqRange
<1>6. LossAccounted
  BY ForwarderAssumption DEF LossAccounted, Below, Records, Offsets
<1> QED BY <1>3, <1>4, <1>5, <1>6 DEF DeliveryInv, IdleHoldsNothing, NoisePassed

(***************************************************************************)
(* The barrier the processor waits at is the order of the line, read for   *)
(* the oldest envelope.                                                    *)
(***************************************************************************)
LEMMA NoisePassedStep ==
    ASSUME TypeOK, BatchInv, DeliveryInv, [Next]_vars
    PROVE  NoisePassed'
<1>1. Covered \subseteq Covered'
  BY CoveredGrows
<1>2. CASE AwaitNoise
  <2> SUFFICES ASSUME shouldCommit', NEW q \in cur.noise PROVE q \in Covered'
    BY <1>2 DEF AwaitNoise, NoisePassed
  <2>1. shouldCommit /\ noiseHwm[q[1]] >= q[2] /\ ppc = "noise"
    BY <1>2 DEF AwaitNoise, NoisePersisted
  <2>2. Ahead(Pipe, 0, q, Covered) /\ Pipe[0] = cur
    BY <2>1, PipeEnd DEF DeliveryInv, NoiseInOrder, NoiseAnswered
  <2>3. SeqRange(cur.msgs) \subseteq Covered
    BY <2>1 DEF BatchInv, Covered
  <2> QED BY <1>1, <2>2, <2>3 DEF Ahead
<1>3. CASE AwaitSignal
  BY <1>1, <1>3 DEF AwaitSignal, NoisePassed, DeliveryInv
<1>4. CASE UNCHANGED processorVars
  BY <1>1, <1>4 DEF processorVars, batchVars, NoisePassed, DeliveryInv
<1> QED
  BY <1>2, <1>3, <1>4, BatchFrame
  DEF NoisePassed, TakeEnvelope, SkipRevoked, ProcessPoison, StartEvent, RouteAndPublish,
      FlushAndEvaluate, CommitBatch, CommitRaises, DeclineBatch, EndBatch, Crash

LEMMA BatchLeavesCovered ==
    ASSUME TypeOK, BatchInv, DeliveryInv, CommitBatch \/ CommitRaises \/ DeclineBatch
    PROVE  EnvelopeRecords(cur) \subseteq Covered'
<1>1. CASE CommitBatch \/ CommitRaises
  BY <1>1 DEF CommitBatch, CommitRaises, BatchInv, DeliveryInv, NoisePassed, EnvelopeRecords,
              Covered, Settled, Excused
<1>2. CASE DeclineBatch
  <2>1. EnvelopeRecords(cur) \subseteq excused'["declined"]
    BY <1>2, ExcuseGrows DEF DeclineBatch, Causes
  <2> QED BY <2>1 DEF Covered, Excused, Causes
<1> QED BY <1>1, <1>2

LEMMA PassedStep ==
    ASSUME TypeOK, BatchMarks, [Next]_vars,
           NEW C, NEW D, C \subseteq D, Excused' \subseteq D,
           InOrder(Pipe, position, C), Below(committed) \subseteq C,
           CommitBatch \/ CommitRaises => EnvelopeRecords(cur) \subseteq D
    PROVE  Below(committed') \subseteq D
<1>1. CASE UNCHANGED committed
  BY <1>1
<1>2. CASE (CommitBatch \/ CommitRaises) /\ CommitMergedOffsets
  <2>1. InOrder(Pipe, position, D)
    BY InOrderGrows
  <2> QED BY <1>2, <2>1, CommitPasses
<1>3. ASSUME NEW P \in SUBSET Partitions, OnRevoke(P), committed' # committed
      PROVE  Below(committed') \subseteq D
  <2>1. excused' = Excuse("handover", Below(committed') \ Below(committed))
    BY <1>3 DEF OnRevoke, CommitProcessed, Below
  <2>2. Below(committed') \ Below(committed) \subseteq excused'["handover"]
    BY <2>1, ExcuseGrows DEF Causes
  <2> QED BY <2>2 DEF Excused, Causes
<1> QED
  BY <1>1, <1>2, <1>3, BatchFrame
  DEF TakeEnvelope, SkipRevoked, ProcessPoison, StartEvent, RouteAndPublish,
      FlushAndEvaluate, AwaitNoise, AwaitSignal, CommitBatch, CommitRaises, DeclineBatch,
      Crash, brokerVars

LEMMA LossStep ==
    ASSUME TypeOK, BatchInv, DeliveryInv, [Next]_vars
    PROVE  LossAccounted'
<1>1. Below(committed) \subseteq Covered /\ Covered \subseteq Covered'
  BY CoveredGrows DEF DeliveryInv, LossAccounted, Covered
<1>2. Excused' \subseteq Covered'
  BY DEF Covered, Excused
<1>3. CommitBatch \/ CommitRaises => EnvelopeRecords(cur) \subseteq Covered'
  BY BatchLeavesCovered
<1>4. Below(committed') \subseteq Covered'
  BY <1>1, <1>2, <1>3, PassedStep DEF DeliveryInv
<1> QED BY <1>4 DEF LossAccounted, Covered, Below

LEMMA HeartbeatBooks ==
    ASSUME TypeOK, NEW p \in Partitions, HeartbeatPoll(p)
    PROVE  <<p, position[p]>> \in Covered'
<1>1. <<p, position[p]>> \in excused'["discarded"]
  BY ExcuseGrows DEF HeartbeatPoll, Causes
<1> QED BY <1>1 DEF Covered, Excused, Causes

LEMMA DeliveryStep ==
    ASSUME TypeOK, BatchInv, DeliveryInv, [Next]_vars
    PROVE  DeliveryInv'
<1>1. IdleHoldsNothing' /\ BatchMarks' /\ NoisePassed' /\ LossAccounted'
  BY IdleStep, MarksStep, NoisePassedStep, LossStep DEF DeliveryInv
<1>2. InOrder(Pipe', position', Covered')
  BY CoveredGrows, BatchLeavesCovered, HeartbeatBooks, OrderStep
  DEF DeliveryInv, LossAccounted, Covered
<1>3. NoiseInOrder(Pipe', Line', noiseHwm', Covered')
  BY BatchLeavesCovered, NoiseStep DEF DeliveryInv
<1> QED BY <1>1, <1>2, <1>3
        DEF DeliveryInv, InOrder, In, NoiseInOrder, NoiseWaits, NoiseReached, NoiseAnswered,
            Ahead, OnLine

(***************************************************************************)
(* Whatever the queue sizes, the number of partitions and the faults, the  *)
(* group's offsets pass over a record only if it is durable or its loss is *)
(* booked.                                                                 *)
(***************************************************************************)
THEOREM LossIsAccounted == Spec => []LossAccounted
<1>1. Spec => []BatchInv
  <2>1. TypeOK /\ BatchInv /\ [Next]_vars => BatchInv'
    BY BatchStep
  <2> QED BY InitBatch, TypeCorrect, <2>1, PTL DEF Spec
<1>2. TypeOK /\ BatchInv /\ DeliveryInv /\ [Next]_vars => DeliveryInv'
  BY DeliveryStep
<1>3. DeliveryInv => LossAccounted
  BY DEF DeliveryInv
<1> QED BY InitDelivery, TypeCorrect, <1>1, <1>2, <1>3, PTL DEF Spec

-----------------------------------------------------------------------------
(***************************************************************************)
(* THE CONTRACT.  Each step of the pipeline either handles records or      *)
(* moves the offsets over records handled by then.                         *)
(***************************************************************************)
LEMMA ContractStep ==
    ASSUME TypeOK, TypeOK', LossAccounted', [Next]_vars
    PROVE  [Contract!Next]_(Contract!vars)
<1>1. /\ topics \subseteq topics' /\ dlq \subseteq dlq' /\ pg \subseteq pg'
      /\ Excused \subseteq Excused'
  BY LedgerStep, ExcusedGrows
<1>2. Settled \subseteq Settled'
  BY <1>1 DEF Settled
<1>3. Settled' \in SUBSET Records /\ Excused' \in SUBSET Records
  BY DEF TypeOK, BrokerTypeOK, GhostTypeOK, Settled, Excused
<1>4. Contract!Records = Records
  BY DEF Contract!Records, Records, Offsets
<1>5. CASE UNCHANGED committed
  BY <1>1, <1>2, <1>3, <1>4, <1>5 DEF Contract!Next, Contract!Handle
<1>6. CASE UNCHANGED <<topics, dlq, pg>>
  <2>1. Settled' = Settled
    BY <1>6 DEF Settled
  <2>2. committed' \in [Partitions -> 0 .. LogEnd]
    BY DEF TypeOK, BrokerTypeOK
  <2>3. Contract!PassedOver(committed') \subseteq Settled \cup Excused'
    BY <1>4, <2>1 DEF LossAccounted, Below, Contract!PassedOver
  <2> QED BY <1>1, <1>3, <1>4, <2>1, <2>2, <2>3 DEF Contract!Next, Contract!Advance
<1> QED
  BY <1>5, <1>6, BatchFrame
  DEF TakeEnvelope, SkipRevoked, ProcessPoison, StartEvent, RouteAndPublish,
      FlushAndEvaluate, AwaitNoise, AwaitSignal, CommitBatch, CommitRaises, DeclineBatch,
      Crash, OnRevoke, brokerVars

(***************************************************************************)
(* The pipeline implements the delivery contract, for all constants and    *)
(* every fault budget.                                                     *)
(***************************************************************************)
THEOREM ImplementsContract == Spec => RefinesContract
<1>1. Init => Contract!Init
  BY DEF Init, Contract!Init, Settled, Excused
<1>2. TypeOK /\ TypeOK' /\ LossAccounted' /\ [Next]_vars => [Contract!Next]_(Contract!vars)
  BY ContractStep
<1> QED BY <1>1, <1>2, TypeCorrect, LossIsAccounted, PTL DEF Spec, RefinesContract, Contract!Spec

-----------------------------------------------------------------------------
(***************************************************************************)
(* THE NOISE BARRIER.  A short-circuited record of any envelope is carried *)
(* by the bulk lane or its writer, is acknowledged, or was given up.       *)
(***************************************************************************)
Fed(r) == noiseHwm[r[1]] >= r[2] \/ OnLine(Line, r, Len(Line)) \/ r \in GivenUp

NoiseFed == \A k \in Nat : \A r \in Pipe[k].noise : Fed(r)

LEMMA GivenUpKept ==
    ASSUME TypeOK, [Next]_vars, ~ Crash
    PROVE  GivenUp \subseteq GivenUp'
<1>1. /\ dlqOutbox \subseteq dlqOutbox' \cup dlq' \cup excused'["unpublished"]
      /\ dlq \subseteq dlq' /\ BookKept
  BY LedgerStep DEF DeliveryFails
<1> QED BY <1>1 DEF GivenUp, BookKept, Causes

LEMMA OnLineAfter ==
    ASSUME NEW b \in Seq(Items), NEW rest \in Seq(Items), NEW r,
           OnLine(b \o rest, r, Len(b \o rest))
    PROVE  (\E i \in 1 .. Len(b) : b[i].sc /\ b[i].rec = r) \/ OnLine(rest, r, Len(rest))
<1>1. /\ Len(b) \in Nat /\ Len(rest) \in Nat /\ Len(b \o rest) = Len(b) + Len(rest)
      /\ \A i \in 1 .. Len(b) : (b \o rest)[i] = b[i]
      /\ \A i \in 1 .. Len(rest) : (b \o rest)[Len(b) + i] = rest[i]
  BY ConcatAt
<1>2. PICK n \in 1 .. Len(b \o rest) : (b \o rest)[n].sc /\ (b \o rest)[n].rec = r
  BY DEF OnLine
<1>3. CASE n <= Len(b)
  BY <1>1, <1>2, <1>3
<1>4. CASE n > Len(b)
  <2>1. n - Len(b) \in 1 .. Len(rest) /\ Len(b) + (n - Len(b)) = n
    BY <1>1, <1>4
  <2>2. rest[n - Len(b)] = (b \o rest)[n]
    BY <1>1, <2>1
  <2> QED BY <1>2, <2>1, <2>2 DEF OnLine
<1> QED BY <1>1, <1>3, <1>4

LEMMA OnLineLonger ==
    ASSUME NEW line \in Seq(Items), NEW x \in Items, NEW r,
           OnLine(line, r, Len(line)) \/ (x.sc /\ x.rec = r)
    PROVE  OnLine(Append(line, x), r, Len(Append(line, x)))
<1>1. /\ Len(line) \in Nat /\ Len(Append(line, x)) = Len(line) + 1
      /\ Append(line, x)[Len(line) + 1] = x
      /\ \A i \in 1 .. Len(line) : Append(line, x)[i] = line[i]
  BY AppendAt
<1> QED BY <1>1 DEF OnLine

LEMMA WriteFeeds ==
    ASSUME TypeOK, WriterWrite("bulk"), GivenUp \subseteq GivenUp',
           NEW r \in Records, Fed(r)
    PROVE  Fed(r)'
<1> DEFINE b == wBatch["bulk"]
<1>1. /\ b \in Seq(Items) /\ laneQ["bulk"] \in Seq(Items) /\ Line = b \o laneQ["bulk"]
      /\ wBatch'["bulk"] = <<>> /\ laneQ' = laneQ
  BY LineType DEF Line, WriterWrite, TypeOK, WriterTypeOK, Lanes
<1>2. Line' = laneQ["bulk"]
  BY <1>1 DEF Line
<1>3. noiseHwm \in Hwms /\ noiseHwm' \in Hwms /\ IsRaised(noiseHwm', noiseHwm, ShortCircuited(b))
  BY DEF WriterWrite, RecordNoisePersisted, TypeOK, SharedTypeOK
<1>4. \A p \in Partitions : noiseHwm'[p] >= noiseHwm[p] /\ noiseHwm'[p] \in Int /\ noiseHwm[p] \in Int
  BY <1>3 DEF IsRaised, Hwms, Offsets
<1>5. r[1] \in Partitions /\ r[2] \in Int
  BY DEF Records, Offsets
<1>6. CASE noiseHwm[r[1]] >= r[2]
  BY <1>4, <1>5, <1>6 DEF Fed
<1>7. CASE OnLine(Line, r, Len(Line))
  <2>1. CASE \E i \in 1 .. Len(b) : b[i].sc /\ b[i].rec = r
    <3>1. r \in ShortCircuited(b)
      BY <1>1, <2>1, ScRecord
    <3> QED BY <1>3, <1>5, <3>1 DEF IsRaised, Fed
  <2> HIDE DEF b
  <2> QED BY <1>1, <1>2, <1>7, <2>1, OnLineAfter DEF Fed
<1> QED BY <1>6, <1>7 DEF Fed

LEMMA RequeueFeeds ==
    ASSUME TypeOK, RequeueOrDlq("bulk"), GivenUp \subseteq GivenUp',
           NEW r \in Records, Fed(r)
    PROVE  Fed(r)'
<1> DEFINE b == wBatch["bulk"]
           lane == laneQ["bulk"]
           item == Head(b)
           again == [item EXCEPT !.retry = @ + 1]
           first == <<item>>
           rest == Tail(b) \o lane
<1>1. /\ b \in Seq(Items) /\ lane \in Seq(Items) /\ b # <<>> /\ noiseHwm' = noiseHwm
      /\ wBatch'["bulk"] = Tail(b)
  BY LineType DEF RequeueOrDlq, TypeOK, WriterTypeOK, Lanes, barrierVars
<1>2. /\ item \in Items /\ first \in Seq(Items) /\ Tail(b) \in Seq(Items)
      /\ Line = first \o rest /\ rest \in Seq(Items)
  <2>1. \A s, u \in Seq(Items) : s # <<>> =>
            /\ s \o u = <<Head(s)>> \o (Tail(s) \o u)
            /\ Tail(s) \o u \in Seq(Items) /\ Head(s) \in Items /\ Tail(s) \in Seq(Items)
            /\ <<Head(s)>> \in Seq(Items)
    OBVIOUS
  <2> QED BY <1>1, <2>1 DEF Line
<1>3. CASE ~ OnLine(Line, r, Len(Line))
  BY <1>1, <1>3 DEF Fed
<1>4. CASE OnLine(Line, r, Len(Line))
  <2>1. (item.sc /\ item.rec = r) \/ OnLine(rest, r, Len(rest))
    <3>1. Len(first) = 1 /\ first[1] = item
      OBVIOUS
    <3> HIDE DEF item, first, rest
    <3>2. (\E i \in 1 .. Len(first) : first[i].sc /\ first[i].rec = r) \/ OnLine(rest, r, Len(rest))
      BY <1>2, <1>4, OnLineAfter
    <3>3. \A i \in 1 .. Len(first) : first[i] = item
      BY <3>1
    <3> QED BY <3>2, <3>3
  <2>2. CASE /\ item.retry < MaxRetries /\ laneQ' = [laneQ EXCEPT !["bulk"] = Append(@, again)]
    <3>1. again \in Items /\ again.sc = item.sc /\ again.rec = item.rec
      BY <1>2, <2>2, Retried DEF Items
    <3>2. laneQ'["bulk"] = Append(lane, again)
      BY <2>2 DEF TypeOK, WriterTypeOK, Lanes
    <3>3. Tail(b) \o Append(lane, again) = Append(rest, again)
      BY <1>1, <1>2, <3>1, ConcatAppend
    <3>4. Line' = Append(rest, again)
      BY <1>1, <3>2, <3>3 DEF Line
    <3>5. OnLine(Append(rest, again), r, Len(Append(rest, again)))
      <4> HIDE DEF item, again, rest
      <4> QED BY <1>2, <2>1, <3>1, OnLineLonger
    <3> HIDE DEF again, rest
    <3> QED BY <3>4, <3>5 DEF Fed
  <2>3. CASE laneQ' = laneQ /\ item.rec \in GivenUp'
    <3>1. Line' = rest
      BY <1>1, <2>3 DEF Line
    <3> HIDE DEF item, rest
    <3> QED BY <2>1, <2>3, <3>1 DEF Fed
  <2>4. CASE SendToDlq(item.rec) /\ laneQ' = laneQ
    <3>1. item.rec \in GivenUp'
      BY <1>2, <2>4, SendToDlqBooks DEF GivenUp, Items
    <3> QED BY <2>3, <2>4, <3>1
  <2>5. CASE excused' = Excuse("dropped", {item.rec}) /\ laneQ' = laneQ
    <3>1. item.rec \in GivenUp'
      BY <2>5, ExcuseGrows DEF GivenUp, Causes
    <3> QED BY <2>3, <2>5, <3>1
  <2> QED BY <2>2, <2>4, <2>5 DEF RequeueOrDlq
<1> QED BY <1>3, <1>4

LEMMA StaysFed ==
    ASSUME TypeOK, [Next]_vars, ~ Crash, NEW r \in Records, Fed(r)
    PROVE  Fed(r)'
<1>1. GivenUp \subseteq GivenUp' /\ Line \in Seq(Items)
  BY GivenUpKept, LineType
<1>2. ASSUME Line' = Line \/ \E x \in Items : Line' = Append(Line, x), noiseHwm' = noiseHwm
      PROVE  Fed(r)'
  <2>1. CASE OnLine(Line, r, Len(Line))
    <3>1. OnLine(Line', r, Len(Line'))
      BY <1>1, <1>2, <2>1, OnLineLonger
    <3> QED BY <3>1 DEF Fed
  <2>2. CASE noiseHwm[r[1]] >= r[2] \/ r \in GivenUp
    BY <1>1, <1>2, <2>2 DEF Fed
  <2> QED BY <2>1, <2>2 DEF Fed
<1>3. ASSUME NEW p \in Partitions, Fetch(p) PROVE Fed(r)'
  <2> DEFINE q == <<p, position[p]>>
  <2>1. q \in Records /\ UNCHANGED <<wBatch, noiseHwm>>
    BY <1>3, ForwarderAssumption DEF TypeOK, ConsumerTypeOK, Fetch, Records, Offsets,
                                     barrierVars, writerVars
  <2>2. CASE ShortCircuitNoise(q)
    BY <1>2, <2>1, <2>2, NewItemType, AppendToLine DEF ShortCircuitNoise, Lanes
  <2>3. CASE TakeFullPath(q)
    BY <1>2, <2>1, <2>3, SameLine DEF TakeFullPath
  <2> QED BY <1>3, <2>2, <2>3 DEF Fetch
<1>4. CASE RouteAndPublish
  <2> DEFINE q == Head(todo)
  <2>1. q \in Records /\ UNCHANGED <<wBatch, noiseHwm>>
    BY <1>4, HeadTodo DEF RouteAndPublish, TypeOK, ProcessorTypeOK, barrierVars, writerVars
  <2>2. CASE Accepted(q)
    BY <1>2, <2>1, <2>2, NewItemType, LaneOfType, AppendToLine DEF Accepted
  <2>3. CASE Refused(q)
    BY <1>2, <2>1, <2>3, SameLine DEF Refused
  <2> QED BY <1>4, <2>2, <2>3 DEF RouteAndPublish
<1>5. ASSUME NEW l \in Lanes, WriterGet(l) \/ WriterWrite(l) \/ RequeueOrDlq(l) PROVE Fed(r)'
  <2>1. CASE WriterGet(l)
    BY <1>2, <2>1, GetKeepsLine DEF WriterGet, barrierVars
  <2>2. CASE l # "bulk" /\ (WriterWrite(l) \/ RequeueOrDlq(l))
    <3>1. /\ wBatch'["bulk"] = wBatch["bulk"] /\ laneQ'["bulk"] = laneQ["bulk"]
          /\ noiseHwm' = noiseHwm
      BY <2>2 DEF WriterWrite, RequeueOrDlq, TypeOK, WriterTypeOK, Lanes, barrierVars
    <3>2. Line' = Line
      BY <3>1 DEF Line
    <3> QED BY <1>2, <3>1, <3>2
  <2> QED BY <1>1, <1>5, <2>1, <2>2, WriteFeeds, RequeueFeeds
<1>6. CASE UNCHANGED <<laneQ, wBatch, noiseHwm>>
  BY <1>2, <1>6, SameLine
<1> QED
  BY <1>3, <1>4, <1>5, <1>6, NoiseFrame
  DEF FetchError, PutEnvelope, TakeEnvelope, CommitBatch, CommitRaises, DeclineBatch,
      barrierVars, writerVars

LEMMA NoiseEnters ==
    ASSUME TypeOK, [Next]_vars, NEW k \in Nat, NEW r \in Pipe'[k].noise
    PROVE  (\E j \in Nat : r \in Pipe[j].noise) \/ Fed(r)'
<1>1. /\ Pipe \in [Nat -> Envelopes] /\ Len(recordQ) + 1 \in Nat
      /\ Pipe[Len(recordQ) + 1] = env
  BY PipeType, PipeEnd DEF TypeOK, ConsumerTypeOK
<1>2. ASSUME NEW p \in Partitions, Fetch(p)
      PROVE  (\E j \in Nat : r \in Pipe[j].noise) \/ Fed(r)'
  <2> DEFINE q == <<p, position[p]>>
             x == NewItem(q, TRUE)
  <2>1. Pipe' = [Pipe EXCEPT ![Len(recordQ) + 1] = env']
    BY <1>2, SplitPipe DEF Fetch, processorVars, batchVars
  <2>2. CASE r \in env'.noise /\ r \notin env.noise
    <3>0. env \in Envelopes
      BY DEF TypeOK, ConsumerTypeOK
    <3>1. r = q /\ ShortCircuitNoise(q)
      <4>1. CASE ShortCircuitNoise(q)
        <5>1. env'.noise = env.noise \cup {q}
          BY <3>0, <4>1 DEF ShortCircuitNoise, Envelopes
        <5> QED BY <2>2, <4>1, <5>1
      <4>2. CASE TakeFullPath(q)
        <5>1. env'.noise = env.noise
          BY <3>0, <4>2 DEF TakeFullPath, Envelopes
        <5> QED BY <2>2, <5>1
      <4> QED BY <1>2, <4>1, <4>2 DEF Fetch
    <3>2. q \in Records
      BY <1>2, ForwarderAssumption DEF TypeOK, ConsumerTypeOK, Fetch, Records, Offsets
    <3>3. x \in Items /\ x.sc /\ x.rec = q
      BY <3>2, NewItemType DEF NewItem
    <3>4. Line' = Append(Line, x)
      BY <1>2, <3>1, <3>3, AppendToLine DEF ShortCircuitNoise, Fetch, Lanes, writerVars
    <3> HIDE DEF q, x
    <3> QED BY <3>1, <3>3, <3>4, LineType, OnLineLonger DEF Fed
  <2> QED BY <1>1, <2>1, <2>2
<1>3. CASE FetchError
  <2>1. Pipe' = [Pipe EXCEPT ![Len(recordQ) + 1] = env'] /\ env'.noise = env.noise
    BY <1>3, SplitPipe DEF FetchError, processorVars, batchVars, TypeOK, ConsumerTypeOK, Envelopes
  <2> QED BY <1>1, <2>1
<1>4. CASE PutEnvelope \/ UNCHANGED <<cur, recordQ, env>>
  BY <1>4, PutPipe, SamePipe
<1>5. CASE TakeEnvelope
  <2>1. Pipe'[k] = Pipe[k + 1] /\ k + 1 \in Nat
    BY <1>5, TakePipe DEF Shifted
  <2> QED BY <2>1
<1>6. CASE CommitBatch \/ CommitRaises \/ DeclineBatch
  <2>1. Pipe' = [Pipe EXCEPT ![0] = NoEnvelope]
    BY <1>6, EndBatchPipe DEF CommitBatch, CommitRaises, DeclineBatch, consumerVars
  <2> QED BY <1>1, <2>1, EmptyEnvelope
<1>7. CASE Crash
  BY <1>7, CrashPipe, EmptyEnvelope
<1> QED
  BY <1>2, <1>3, <1>4, <1>5, <1>6, <1>7, PipeFrame
  DEF HeartbeatPoll, OnAssign, processorVars, batchVars

LEMMA NoiseFedStep ==
    ASSUME TypeOK, NoiseFed, [Next]_vars
    PROVE  NoiseFed'
<1>1. CASE Crash
  BY <1>1, CrashPipe, EmptyEnvelope DEF NoiseFed
<1>2. CASE ~ Crash
  <2> SUFFICES ASSUME NEW k \in Nat, NEW r \in Pipe'[k].noise PROVE Fed(r)'
    BY DEF NoiseFed
  <2>1. ASSUME NEW j \in Nat, r \in Pipe[j].noise PROVE Fed(r)'
    <3>1. r \in Records /\ Fed(r)
      BY <2>1, PipeType DEF Envelopes, NoiseFed
    <3> QED BY <1>2, <3>1, StaysFed
  <2> QED BY <2>1, NoiseEnters
<1> QED BY <1>1, <1>2

(***************************************************************************)
(* The noise barrier never waits for a record that nobody holds: it is in  *)
(* the bulk lane or its writer's batch, acknowledged, or given up.         *)
(***************************************************************************)
THEOREM BarrierIsFed == Spec => []NoiseBarrierFed
<1>1. Init => NoiseFed
  <2>1. Init => Pipe = [k \in Nat |-> NoEnvelope]
    BY DEF Init, ColdStart, Pipe
  <2> QED BY <2>1, EmptyEnvelope DEF NoiseFed
<1>2. TypeOK /\ NoiseFed /\ [Next]_vars => NoiseFed'
  BY NoiseFedStep
<1>3. TypeOK /\ NoiseFed => NoiseBarrierFed
  <2> SUFFICES ASSUME TypeOK, NoiseFed, NEW r \in cur.noise
               PROVE  noiseHwm[r[1]] >= r[2] \/ r \in Carried("bulk") \cup GivenUp
    BY DEF NoiseBarrierFed
  <2>1. Fed(r)
    BY PipeEnd DEF NoiseFed
  <2>2. CASE OnLine(Line, r, Len(Line))
    <3>1. /\ wBatch["bulk"] \in Seq(Items) /\ laneQ["bulk"] \in Seq(Items)
          /\ Line = wBatch["bulk"] \o laneQ["bulk"]
      BY LineType DEF Line
    <3>2. \/ \E i \in 1 .. Len(wBatch["bulk"]) : wBatch["bulk"][i].rec = r
          \/ OnLine(laneQ["bulk"], r, Len(laneQ["bulk"]))
      BY <2>2, <3>1, OnLineAfter
    <3>3. \/ \E i \in 1 .. Len(wBatch["bulk"]) : wBatch["bulk"][i].rec = r
          \/ \E i \in 1 .. Len(laneQ["bulk"]) : laneQ["bulk"][i].rec = r
      BY <3>2 DEF OnLine
    <3> QED BY <3>1, <3>3 DEF Carried, SeqRange
  <2> QED BY <2>1, <2>2 DEF Fed
<1> QED BY <1>1, <1>2, <1>3, TypeCorrect, PTL DEF Spec

-----------------------------------------------------------------------------
(***************************************************************************)
(* WHAT A COMMIT SAYS of Postgres, and when the promise of at-least-once   *)
(* delivery holds without exceptions.  Each theorem names the faults it    *)
(* excludes; everything else is for every value of Forwarder's constants.  *)
(***************************************************************************)
(***************************************************************************)
(* FAULTS THAT MAY NOT OCCUR.  A budget that starts at zero stays there.   *)
(***************************************************************************)
Never(f) == budget[f] = 0

LEMMA SpendOnce ==
    ASSUME TypeOK, NEW f \in Faults, NEW g \in Faults, Spend(f), Never(g)
    PROVE  f # g /\ Never(g)'
BY DEF Spend, Never, TypeOK, GhostTypeOK

LEMMA BudgetFrame ==
    ASSUME [Next]_vars
    PROVE  UNCHANGED budget \/ \E f \in Faults : Spend(f)
<1> USE DEF Faults
<1>1. CASE UNCHANGED vars \/ Quiescent
  BY <1>1 DEF vars, Quiescent
<1>2. CASE ConsumerStep \/ Rebalance \/ ProducerStep
  BY <1>2 DEF ConsumerStep, Rebalance, ProducerStep, Fetch, FinishSplit, PutEnvelope,
              PauseOnFull, ResumeAfterDrain, OnAssign, Deliver, DlqDeliver
<1>3. CASE ProcessPoison \/ RouteAndPublish
  BY <1>3 DEF ProcessPoison, RouteAndPublish, SendToDlq, Publish
<1>4. CASE ProcessorStep /\ ~ ProcessPoison /\ ~ RouteAndPublish
  BY <1>4 DEF ProcessorStep, TakeEnvelope, SkipRevoked, StartEvent, FlushAndEvaluate,
              AwaitNoise, AwaitSignal, CommitBatch, DeclineBatch
<1>5. ASSUME NEW l \in Lanes, WriterStep(l) PROVE UNCHANGED budget \/ \E f \in Faults : Spend(f)
  BY <1>5 DEF WriterStep, WriterGet, WriterWrite, RequeueOrDlq, SendToDlq
<1>6. CASE FaultStep
  BY <1>6 DEF FaultStep, FetchError, HeartbeatPoll, OnRevoke, CommitRaises, DeliveryFails,
              DlqDeliveryFails, WriteFails, Crash
<1> QED BY <1>1, <1>2, <1>3, <1>4, <1>5, <1>6 DEF Next

LEMMA NeverStep ==
    ASSUME TypeOK, [Next]_vars, NEW g \in Faults, Never(g)
    PROVE  Never(g)' /\ ~ Spend(g)
<1>1. ~ Spend(g)
  BY DEF Never, Spend
<1> QED BY <1>1, BudgetFrame, SpendOnce DEF Never

LEMMA InitNever ==
    ASSUME NEW g \in Faults, \A b \in FaultBudgets : b[g] = 0, Init
    PROVE  Never(g)
BY DEF Init, Never

-----------------------------------------------------------------------------
(***************************************************************************)
(* THE LANES.  What a lane or its writer carries stays there until it has  *)
(* a row or is given up.                                                   *)
(***************************************************************************)
LEMMA CarriedIs ==
    \A l \in Lanes : Carried(l) = BatchRecords(laneQ[l]) \cup BatchRecords(wBatch[l])
BY DEF Carried, BatchRecords

LEMMA AppendRecords ==
    ASSUME NEW s \in Seq(Items), NEW x \in Items
    PROVE  BatchRecords(Append(s, x)) = BatchRecords(s) \cup {x.rec}
<1>1. /\ DOMAIN Append(s, x) = 1 .. Len(s) + 1 /\ DOMAIN s = 1 .. Len(s) /\ Len(s) \in Nat
      /\ Append(s, x)[Len(s) + 1] = x
      /\ \A i \in 1 .. Len(s) : Append(s, x)[i] = s[i]
  OBVIOUS
<1>2. SeqRange(Append(s, x)) = SeqRange(s) \cup {x}
  BY <1>1 DEF SeqRange
<1> QED BY <1>2 DEF BatchRecords

LEMMA HeadRecords ==
    ASSUME NEW s \in Seq(Items), s # <<>>
    PROVE  BatchRecords(s) \subseteq {Head(s).rec} \cup BatchRecords(Tail(s))
BY HeadTailRange DEF BatchRecords

LEMMA LanesType ==
    ASSUME TypeOK, NEW l \in Lanes
    PROVE  laneQ[l] \in Seq(Items) /\ wBatch[l] \in Seq(Items)
BY DEF TypeOK, WriterTypeOK

LEMMA AppendCarries ==
    ASSUME TypeOK, NEW m \in Lanes, NEW x \in Items, UNCHANGED wBatch,
           laneQ' = [laneQ EXCEPT ![m] = Append(@, x)], NEW l \in Lanes
    PROVE  Carried(l)' = IF l = m THEN Carried(l) \cup {x.rec} ELSE Carried(l)
<1>1. laneQ'[l] = IF l = m THEN Append(laneQ[l], x) ELSE laneQ[l]
  BY DEF TypeOK, WriterTypeOK
<1>2. Carried(l) = BatchRecords(laneQ[l]) \cup BatchRecords(wBatch[l])
  BY CarriedIs
<1>3. Carried(l)' = BatchRecords(laneQ'[l]) \cup BatchRecords(wBatch[l])
  BY DEF Carried, BatchRecords
<1> QED BY <1>1, <1>2, <1>3, AppendRecords, LanesType

LEMMA RequeueCarries ==
    ASSUME TypeOK, NEW l \in Lanes, RequeueOrDlq(l), NEW r \in Carried(l)
    PROVE  r \in Carried(l)' \cup GivenUp'
<1> DEFINE b == wBatch[l]
           item == Head(b)
           again == [item EXCEPT !.retry = @ + 1]
<1>1. /\ b \in Seq(Items) /\ b # <<>> /\ laneQ[l] \in Seq(Items)
      /\ wBatch'[l] = Tail(b) /\ item \in Items
  BY LanesType DEF RequeueOrDlq, TypeOK, WriterTypeOK
<1>2. BatchRecords(b) \subseteq {item.rec} \cup BatchRecords(Tail(b))
  BY <1>1, HeadRecords
<1>3. /\ Carried(l) = BatchRecords(laneQ[l]) \cup BatchRecords(b)
      /\ Carried(l)' = BatchRecords(laneQ'[l]) \cup BatchRecords(Tail(b))
  BY <1>1, CarriedIs DEF Carried, BatchRecords
<1>4. CASE item.retry < MaxRetries /\ laneQ' = [laneQ EXCEPT ![l] = Append(@, again)]
  <2>1. again \in Items /\ again.rec = item.rec
    BY <1>1, <1>4, Retried DEF Items
  <2>2. laneQ'[l] = Append(laneQ[l], again)
    BY <1>4 DEF TypeOK, WriterTypeOK
  <2> HIDE DEF again, item, b
  <2>3. BatchRecords(laneQ'[l]) = BatchRecords(laneQ[l]) \cup {item.rec}
    BY <1>1, <2>1, <2>2, AppendRecords
  <2> QED BY <1>2, <1>3, <2>3
<1>5. CASE laneQ' = laneQ /\ item.rec \in GivenUp'
  BY <1>2, <1>3, <1>5
<1>6. CASE SendToDlq(item.rec) /\ laneQ' = laneQ
  BY <1>1, <1>5, <1>6, SendToDlqBooks DEF GivenUp
<1>7. CASE excused' = Excuse("dropped", {item.rec}) /\ laneQ' = laneQ
  BY <1>5, <1>7, ExcuseGrows DEF GivenUp, Causes
<1> QED BY <1>4, <1>6, <1>7 DEF RequeueOrDlq

LEMMA LaneFrame ==
    ASSUME [Next]_vars
    PROVE  \/ \E p \in Partitions : Fetch(p)
           \/ RouteAndPublish \/ Crash
           \/ \E l \in Lanes : WriterGet(l) \/ WriterWrite(l) \/ RequeueOrDlq(l)
           \/ UNCHANGED <<laneQ, wBatch>>
BY DEF Next, ConsumerStep, FinishSplit, PutEnvelope, PauseOnFull, ResumeAfterDrain,
       ProcessorStep, TakeEnvelope, SkipRevoked, ProcessPoison, StartEvent,
       FlushAndEvaluate, AwaitNoise, AwaitSignal, CommitBatch, DeclineBatch,
       ProducerStep, Deliver, DlqDeliver, Rebalance, OnAssign, WriterStep,
       FaultStep, FetchError, HeartbeatPoll, OnRevoke, CommitRaises, DeliveryFails,
       DlqDeliveryFails, WriteFails, Quiescent, vars, writerVars

LEMMA CarriedStays ==
    ASSUME TypeOK, [Next]_vars, ~ Crash, NEW l \in Lanes, NEW r \in Carried(l)
    PROVE  r \in Carried(l)' \cup pg' \cup GivenUp'
<1>1. ASSUME NEW p \in Partitions, Fetch(p) PROVE r \in Carried(l)'
  <2> DEFINE q == <<p, position[p]>>
  <2>1. q \in Records /\ UNCHANGED wBatch
    BY <1>1, ForwarderAssumption DEF TypeOK, ConsumerTypeOK, Fetch, Records, Offsets, writerVars
  <2>2. CASE ShortCircuitNoise(q)
    BY <2>1, <2>2, NewItemType, AppendCarries DEF ShortCircuitNoise, Lanes
  <2>3. CASE TakeFullPath(q)
    BY <2>1, <2>3 DEF TakeFullPath, Carried
  <2> QED BY <1>1, <2>2, <2>3 DEF Fetch
<1>2. CASE RouteAndPublish
  <2> DEFINE q == Head(todo)
  <2>1. q \in Records /\ UNCHANGED wBatch
    BY <1>2, HeadTodo DEF RouteAndPublish, TypeOK, ProcessorTypeOK, writerVars
  <2>2. CASE Accepted(q)
    BY <2>1, <2>2, NewItemType, LaneOfType, AppendCarries DEF Accepted
  <2>3. CASE Refused(q)
    BY <2>1, <2>3 DEF Refused, Carried
  <2> QED BY <1>2, <2>2, <2>3 DEF RouteAndPublish
<1>3. ASSUME NEW m \in Lanes, m # l, WriterGet(m) \/ WriterWrite(m) \/ RequeueOrDlq(m)
      PROVE  r \in Carried(l)'
  <2>1. laneQ'[l] = laneQ[l] /\ wBatch'[l] = wBatch[l]
    BY <1>3 DEF WriterGet, WriterWrite, RequeueOrDlq, TypeOK, WriterTypeOK
  <2> QED BY <2>1 DEF Carried
<1>4. CASE WriterGet(l)
  <2>1. /\ laneQ[l] \in Seq(Items) /\ laneQ[l] # <<>> /\ wBatch[l] \in Seq(Items)
        /\ Head(laneQ[l]) \in Items
        /\ wBatch'[l] = Append(wBatch[l], Head(laneQ[l])) /\ laneQ'[l] = Tail(laneQ[l])
    BY <1>4, LanesType DEF WriterGet, TypeOK, WriterTypeOK
  <2>2. /\ Carried(l) = BatchRecords(laneQ[l]) \cup BatchRecords(wBatch[l])
        /\ Carried(l)' = BatchRecords(Tail(laneQ[l])) \cup BatchRecords(wBatch'[l])
    BY <2>1, CarriedIs DEF Carried, BatchRecords
  <2>3. BatchRecords(wBatch'[l]) = BatchRecords(wBatch[l]) \cup {Head(laneQ[l]).rec}
    BY <2>1, AppendRecords
  <2> QED BY <2>1, <2>2, <2>3, HeadRecords
<1>5. CASE WriterWrite(l)
  <2>1. laneQ'[l] = laneQ[l] /\ pg' = pg \cup BatchRecords(wBatch[l])
    BY <1>5 DEF WriterWrite
  <2>2. BatchRecords(laneQ'[l]) \subseteq Carried(l)'
    BY DEF Carried, BatchRecords
  <2> QED BY <2>1, <2>2, CarriedIs
<1>6. CASE RequeueOrDlq(l)
  BY <1>6, RequeueCarries
<1>7. CASE UNCHANGED <<laneQ, wBatch>>
  BY <1>7 DEF Carried
<1> QED BY <1>1, <1>2, <1>3, <1>4, <1>5, <1>6, <1>7, LaneFrame

-----------------------------------------------------------------------------
(***************************************************************************)
(* NO EVENT LEAVES THE LANES UNNOTICED.  A record the commit may pass over *)
(* is in Postgres, on its way there, given up or booked.                   *)
(***************************************************************************)
Poison == {r \in Records : kind[r] = "poison"}

Homed == pg \cup Carried("critical") \cup Carried("normal") \cup Carried("bulk")
            \cup GivenUp \cup Excused \cup Poison

LEMMA HomedHas ==
    /\ pg \cup GivenUp \cup Excused \cup Poison \subseteq Homed
    /\ \A l \in Lanes : Carried(l) \subseteq Homed
BY DEF Homed, Lanes

LEMMA HomedHasNext ==
    (/\ pg \cup GivenUp \cup Excused \cup Poison \subseteq Homed
     /\ \A l \in Lanes : Carried(l) \subseteq Homed)'
BY HomedHas, PTL

LEMMA KindKept ==
    ASSUME [Next]_vars
    PROVE  kind' = kind
BY DEF Next, ConsumerStep, Fetch, FinishSplit, PutEnvelope, PauseOnFull, ResumeAfterDrain,
       ProcessorStep, TakeEnvelope, SkipRevoked, ProcessPoison, StartEvent, RouteAndPublish,
       FlushAndEvaluate, AwaitNoise, AwaitSignal, CommitBatch, DeclineBatch,
       ProducerStep, Deliver, DlqDeliver, Rebalance, OnAssign, WriterStep, WriterGet,
       WriterWrite, RequeueOrDlq, FaultStep, FetchError, HeartbeatPoll, OnRevoke,
       CommitRaises, DeliveryFails, DlqDeliveryFails, WriteFails, Crash, Quiescent, vars,
       brokerVars

LEMMA HomedGrows ==
    ASSUME TypeOK, [Next]_vars, ~ Crash
    PROVE  Homed \subseteq Homed'
<1>1. GivenUp \subseteq GivenUp' /\ Excused \subseteq Excused' /\ pg \subseteq pg'
  BY GivenUpKept, ExcusedGrows, LedgerStep
<1>2. Poison' = Poison
  BY KindKept DEF Poison
<1>3. \A l \in Lanes : \A r \in Carried(l) : r \in Carried(l)' \cup pg' \cup GivenUp'
  BY CarriedStays
<1>4. pg' \cup GivenUp' \cup Excused' \cup Poison' \subseteq Homed'
  BY HomedHasNext
<1>5. ASSUME NEW l \in Lanes PROVE Carried(l)' \subseteq Homed'
  BY HomedHasNext
<1> SUFFICES ASSUME NEW r \in Homed PROVE r \in Homed'
  OBVIOUS
<1>6. CASE r \in pg \cup GivenUp \cup Excused \cup Poison
  BY <1>1, <1>2, <1>4, <1>6
<1>7. ASSUME NEW l \in Lanes, r \in Carried(l) PROVE r \in Homed'
  BY <1>3, <1>4, <1>5, <1>7
<1> QED BY <1>6, <1>7 DEF Homed, Lanes

(***************************************************************************)
(* The short-circuited records of any envelope, and the messages of the    *)
(* batch already processed, have a home.  A message whose put was refused  *)
(* has none, but then the batch has failed and will be declined.           *)
(***************************************************************************)
NoiseHomed == \A k \in Nat : Pipe[k].noise \subseteq Homed

BatchHomed ==
    /\ ppc \in {"event", "route"} /\ ~ failed =>
          SeqRange(cur.msgs) \subseteq SeqRange(todo) \cup Homed
    /\ ppc \in {"noise", "signal", "commit"} /\ shouldCommit =>
          SeqRange(cur.msgs) \subseteq Homed

HomedInv ==
    /\ IdleHoldsNothing
    /\ BatchMarks
    /\ InOrder(Pipe, position, Homed)
    /\ NoiseHomed
    /\ BatchHomed
    /\ Below(committed) \subseteq Homed

LEMMA NoiseHomedStep ==
    ASSUME TypeOK, [Next]_vars, ~ Crash, NoiseHomed
    PROVE  NoiseHomed'
<1>1. Homed \subseteq Homed' /\ Pipe \in [Nat -> Envelopes]
  BY HomedGrows, PipeType
<1>2. /\ Len(recordQ) + 1 \in Nat /\ Pipe[Len(recordQ) + 1] = env
  BY PipeEnd DEF TypeOK, ConsumerTypeOK
<1>3. ASSUME NEW p \in Partitions, Fetch(p) PROVE NoiseHomed'
  <2> DEFINE q == <<p, position[p]>>
             x == NewItem(q, TRUE)
  <2>1. Pipe' = [Pipe EXCEPT ![Len(recordQ) + 1] = env']
    BY <1>3, SplitPipe DEF Fetch, processorVars, batchVars
  <2>2. env'.noise \subseteq Homed'
    <3>0. env \in Envelopes
      BY DEF TypeOK, ConsumerTypeOK
    <3>1. CASE TakeFullPath(q)
      <4>1. env'.noise = env.noise
        BY <3>0, <3>1 DEF TakeFullPath, Envelopes
      <4> QED BY <1>1, <1>2, <4>1 DEF NoiseHomed
    <3>2. CASE ShortCircuitNoise(q)
      <4>1. env'.noise = env.noise \cup {q} /\ UNCHANGED wBatch
        BY <1>3, <3>0, <3>2 DEF ShortCircuitNoise, Envelopes, Fetch, writerVars
      <4>2. q \in Records
        BY <1>3, ForwarderAssumption DEF TypeOK, ConsumerTypeOK, Fetch, Records, Offsets
      <4>3. q \in Carried("bulk")'
        <5>1. x \in Items /\ x.rec = q
          BY <4>2, NewItemType DEF NewItem
        <5>2. "bulk" \in Lanes
          BY DEF Lanes
        <5> HIDE DEF x, q
        <5> QED BY <3>2, <4>1, <5>1, <5>2, AppendCarries DEF ShortCircuitNoise, x
      <4>4. Carried("bulk")' \subseteq Homed'
        BY HomedHasNext DEF Lanes
      <4> QED BY <1>1, <1>2, <4>1, <4>3, <4>4 DEF NoiseHomed
    <3> QED BY <1>3, <3>1, <3>2 DEF Fetch
  <2> QED BY <1>1, <1>2, <2>1, <2>2 DEF NoiseHomed
<1>4. CASE FetchError
  <2>1. Pipe' = [Pipe EXCEPT ![Len(recordQ) + 1] = env'] /\ env'.noise = env.noise
    BY <1>4, SplitPipe DEF FetchError, processorVars, batchVars, TypeOK, ConsumerTypeOK, Envelopes
  <2> QED BY <1>1, <1>2, <2>1 DEF NoiseHomed
<1>5. CASE PutEnvelope \/ UNCHANGED <<cur, recordQ, env>>
  <2>1. Pipe' = Pipe
    BY <1>5, PutPipe, SamePipe
  <2> QED BY <1>1, <2>1 DEF NoiseHomed
<1>6. CASE TakeEnvelope
  <2>1. \A k \in Nat : Pipe'[k] = Pipe[k + 1] /\ k + 1 \in Nat
    BY <1>6, TakePipe DEF Shifted
  <2> QED BY <1>1, <2>1 DEF NoiseHomed
<1>7. CASE CommitBatch \/ CommitRaises \/ DeclineBatch
  <2>1. Pipe' = [Pipe EXCEPT ![0] = NoEnvelope]
    BY <1>7, EndBatchPipe DEF CommitBatch, CommitRaises, DeclineBatch, consumerVars
  <2> QED BY <1>1, <2>1, EmptyEnvelope DEF NoiseHomed
<1> QED
  BY <1>3, <1>4, <1>5, <1>6, <1>7, PipeFrame
  DEF HeartbeatPoll, OnAssign, processorVars, batchVars

LEMMA DroppedBooked ==
    ASSUME TypeOK, NEW r, NEW gone, Publish(r, gone)
    PROVE  gone \subseteq excused'["dropped"]
<1>1. gone \subseteq Excuse("dropped", gone)["dropped"]
  BY ExcuseGrows DEF Causes
<1>2. DOMAIN Excuse("dropped", gone) = Causes /\ "dropped" \in Causes
  BY DEF Excuse, TypeOK, GhostTypeOK, Causes
<1>3. \/ excused' = Excuse("dropped", gone)
      \/ excused' = [Excuse("dropped", gone) EXCEPT !["unpublished"] = @ \cup {r}]
  BY DEF Publish
<1> HIDE DEF Excuse
<1> QED BY <1>1, <1>2, <1>3

LEMMA MessageHomed ==
    ASSUME TypeOK, SkipRevoked \/ ProcessPoison \/ RouteAndPublish
    PROVE  Head(todo) \in Homed' \/ failed'
<1> DEFINE r == Head(todo)
<1>1. PICK l \in Lanes : l = LaneOf(r)
  BY LaneOfType
<1>2. r \in Records /\ NewItem(r, FALSE) \in Items /\ NewItem(r, FALSE).rec = r
  BY HeadTodo, NewItemType
  DEF SkipRevoked, ProcessPoison, RouteAndPublish, TypeOK, ProcessorTypeOK, NewItem
<1>3. CASE SkipRevoked
  <2>1. r \in excused'["revoked"]
    BY <1>3, ExcuseGrows DEF SkipRevoked, Causes
  <2> QED BY <2>1, HomedHasNext DEF Excused, Causes
<1>4. CASE ProcessPoison
  <2>1. r \in Poison'
    BY <1>2, <1>4 DEF ProcessPoison, Poison, brokerVars
  <2> QED BY <2>1, HomedHasNext
<1>5. CASE RouteAndPublish /\ Accepted(r)
  <2>1. r \in Carried(l)'
    <3>1. UNCHANGED wBatch /\ laneQ' = [laneQ EXCEPT ![l] = Append(@, NewItem(r, FALSE))]
      BY <1>1, <1>5 DEF RouteAndPublish, Accepted, writerVars
    <3> QED BY <1>2, <3>1, AppendCarries
  <2> QED BY <1>1, <2>1, HomedHasNext
<1>6. CASE RouteAndPublish /\ Publish(r, {r})
  <2>1. r \in excused'["dropped"]
    BY <1>6, DroppedBooked
  <2> QED BY <2>1, HomedHasNext DEF GivenUp
<1> QED BY <1>3, <1>4, <1>5, <1>6 DEF RouteAndPublish

LEMMA BatchHomedStep ==
    ASSUME TypeOK, [Next]_vars, ~ Crash, IdleHoldsNothing, BatchHomed
    PROVE  BatchHomed'
<1>1. Homed \subseteq Homed'
  BY HomedGrows
<1>2. CASE TakeEnvelope
  BY <1>2 DEF TakeEnvelope, BatchHomed
<1>3. CASE SkipRevoked \/ ProcessPoison \/ RouteAndPublish
  <2>1. /\ todo \in Seq(Records) /\ todo # <<>> /\ todo' = Tail(todo) /\ cur' = cur
        /\ ppc \in {"event", "route"} /\ ppc' = "event" /\ (failed => failed')
    BY <1>3 DEF SkipRevoked, ProcessPoison, RouteAndPublish, TypeOK, ProcessorTypeOK
  <2>2. SeqRange(todo) \subseteq {Head(todo)} \cup SeqRange(todo')
    BY <2>1, HeadTailRange
  <2> QED BY <1>1, <1>3, <2>1, <2>2, MessageHomed DEF BatchHomed
<1>4. CASE StartEvent
  BY <1>1, <1>4 DEF StartEvent, BatchHomed, batchVars
<1>5. CASE FlushAndEvaluate
  <2>1. shouldCommit' => ~ failed
    BY <1>5 DEF FlushAndEvaluate, EvaluateBatchCommit
  <2>2. SeqRange(todo) = {}
    BY <1>5 DEF FlushAndEvaluate, SeqRange
  <2> QED BY <1>1, <1>5, <2>1, <2>2 DEF FlushAndEvaluate, BatchHomed
<1>6. CASE AwaitNoise \/ AwaitSignal
  BY <1>1, <1>6 DEF AwaitNoise, AwaitSignal, BatchHomed
<1>7. CASE CommitBatch \/ CommitRaises \/ DeclineBatch
  BY <1>7 DEF CommitBatch, CommitRaises, DeclineBatch, EndBatch, BatchHomed
<1>8. CASE UNCHANGED processorVars
  BY <1>1, <1>8 DEF processorVars, batchVars, BatchHomed
<1> QED BY <1>2, <1>3, <1>4, <1>5, <1>6, <1>7, <1>8, BatchFrame

LEMMA HomedStep ==
    ASSUME TypeOK, [Next]_vars, ~ Crash, HomedInv
    PROVE  HomedInv'
<1>1. Homed \subseteq Homed' /\ Excused' \subseteq Homed'
  BY HomedGrows, HomedHasNext
<1>2. CommitBatch \/ CommitRaises => EnvelopeRecords(cur) \subseteq Homed'
  BY <1>1, PipeEnd
  DEF CommitBatch, CommitRaises, HomedInv, NoiseHomed, BatchHomed, EnvelopeRecords
<1>3. DeclineBatch => EnvelopeRecords(cur) \subseteq Homed'
  BY <1>1, ExcuseGrows DEF DeclineBatch, Excused, Causes
<1>4. \A p \in Partitions : HeartbeatPoll(p) => <<p, position[p]>> \in Homed'
  BY <1>1, ExcuseGrows DEF HeartbeatPoll, Excused, Causes
<1>5. InOrder(Pipe', position', Homed')
  BY <1>1, <1>2, <1>3, <1>4, OrderStep DEF HomedInv
<1>6. Below(committed') \subseteq Homed'
  BY <1>1, <1>2, PassedStep DEF HomedInv
<1>7. IdleHoldsNothing' /\ BatchMarks' /\ NoiseHomed' /\ BatchHomed'
  BY IdleStep, MarksStep, NoiseHomedStep, BatchHomedStep DEF HomedInv
<1> QED BY <1>5, <1>6, <1>7 DEF HomedInv, InOrder, In, Below

LEMMA InitHomed == Init => HomedInv
<1> SUFFICES ASSUME Init PROVE HomedInv
  OBVIOUS
<1>1. Pipe = [k \in Nat |-> NoEnvelope]
  BY DEF Init, ColdStart, Pipe
<1>2. \A q \in Records : ~ q[2] < position[q[1]] /\ ~ q[2] < committed[q[1]]
  BY ForwarderAssumption DEF Init, ColdStart, Records, Offsets
<1>3. InOrder(Pipe, position, Homed) /\ NoiseHomed
  BY <1>1, <1>2, EmptyEnvelope DEF InOrder, NoiseHomed
<1>4. Below(committed) \subseteq Homed
  BY <1>2 DEF Below
<1>5. BatchMarks
  BY DEF Init, ColdStart, BatchMarks, NoHwm, SeqRange
<1> QED BY <1>3, <1>4, <1>5 DEF Init, ColdStart, HomedInv, IdleHoldsNothing, BatchHomed

(***************************************************************************)
(* As long as the process does not crash, no event leaves the lanes        *)
(* unnoticed, however many writes, deliveries and commits fail.            *)
(***************************************************************************)
THEOREM NoEventSlipsAway ==
    ASSUME \A b \in FaultBudgets : b["crash"] = 0
    PROVE  Spec => []NoSilentPgLoss
<1>1. "crash" \in Faults
  BY DEF Faults
<1>2. Init => Never("crash") /\ HomedInv
  BY <1>1, InitNever, InitHomed
<1>3. TypeOK /\ Never("crash") /\ HomedInv /\ [Next]_vars => Never("crash")' /\ HomedInv'
  <2> SUFFICES ASSUME TypeOK, Never("crash"), HomedInv, [Next]_vars
               PROVE  Never("crash")' /\ HomedInv'
    OBVIOUS
  <2>1. Never("crash")' /\ ~ Crash
    BY <1>1, NeverStep DEF Crash
  <2> QED BY <2>1, HomedStep
<1>4. HomedInv => NoSilentPgLoss
  <2> DEFINE carried == UNION {Carried(l) : l \in Lanes}
  <2>1. ASSUME NEW l \in Lanes PROVE Carried(l) \subseteq carried
    BY Zenon
  <2>2. Homed \subseteq pg \cup carried \cup GivenUp \cup Excused \cup Poison
    <3>1. Carried("critical") \cup Carried("normal") \cup Carried("bulk") \subseteq carried
      BY <2>1 DEF Lanes
    <3> HIDE DEF carried
    <3> QED BY <3>1 DEF Homed
  <2> HIDE DEF carried
  <2>3. HomedInv => {r \in Below(committed) : kind[r] # "poison"}
                       \subseteq pg \cup carried \cup GivenUp \cup Excused
    BY <2>2 DEF HomedInv, Poison
  <2> QED BY <2>3 DEF NoSilentPgLoss, carried
<1> QED BY <1>2, <1>3, <1>4, TypeCorrect, PTL DEF Spec

-----------------------------------------------------------------------------
(***************************************************************************)
(* AT LEAST ONCE.  When no bounded wait expires and no fault but crashes   *)
(* and failing commits occurs, no batch is ever declined and nothing is    *)
(* ever let go of.                                                         *)
(***************************************************************************)
CalmFaults == Faults \ {"crash", "commit"}

NothingExcused == \A c \in Causes : excused[c] = {}

CalmInv ==
    /\ \A f \in CalmFaults : Never(f)
    /\ NothingExcused
    /\ deliveryErrors = 0 /\ errorsBefore = 0
    /\ \A k \in Nat : ~ Pipe[k].err
    /\ ~ failed
    /\ revoked = {}
    /\ \A l \in Lanes : wpc[l] = "collect"
    /\ ppc \in {"noise", "signal", "commit"} => shouldCommit

LEMMA InitCalm ==
    ASSUME \A b \in FaultBudgets : \A f \in CalmFaults : b[f] = 0, Init
    PROVE  CalmInv
<1>1. \A f \in CalmFaults : Never(f)
  BY InitNever DEF CalmFaults
<1>2. Pipe = [k \in Nat |-> NoEnvelope]
  BY DEF Init, ColdStart, Pipe
<1>3. \A k \in Nat : ~ Pipe[k].err
  BY <1>2 DEF NoEnvelope
<1> QED BY <1>1, <1>3 DEF Init, ColdStart, CalmInv, NothingExcused

LEMMA CalmFrame ==
    ASSUME [Next]_vars, \A f \in CalmFaults : ~ Spend(f)
    PROVE  ConsumerStep \/ ProcessorStep \/ ProducerStep \/ Rebalance
           \/ (\E l \in Lanes : WriterStep(l)) \/ CommitRaises \/ Crash \/ UNCHANGED vars
BY DEF Next, FaultStep, Quiescent, CalmFaults, Faults, FetchError, HeartbeatPoll, OnRevoke,
       DeliveryFails, DlqDeliveryFails, WriteFails

(***************************************************************************)
(* Nothing is booked.                                                      *)
(***************************************************************************)
LEMMA NothingMore ==
    ASSUME TypeOK, NothingExcused, NEW c \in Causes
    PROVE  \A d \in Causes : Excuse(c, {})[d] = {}
BY DEF NothingExcused, Excuse, TypeOK, GhostTypeOK

LEMMA NothingBooked ==
    ASSUME TypeOK, CalmInv, [Next]_vars, ~ MayTimeOut, EnableDlq
    PROVE  NothingExcused'
<1>1. \A f \in CalmFaults : ~ Spend(f)
  BY NeverStep DEF CalmInv, CalmFaults
<1>2. NothingExcused /\ ~ Spend("buffer")
  BY <1>1 DEF CalmInv, CalmFaults, Faults
<1>3. CASE UNCHANGED excused
  BY <1>2, <1>3 DEF NothingExcused
<1>4. CASE RouteAndPublish
  <2>1. Publish(Head(todo), {})
    BY <1>4 DEF RouteAndPublish, Refused
  <2>2. excused' = Excuse("dropped", {})
    BY <1>2, <2>1 DEF Publish
  <2> QED BY <1>2, <2>2, NothingMore DEF NothingExcused, Causes
<1>5. CASE ProcessPoison
  BY <1>2, <1>3, <1>5 DEF ProcessPoison, SendToDlq
<1>6. ~ SkipRevoked /\ ~ DeclineBatch /\ \A l \in Lanes : ~ RequeueOrDlq(l)
  BY DEF CalmInv, SkipRevoked, DeclineBatch, RequeueOrDlq
<1> QED
  BY <1>1, <1>3, <1>4, <1>5, <1>6, CalmFrame
  DEF ConsumerStep, Fetch, FinishSplit, PutEnvelope, PauseOnFull, ResumeAfterDrain,
      ProcessorStep, TakeEnvelope, StartEvent, FlushAndEvaluate, AwaitNoise, AwaitSignal,
      CommitBatch, CommitRaises, ProducerStep, Deliver, DlqDeliver, Rebalance, OnAssign,
      WriterStep, WriterGet, WriterWrite, Crash, vars

(***************************************************************************)
(* No envelope carries an error.                                           *)
(***************************************************************************)
LEMMA NoErrors ==
    ASSUME TypeOK, [Next]_vars, \A k \in Nat : ~ Pipe[k].err, ~ FetchError
    PROVE  \A k \in Nat : ~ Pipe'[k].err
<1>1. /\ Pipe \in [Nat -> Envelopes] /\ ~ NoEnvelope.err
      /\ Len(recordQ) + 1 \in Nat /\ Pipe[Len(recordQ) + 1] = env /\ env \in Envelopes
  BY PipeType, PipeEnd DEF NoEnvelope, TypeOK, ConsumerTypeOK
<1>2. ASSUME NEW p \in Partitions, Fetch(p) PROVE \A k \in Nat : ~ Pipe'[k].err
  <2>1. Pipe' = [Pipe EXCEPT ![Len(recordQ) + 1] = env']
    BY <1>2, SplitPipe DEF Fetch, processorVars, batchVars
  <2>2. env'.err = env.err
    BY <1>1, <1>2 DEF Fetch, ShortCircuitNoise, TakeFullPath, Envelopes
  <2> QED BY <1>1, <2>1, <2>2
<1>3. CASE PutEnvelope \/ UNCHANGED <<cur, recordQ, env>>
  BY <1>3, PutPipe, SamePipe
<1>4. CASE TakeEnvelope
  BY <1>4, TakePipe DEF Shifted
<1>5. CASE CommitBatch \/ CommitRaises \/ DeclineBatch
  <2>1. Pipe' = [Pipe EXCEPT ![0] = NoEnvelope]
    BY <1>5, EndBatchPipe DEF CommitBatch, CommitRaises, DeclineBatch, consumerVars
  <2> QED BY <1>1, <2>1
<1>6. CASE Crash
  BY <1>1, <1>6, CrashPipe
<1> QED
  BY <1>2, <1>3, <1>4, <1>5, <1>6, PipeFrame
  DEF HeartbeatPoll, OnAssign, processorVars, batchVars

LEMMA TakenHead ==
    ASSUME TypeOK, TakeEnvelope
    PROVE  Head(recordQ) = Pipe[1]
BY DEF TypeOK, ConsumerTypeOK, TakeEnvelope, Pipe

LEMMA CalmStep ==
    ASSUME TypeOK, CalmInv, [Next]_vars, ~ MayTimeOut, EnableDlq
    PROVE  CalmInv'
<1>1. \A f \in CalmFaults : Never(f)' /\ ~ Spend(f)
  BY NeverStep DEF CalmInv, CalmFaults
<1>2. NothingExcused' /\ \A k \in Nat : ~ Pipe'[k].err
  <2>1. ~ FetchError
    BY <1>1 DEF FetchError, CalmFaults, Faults
  <2> QED BY <2>1, NothingBooked, NoErrors DEF CalmInv
<1> DEFINE Rest == /\ deliveryErrors' = 0 /\ errorsBefore' = 0 /\ ~ failed' /\ revoked' = {}
                   /\ \A l \in Lanes : wpc'[l] = "collect"
                   /\ ppc' \in {"noise", "signal", "commit"} => shouldCommit'
<1>3. CASE ConsumerStep \/ Rebalance \/ ProducerStep \/ UNCHANGED vars
  <2>1. /\ UNCHANGED <<deliveryErrors, wpc, processorVars>>
        /\ revoked' \subseteq revoked
    BY <1>3 DEF ConsumerStep, Rebalance, ProducerStep, Fetch, FinishSplit, PutEnvelope,
                PauseOnFull, ResumeAfterDrain, OnAssign, Deliver, DlqDeliver, producerVars,
                writerVars, vars
  <2> QED BY <1>1, <1>2, <2>1 DEF CalmInv, processorVars, batchVars
<1>4. CASE TakeEnvelope
  <2>1. ~ failed'
    BY <1>4, TakenHead DEF TakeEnvelope, CalmInv
  <2> QED BY <1>1, <1>2, <1>4, <2>1 DEF CalmInv, TakeEnvelope, producerVars, writerVars
<1>5. CASE RouteAndPublish
  <2>1. ~ failed'
    BY <1>5 DEF RouteAndPublish, Refused, CalmInv
  <2> QED BY <1>1, <1>2, <1>5, <2>1 DEF CalmInv, RouteAndPublish, writerVars
<1>6. CASE SkipRevoked \/ ProcessPoison \/ StartEvent
  BY <1>1, <1>2, <1>6
  DEF CalmInv, SkipRevoked, ProcessPoison, StartEvent, batchVars, producerVars, writerVars
<1>7. CASE FlushAndEvaluate
  <2>1. shouldCommit'
    BY <1>7 DEF FlushAndEvaluate, EvaluateBatchCommit, CalmInv
  <2> QED BY <1>1, <1>2, <1>7, <2>1 DEF CalmInv, FlushAndEvaluate, producerVars, writerVars
<1>8. CASE AwaitNoise \/ AwaitSignal
  BY <1>1, <1>2, <1>8 DEF CalmInv, AwaitNoise, AwaitSignal, producerVars, writerVars
<1>9. CASE CommitBatch \/ CommitRaises \/ DeclineBatch
  BY <1>1, <1>2, <1>9
  DEF CalmInv, CommitBatch, CommitRaises, DeclineBatch, EndBatch, producerVars, writerVars
<1>10. ASSUME NEW l \in Lanes, WriterStep(l) PROVE CalmInv'
  <2>1. WriterGet(l) \/ WriterWrite(l)
    BY <1>10 DEF WriterStep, RequeueOrDlq, CalmInv
  <2> QED BY <1>1, <1>2, <2>1
      DEF CalmInv, WriterGet, WriterWrite, producerVars, processorVars, batchVars
<1>11. CASE Crash
  BY <1>1, <1>2, <1>11 DEF CalmInv, Crash
<1> QED
  BY <1>1, <1>3, <1>4, <1>5, <1>6, <1>7, <1>8, <1>9, <1>10, <1>11, CalmFrame
  DEF ProcessorStep

(***************************************************************************)
(* When no bounded wait expires, the DLQ is on, and nothing fails but the  *)
(* process and its commits, every committed record is durable.             *)
(***************************************************************************)
THEOREM DeliversAtLeastOnce ==
    ASSUME ~ MayTimeOut, EnableDlq,
           \A b \in FaultBudgets : \A f \in CalmFaults : b[f] = 0
    PROVE  Spec => []AtLeastOnce
<1>1. Init => CalmInv
  BY InitCalm
<1>2. TypeOK /\ CalmInv /\ [Next]_vars => CalmInv'
  BY CalmStep
<1>3. CalmInv /\ LossAccounted => AtLeastOnce
  BY DEF CalmInv, NothingExcused, LossAccounted, AtLeastOnce, Excused
<1> QED BY <1>1, <1>2, <1>3, TypeCorrect, LossIsAccounted, PTL DEF Spec

-----------------------------------------------------------------------------
(***************************************************************************)
(* COMMITS ADVANCE.  A member that keeps its partitions fetches each       *)
(* record once, so the pipe holds offsets in ascending order, none below   *)
(* the committed one.                                                      *)
(***************************************************************************)
Ascending(pipe, pos, com, owned) ==
    /\ \A k \in Nat : \A r \in EnvelopeRecords(pipe[k]) :
          r[1] \in owned /\ com[r[1]] <= r[2] /\ r[2] < pos[r[1]]
    /\ \A j, k \in Nat : j < k =>
          \A r \in EnvelopeRecords(pipe[j]), s \in EnvelopeRecords(pipe[k]) :
             r[1] = s[1] => r[2] < s[2]
    /\ \A p \in owned : com[p] <= pos[p]

AscendInv ==
    /\ IdleHoldsNothing
    /\ BatchMarks
    /\ Ascending(Pipe, position, committed, assigned)

PipeRecord ==
    \A k \in Nat : \A r \in EnvelopeRecords(Pipe[k]) :
        r \in Records /\ r[1] \in Partitions /\ r[2] \in Int

LEMMA PipeRecordsTyped == TypeOK => PipeRecord
<1> SUFFICES ASSUME TypeOK PROVE PipeRecord
  OBVIOUS
<1>1. \A k \in Nat : EnvelopeRecords(Pipe[k]) \subseteq Records
  BY PipeType, EnvelopeRecordsType
<1>2. \A r \in Records : r[1] \in Partitions /\ r[2] \in Int
  BY ForwarderAssumption DEF Records, Offsets
<1> QED BY <1>1, <1>2 DEF PipeRecord

LEMMA AscendingPart ==
    ASSUME NEW pipe, NEW new, NEW pos, NEW com, NEW owned,
           Ascending(pipe, pos, com, owned),
           \A k \in Nat : EnvelopeRecords(new[k]) \subseteq EnvelopeRecords(pipe[k])
    PROVE  Ascending(new, pos, com, owned)
BY DEF Ascending

LEMMA AscendingShift ==
    ASSUME NEW pipe, NEW pos, NEW com, NEW owned, Ascending(pipe, pos, com, owned)
    PROVE  Ascending(Shifted(pipe), pos, com, owned)
<1>1. \A k \in Nat : Shifted(pipe)[k] = pipe[k + 1] /\ k + 1 \in Nat
  BY DEF Shifted
<1>2. \A j, k \in Nat : j < k => j + 1 < k + 1
  OBVIOUS
<1> QED BY <1>1, <1>2 DEF Ascending

LEMMA AscendingFetch ==
    ASSUME TypeOK, NEW p \in Partitions, Fetch(p),
           Ascending(Pipe, position, committed, assigned)
    PROVE  Ascending(Pipe', position', committed', assigned')
<1> DEFINE n == Len(recordQ) + 1
           r == <<p, position[p]>>
<1>1. /\ n \in Nat /\ Pipe[n] = env /\ Pipe \in [Nat -> Envelopes]
      /\ \A k \in Nat : k > n => EnvelopeRecords(Pipe[k]) = {}
  BY PipeEnd, PipeType, EmptyEnvelope DEF TypeOK, ConsumerTypeOK
<1>2. /\ EnvelopeRecords(env') = EnvelopeRecords(env) \cup {r}
      /\ position' = [position EXCEPT ![p] = @ + 1]
      /\ Pipe' = [Pipe EXCEPT ![n] = env']
      /\ UNCHANGED <<committed, assigned>> /\ p \in assigned
  BY FetchJoins, SplitPipe DEF Fetch, brokerVars
<1>3. /\ position \in [Partitions -> Int] /\ committed \in [Partitions -> Int]
      /\ assigned \subseteq Partitions /\ PipeRecord
  BY PipeRecordsTyped, ForwarderAssumption DEF TypeOK, ConsumerTypeOK, BrokerTypeOK
<1>4. \A k \in Nat : \A s \in EnvelopeRecords(Pipe'[k]) :
         s \in EnvelopeRecords(Pipe[k]) \/ (k = n /\ s = r)
  BY <1>1, <1>2
<1> HIDE DEF n
<1>5. ASSUME NEW k \in Nat, NEW s \in EnvelopeRecords(Pipe'[k])
      PROVE  s[1] \in assigned' /\ committed'[s[1]] <= s[2] /\ s[2] < position'[s[1]]
  <2>1. CASE s \in EnvelopeRecords(Pipe[k])
    BY <1>2, <1>3, <2>1 DEF Ascending, PipeRecord
  <2>2. CASE s = r
    BY <1>2, <1>3, <2>2 DEF Ascending
  <2> QED BY <1>4, <2>1, <2>2
<1>6. ASSUME NEW j \in Nat, NEW k \in Nat, j < k,
             NEW s \in EnvelopeRecords(Pipe'[j]), NEW u \in EnvelopeRecords(Pipe'[k]), s[1] = u[1]
      PROVE  s[2] < u[2]
  <2>1. u \in EnvelopeRecords(Pipe[k]) => k <= n
    BY <1>1
  <2>2. s \in EnvelopeRecords(Pipe[j])
    BY <1>1, <1>4, <1>6, <2>1
  <2>3. CASE u \in EnvelopeRecords(Pipe[k])
    BY <1>6, <2>2, <2>3 DEF Ascending
  <2>4. CASE u = r
    BY <1>3, <1>6, <2>2, <2>4 DEF Ascending
  <2> QED BY <1>4, <2>3, <2>4
<1>7. \A q \in assigned' : committed'[q] <= position'[q]
  BY <1>2, <1>3 DEF Ascending
<1> QED BY <1>5, <1>6, <1>7 DEF Ascending

LEMMA AscendingCommit ==
    ASSUME TypeOK, AscendInv, CommitMergedOffsets
    PROVE  /\ \A p \in Partitions : committed'[p] >= committed[p]
           /\ Ascending([Pipe EXCEPT ![0] = NoEnvelope], position, committed', assigned)
<1>1. PICK merged \in Hwms : /\ IsRaised(merged, batchMax, cur.noise)
                             /\ committed' = CommitTo(merged, Partitions)
  BY DEF CommitMergedOffsets
<1>2. /\ merged \in [Partitions -> Int] /\ position \in [Partitions -> Int]
      /\ committed \in [Partitions -> Int] /\ assigned \subseteq Partitions /\ PipeRecord
      /\ Pipe[0] = cur /\ Pipe \in [Nat -> Envelopes]
  BY PipeRecordsTyped, PipeType, PipeEnd, ForwarderAssumption
  DEF Hwms, Offsets, TypeOK, ConsumerTypeOK, BrokerTypeOK
<1>3. ASSUME NEW p \in Partitions, merged[p] >= 0
      PROVE  /\ committed[p] <= merged[p] /\ merged[p] < position[p]
             /\ \A k \in Nat : k # 0 =>
                   \A s \in EnvelopeRecords(Pipe[k]) : s[1] = p => merged[p] < s[2]
  <2> DEFINE r == <<p, merged[p]>>
  <2>1. r \in EnvelopeRecords(Pipe[0]) /\ r[1] = p /\ r[2] = merged[p]
    BY <1>1, <1>2, <1>3, MergedMark DEF AscendInv
  <2>2. \A k \in Nat : k # 0 => 0 < k
    OBVIOUS
  <2> HIDE DEF r
  <2> QED BY <2>1, <2>2 DEF AscendInv, Ascending
<1>4. \A p \in Partitions : committed'[p] = IF merged[p] >= 0 THEN merged[p] + 1 ELSE committed[p]
  BY <1>1 DEF CommitTo
<1>5. \A p \in Partitions : committed'[p] >= committed[p]
  BY <1>2, <1>3, <1>4
<1> DEFINE new == [Pipe EXCEPT ![0] = NoEnvelope]
<1>6. /\ EnvelopeRecords(new[0]) = {}
      /\ \A k \in Nat : k # 0 => new[k] = Pipe[k]
  BY <1>2, EmptyEnvelope
<1> HIDE DEF new
<1>7. ASSUME NEW k \in Nat, NEW r \in EnvelopeRecords(new[k])
      PROVE  r[1] \in assigned /\ committed'[r[1]] <= r[2] /\ r[2] < position[r[1]]
  <2>1. k # 0 /\ r \in EnvelopeRecords(Pipe[k])
    BY <1>6, <1>7
  <2>2. r[1] \in Partitions /\ r[2] \in Int /\ r[1] \in assigned /\ r[2] < position[r[1]]
        /\ committed[r[1]] <= r[2]
    BY <1>2, <2>1 DEF PipeRecord, AscendInv, Ascending
  <2> QED BY <1>2, <1>3, <1>4, <2>1, <2>2
<1>8. \A j, k \in Nat : j < k =>
          \A r \in EnvelopeRecords(new[j]), s \in EnvelopeRecords(new[k]) :
             r[1] = s[1] => r[2] < s[2]
  BY <1>6 DEF AscendInv, Ascending
<1>9. \A p \in assigned : committed'[p] <= position[p]
  BY <1>2, <1>3, <1>4 DEF AscendInv, Ascending
<1>10. Ascending(new, position, committed', assigned)
  BY <1>7, <1>8, <1>9 DEF Ascending
<1> QED BY <1>5, <1>10 DEF new

LEMMA AscendFrame ==
    ASSUME [Next]_vars, ~ Spend("rebalance")
    PROVE  \/ \E p \in Partitions : Fetch(p) \/ HeartbeatPoll(p)
           \/ \E P \in SUBSET Partitions : OnAssign(P)
           \/ FetchError \/ PutEnvelope \/ TakeEnvelope \/ Crash
           \/ CommitBatch \/ CommitRaises \/ DeclineBatch
           \/ UNCHANGED <<cur, recordQ, env, position, committed, assigned>>
<1>1. CASE ConsumerStep
  BY <1>1 DEF ConsumerStep, FinishSplit, PauseOnFull, ResumeAfterDrain, brokerVars, processorVars,
      batchVars
<1>2. CASE ProcessorStep
  BY <1>2
  DEF ProcessorStep, SkipRevoked, ProcessPoison, StartEvent, RouteAndPublish, FlushAndEvaluate,
      AwaitNoise, AwaitSignal, brokerVars, consumerVars, processorVars, batchVars
<1>3. CASE ProducerStep
  BY <1>3 DEF ProducerStep, Deliver, DlqDeliver, brokerVars, consumerVars, processorVars, batchVars
<1>4. CASE \E l \in Lanes : WriterStep(l)
  BY <1>4
  DEF WriterStep, WriterGet, WriterWrite, RequeueOrDlq, brokerVars, consumerVars, processorVars,
      batchVars
<1>5. CASE FaultStep
  BY <1>5
  DEF FaultStep, OnRevoke, DeliveryFails, DlqDeliveryFails, WriteFails, brokerVars, consumerVars,
      processorVars, batchVars
<1>6. CASE Rebalance
  BY <1>6 DEF Rebalance
<1>7. CASE Quiescent \/ UNCHANGED vars
  BY <1>7 DEF Quiescent, vars, brokerVars, consumerVars, processorVars, batchVars
<1> QED BY <1>1, <1>2, <1>3, <1>4, <1>5, <1>6, <1>7 DEF Next

LEMMA AscendStep ==
    ASSUME TypeOK, AscendInv, [Next]_vars, ~ Spend("rebalance")
    PROVE  AscendInv' /\ \A p \in Partitions : committed'[p] >= committed[p]
<1> DEFINE Up == \A p \in Partitions : committed'[p] >= committed[p]
           Goal == Ascending(Pipe', position', committed', assigned') /\ Up
<1> SUFFICES Goal
  BY IdleStep, MarksStep DEF AscendInv, Ascending
<1>1. /\ Ascending(Pipe, position, committed, assigned) /\ Pipe \in [Nat -> Envelopes]
      /\ position \in [Partitions -> Int] /\ committed \in [Partitions -> Int]
      /\ assigned \subseteq Partitions /\ PipeRecord
      /\ Len(recordQ) + 1 \in Nat /\ Pipe[Len(recordQ) + 1] = env
  <2>1. position \in [Partitions -> Int] /\ committed \in [Partitions -> Int]
    BY ForwarderAssumption DEF TypeOK, ConsumerTypeOK, BrokerTypeOK
  <2>2. assigned \subseteq Partitions /\ recordQ \in Seq(Envelopes)
    BY DEF TypeOK, ConsumerTypeOK
  <2>3. Ascending(Pipe, position, committed, assigned)
    BY DEF AscendInv
  <2> QED BY <2>1, <2>2, <2>3, PipeRecordsTyped, PipeType, PipeEnd
<1>2. UNCHANGED committed => Up
  BY <1>1
<1>3. ASSUME NEW p \in Partitions, Fetch(p) PROVE Goal
  BY <1>1, <1>2, <1>3, AscendingFetch DEF Fetch, brokerVars
<1>4. ASSUME NEW p \in Partitions, HeartbeatPoll(p) PROVE Goal
  <2>1. /\ Pipe' = Pipe /\ position' = [position EXCEPT ![p] = @ + 1]
        /\ UNCHANGED <<committed, assigned>>
    BY <1>4, SamePipe DEF HeartbeatPoll, processorVars, batchVars, brokerVars
  <2> QED BY <1>1, <1>2, <2>1 DEF Ascending, PipeRecord
<1>5. ASSUME NEW P \in SUBSET Partitions, OnAssign(P) PROVE Goal
  <2>1. /\ Pipe' = Pipe /\ UNCHANGED committed /\ P \subseteq Partitions \ assigned
        /\ assigned' = assigned \cup P
        /\ position' = [p \in Partitions |-> IF p \in P THEN committed[p] ELSE position[p]]
    BY <1>5, SamePipe DEF OnAssign, processorVars, batchVars, brokerVars, ResumeAt
  <2> QED BY <1>1, <1>2, <2>1 DEF Ascending, PipeRecord
<1>6. CASE FetchError
  <2>1. /\ Pipe' = [Pipe EXCEPT ![Len(recordQ) + 1] = env']
        /\ EnvelopeRecords(env') = EnvelopeRecords(env)
        /\ UNCHANGED <<committed, assigned, position>>
    BY <1>6, SplitPipe DEF FetchError, processorVars, batchVars, brokerVars, EnvelopeRecords,
                           TypeOK, ConsumerTypeOK, Envelopes
  <2>2. \A k \in Nat : EnvelopeRecords(Pipe'[k]) \subseteq EnvelopeRecords(Pipe[k])
    BY <1>1, <2>1
  <2> QED BY <1>1, <1>2, <2>1, <2>2, AscendingPart
<1>7. CASE PutEnvelope
  BY <1>1, <1>2, <1>7, PutPipe DEF PutEnvelope, brokerVars
<1>8. CASE TakeEnvelope
  BY <1>1, <1>2, <1>8, TakePipe, AscendingShift DEF TakeEnvelope, brokerVars, consumerVars
<1>9. CASE CommitBatch \/ CommitRaises \/ DeclineBatch
  <2>1. Pipe' = [Pipe EXCEPT ![0] = NoEnvelope] /\ UNCHANGED <<position, assigned>>
    BY <1>9, EndBatchPipe DEF CommitBatch, CommitRaises, DeclineBatch, consumerVars
  <2>2. CASE CommitMergedOffsets
    BY <2>1, <2>2, AscendingCommit
  <2>3. CASE UNCHANGED committed
    <3>1. \A k \in Nat : EnvelopeRecords(Pipe'[k]) \subseteq EnvelopeRecords(Pipe[k])
      BY <1>1, <2>1, EmptyEnvelope
    <3> QED BY <1>1, <1>2, <2>1, <2>3, <3>1, AscendingPart
  <2> QED BY <1>9, <2>2, <2>3 DEF CommitBatch, CommitRaises, DeclineBatch, brokerVars
<1>10. CASE Crash
  <2>1. Pipe' = [k \in Nat |-> NoEnvelope] /\ assigned' = {} /\ UNCHANGED committed
    BY <1>10, CrashPipe DEF Crash, brokerVars
  <2> QED BY <1>2, <2>1, EmptyEnvelope DEF Ascending
<1>11. CASE UNCHANGED <<cur, recordQ, env, position, committed, assigned>>
  BY <1>1, <1>2, <1>11, SamePipe
<1> QED BY <1>3, <1>4, <1>5, <1>6, <1>7, <1>8, <1>9, <1>10, <1>11, AscendFrame

(***************************************************************************)
(* While the member keeps its partitions, crashes and restarts included,   *)
(* no commit moves an offset back.                                         *)
(***************************************************************************)
THEOREM CommitsAdvance ==
    ASSUME \A b \in FaultBudgets : b["rebalance"] = 0
    PROVE  Spec => CommitNeverRegresses
<1>1. "rebalance" \in Faults
  BY DEF Faults
<1>2. Init => Never("rebalance") /\ AscendInv
  <2> SUFFICES ASSUME Init PROVE AscendInv
    BY <1>1, InitNever
  <2>1. Pipe = [k \in Nat |-> NoEnvelope]
    BY DEF Init, ColdStart, Pipe
  <2>2. Ascending(Pipe, position, committed, assigned)
    BY <2>1, EmptyEnvelope DEF Init, ColdStart, Ascending
  <2> QED BY <2>2 DEF Init, ColdStart, AscendInv, IdleHoldsNothing, BatchMarks, NoHwm, SeqRange
<1>3. TypeOK /\ Never("rebalance") /\ AscendInv /\ [Next]_vars
        => /\ Never("rebalance")' /\ AscendInv'
           /\ \A p \in Partitions : committed'[p] >= committed[p]
  BY <1>1, NeverStep, AscendStep
<1> QED BY <1>2, <1>3, TypeCorrect, PTL DEF Spec, CommitNeverRegresses

-----------------------------------------------------------------------------
(***************************************************************************)
(* SIGNAL_COMMIT_REQUIRES_PG keeps its promise when the records it speaks  *)
(* of share one lane and no write fails: the lane is first in, first out,  *)
(* so the high-water mark its writer raises speaks for every record below. *)
(* With two lanes, or with retries that go to the lane's end, it does not. *)
(***************************************************************************)
Signals(L) == {r \in Records : kind[r] = L}

(***************************************************************************)
(* What the commit may pass over: rows, booked losses and other records.   *)
(* A batch that has failed will be declined, and with it what it holds.    *)
(***************************************************************************)
Safe(L) == pg \cup Excused \cup (Records \ Signals(L))

Doomed == {r \in EnvelopeRecords(cur) : failed}

SafeOrDoomed(L) == Safe(L) \cup Doomed

(***************************************************************************)
(* The messages of an envelope follow the log, too: what lies below one of *)
(* them is in C or among those up to it.                                   *)
(***************************************************************************)
Follows(msgs, C) ==
    \A i \in 1 .. Len(msgs) : \A q \in Records :
        UpTo(q, msgs[i]) => q \in C \/ \E h \in 1 .. i : msgs[h] = q

Before(pipe, k) == {q \in Records : \E j \in Nat : j < k /\ q \in EnvelopeRecords(pipe[j])}

MsgsInOrder(pipe, C) == \A k \in Nat : Follows(pipe[k].msgs, C \cup Before(pipe, k))

LEMMA FollowsGrow ==
    ASSUME NEW msgs, NEW C, NEW D, C \subseteq D, Follows(msgs, C)
    PROVE  Follows(msgs, D)
BY DEF Follows

LEMMA FollowsEmpty == \A C : Follows(<<>>, C)
BY DEF Follows

LEMMA FollowsAppend ==
    ASSUME NEW msgs \in Seq(Records), NEW r \in Records, NEW C, Follows(msgs, C),
           \A q \in Records : UpTo(q, r) /\ q # r => q \in C \/ \E h \in 1 .. Len(msgs) : msgs[h] = q
    PROVE  Follows(Append(msgs, r), C)
<1> DEFINE new == Append(msgs, r)
<1>1. /\ Len(msgs) \in Nat /\ Len(new) = Len(msgs) + 1 /\ new[Len(msgs) + 1] = r
      /\ \A h \in 1 .. Len(msgs) : new[h] = msgs[h]
  BY AppendAt
<1> HIDE DEF new
<1> SUFFICES ASSUME NEW i \in 1 .. Len(new), NEW q \in Records, UpTo(q, new[i]), q \notin C
             PROVE  \E h \in 1 .. i : new[h] = q
  BY DEF Follows, new
<1>2. CASE i <= Len(msgs)
  <2>1. i \in 1 .. Len(msgs) /\ new[i] = msgs[i]
    BY <1>1, <1>2
  <2>2. PICK h \in 1 .. i : msgs[h] = q
    BY <2>1 DEF Follows
  <2> QED BY <1>1, <2>1, <2>2
<1>3. CASE i = Len(msgs) + 1
  <2>1. UpTo(q, r) /\ new[i] = r /\ i \in 1 .. i
    BY <1>1, <1>3
  <2>2. CASE q = r
    BY <2>1, <2>2
  <2>3. CASE q # r
    <3>1. PICK h \in 1 .. Len(msgs) : msgs[h] = q
      BY <2>1, <2>3
    <3>2. h \in 1 .. i /\ new[h] = q
      BY <1>1, <1>3, <3>1
    <3> QED BY <3>2
  <2> QED BY <2>2, <2>3
<1> QED BY <1>1, <1>2, <1>3

LEMMA MsgsGrow ==
    ASSUME NEW pipe, NEW C, NEW D, C \subseteq D, MsgsInOrder(pipe, C)
    PROVE  MsgsInOrder(pipe, D)
<1>1. \A k \in Nat : C \cup Before(pipe, k) \subseteq D \cup Before(pipe, k)
  OBVIOUS
<1> QED BY <1>1, FollowsGrow DEF MsgsInOrder

LEMMA MsgsDrop ==
    ASSUME NEW pipe \in [Nat -> Envelopes], NEW C, MsgsInOrder(pipe, C),
           EnvelopeRecords(pipe[0]) \subseteq C
    PROVE  MsgsInOrder([pipe EXCEPT ![0] = NoEnvelope], C)
<1> DEFINE new == [pipe EXCEPT ![0] = NoEnvelope]
<1>1. new[0] = NoEnvelope /\ \A k \in Nat : k # 0 => new[k] = pipe[k]
  OBVIOUS
<1> HIDE DEF new
<1> SUFFICES ASSUME NEW k \in Nat PROVE Follows(new[k].msgs, C \cup Before(new, k))
  BY DEF MsgsInOrder, new
<1>2. CASE k = 0
  BY <1>1, <1>2, NoEnvelopeType, FollowsEmpty
<1>3. CASE k # 0
  <2>1. C \cup Before(pipe, k) \subseteq C \cup Before(new, k)
    BY <1>1 DEF Before
  <2>2. Follows(pipe[k].msgs, C \cup Before(pipe, k))
    BY DEF MsgsInOrder
  <2> QED BY <1>1, <1>3, <2>1, <2>2, FollowsGrow
<1> QED BY <1>2, <1>3

LEMMA MsgsShift ==
    ASSUME NEW pipe, NEW C, MsgsInOrder(pipe, C), EnvelopeRecords(pipe[0]) = {}
    PROVE  MsgsInOrder(Shifted(pipe), C)
<1>1. \A k \in Nat : Shifted(pipe)[k] = pipe[k + 1] /\ k + 1 \in Nat
  BY DEF Shifted
<1> SUFFICES ASSUME NEW k \in Nat
             PROVE  Follows(Shifted(pipe)[k].msgs, C \cup Before(Shifted(pipe), k))
  BY DEF MsgsInOrder
<1>2. Before(pipe, k + 1) \subseteq Before(Shifted(pipe), k)
  <2> SUFFICES ASSUME NEW q \in Records, NEW j \in Nat, j < k + 1, q \in EnvelopeRecords(pipe[j])
               PROVE  \E i \in Nat : i < k /\ q \in EnvelopeRecords(Shifted(pipe)[i])
    BY DEF Before
  <2>1. j # 0
    OBVIOUS
  <2>2. j - 1 \in Nat /\ j - 1 < k /\ (j - 1) + 1 = j
    BY <2>1
  <2> QED BY <1>1, <2>2
<1>3. Follows(pipe[k + 1].msgs, C \cup Before(pipe, k + 1))
  BY <1>1 DEF MsgsInOrder
<1>4. C \cup Before(pipe, k + 1) \subseteq C \cup Before(Shifted(pipe), k)
  BY <1>2
<1> QED BY <1>1, <1>3, <1>4, FollowsGrow

(***************************************************************************)
(* A record that takes the full path comes after everything read before.   *)
(***************************************************************************)
LEMMA MsgsJoin ==
    ASSUME NEW pipe \in [Nat -> Envelopes], NEW pos, NEW C, InOrder(pipe, pos, C),
           MsgsInOrder(pipe, C), NEW p \in Partitions, NEW n \in Nat,
           \A k \in Nat : k > n => EnvelopeRecords(pipe[k]) = {},
           <<p, pos[p]>> \in Records, pipe[n].noise \subseteq C,
           NEW e \in Envelopes, e.msgs = Append(pipe[n].msgs, <<p, pos[p]>>)
    PROVE  MsgsInOrder([pipe EXCEPT ![n] = e], C)
<1> DEFINE new == [pipe EXCEPT ![n] = e]
           last == <<p, pos[p]>>
           msgs == pipe[n].msgs
<1>1. /\ new[n] = e /\ \A k \in Nat : k # n => new[k] = pipe[k]
      /\ msgs \in Seq(Records) /\ e.msgs = Append(msgs, last) /\ last \in Records
  BY DEF Envelopes
<1>2. ASSUME NEW k \in Nat, k > n PROVE pipe[k].msgs = <<>>
  <2>1. pipe[k].msgs \in Seq(Records) /\ SeqRange(pipe[k].msgs) = {}
    BY <1>2 DEF Envelopes, EnvelopeRecords
  <2>2. \A s \in Seq(Records) : s # <<>> => 1 \in DOMAIN s
    OBVIOUS
  <2> QED BY <2>1, <2>2 DEF SeqRange
<1>3. \A k \in Nat : k <= n => Before(new, k) = Before(pipe, k)
  BY <1>1 DEF Before
<1>4. \A k \in Nat : Follows(pipe[k].msgs, C \cup Before(pipe, k))
  BY DEF MsgsInOrder
<1>5. Follows(Append(msgs, last), C \cup Before(pipe, n))
  <2>1. ASSUME NEW q \in Records, UpTo(q, last), q # last
        PROVE  q \in C \cup Before(pipe, n) \/ \E h \in 1 .. Len(msgs) : msgs[h] = q
    <3>1. q = <<q[1], q[2]>> /\ q[2] \in Int /\ q[1] = p /\ q[2] <= pos[p] /\ pos[p] \in Int
      BY <2>1, ForwarderAssumption DEF UpTo, Records, Offsets
    <3>2. q[2] < pos[q[1]]
      BY <2>1, <3>1
    <3>3. CASE q \in C
      BY <3>3
    <3>4. ASSUME NEW j \in Nat, q \in EnvelopeRecords(pipe[j])
          PROVE  q \in C \cup Before(pipe, n) \/ \E h \in 1 .. Len(msgs) : msgs[h] = q
      <4>1. j <= n
        BY <3>4
      <4>2. CASE j < n
        BY <3>4, <4>2 DEF Before
      <4>3. CASE j = n
        <5>1. q \in C \/ q \in SeqRange(msgs)
          BY <3>4, <4>3 DEF EnvelopeRecords
        <5> QED BY <1>1, <5>1 DEF SeqRange
      <4> QED BY <4>1, <4>2, <4>3
    <3> QED BY <3>2, <3>3, <3>4 DEF InOrder, In
  <2>2. Follows(msgs, C \cup Before(pipe, n))
    BY <1>4
  <2> HIDE DEF msgs, last
  <2> QED BY <1>1, <2>1, <2>2, FollowsAppend
<1> HIDE DEF new
<1> SUFFICES ASSUME NEW k \in Nat PROVE Follows(new[k].msgs, C \cup Before(new, k))
  BY DEF MsgsInOrder, new
<1>6. CASE k = n
  <2>1. Before(new, k) = Before(pipe, n) /\ new[k].msgs = Append(msgs, last)
    BY <1>1, <1>3, <1>6
  <2> HIDE DEF msgs, last
  <2> QED BY <1>5, <2>1
<1>7. CASE k < n
  <2>1. Before(new, k) = Before(pipe, k) /\ new[k] = pipe[k]
    BY <1>1, <1>3, <1>7
  <2> QED BY <1>4, <2>1
<1>8. CASE k > n
  BY <1>1, <1>2, <1>8, FollowsEmpty
<1> QED BY <1>6, <1>7, <1>8

-----------------------------------------------------------------------------
(***************************************************************************)
(* THE LANE.  The records its writer and its queue hold, oldest first.     *)
(***************************************************************************)
RecordsOf(s) == [i \in 1 .. Len(s) |-> s[i].rec]

SignalLine(L) == RecordsOf(wBatch[L] \o laneQ[L])

LEMMA RecordsOfAt ==
    ASSUME NEW s \in Seq(Items)
    PROVE  /\ RecordsOf(s) \in Seq(Records) /\ Len(RecordsOf(s)) = Len(s) /\ Len(s) \in Nat
           /\ \A i \in 1 .. Len(s) : RecordsOf(s)[i] = s[i].rec /\ s[i] \in Items
<1>1. Len(s) \in Nat /\ \A i \in 1 .. Len(s) : s[i] \in Items
  OBVIOUS
<1>2. Len(s) \in Nat /\ \A i \in 1 .. Len(s) : s[i] \in Items /\ s[i].rec \in Records
  BY <1>1 DEF Items
<1>3. RecordsOf(s) \in Seq(Records) /\ Len(RecordsOf(s)) = Len(s)
  BY <1>2 DEF RecordsOf
<1> QED BY <1>2, <1>3 DEF RecordsOf

LEMMA RecordsOfAppend ==
    ASSUME NEW s \in Seq(Items), NEW x \in Items
    PROVE  RecordsOf(Append(s, x)) = Append(RecordsOf(s), x.rec)
<1>1. /\ Len(s) \in Nat /\ Len(Append(s, x)) = Len(s) + 1 /\ Append(s, x)[Len(s) + 1] = x
      /\ \A i \in 1 .. Len(s) : Append(s, x)[i] = s[i]
  BY AppendAt
<1>2. x.rec \in Records
  BY DEF Items
<1>3. /\ Len(Append(RecordsOf(s), x.rec)) = Len(s) + 1
      /\ Append(RecordsOf(s), x.rec)[Len(s) + 1] = x.rec
      /\ \A i \in 1 .. Len(s) : Append(RecordsOf(s), x.rec)[i] = s[i].rec
      /\ Append(RecordsOf(s), x.rec) \in Seq(Records)
  BY <1>2, AppendAt, RecordsOfAt
<1>4. \A i \in 1 .. Len(s) + 1 : Append(s, x)[i].rec = Append(RecordsOf(s), x.rec)[i]
  BY <1>1, <1>3
<1>5. \A t \in Seq(Records) : t = [i \in 1 .. Len(t) |-> t[i]]
  OBVIOUS
<1>6. RecordsOf(Append(s, x)) = [i \in 1 .. Len(s) + 1 |-> Append(RecordsOf(s), x.rec)[i]]
  BY <1>1, <1>4 DEF RecordsOf
<1> QED BY <1>3, <1>5, <1>6

LEMMA RecordsOfRange ==
    ASSUME NEW s \in Seq(Items)
    PROVE  SeqRange(RecordsOf(s)) = BatchRecords(s)
<1>1. DOMAIN RecordsOf(s) = 1 .. Len(s) /\ DOMAIN s = 1 .. Len(s)
  BY DEF RecordsOf
<1> QED BY <1>1, RecordsOfAt DEF SeqRange, BatchRecords

LEMMA ConcatRecords ==
    ASSUME NEW b \in Seq(Items), NEW rest \in Seq(Items)
    PROVE  SeqRange(RecordsOf(b \o rest)) \subseteq BatchRecords(b) \cup SeqRange(RecordsOf(rest))
<1>1. /\ Len(b) \in Nat /\ Len(rest) \in Nat /\ Len(b \o rest) = Len(b) + Len(rest)
      /\ \A i \in 1 .. Len(b) : (b \o rest)[i] = b[i]
      /\ \A i \in 1 .. Len(rest) : (b \o rest)[Len(b) + i] = rest[i]
      /\ DOMAIN b = 1 .. Len(b)
  BY ConcatAt
<1> SUFFICES ASSUME NEW i \in 1 .. Len(b) + Len(rest)
             PROVE  (b \o rest)[i].rec \in BatchRecords(b) \cup SeqRange(RecordsOf(rest))
  BY <1>1 DEF SeqRange, RecordsOf
<1>2. CASE i <= Len(b)
  <2>1. i \in 1 .. Len(b) /\ b[i].rec \in BatchRecords(b)
    BY <1>1, <1>2 DEF BatchRecords, SeqRange
  <2> QED BY <1>1, <2>1
<1>3. CASE i > Len(b)
  <2>1. i - Len(b) \in 1 .. Len(rest) /\ Len(b) + (i - Len(b)) = i
    BY <1>1, <1>3
  <2>2. (b \o rest)[i] = rest[i - Len(b)]
    BY <1>1, <2>1
  <2>3. rest[i - Len(b)].rec \in SeqRange(RecordsOf(rest))
    BY <2>1 DEF SeqRange, RecordsOf
  <2> QED BY <2>2, <2>3
<1> QED BY <1>1, <1>2, <1>3

(***************************************************************************)
(* A batch that is written leaves the line, and what lies below any of its *)
(* records is in C.                                                        *)
(***************************************************************************)
LEMMA FollowsWritten ==
    ASSUME NEW b \in Seq(Items), NEW rest \in Seq(Items), NEW C,
           Follows(RecordsOf(b \o rest), C), BatchRecords(b) \subseteq C
    PROVE  /\ Follows(RecordsOf(rest), C)
           /\ \A r \in BatchRecords(b), q \in Records : UpTo(q, r) => q \in C
<1> DEFINE line == RecordsOf(b \o rest)
<1>1. /\ b \o rest \in Seq(Items) /\ Len(b) \in Nat /\ Len(rest) \in Nat
      /\ Len(b \o rest) = Len(b) + Len(rest)
      /\ \A i \in 1 .. Len(b) : (b \o rest)[i] = b[i]
      /\ \A i \in 1 .. Len(rest) : (b \o rest)[Len(b) + i] = rest[i]
  BY ConcatAt
<1>2. /\ Len(line) = Len(b) + Len(rest) /\ Len(RecordsOf(rest)) = Len(rest)
      /\ \A i \in 1 .. Len(b) : line[i] = b[i].rec /\ line[i] \in C
      /\ \A i \in 1 .. Len(rest) : line[Len(b) + i] = rest[i].rec
      /\ \A i \in 1 .. Len(rest) : RecordsOf(rest)[i] = rest[i].rec
  <2>1. \A i \in 1 .. Len(b) : b[i].rec \in BatchRecords(b)
    BY DEF BatchRecords, SeqRange
  <2>2. \A i \in 1 .. Len(b) + Len(rest) : line[i] = (b \o rest)[i].rec
    BY <1>1, RecordsOfAt
  <2>3. \A i \in 1 .. Len(b) : i \in 1 .. Len(b) + Len(rest)
    BY <1>1
  <2>4. \A i \in 1 .. Len(rest) : Len(b) + i \in 1 .. Len(b) + Len(rest)
    BY <1>1
  <2>5. Len(line) = Len(b) + Len(rest)
    BY <1>1, RecordsOfAt
  <2> HIDE DEF line
  <2> QED BY <1>1, <2>1, <2>2, <2>3, <2>4, <2>5, RecordsOfAt
<1> HIDE DEF line
<1>3. Follows(line, C)
  BY DEF line
<1>4. ASSUME NEW r \in BatchRecords(b), NEW q \in Records, UpTo(q, r) PROVE q \in C
  <2>1. PICK i \in 1 .. Len(b) : b[i].rec = r
    BY DEF BatchRecords, SeqRange
  <2>2. i \in 1 .. Len(line) /\ UpTo(q, line[i])
    BY <1>1, <1>2, <1>4, <2>1
  <2>3. q \in C \/ \E h \in 1 .. i : line[h] = q
    BY <1>3, <2>2 DEF Follows
  <2>4. \A h \in 1 .. i : h \in 1 .. Len(b)
    BY <1>1, <2>1
  <2> QED BY <1>2, <2>3, <2>4
<1>5. ASSUME NEW i \in 1 .. Len(rest), NEW q \in Records, UpTo(q, rest[i].rec), q \notin C
      PROVE  \E h \in 1 .. i : rest[h].rec = q
  <2>1. Len(b) + i \in 1 .. Len(line) /\ UpTo(q, line[Len(b) + i])
    BY <1>1, <1>2, <1>5
  <2>2. PICK h \in 1 .. Len(b) + i : line[h] = q
    BY <1>3, <1>5, <2>1 DEF Follows
  <2>3. h > Len(b)
    BY <1>1, <1>2, <1>5, <2>2
  <2>4. h - Len(b) \in 1 .. i /\ h - Len(b) \in 1 .. Len(rest) /\ Len(b) + (h - Len(b)) = h
    BY <1>1, <2>2, <2>3
  <2>5. rest[h - Len(b)].rec = q
    BY <1>2, <2>2, <2>4
  <2> QED BY <2>4, <2>5
<1>6. Follows(RecordsOf(rest), C)
  <2> SUFFICES ASSUME NEW i \in 1 .. Len(rest), NEW q \in Records, UpTo(q, rest[i].rec), q \notin C
               PROVE  \E h \in 1 .. i : RecordsOf(rest)[h] = q
    BY <1>2 DEF Follows
  <2>1. PICK h \in 1 .. i : rest[h].rec = q
    BY <1>5
  <2>2. h \in 1 .. Len(rest)
    BY <1>1
  <2> QED BY <1>2, <2>1, <2>2
<1> QED BY <1>4, <1>6

-----------------------------------------------------------------------------
(***************************************************************************)
(* The steps of the batch in hand keep what is safe or will be declined.   *)
(***************************************************************************)
BatchDecided(L) ==
    /\ ppc \in {"noise", "signal", "commit"} => todo = <<>> /\ (shouldCommit => ~ failed)
    /\ ppc = "commit" /\ shouldCommit => SeqRange(cur.msgs) \subseteq Safe(L)

LEMMA SafeGrows ==
    ASSUME TypeOK, [Next]_vars, NEW L
    PROVE  Safe(L) \subseteq Safe(L)' /\ Signals(L)' = Signals(L) /\ Excused' \subseteq Safe(L)'
<1>1. pg \subseteq pg' /\ Excused \subseteq Excused' /\ kind' = kind
  BY LedgerStep, ExcusedGrows, KindKept
<1>2. Signals(L)' = Signals(L)
  BY <1>1 DEF Signals
<1> QED BY <1>1, <1>2 DEF Safe

LEMMA DeclinedBooked ==
    ASSUME TypeOK, DeclineBatch
    PROVE  EnvelopeRecords(cur) \subseteq Excused'
BY ExcuseGrows DEF DeclineBatch, Excused, Causes

LEMMA DoomedKept ==
    ASSUME TypeOK, IdleHoldsNothing, NEW L, BatchDecided(L), [Next]_vars, ~ Crash
    PROVE  SafeOrDoomed(L) \subseteq SafeOrDoomed(L)'
<1>1. Safe(L) \subseteq Safe(L)' /\ Excused' \subseteq Safe(L)'
  BY SafeGrows
<1>2. CASE Doomed = {}
  BY <1>1, <1>2 DEF SafeOrDoomed
<1>3. CASE DeclineBatch
  BY <1>1, <1>3, DeclinedBooked DEF SafeOrDoomed, Doomed
<1>4. CASE CommitBatch \/ CommitRaises
  <2>1. ~ failed
    BY <1>4 DEF CommitBatch, CommitRaises, BatchDecided
  <2> QED BY <1>2, <2>1 DEF Doomed
<1>5. CASE TakeEnvelope
  BY <1>2, <1>5, EmptyEnvelope DEF TakeEnvelope, IdleHoldsNothing, Doomed
<1>6. CASE cur' = cur /\ (failed => failed')
  <2>1. Doomed \subseteq Doomed'
    BY <1>6 DEF Doomed, EnvelopeRecords
  <2> QED BY <1>1, <2>1 DEF SafeOrDoomed
<1> QED
  BY <1>3, <1>4, <1>5, <1>6, BatchFrame
  DEF SkipRevoked, ProcessPoison, StartEvent, RouteAndPublish, FlushAndEvaluate, AwaitNoise,
      AwaitSignal, processorVars, batchVars

(***************************************************************************)
(* Short-circuited records are noise, which no signal lane carries.        *)
(***************************************************************************)
NoiseIsNoise == \A k \in Nat : \A r \in Pipe[k].noise : kind[r] = "noise"

LEMMA NoiseSafe ==
    ASSUME TypeOK, NoiseIsNoise, NEW L \in {"critical", "normal"}, NEW k \in Nat
    PROVE  Pipe[k].noise \subseteq Safe(L)
<1>1. Pipe[k].noise \subseteq Records
  BY PipeType DEF Envelopes
<1> QED BY <1>1 DEF NoiseIsNoise, Safe, Signals

LEMMA NoiseKindStep ==
    ASSUME TypeOK, NoiseIsNoise, [Next]_vars
    PROVE  NoiseIsNoise'
<1>1. /\ Pipe \in [Nat -> Envelopes] /\ kind' = kind
      /\ Len(recordQ) + 1 \in Nat /\ Pipe[Len(recordQ) + 1] = env /\ env \in Envelopes
  BY PipeType, PipeEnd, KindKept DEF TypeOK, ConsumerTypeOK
<1>2. ASSUME NEW p \in Partitions, Fetch(p) PROVE NoiseIsNoise'
  <2> DEFINE q == <<p, position[p]>>
  <2>1. Pipe' = [Pipe EXCEPT ![Len(recordQ) + 1] = env']
    BY <1>2, SplitPipe DEF Fetch, processorVars, batchVars
  <2>2. \A r \in env'.noise : r \in env.noise \/ kind[r] = "noise"
    <3>1. CASE TakeFullPath(q)
      BY <1>1, <3>1 DEF TakeFullPath, Envelopes
    <3>2. CASE ShortCircuitNoise(q)
      BY <1>1, <3>2 DEF ShortCircuitNoise, Envelopes
    <3> QED BY <1>2, <3>1, <3>2 DEF Fetch
  <2> QED BY <1>1, <2>1, <2>2 DEF NoiseIsNoise
<1>3. CASE FetchError
  <2>1. Pipe' = [Pipe EXCEPT ![Len(recordQ) + 1] = env'] /\ env'.noise = env.noise
    BY <1>3, SplitPipe DEF FetchError, processorVars, batchVars, TypeOK, ConsumerTypeOK, Envelopes
  <2> QED BY <1>1, <2>1 DEF NoiseIsNoise
<1>4. CASE PutEnvelope \/ UNCHANGED <<cur, recordQ, env>>
  <2>1. Pipe' = Pipe
    BY <1>4, PutPipe, SamePipe
  <2> QED BY <1>1, <2>1 DEF NoiseIsNoise
<1>5. CASE TakeEnvelope
  <2>1. \A k \in Nat : Pipe'[k] = Pipe[k + 1] /\ k + 1 \in Nat
    BY <1>5, TakePipe DEF Shifted
  <2> QED BY <1>1, <2>1 DEF NoiseIsNoise
<1>6. CASE CommitBatch \/ CommitRaises \/ DeclineBatch
  <2>1. Pipe' = [Pipe EXCEPT ![0] = NoEnvelope]
    BY <1>6, EndBatchPipe DEF CommitBatch, CommitRaises, DeclineBatch, consumerVars
  <2> QED BY <1>1, <2>1, EmptyEnvelope DEF NoiseIsNoise
<1>7. CASE Crash
  BY <1>7, CrashPipe, EmptyEnvelope DEF NoiseIsNoise
<1> QED
  BY <1>2, <1>3, <1>4, <1>5, <1>6, <1>7, PipeFrame
  DEF HeartbeatPoll, OnAssign, processorVars, batchVars

(***************************************************************************)
(* Every step keeps the messages in the order of the log.                  *)
(***************************************************************************)
LEMMA MsgsStep ==
    ASSUME TypeOK, IdleHoldsNothing, NoiseIsNoise, [Next]_vars,
           NEW L \in {"critical", "normal"}, InOrder(Pipe, position, Safe(L)),
           MsgsInOrder(Pipe, Safe(L)),
           CommitBatch \/ CommitRaises \/ DeclineBatch => EnvelopeRecords(cur) \subseteq Safe(L)'
    PROVE  MsgsInOrder(Pipe', Safe(L)')
<1> DEFINE n == Len(recordQ) + 1
<1>1. /\ MsgsInOrder(Pipe, Safe(L)') /\ Pipe \in [Nat -> Envelopes] /\ Safe(L) \subseteq Safe(L)'
      /\ n \in Nat /\ Pipe[n] = env /\ Pipe[0] = cur /\ env \in Envelopes
      /\ \A k \in Nat : k > n => EnvelopeRecords(Pipe[k]) = {}
  BY SafeGrows, MsgsGrow, PipeType, PipeEnd, EmptyEnvelope DEF TypeOK, ConsumerTypeOK
<1>2. ASSUME UNCHANGED <<recordQ, cur>>, env'.msgs = env.msgs,
             EnvelopeRecords(env) \subseteq EnvelopeRecords(env')
      PROVE  MsgsInOrder(Pipe', Safe(L)')
  <2>1. Pipe' = [Pipe EXCEPT ![n] = env']
    BY <1>2, SplitPipe
  <2>2. \A k \in Nat : /\ Pipe'[k].msgs = Pipe[k].msgs
                       /\ EnvelopeRecords(Pipe[k]) \subseteq EnvelopeRecords(Pipe'[k])
    BY <1>1, <1>2, <2>1
  <2>3. \A k \in Nat : Safe(L)' \cup Before(Pipe, k) \subseteq Safe(L)' \cup Before(Pipe', k)
    BY <2>2 DEF Before
  <2> QED BY <1>1, <2>2, <2>3, FollowsGrow DEF MsgsInOrder
<1>3. ASSUME NEW p \in Partitions, Fetch(p) PROVE MsgsInOrder(Pipe', Safe(L)')
  <2> DEFINE q == <<p, position[p]>>
  <2>0. q \in Records
    BY <1>3, ForwarderAssumption DEF TypeOK, ConsumerTypeOK, Fetch, Records, Offsets
  <2>1. /\ UNCHANGED <<recordQ, cur>> /\ Pipe' = [Pipe EXCEPT ![n] = env']
        /\ EnvelopeRecords(env) \subseteq EnvelopeRecords(env')
    BY <1>3, FetchJoins, SplitPipe
  <2>2. CASE ShortCircuitNoise(q)
    <3>1. env'.msgs = env.msgs
      BY <1>1, <2>2 DEF ShortCircuitNoise, Envelopes
    <3> QED BY <1>2, <2>1, <3>1
  <2>3. CASE TakeFullPath(q)
    <3>0. env.msgs \in Seq(Records) /\ Append(env.msgs, q) \in Seq(Records)
      BY <1>1, <2>0, AppendType DEF Envelopes
    <3>1. env' \in Envelopes /\ env'.msgs = Append(env.msgs, q)
      <4> HIDE DEF q
      <4> QED BY <1>1, <2>3, <3>0 DEF TakeFullPath, Envelopes
    <3>2. env.noise \subseteq Safe(L)
      BY <1>1, NoiseSafe
    <3>3. MsgsInOrder(Pipe', Safe(L))
      <4> HIDE DEF n
      <4> QED BY <1>1, <2>0, <2>1, <3>1, <3>2, MsgsJoin
    <3> QED BY <1>1, <3>3, MsgsGrow
  <2> QED BY <1>3, <2>2, <2>3 DEF Fetch
<1>4. CASE FetchError
  <2>1. /\ UNCHANGED <<recordQ, cur>> /\ env'.msgs = env.msgs
        /\ EnvelopeRecords(env) = EnvelopeRecords(env')
    BY <1>1, <1>4 DEF FetchError, processorVars, batchVars, EnvelopeRecords, Envelopes
  <2> QED BY <1>2, <2>1
<1>5. CASE PutEnvelope \/ UNCHANGED <<cur, recordQ, env>>
  BY <1>1, <1>5, PutPipe, SamePipe
<1>6. CASE TakeEnvelope
  <2>1. EnvelopeRecords(Pipe[0]) = {} /\ Pipe' = Shifted(Pipe)
    BY <1>1, <1>6, TakePipe, EmptyEnvelope DEF TakeEnvelope, IdleHoldsNothing
  <2> QED BY <1>1, <2>1, MsgsShift
<1>7. CASE CommitBatch \/ CommitRaises \/ DeclineBatch
  <2>1. Pipe' = [Pipe EXCEPT ![0] = NoEnvelope]
    BY <1>7, EndBatchPipe DEF CommitBatch, CommitRaises, DeclineBatch, consumerVars
  <2> QED BY <1>1, <1>7, <2>1, MsgsDrop
<1>8. CASE Crash
  <2>1. \A k \in Nat : Pipe'[k].msgs = <<>>
    BY <1>8, CrashPipe, NoEnvelopeType
  <2> QED BY <2>1, FollowsEmpty DEF MsgsInOrder
<1> QED
  BY <1>3, <1>4, <1>5, <1>6, <1>7, <1>8, PipeFrame
  DEF HeartbeatPoll, OnAssign, processorVars, batchVars

-----------------------------------------------------------------------------
(***************************************************************************)
(* THE SIGNAL LANE.  All signal records have kind L, so the other signal   *)
(* lane stays empty; no write fails, so nothing is ever put back.          *)
(***************************************************************************)
SignalKinds == {"critical", "normal"}

OneLane(L) == Kinds \cap SignalKinds \subseteq {L}

OtherIdle(L) ==
    \A l \in SignalKinds : l # L => laneQ[l] = <<>> /\ wBatch[l] = <<>>

NoRetry == \A l \in Lanes : wpc[l] = "collect"

LEMMA KindOfLane ==
    ASSUME TypeOK, NEW L \in SignalKinds, OneLane(L), NEW r \in Records, LaneOf(r) \in SignalKinds
    PROVE  LaneOf(r) = L /\ kind[r] = L
BY DEF TypeOK, BrokerTypeOK, LaneOf, SignalKinds, OneLane

LEMMA NoRetryStep ==
    ASSUME NoRetry, [Next]_vars, ~ Spend("db")
    PROVE  NoRetry' /\ \A l \in Lanes : ~ RequeueOrDlq(l)
<1>1. \A l \in Lanes : ~ RequeueOrDlq(l) /\ ~ WriteFails(l)
  BY DEF NoRetry, RequeueOrDlq, WriteFails
<1>2. UNCHANGED wpc \/ Crash
  BY <1>1
  DEF Next, ConsumerStep, Fetch, FinishSplit, PutEnvelope, PauseOnFull, ResumeAfterDrain,
      ProcessorStep, TakeEnvelope, SkipRevoked, ProcessPoison, StartEvent, RouteAndPublish,
      FlushAndEvaluate, AwaitNoise, AwaitSignal, CommitBatch, DeclineBatch,
      ProducerStep, Deliver, DlqDeliver, Rebalance, OnAssign, WriterStep, WriterGet,
      WriterWrite, FaultStep, FetchError, HeartbeatPoll, OnRevoke,
      CommitRaises, DeliveryFails, DlqDeliveryFails, Quiescent, vars, writerVars
<1> QED BY <1>1, <1>2 DEF NoRetry, Crash

LEMMA RoutedTo ==
    ASSUME TypeOK, RouteAndPublish, Accepted(Head(todo))
    PROVE  \E l \in Lanes : /\ l = LaneOf(Head(todo)) /\ Head(todo) \in Records
                            /\ NewItem(Head(todo), FALSE) \in Items
                            /\ NewItem(Head(todo), FALSE).rec = Head(todo)
                            /\ laneQ' = [laneQ EXCEPT ![l] = Append(@, NewItem(Head(todo), FALSE))]
                            /\ UNCHANGED wBatch
<1>1. Head(todo) \in Records
  BY HeadTodo DEF RouteAndPublish, TypeOK, ProcessorTypeOK
<1> QED BY <1>1, LaneOfType, NewItemType DEF RouteAndPublish, Accepted, writerVars, NewItem

LEMMA OtherIdleStep ==
    ASSUME TypeOK, NEW L \in SignalKinds, OneLane(L), OtherIdle(L), NoRetry,
           [Next]_vars, ~ Spend("db")
    PROVE  OtherIdle(L)'
<1> SUFFICES ASSUME NEW l \in SignalKinds, l # L PROVE laneQ'[l] = <<>> /\ wBatch'[l] = <<>>
  BY DEF OtherIdle
<1>1. laneQ[l] = <<>> /\ wBatch[l] = <<>> /\ l \in Lanes /\ l # "bulk"
  BY DEF OtherIdle, SignalKinds, Lanes
<1>2. ASSUME NEW p \in Partitions, Fetch(p) PROVE laneQ'[l] = <<>> /\ wBatch'[l] = <<>>
  BY <1>1, <1>2 DEF Fetch, ShortCircuitNoise, TakeFullPath, writerVars, TypeOK, WriterTypeOK
<1>3. CASE RouteAndPublish
  <2>1. CASE Accepted(Head(todo))
    <3>1. PICK m \in Lanes : /\ m = LaneOf(Head(todo)) /\ Head(todo) \in Records
                             /\ laneQ' = [laneQ EXCEPT ![m] = Append(@, NewItem(Head(todo), FALSE))]
                             /\ UNCHANGED wBatch
      BY <1>3, <2>1, RoutedTo
    <3>2. m # l
      BY <3>1, KindOfLane
    <3> QED BY <1>1, <3>1, <3>2 DEF TypeOK, WriterTypeOK
  <2>2. CASE ~ Accepted(Head(todo))
    BY <1>1, <1>3, <2>2 DEF RouteAndPublish, Refused, writerVars
  <2> QED BY <2>1, <2>2
<1>4. CASE Crash
  BY <1>1, <1>4 DEF Crash
<1>5. ASSUME NEW m \in Lanes, WriterGet(m) \/ WriterWrite(m)
      PROVE  laneQ'[l] = <<>> /\ wBatch'[l] = <<>>
  <2>1. m # l
    BY <1>1, <1>5 DEF WriterGet, WriterWrite
  <2> QED BY <1>1, <1>5, <2>1 DEF WriterGet, WriterWrite, TypeOK, WriterTypeOK
<1>6. CASE UNCHANGED <<laneQ, wBatch>>
  BY <1>1, <1>6
<1> QED BY <1>2, <1>3, <1>4, <1>5, <1>6, LaneFrame, NoRetryStep

LEMMA SignalHwmFrame ==
    ASSUME [Next]_vars
    PROVE  UNCHANGED signalHwm \/ Crash \/ \E l \in Lanes : WriterWrite(l)
BY DEF Next, ConsumerStep, Fetch, FinishSplit, PutEnvelope, PauseOnFull, ResumeAfterDrain,
       ProcessorStep, TakeEnvelope, SkipRevoked, ProcessPoison, StartEvent, RouteAndPublish,
       FlushAndEvaluate, AwaitNoise, AwaitSignal, CommitBatch, DeclineBatch,
       ProducerStep, Deliver, DlqDeliver, Rebalance, OnAssign, WriterStep, WriterGet,
       RequeueOrDlq, FaultStep, FetchError, HeartbeatPoll, OnRevoke,
       CommitRaises, DeliveryFails, DlqDeliveryFails, WriteFails, Quiescent, vars, barrierVars

(***************************************************************************)
(* A step leaves the signal line as it is, adds the record the processor   *)
(* routes, or removes the batch its writer has written.                    *)
(***************************************************************************)
LineKept(L) == SignalLine(L)' = SignalLine(L) /\ UNCHANGED signalHwm

LineJoined(L) ==
    /\ RouteAndPublish /\ Accepted(Head(todo))
    /\ SignalLine(L)' = Append(SignalLine(L), Head(todo))
    /\ UNCHANGED signalHwm

LineWritten(L) ==
    /\ SignalLine(L)' = RecordsOf(laneQ[L])
    /\ pg' = pg \cup BatchRecords(wBatch[L])
    /\ \/ UNCHANGED signalHwm
       \/ IsRaised(signalHwm', signalHwm, BatchRecords(wBatch[L]))

LEMMA SignalLaneType ==
    ASSUME TypeOK, NEW L \in SignalKinds
    PROVE  /\ L \in Lanes /\ L # "bulk" /\ laneQ[L] \in Seq(Items) /\ wBatch[L] \in Seq(Items)
           /\ wBatch[L] \o laneQ[L] \in Seq(Items)
<1>1. L \in Lanes /\ L # "bulk"
  BY DEF SignalKinds, Lanes
<1> QED BY <1>1, LanesType, ConcatAt

LEMMA RouteJoins ==
    ASSUME TypeOK, NEW L \in SignalKinds, RouteAndPublish, Accepted(Head(todo)),
           LaneOf(Head(todo)) = L
    PROVE  LineJoined(L)
<1> DEFINE x == NewItem(Head(todo), FALSE)
<1>1. /\ L \in Lanes /\ laneQ[L] \in Seq(Items) /\ wBatch[L] \in Seq(Items)
      /\ wBatch[L] \o laneQ[L] \in Seq(Items)
  BY SignalLaneType
<1>2. PICK m \in Lanes : /\ m = LaneOf(Head(todo)) /\ x \in Items /\ x.rec = Head(todo)
                         /\ laneQ' = [laneQ EXCEPT ![m] = Append(@, x)]
                         /\ UNCHANGED wBatch
  BY RoutedTo
<1> HIDE DEF x
<1>3. laneQ'[L] = Append(laneQ[L], x) /\ wBatch'[L] = wBatch[L]
  BY <1>1, <1>2 DEF TypeOK, WriterTypeOK
<1>4. wBatch[L] \o Append(laneQ[L], x) = Append(wBatch[L] \o laneQ[L], x)
  BY <1>1, <1>2, ConcatAppend
<1>5. SignalLine(L)' = RecordsOf(wBatch'[L] \o laneQ'[L])
  BY DEF SignalLine, RecordsOf
<1>6. SignalLine(L)' = RecordsOf(Append(wBatch[L] \o laneQ[L], x))
  BY <1>3, <1>4, <1>5
<1>7. SignalLine(L)' = Append(SignalLine(L), Head(todo))
  BY <1>1, <1>2, <1>6, RecordsOfAppend DEF SignalLine
<1> QED BY <1>7 DEF LineJoined, RouteAndPublish, barrierVars

LEMMA LineFrame ==
    ASSUME TypeOK, NEW L \in SignalKinds, OneLane(L), OtherIdle(L), NoRetry,
           [Next]_vars, ~ Spend("db")
    PROVE  Crash \/ LineKept(L) \/ LineJoined(L) \/ LineWritten(L)
<1>1. /\ L \in Lanes /\ L # "bulk" /\ laneQ[L] \in Seq(Items) /\ wBatch[L] \in Seq(Items)
      /\ wBatch[L] \o laneQ[L] \in Seq(Items)
  BY SignalLaneType
<1>2. (\A l \in Lanes : ~ RequeueOrDlq(l)) /\ Lanes = SignalKinds \cup {"bulk"}
  BY NoRetryStep DEF Lanes, SignalKinds
<1>3. ASSUME NEW m \in Lanes, WriterWrite(m) PROVE LineKept(L) \/ LineWritten(L)
  <2>1. CASE m = L
    <3>1. wBatch'[L] = <<>> /\ laneQ'[L] = laneQ[L]
      BY <1>1, <1>3, <2>1 DEF WriterWrite, TypeOK, WriterTypeOK
    <3>2. SignalLine(L)' = RecordsOf(laneQ[L])
      <4>1. wBatch'[L] \o laneQ'[L] = laneQ[L]
        BY <1>1, <3>1
      <4>2. SignalLine(L)' = RecordsOf(wBatch'[L] \o laneQ'[L])
        BY DEF SignalLine, RecordsOf
      <4> QED BY <4>1, <4>2
    <3> QED BY <1>1, <1>3, <2>1, <3>2 DEF WriterWrite, LineWritten, RecordSignalPersisted
  <2>2. CASE m # L
    <3>1. m = "bulk"
      BY <1>2, <1>3, <2>2 DEF WriterWrite, OtherIdle
    <3>2. wBatch'[L] = wBatch[L] /\ laneQ' = laneQ /\ UNCHANGED signalHwm
      BY <1>1, <1>3, <3>1 DEF WriterWrite, TypeOK, WriterTypeOK
    <3> QED BY <3>2 DEF LineKept, SignalLine, RecordsOf
  <2> QED BY <2>1, <2>2
<1>4. ASSUME NEW m \in Lanes, WriterGet(m) PROVE LineKept(L)
  <2>1. UNCHANGED signalHwm
    BY <1>4 DEF WriterGet, barrierVars
  <2>2. wBatch'[L] \o laneQ'[L] = wBatch[L] \o laneQ[L]
    <3>1. CASE m = L
      <4>1. /\ laneQ[L] # <<>> /\ wBatch'[L] = Append(wBatch[L], Head(laneQ[L]))
            /\ laneQ'[L] = Tail(laneQ[L])
        BY <1>1, <1>4, <3>1 DEF WriterGet, TypeOK, WriterTypeOK
      <4>2. \A s, t \in Seq(Items) : t # <<>> => Append(s, Head(t)) \o Tail(t) = s \o t
        OBVIOUS
      <4> QED BY <1>1, <4>1, <4>2
    <3>2. CASE m # L
      BY <1>1, <1>4, <3>2 DEF WriterGet, TypeOK, WriterTypeOK
    <3> QED BY <3>1, <3>2
  <2> QED BY <2>1, <2>2 DEF LineKept, SignalLine, RecordsOf
<1>5. ASSUME UNCHANGED <<laneQ, wBatch, signalHwm>> PROVE LineKept(L)
  BY <1>5 DEF LineKept, SignalLine, RecordsOf
<1>6. ASSUME NEW p \in Partitions, Fetch(p) PROVE LineKept(L)
  <2>1. laneQ'[L] = laneQ[L] /\ UNCHANGED <<wBatch, signalHwm>>
    BY <1>1, <1>6
    DEF Fetch, ShortCircuitNoise, TakeFullPath, writerVars, barrierVars, TypeOK, WriterTypeOK
  <2> QED BY <2>1 DEF LineKept, SignalLine, RecordsOf
<1>7. CASE RouteAndPublish
  <2>1. UNCHANGED signalHwm
    BY <1>7 DEF RouteAndPublish, barrierVars
  <2>2. CASE Accepted(Head(todo))
    <3>1. PICK m \in Lanes :
              /\ m = LaneOf(Head(todo)) /\ UNCHANGED wBatch
              /\ laneQ' = [laneQ EXCEPT ![m] = Append(@, NewItem(Head(todo), FALSE))]
      BY <1>7, <2>2, RoutedTo
    <3>2. CASE m = L
      BY <1>7, <2>2, <3>1, <3>2, RouteJoins
    <3>3. CASE m # L
      <4>1. laneQ'[L] = laneQ[L] /\ wBatch' = wBatch
        BY <1>1, <3>1, <3>3 DEF TypeOK, WriterTypeOK
      <4> QED BY <2>1, <4>1 DEF LineKept, SignalLine, RecordsOf
    <3> QED BY <3>2, <3>3
  <2>3. CASE ~ Accepted(Head(todo))
    BY <1>5, <1>7, <2>1, <2>3 DEF RouteAndPublish, Refused, writerVars
  <2> QED BY <2>2, <2>3
<1> QED BY <1>2, <1>3, <1>4, <1>5, <1>6, <1>7, LaneFrame, SignalHwmFrame

-----------------------------------------------------------------------------
(***************************************************************************)
(* THE BATCH IN HAND.  The messages already processed are safe, doomed, or *)
(* on the line with a required mark at or above them.                      *)
(***************************************************************************)
Done == Len(cur.msgs) - Len(todo)

BatchSuffix ==
    /\ Done \in Nat
    /\ \A i \in 1 .. Len(todo) : todo[i] = cur.msgs[Done + i]

Awaited(L, r) == r \in SeqRange(SignalLine(L)) /\ signalRequired[r[1]] >= r[2]

BatchRouted(L) ==
    \A h \in 1 .. Done : cur.msgs[h] \in SafeOrDoomed(L) \/ Awaited(L, cur.msgs[h])

HwmSpeaks(L) == \A q \in Records : signalHwm[q[1]] >= q[2] => q \in SafeOrDoomed(L)

LEMMA MessagesType ==
    ASSUME TypeOK
    PROVE  /\ cur.msgs \in Seq(Records) /\ todo \in Seq(Records)
           /\ Len(cur.msgs) \in Nat /\ Len(todo) \in Nat
BY DEF TypeOK, ProcessorTypeOK, Envelopes

LEMMA SuffixTail ==
    ASSUME TypeOK, BatchSuffix, todo # <<>>, cur' = cur, todo' = Tail(todo)
    PROVE  /\ BatchSuffix' /\ Done' = Done + 1 /\ Done + 1 \in 1 .. Len(cur.msgs)
           /\ Head(todo) = cur.msgs[Done + 1]
<1>1. /\ Len(cur.msgs) \in Nat /\ Len(todo) \in Nat /\ Len(todo) > 0 /\ Head(todo) = todo[1]
      /\ Len(Tail(todo)) = Len(todo) - 1
      /\ \A i \in 1 .. Len(todo) - 1 : Tail(todo)[i] = todo[i + 1]
  BY MessagesType
<1>2. Done' = Done + 1
  BY <1>1 DEF Done
<1>3. \A i \in 1 .. Len(todo) - 1 : todo[i + 1] = cur.msgs[Done + (i + 1)]
  BY <1>1 DEF BatchSuffix
<1>4. Done \in Nat
  BY DEF BatchSuffix
<1>5. \A i \in 1 .. Len(todo) - 1 : Done + (i + 1) = (Done + 1) + i
  BY <1>4
<1>6. \A i \in 1 .. Len(todo') : todo'[i] = cur'.msgs[Done' + i]
  BY <1>1, <1>2, <1>3, <1>5
<1>7. Done + 1 \in 1 .. Len(cur.msgs) /\ Head(todo) = cur.msgs[Done + 1]
  BY <1>1, <1>4 DEF Done, BatchSuffix
<1>8. Done' \in Nat
  BY <1>2, <1>4
<1>9. BatchSuffix'
  BY <1>6, <1>8 DEF BatchSuffix
<1> QED BY <1>2, <1>7, <1>9

LEMMA SuffixStep ==
    ASSUME TypeOK, BatchSuffix, [Next]_vars
    PROVE  BatchSuffix'
<1>1. CASE SkipRevoked \/ ProcessPoison \/ RouteAndPublish
  <2>1. todo # <<>> /\ todo' = Tail(todo) /\ cur' = cur
    BY <1>1 DEF SkipRevoked, ProcessPoison, RouteAndPublish, TypeOK, ProcessorTypeOK
  <2> QED BY <2>1, SuffixTail
<1>2. CASE TakeEnvelope
  <2>1. cur'.msgs = todo' /\ Head(recordQ) \in Envelopes /\ cur' = Head(recordQ)
    BY <1>2 DEF TakeEnvelope, TypeOK, ConsumerTypeOK
  <2>2. Len(todo') \in Nat
    BY <2>1 DEF Envelopes
  <2>3. Done' = 0
    BY <2>1, <2>2 DEF Done
  <2> QED BY <2>1, <2>2, <2>3 DEF BatchSuffix
<1>3. CASE CommitBatch \/ CommitRaises \/ DeclineBatch \/ Crash
  <2>1. cur'.msgs = <<>> /\ todo' = <<>>
    BY <1>3, NoEnvelopeType DEF CommitBatch, CommitRaises, DeclineBatch, EndBatch, Crash
  <2>2. Done' = 0 /\ Len(todo') = 0
    BY <2>1 DEF Done
  <2> QED BY <2>2 DEF BatchSuffix
<1>4. CASE UNCHANGED <<cur, todo>>
  BY <1>4 DEF BatchSuffix, Done
<1> QED
  BY <1>1, <1>2, <1>3, <1>4, BatchFrame
  DEF StartEvent, FlushAndEvaluate, AwaitNoise, AwaitSignal, processorVars, batchVars

StrictInv(L) ==
    /\ IdleHoldsNothing /\ BatchMarks
    /\ InOrder(Pipe, position, Safe(L)) /\ MsgsInOrder(Pipe, Safe(L)) /\ NoiseIsNoise
    /\ OtherIdle(L) /\ NoRetry
    /\ Follows(SignalLine(L), SafeOrDoomed(L)) /\ HwmSpeaks(L)
    /\ BatchSuffix /\ BatchRouted(L) /\ BatchDecided(L)
    /\ Below(committed) \subseteq Safe(L)

(***************************************************************************)
(* What the step of a message makes of the record it disposes of.          *)
(***************************************************************************)
LEMMA MessageRouted ==
    ASSUME TypeOK, [Next]_vars, NEW L \in SignalKinds, SignalCommitRequiresPg,
           OneLane(L), OtherIdle(L), NoRetry, ~ Spend("db"),
           SkipRevoked \/ ProcessPoison \/ RouteAndPublish,
           NEW r \in Records, r = Head(todo), r \in SeqRange(cur.msgs)
    PROVE  r \in SafeOrDoomed(L)' \/ Awaited(L, r)'
<1>1. r \in Records /\ kind' = kind
  BY KindKept
<1>2. CASE kind[r] # L
  BY <1>1, <1>2 DEF SafeOrDoomed, Safe, Signals
<1>3. CASE SkipRevoked
  <2>1. r \in excused'["revoked"]
    BY <1>3, ExcuseGrows DEF SkipRevoked, Causes
  <2> QED BY <2>1 DEF SafeOrDoomed, Safe, Excused, Causes
<1>4. CASE ProcessPoison
  BY <1>2, <1>4 DEF ProcessPoison, SignalKinds
<1>5. CASE RouteAndPublish /\ kind[r] = L
  <2>1. LaneOf(r) = L /\ L # "bulk" /\ signalRequired \in Hwms
    BY <1>5 DEF LaneOf, SignalKinds, TypeOK, ProcessorTypeOK
  <2>2. CASE Accepted(r)
    <3>1. SignalLine(L)' = Append(SignalLine(L), r)
      BY <1>5, <2>1, <2>2, RouteJoins DEF LineJoined
    <3>2. SignalLine(L) \in Seq(Records)
      BY SignalLaneType, RecordsOfAt DEF SignalLine
    <3>3. r \in SeqRange(SignalLine(L)')
      <4> DEFINE line == SignalLine(L)
      <4>1. Len(line) + 1 \in DOMAIN Append(line, r) /\ Append(line, r)[Len(line) + 1] = r
        <5> HIDE DEF line
        <5> QED BY <3>2, AppendAt DEF line
      <4> QED BY <3>1, <4>1 DEF SeqRange
    <3>4. signalRequired' = Raise(signalRequired, r)
      BY <1>5, <2>1, <2>2 DEF RouteAndPublish, Accepted
    <3>5. signalRequired'[r[1]] >= r[2]
      BY <1>1, <2>1, <3>4, ForwarderAssumption DEF Raise, Hwms, Records, Offsets
    <3>6. r \in SeqRange(SignalLine(L))'
      BY <3>3 DEF SeqRange
    <3> QED BY <3>5, <3>6 DEF Awaited
  <2>3. CASE Refused(r) /\ L = "critical"
    <3>1. ~ Accepted(r)
      BY <2>3 DEF Refused, Accepted
    <3>2. failed' /\ cur' = cur
      BY <1>5, <2>1, <2>3, <3>1 DEF RouteAndPublish
    <3>3. r \in Doomed'
      BY <3>2 DEF Doomed, EnvelopeRecords
    <3> QED BY <3>3 DEF SafeOrDoomed
  <2>4. CASE Refused(r) /\ L = "normal"
    <3>1. ~ Accepted(r)
      BY <2>4 DEF Refused, Accepted
    <3>2. Publish(r, {r})
      BY <1>5, <2>1, <2>4, <3>1 DEF RouteAndPublish
    <3>3. r \in excused'["dropped"]
      BY <3>2, DroppedBooked
    <3> QED BY <3>3 DEF SafeOrDoomed, Safe, Excused, Causes
  <2> QED BY <1>5, <2>2, <2>3, <2>4 DEF RouteAndPublish, SignalKinds
<1> QED BY <1>2, <1>3, <1>4, <1>5

(***************************************************************************)
(* Among the messages of the batch, those below the next one have all been *)
(* processed; those that wait for Postgres wait on the line.               *)
(***************************************************************************)
LEMMA BelowNext ==
    ASSUME TypeOK, NEW L \in SignalKinds, StrictInv(L), NEW r \in Records, todo # <<>>,
           r = Head(todo), NEW q \in Records, UpTo(q, r), q # r
    PROVE  q \in SafeOrDoomed(L) \/ q \in SeqRange(SignalLine(L))
<1>1. /\ Done \in Nat /\ Len(todo) \in Nat /\ Len(todo) > 0 /\ Head(todo) = todo[1]
      /\ Len(cur.msgs) = Done + Len(todo)
  BY MessagesType DEF StrictInv, BatchSuffix, Done
<1>2. r = cur.msgs[Done + 1] /\ Done + 1 \in 1 .. Len(cur.msgs)
  BY <1>1 DEF StrictInv, BatchSuffix
<1>3. Follows(cur.msgs, Safe(L) \cup Before(Pipe, 0)) /\ Before(Pipe, 0) = {}
  <2>1. Pipe[0] = cur
    BY PipeEnd
  <2>2. \A j \in Nat : ~ j < 0
    OBVIOUS
  <2>3. Before(Pipe, 0) = {}
    BY <2>2 DEF Before
  <2>4. Follows(Pipe[0].msgs, Safe(L) \cup Before(Pipe, 0))
    BY DEF StrictInv, MsgsInOrder
  <2> QED BY <2>1, <2>3, <2>4
<1>4. q \in Safe(L) \/ \E h \in 1 .. Done + 1 : cur.msgs[h] = q
  BY <1>2, <1>3 DEF Follows
<1>5. ASSUME NEW h \in 1 .. Done + 1, cur.msgs[h] = q
      PROVE  q \in SafeOrDoomed(L) \/ q \in SeqRange(SignalLine(L))
  <2>1. h \in 1 .. Done
    BY <1>1, <1>2, <1>5
  <2> QED BY <1>5, <2>1 DEF StrictInv, BatchRouted, Awaited
<1> QED BY <1>4, <1>5 DEF SafeOrDoomed

LEMMA LineStep ==
    ASSUME TypeOK, NEW L \in SignalKinds, OneLane(L), StrictInv(L), [Next]_vars, ~ Spend("db"),
           ~ Crash
    PROVE  /\ Follows(SignalLine(L)', SafeOrDoomed(L)') /\ HwmSpeaks(L)'
           /\ \A q \in SeqRange(SignalLine(L)) : q \in SafeOrDoomed(L)' \/ q \in SeqRange(SignalLine(L)')
<1>1. SafeOrDoomed(L) \subseteq SafeOrDoomed(L)' /\ pg' \subseteq SafeOrDoomed(L)'
  BY DoomedKept DEF StrictInv, SafeOrDoomed, Safe
<1>2. /\ Follows(SignalLine(L), SafeOrDoomed(L)')
      /\ wBatch[L] \in Seq(Items) /\ laneQ[L] \in Seq(Items)
      /\ SignalLine(L) \in Seq(Records)
  BY <1>1, FollowsGrow, SignalLaneType, RecordsOfAt DEF StrictInv, SignalLine
<1>3. CASE LineKept(L)
  <2>1. HwmSpeaks(L)'
    BY <1>1, <1>3 DEF StrictInv, HwmSpeaks, LineKept
  <2> QED BY <1>2, <1>3, <2>1 DEF LineKept
<1>4. CASE LineJoined(L)
  <2>1. HwmSpeaks(L)'
    BY <1>1, <1>4 DEF StrictInv, HwmSpeaks, LineJoined
  <2>2. PICK r \in Records : r = Head(todo) /\ todo # <<>> /\ SignalLine(L)' = Append(SignalLine(L), r)
    BY <1>4, HeadTodo DEF LineJoined, RouteAndPublish, TypeOK, ProcessorTypeOK
  <2> DEFINE line == SignalLine(L)
  <2>3. \A q \in Records : UpTo(q, r) /\ q # r =>
            q \in SafeOrDoomed(L)' \/ \E h \in 1 .. Len(line) : line[h] = q
    <3> SUFFICES ASSUME NEW q \in Records, UpTo(q, r), q # r
                 PROVE  q \in SafeOrDoomed(L)' \/ \E h \in 1 .. Len(line) : line[h] = q
      OBVIOUS
    <3>1. q \in SafeOrDoomed(L) \/ q \in SeqRange(line)
      BY <2>2, BelowNext
    <3>2. DOMAIN line = 1 .. Len(line)
      BY <1>2
    <3> HIDE DEF line
    <3> QED BY <1>1, <3>1, <3>2 DEF SeqRange
  <2>4. Follows(Append(line, r), SafeOrDoomed(L)')
    <3>1. line \in Seq(Records) /\ Follows(line, SafeOrDoomed(L)')
      BY <1>2
    <3> HIDE DEF line
    <3> QED BY <2>3, <3>1, FollowsAppend
  <2>5. \A q \in SeqRange(line) : q \in SeqRange(Append(line, r))
    <3>1. line \in Seq(Records)
      BY <1>2
    <3>2. /\ DOMAIN line = 1 .. Len(line) /\ DOMAIN Append(line, r) = 1 .. Len(line) + 1
          /\ \A i \in 1 .. Len(line) : Append(line, r)[i] = line[i]
          /\ Len(line) \in Nat
      <4> HIDE DEF line
      <4> QED BY <3>1, AppendAt
    <3> HIDE DEF line
    <3> QED BY <3>2 DEF SeqRange
  <2> QED BY <2>1, <2>2, <2>4, <2>5
<1>5. CASE LineWritten(L)
  <2> DEFINE b == wBatch[L]
             rest == laneQ[L]
  <2>1. BatchRecords(b) \subseteq SafeOrDoomed(L)'
    BY <1>1, <1>5 DEF LineWritten
  <2>2. /\ Follows(RecordsOf(rest), SafeOrDoomed(L)')
        /\ \A r \in BatchRecords(b), q \in Records : UpTo(q, r) => q \in SafeOrDoomed(L)'
    <3>1. Follows(RecordsOf(b \o rest), SafeOrDoomed(L)') /\ b \in Seq(Items) /\ rest \in Seq(Items)
      BY <1>2 DEF SignalLine
    <3> HIDE DEF b, rest
    <3> QED BY <2>1, <3>1, FollowsWritten
  <2>3. Follows(SignalLine(L)', SafeOrDoomed(L)')
    BY <1>5, <2>2 DEF LineWritten
  <2>4. \A q \in Records : signalHwm'[q[1]] >= q[2] => q \in SafeOrDoomed(L)'
    <3> SUFFICES ASSUME NEW q \in Records, signalHwm'[q[1]] >= q[2]
                 PROVE  q \in SafeOrDoomed(L)'
      OBVIOUS
    <3>1. q[1] \in Partitions
      BY DEF Records
    <3>2. CASE signalHwm'[q[1]] = signalHwm[q[1]]
      BY <1>1, <3>2 DEF StrictInv, HwmSpeaks
    <3>3. CASE signalHwm'[q[1]] # signalHwm[q[1]]
      <4>1. PICK r \in BatchRecords(b) : r[1] = q[1] /\ r[2] = signalHwm'[q[1]]
        BY <1>5, <3>1, <3>3 DEF LineWritten, IsRaised
      <4> QED BY <2>2, <4>1 DEF UpTo
    <3> QED BY <3>2, <3>3
  <2>5. HwmSpeaks(L)'
    BY <2>4 DEF HwmSpeaks
  <2>6. \A q \in SeqRange(SignalLine(L)) : q \in SafeOrDoomed(L)' \/ q \in SeqRange(SignalLine(L)')
    <3>1. SignalLine(L) = RecordsOf(b \o rest) /\ SignalLine(L)' = RecordsOf(rest)
      BY <1>5 DEF LineWritten, SignalLine
    <3>2. b \in Seq(Items) /\ rest \in Seq(Items)
      BY <1>2
    <3> HIDE DEF b, rest
    <3>3. SeqRange(RecordsOf(b \o rest)) \subseteq BatchRecords(b) \cup SeqRange(RecordsOf(rest))
      BY <3>2, ConcatRecords
    <3> QED BY <2>1, <3>1, <3>3
  <2> QED BY <2>3, <2>5, <2>6
<1> QED BY <1>3, <1>4, <1>5, LineFrame DEF StrictInv

LEMMA EmptyBatch ==
    ASSUME TypeOK, TakeEnvelope \/ CommitBatch \/ CommitRaises \/ DeclineBatch \/ Crash
    PROVE  Done' = 0
<1>1. CASE TakeEnvelope
  <2>1. cur'.msgs = todo' /\ Head(recordQ) \in Envelopes /\ cur' = Head(recordQ)
    BY <1>1 DEF TakeEnvelope, TypeOK, ConsumerTypeOK
  <2>2. Len(todo') \in Nat
    BY <2>1 DEF Envelopes
  <2> QED BY <2>1, <2>2 DEF Done
<1>2. CASE CommitBatch \/ CommitRaises \/ DeclineBatch \/ Crash
  <2>1. cur'.msgs = <<>> /\ todo' = <<>>
    BY <1>2, NoEnvelopeType DEF CommitBatch, CommitRaises, DeclineBatch, EndBatch, Crash
  <2> QED BY <2>1 DEF Done
<1> QED BY <1>1, <1>2

LEMMA RequiredGrows ==
    ASSUME TypeOK, SkipRevoked \/ ProcessPoison \/ RouteAndPublish, NEW r \in Records,
           signalRequired[r[1]] >= r[2]
    PROVE  signalRequired'[r[1]] >= r[2]
<1>1. signalRequired \in [Partitions -> Int] /\ r[1] \in Partitions /\ r[2] \in Int
  BY ForwarderAssumption DEF TypeOK, ProcessorTypeOK, Hwms, Records, Offsets
<1>2. Head(todo) \in Records
  BY HeadTodo DEF SkipRevoked, ProcessPoison, RouteAndPublish, TypeOK, ProcessorTypeOK
<1>3. Head(todo)[2] \in Int
  BY <1>2, ForwarderAssumption DEF Records, Offsets
<1>4. signalRequired' = signalRequired \/ signalRequired' = Raise(signalRequired, Head(todo))
  BY DEF SkipRevoked, ProcessPoison, RouteAndPublish
<1> QED BY <1>1, <1>3, <1>4 DEF Raise

LEMMA RoutedStep ==
    ASSUME TypeOK, NEW L \in SignalKinds, SignalCommitRequiresPg, OneLane(L), StrictInv(L),
           [Next]_vars, ~ Spend("db"), ~ Crash
    PROVE  BatchRouted(L)'
<1>1. SafeOrDoomed(L) \subseteq SafeOrDoomed(L)'
  BY DoomedKept DEF StrictInv
<1>2. \A q \in SeqRange(SignalLine(L)) : q \in SafeOrDoomed(L)' \/ q \in SeqRange(SignalLine(L)')
  BY LineStep
<1>3. Done \in Nat /\ cur.msgs \in Seq(Records) /\ Len(cur.msgs) \in Nat
  BY MessagesType DEF StrictInv, BatchSuffix
<1>4. ASSUME NEW r \in Records, NEW h \in 1 .. Done, r = cur.msgs[h],
             signalRequired[r[1]] >= r[2] => signalRequired'[r[1]] >= r[2]
      PROVE  r \in SafeOrDoomed(L)' \/ Awaited(L, r)'
  <2>1. r \in SafeOrDoomed(L) \/ Awaited(L, r)
    BY <1>4 DEF StrictInv, BatchRouted
  <2> QED BY <1>1, <1>2, <1>4, <2>1 DEF Awaited
<1>5. CASE SkipRevoked \/ ProcessPoison \/ RouteAndPublish
  <2>1. todo \in Seq(Records) /\ todo # <<>> /\ todo' = Tail(todo) /\ cur' = cur
    BY <1>5 DEF SkipRevoked, ProcessPoison, RouteAndPublish, TypeOK, ProcessorTypeOK
  <2>2. /\ Done' = Done + 1 /\ Done + 1 \in 1 .. Len(cur.msgs)
        /\ Head(todo) = cur.msgs[Done + 1]
    BY <2>1, SuffixTail DEF StrictInv
  <2> SUFFICES ASSUME NEW r, NEW h \in 1 .. Done + 1, r = cur.msgs[h]
               PROVE  r \in SafeOrDoomed(L)' \/ Awaited(L, r)'
    BY <2>1, <2>2 DEF BatchRouted
  <2>3. h \in 1 .. Len(cur.msgs)
    BY <1>3, <2>2
  <2>4. r \in Records /\ r \in SeqRange(cur.msgs)
    BY <1>3, <2>3 DEF SeqRange
  <2>5. CASE h \in 1 .. Done
    BY <1>4, <1>5, <2>4, <2>5, RequiredGrows
  <2>6. CASE h = Done + 1
    BY <1>5, <2>2, <2>4, <2>6, MessageRouted DEF StrictInv
  <2> QED BY <1>3, <2>5, <2>6
<1>6. CASE TakeEnvelope \/ CommitBatch \/ CommitRaises \/ DeclineBatch
  BY <1>6, EmptyBatch DEF BatchRouted
<1>7. CASE UNCHANGED <<cur, todo, signalRequired>>
  <2> SUFFICES ASSUME NEW r, NEW h \in 1 .. Done, r = cur.msgs[h]
               PROVE  r \in SafeOrDoomed(L)' \/ Awaited(L, r)'
    BY <1>7 DEF BatchRouted, Done
  <2>1. h \in 1 .. Len(cur.msgs)
    BY <1>3, MessagesType DEF Done
  <2>2. r \in Records
    BY <1>3, <2>1
  <2> QED BY <1>4, <1>7, <2>2
<1> QED
  BY <1>5, <1>6, <1>7, BatchFrame
  DEF StartEvent, FlushAndEvaluate, AwaitNoise, AwaitSignal, processorVars, batchVars

LEMMA DecidedStep ==
    ASSUME TypeOK, NEW L \in SignalKinds, StrictInv(L), [Next]_vars
    PROVE  BatchDecided(L)'
<1>1. Safe(L) \subseteq Safe(L)' /\ BatchDecided(L)
  BY SafeGrows DEF StrictInv
<1>2. CASE AwaitSignal
  <2>1. shouldCommit' => shouldCommit /\ SignalPersisted
    BY <1>2 DEF AwaitSignal
  <2>2. shouldCommit => ~ failed /\ todo = <<>> /\ SafeOrDoomed(L) = Safe(L)
    BY <1>1, <1>2 DEF AwaitSignal, BatchDecided, SafeOrDoomed, Doomed
  <2>3. shouldCommit' => SeqRange(cur.msgs) \subseteq Safe(L)
    <3> SUFFICES ASSUME shouldCommit', NEW h \in DOMAIN cur.msgs PROVE cur.msgs[h] \in Safe(L)
      BY DEF SeqRange
    <3>1. /\ cur.msgs \in Seq(Records) /\ Done = Len(cur.msgs) /\ DOMAIN cur.msgs = 1 .. Done
          /\ cur.msgs[h] \in Records
      BY <2>1, <2>2, MessagesType DEF Done
    <3> DEFINE r == cur.msgs[h]
    <3>2. r \in SafeOrDoomed(L) \/ signalRequired[r[1]] >= r[2]
      BY <3>1 DEF StrictInv, BatchRouted, Awaited
    <3>3. CASE signalRequired[r[1]] >= r[2]
      <4>1. /\ r[1] \in Partitions /\ r[2] \in Int /\ signalHwm[r[1]] \in Int
            /\ signalRequired[r[1]] \in Int
        <5>1. signalHwm \in Hwms /\ signalRequired \in Hwms
          BY DEF TypeOK, ProcessorTypeOK, SharedTypeOK
        <5>2. r[1] \in Partitions /\ r[2] \in Int
          <6>1. r \in Records
            BY <3>1
          <6> HIDE DEF r
          <6> QED BY <6>1, ForwarderAssumption DEF Records, Offsets
        <5>3. ASSUME NEW hwm \in Hwms, NEW p \in Partitions PROVE hwm[p] \in Int
          BY ForwarderAssumption DEF Hwms, Offsets
        <5> HIDE DEF r
        <5> QED BY <5>1, <5>2, <5>3
      <4>2. signalHwm[r[1]] >= signalRequired[r[1]]
        BY <2>1, <4>1 DEF SignalPersisted
      <4>3. signalHwm[r[1]] >= r[2] /\ r \in Records
        BY <3>1, <3>3, <4>1, <4>2
      <4> QED BY <2>1, <2>2, <4>3 DEF StrictInv, HwmSpeaks
    <3> QED BY <2>1, <2>2, <3>2, <3>3
  <2> QED BY <1>1, <1>2, <2>1, <2>2, <2>3 DEF AwaitSignal, BatchDecided
<1>3. CASE FlushAndEvaluate
  BY <1>3 DEF FlushAndEvaluate, EvaluateBatchCommit, BatchDecided
<1>4. CASE AwaitNoise
  BY <1>1, <1>4 DEF AwaitNoise, BatchDecided
<1>5. CASE UNCHANGED processorVars
  BY <1>1, <1>5 DEF processorVars, batchVars, BatchDecided
<1> QED
  BY <1>2, <1>3, <1>4, <1>5, BatchFrame
  DEF BatchDecided, TakeEnvelope, SkipRevoked, ProcessPoison, StartEvent, RouteAndPublish,
      CommitBatch, CommitRaises, DeclineBatch, EndBatch, Crash

(***************************************************************************)
(* Every step keeps the invariant.                                         *)
(***************************************************************************)
LEMMA StrictEnd ==
    ASSUME TypeOK, NEW L \in SignalKinds, StrictInv(L), [Next]_vars,
           CommitBatch \/ CommitRaises \/ DeclineBatch
    PROVE  EnvelopeRecords(cur) \subseteq Safe(L)'
<1>1. Safe(L) \subseteq Safe(L)' /\ Excused' \subseteq Safe(L)'
  BY SafeGrows
<1>2. CASE CommitBatch \/ CommitRaises
  <2>1. cur.noise \subseteq Safe(L)
    BY NoiseSafe, PipeEnd DEF StrictInv, SignalKinds
  <2>2. SeqRange(cur.msgs) \subseteq Safe(L)
    BY <1>2 DEF CommitBatch, CommitRaises, StrictInv, BatchDecided
  <2> QED BY <1>1, <2>1, <2>2 DEF EnvelopeRecords
<1>3. CASE DeclineBatch
  BY <1>1, <1>3, DeclinedBooked
<1> QED BY <1>2, <1>3

LEMMA StrictStep ==
    ASSUME TypeOK, NEW L \in SignalKinds, SignalCommitRequiresPg, OneLane(L), StrictInv(L),
           [Next]_vars, ~ Spend("db")
    PROVE  StrictInv(L)'
<1>1. Safe(L) \subseteq Safe(L)' /\ Excused' \subseteq Safe(L)'
  BY SafeGrows
<1>2. CommitBatch \/ CommitRaises \/ DeclineBatch => EnvelopeRecords(cur) \subseteq Safe(L)'
  BY StrictEnd
<1>3. \A p \in Partitions : HeartbeatPoll(p) => <<p, position[p]>> \in Safe(L)'
  BY <1>1, ExcuseGrows DEF HeartbeatPoll, Excused, Causes
<1>4. InOrder(Pipe', position', Safe(L)') /\ Below(committed') \subseteq Safe(L)'
  BY <1>1, <1>2, <1>3, OrderStep, PassedStep DEF StrictInv
<1>5. MsgsInOrder(Pipe', Safe(L)')
  BY <1>2, MsgsStep DEF StrictInv, SignalKinds
<1>6. IdleHoldsNothing' /\ BatchMarks' /\ NoiseIsNoise' /\ OtherIdle(L)' /\ NoRetry'
  BY IdleStep, MarksStep, NoiseKindStep, OtherIdleStep, NoRetryStep DEF StrictInv
<1>7. BatchSuffix' /\ BatchDecided(L)'
  BY SuffixStep, DecidedStep DEF StrictInv
<1>8. CASE Crash
  <2>1. SignalLine(L)' = <<>> /\ signalHwm' = NoHwm
    <3>1. wBatch'[L] \o laneQ'[L] = <<>>
      BY <1>8, SignalLaneType DEF Crash
    <3> QED BY <1>8, <3>1 DEF SignalLine, RecordsOf, Crash
  <2>2. HwmSpeaks(L)'
    BY <2>1, ForwarderAssumption DEF HwmSpeaks, NoHwm, Records, Offsets
  <2>3. BatchRouted(L)'
    BY <1>8, EmptyBatch DEF BatchRouted
  <2>4. Follows(SignalLine(L)', SafeOrDoomed(L)')
    BY <2>1, FollowsEmpty
  <2> QED BY <1>4, <1>5, <1>6, <1>7, <2>2, <2>3, <2>4
      DEF StrictInv, InOrder, In, UpTo, Below, MsgsInOrder, Follows, Before
<1>9. CASE ~ Crash
  <2>1. Follows(SignalLine(L)', SafeOrDoomed(L)') /\ HwmSpeaks(L)' /\ BatchRouted(L)'
    BY <1>9, LineStep, RoutedStep
  <2> QED BY <1>4, <1>5, <1>6, <1>7, <2>1
      DEF StrictInv, InOrder, In, UpTo, Below, MsgsInOrder, Follows, Before
<1> QED BY <1>8, <1>9

LEMMA InitStrict ==
    ASSUME NEW L \in SignalKinds, Init
    PROVE  StrictInv(L)
<1>1. Pipe = [k \in Nat |-> NoEnvelope]
  BY DEF Init, ColdStart, Pipe
<1>2. \A q \in Records : ~ q[2] < position[q[1]] /\ ~ q[2] < committed[q[1]] /\ ~ signalHwm[q[1]] >= q[2]
  BY ForwarderAssumption DEF Init, ColdStart, Records, Offsets, NoHwm
<1>3. InOrder(Pipe, position, Safe(L)) /\ NoiseIsNoise
  BY <1>1, <1>2, EmptyEnvelope DEF InOrder, NoiseIsNoise
<1>4. MsgsInOrder(Pipe, Safe(L))
  BY <1>1, NoEnvelopeType, FollowsEmpty DEF MsgsInOrder
<1>5. Below(committed) \subseteq Safe(L) /\ HwmSpeaks(L)
  BY <1>2 DEF Below, HwmSpeaks
<1>6. BatchMarks /\ IdleHoldsNothing
  BY DEF Init, ColdStart, BatchMarks, NoHwm, SeqRange, IdleHoldsNothing
<1>7. Done = 0 /\ Len(todo) = 0
  BY NoEnvelopeType DEF Init, ColdStart, Done
<1>8. BatchSuffix /\ BatchRouted(L)
  BY <1>7 DEF BatchSuffix, BatchRouted
<1>9. OtherIdle(L) /\ NoRetry /\ BatchDecided(L)
  BY DEF Init, ColdStart, OtherIdle, NoRetry, BatchDecided, SignalKinds, Lanes
<1>10. SignalLine(L) = <<>>
  <2>1. wBatch[L] \o laneQ[L] = <<>>
    BY DEF Init, ColdStart, SignalKinds, Lanes
  <2> QED BY <2>1 DEF SignalLine, RecordsOf
<1>11. Follows(SignalLine(L), SafeOrDoomed(L))
  BY <1>10, FollowsEmpty
<1> QED BY <1>3, <1>4, <1>5, <1>6, <1>8, <1>9, <1>11 DEF StrictInv

LEMMA StrictGives ==
    ASSUME TypeOK, NEW L \in SignalKinds, OneLane(L), Below(committed) \subseteq Safe(L)
    PROVE  Unstored \subseteq Excused
<1>1. SUFFICES ASSUME NEW r \in Unstored
               PROVE  r \in Excused
  OBVIOUS
<1>2. r \in Below(committed) /\ kind[r] \in SignalKinds /\ r \notin pg /\ r \in Records
  BY DEF Unstored, SignalKinds, Below
<1>3. kind[r] = L
  BY <1>2 DEF TypeOK, BrokerTypeOK, OneLane
<1> QED BY <1>2, <1>3 DEF Safe, Signals

(***************************************************************************)
(* In the strict mode, when the signal records of the log share a lane and *)
(* no write fails, a committed signal record has its row or its loss is    *)
(* booked: crashes, rebalances, expired waits and failed deliveries do not *)
(* change that.                                                            *)
(***************************************************************************)
THEOREM StrictIsDurable ==
    ASSUME NEW L \in SignalKinds, OneLane(L), \A b \in FaultBudgets : b["db"] = 0
    PROVE  Spec => [](StrictLossAccounted /\ (Excused = {} => PgBeforeCommit))
<1> DEFINE Inv == SignalCommitRequiresPg => StrictInv(L)
<1>1. "db" \in Faults
  BY DEF Faults
<1>2. Init => Never("db") /\ Inv
  BY <1>1, InitNever, InitStrict
<1>3. TypeOK /\ Never("db") /\ Inv /\ [Next]_vars => Never("db")' /\ Inv'
  BY <1>1, NeverStep, StrictStep
<1>4. TypeOK /\ Inv => StrictLossAccounted
  BY StrictGives DEF StrictInv, StrictLossAccounted
<1>5. StrictLossAccounted => (Excused = {} => PgBeforeCommit)
  BY DEF StrictLossAccounted, PgBeforeCommit
<1> QED BY <1>2, <1>3, <1>4, <1>5, TypeCorrect, PTL DEF Spec

(***************************************************************************)
(* Without declined batches and dropped records nothing is booked, and the *)
(* strict mode keeps its promise as it is written, whatever the number of  *)
(* crashes and failing commits.                                            *)
(***************************************************************************)
THEOREM StrictHolds ==
    ASSUME NEW L \in SignalKinds, OneLane(L), ~ MayTimeOut, EnableDlq,
           \A b \in FaultBudgets : \A f \in CalmFaults : b[f] = 0
    PROVE  Spec => []PgBeforeCommit
<1>1. \A b \in FaultBudgets : b["db"] = 0
  BY DEF CalmFaults, Faults
<1>2. Spec => [](StrictLossAccounted /\ (Excused = {} => PgBeforeCommit))
  BY <1>1, StrictIsDurable
<1>3. Init => CalmInv
  BY InitCalm
<1>4. TypeOK /\ CalmInv /\ [Next]_vars => CalmInv'
  BY CalmStep
<1>5. CalmInv => Excused = {}
  BY DEF CalmInv, NothingExcused, Excused
<1> QED BY <1>2, <1>3, <1>4, <1>5, TypeCorrect, PTL DEF Spec
=============================================================================
