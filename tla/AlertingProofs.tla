----------------------------- MODULE AlertingProofs -----------------------------
(***************************************************************************)
(* Theorems about ten components that watch, judge and notify, for every   *)
(* value of their constants: the circuit breaker, the baseline of          *)
(* addresses, the watchdog, the burst detector, the pattern detector, the  *)
(* notifier, the webhook sender, the rate tracker, the denial aggregator   *)
(* and the verdicts on an event.  Each is an invariant with the            *)
(* strengthening that makes it inductive, one step of the proof for each   *)
(* action; the rate tracker's is an action property that needs one.        *)
(***************************************************************************)
EXTENDS MCAlerting, FiniteSetTheorems, SequenceTheorems, WellFoundedInduction, TLAPS

-----------------------------------------------------------------------------
(* Windows of ages *)

\* Ageing forgets the oldest and adds none.
LEMMA AgeingAddsNone ==
    ASSUME NEW ages \in Seq(Nat), NEW n \in 0 .. Len(ages)
    PROVE  /\ Aged(ages, n) \in Seq(Nat)
           /\ Len(Aged(ages, n)) = Len(ages) - n
           /\ Len(Aged(ages, n)) \in Nat /\ Len(Aged(ages, n)) <= Len(ages)
           /\ \A i \in 1 .. Len(ages) - n : Aged(ages, n)[i] = ages[i + n] + 1
<1>1. Len(ages) - n \in Nat /\ Len(ages) - n <= Len(ages)
    OBVIOUS
<1>2. \A i \in 1 .. Len(ages) - n : i + n \in 1 .. Len(ages) /\ ages[i + n] + 1 \in Nat
    OBVIOUS
<1>3. Aged(ages, n) \in [1 .. Len(ages) - n -> Nat]
    BY <1>2 DEF Aged
<1>4. Aged(ages, n) \in Seq(Nat)
    BY <1>1, <1>3, SeqDef
<1>5. DOMAIN Aged(ages, n) = 1 .. Len(ages) - n
    BY DEF Aged
<1>6. Len(Aged(ages, n)) = Len(ages) - n
    BY <1>1, <1>4, <1>5, LenProperties
<1>7. \A i \in 1 .. Len(ages) - n : Aged(ages, n)[i] = ages[i + n] + 1
    BY DEF Aged
<1> QED  BY <1>1, <1>4, <1>6, <1>7

-----------------------------------------------------------------------------
(* The circuit breaker *)

\* The part of the types on which the count of failures depends.
BreakerInv ==
    /\ failureAges \in Seq(Nat)
    /\ ClosedBelowThreshold

\* A transition keeps the failures it is given, or none when it closes the circuit.
LEMMA TransitionKeepsInv ==
    ASSUME NEW state, NEW ages \in Seq(Nat), TransitionTo(state, ages)
    PROVE  BreakerInv'
<1>1. CASE state = "closed"
    <2>1. failureAges' = << >> /\ Len(failureAges') = 0
        BY <1>1 DEF TransitionTo
    <2> QED  BY <2>1, BreakerAssumption DEF BreakerInv, ClosedBelowThreshold
<1>2. CASE state # "closed"
    BY <1>2 DEF TransitionTo, BreakerInv, ClosedBelowThreshold
<1> QED  BY <1>1, <1>2

LEMMA BreakerStep ==
    ASSUME BreakerInv, [BreakerNext]_breakerVars
    PROVE  BreakerInv'
<1> USE DEF BreakerInv
<1>1. ASSUME NEW c \in Callers, AdmitCall(c)
      PROVE  BreakerInv'
    BY <1>1, TransitionKeepsInv DEF AdmitCall, ClosedBelowThreshold
<1>2. ASSUME NEW c \in Callers, CallSucceeds(c)
      PROVE  BreakerInv'
    BY <1>2, TransitionKeepsInv DEF CallSucceeds, ClosedBelowThreshold
<1>3. ASSUME NEW c \in Callers, CallFails(c)
      PROVE  BreakerInv'
    <2>1. Append(failureAges, 0) \in Seq(Nat)
        OBVIOUS
    <2>2. AfterFailure(Append(failureAges, 0))
        BY <1>3 DEF CallFails
    <2> QED  BY <2>1, <2>2, TransitionKeepsInv DEF AfterFailure, ClosedBelowThreshold
<1>4. ASSUME NEW c \in Callers, CallCancelled(c)
      PROVE  BreakerInv'
    BY <1>4 DEF CallCancelled, ClosedBelowThreshold
<1>5. ASSUME NEW state \in {"open", "closed"}, ForceTo(state)
      PROVE  BreakerInv'
    BY <1>5, TransitionKeepsInv DEF ForceTo
<1>6. ASSUME ServiceRecovers PROVE BreakerInv'
    BY <1>6 DEF ServiceRecovers, ClosedBelowThreshold
<1>7. ASSUME ServiceTick PROVE BreakerInv'
    <2>1. PICK n \in 0 .. Len(failureAges) : failureAges' = Aged(failureAges, n)
        BY <1>7 DEF ServiceTick
    <2>2. failureAges' \in Seq(Nat) /\ Len(failureAges') <= Len(failureAges)
        BY <2>1, AgeingAddsNone
    <2>3. circuit' = circuit
        BY <1>7 DEF ServiceTick
    <2>4. Len(failureAges) \in Nat /\ Len(failureAges') \in Nat
        BY <2>2
    <2> QED  BY <2>2, <2>3, <2>4, BreakerAssumption DEF ClosedBelowThreshold
<1>8. ASSUME UNCHANGED breakerVars PROVE BreakerInv'
    BY <1>8 DEF breakerVars, ClosedBelowThreshold
<1> QED  BY <1>1, <1>2, <1>3, <1>4, <1>5, <1>6, <1>7, <1>8 DEF BreakerNext, CallReturns

\* A closed circuit has fewer failures in its window than the threshold, whoever
\* calls, reports late, cancels or forces it (ClosedBelowThreshold).
THEOREM ClosedIsBelow == BreakerSpec => []ClosedBelowThreshold
<1>1. BreakerInit => BreakerInv
    BY BreakerAssumption DEF BreakerInit, BreakerInv, ClosedBelowThreshold
<1>2. BreakerInv /\ [BreakerNext]_breakerVars => BreakerInv'
    BY BreakerStep
<1>3. BreakerInv => ClosedBelowThreshold
    BY DEF BreakerInv
<1> QED  BY <1>1, <1>2, <1>3, PTL DEF BreakerSpec

-----------------------------------------------------------------------------
(* The baseline of addresses *)

\* What has been announced is known to this process, unless its record was lost.
BaselineInv ==
    /\ BaselineTypeOK
    /\ \A p \in Pairs : announced[p] > 0 => p \in seen \cup excused
    /\ NewIpOnce

LEMMA BaselineTypes ==
    ASSUME BaselineTypeOK, [BaselineNext]_baselineVars
    PROVE  BaselineTypeOK'
<1> USE DEF BaselineTypeOK
<1>1. ASSUME NEW p \in Pairs, RecordPair(p) PROVE BaselineTypeOK'
    <2>1. /\ baselineQueue' \in Seq(Pairs) /\ Len(baselineQueue') <= BaselineQueueMax
          /\ excused' \subseteq Pairs
        <3>1. CASE Len(baselineQueue) < BaselineQueueMax
            <4>1. baselineQueue' = Append(baselineQueue, p) /\ excused' = excused
                BY <1>1, <3>1, BaselineAssumption DEF RecordPair, Enqueue
            <4> QED  BY <3>1, <4>1, BaselineAssumption
        <3>2. CASE ~(Len(baselineQueue) < BaselineQueueMax)
            BY <1>1, <3>2, BaselineAssumption DEF RecordPair, Enqueue
        <3> QED  BY <3>1, <3>2
    <2>2. dedupPairs' \subseteq Pairs /\ announced' \in [Pairs -> 0 .. 2]
        <3>1. (IF announced[p] < 2 THEN announced[p] + 1 ELSE announced[p]) \in 0 .. 2
            OBVIOUS
        <3> QED  BY <1>1, <3>1 DEF RecordPair, AlertOnNew
    <2>3. seen' \subseteq Pairs /\ sightings' \in 0 .. MaxSightings
        BY <1>1, BaselineAssumption DEF RecordPair
    <2> QED  BY <1>1, <2>1, <2>2, <2>3 DEF RecordPair
<1>2. ASSUME NEW p \in Pairs, DedupExpires(p) PROVE BaselineTypeOK'
    BY <1>2 DEF DedupExpires
<1>3. ASSUME TakePair PROVE BaselineTypeOK'
    <2>1. /\ Head(baselineQueue) \in Pairs /\ Tail(baselineQueue) \in Seq(Pairs)
          /\ Len(Tail(baselineQueue)) <= BaselineQueueMax
        BY <1>3, BaselineAssumption DEF TakePair
    <2> QED  BY <1>3, <2>1 DEF TakePair
<1>4. ASSUME UpsertPair PROVE BaselineTypeOK'
    BY <1>4 DEF UpsertPair
<1>5. ASSUME DestinationsChange PROVE BaselineTypeOK'
    BY <1>5 DEF DestinationsChange
<1>6. ASSUME Restart PROVE BaselineTypeOK'
    <2>1. seen' \subseteq Pairs /\ excused' \subseteq Pairs
        BY <1>6 DEF Restart, Seed
    <2>2. lives' \in 1 .. MaxLives /\ sightings' \in 0 .. MaxSightings
        BY <1>6, BaselineAssumption DEF Restart
    <2>3. baselineQueue' \in Seq(Pairs) /\ Len(baselineQueue') <= BaselineQueueMax
        BY <1>6, BaselineAssumption DEF Restart
    <2> QED  BY <1>6, <2>1, <2>2, <2>3 DEF Restart
<1>7. ASSUME UNCHANGED baselineVars PROVE BaselineTypeOK'
    BY <1>7 DEF baselineVars
<1> QED  BY <1>1, <1>2, <1>3, <1>4, <1>5, <1>6, <1>7 DEF BaselineNext

LEMMA BaselineStep ==
    ASSUME BaselineInv, [BaselineNext]_baselineVars
    PROVE  BaselineInv'
<1> USE DEF BaselineInv, NewIpOnce
<1>0. BaselineTypeOK'
    BY BaselineTypes
<1>t. announced \in [Pairs -> 0 .. 2] /\ seen \subseteq Pairs /\ excused \subseteq Pairs
    BY DEF BaselineTypeOK
<1>1. ASSUME NEW p \in Pairs, RecordPair(p) PROVE BaselineInv'
    <2>1. seen' = seen \cup {p} /\ excused \subseteq excused'
        BY <1>1 DEF RecordPair, Enqueue
    <2>2. CASE announced' = announced
        BY <1>0, <1>t, <2>1, <2>2
    <2>3. CASE announced' # announced
        <3>1. p \notin seen /\ announced' = [announced EXCEPT ![p] = IF @ < 2 THEN @ + 1 ELSE @]
            BY <1>1, <2>3 DEF RecordPair, AlertOnNew
        <3>2. announced'[p] > 1 => p \in excused
            BY <1>t, <3>1
        <3> QED  BY <1>0, <1>t, <2>1, <3>1, <3>2
    <2> QED  BY <2>2, <2>3
<1>2. ASSUME NEW p \in Pairs, DedupExpires(p) PROVE BaselineInv'
    BY <1>0, <1>2 DEF DedupExpires
<1>3. ASSUME TakePair PROVE BaselineInv'
    BY <1>0, <1>3 DEF TakePair
<1>4. ASSUME UpsertPair PROVE BaselineInv'
    <2>1. excused \subseteq excused' /\ UNCHANGED <<seen, announced>>
        BY <1>4 DEF UpsertPair
    <2> QED  BY <1>0, <2>1
<1>5. ASSUME DestinationsChange PROVE BaselineInv'
    BY <1>0, <1>5 DEF DestinationsChange
<1>6. ASSUME Restart PROVE BaselineInv'
    \* What the seed does not bring back is excused.
    <2>1. seen \cup excused \subseteq seen' \cup excused' /\ excused \subseteq excused'
        BY <1>6, <1>t DEF Restart, Seed
    <2>2. announced' = announced
        BY <1>6 DEF Restart
    <2> QED  BY <1>0, <1>t, <2>1, <2>2
<1>7. ASSUME UNCHANGED baselineVars PROVE BaselineInv'
    BY <1>0, <1>7 DEF baselineVars
<1> QED  BY <1>1, <1>2, <1>3, <1>4, <1>5, <1>6, <1>7 DEF BaselineNext

\* A pair is announced as new a second time only if its record was lost, through a
\* queue of any size, failing upserts and any number of restarts (NewIpOnce).
THEOREM NewIsNewOnce == BaselineSpec => []NewIpOnce
<1>1. BaselineInit => BaselineInv
    BY BaselineAssumption DEF BaselineInit, BaselineInv, BaselineTypeOK, NewIpOnce
<1>2. BaselineInv /\ [BaselineNext]_baselineVars => BaselineInv'
    BY BaselineStep
<1>3. BaselineInv => NewIpOnce
    BY DEF BaselineInv
<1> QED  BY <1>1, <1>2, <1>3, PTL DEF BaselineSpec

-----------------------------------------------------------------------------
(* The watchdog *)

\* A verdict that stood, and a database that answered, since before the last look
\* are what that look saw.
WatchdogInv ==
    /\ WatchdogTypeOK
    /\ lookable > 0 => database = "up"
    /\ watching /\ stored /\ lookable > sinceCheck /\ steady > sinceCheck
       => alerted = TooSilent

LEMMA WatchdogTypes ==
    ASSUME WatchdogTypeOK, [WatchdogNext]_watchdogVars
    PROVE  WatchdogTypeOK'
<1> USE DEF WatchdogTypeOK
<1>a. CheckEvery \in Nat \ {0} /\ SilenceThreshold \in Nat \ {0}
    BY WatchdogAssumption
<1>1. ASSUME NEW age \in 0 .. Longest, EventStored(age) PROVE WatchdogTypeOK'
    <2>1. silence' \in 0 .. Longest /\ steady' \in 0 .. CheckEvery
        BY <1>1, <1>a DEF EventStored
    <2>2. stored' = TRUE /\ UNCHANGED <<database, sinceCheck, alerted, stopRequested,
                                        watching, lookable>>
        BY <1>1 DEF EventStored
    <2> QED  BY <2>1, <2>2
<1>2. ASSUME NEW state \in {"failing", "up"}, DatabaseChanges(state) PROVE WatchdogTypeOK'
    BY <1>2, <1>a DEF DatabaseChanges
<1>3. ASSUME WatchTick PROVE WatchdogTypeOK'
    <2>1. /\ silence' \in 0 .. Longest /\ steady' \in 0 .. CheckEvery
          /\ sinceCheck' \in 0 .. CheckEvery /\ lookable' \in 0 .. CheckEvery
        BY <1>3, <1>a DEF WatchTick, Longest
    <2>2. UNCHANGED <<stored, database, alerted, stopRequested, watching>>
        BY <1>3 DEF WatchTick
    <2> QED  BY <2>1, <2>2
<1>4. ASSUME Look PROVE WatchdogTypeOK'
    <2>1. alerted' \in BOOLEAN
        BY <1>4 DEF Look
    <2>2. sinceCheck' \in 0 .. CheckEvery
        BY <1>4, <1>a DEF Look
    <2> QED  BY <1>4, <2>1, <2>2 DEF Look
<1>5. ASSUME RequestStop PROVE WatchdogTypeOK'
    BY <1>5 DEF RequestStop
<1>6. ASSUME StopWatching PROVE WatchdogTypeOK'
    <2>1. watching' = FALSE /\ sinceCheck' \in 0 .. CheckEvery
        BY <1>6, <1>a DEF StopWatching
    <2> QED  BY <1>6, <2>1 DEF StopWatching
<1>7. ASSUME UNCHANGED watchdogVars PROVE WatchdogTypeOK'
    BY <1>7 DEF watchdogVars
<1> QED  BY <1>1, <1>2, <1>3, <1>4, <1>5, <1>6, <1>7 DEF WatchdogNext

LEMMA WatchdogStep ==
    ASSUME WatchdogInv, [WatchdogNext]_watchdogVars
    PROVE  WatchdogInv'
<1> USE DEF WatchdogInv
<1>0. WatchdogTypeOK'
    BY WatchdogTypes
<1>a. CheckEvery \in Nat \ {0} /\ SilenceThreshold \in Nat \ {0}
    BY WatchdogAssumption
<1>t. /\ sinceCheck \in 0 .. CheckEvery /\ lookable \in 0 .. CheckEvery
      /\ steady \in 0 .. CheckEvery /\ silence \in 0 .. Longest
    BY DEF WatchdogTypeOK
<1>1. ASSUME NEW age \in 0 .. Longest, EventStored(age) PROVE WatchdogInv'
    \* Only a verdict that stays keeps its age.
    <2>1. UNCHANGED <<database, sinceCheck, alerted, watching, lookable>>
        BY <1>1 DEF EventStored
    <2>2. CASE stored /\ TooSilent' = TooSilent
        BY <1>0, <1>1, <2>1, <2>2 DEF EventStored
    <2>3. CASE ~(stored /\ TooSilent' = TooSilent)
        <3>1. steady' = 0
            BY <1>1, <2>3 DEF EventStored
        <3>2. ~(steady' > sinceCheck')
            BY <1>t, <2>1, <3>1
        <3> QED  BY <1>0, <2>1, <3>2
    <2> QED  BY <2>2, <2>3
<1>2. ASSUME NEW state \in {"failing", "up"}, DatabaseChanges(state) PROVE WatchdogInv'
    <2>1. ~(lookable' > 0) /\ ~(lookable' > sinceCheck')
        BY <1>2, <1>t DEF DatabaseChanges
    <2> QED  BY <1>0, <2>1
<1>3. ASSUME WatchTick PROVE WatchdogInv'
    <2>1. UNCHANGED <<stored, database, alerted, watching>>
        BY <1>3 DEF WatchTick
    <2>2. lookable' > 0 => database' = "up"
        BY <1>3, <1>t DEF WatchTick
    <2>3. ASSUME watching', stored', lookable' > sinceCheck', steady' > sinceCheck'
          PROVE  alerted' = TooSilent'
        <3>1. sinceCheck' = sinceCheck + 1 /\ sinceCheck < CheckEvery
            BY <1>3, <2>1, <2>3 DEF WatchTick
        <3>2. lookable > sinceCheck
            BY <1>3, <1>t, <1>a, <2>3, <3>1 DEF WatchTick
        <3>3. TooSilent' = TooSilent
            BY <1>3, <1>t, <2>3, <3>1 DEF WatchTick
        <3>4. steady > sinceCheck
            BY <1>3, <1>t, <1>a, <2>3, <3>1, <3>3 DEF WatchTick
        <3> QED  BY <2>1, <2>3, <3>2, <3>3, <3>4
    <2> QED  BY <1>0, <2>2, <2>3
<1>4. ASSUME Look PROVE WatchdogInv'
    <2>1. UNCHANGED <<stored, silence, database, watching, lookable, steady>> /\ sinceCheck' = 0
        BY <1>4 DEF Look
    <2>2. TooSilent' = TooSilent
        BY <2>1 DEF TooSilent
    <2>3. ASSUME stored, database = "up"
          PROVE  alerted' = TooSilent
        <3>1. CASE TooSilent /\ ~alerted
            BY <1>4, <2>2, <2>3, <3>1 DEF Look
        <3>2. CASE ~TooSilent /\ alerted
            <4>1. alerted' = FALSE
                BY <1>4, <2>3, <3>2 DEF Look
            <4>2. TooSilent = FALSE
                BY <3>2 DEF TooSilent
            <4> QED  BY <2>2, <4>1, <4>2
        <3>3. CASE TooSilent = alerted
            <4>1. alerted' = alerted
                BY <1>4, <2>3, <3>3 DEF Look
            <4> QED  BY <2>2, <3>3, <4>1
        <3>4. alerted \in BOOLEAN
            BY DEF WatchdogTypeOK
        <3>5. \/ TooSilent /\ ~alerted
              \/ ~TooSilent /\ alerted
              \/ TooSilent = alerted
            BY <3>4 DEF TooSilent
        <3> QED  BY <3>1, <3>2, <3>3, <3>5
    <2> QED  BY <1>0, <1>t, <2>1, <2>2, <2>3
<1>5. ASSUME RequestStop PROVE WatchdogInv'
    <2>1. UNCHANGED <<stored, silence, database, sinceCheck, alerted, watching, lookable,
                      steady>>
        BY <1>5 DEF RequestStop
    <2> QED  BY <1>0, <2>1 DEF TooSilent
<1>6. ASSUME StopWatching PROVE WatchdogInv'
    BY <1>0, <1>6 DEF StopWatching
<1>7. ASSUME UNCHANGED watchdogVars PROVE WatchdogInv'
    BY <1>0, <1>7 DEF watchdogVars, TooSilent
<1> QED  BY <1>1, <1>2, <1>3, <1>4, <1>5, <1>6, <1>7 DEF WatchdogNext

\* Once the database has answered and the verdict has stood for one interval, the
\* flag tells the truth, for any interval and threshold (SilenceNoticed).
THEOREM SilenceIsNoticed == WatchdogSpec => []SilenceNoticed
<1>1. WatchdogInit => WatchdogInv
    <2> SUFFICES ASSUME WatchdogInit PROVE WatchdogInv
        OBVIOUS
    <2>1. 0 \in 0 .. Longest /\ 0 \in 0 .. CheckEvery /\ ~(lookable > 0)
        BY WatchdogAssumption DEF WatchdogInit, Longest
    <2>2. ~(lookable > sinceCheck)
        BY DEF WatchdogInit
    <2>3. WatchdogTypeOK
        BY <2>1 DEF WatchdogInit, WatchdogTypeOK
    <2> QED  BY <2>1, <2>2, <2>3 DEF WatchdogInv
<1>2. WatchdogInv /\ [WatchdogNext]_watchdogVars => WatchdogInv'
    BY WatchdogStep
<1>3. WatchdogInv => SilenceNoticed
    BY WatchdogAssumption DEF WatchdogInv, WatchdogTypeOK, SilenceNoticed
<1> QED  BY <1>1, <1>2, <1>3, PTL DEF WatchdogSpec

-----------------------------------------------------------------------------
(* Bursts of failures *)

\* What is counted (f) is what has failed (p) since the last burst; the failures
\* before it are at least as old as that burst.
Tracks(f, p, age) ==
    /\ f \in Seq(Nat) /\ p \in Seq(Nat) /\ age \in 0 .. BurstSpan + 1
    /\ Len(f) < BurstAt /\ Len(f) <= Len(p)
    /\ \A i \in 1 .. Len(p) : p[i] <= BurstSpan
    /\ \A i \in 1 .. Len(f) : f[i] = p[Len(p) - Len(f) + i]
    /\ \A i \in 1 .. Len(p) - Len(f) : p[i] >= age

BurstInv ==
    /\ failures \in [Actors -> Seq(Nat)]
    /\ past \in [Actors -> Seq(Nat)]
    /\ burstAge \in [Actors -> 0 .. BurstSpan + 1]
    /\ \A a \in Actors : Tracks(failures[a], past[a], burstAge[a])

LEMMA TracksNew ==
    ASSUME NEW f, NEW p, NEW age, Tracks(f, p, age)
    PROVE  /\ Tracks(<< >>, Append(p, 0), 0)
           /\ Len(f) + 1 < BurstAt => Tracks(Append(f, 0), Append(p, 0), age)
<1> DEFINE g == Append(f, 0)
           q == Append(p, 0)
<1>t. /\ f \in Seq(Nat) /\ p \in Seq(Nat) /\ Len(f) \in Nat /\ Len(p) \in Nat
      /\ BurstSpan \in Nat /\ BurstAt \in Nat \ {0} /\ age \in 0 .. BurstSpan + 1
      /\ Len(f) <= Len(p)
    BY BurstAssumption DEF Tracks
<1>p. \A i \in 1 .. Len(p) : p[i] \in Nat /\ p[i] <= BurstSpan
    BY DEF Tracks
<1>f. \A i \in 1 .. Len(f) : f[i] = p[Len(p) - Len(f) + i]
    BY DEF Tracks
<1>d. \A i \in 1 .. Len(p) - Len(f) : p[i] >= age
    BY DEF Tracks
<1>g. /\ g \in Seq(Nat) /\ Len(g) = Len(f) + 1 /\ g[Len(f) + 1] = 0
      /\ \A i \in 1 .. Len(f) : g[i] = f[i]
    BY <1>t
<1>q. /\ q \in Seq(Nat) /\ Len(q) = Len(p) + 1 /\ q[Len(p) + 1] = 0
      /\ \A i \in 1 .. Len(p) : q[i] = p[i]
    BY <1>t
<1> HIDE DEF g, q
<1>1. \A i \in 1 .. Len(q) : q[i] \in Nat /\ q[i] <= BurstSpan
    <2> SUFFICES ASSUME NEW i \in 1 .. Len(q) PROVE q[i] \in Nat /\ q[i] <= BurstSpan
        OBVIOUS
    <2>1. i = Len(p) + 1 \/ i \in 1 .. Len(p)
        BY <1>t, <1>q
    <2>2. CASE i = Len(p) + 1
        BY <1>t, <1>q, <2>2
    <2>3. CASE i \in 1 .. Len(p)
        BY <1>p, <1>q, <2>3
    <2> QED  BY <2>1, <2>2, <2>3
<1>2. Tracks(<< >>, q, 0)
    <2>1. << >> \in Seq(Nat) /\ Len(<< >>) = 0
        OBVIOUS
    <2>2. \A i \in 1 .. Len(q) - 0 : q[i] >= 0
        BY <1>t, <1>q, <1>1
    <2>3. 0 < BurstAt /\ 0 <= Len(q) /\ 0 \in 0 .. BurstSpan + 1
        BY <1>t, <1>q
    <2> QED  BY <1>1, <1>q, <2>1, <2>2, <2>3 DEF Tracks
<1>3. ASSUME Len(f) + 1 < BurstAt PROVE Tracks(g, q, age)
    <2>1. Len(q) - Len(g) = Len(p) - Len(f) /\ Len(g) <= Len(q)
        BY <1>t, <1>q, <1>g
    <2>2. \A i \in 1 .. Len(g) : g[i] = q[Len(q) - Len(g) + i]
        <3> SUFFICES ASSUME NEW i \in 1 .. Len(g) PROVE g[i] = q[Len(p) - Len(f) + i]
            BY <2>1
        <3>1. CASE i = Len(f) + 1
            <4>1. Len(p) - Len(f) + i = Len(p) + 1
                BY <1>t, <3>1
            <4> QED  BY <1>q, <1>g, <3>1, <4>1
        <3>2. CASE i # Len(f) + 1
            <4>1. i \in 1 .. Len(f) /\ Len(p) - Len(f) + i \in 1 .. Len(p)
                BY <1>t, <1>g, <3>2
            <4> QED  BY <1>q, <1>g, <1>f, <4>1
        <3> QED  BY <3>1, <3>2
    <2>3. \A i \in 1 .. Len(q) - Len(g) : q[i] >= age
        <3> SUFFICES ASSUME NEW i \in 1 .. Len(p) - Len(f) PROVE q[i] >= age
            BY <2>1
        <3>1. i \in 1 .. Len(p)
            BY <1>t
        <3> QED  BY <1>q, <1>d, <3>1
    <2> QED  BY <1>t, <1>1, <1>3, <1>g, <1>q, <2>1, <2>2, <2>3 DEF Tracks
<1> QED  BY <1>2, <1>3 DEF g, q

\* Both windows lose their oldest.  If the past loses more than was spent on earlier
\* bursts, the rest of it is what is still counted; if not, nothing counted leaves.
LEMMA TracksAged ==
    ASSUME NEW f, NEW p, NEW age, Tracks(f, p, age),
           NEW n, Leave(n, f, BurstSpan), NEW m, Leave(m, p, BurstSpan)
    PROVE  Tracks(Aged(f, n), Aged(p, m), IF age <= BurstSpan THEN age + 1 ELSE age)
<1> DEFINE g == Aged(f, n)
           q == Aged(p, m)
           older == IF age <= BurstSpan THEN age + 1 ELSE age
           d == Len(p) - Len(f)
<1>t. /\ f \in Seq(Nat) /\ p \in Seq(Nat) /\ Len(f) \in Nat /\ Len(p) \in Nat
      /\ BurstSpan \in Nat /\ BurstAt \in Nat \ {0} /\ age \in 0 .. BurstSpan + 1
      /\ Len(f) < BurstAt /\ Len(f) <= Len(p)
    BY BurstAssumption DEF Tracks
<1>p. \A i \in 1 .. Len(p) : p[i] \in Nat
    BY <1>t
<1>f. \A i \in 1 .. Len(f) : f[i] = p[d + i]
    BY DEF Tracks
<1>d. d \in Nat /\ d + Len(f) = Len(p) /\ \A i \in 1 .. d : p[i] >= age
    BY <1>t DEF Tracks
<1>n. n \in 0 .. Len(f) /\ \A i \in 1 .. Len(f) : f[i] + 1 > BurstSpan <=> i <= n
    BY DEF Leave
<1>m. m \in 0 .. Len(p) /\ \A i \in 1 .. Len(p) : p[i] + 1 > BurstSpan <=> i <= m
    BY DEF Leave
<1>g. /\ g \in Seq(Nat) /\ Len(g) = Len(f) - n /\ Len(g) \in Nat
      /\ \A i \in 1 .. Len(f) - n : g[i] = f[i + n] + 1
    BY <1>t, <1>n, AgeingAddsNone
<1>q. /\ q \in Seq(Nat) /\ Len(q) = Len(p) - m /\ Len(q) \in Nat
      /\ \A i \in 1 .. Len(p) - m : q[i] = p[i + m] + 1
    BY <1>t, <1>m, AgeingAddsNone
<1>o. older \in 0 .. BurstSpan + 1 /\ older <= age + 1
    BY <1>t
<1> HIDE DEF g, q, d, older
<1>1. \A i \in 1 .. Len(q) : q[i] <= BurstSpan
    <2> SUFFICES ASSUME NEW i \in 1 .. Len(q) PROVE q[i] <= BurstSpan
        OBVIOUS
    <2>1. i + m \in 1 .. Len(p) /\ i \in 1 .. Len(p) - m /\ ~(i + m <= m)
        BY <1>t, <1>m, <1>q
    <2>2. q[i] = p[i + m] + 1 /\ ~(p[i + m] + 1 > BurstSpan) /\ p[i + m] \in Nat
        BY <1>m, <1>q, <1>p, <2>1
    <2> QED  BY <1>t, <2>2
<1>2. \A i \in 1 .. Len(f) : i <= n <=> d + i <= m
    <2> SUFFICES ASSUME NEW i \in 1 .. Len(f) PROVE i <= n <=> d + i <= m
        OBVIOUS
    <2>1. d + i \in 1 .. Len(p)
        BY <1>t, <1>d
    <2> QED  BY <1>f, <1>n, <1>m, <2>1
<1>3. CASE m >= d
    <2>1. n = m - d
        <3>1. m - d \in 0 .. Len(f)
            BY <1>t, <1>m, <1>d, <1>3
        <3>2. CASE n < m - d
            <4>1. m - d \in 1 .. Len(f) /\ d + (m - d) <= m /\ ~(m - d <= n)
                BY <1>t, <1>n, <1>m, <1>d, <3>1, <3>2
            <4> QED  BY <1>2, <4>1
        <3>3. CASE n > m - d
            <4>1. n \in 1 .. Len(f) /\ n <= n /\ ~(d + n <= m)
                BY <1>t, <1>n, <1>m, <1>d, <3>1, <3>3
            <4> QED  BY <1>2, <4>1
        <3> QED  BY <1>n, <3>1, <3>2, <3>3
    <2>2. Len(q) - Len(g) = 0 /\ Len(g) <= Len(q) /\ Len(g) < BurstAt
        BY <1>t, <1>n, <1>m, <1>d, <1>g, <1>q, <2>1
    <2>3. \A i \in 1 .. Len(g) : g[i] = q[Len(q) - Len(g) + i]
        <3> SUFFICES ASSUME NEW i \in 1 .. Len(g) PROVE g[i] = q[i]
            BY <2>2
        <3>1. /\ i + n \in 1 .. Len(f) /\ i \in 1 .. Len(f) - n /\ i \in 1 .. Len(p) - m
              /\ d + (i + n) = i + m
            BY <1>t, <1>n, <1>m, <1>d, <1>g, <2>1
        <3>2. g[i] = f[i + n] + 1 /\ q[i] = p[i + m] + 1 /\ f[i + n] = p[d + (i + n)]
            BY <1>f, <1>g, <1>q, <3>1
        <3> QED  BY <3>1, <3>2
    <2>4. \A i \in 1 .. Len(q) - Len(g) : q[i] >= older
        BY <2>2
    <2> QED  BY <1>g, <1>q, <1>o, <1>1, <2>2, <2>3, <2>4 DEF Tracks, g, q, older
<1>4. CASE m < d
    <2>1. n = 0
        <3>1. CASE n > 0
            <4>1. n \in 1 .. Len(f) /\ n <= n /\ ~(d + n <= m)
                BY <1>t, <1>n, <1>m, <1>d, <1>4, <3>1
            <4> QED  BY <1>2, <4>1
        <3> QED  BY <1>t, <1>n, <3>1
    <2>2. Len(q) - Len(g) = d - m /\ d - m \in Nat /\ Len(g) <= Len(q) /\ Len(g) < BurstAt
        BY <1>t, <1>m, <1>d, <1>g, <1>q, <1>4, <2>1
    <2>3. \A i \in 1 .. Len(g) : g[i] = q[Len(q) - Len(g) + i]
        <3> SUFFICES ASSUME NEW i \in 1 .. Len(g) PROVE g[i] = q[d - m + i]
            BY <2>2
        <3>1. /\ i \in 1 .. Len(f) /\ i \in 1 .. Len(f) - n /\ i + n = i
              /\ d - m + i \in 1 .. Len(p) - m /\ (d - m + i) + m = d + i
            BY <1>t, <1>m, <1>d, <1>g, <1>4, <2>1
        <3>2. /\ g[i] = f[i + n] + 1 /\ f[i] = p[d + i]
              /\ q[d - m + i] = p[(d - m + i) + m] + 1
            BY <1>f, <1>g, <1>q, <3>1
        <3> QED  BY <3>1, <3>2
    <2>4. \A i \in 1 .. Len(q) - Len(g) : q[i] >= older
        <3> SUFFICES ASSUME NEW i \in 1 .. d - m PROVE q[i] >= older
            BY <2>2
        <3>1. i + m \in 1 .. d /\ i \in 1 .. Len(p) - m /\ i + m \in 1 .. Len(p)
            BY <1>t, <1>m, <1>d, <1>4
        <3>2. q[i] = p[i + m] + 1 /\ p[i + m] >= age /\ p[i + m] \in Nat
            BY <1>d, <1>q, <1>p, <3>1
        <3> QED  BY <1>t, <1>o, <3>2
    <2> QED  BY <1>g, <1>q, <1>o, <1>1, <2>2, <2>3, <2>4 DEF Tracks, g, q, older
<1> QED  BY <1>t, <1>m, <1>d, <1>3, <1>4

LEMMA BurstRecords ==
    ASSUME BurstInv, NEW a \in Actors, RecordFailure(a)
    PROVE  BurstInv'
<1> DEFINE f == failures[a]
           p == past[a]
<1>1. Tracks(f, p, burstAge[a]) /\ Append(p, 0) \in Seq(Nat) /\ Append(f, 0) \in Seq(Nat)
    BY DEF BurstInv
<1>2. past' = [past EXCEPT ![a] = Append(p, 0)]
    BY DEF RecordFailure
<1>3. \/ failures' = [failures EXCEPT ![a] = << >>] /\ burstAge' = [burstAge EXCEPT ![a] = 0]
      \/ /\ failures' = [failures EXCEPT ![a] = Append(f, 0)] /\ burstAge' = burstAge
         /\ Len(Append(f, 0)) < BurstAt
    BY DEF RecordFailure
<1>4. Len(Append(f, 0)) = Len(f) + 1
    BY DEF BurstInv
<1>5. /\ Tracks(<< >>, Append(p, 0), 0)
      /\ Len(f) + 1 < BurstAt => Tracks(Append(f, 0), Append(p, 0), burstAge[a])
    BY <1>1, TracksNew
<1>6. Tracks(failures'[a], past'[a], burstAge'[a])
    BY <1>2, <1>3, <1>4, <1>5 DEF BurstInv
<1>7. \A b \in Actors : b # a => /\ past'[b] = past[b] /\ failures'[b] = failures[b]
                                 /\ burstAge'[b] = burstAge[b]
    BY <1>2, <1>3 DEF BurstInv
<1>8. /\ past' \in [Actors -> Seq(Nat)] /\ failures' \in [Actors -> Seq(Nat)]
      /\ burstAge' \in [Actors -> 0 .. BurstSpan + 1]
    <2>1. << >> \in Seq(Nat) /\ 0 \in 0 .. BurstSpan + 1
        BY BurstAssumption
    <2> QED  BY <1>1, <1>2, <1>3, <2>1 DEF BurstInv
<1>9. \A b \in Actors : Tracks(failures'[b], past'[b], burstAge'[b])
    <2> SUFFICES ASSUME NEW b \in Actors PROVE Tracks(failures'[b], past'[b], burstAge'[b])
        OBVIOUS
    <2>1. CASE b = a
        BY <1>6, <2>1
    <2>2. CASE b # a
        BY <1>7, <2>2 DEF BurstInv
    <2> QED  BY <2>1, <2>2
<1> QED  BY <1>8, <1>9 DEF BurstInv, Tracks

LEMMA BurstAges ==
    ASSUME BurstInv, BurstTick
    PROVE  BurstInv'
<1>1. PICK gone \in [Actors -> 0 .. MaxFailures] :
          /\ \A a \in Actors : Leave(gone[a], failures[a], BurstSpan)
          /\ failures' = [a \in Actors |-> Aged(failures[a], gone[a])]
    BY DEF BurstTick
<1>2. PICK over \in [Actors -> 0 .. MaxFailures] :
          /\ \A a \in Actors : Leave(over[a], past[a], BurstSpan)
          /\ past' = [a \in Actors |-> Aged(past[a], over[a])]
    BY DEF BurstTick
<1>3. burstAge' =
         [a \in Actors |-> IF burstAge[a] <= BurstSpan THEN burstAge[a] + 1 ELSE burstAge[a]]
    BY DEF BurstTick
<1>4. ASSUME NEW a \in Actors
      PROVE  Tracks(failures'[a], past'[a], burstAge'[a])
    <2>1. Tracks(failures[a], past[a], burstAge[a])
        BY DEF BurstInv
    <2>2. Tracks(Aged(failures[a], gone[a]), Aged(past[a], over[a]),
                 IF burstAge[a] <= BurstSpan THEN burstAge[a] + 1 ELSE burstAge[a])
        BY <1>1, <1>2, <2>1, TracksAged
    <2> QED  BY <1>1, <1>2, <1>3, <2>2
<1>5. \A a \in Actors : /\ failures'[a] \in Seq(Nat) /\ past'[a] \in Seq(Nat)
                        /\ burstAge'[a] \in 0 .. BurstSpan + 1
    BY <1>4 DEF Tracks
<1>6. /\ past' \in [Actors -> Seq(Nat)] /\ failures' \in [Actors -> Seq(Nat)]
      /\ burstAge' \in [Actors -> 0 .. BurstSpan + 1]
    BY <1>1, <1>2, <1>3, <1>5
<1> QED  BY <1>4, <1>6 DEF BurstInv, Tracks

\* An actor with as many failures in the window as the threshold has been alerted
\* about within it, for any threshold and window (BurstCaught).
THEOREM BurstsAreCaught == BurstSpec => []BurstCaught
<1>1. BurstInit => BurstInv
    <2> SUFFICES ASSUME BurstInit PROVE BurstInv
        OBVIOUS
    <2>1. /\ Len(<< >>) = 0 /\ << >> \in Seq(Nat) /\ BurstAt \in Nat \ {0} /\ BurstSpan \in Nat
          /\ BurstSpan + 1 \in 0 .. BurstSpan + 1
        BY BurstAssumption
    <2>2. Tracks(<< >>, << >>, BurstSpan + 1)
        BY <2>1 DEF Tracks
    <2>3. /\ failures \in [Actors -> Seq(Nat)] /\ past \in [Actors -> Seq(Nat)]
          /\ burstAge \in [Actors -> 0 .. BurstSpan + 1]
        BY <2>1 DEF BurstInit
    <2>4. \A a \in Actors : failures[a] = << >> /\ past[a] = << >> /\ burstAge[a] = BurstSpan + 1
        BY DEF BurstInit
    <2> QED  BY <2>2, <2>3, <2>4 DEF BurstInv
<1>2. BurstInv /\ [BurstNext]_burstVars => BurstInv'
    <2> SUFFICES ASSUME BurstInv, [BurstNext]_burstVars PROVE BurstInv'
        OBVIOUS
    <2>1. CASE UNCHANGED burstVars
        BY <2>1 DEF BurstInv, Tracks, burstVars
    <2> QED  BY <2>1, BurstRecords, BurstAges DEF BurstNext
<1>3. BurstInv => BurstCaught
    <2> SUFFICES ASSUME BurstInv, NEW a \in Actors, Len(past[a]) >= BurstAt
                 PROVE  burstAge[a] <= BurstSpan
        BY DEF BurstCaught
    <2>1. Tracks(failures[a], past[a], burstAge[a])
        BY DEF BurstInv
    <2>2. /\ Len(past[a]) \in Nat /\ Len(failures[a]) \in Nat /\ Len(failures[a]) < BurstAt
          /\ BurstAt \in Nat /\ BurstSpan \in Nat /\ burstAge[a] \in Nat
        BY <2>1, BurstAssumption DEF Tracks
    <2>3. 1 \in 1 .. Len(past[a]) - Len(failures[a]) /\ 1 \in 1 .. Len(past[a])
        BY <2>2
    <2>4. past[a][1] >= burstAge[a] /\ past[a][1] <= BurstSpan /\ past[a][1] \in Nat
        BY <2>1, <2>3 DEF Tracks
    <2> QED  BY <2>2, <2>4
<1> QED  BY <1>1, <1>2, <1>3, PTL DEF BurstSpec

-----------------------------------------------------------------------------
(* Recurring patterns *)

Waiting(q) == {q[i] : i \in DOMAIN q}
Handled(p) == p \in patternTable \cup patternLost \cup {upserting} \cup Waiting(patternQueue)

PatternInv ==
    /\ occurrences \in [Patterns -> Seq(Nat)]
    /\ patternQueue \in Seq(Patterns)
    /\ PatternKept

\* Appending and taking keep the patterns of the queue in sight.
LEMMA AppendWaits ==
    ASSUME NEW S, NEW q \in Seq(S), NEW x \in S
    PROVE  Append(q, x) \in Seq(S) /\ Waiting(Append(q, x)) = Waiting(q) \cup {x}
<1>1. /\ Append(q, x) \in Seq(S) /\ Len(Append(q, x)) = Len(q) + 1 /\ Len(q) \in Nat
      /\ Append(q, x)[Len(q) + 1] = x
      /\ \A i \in 1 .. Len(q) : Append(q, x)[i] = q[i]
    OBVIOUS
<1>2. DOMAIN Append(q, x) = (DOMAIN q) \cup {Len(q) + 1} /\ DOMAIN q = 1 .. Len(q)
    BY <1>1
<1> QED  BY <1>1, <1>2 DEF Waiting

LEMMA HeadLeaves ==
    ASSUME NEW S, NEW q \in Seq(S), q # << >>
    PROVE  Tail(q) \in Seq(S) /\ Waiting(q) \subseteq Waiting(Tail(q)) \cup {Head(q)}
<1>1. Tail(q) \in Seq(S) /\ Len(Tail(q)) = Len(q) - 1 /\ Len(q) \in Nat
    OBVIOUS
<1>2. ASSUME NEW i \in DOMAIN q, i # 1
      PROVE  \E j \in DOMAIN Tail(q) : Tail(q)[j] = q[i]
    <2>1. i - 1 \in 1 .. Len(q) - 1 /\ Tail(q)[i - 1] = q[(i - 1) + 1] /\ (i - 1) + 1 = i
        BY <1>2
    <2>2. i - 1 \in DOMAIN Tail(q)
        BY <1>1, <2>1
    <2> QED  BY <2>1, <2>2
<1>3. Head(q) = q[1]
    OBVIOUS
<1> QED  BY <1>1, <1>2, <1>3 DEF Waiting

LEMMA PatternStep ==
    ASSUME PatternInv, [PatternNext]_patternVars
    PROVE  PatternInv'
<1> SUFFICES ASSUME occurrences \in [Patterns -> Seq(Nat)], patternQueue \in Seq(Patterns),
                    \A p \in Patterns : Len(occurrences[p]) > PatternThreshold => Handled(p)
             PROVE  PatternInv'
    BY DEF PatternInv, PatternKept, Handled, Waiting
<1>k. ASSUME occurrences' \in [Patterns -> Seq(Nat)], patternQueue' \in Seq(Patterns),
             \A p \in Patterns : Len(occurrences'[p]) > PatternThreshold => Handled(p)'
      PROVE  PatternInv'
    BY <1>k DEF PatternInv, PatternKept, Handled, Waiting
<1>a. /\ PatternThreshold \in Nat /\ NoPattern \notin Patterns
    BY PatternAssumption
<1>1. ASSUME NEW p \in Patterns, RecordOccurrence(p) PROVE PatternInv'
    <2> DEFINE o == occurrences[p]
    <2>1. /\ o \in Seq(Nat) /\ Append(o, 0) \in Seq(Nat)
          /\ Len(Append(o, 0)) = Len(o) + 1 /\ Len(o) \in Nat
        OBVIOUS
    <2>2. /\ occurrences' = [occurrences EXCEPT ![p] = Append(o, 0)]
          /\ UNCHANGED <<upserting, patternTable>> /\ Crossing(p, Len(o) + 1)
        BY <1>1 DEF RecordOccurrence
    <2>q. /\ Append(patternQueue, p) \in Seq(Patterns)
          /\ Waiting(Append(patternQueue, p)) = Waiting(patternQueue) \cup {p}
        BY AppendWaits
    <2>c. \/ patternQueue' = Append(patternQueue, p) /\ patternLost' = patternLost
          \/ patternQueue' = patternQueue /\ patternLost' = patternLost \cup {p}
          \/ /\ patternQueue' = patternQueue /\ patternLost' = patternLost
             /\ Len(o) + 1 # PatternThreshold + 1
        BY <2>2 DEF Crossing
    <2>3. patternQueue' \in Seq(Patterns) /\ patternLost \subseteq patternLost'
        BY <2>q, <2>c
    <2>4. \A x : Handled(x) => Handled(x)'
        BY <2>2, <2>q, <2>c DEF Handled
    <2>5. Len(o) + 1 > PatternThreshold => Handled(p)'
        <3>1. CASE Len(o) + 1 = PatternThreshold + 1
            <4>1. p \in patternLost' \cup Waiting(patternQueue')
                BY <2>q, <2>c, <3>1
            <4> QED  BY <4>1 DEF Handled
        <3>2. CASE Len(o) > PatternThreshold
            BY <2>4, <3>2 DEF Handled
        <3> QED  BY <1>a, <2>1, <3>1, <3>2
    <2> HIDE DEF o
    <2>6. \A x \in Patterns : Len(occurrences'[x]) > PatternThreshold => Handled(x)'
        BY <2>1, <2>2, <2>4, <2>5 DEF Handled, o
    <2> QED  BY <1>k, <2>1, <2>2, <2>3, <2>6
<1>2. ASSUME TakePattern PROVE PatternInv'
    <2>1. /\ upserting = NoPattern /\ patternQueue # << >>
          /\ upserting' = Head(patternQueue) /\ patternQueue' = Tail(patternQueue)
          /\ UNCHANGED <<occurrences, patternTable, patternLost>>
        BY <1>2 DEF TakePattern
    <2>2. /\ Tail(patternQueue) \in Seq(Patterns)
          /\ Waiting(patternQueue) \subseteq Waiting(Tail(patternQueue)) \cup {Head(patternQueue)}
        BY <2>1, HeadLeaves
    <2>3. \A x \in Patterns : Handled(x) => Handled(x)'
        BY <1>a, <2>1, <2>2 DEF Handled
    <2> QED  BY <1>k, <2>1, <2>2, <2>3
<1>3. ASSUME UpsertPattern PROVE PatternInv'
    <2>1. \A x \in Patterns : Handled(x) => Handled(x)'
        BY <1>3 DEF UpsertPattern, Handled
    <2>2. UNCHANGED <<occurrences, patternQueue>>
        BY <1>3 DEF UpsertPattern
    <2> QED  BY <1>k, <2>1, <2>2
<1>4. ASSUME PatternTick PROVE PatternInv'
    <2>1. PICK gone \in [Patterns -> 0 .. MaxOccurrences] :
             /\ \A p \in Patterns : Leave(gone[p], occurrences[p], PatternSpan - 1)
             /\ occurrences' = [p \in Patterns |-> Aged(occurrences[p], gone[p])]
        BY <1>4 DEF PatternTick
    <2>2. \A p \in Patterns : /\ occurrences'[p] \in Seq(Nat)
                             /\ Len(occurrences'[p]) <= Len(occurrences[p])
        BY <2>1, AgeingAddsNone DEF Leave
    <2>3. \A p \in Patterns : Len(occurrences'[p]) \in Nat /\ Len(occurrences[p]) \in Nat
        BY <2>2
    <2>4. UNCHANGED <<patternQueue, upserting, patternTable, patternLost>>
        BY <1>4 DEF PatternTick
    <2>5. occurrences' \in [Patterns -> Seq(Nat)]
        BY <2>1, <2>2
    <2>6. \A p \in Patterns : Handled(p)' = Handled(p)
        BY <2>4 DEF Handled
    <2>7. \A p \in Patterns : Len(occurrences'[p]) > PatternThreshold
                               => Len(occurrences[p]) > PatternThreshold
        BY <1>a, <2>2, <2>3
    <2> QED  BY <1>k, <2>4, <2>5, <2>6, <2>7
<1>5. ASSUME UNCHANGED patternVars PROVE PatternInv'
    <2>1. \A p \in Patterns : Handled(p)' = Handled(p)
        BY <1>5 DEF patternVars, Handled
    <2>2. UNCHANGED <<occurrences, patternQueue>>
        BY <1>5 DEF patternVars
    <2> QED  BY <1>k, <2>1, <2>2
<1> QED  BY <1>1, <1>2, <1>3, <1>4, <1>5 DEF PatternNext

\* A pattern above the threshold is in the table, on its way there or counted as lost,
\* though it is put in the queue at one count only (PatternKept).
THEOREM PatternsAreKept == PatternSpec => []PatternKept
<1>1. PatternInit => PatternInv
    <2> SUFFICES ASSUME PatternInit PROVE PatternInv
        OBVIOUS
    <2>1. \A p \in Patterns : Len(occurrences[p]) = 0
        BY DEF PatternInit
    <2>2. occurrences \in [Patterns -> Seq(Nat)] /\ patternQueue \in Seq(Patterns)
        BY DEF PatternInit
    <2> QED  BY <2>1, <2>2, PatternAssumption DEF PatternInv, PatternKept
<1>2. PatternInv /\ [PatternNext]_patternVars => PatternInv'
    BY PatternStep
<1>3. PatternInv => PatternKept
    BY DEF PatternInv
<1> QED  BY <1>1, <1>2, <1>3, PTL DEF PatternSpec

-----------------------------------------------------------------------------
(* Limits of the notifier *)

News == [fp : Fingerprints, age : Nat]

\* What was dispatched lies in three stretches: out of sight of the rate limit; in the
\* window before this one; in this one, of this age and with so many sent.
Paced(d, age, sent) ==
    \E j, k \in 0 .. Len(d) :
        /\ j <= k
        /\ k - j <= RateLimit
        /\ Len(d) - k <= sent
        /\ \A i \in 1 .. j : d[i].age >= RateWindow
        /\ \A i \in 1 .. k : d[i].age >= age

\* The ages kept for duplicates are those of the last dispatches.
Recorded(d, ages) ==
    /\ \A i \in 1 .. Len(d) : d[i].age < DedupWindow => ages[d[i].fp] <= d[i].age
    /\ \A i, j \in 1 .. Len(d) :
          /\ d[i].age < DedupWindow /\ d[j].age < DedupWindow
          /\ d[i].fp = d[j].fp
          => i = j

IsRate(r) ==
    r \in [live : BOOLEAN, age : 0 .. RateWindow, sent : 0 .. RateLimit,
          suppressed : {r.suppressed}]

NotifierInv ==
    /\ dispatches \in Seq(News)
    /\ dedupAge \in [Fingerprints -> 0 .. DedupWindow]
    /\ IsRate(rate)
    /\ rate.live \/ Len(dispatches) = 0
    /\ Paced(dispatches, rate.age, rate.sent)
    /\ Recorded(dispatches, dedupAge)

LEMMA NotifierConstants ==
    /\ RateLimit \in Nat \ {0} /\ RateWindow \in Nat \ {0} /\ DedupWindow \in Nat \ {0}
BY NotifierAssumption

LEMMA OneMore ==
    ASSUME NEW d \in Seq(News), NEW fp \in Fingerprints
    PROVE  LET e == Append(d, [fp |-> fp, age |-> 0])
           IN  /\ e \in Seq(News) /\ Len(e) = Len(d) + 1 /\ Len(d) \in Nat
               /\ e[Len(d) + 1] = [fp |-> fp, age |-> 0]
               /\ \A i \in 1 .. Len(d) : e[i] = d[i] /\ d[i] \in News
<1>1. [fp |-> fp, age |-> 0] \in News
    BY DEF News
<1> QED  BY <1>1

\* A window that is over becomes the one before, and nothing is in the new one.
LEMMA PacedRolls ==
    ASSUME NEW d \in Seq(News), NEW age, NEW sent, Paced(d, age, sent),
           age \in Nat, age >= RateWindow, sent \in 0 .. RateLimit
    PROVE  Paced(d, 0, 0)
<1>1. PICK j, k \in 0 .. Len(d) :
          /\ j <= k /\ Len(d) - k <= sent
          /\ \A i \in 1 .. k : d[i].age >= age
    BY DEF Paced
<1>2. Len(d) \in Nat /\ \A i \in 1 .. Len(d) : d[i] \in News
    OBVIOUS
<1>3. \A i \in 1 .. Len(d) : d[i].age \in Nat
    BY <1>2 DEF News
<1>4. /\ k \in 0 .. Len(d) /\ Len(d) \in 0 .. Len(d) /\ k <= Len(d)
      /\ Len(d) - k <= RateLimit /\ Len(d) - Len(d) <= 0
    BY <1>1, <1>2, NotifierConstants
<1>5. \A i \in 1 .. k : d[i].age >= RateWindow
    <2> SUFFICES ASSUME NEW i \in 1 .. k PROVE d[i].age >= RateWindow
        OBVIOUS
    <2>1. d[i].age \in Nat /\ d[i].age >= age
        BY <1>1, <1>2, <1>3
    <2> QED  BY <2>1, NotifierConstants
<1>6. \A i \in 1 .. Len(d) : d[i].age >= 0
    BY <1>3
<1> QED  BY <1>4, <1>5, <1>6 DEF Paced

LEMMA PacedSends ==
    ASSUME NEW d \in Seq(News), NEW age, NEW sent \in Nat, Paced(d, age, sent),
           NEW fp \in Fingerprints
    PROVE  /\ Paced(d, age, sent + 1)
           /\ Paced(Append(d, [fp |-> fp, age |-> 0]), age, sent + 1)
<1> DEFINE e == Append(d, [fp |-> fp, age |-> 0])
<1>1. PICK j, k \in 0 .. Len(d) :
          /\ j <= k /\ k - j <= RateLimit /\ Len(d) - k <= sent
          /\ \A i \in 1 .. j : d[i].age >= RateWindow
          /\ \A i \in 1 .. k : d[i].age >= age
    BY DEF Paced
<1>2. Len(d) \in Nat /\ Len(d) - k <= sent + 1
    BY <1>1
<1>3. Len(e) = Len(d) + 1 /\ \A i \in 1 .. Len(d) : e[i] = d[i]
    BY OneMore
<1> HIDE DEF e
<1>4. j \in 0 .. Len(e) /\ k \in 0 .. Len(e) /\ Len(e) - k <= sent + 1
    BY <1>1, <1>2, <1>3
<1>5. /\ \A i \in 1 .. j : i \in 1 .. Len(d) /\ e[i] = d[i]
      /\ \A i \in 1 .. k : i \in 1 .. Len(d) /\ e[i] = d[i]
    BY <1>1, <1>2, <1>3
<1>6. Paced(d, age, sent + 1)
    BY <1>1, <1>2 DEF Paced
<1>7. /\ \A i \in 1 .. j : e[i].age >= RateWindow
      /\ \A i \in 1 .. k : e[i].age >= age
    BY <1>1, <1>5
<1>8. Paced(e, age, sent + 1)
    BY <1>1, <1>4, <1>7 DEF Paced
<1> QED  BY <1>6, <1>8 DEF e

\* A tick makes everything older and drops the oldest, that no limit looks at.
Older(d, n) == [i \in 1 .. Len(d) - n |-> [d[i + n] EXCEPT !.age = @ + 1]]

LEMMA OlderNews ==
    ASSUME NEW d \in Seq(News), NEW n \in 0 .. Len(d)
    PROVE  /\ Older(d, n) \in Seq(News) /\ Len(Older(d, n)) = Len(d) - n
           /\ Len(d) \in Nat /\ Len(d) - n \in Nat
           /\ \A i \in 1 .. Len(d) - n :
                 /\ i + n \in 1 .. Len(d)
                 /\ Older(d, n)[i].fp = d[i + n].fp
                 /\ Older(d, n)[i].age = d[i + n].age + 1
                 /\ d[i + n].age \in Nat /\ d[i + n].fp \in Fingerprints
<1>1. Len(d) \in Nat /\ Len(d) - n \in Nat /\ \A i \in 1 .. Len(d) - n : i + n \in 1 .. Len(d)
    OBVIOUS
<1>2. ASSUME NEW x \in News
      PROVE  /\ [x EXCEPT !.age = @ + 1] \in News
             /\ [x EXCEPT !.age = @ + 1].fp = x.fp
             /\ [x EXCEPT !.age = @ + 1].age = x.age + 1
             /\ x.age \in Nat /\ x.fp \in Fingerprints
    BY DEF News
<1>3. \A i \in 1 .. Len(d) - n : d[i + n] \in News
    BY <1>1
<1>4. Older(d, n) \in [1 .. Len(d) - n -> News]
    BY <1>2, <1>3 DEF Older
<1>5. Older(d, n) \in Seq(News)
    BY <1>1, <1>4, SeqDef
<1>6. Len(Older(d, n)) = Len(d) - n
    <2>1. DOMAIN Older(d, n) = 1 .. Len(d) - n
        BY DEF Older
    <2> QED  BY <1>1, <1>5, <2>1, LenProperties
<1>7. \A i \in 1 .. Len(d) - n : Older(d, n)[i] = [d[i + n] EXCEPT !.age = @ + 1]
    BY DEF Older
<1> QED  BY <1>1, <1>2, <1>3, <1>5, <1>6, <1>7

LEMMA PacedAges ==
    ASSUME NEW d \in Seq(News), NEW age \in Nat, NEW sent \in Nat, Paced(d, age, sent),
           NEW n \in 0 .. Len(d)
    PROVE  Paced(Older(d, n), age + 1, sent)
<1>1. PICK j, k \in 0 .. Len(d) :
          /\ j <= k /\ k - j <= RateLimit /\ Len(d) - k <= sent
          /\ \A i \in 1 .. j : d[i].age >= RateWindow
          /\ \A i \in 1 .. k : d[i].age >= age
    BY DEF Paced
<1> DEFINE e == Older(d, n)
           jj == IF n <= j THEN j - n ELSE 0
           kk == IF n <= k THEN k - n ELSE 0
<1>2. /\ Len(e) = Len(d) - n /\ Len(d) \in Nat /\ Len(e) \in Nat
      /\ \A i \in 1 .. Len(d) - n : /\ i + n \in 1 .. Len(d) /\ e[i].age = d[i + n].age + 1
                                    /\ d[i + n].age \in Nat
    BY OlderNews
<1> HIDE DEF e
<1>3. /\ jj \in 0 .. Len(e) /\ kk \in 0 .. Len(e)
      /\ jj <= kk /\ kk - jj <= RateLimit /\ Len(e) - kk <= sent
    BY <1>1, <1>2, NotifierConstants
<1>4. \A i \in 1 .. jj : e[i].age >= RateWindow
    <2> SUFFICES ASSUME NEW i \in 1 .. jj PROVE e[i].age >= RateWindow
        OBVIOUS
    <2>1. i \in 1 .. Len(d) - n /\ i + n \in 1 .. j
        BY <1>1, <1>2
    <2>2. e[i].age = d[i + n].age + 1 /\ d[i + n].age \in Nat /\ d[i + n].age >= RateWindow
        BY <1>1, <1>2, <2>1
    <2> QED  BY <2>2, NotifierConstants
<1>5. \A i \in 1 .. kk : e[i].age >= age + 1
    <2> SUFFICES ASSUME NEW i \in 1 .. kk PROVE e[i].age >= age + 1
        OBVIOUS
    <2>1. i \in 1 .. Len(d) - n /\ i + n \in 1 .. k
        BY <1>1, <1>2
    <2>2. e[i].age = d[i + n].age + 1 /\ d[i + n].age \in Nat /\ d[i + n].age >= age
        BY <1>1, <1>2, <2>1
    <2> QED  BY <2>2
<1> HIDE DEF jj, kk
<1> QED  BY <1>3, <1>4, <1>5 DEF Paced, e

\* Less is asked of the same dispatches when the window is younger.
LEMMA PacedYounger ==
    ASSUME NEW d \in Seq(News), NEW age \in Nat, NEW less \in 0 .. age, NEW sent,
           Paced(d, age, sent)
    PROVE  Paced(d, less, sent)
<1>1. PICK j, k \in 0 .. Len(d) :
          /\ j <= k /\ k - j <= RateLimit /\ Len(d) - k <= sent
          /\ \A i \in 1 .. j : d[i].age >= RateWindow
          /\ \A i \in 1 .. k : d[i].age >= age
    BY DEF Paced
<1>2. \A i \in 1 .. k : d[i].age >= less
    <2> SUFFICES ASSUME NEW i \in 1 .. k PROVE d[i].age >= less
        OBVIOUS
    <2>1. d[i] \in News /\ d[i].age >= age
        BY <1>1
    <2>2. d[i].age \in Nat
        BY <2>1 DEF News
    <2> QED  BY <2>1, <2>2
<1> QED  BY <1>1, <1>2 DEF Paced

LEMMA PacedBounds ==
    ASSUME NEW d \in Seq(News), NEW age, NEW sent \in 0 .. RateLimit, Paced(d, age, sent)
    PROVE  Cardinality({i \in DOMAIN d : d[i].age < RateWindow}) <= 2 * RateLimit
<1>1. PICK j, k \in 0 .. Len(d) :
          /\ j <= k /\ k - j <= RateLimit /\ Len(d) - k <= sent
          /\ \A i \in 1 .. j : d[i].age >= RateWindow
    BY DEF Paced
<1> DEFINE R == {i \in DOMAIN d : d[i].age < RateWindow}
<1>2. Len(d) \in Nat /\ DOMAIN d = 1 .. Len(d) /\ \A i \in 1 .. Len(d) : d[i].age \in Nat
    <2>1. \A i \in 1 .. Len(d) : d[i] \in News
        OBVIOUS
    <2>2. \A i \in 1 .. Len(d) : d[i].age \in Nat
        BY <2>1 DEF News
    <2>3. Len(d) \in Nat /\ DOMAIN d = 1 .. Len(d)
        OBVIOUS
    <2> QED  BY <2>2, <2>3
<1>3. R \in SUBSET ((j + 1) .. Len(d))
    <2> SUFFICES ASSUME NEW i \in R PROVE i \in (j + 1) .. Len(d)
        OBVIOUS
    <2>1. i \in 1 .. Len(d) /\ d[i].age < RateWindow /\ d[i].age \in Nat
        BY <1>2
    <2>2. ~(i \in 1 .. j)
        BY <1>1, <2>1, NotifierConstants
    <2> QED  BY <1>1, <1>2, <2>1, <2>2
<1> HIDE DEF R
<1>4. /\ IsFiniteSet((j + 1) .. Len(d))
      /\ Cardinality((j + 1) .. Len(d)) = IF j + 1 > Len(d) THEN 0 ELSE Len(d) - (j + 1) + 1
    <2>1. j + 1 \in Int /\ Len(d) \in Int
        BY <1>1, <1>2
    <2> QED  BY <2>1, FS_Interval
<1>5. Cardinality(R) <= Cardinality((j + 1) .. Len(d)) /\ IsFiniteSet(R)
    BY <1>3, <1>4, FS_Subset
<1>6. Cardinality(R) \in Nat
    BY <1>5, FS_CardinalityType
<1>7. Cardinality(R) <= 2 * RateLimit
    BY <1>1, <1>2, <1>4, <1>5, <1>6, NotifierConstants
<1> QED  BY <1>7 DEF R

\* A fingerprint that is dispatched was not dispatched within the window.
LEMMA RecordedSends ==
    ASSUME NEW d \in Seq(News), NEW ages \in [Fingerprints -> 0 .. DedupWindow],
           NEW fp \in Fingerprints, Recorded(d, ages), ages[fp] >= DedupWindow
    PROVE  Recorded(Append(d, [fp |-> fp, age |-> 0]), [ages EXCEPT ![fp] = 0])
<1> DEFINE e == Append(d, [fp |-> fp, age |-> 0])
           recorded == [ages EXCEPT ![fp] = 0]
<1>1. /\ Len(e) = Len(d) + 1 /\ Len(d) \in Nat
      /\ e[Len(d) + 1].fp = fp /\ e[Len(d) + 1].age = 0
      /\ \A i \in 1 .. Len(d) : e[i] = d[i] /\ d[i] \in News
    BY OneMore
<1>2. \A i \in 1 .. Len(d) : d[i].age \in Nat /\ d[i].fp \in Fingerprints
    BY <1>1 DEF News
<1> HIDE DEF e
<1>3. \A i \in 1 .. Len(d) : d[i].age < DedupWindow => d[i].fp # fp
    BY <1>2, NotifierConstants DEF Recorded
<1>4. \A f \in Fingerprints : recorded[f] = IF f = fp THEN 0 ELSE ages[f]
    OBVIOUS
<1> HIDE DEF recorded
<1>5. ASSUME NEW i \in 1 .. Len(e), e[i].age < DedupWindow
      PROVE  recorded[e[i].fp] <= e[i].age
    <2>1. CASE i = Len(d) + 1
        BY <1>1, <1>4, <2>1
    <2>2. CASE i \in 1 .. Len(d)
        <3>1. d[i].age < DedupWindow /\ e[i] = d[i] /\ d[i].fp \in Fingerprints /\ d[i].fp # fp
            BY <1>1, <1>2, <1>3, <1>5, <2>2
        <3>2. ages[d[i].fp] <= d[i].age
            BY <2>2, <3>1 DEF Recorded
        <3> QED  BY <1>4, <3>1, <3>2
    <2> QED  BY <1>1, <2>1, <2>2
<1>6. ASSUME NEW i \in 1 .. Len(e), NEW h \in 1 .. Len(e),
             e[i].age < DedupWindow, e[h].age < DedupWindow, e[i].fp = e[h].fp
      PROVE  i = h
    <2>1. CASE i \in 1 .. Len(d) /\ h \in 1 .. Len(d)
        <3>1. e[i] = d[i] /\ e[h] = d[h]
            BY <1>1, <2>1
        <3> QED  BY <1>6, <2>1, <3>1 DEF Recorded
    <2>2. CASE i = Len(d) + 1 /\ h \in 1 .. Len(d)
        BY <1>1, <1>3, <1>6, <2>2
    <2>3. CASE i \in 1 .. Len(d) /\ h = Len(d) + 1
        BY <1>1, <1>3, <1>6, <2>3
    <2> QED  BY <1>1, <2>1, <2>2, <2>3
<1>7. Recorded(e, recorded)
    BY <1>5, <1>6 DEF Recorded
<1> QED  BY <1>7 DEF e, recorded

LEMMA RecordedAges ==
    ASSUME NEW d \in Seq(News), NEW ages \in [Fingerprints -> 0 .. DedupWindow],
           NEW n \in 0 .. Len(d), Recorded(d, ages)
    PROVE  Recorded(Older(d, n), [f \in Fingerprints |-> Later(ages[f], DedupWindow)])
<1> DEFINE e == Older(d, n)
           later == [f \in Fingerprints |-> Later(ages[f], DedupWindow)]
<1>1. /\ Len(e) = Len(d) - n /\ Len(d) \in Nat /\ Len(e) \in Nat
      /\ \A i \in 1 .. Len(e) : /\ i + n \in 1 .. Len(d) /\ e[i].age = d[i + n].age + 1
                                /\ e[i].fp = d[i + n].fp
                                /\ d[i + n].age \in Nat /\ d[i + n].fp \in Fingerprints
    BY OlderNews
<1> HIDE DEF e
<1>2. ASSUME NEW f \in Fingerprints, ages[f] < DedupWindow PROVE later[f] = ages[f] + 1
    BY <1>2 DEF Later
<1> HIDE DEF later
<1>3. \A i \in 1 .. Len(e) : e[i].age < DedupWindow => d[i + n].age < DedupWindow
    BY <1>1, NotifierConstants
<1>4. ASSUME NEW i \in 1 .. Len(e), e[i].age < DedupWindow
      PROVE  later[e[i].fp] <= e[i].age
    <2>1. /\ i + n \in 1 .. Len(d) /\ d[i + n].age < DedupWindow
          /\ d[i + n].age \in Nat /\ d[i + n].fp \in Fingerprints
        BY <1>1, <1>3, <1>4
    <2>2. ages[d[i + n].fp] <= d[i + n].age
        BY <2>1 DEF Recorded
    <2>3. ages[d[i + n].fp] \in 0 .. DedupWindow
        BY <2>1
    <2>4. later[d[i + n].fp] = ages[d[i + n].fp] + 1
        BY <1>2, <2>1, <2>2, <2>3, NotifierConstants
    <2> QED  BY <1>1, <2>1, <2>2, <2>3, <2>4
<1>5. ASSUME NEW i \in 1 .. Len(e), NEW h \in 1 .. Len(e),
             e[i].age < DedupWindow, e[h].age < DedupWindow, e[i].fp = e[h].fp
      PROVE  i = h
    <2>1. /\ i + n \in 1 .. Len(d) /\ h + n \in 1 .. Len(d)
          /\ d[i + n].age < DedupWindow /\ d[h + n].age < DedupWindow
          /\ d[i + n].fp = d[h + n].fp
        BY <1>1, <1>3, <1>5
    <2>2. i + n = h + n
        BY <2>1 DEF Recorded
    <2> QED  BY <1>1, <2>2
<1>6. Recorded(e, later)
    BY <1>4, <1>5 DEF Recorded
<1> QED  BY <1>6 DEF e, later

\* Pruning never changes what a lookup finds.
LEMMA PruningKeeps ==
    ASSUME NEW ages \in [Fingerprints -> 0 .. DedupWindow]
    PROVE  Pruned(ages) = ages
<1>1. \A f \in Fingerprints :
         ages[f] = IF ages[f] >= DedupWindow THEN DedupWindow ELSE ages[f]
    BY NotifierConstants
<1> QED  BY <1>1 DEF Pruned

\* The conjuncts that speak of a dispatch, a slot and a recorded fingerprint.
Limited(d, ages, r) ==
    /\ d \in Seq(News)
    /\ ages \in [Fingerprints -> 0 .. DedupWindow]
    /\ IsRate(r)
    /\ r.live \/ Len(d) = 0
    /\ Paced(d, r.age, r.sent)
    /\ Recorded(d, ages)

LEMMA InvIsLimited == NotifierInv <=> Limited(dispatches, dedupAge, rate)
BY DEF NotifierInv, Limited

\* A rolled window.
LEMMA RollKeeps ==
    ASSUME NEW d, NEW ages, NEW r, Limited(d, ages, r), ~r.live \/ r.age >= RateWindow
    PROVE  Limited(d, ages, NewWindow)
<1>1. /\ IsRate(NewWindow) /\ NewWindow.live /\ NewWindow.age = 0 /\ NewWindow.sent = 0
    BY NotifierConstants DEF IsRate, NewWindow
<1>2. Paced(d, 0, 0)
    <2>1. CASE r.age >= RateWindow
        BY <2>1, PacedRolls, NotifierConstants DEF Limited, IsRate
    <2>2. CASE Len(d) = 0
        <3>1. /\ 0 \in 0 .. Len(d) /\ 0 <= 0 /\ 0 - 0 <= RateLimit /\ Len(d) - 0 <= 0
              /\ \A i \in 1 .. 0 : FALSE
            BY <2>2, NotifierConstants
        <3> QED  BY <3>1 DEF Paced
    <2> QED  BY <1>1, <2>1, <2>2 DEF Limited
<1> QED  BY <1>1, <1>2 DEF Limited

\* A slot that is taken, with the dispatch it is for or with none.
LEMMA SlotKeeps ==
    ASSUME NEW d, NEW ages, NEW r, Limited(d, ages, r), r.live, r.sent < RateLimit
    PROVE  /\ Limited(d, ages, [r EXCEPT !.sent = @ + 1])
           /\ \A fp \in Fingerprints :
                 ages[fp] >= DedupWindow =>
                 Limited(Append(d, [fp |-> fp, age |-> 0]), [ages EXCEPT ![fp] = 0],
                         [r EXCEPT !.sent = @ + 1])
<1> DEFINE q == [r EXCEPT !.sent = @ + 1]
<1>1. IsRate(q) /\ q.live = r.live /\ q.age = r.age /\ q.sent = r.sent + 1
    <2>1. /\ r \in [live : BOOLEAN, age : 0 .. RateWindow, sent : 0 .. RateLimit,
                    suppressed : {r.suppressed}]
          /\ r.sent + 1 \in 0 .. RateLimit
        BY NotifierConstants DEF Limited, IsRate
    <2>2. /\ q.live = r.live /\ q.age = r.age /\ q.sent = r.sent + 1
          /\ q.suppressed = r.suppressed
        BY <2>1
    <2>3. q \in [live : BOOLEAN, age : 0 .. RateWindow, sent : 0 .. RateLimit,
                 suppressed : {r.suppressed}]
        BY <2>1
    <2> HIDE DEF q
    <2> QED  BY <2>2, <2>3 DEF IsRate
<1> HIDE DEF q
<1>2. /\ d \in Seq(News) /\ ages \in [Fingerprints -> 0 .. DedupWindow]
      /\ Paced(d, r.age, r.sent) /\ Recorded(d, ages) /\ r.sent \in Nat
    BY NotifierConstants DEF Limited, IsRate
<1>3. Limited(d, ages, q)
    <2>1. CASE \E f \in Fingerprints : TRUE
        BY <1>1, <1>2, <2>1, PacedSends DEF Limited
    <2>2. CASE ~\E f \in Fingerprints : TRUE
        <3>1. PICK j, k \in 0 .. Len(d) :
                  /\ j <= k /\ k - j <= RateLimit /\ Len(d) - k <= r.sent
                  /\ \A i \in 1 .. j : d[i].age >= RateWindow
                  /\ \A i \in 1 .. k : d[i].age >= r.age
            BY <1>2 DEF Paced
        <3>2. Len(d) - k <= r.sent + 1
            BY <1>2, <3>1
        <3>3. Paced(d, r.age, r.sent + 1)
            BY <3>1, <3>2 DEF Paced
        <3> QED  BY <1>1, <1>2, <3>3 DEF Limited
    <2> QED  BY <2>1, <2>2
<1>4. ASSUME NEW fp \in Fingerprints, ages[fp] >= DedupWindow
      PROVE  Limited(Append(d, [fp |-> fp, age |-> 0]), [ages EXCEPT ![fp] = 0], q)
    <2>1. Append(d, [fp |-> fp, age |-> 0]) \in Seq(News)
        BY <1>2, OneMore
    <2>2. [ages EXCEPT ![fp] = 0] \in [Fingerprints -> 0 .. DedupWindow]
        BY <1>2, NotifierConstants
    <2>3. Recorded(Append(d, [fp |-> fp, age |-> 0]), [ages EXCEPT ![fp] = 0])
        BY <1>2, <1>4, RecordedSends
    <2>4. Paced(Append(d, [fp |-> fp, age |-> 0]), r.age, r.sent + 1)
        BY <1>2, PacedSends
    <2> QED  BY <1>1, <2>1, <2>2, <2>3, <2>4 DEF Limited
<1> QED  BY <1>3, <1>4 DEF q

\* Time passes.
LEMMA TickKeeps ==
    ASSUME NEW d, NEW ages, NEW r, Limited(d, ages, r), NEW n \in 0 .. Len(d)
    PROVE  Limited(Older(d, n), [f \in Fingerprints |-> Later(ages[f], DedupWindow)],
                   [r EXCEPT !.age = Later(@, RateWindow)])
<1> DEFINE q == [r EXCEPT !.age = Later(@, RateWindow)]
           later == [f \in Fingerprints |-> Later(ages[f], DedupWindow)]
<1>1. /\ d \in Seq(News) /\ ages \in [Fingerprints -> 0 .. DedupWindow]
      /\ Paced(d, r.age, r.sent) /\ Recorded(d, ages)
      /\ r.sent \in Nat /\ r.age \in 0 .. RateWindow
    BY NotifierConstants DEF Limited, IsRate
<1>2. /\ IsRate(q) /\ q.live = r.live /\ q.sent = r.sent /\ q.age = Later(r.age, RateWindow)
    BY NotifierConstants DEF Limited, IsRate, Later
<1> HIDE DEF q
<1>3. later \in [Fingerprints -> 0 .. DedupWindow]
    BY <1>1, NotifierConstants DEF Later
<1>4. Recorded(Older(d, n), later)
    BY <1>1, RecordedAges
<1> HIDE DEF later
<1>5. /\ Older(d, n) \in Seq(News) /\ Len(Older(d, n)) = Len(d) - n /\ Len(d) \in Nat
    BY <1>1, OlderNews
<1>6. Paced(Older(d, n), r.age + 1, r.sent)
    <2>1. r.age \in Nat
        BY <1>1, NotifierConstants
    <2> QED  BY <1>1, <2>1, PacedAges
<1>7. Paced(Older(d, n), q.age, q.sent)
    <2>1. q.age \in 0 .. r.age + 1 /\ r.age + 1 \in Nat
        BY <1>1, <1>2, NotifierConstants DEF Later
    <2> QED  BY <1>2, <1>5, <1>6, <2>1, PacedYounger
<1>8. q.live \/ Len(Older(d, n)) = 0
    BY <1>2, <1>5 DEF Limited
<1> QED  BY <1>2, <1>3, <1>4, <1>5, <1>7, <1>8 DEF Limited, q, later

LEMMA SendKeeps ==
    ASSUME Limited(dispatches, dedupAge, rate), NEW n, NEW fp \in Fingerprints,
           SendOrSuppress(n, fp)
    PROVE  Limited(dispatches, dedupAge, rate)'
<1> DEFINE window == IF WindowOver THEN NewWindow ELSE rate
<1>1. window.live /\ Limited(dispatches, dedupAge, window)
    <2>1. CASE WindowOver
        BY <2>1, RollKeeps DEF WindowOver, NewWindow
    <2>2. CASE ~WindowOver
        BY <2>2 DEF WindowOver
    <2> QED  BY <2>1, <2>2
<1>2. \/ /\ rate' = [window EXCEPT !.suppressed = @ \cup {n}]
         /\ UNCHANGED <<dedupAge, dispatches>>
      \/ /\ window.sent < RateLimit
         /\ rate' = [window EXCEPT !.sent = @ + 1]
         /\ UNCHANGED <<dedupAge, dispatches>>
      \/ /\ window.sent < RateLimit
         /\ dedupAge[fp] >= DedupWindow
         /\ rate' = [window EXCEPT !.sent = @ + 1]
         /\ RecordDedup(fp)
         /\ dispatches' = Append(dispatches, [fp |-> fp, age |-> 0])
    BY DEF SendOrSuppress
<1> HIDE DEF window
<1>3. CASE /\ rate' = [window EXCEPT !.suppressed = @ \cup {n}]
           /\ UNCHANGED <<dedupAge, dispatches>>
    <2>1. IsRate(window)
        BY <1>1 DEF Limited
    <2>2. /\ rate'.live = window.live /\ rate'.age = window.age /\ rate'.sent = window.sent
          /\ IsRate(rate')
        BY <1>3, <2>1 DEF IsRate
    <2> QED  BY <1>1, <1>3, <2>2 DEF Limited
<1>4. CASE /\ window.sent < RateLimit
           /\ rate' = [window EXCEPT !.sent = @ + 1]
           /\ UNCHANGED <<dedupAge, dispatches>>
    BY <1>1, <1>4, SlotKeeps
<1>5. CASE /\ window.sent < RateLimit
           /\ dedupAge[fp] >= DedupWindow
           /\ rate' = [window EXCEPT !.sent = @ + 1]
           /\ RecordDedup(fp)
           /\ dispatches' = Append(dispatches, [fp |-> fp, age |-> 0])
    <2>1. [dedupAge EXCEPT ![fp] = 0] \in [Fingerprints -> 0 .. DedupWindow]
        BY <1>1, NotifierConstants DEF Limited
    <2>2. dedupAge' = [dedupAge EXCEPT ![fp] = 0]
        BY <1>5, <2>1, PruningKeeps DEF RecordDedup
    <2> QED  BY <1>1, <1>5, <2>2, SlotKeeps
<1> QED  BY <1>2, <1>3, <1>4, <1>5

LEMMA NotifierStep == NotifierInv /\ [NotifierNext]_notifierVars => NotifierInv'
<1> SUFFICES ASSUME Limited(dispatches, dedupAge, rate), [NotifierNext]_notifierVars
             PROVE  Limited(dispatches, dedupAge, rate)'
    BY InvIsLimited DEF NotifierInv, Limited
<1>1. ASSUME NEW fp \in Fingerprints, Notify(fp)
      PROVE  Limited(dispatches, dedupAge, rate)'
    <2>1. CASE mode' = "realtime"
        <3>1. SendOrSuppress(Len(fate) + 1, fp)
            BY <1>1, <2>1 DEF Notify
        <3> QED  BY <3>1, SendKeeps
    <2>2. CASE mode' # "realtime"
        <3>1. UNCHANGED <<dispatches, dedupAge, rate>>
            BY <1>1, <2>2 DEF Notify
        <3> QED  BY <3>1
    <2> QED  BY <2>1, <2>2
<1>2. CASE FlushExpiredWindow
    <2>1. /\ rate.age >= RateWindow /\ rate' = NewWindow /\ UNCHANGED <<dispatches,
                                                                        dedupAge>>
        BY <1>2 DEF FlushExpiredWindow
    <2> QED  BY <2>1, RollKeeps
<1>3. CASE NotifierTick
    <2>1. PICK n \in 0 .. Len(dispatches) : dispatches' = Older(dispatches, n)
        BY <1>3 DEF NotifierTick, Older
    <2>2. /\ rate' = [rate EXCEPT !.age = Later(@, RateWindow)]
          /\ dedupAge' = [f \in Fingerprints |-> Later(dedupAge[f], DedupWindow)]
        BY <1>3 DEF NotifierTick
    <2> QED  BY <2>1, <2>2, TickKeeps
<1>4. CASE \/ SendDigest \/ DayTick \/ UNCHANGED notifierVars
           \/ \E s \in senders : Delivered(s) \/ AttemptFails(s)
    <2>1. UNCHANGED <<dispatches, dedupAge, rate>>
        BY <1>4 DEF SendDigest, DayTick, notifierVars, Delivered, AttemptFails
    <2> QED  BY <2>1
<1> QED  BY <1>1, <1>2, <1>3, <1>4 DEF NotifierNext

LEMMA NotifierStarts == NotifierInit => NotifierInv
<1> SUFFICES ASSUME NotifierInit PROVE Limited(dispatches, dedupAge, rate)
    BY InvIsLimited
<1>1. IsRate(rate) /\ rate.age = 0 /\ rate.sent = 0
    <2>1. rate = [live |-> FALSE, age |-> 0, sent |-> 0, suppressed |-> {}]
        BY DEF NotifierInit, NewWindow
    <2>2. 0 \in 0 .. RateWindow /\ 0 \in 0 .. RateLimit
        BY NotifierConstants
    <2> QED  BY <2>1, <2>2 DEF IsRate
<1>2. dedupAge \in [Fingerprints -> 0 .. DedupWindow]
    BY NotifierConstants DEF NotifierInit
<1>3. dispatches \in Seq(News) /\ Len(dispatches) = 0
    BY DEF NotifierInit
<1>4. Recorded(dispatches, dedupAge)
    BY <1>3 DEF Recorded
<1>5. Paced(dispatches, 0, 0)
    <2>1. /\ 0 \in 0 .. Len(dispatches) /\ 0 <= 0 /\ 0 - 0 <= RateLimit
          /\ Len(dispatches) - 0 <= 0 /\ \A i \in 1 .. 0 : FALSE
        BY <1>3, NotifierConstants
    <2> QED  BY <2>1 DEF Paced
<1> QED  BY <1>1, <1>2, <1>3, <1>4, <1>5 DEF Limited

\* However the calls, the lazy roll of the window, the timer's roll and the pruning
\* interleave, a stretch of time as long as the window sees at most twice RateLimit
\* events, and none of them repeats a fingerprint (notify, _consume_rate_slot,
\* _check_and_record_dedup, _flush_expired_windows).
THEOREM LimitsHold == NotifierSpec => []NotTooOften
<1>1. NotifierInit => NotifierInv
    BY NotifierStarts
<1>2. NotifierInv /\ [NotifierNext]_notifierVars => NotifierInv'
    BY NotifierStep
<1>3. NotifierInv => NotTooOften
    <2> SUFFICES ASSUME NotifierInv PROVE NotTooOften
        OBVIOUS
    <2>1. /\ dispatches \in Seq(News) /\ Paced(dispatches, rate.age, rate.sent)
          /\ rate.sent \in 0 .. RateLimit /\ Recorded(dispatches, dedupAge)
        BY DEF NotifierInv, IsRate
    <2>2. BurstBounded
        BY <2>1, PacedBounds DEF BurstBounded, Recent
    <2>3. NoRepeatWithinWindow
        <3>1. DOMAIN dispatches = 1 .. Len(dispatches)
            BY <2>1
        <3> QED  BY <2>1, <3>1 DEF NoRepeatWithinWindow, Recent, Recorded
    <2> QED  BY <2>2, <2>3 DEF NotTooOften
<1> QED  BY <1>1, <1>2, <1>3, PTL DEF NotifierSpec

-----------------------------------------------------------------------------
(* What a webhook receives in a minute *)

Now == Minute(clock)

\* Threads that read the clock before the minute turned and have not decided yet.
Late == {t \in WebhookThreads :
            sending[t].at = "deciding" /\ Minute(sending[t].time) # Now}

Posting == {t \in WebhookThreads : sending[t].at = "posting"}

\* Threads beside one that will not reset the counts of this minute any more.
Past == Cardinality(WebhookThreads) - 1 - Cardinality(Late)

\* The alerts of a minute before its counts were last reset, when j threads have
\* had their turn at that.
Spent(j) == IF j < 0 THEN 0 ELSE 1 + j * WebhookMax + (j * (j + 1)) \div 2

Senders == [at : {"idle", "deciding", "posting"}, key : Keys \cup {""}, time : Nat]

SendersOK ==
    /\ clock \in 0 .. LastTick
    /\ minuteBucket \in Nat /\ minuteBucket <= Now
    /\ alertCounts \in [Minutes -> Nat]
    /\ posted \in [Minutes -> Nat]
    /\ sending \in [WebhookThreads -> Senders]
    /\ \A t \in WebhookThreads : sending[t].time <= clock

\* While the bucket is this minute's, what was posted is spent or counted, and the
\* counts leave room for those who may post; while it is not, those are spent.
MinuteBudget(counts, sent, turns, posting, live) ==
    IF live
    THEN turns >= 0 /\ sent <= Spent(turns) + counts /\ counts + posting <= WebhookMax + turns
    ELSE sent + posting <= Spent(turns)

WebhookInv ==
    /\ SendersOK
    /\ \A m \in Minutes : m > Now => posted[m] = 0
    /\ MinuteBudget(alertCounts[Now], posted[Now], Past, Cardinality(Posting),
                    minuteBucket = Now)
    /\ WebhookBounded

LEMMA WebhookConstants ==
    /\ IsFiniteSet(WebhookThreads) /\ Cardinality(WebhookThreads) \in Nat \ {0}
    /\ WebhookMax \in Nat \ {0} /\ MinuteTicks \in Nat \ {0} /\ LastTick \in Nat
    /\ WebhookCooldown \in Nat \ {0}
<1>1. IsFiniteSet(WebhookThreads) /\ WebhookThreads # {}
    BY WebhookAssumption
<1>2. Cardinality(WebhookThreads) \in Nat /\ Cardinality(WebhookThreads) # 0
    BY <1>1, FS_CardinalityType, FS_EmptySet
<1> QED  BY <1>1, <1>2, WebhookAssumption

LEMMA Minutely ==
    /\ \A a \in Nat : Minute(a) \in Nat
    /\ \A a, b \in Nat : a <= b => Minute(a) <= Minute(b)
    /\ \A a \in 0 .. LastTick : Minute(a) \in Minutes
<1>1. ASSUME NEW a \in Nat PROVE Minute(a) \in Nat
    BY WebhookConstants DEF Minute
<1>2. ASSUME NEW a \in Nat, NEW b \in Nat, a <= b PROVE Minute(a) <= Minute(b)
    <2>1. MinuteTicks \in Nat \ {0}
        BY WebhookConstants
    <2> QED  BY <1>2, <2>1 DEF Minute
<1>3. ASSUME NEW a \in 0 .. LastTick PROVE Minute(a) \in Minutes
    <2>1. a \in Nat /\ LastTick \in Nat /\ a <= LastTick
        BY WebhookConstants
    <2>2. Minute(a) \in Nat /\ Minute(LastTick) \in Nat /\ Minute(a) <= Minute(LastTick)
        BY <1>1, <1>2, <2>1
    <2> QED  BY <2>2 DEF Minutes
<1> QED  BY <1>1, <1>2, <1>3

\* What one more turn of a late thread allows, and the whole.
LEMMA SpentGrows ==
    /\ \A j \in Int : j >= -1 => Spent(j) \in Nat
    /\ Spent(-1) = 0 /\ Spent(0) = 1
    /\ \A j \in Nat : Spent(j + 1) = Spent(j) + WebhookMax + j + 1
    /\ \A j \in Nat : j + 1 <= Spent(j)
    /\ \A j \in Int : j >= -1 => Spent(j) + 1 <= Spent(j + 1)
<1>m. WebhookMax \in Nat \ {0}
    BY WebhookConstants
<1>1. ASSUME NEW j \in Nat
      PROVE  /\ j * WebhookMax \in Nat /\ j * (j + 1) \in Nat /\ j <= j * WebhookMax
             /\ (j + 1) * WebhookMax = j * WebhookMax + WebhookMax
             /\ (j + 1) * (j + 2) = j * (j + 1) + 2 * j + 2
    BY <1>m
<1>2. ASSUME NEW j \in Nat
      PROVE  /\ (j * (j + 1)) \div 2 \in Nat
             /\ ((j + 1) * (j + 2)) \div 2 = (j * (j + 1)) \div 2 + j + 1
    <2>1. \A x, y \in Nat : y = x + 2 * j + 2 => y \div 2 = x \div 2 + j + 1
        OBVIOUS
    <2>2. j * (j + 1) \in Nat /\ (j + 1) * (j + 2) \in Nat
        BY <1>1
    <2>3. ((j + 1) * (j + 2)) \div 2 = (j * (j + 1)) \div 2 + j + 1
        BY <1>1, <2>1, <2>2
    <2> QED  BY <2>2, <2>3
<1>3. ASSUME NEW j \in Nat
      PROVE  /\ Spent(j) \in Nat /\ j + 1 <= Spent(j)
             /\ Spent(j + 1) = Spent(j) + WebhookMax + j + 1
    <2>1. Spent(j) = 1 + j * WebhookMax + (j * (j + 1)) \div 2
        BY DEF Spent
    <2>2. Spent(j + 1) = 1 + (j + 1) * WebhookMax + ((j + 1) * (j + 2)) \div 2
        <3>1. (j + 1) + 1 = j + 2 /\ ~(j + 1 < 0)
            OBVIOUS
        <3> QED  BY <3>1 DEF Spent
    <2> QED  BY <1>1, <1>2, <2>1, <2>2, <1>m
<1>4. Spent(-1) = 0 /\ Spent(0) = 1
    <2>1. 0 * WebhookMax = 0 /\ (0 * (0 + 1)) \div 2 = 0
        BY <1>m
    <2> QED  BY <2>1 DEF Spent
<1>5. ASSUME NEW j \in Int, j >= -1 PROVE Spent(j) \in Nat /\ Spent(j) + 1 <= Spent(j + 1)
    <2>1. CASE j = -1
        <3>1. j + 1 = 0
            BY <2>1
        <3> QED  BY <1>4, <2>1, <3>1
    <2>2. CASE j \in Nat
        BY <1>3, <2>2, <1>m
    <2> QED  BY <1>5, <2>1, <2>2
<1> QED  BY <1>3, <1>4, <1>5

LEMMA SpentBounds ==
    ASSUME NEW j \in Nat, j <= Cardinality(WebhookThreads) - 1
    PROVE  LET threads == Cardinality(WebhookThreads)
           IN  Spent(j) + WebhookMax + j
                 <= threads * WebhookMax + (threads * (threads + 1)) \div 2
<1> DEFINE T == Cardinality(WebhookThreads)
<1>1. T \in Nat \ {0} /\ WebhookMax \in Nat \ {0}
    BY WebhookConstants
<1> HIDE DEF T
<1>2. PICK k \in Nat : T = k + 1 /\ j <= k
    <2>1. T - 1 \in Nat /\ T = (T - 1) + 1 /\ j <= T - 1
        BY <1>1 DEF T
    <2> QED  BY <2>1
<1>3. j * WebhookMax <= k * WebhookMax /\ j * WebhookMax \in Nat /\ k * WebhookMax \in Nat
    BY <1>1, <1>2
<1>4. j * (j + 1) <= k * (k + 1) /\ j * (j + 1) \in Nat /\ k * (k + 1) \in Nat
    BY <1>2
<1>5. (j * (j + 1)) \div 2 <= (k * (k + 1)) \div 2
    <2>1. \A x, y \in Nat : x <= y => x \div 2 <= y \div 2 /\ x \div 2 \in Nat /\ y \div 2 \in Nat
        OBVIOUS
    <2> QED  BY <1>4, <2>1
<1>6. Spent(j) <= Spent(k)
    <2>1. /\ Spent(j) = 1 + j * WebhookMax + (j * (j + 1)) \div 2
          /\ Spent(k) = 1 + k * WebhookMax + (k * (k + 1)) \div 2
        BY DEF Spent
    <2>2. (j * (j + 1)) \div 2 \in Nat /\ (k * (k + 1)) \div 2 \in Nat
        BY <1>4
    <2> QED  BY <1>3, <1>5, <2>1, <2>2
<1>7. Spent(k + 1) = Spent(k) + WebhookMax + k + 1 /\ Spent(k) \in Nat /\ Spent(j) \in Nat
    BY SpentGrows
<1>8. Spent(k + 1) = 1 + T * WebhookMax + (T * (T + 1)) \div 2
    <2>1. ~(T < 0)
        BY <1>1
    <2> QED  BY <1>2, <2>1 DEF Spent
<1>9. T * WebhookMax \in Nat /\ (T * (T + 1)) \div 2 \in Nat
    <2>1. T * (T + 1) \in Nat /\ T * WebhookMax \in Nat
        BY <1>1
    <2>2. \A x \in Nat : x \div 2 \in Nat
        OBVIOUS
    <2> QED  BY <2>1, <2>2
<1>10. Spent(j) + WebhookMax + j <= T * WebhookMax + (T * (T + 1)) \div 2
    BY <1>1, <1>2, <1>6, <1>7, <1>8, <1>9
<1> QED  BY <1>10 DEF T

\* The budget when a late thread decides, when one that is in time opens the minute or
\* finds it open, when an alert is posted, and when the minute turns.
LEMMA BudgetKeeps ==
    ASSUME NEW c \in Nat, NEW sent \in Nat, NEW turns \in Int, NEW p \in Nat, NEW live \in BOOLEAN,
           turns >= -1, MinuteBudget(c, sent, turns, p, live)
    PROVE  /\ \A q \in 0 .. p + 1, n \in Nat : MinuteBudget(n, sent, turns + 1, q, FALSE)
           /\ \A q \in 0 .. p : MinuteBudget(c, sent, turns, q, live)
           /\ live /\ c < WebhookMax =>
                 \A q \in Nat : q <= turns + 1 => MinuteBudget(c, sent, turns, q, TRUE)
           /\ ~live /\ turns >= 0 =>
                 \A q \in Nat : q <= turns + 1 => MinuteBudget(0, sent, turns, q, TRUE)
           /\ p > 0 => MinuteBudget(c + 1, sent + 1, turns, p - 1, live)
           /\ turns <= Cardinality(WebhookThreads) - 1 =>
                 sent <= Cardinality(WebhookThreads) * WebhookMax
                         + (Cardinality(WebhookThreads) * (Cardinality(WebhookThreads) + 1)) \div 2
<1>1. /\ WebhookMax \in Nat \ {0} /\ Spent(turns) \in Nat
      /\ Spent(turns) + 1 <= Spent(turns + 1) /\ Spent(turns + 1) \in Nat
      /\ turns >= 0 => Spent(turns + 1) = Spent(turns) + WebhookMax + turns + 1
    <2>1. turns + 1 \in Int /\ turns + 1 >= -1 /\ (turns >= 0 => turns \in Nat)
        OBVIOUS
    <2> QED  BY <2>1, WebhookConstants, SpentGrows
<1>2. ASSUME NEW q \in 0 .. p + 1, NEW n \in Nat
      PROVE  MinuteBudget(n, sent, turns + 1, q, FALSE)
    BY <1>1, <1>2 DEF MinuteBudget
<1>3. ASSUME NEW q \in 0 .. p PROVE MinuteBudget(c, sent, turns, q, live)
    BY <1>1, <1>3 DEF MinuteBudget
<1>4. ASSUME live, c < WebhookMax, NEW q \in Nat, q <= turns + 1
      PROVE  MinuteBudget(c, sent, turns, q, TRUE)
    BY <1>1, <1>4 DEF MinuteBudget
<1>5. ASSUME ~live, turns >= 0, NEW q \in Nat, q <= turns + 1
      PROVE  MinuteBudget(0, sent, turns, q, TRUE)
    BY <1>1, <1>5 DEF MinuteBudget
<1>6. ASSUME p > 0 PROVE MinuteBudget(c + 1, sent + 1, turns, p - 1, live)
    BY <1>1, <1>6 DEF MinuteBudget
<1>7. ASSUME turns <= Cardinality(WebhookThreads) - 1
      PROVE  sent <= Cardinality(WebhookThreads) * WebhookMax
                     + (Cardinality(WebhookThreads) * (Cardinality(WebhookThreads) + 1)) \div 2
    <2> DEFINE whole == Cardinality(WebhookThreads) * WebhookMax
                        + (Cardinality(WebhookThreads) * (Cardinality(WebhookThreads) + 1)) \div 2
    <2>1. PICK j \in Nat : /\ j <= Cardinality(WebhookThreads) - 1 /\ sent <= Spent(j) + WebhookMax + j
                           /\ Spent(j) \in Nat
        <3>1. CASE turns \in Nat
            BY <1>1, <1>7, <3>1 DEF MinuteBudget
        <3>2. CASE turns = -1
            <4>1. Spent(-1) = 0 /\ sent <= 0 /\ 0 <= Cardinality(WebhookThreads) - 1 /\ Spent(0) = 1
                BY <1>1, <3>2, SpentGrows, WebhookConstants DEF MinuteBudget
            <4> QED  BY <1>1, <4>1
        <3> QED  BY <3>1, <3>2
    <2>2. Spent(j) + WebhookMax + j <= whole
        BY <2>1, SpentBounds
    <2>3. whole \in Int
        <3>1. /\ Cardinality(WebhookThreads) * WebhookMax \in Nat
              /\ Cardinality(WebhookThreads) * (Cardinality(WebhookThreads) + 1) \in Nat
            BY WebhookConstants
        <3>2. \A x \in Nat : x \div 2 \in Nat
            OBVIOUS
        <3> QED  BY <3>1, <3>2
    <2> HIDE DEF whole
    <2>4. sent <= whole
        BY <1>1, <2>1, <2>2, <2>3
    <2> QED  BY <2>4 DEF whole
<1> QED  BY <1>2, <1>3, <1>4, <1>5, <1>6, <1>7

\* Two sets of threads that share none.
LEMMA Disjoint ==
    ASSUME NEW L \in SUBSET WebhookThreads, NEW P \in SUBSET WebhookThreads, L \cap P = {}
    PROVE  /\ Cardinality(L) \in Nat /\ Cardinality(P) \in Nat
           /\ Cardinality(L) + Cardinality(P) <= Cardinality(WebhookThreads)
           /\ \A t \in WebhookThreads \ L : Cardinality(L) < Cardinality(WebhookThreads)
           /\ \A t \in L : Cardinality(L \ {t}) = Cardinality(L) - 1
           /\ \A t \in P : Cardinality(P \ {t}) = Cardinality(P) - 1 /\ Cardinality(P) > 0
           /\ \A t \in WebhookThreads \ P : Cardinality(P \cup {t}) = Cardinality(P) + 1
<1>1. IsFiniteSet(WebhookThreads) /\ IsFiniteSet(L) /\ IsFiniteSet(P)
    BY WebhookConstants, FS_Subset
<1>2. /\ Cardinality(L) \in Nat /\ Cardinality(P) \in Nat
      /\ Cardinality(WebhookThreads) \in Nat
    BY <1>1, FS_CardinalityType
<1>3. Cardinality(L) + Cardinality(P) <= Cardinality(WebhookThreads)
    <2>1. /\ IsFiniteSet(L \cup P)
          /\ Cardinality(L \cup P) = Cardinality(L) + Cardinality(P) - Cardinality(L \cap P)
        BY <1>1, FS_Union
    <2>2. Cardinality(L \cap P) = 0
        BY FS_EmptySet
    <2>3. Cardinality(L \cup P) <= Cardinality(WebhookThreads)
        BY <1>1, FS_Subset
    <2> QED  BY <1>2, <2>1, <2>2, <2>3
<1>4. ASSUME NEW t \in WebhookThreads \ L PROVE Cardinality(L) < Cardinality(WebhookThreads)
    <2>1. L \subseteq WebhookThreads \ {t} /\ t \in WebhookThreads
        OBVIOUS
    <2>2. /\ IsFiniteSet(WebhookThreads \ {t})
          /\ Cardinality(WebhookThreads \ {t}) = Cardinality(WebhookThreads) - 1
        BY <1>1, <2>1, FS_RemoveElement
    <2>3. Cardinality(L) <= Cardinality(WebhookThreads \ {t})
        BY <2>1, <2>2, FS_Subset
    <2> QED  BY <1>2, <2>2, <2>3
<1>5. ASSUME NEW t \in L PROVE Cardinality(L \ {t}) = Cardinality(L) - 1
    BY <1>1, FS_RemoveElement
<1>6. ASSUME NEW t \in P PROVE Cardinality(P \ {t}) = Cardinality(P) - 1 /\ Cardinality(P) > 0
    <2>1. Cardinality(P) # 0
        BY <1>1, FS_EmptySet
    <2>2. Cardinality(P \ {t}) = Cardinality(P) - 1
        BY <1>1, FS_RemoveElement
    <2> QED  BY <1>2, <2>1, <2>2
<1>7. ASSUME NEW t \in WebhookThreads \ P PROVE Cardinality(P \cup {t}) = Cardinality(P) + 1
    BY <1>1, FS_AddElement
<1> QED  BY <1>2, <1>3, <1>4, <1>5, <1>6, <1>7

\* What the parts of the invariant say of a state.
LEMMA WebhookFacts ==
    ASSUME WebhookInv
    PROVE  /\ Now \in Nat /\ Now \in Minutes
           /\ Late \in SUBSET WebhookThreads /\ Posting \in SUBSET WebhookThreads
           /\ Late \cap Posting = {}
           /\ Past \in Int /\ Past >= -1 /\ Past <= Cardinality(WebhookThreads) - 1
           /\ Cardinality(Posting) \in Nat /\ Cardinality(Posting) <= Past + 1
           /\ \A t \in WebhookThreads \ Late : Past >= 0
           /\ alertCounts[Now] \in Nat /\ posted[Now] \in Nat
<1>1. clock \in 0 .. LastTick /\ clock \in Nat
    BY WebhookConstants DEF WebhookInv, SendersOK
<1>2. Now \in Nat /\ Now \in Minutes
    BY <1>1, Minutely DEF Now
<1>3. /\ Late \in SUBSET WebhookThreads /\ Posting \in SUBSET WebhookThreads
      /\ Late \cap Posting = {}
    BY DEF Late, Posting
<1>4. /\ Cardinality(Late) \in Nat /\ Cardinality(Posting) \in Nat
      /\ Cardinality(Late) + Cardinality(Posting) <= Cardinality(WebhookThreads)
      /\ \A t \in WebhookThreads \ Late : Cardinality(Late) < Cardinality(WebhookThreads)
    BY <1>3, Disjoint
<1>5. alertCounts[Now] \in Nat /\ posted[Now] \in Nat
    BY <1>2 DEF WebhookInv, SendersOK
<1> QED  BY <1>2, <1>3, <1>4, <1>5, WebhookConstants DEF Past

LEMMA IdleIsSender == Idle \in Senders /\ Idle.time = 0 /\ Idle.at = "idle"
BY DEF Senders, Idle

LEMMA SenderFacts ==
    ASSUME SendersOK
    PROVE  /\ clock \in Nat
           /\ \A u \in WebhookThreads : /\ sending[u] \in Senders /\ sending[u].time \in Nat
                                        /\ sending[u].time <= clock
<1>1. clock \in Nat
    BY WebhookConstants DEF SendersOK
<1>2. ASSUME NEW u \in WebhookThreads PROVE sending[u] \in Senders
    BY DEF SendersOK
<1>3. ASSUME NEW x \in Senders PROVE x.time \in Nat
    BY DEF Senders
<1> QED  BY <1>1, <1>2, <1>3 DEF SendersOK

\* A step within a minute keeps the bound when it keeps the budget.
LEMMA WithinMinute ==
    ASSUME WebhookInv, SendersOK', clock' = clock,
           \A m \in Minutes : m # Now => posted'[m] = posted[m],
           Past' \in Int, Past' >= -1, Past' <= Cardinality(WebhookThreads) - 1,
           Cardinality(Posting') \in Nat,
           MinuteBudget(alertCounts'[Now], posted'[Now], Past', Cardinality(Posting'),
                        minuteBucket' = Now)
    PROVE  WebhookInv'
<1>1. Now' = Now /\ Now \in Minutes /\ Now \in Nat
    BY WebhookFacts DEF Now
<1>2. \A m \in Minutes : m > Now' => posted'[m] = 0
    BY <1>1 DEF WebhookInv, Minutes
<1>3. WebhookBounded'
    <2> SUFFICES ASSUME NEW m \in Minutes
                 PROVE  posted'[m] <= Cardinality(WebhookThreads) * WebhookMax
                          + (Cardinality(WebhookThreads) * (Cardinality(WebhookThreads) + 1)) \div 2
        BY DEF WebhookBounded
    <2>1. CASE m # Now
        BY <2>1 DEF WebhookInv, WebhookBounded
    <2>2. CASE m = Now
        <3>1. alertCounts'[Now] \in Nat /\ posted'[Now] \in Nat /\ (minuteBucket' = Now) \in BOOLEAN
            BY <1>1 DEF SendersOK
        <3> QED  BY <2>2, <3>1, BudgetKeeps
    <2> QED  BY <2>1, <2>2
<1> QED  BY <1>1, <1>2, <1>3 DEF WebhookInv

LEMMA ReadKeeps ==
    ASSUME WebhookInv, NEW t \in WebhookThreads, NEW key \in AlertKeys[t], ReadClock(t, key)
    PROVE  WebhookInv'
<1>1. SendersOK' /\ clock' = clock /\ posted' = posted /\ alertCounts' = alertCounts
    <2>1. [at |-> "deciding", key |-> key, time |-> clock] \in Senders
        <3>1. key \in Keys
            BY DEF Keys
        <3>2. clock \in Nat
            BY SenderFacts DEF WebhookInv
        <3> QED  BY <3>1, <3>2 DEF Senders
    <2>2. sending' \in [WebhookThreads -> Senders]
        BY <2>1 DEF WebhookInv, SendersOK, ReadClock
    <2>3. \A u \in WebhookThreads : sending'[u].time <= clock
        <3>1. \A u \in WebhookThreads :
                 sending'[u] = IF u = t THEN [at |-> "deciding", key |-> key, time |-> clock]
                               ELSE sending[u]
            BY DEF WebhookInv, SendersOK, ReadClock
        <3>2. clock <= clock
            BY WebhookConstants DEF WebhookInv, SendersOK
        <3> QED  BY <3>1, <3>2 DEF WebhookInv, SendersOK
    <2> QED  BY <2>2, <2>3 DEF WebhookInv, SendersOK, ReadClock, Now
<1>2. Late' = Late /\ Posting' = Posting
    <2>1. \A u \in WebhookThreads :
             sending'[u] = IF u = t THEN [at |-> "deciding", key |-> key, time |-> clock]
                           ELSE sending[u]
        BY DEF WebhookInv, SendersOK, ReadClock
    <2>2. sending[t].at = "idle" /\ clock' = clock
        BY IdleIsSender DEF ReadClock
    <2>3. Late' = Late
        BY <2>1, <2>2 DEF Late, Now
    <2>4. Posting' = Posting
        BY <2>1, <2>2 DEF Posting
    <2> QED  BY <2>3, <2>4
<1>3. Past' = Past /\ minuteBucket' = minuteBucket
    BY <1>2 DEF Past, ReadClock
<1>4. MinuteBudget(alertCounts'[Now], posted'[Now], Past', Cardinality(Posting'),
                   minuteBucket' = Now)
    BY <1>1, <1>2, <1>3 DEF WebhookInv
<1> QED  BY <1>1, <1>2, <1>3, <1>4, WebhookFacts, WithinMinute

LEMMA PostKeeps ==
    ASSUME WebhookInv, NEW t \in WebhookThreads, PostSucceeds(t) \/ PostFails(t)
    PROVE  WebhookInv'
<1>1. sending[t].at = "posting" /\ sending' = [sending EXCEPT ![t] = Idle]
      /\ clock' = clock /\ minuteBucket' = minuteBucket
    BY DEF PostSucceeds, PostFails
<1>2. sending' \in [WebhookThreads -> Senders] /\ \A u \in WebhookThreads : sending'[u].time <= clock
    <2>1. Idle \in Senders /\ Idle.time = 0 /\ 0 <= clock
        BY IdleIsSender, SenderFacts DEF WebhookInv
    <2>2. \A u \in WebhookThreads : sending'[u] = IF u = t THEN Idle ELSE sending[u]
        BY <1>1 DEF WebhookInv, SendersOK
    <2> QED  BY <1>1, <2>1, <2>2 DEF WebhookInv, SendersOK
<1>3. Late' = Late /\ Posting' = Posting \ {t} /\ t \in Posting
    BY <1>1 DEF Late, Posting, Now, WebhookInv, SendersOK, Idle
<1>4. /\ Past' = Past /\ Cardinality(Posting') = Cardinality(Posting) - 1
      /\ Cardinality(Posting) > 0 /\ Cardinality(Posting') \in Nat
    <2>1. /\ Cardinality(Posting \ {t}) = Cardinality(Posting) - 1
          /\ Cardinality(Posting) > 0 /\ Cardinality(Posting) \in Nat
        BY <1>3, WebhookFacts, Disjoint
    <2> QED  BY <1>3, <2>1 DEF Past
<1>5. CASE PostSucceeds(t)
    <2>1. /\ alertCounts' = [alertCounts EXCEPT ![Now] = @ + 1]
          /\ posted' = [posted EXCEPT ![Now] = @ + 1]
        BY <1>5 DEF PostSucceeds, Now
    <2>2. /\ alertCounts'[Now] = alertCounts[Now] + 1 /\ posted'[Now] = posted[Now] + 1
          /\ \A m \in Minutes : m # Now => posted'[m] = posted[m]
        BY <2>1, WebhookFacts DEF WebhookInv, SendersOK
    <2>3. alertCounts' \in [Minutes -> Nat] /\ posted' \in [Minutes -> Nat]
        BY <2>1, WebhookFacts DEF WebhookInv, SendersOK
    <2>4. SendersOK'
        BY <1>1, <1>2, <2>3 DEF SendersOK, WebhookInv, Now
    <2>5. MinuteBudget(alertCounts'[Now], posted'[Now], Past', Cardinality(Posting'),
                       minuteBucket' = Now)
        <3>1. MinuteBudget(alertCounts[Now] + 1, posted[Now] + 1, Past,
                           Cardinality(Posting) - 1, minuteBucket = Now)
            BY <1>4, WebhookFacts, BudgetKeeps DEF WebhookInv
        <3> QED  BY <1>1, <1>4, <2>2, <3>1
    <2> QED  BY <1>1, <1>4, <2>2, <2>4, <2>5, WebhookFacts, WithinMinute
<1>6. CASE PostFails(t)
    <2>1. alertCounts' = alertCounts /\ posted' = posted
        BY <1>6 DEF PostFails
    <2>2. SendersOK'
        BY <1>1, <1>2, <2>1 DEF SendersOK, WebhookInv, Now
    <2>3. MinuteBudget(alertCounts'[Now], posted'[Now], Past', Cardinality(Posting'),
                       minuteBucket' = Now)
        <3>1. Cardinality(Posting) - 1 \in 0 .. Cardinality(Posting)
            BY <1>4, WebhookFacts
        <3>2. MinuteBudget(alertCounts[Now], posted[Now], Past,
                           Cardinality(Posting) - 1, minuteBucket = Now)
            BY <3>1, WebhookFacts, BudgetKeeps DEF WebhookInv
        <3> QED  BY <1>1, <1>4, <2>1, <3>2
    <2> QED  BY <1>1, <1>4, <2>1, <2>2, <2>3, WebhookFacts, WithinMinute
<1> QED  BY <1>5, <1>6

LEMMA DecideKeeps ==
    ASSUME WebhookInv, NEW t \in WebhookThreads, Decide(t)
    PROVE  WebhookInv'
<1> DEFINE minute == Minute(sending[t].time)
           allow == /\ CountsFor(minute)[minute] < WebhookMax
                    /\ ~InCooldown(sending[t].key, sending[t].time)
           gone == IF allow THEN [sending[t] EXCEPT !.at = "posting"] ELSE Idle
<1>1. /\ sending[t].at = "deciding" /\ alertCounts' = CountsFor(minute)
      /\ minuteBucket' = minute /\ sending' = [sending EXCEPT ![t] = gone]
      /\ clock' = clock /\ posted' = posted
    BY DEF Decide
<1>2. sending[t] \in Senders /\ sending[t].time \in Nat /\ clock \in Nat /\ sending[t].time <= clock
    BY SenderFacts DEF WebhookInv
<1>3. minute \in Nat /\ minute <= Now
    BY <1>2, Minutely DEF Now
<1>4. /\ gone \in Senders /\ gone.time <= clock /\ gone.at # "deciding"
      /\ gone.at = "posting" => allow
    <2>1. [sending[t] EXCEPT !.at = "posting"] \in Senders
          /\ [sending[t] EXCEPT !.at = "posting"].time = sending[t].time
          /\ [sending[t] EXCEPT !.at = "posting"].at = "posting"
        BY <1>2 DEF Senders
    <2>2. Idle \in Senders /\ Idle.time <= clock /\ Idle.at = "idle"
        BY <1>2, IdleIsSender
    <2> QED  BY <1>2, <2>1, <2>2
<1>5. alertCounts' \in [Minutes -> Nat]
    BY <1>1 DEF CountsFor, WebhookInv, SendersOK
<1> HIDE DEF gone, minute, allow
<1>6. \A u \in WebhookThreads : sending'[u] = IF u = t THEN gone ELSE sending[u]
    BY <1>1 DEF WebhookInv, SendersOK
<1>7. SendersOK'
    <2>1. gone \in Senders /\ gone.time <= clock
        BY <1>4
    <2>2. sending' \in [WebhookThreads -> Senders]
        BY <1>1, <2>1 DEF WebhookInv, SendersOK
    <2>4. \A u \in WebhookThreads : sending'[u].time <= clock'
        BY <1>1, <1>6, <2>1, SenderFacts DEF WebhookInv
    <2>3. Now' = Now
        BY <1>1 DEF Now
    <2> QED  BY <1>1, <1>3, <1>5, <2>2, <2>3, <2>4 DEF WebhookInv, SendersOK
<1>8. /\ t \notin Posting
      /\ Posting' = Posting \/ (allow /\ Posting' = Posting \cup {t})
      /\ Late' = Late \ {t}
      /\ t \in Late <=> minute # Now
    <2>1. Late' = Late \ {t}
        BY <1>1, <1>4, <1>6 DEF Late, Now
    <2>2. t \notin Posting /\ (t \in Late <=> minute # Now)
        BY <1>1 DEF Late, Posting, minute
    <2>3. CASE gone.at = "posting"
        <3>1. Posting' = Posting \cup {t}
            BY <1>6, <2>3 DEF Posting
        <3>2. allow
            BY <1>4, <2>3
        <3> QED  BY <2>1, <2>2, <3>1, <3>2
    <2>4. CASE gone.at # "posting"
        <3>1. Posting' = Posting
            BY <1>1, <1>6, <2>4 DEF Posting
        <3> QED  BY <2>1, <2>2, <3>1
    <2> QED  BY <2>1, <2>2, <2>3, <2>4
<1>9. /\ Cardinality(Posting') \in Nat
      /\ Cardinality(Posting') = Cardinality(Posting)
         \/ (allow /\ Cardinality(Posting') = Cardinality(Posting) + 1)
      /\ Cardinality(Posting') <= Past' + 1
      /\ Past' = (IF t \in Late THEN Past + 1 ELSE Past)
      /\ Past' <= Cardinality(WebhookThreads) - 1
    <2>1. /\ Cardinality(Posting \cup {t}) = Cardinality(Posting) + 1
          /\ Cardinality(Posting) \in Nat /\ Cardinality(Late) \in Nat
          /\ t \in Late => Cardinality(Late \ {t}) = Cardinality(Late) - 1
        BY <1>8, WebhookFacts, Disjoint
    <2>2. /\ Late' \in SUBSET WebhookThreads /\ Posting' \in SUBSET WebhookThreads
          /\ Late' \cap Posting' = {}
        BY <1>8, WebhookFacts
    <2>3. /\ Cardinality(Late') + Cardinality(Posting') <= Cardinality(WebhookThreads)
          /\ Cardinality(Late') \in Nat /\ Cardinality(Posting') \in Nat
        BY <2>2, Disjoint
    <2>4. t \notin Late => Late' = Late
        BY <1>8
    <2>5. /\ Cardinality(Posting') = Cardinality(Posting)
             \/ (allow /\ Cardinality(Posting') = Cardinality(Posting) + 1)
        BY <1>8, <2>1
    <2>6. Past' = Cardinality(WebhookThreads) - 1 - Cardinality(Late')
        BY DEF Past
    <2>7. Cardinality(Late') = IF t \in Late THEN Cardinality(Late) - 1 ELSE Cardinality(Late)
        BY <1>8, <2>1, <2>4
    <2>8. /\ Cardinality(Posting') <= Past' + 1
          /\ Past' <= Cardinality(WebhookThreads) - 1
        BY <2>3, <2>6, WebhookConstants
    <2>9. Past' = IF t \in Late THEN Past + 1 ELSE Past
        BY <2>1, <2>6, <2>7, WebhookConstants DEF Past
    <2> QED  BY <2>3, <2>5, <2>8, <2>9
<1>10. CASE minute # Now
    <2>1. Past' = Past + 1 /\ Past' >= -1 /\ Past' \in Int
        BY <1>8, <1>9, <1>10, WebhookFacts
    <2>2. Cardinality(Posting') \in 0 .. Cardinality(Posting) + 1 /\ alertCounts'[Now] \in Nat
        BY <1>5, <1>9, WebhookFacts
    <2>3. MinuteBudget(alertCounts'[Now], posted[Now], Past + 1, Cardinality(Posting'), FALSE)
        BY <2>2, WebhookFacts, BudgetKeeps DEF WebhookInv
    <2>4. (minuteBucket' = Now) = FALSE
        BY <1>1, <1>10
    <2> QED  BY <1>1, <1>7, <1>9, <2>1, <2>3, <2>4, WithinMinute
<1>11. CASE minute = Now
    <2>1. /\ Past' = Past /\ Past >= 0 /\ (minuteBucket' = Now) = TRUE
          /\ Past' \in Int /\ Past' >= -1
        <3>1. Past' = Past /\ (minuteBucket' = Now) = TRUE /\ t \in WebhookThreads \ Late
            BY <1>1, <1>8, <1>9, <1>11
        <3> QED  BY <3>1, WebhookFacts
    <2>2. CASE minuteBucket = Now
        <3>1. alertCounts' = alertCounts /\ CountsFor(minute) = alertCounts
            BY <1>1, <1>11, <2>2 DEF CountsFor
        <3>2. (minuteBucket = Now) = TRUE
            BY <2>2
        <3>3. MinuteBudget(alertCounts[Now], posted[Now], Past, Cardinality(Posting), TRUE)
            BY <3>2 DEF WebhookInv
        <3>4. MinuteBudget(alertCounts[Now], posted[Now], Past, Cardinality(Posting'), TRUE)
            <4>1. CASE Cardinality(Posting') = Cardinality(Posting)
                BY <3>3, <4>1
            <4>2. CASE allow
                <5>1. alertCounts[Now] < WebhookMax
                    BY <1>11, <3>1, <4>2 DEF allow
                <5>2. Cardinality(Posting') \in Nat /\ Cardinality(Posting') <= Past + 1
                    BY <1>9, <2>1
                <5> QED  BY <3>3, <5>1, <5>2, WebhookFacts, BudgetKeeps
            <4> QED  BY <1>9, <4>1, <4>2
        <3> QED  BY <1>1, <1>7, <1>9, <2>1, <3>1, <3>4, WithinMinute
    <2>3. CASE minuteBucket # Now
        <3>1. alertCounts'[Now] = 0
            BY <1>1, <1>11, <2>3, WebhookFacts DEF CountsFor
        <3>2. (minuteBucket = Now) = FALSE
            BY <2>3
        <3>3. MinuteBudget(alertCounts[Now], posted[Now], Past, Cardinality(Posting), FALSE)
            BY <3>2 DEF WebhookInv
        <3>4. Cardinality(Posting') \in Nat /\ Cardinality(Posting') <= Past + 1
            BY <1>9, <2>1
        <3>5. MinuteBudget(0, posted[Now], Past, Cardinality(Posting'), TRUE)
            BY <2>1, <3>3, <3>4, WebhookFacts, BudgetKeeps
        <3> QED  BY <1>1, <1>7, <1>9, <2>1, <3>1, <3>5, WithinMinute
    <2> QED  BY <2>2, <2>3
<1> QED  BY <1>10, <1>11

LEMMA ClockKeeps ==
    ASSUME WebhookInv, ClockTick
    PROVE  WebhookInv'
<1>1. /\ clock' = clock + 1 /\ clock < LastTick /\ clock \in Nat
      /\ clock' \in 0 .. LastTick /\ clock' \in Nat
      /\ UNCHANGED <<minuteBucket, alertCounts, sending, posted>>
    BY WebhookConstants DEF ClockTick, WebhookInv, SendersOK
<1>2. Now' \in Nat /\ Now <= Now' /\ Now \in Nat /\ Now' \in Minutes
    BY <1>1, Minutely DEF Now
<1>3. SendersOK'
    <2>1. \A u \in WebhookThreads : sending[u].time <= clock + 1
        BY <1>1, SenderFacts DEF WebhookInv
    <2>2. minuteBucket \in Nat /\ minuteBucket <= Now'
        BY <1>2 DEF WebhookInv, SendersOK
    <2> QED  BY <1>1, <2>1, <2>2 DEF WebhookInv, SendersOK
<1>4. Posting' = Posting
    BY <1>1 DEF Posting
<1>5. CASE Now' = Now
    <2>1. Late' = Late
        BY <1>1, <1>5 DEF Late
    <2>2. Past' = Past
        BY <2>1 DEF Past
    <2> QED  BY <1>1, <1>3, <1>4, <1>5, <2>2 DEF WebhookInv, WebhookBounded
<1>6. CASE Now' # Now
    <2>1. /\ Now' > Now /\ posted[Now'] = 0 /\ (minuteBucket' = Now') = FALSE
          /\ \A m \in Minutes : m > Now' => posted[m] = 0
        BY <1>1, <1>2, <1>6 DEF WebhookInv, SendersOK, Minutes
    <2>2. Late' \in SUBSET WebhookThreads /\ Late' \cap Posting = {}
        BY <1>1 DEF Late, Posting
    <2>3. /\ Cardinality(Late') + Cardinality(Posting) <= Cardinality(WebhookThreads)
          /\ Cardinality(Late') \in Nat /\ Cardinality(Posting) \in Nat
        BY <2>2, Disjoint, WebhookFacts
    <2>4. Past' \in Int /\ Past' >= -1 /\ Cardinality(Posting) <= Past' + 1
        BY <2>3, WebhookConstants DEF Past
    <2>5. Past' + 1 <= Spent(Past')
        <3>1. CASE Past' \in Nat
            BY <3>1, SpentGrows
        <3>2. CASE Past' = -1
            BY <3>2, SpentGrows
        <3> QED  BY <2>4, <3>1, <3>2
    <2>6. Spent(Past') \in Nat
        BY <2>4, SpentGrows
    <2>7. MinuteBudget(alertCounts'[Now'], 0, Past', Cardinality(Posting), FALSE)
        BY <2>3, <2>4, <2>5, <2>6 DEF MinuteBudget
    <2> QED  BY <1>1, <1>3, <1>4, <2>1, <2>7 DEF WebhookInv, WebhookBounded
<1> QED  BY <1>5, <1>6

LEMMA WebhookStarts == WebhookInit => WebhookInv
<1> SUFFICES ASSUME WebhookInit PROVE WebhookInv
    OBVIOUS
<1>1. 0 \in 0 .. LastTick /\ Minute(0) = 0 /\ Now = 0 /\ 0 \in Minutes
    <2>1. Minute(0) \in Minutes
        BY WebhookConstants, Minutely
    <2>2. Minute(0) = 0
        BY WebhookConstants DEF Minute
    <2> QED  BY <2>1, <2>2, WebhookConstants DEF WebhookInit, Now
<1>2. SendersOK
    <2>1. Idle \in Senders /\ Idle.time = 0
        BY DEF Senders, Idle
    <2> QED  BY <1>1, <2>1 DEF WebhookInit, SendersOK
<1>3. Late = {} /\ Posting = {}
    BY DEF WebhookInit, Late, Posting, Idle
<1>4. /\ Past = Cardinality(WebhookThreads) - 1 /\ Past \in Nat
      /\ Cardinality(Posting) = 0
    <2>1. Cardinality({}) = 0
        BY FS_EmptySet
    <2> QED  BY <1>3, <2>1, WebhookConstants DEF Past
<1>5. \A m \in Minutes : posted[m] = 0
    BY DEF WebhookInit
<1>6. MinuteBudget(alertCounts[Now], posted[Now], Past, Cardinality(Posting),
                   minuteBucket = Now)
    <2>1. alertCounts[Now] = 0 /\ posted[Now] = 0 /\ (minuteBucket = Now) = TRUE
        BY <1>1, <1>5 DEF WebhookInit
    <2>2. Spent(Past) \in Nat
        BY <1>4, SpentGrows
    <2>3. MinuteBudget(0, 0, Past, 0, TRUE)
        BY <1>4, <2>2, WebhookConstants DEF MinuteBudget
    <2> QED  BY <1>4, <2>1, <2>3
<1>7. WebhookBounded
    <2>1. /\ Cardinality(WebhookThreads) * WebhookMax \in Nat
          /\ Cardinality(WebhookThreads) * (Cardinality(WebhookThreads) + 1) \in Nat
        BY WebhookConstants
    <2>2. \A x \in Nat : x \div 2 \in Nat
        OBVIOUS
    <2>3. Cardinality(WebhookThreads) * WebhookMax
          + (Cardinality(WebhookThreads) * (Cardinality(WebhookThreads) + 1)) \div 2 \in Nat
        BY <2>1, <2>2
    <2> QED  BY <1>5, <2>3 DEF WebhookBounded
<1> QED  BY <1>2, <1>5, <1>6, <1>7 DEF WebhookInv

\* Threads that decide on a clock read before the minute turned reset its counts, each
\* once; so the alerts of a minute stay within what each of them can spend
\* (should_send_alert, record_alert).
THEOREM MinutesAreBounded == WebhookSpec => []WebhookBounded
<1>1. WebhookInit => WebhookInv
    BY WebhookStarts
<1>2. WebhookInv /\ [WebhookNext]_webhookVars => WebhookInv'
    <2> SUFFICES ASSUME WebhookInv, [WebhookNext]_webhookVars PROVE WebhookInv'
        OBVIOUS
    <2>1. ASSUME NEW t \in WebhookThreads, NEW key \in AlertKeys[t], ReadClock(t, key)
          PROVE  WebhookInv'
        BY <2>1, ReadKeeps
    <2>2. ASSUME NEW t \in WebhookThreads, Decide(t) PROVE WebhookInv'
        BY <2>2, DecideKeeps
    <2>3. ASSUME NEW t \in WebhookThreads, PostSucceeds(t) \/ PostFails(t) PROVE WebhookInv'
        BY <2>3, PostKeeps
    <2>4. CASE ClockTick
        BY <2>4, ClockKeeps
    <2>5. CASE UNCHANGED webhookVars
        BY <2>5 DEF webhookVars, WebhookInv, SendersOK, WebhookBounded, Past, Late, Posting, Now
    <2> QED  BY <2>1, <2>2, <2>3, <2>4, <2>5 DEF WebhookNext
<1>3. WebhookInv => WebhookBounded
    BY DEF WebhookInv
<1> QED  BY <1>1, <1>2, <1>3, PTL DEF WebhookSpec

-----------------------------------------------------------------------------
(* The rate tracker *)

\* An alert that still cools down is remembered with its age, and whatever is
\* remembered as recent was an alert.
Coupled ==
    \A r \in Reports :
        recentAlerts[r] < Cooldown \/ alertAge[r] < Cooldown => recentAlerts[r] = alertAge[r]

TrackerInv ==
    /\ counter \in [Kinds \X Spellings -> Seq(Nat)]
    /\ recentAlerts \in [Reports -> Nat] /\ alertAge \in [Reports -> Nat]
    /\ Coupled
    /\ SpikeReported

\* Two reports of one kind about one person are a cooldown apart.
ApartBy ==
    \A r \in Reports : alertAge'[r] = 0 /\ alertAge[r] # 0 => alertAge[r] >= Cooldown

LEMMA TrackerNumbers ==
    /\ RateSpan \in Nat \ {0} /\ Cooldown \in Nat \ {0}
    /\ Forgotten \in Nat /\ Forgotten > Cooldown
    /\ SpikeAt \in [Kinds -> Nat \ {0}] /\ Person \in [Spellings -> Persons]
    /\ \A k \in Kinds, s \in Spellings : <<k, Person[s]>> \in Reports
BY TrackerAssumption DEF Forgotten, Reports

\* Time passes: the newest event of a counter stays the newest as long as any is left.
LEMMA TickKeepsTracker ==
    ASSUME TrackerInv, TrackerTick
    PROVE  TrackerInv' /\ ApartBy
<1>1. PICK gone \in [Kinds \X Spellings -> 0 .. MaxPerWindow] :
          /\ \A ks \in Kinds \X Spellings : Leave(gone[ks], counter[ks], RateSpan - 1)
          /\ counter' = [ks \in Kinds \X Spellings |-> Aged(counter[ks], gone[ks])]
    BY DEF TrackerTick
<1>2. \A ks \in Kinds \X Spellings :
          /\ counter[ks] \in Seq(Nat) /\ gone[ks] \in 0 .. Len(counter[ks])
          /\ counter'[ks] = Aged(counter[ks], gone[ks])
    BY <1>1 DEF TrackerInv, Leave
<1>3. \A ks \in Kinds \X Spellings :
          /\ counter'[ks] \in Seq(Nat)
          /\ Len(counter'[ks]) = Len(counter[ks]) - gone[ks]
          /\ \A i \in 1 .. Len(counter[ks]) - gone[ks] :
                counter'[ks][i] = counter[ks][i + gone[ks]] + 1
    <2> SUFFICES ASSUME NEW ks \in Kinds \X Spellings
                 PROVE  /\ counter'[ks] \in Seq(Nat)
                        /\ Len(counter'[ks]) = Len(counter[ks]) - gone[ks]
                        /\ \A i \in 1 .. Len(counter[ks]) - gone[ks] :
                              counter'[ks][i] = counter[ks][i + gone[ks]] + 1
        OBVIOUS
    <2> DEFINE ages == counter[ks]
               left == counter'[ks]
               n == gone[ks]
    <2>1. ages \in Seq(Nat) /\ n \in 0 .. Len(ages) /\ left = Aged(ages, n)
        BY <1>2
    <2> HIDE DEF ages, left, n
    <2>2. /\ left \in Seq(Nat) /\ Len(left) = Len(ages) - n
          /\ \A i \in 1 .. Len(ages) - n : left[i] = ages[i + n] + 1
        BY <2>1, AgeingAddsNone
    <2> QED  BY <2>2 DEF ages, left, n
<1>4. counter' \in [Kinds \X Spellings -> Seq(Nat)]
    BY <1>1, <1>3
<1>5. \A r \in Reports :
          /\ recentAlerts'[r] = AgedUpTo(recentAlerts[r], Forgotten)
          /\ alertAge'[r] = AgedUpTo(alertAge[r], RateSpan + Cooldown)
    BY DEF TrackerTick
<1>6. \A r \in Reports :
          /\ recentAlerts'[r] \in Nat
          /\ alertAge'[r] \in Nat \ {0} /\ alertAge'[r] <= alertAge[r] + 1
    BY <1>5, TrackerNumbers DEF TrackerInv, AgedUpTo
<1>7. recentAlerts' \in [Reports -> Nat] /\ alertAge' \in [Reports -> Nat]
    BY <1>6 DEF TrackerTick
<1>8. Coupled'
    <2> SUFFICES ASSUME NEW r \in Reports,
                        recentAlerts'[r] < Cooldown \/ alertAge'[r] < Cooldown
                 PROVE  recentAlerts'[r] = alertAge'[r]
        BY DEF Coupled
    <2> DEFINE recent == recentAlerts[r]
               age    == alertAge[r]
    <2>1. /\ recent \in Nat /\ age \in Nat
          /\ recent < Cooldown \/ age < Cooldown => recent = age
        BY DEF TrackerInv, Coupled
    <2>2. /\ recentAlerts'[r] = IF recent < Forgotten THEN recent + 1 ELSE Forgotten
          /\ alertAge'[r] = IF age < RateSpan + Cooldown THEN age + 1 ELSE RateSpan + Cooldown
        BY <1>5 DEF AgedUpTo
    <2> HIDE DEF recent, age
    <2> QED  BY <2>1, <2>2, TrackerNumbers
<1>9. SpikeReported'
    <2> SUFFICES ASSUME NEW k \in Kinds, NEW s \in Spellings,
                        Len(counter'[<<k, s>>]) >= SpikeAt[k]
                 PROVE  alertAge'[<<k, Person[s]>>]
                          < counter'[<<k, s>>][Len(counter'[<<k, s>>])] + Cooldown
        BY DEF SpikeReported
    <2> DEFINE ages == counter[<<k, s>>]
               n    == gone[<<k, s>>]
               age  == alertAge[<<k, Person[s]>>]
    <2>1. <<k, s>> \in Kinds \X Spellings
        OBVIOUS
    <2>2. ages \in Seq(Nat) /\ Len(ages) \in Nat /\ n \in 0 .. Len(ages)
        BY <1>2, <2>1
    <2>3. Len(counter'[<<k, s>>]) = Len(ages) - n
        BY <1>3, <2>1
    <2>4. SpikeAt[k] \in Nat \ {0}
        BY TrackerNumbers
    <2>5. Len(ages) >= SpikeAt[k] /\ Len(ages) - n \in 1 .. Len(ages) - n
        BY <2>2, <2>3, <2>4
    <2>6. age < ages[Len(ages)] + Cooldown
        BY <2>5 DEF TrackerInv, SpikeReported
    <2>7. counter'[<<k, s>>][Len(ages) - n] = ages[(Len(ages) - n) + n] + 1
        BY <1>3, <2>1, <2>5
    <2>8. (Len(ages) - n) + n = Len(ages) /\ ages[Len(ages)] \in Nat
        <3>1. Len(ages) \in 1 .. Len(ages)
            BY <2>2, <2>4, <2>5
        <3>2. ages[Len(ages)] \in Nat
            BY <2>2, <3>1
        <3>3. Len(ages) \in Nat /\ n \in Nat
            BY <2>2
        <3> HIDE DEF ages, n
        <3> QED  BY <3>2, <3>3
    <2>9. /\ age \in Nat
          /\ alertAge'[<<k, Person[s]>>] \in Nat /\ alertAge'[<<k, Person[s]>>] <= age + 1
        BY <1>6, TrackerNumbers DEF TrackerInv
    <2> HIDE DEF ages, n, age
    <2> QED  BY <2>3, <2>6, <2>7, <2>8, <2>9, TrackerNumbers
<1> QED  BY <1>4, <1>6, <1>7, <1>8, <1>9 DEF TrackerInv, ApartBy

\* An event: a counter that reaches its threshold with it is reported now, or its
\* report cools down.
LEMMA EventKeepsTracker ==
    ASSUME TrackerInv, NEW s \in Spellings, NEW ip \in Addresses, NEW kinds \in SUBSET Kinds,
           TrackEvent(s, ip, kinds)
    PROVE  TrackerInv' /\ ApartBy
<1> DEFINE found   == Anomalies(s, ip, kinds) \X {Person[s]}
           silent  == {r \in found : CoolingDown(r)}
           emitted == found \ silent
<1>1. /\ counter' = AddEvent(s, kinds)
      /\ recentAlerts' = Swept([r \in Reports |-> IF r \in emitted THEN 0 ELSE recentAlerts[r]])
      /\ alertAge' = [r \in Reports |-> IF r \in emitted THEN 0 ELSE alertAge[r]]
    BY DEF TrackEvent
<1>2. \A r \in emitted : recentAlerts[r] >= Cooldown \/ r \notin Reports
    BY TrackerNumbers DEF CoolingDown, TrackerInv
<1>3. \A k \in kinds :
          Len(counter[<<k, s>>]) + 1 >= SpikeAt[k] =>
            <<k, Person[s]>> \in emitted \/ recentAlerts[<<k, Person[s]>>] < Cooldown
    BY DEF Anomalies, CoolingDown
<1> HIDE DEF found, silent, emitted
<1>4. \A r \in Reports :
          /\ alertAge'[r] = IF r \in emitted THEN 0 ELSE alertAge[r]
          /\ recentAlerts'[r] = IF r \in emitted THEN 0
                                ELSE IF recentAlerts[r] < Forgotten THEN recentAlerts[r]
                                ELSE Forgotten
    BY <1>1, TrackerNumbers DEF Swept
<1>5. recentAlerts' \in [Reports -> Nat] /\ alertAge' \in [Reports -> Nat]
    <2>1. \A r \in Reports : recentAlerts'[r] \in Nat /\ alertAge'[r] \in Nat
        BY <1>4, TrackerNumbers DEF TrackerInv
    <2> QED  BY <1>1, <2>1 DEF Swept
<1>6. Coupled'
    BY <1>4, TrackerNumbers DEF TrackerInv, Coupled
<1>7. \A ks \in Kinds \X Spellings :
          counter'[ks] = IF ks[1] \in kinds /\ ks[2] = s THEN Append(counter[ks], 0)
                         ELSE counter[ks]
    BY <1>1 DEF AddEvent, TrackerInv
<1>8. counter' \in [Kinds \X Spellings -> Seq(Nat)]
    <2>1. ASSUME NEW ks \in Kinds \X Spellings
          PROVE  counter'[ks] \in Seq(Nat)
        <3>1. counter[ks] \in Seq(Nat)
            BY DEF TrackerInv
        <3>2. Append(counter[ks], 0) \in Seq(Nat)
            BY <3>1
        <3> QED  BY <1>7, <3>1, <3>2
    <2> QED  BY <1>1, <2>1 DEF AddEvent, TrackerInv
<1>9. SpikeReported'
    <2> SUFFICES ASSUME NEW k \in Kinds, NEW t \in Spellings,
                        Len(counter'[<<k, t>>]) >= SpikeAt[k]
                 PROVE  alertAge'[<<k, Person[t]>>]
                          < counter'[<<k, t>>][Len(counter'[<<k, t>>])] + Cooldown
        BY DEF SpikeReported
    <2> DEFINE r == <<k, Person[t]>>
    <2>1. <<k, t>> \in Kinds \X Spellings /\ r \in Reports
        BY TrackerNumbers
    <2>2. /\ counter[<<k, t>>] \in Seq(Nat) /\ Len(counter[<<k, t>>]) \in Nat
          /\ alertAge[r] \in Nat /\ recentAlerts[r] \in Nat
        BY <2>1 DEF TrackerInv
    <2>3. SpikeAt[k] \in Nat \ {0} /\ Cooldown \in Nat \ {0}
        BY TrackerNumbers
    <2>4. CASE k \in kinds /\ t = s
        <3>1. counter'[<<k, t>>] = Append(counter[<<k, t>>], 0)
            BY <1>7, <2>1, <2>4
        <3>2. Len(counter'[<<k, t>>]) = Len(counter[<<k, t>>]) + 1
            BY <2>2, <3>1
        <3>3. counter'[<<k, t>>][Len(counter'[<<k, t>>])] = 0
            BY <2>2, <3>1, <3>2
        <3>4. r \in emitted \/ recentAlerts[r] < Cooldown
            BY <1>3, <2>4, <3>2
        <3>5. alertAge'[r] < Cooldown
            BY <1>4, <2>1, <2>2, <2>3, <3>4 DEF TrackerInv, Coupled
        <3> QED  BY <3>3, <3>5, <2>3
    <2>5. CASE ~ (k \in kinds /\ t = s)
        <3>1. counter'[<<k, t>>] = counter[<<k, t>>]
            BY <1>7, <2>1, <2>5
        <3>2. alertAge[r] < counter[<<k, t>>][Len(counter[<<k, t>>])] + Cooldown
            BY <3>1 DEF TrackerInv, SpikeReported
        <3>3. counter[<<k, t>>][Len(counter[<<k, t>>])] \in Nat
            BY <2>2, <2>3, <3>1
        <3>4. alertAge'[r] = alertAge[r] \/ alertAge'[r] = 0
            BY <1>4, <2>1
        <3> HIDE DEF r
        <3> QED  BY <2>2, <2>3, <3>1, <3>2, <3>3, <3>4 DEF r
    <2> QED  BY <2>4, <2>5
<1>10. ApartBy
    <2> SUFFICES ASSUME NEW r \in Reports, alertAge'[r] = 0, alertAge[r] # 0
                 PROVE  alertAge[r] >= Cooldown
        BY DEF ApartBy
    <2>1. recentAlerts[r] \in Nat /\ alertAge[r] \in Nat
        BY DEF TrackerInv
    <2>2. alertAge[r] < Cooldown => recentAlerts[r] = alertAge[r]
        BY DEF TrackerInv, Coupled
    <2>3. r \in emitted
        BY <1>4
    <2>4. recentAlerts[r] >= Cooldown
        BY <1>2, <2>3
    <2> QED  BY <2>1, <2>2, <2>4, TrackerNumbers
<1> QED  BY <1>5, <1>6, <1>8, <1>9, <1>10 DEF TrackerInv

LEMMA TrackerStep ==
    /\ TrackerInv /\ [TrackerNext]_trackerVars => TrackerInv'
    /\ TrackerInv /\ TrackerNext => ApartBy
<1>1. ASSUME TrackerInv, FlushSummary
      PROVE  TrackerInv' /\ ApartBy
    BY <1>1 DEF FlushSummary, TrackerInv, Coupled, SpikeReported, ApartBy
<1>2. ASSUME TrackerInv, UNCHANGED trackerVars
      PROVE  TrackerInv'
    BY <1>2 DEF trackerVars, TrackerInv, Coupled, SpikeReported
<1> QED  BY <1>1, <1>2, TickKeepsTracker, EventKeepsTracker DEF TrackerNext

(***************************************************************************)
(* A counter at its threshold has been reported within the cooldown before *)
(* its newest event, and no report about a person follows another of its   *)
(* kind within the cooldown: for any thresholds, windows and spellings.    *)
(***************************************************************************)
THEOREM SpikesAreReported == TrackerSpec => SpikeReportedOnce
<1>1. TrackerInit => TrackerInv
    <2> SUFFICES ASSUME TrackerInit PROVE TrackerInv
        OBVIOUS
    <2>1. \A ks \in Kinds \X Spellings : counter[ks] = <<>>
        BY DEF TrackerInit
    <2>2. counter \in [Kinds \X Spellings -> Seq(Nat)]
        BY DEF TrackerInit
    <2>3. SpikeReported
        <3> SUFFICES ASSUME NEW k \in Kinds, NEW s \in Spellings
                     PROVE  ~ (Len(counter[<<k, s>>]) >= SpikeAt[k])
            BY DEF SpikeReported
        <3>1. Len(counter[<<k, s>>]) = 0
            BY <2>1
        <3> QED  BY <3>1, TrackerNumbers
    <2> QED  BY <2>2, <2>3, TrackerNumbers DEF TrackerInit, TrackerInv, Coupled
<1>2. TrackerInv => SpikeReported
    BY DEF TrackerInv
<1>3. TrackerInv /\ TrackerInv' /\ [TrackerNext]_trackerVars
        => [SpikeReported' /\ ApartBy]_trackerVars
    BY TrackerStep, <1>2 DEF TrackerInv
<1> QED  BY <1>1, <1>3, TrackerStep, PTL DEF TrackerSpec, SpikeReportedOnce, ApartBy

-----------------------------------------------------------------------------
(* The denial aggregator.  The invariant has four parts: every denial is    *)
(* somewhere, nowhere twice, an alert on its way has told whom its place    *)
(* says, and a shutdown that waited for the timer leaves nothing behind.    *)

\* Every denial is in a bucket, in an alert of a flusher, in a finished alert or lost.
Placed ==
    \A n \in 1 .. denials :
        \/ \E k \in BucketKeys : n \in buckets[k]
        \/ \E f \in Flushers : \E a \in flushing[f] : n \in a
        \/ \E a \in reported : n \in a
        \/ n \in lostAtExit

\* Only denials that were added are anywhere.
Ranged ==
    /\ \A k \in BucketKeys : buckets[k] \subseteq 1 .. denials
    /\ \A f \in Flushers : \A a \in flushing[f] : a # {} /\ a \subseteq 1 .. denials
    /\ \A a \in reported : a \subseteq 1 .. denials
    /\ lostAtExit \subseteq 1 .. denials

\* No denial is in two places.
BucketsApart ==
    \A k \in BucketKeys : \A n \in buckets[k] :
        /\ \A l \in BucketKeys : n \in buckets[l] => k = l
        /\ \A f \in Flushers : \A a \in flushing[f] : n \notin a
        /\ \A a \in reported : n \notin a
        /\ n \notin lostAtExit
FlushesApart ==
    \A f \in Flushers : \A a \in flushing[f] : \A n \in a :
        /\ \A g \in Flushers : \A b \in flushing[g] : n \in b => f = g /\ a = b
        /\ \A b \in reported : n \notin b
        /\ n \notin lostAtExit
ReportsApart ==
    \A a \in reported : \A n \in a :
        /\ \A b \in reported : n \in b => a = b
        /\ n \notin lostAtExit
Apart == BucketsApart /\ FlushesApart /\ ReportsApart

\* Where a flusher is in an alert says what has been produced of it.
Told ==
    /\ alerts \subseteq signals
    /\ \A a \in alerts : IsHigh(a)
    /\ \A a \in reported : a \in signals \cup undelivered
    /\ \A a \in reported : a \notin troubled /\ IsHigh(a) => a \in alerts
    /\ \A f \in Flushers : current[f] # {} =>
          /\ current[f] \in flushing[f]
          /\ place[f] \in {"alerts", "webhook"} => current[f] \in signals /\ IsHigh(current[f])
          /\ place[f] = "webhook" => current[f] \in alerts
          /\ place[f] = "retry" => current[f] \in troubled

\* The timer takes nothing once the shutdown has begun, the main thread only in it.
Closed ==
    /\ early \in 0 .. denials
    /\ closing # "exited" => lostAtExit = {}
    /\ closing # "producing" => flushing["main"] = {}
    /\ closing \notin {"no", "joining"} /\ ~expired => flushing["timer"] = {}
    /\ closing \in {"producing", "done", "exited"} /\ ~expired =>
          \A n \in 1 .. early : \/ \E a \in flushing["main"] : n \in a
                                \/ \E a \in reported : n \in a

AggregatorInv == AggregatorTypeOK /\ Placed /\ Ranged /\ Apart /\ Told /\ Closed

-----------------------------------------------------------------------------
(* Types *)

LEMMA AggregatorTypes ==
    ASSUME AggregatorTypeOK, [AggregatorNext]_aggregatorVars
    PROVE  AggregatorTypeOK'
<1> USE DEF AggregatorTypeOK
<1>a. HighThreshold \in Nat \ {0} /\ MaxDenials \in Nat /\ ProduceFaults \in Nat
    BY AggregatorAssumption
<1>b. ASSUME NEW f \in Flushers, NEW alert \in AlertSets,
             NEW p \in {"alerts", "webhook", "retry"},
             GoOn(f, alert, p)
      PROVE  /\ flushing' \in [Flushers -> SUBSET AlertSets]
             /\ current' \in [Flushers -> AlertSets]
             /\ place' \in [Flushers -> {"signals", "alerts", "webhook", "retry"}]
             /\ reported' \subseteq AlertSets
    BY <1>b DEF GoOn
<1>c. ASSUME NEW f \in Flushers, NEW alert \in AlertSets, Done(f, alert)
      PROVE  /\ flushing' \in [Flushers -> SUBSET AlertSets]
             /\ current' \in [Flushers -> AlertSets]
             /\ place' \in [Flushers -> {"signals", "alerts", "webhook", "retry"}]
             /\ reported' \subseteq AlertSets
    <2>1. {} \in AlertSets
        BY DEF AlertSets
    <2> QED  BY <1>c, <2>1 DEF Done
<1>d. ASSUME NEW f \in Flushers, Take(f)
      PROVE  /\ flushing' \in [Flushers -> SUBSET AlertSets]
             /\ buckets' \in [BucketKeys -> AlertSets]
    <2>1. {buckets[k] : k \in BucketKeys} \ {{}} \in SUBSET AlertSets
        OBVIOUS
    <2>2. {} \in AlertSets
        BY DEF AlertSets
    <2> QED  BY <1>d, <2>1, <2>2 DEF Take
<1>1. ASSUME NEW k \in BucketKeys, AddDenial(k) PROVE AggregatorTypeOK'
    <2>1. denials' \in 0 .. MaxDenials /\ denials + 1 \in 1 .. MaxDenials
        BY <1>1, <1>a DEF AddDenial
    <2>2. buckets[k] \cup {denials + 1} \in AlertSets
        BY <2>1 DEF AlertSets
    <2>3. buckets' \in [BucketKeys -> AlertSets]
        BY <1>1, <2>2 DEF AddDenial
    <2> QED  BY <1>1, <2>1, <2>3 DEF AddDenial, produceVars, closingVars
<1>2. ASSUME TimerFlush PROVE AggregatorTypeOK'
    <2>1. "timer" \in Flushers /\ Take("timer")
        BY <1>2 DEF TimerFlush, Flushers
    <2>2. UNCHANGED <<denials, current, place, produceVars, closingVars>>
        BY <1>2 DEF TimerFlush, Take
    <2> QED  BY <1>d, <2>1, <2>2 DEF produceVars, closingVars
<1>3. ASSUME NEW f \in Flushers, NEW alert \in flushing[f], ProduceSignal(f, alert)
      PROVE  AggregatorTypeOK'
    <2>1. alert \in AlertSets
        OBVIOUS
    <2>2. GoOn(f, alert, "alerts") \/ Done(f, alert)
        BY <1>3 DEF ProduceSignal
    <2>3. signals' \subseteq AlertSets
        BY <1>3, <2>1 DEF ProduceSignal
    <2>4. UNCHANGED <<denials, buckets, alerts, undelivered, troubled, produceFaults,
                      closingVars>>
        BY <1>3 DEF ProduceSignal
    <2> QED  BY <1>b, <1>c, <2>1, <2>2, <2>3, <2>4 DEF closingVars
<1>4. ASSUME NEW f \in Flushers, NEW alert \in flushing[f], BufferFull(f, alert)
      PROVE  AggregatorTypeOK'
    <2>1. alert \in AlertSets /\ GoOn(f, alert, "retry")
        BY <1>4 DEF BufferFull
    <2>2. troubled' \subseteq AlertSets /\ produceFaults' \in 0 .. ProduceFaults
        BY <1>4, <1>a, <2>1 DEF BufferFull
    <2>3. UNCHANGED <<denials, buckets, signals, alerts, undelivered, closingVars>>
        BY <1>4 DEF BufferFull
    <2> QED  BY <1>b, <2>1, <2>2, <2>3 DEF closingVars
<1>5. ASSUME NEW f \in Flushers, NEW alert \in flushing[f], ProduceRaises(f, alert)
      PROVE  AggregatorTypeOK'
    <2>1. alert \in AlertSets /\ Done(f, alert)
        BY <1>5 DEF ProduceRaises
    <2>2. /\ troubled' \subseteq AlertSets /\ undelivered' \subseteq AlertSets
          /\ produceFaults' \in 0 .. ProduceFaults
        BY <1>5, <1>a, <2>1 DEF ProduceRaises
    <2>3. UNCHANGED <<denials, buckets, signals, alerts, closingVars>>
        BY <1>5 DEF ProduceRaises
    <2> QED  BY <1>c, <2>1, <2>2, <2>3 DEF closingVars
<1>6. ASSUME NEW f \in Flushers, ProduceAlert(f) PROVE AggregatorTypeOK'
    <2>1. current[f] \in AlertSets /\ GoOn(f, current[f], "webhook")
        BY <1>6 DEF ProduceAlert
    <2>2. alerts' \subseteq AlertSets
        BY <1>6, <2>1 DEF ProduceAlert
    <2>3. UNCHANGED <<denials, buckets, signals, undelivered, troubled, produceFaults,
                      closingVars>>
        BY <1>6 DEF ProduceAlert
    <2> QED  BY <1>b, <2>1, <2>2, <2>3 DEF closingVars
<1>7. ASSUME NEW f \in Flushers, SendWebhook(f) \/ RetrySignal(f) PROVE AggregatorTypeOK'
    <2>1. current[f] \in AlertSets /\ Done(f, current[f])
        BY <1>7 DEF SendWebhook, RetrySignal
    <2>2. signals' \subseteq AlertSets
        BY <1>7, <2>1 DEF SendWebhook, RetrySignal
    <2>3. UNCHANGED <<denials, buckets, alerts, undelivered, troubled, produceFaults,
                      closingVars>>
        BY <1>7 DEF SendWebhook, RetrySignal
    <2> QED  BY <1>c, <2>1, <2>2, <2>3 DEF closingVars
<1>8. ASSUME BeginShutdown PROVE AggregatorTypeOK'
    BY <1>8 DEF BeginShutdown, produceVars
<1>9. ASSUME JoinTimer PROVE AggregatorTypeOK'
    <2>1. expired' \in BOOLEAN
        BY <1>9 DEF JoinTimer, Busy
    <2> QED  BY <1>9, <2>1 DEF JoinTimer, produceVars
<1>10. ASSUME FinalTake PROVE AggregatorTypeOK'
    <2>1. "main" \in Flushers /\ Take("main")
        BY <1>10 DEF FinalTake, Flushers
    <2>2. UNCHANGED <<denials, current, place, produceVars, expired, lostAtExit, early>>
        BY <1>10 DEF FinalTake, Take
    <2>3. closing' = "producing"
        BY <1>10 DEF FinalTake
    <2> QED  BY <1>d, <2>1, <2>2, <2>3 DEF produceVars
<1>11. ASSUME ShutdownReturns PROVE AggregatorTypeOK'
    BY <1>11 DEF ShutdownReturns, produceVars
<1>12. ASSUME ProcessExits PROVE AggregatorTypeOK'
    <2>1. "timer" \in Flushers /\ {} \in AlertSets
        BY DEF Flushers, AlertSets
    <2>2. flushing["timer"] \subseteq SUBSET (1 .. MaxDenials)
        BY <2>1 DEF AlertSets
    <2>3. lostAtExit' \in AlertSets
        BY <1>12, <2>2 DEF ProcessExits, AlertSets
    <2> QED  BY <1>12, <2>1, <2>3 DEF ProcessExits, produceVars
<1>13. ASSUME UNCHANGED aggregatorVars PROVE AggregatorTypeOK'
    BY <1>13 DEF aggregatorVars
<1> QED  BY <1>1, <1>2, <1>3, <1>4, <1>5, <1>6, <1>7, <1>8, <1>9, <1>10, <1>11, <1>12, <1>13
         DEF AggregatorNext, FlusherNext, ShutdownNext

-----------------------------------------------------------------------------
(* Where denials are *)

Accounted == Placed /\ Ranged /\ Apart

LEMMA StillAccounted ==
    ASSUME Accounted, UNCHANGED <<denials, buckets, flushing, reported, lostAtExit>>
    PROVE  Accounted'
BY DEF Accounted, Placed, Ranged, Apart, BucketsApart, FlushesApart, ReportsApart

\* The new denial is in its bucket, and was nowhere.
LEMMA AddAccounted ==
    ASSUME AggregatorTypeOK, Accounted, NEW k \in BucketKeys, AddDenial(k)
    PROVE  Accounted'
<1> DEFINE new == denials + 1
<1>t. /\ denials \in Nat /\ new \in Nat
      /\ 1 .. new = (1 .. denials) \cup {new} /\ new \notin 1 .. denials
    BY AggregatorAssumption DEF AggregatorTypeOK
<1>1. /\ denials' = new
      /\ UNCHANGED <<flushing, reported, lostAtExit>>
    BY DEF AddDenial, produceVars, closingVars
<1>2. \A l \in BucketKeys : buckets'[l] = IF l = k THEN buckets[l] \cup {new} ELSE buckets[l]
    BY DEF AddDenial, AggregatorTypeOK
<1>3. /\ \A l \in BucketKeys : new \notin buckets[l]
      /\ \A f \in Flushers : \A a \in flushing[f] : new \notin a
      /\ \A a \in reported : new \notin a
      /\ new \notin lostAtExit
    BY <1>t DEF Accounted, Ranged
<1> HIDE DEF new
<1>4. Placed'
    BY <1>t, <1>1, <1>2 DEF Accounted, Placed
<1>5. Ranged'
    BY <1>t, <1>1, <1>2 DEF Accounted, Ranged
<1>6. BucketsApart'
    <2> SUFFICES ASSUME NEW l \in BucketKeys, NEW n \in buckets'[l]
                 PROVE  /\ \A m \in BucketKeys : n \in buckets'[m] => l = m
                        /\ \A f \in Flushers : \A a \in flushing[f] : n \notin a
                        /\ \A a \in reported : n \notin a
                        /\ n \notin lostAtExit
        BY <1>1 DEF BucketsApart
    <2>1. CASE n = new
        BY <1>2, <1>3, <2>1
    <2>2. CASE n # new
        <3>1. ASSUME NEW m \in BucketKeys, n \in buckets'[m] PROVE n \in buckets[m]
            <4>1. buckets'[m] = buckets[m] \/ buckets'[m] = buckets[m] \cup {new}
                BY <1>2
            <4> QED  BY <2>2, <3>1, <4>1
        <3>2. BucketsApart
            BY DEF Accounted, Apart
        <3> QED  BY <3>1, <3>2 DEF BucketsApart
    <2> QED  BY <2>1, <2>2
<1>7. FlushesApart' /\ ReportsApart'
    BY <1>1 DEF Accounted, Apart, FlushesApart, ReportsApart
<1> QED  BY <1>4, <1>5, <1>6, <1>7 DEF Accounted, Apart

\* The buckets become alerts of one flusher, which had none.
LEMMA TakeAccounted ==
    ASSUME AggregatorTypeOK, Accounted, NEW f \in Flushers, Take(f),
           UNCHANGED <<lostAtExit>>
    PROVE  Accounted'
<1>1. /\ flushing[f] = {} /\ UNCHANGED <<denials, reported, lostAtExit>>
      /\ \A k \in BucketKeys : buckets'[k] = {}
    BY DEF Take, Busy, produceVars
<1>2. \A g \in Flushers : g # f => flushing'[g] = flushing[g]
    BY DEF Take, AggregatorTypeOK
<1>3. flushing'[f] = {buckets[k] : k \in BucketKeys} \ {{}}
    BY DEF Take, AggregatorTypeOK
<1>4. \A a \in flushing'[f] : a # {} /\ \E k \in BucketKeys : a = buckets[k]
    BY <1>3
<1>5. \A k \in BucketKeys : buckets[k] # {} => buckets[k] \in flushing'[f]
    BY <1>3
<1>6. Placed'
    BY <1>1, <1>2, <1>5 DEF Accounted, Placed
<1>7. Ranged'
    BY <1>1, <1>2, <1>4 DEF Accounted, Ranged
<1>8. BucketsApart'
    BY <1>1 DEF BucketsApart
<1>9. FlushesApart'
    <2> SUFFICES ASSUME NEW h \in Flushers, NEW a \in flushing'[h], NEW n \in a
                 PROVE  /\ \A g \in Flushers : \A b \in flushing'[g] : n \in b => h = g /\ a = b
                        /\ \A b \in reported : n \notin b
                        /\ n \notin lostAtExit
        BY <1>1 DEF FlushesApart
    <2>1. CASE h = f
        <3>1. PICK k \in BucketKeys : a = buckets[k]
            BY <1>4, <2>1
        <3>2. \A b \in flushing'[f] : n \in b => a = b
            BY <1>4, <3>1 DEF Accounted, Apart, BucketsApart
        <3>3. \A g \in Flushers : g # f => \A b \in flushing'[g] : n \notin b
            BY <1>2, <3>1 DEF Accounted, Apart, BucketsApart
        <3> QED  BY <2>1, <3>1, <3>2, <3>3 DEF Accounted, Apart, BucketsApart
    <2>2. CASE h # f
        <3>1. a \in flushing[h]
            BY <1>2, <2>2
        <3>2. \A b \in flushing'[f] : n \notin b
            BY <1>4, <3>1 DEF Accounted, Apart, BucketsApart
        <3> QED  BY <1>2, <2>2, <3>1, <3>2 DEF Accounted, Apart, FlushesApart
    <2> QED  BY <2>1, <2>2
<1>10. ReportsApart'
    BY <1>1 DEF Accounted, Apart, ReportsApart
<1> QED  BY <1>6, <1>7, <1>8, <1>9, <1>10 DEF Accounted, Apart

\* A finished alert goes from its flusher to the reported ones.
LEMMA DoneAccounted ==
    ASSUME AggregatorTypeOK, Accounted, NEW f \in Flushers, NEW alert \in flushing[f],
           Done(f, alert), UNCHANGED <<denials, buckets, lostAtExit>>
    PROVE  Accounted'
<1>1. /\ \A g \in Flushers : flushing'[g] = IF g = f THEN flushing[g] \ {alert} ELSE flushing[g]
      /\ reported' = reported \cup {alert}
    BY DEF Done, AggregatorTypeOK
<1>2. \A g \in Flushers : flushing'[g] \subseteq flushing[g]
    BY <1>1
<1>3. Placed'
    BY <1>1 DEF Accounted, Placed
<1>4. Ranged'
    BY <1>1 DEF Accounted, Ranged
<1>5. BucketsApart'
    BY <1>1, <1>2 DEF Accounted, Apart, BucketsApart
<1>6. \A g \in Flushers : \A a \in flushing'[g] : \A n \in a : n \notin alert
    <2> SUFFICES ASSUME NEW g \in Flushers, NEW a \in flushing'[g], NEW n \in a, n \in alert
                 PROVE  FALSE
        OBVIOUS
    <2>1. a \in flushing[g] /\ (g = f => a # alert)
        BY <1>1
    <2>2. g = f /\ a = alert
        BY <2>1 DEF Accounted, Apart, FlushesApart
    <2> QED  BY <2>1, <2>2
<1>7. FlushesApart'
    BY <1>1, <1>2, <1>6 DEF Accounted, Apart, FlushesApart
<1>8. ReportsApart'
    BY <1>1 DEF Accounted, Apart, FlushesApart, ReportsApart
<1> QED  BY <1>3, <1>4, <1>5, <1>7, <1>8 DEF Accounted, Apart

\* The timer's alerts are lost at exit.
LEMMA ExitAccounted ==
    ASSUME AggregatorTypeOK, Accounted, Closed, ProcessExits
    PROVE  Accounted'
<1>1. /\ "timer" \in Flushers
      /\ \A g \in Flushers : flushing'[g] = IF g = "timer" THEN {} ELSE flushing[g]
    BY DEF ProcessExits, AggregatorTypeOK, Flushers
<1>2. UNCHANGED <<denials, buckets, reported>> /\ lostAtExit = {}
    BY DEF ProcessExits, produceVars, Closed
<1>3. \A n : n \in lostAtExit' <=> \E a \in flushing["timer"] : n \in a
    BY DEF ProcessExits
<1>4. Placed'
    BY <1>1, <1>2, <1>3 DEF Accounted, Placed
<1>5. Ranged'
    BY <1>1, <1>2, <1>3 DEF Accounted, Ranged
<1>6. BucketsApart'
    BY <1>1, <1>2, <1>3 DEF Accounted, Apart, BucketsApart
<1>7. FlushesApart'
    BY <1>1, <1>2, <1>3 DEF Accounted, Apart, FlushesApart
<1>8. ReportsApart'
    BY <1>1, <1>2, <1>3 DEF Accounted, Apart, FlushesApart, ReportsApart
<1> QED  BY <1>4, <1>5, <1>6, <1>7, <1>8 DEF Accounted, Apart

-----------------------------------------------------------------------------
(* What has been told *)

LEMMA ToldStep ==
    ASSUME AggregatorTypeOK, Told, [AggregatorNext]_aggregatorVars
    PROVE  Told'
<1> USE DEF Told
\* A step of one flusher leaves the other alone.
<1>a. ASSUME NEW f \in Flushers, NEW alert, NEW p, GoOn(f, alert, p)
      PROVE  /\ UNCHANGED <<flushing, reported>>
             /\ current'[f] = alert /\ place'[f] = p
             /\ \A g \in Flushers : g # f => current'[g] = current[g] /\ place'[g] = place[g]
    BY <1>a DEF GoOn, AggregatorTypeOK
<1>b. ASSUME NEW f \in Flushers, NEW alert, Done(f, alert)
      PROVE  /\ reported' = reported \cup {alert}
             /\ current'[f] = {}
             /\ flushing'[f] = flushing[f] \ {alert}
             /\ \A g \in Flushers : g # f => /\ current'[g] = current[g]
                                             /\ place'[g] = place[g]
                                             /\ flushing'[g] = flushing[g]
    BY <1>b DEF Done, AggregatorTypeOK
<1>c. ASSUME NEW f \in Flushers, Take(f)
      PROVE  Told'
    <2>1. flushing[f] = {} /\ UNCHANGED <<current, place, signals, alerts, reported,
                                          undelivered, troubled>>
        BY <1>c DEF Take, Busy, produceVars
    <2>2. \A g \in Flushers : g # f => flushing'[g] = flushing[g]
        BY <1>c DEF Take, AggregatorTypeOK
    <2> QED  BY <2>1, <2>2 DEF IsHigh
<1>1. ASSUME NEW k \in BucketKeys, AddDenial(k) PROVE Told'
    BY <1>1 DEF AddDenial, produceVars, IsHigh
<1>2. ASSUME TimerFlush PROVE Told'
    BY <1>2, <1>c DEF TimerFlush, Flushers
<1>3. ASSUME NEW f \in Flushers, NEW alert \in flushing[f], ProduceSignal(f, alert)
      PROVE  Told'
    <2>1. /\ signals' = signals \cup {alert} /\ UNCHANGED <<alerts, undelivered,
                                                            troubled>>
        BY <1>3 DEF ProduceSignal
    <2>2. CASE IsHigh(alert)
        <3>1. GoOn(f, alert, "alerts")
            BY <1>3, <2>2 DEF ProduceSignal
        <3> QED  BY <1>a, <2>1, <2>2, <3>1 DEF IsHigh
    <2>3. CASE ~IsHigh(alert)
        <3>1. Done(f, alert) /\ current[f] = {}
            BY <1>3, <2>3 DEF ProduceSignal
        <3> QED  BY <1>b, <2>1, <2>3, <3>1 DEF IsHigh
    <2> QED  BY <2>2, <2>3
<1>4. ASSUME NEW f \in Flushers, NEW alert \in flushing[f], BufferFull(f, alert)
      PROVE  Told'
    <2>1. /\ troubled' = troubled \cup {alert} /\ UNCHANGED <<signals, alerts,
                                                              undelivered>>
          /\ GoOn(f, alert, "retry")
        BY <1>4 DEF BufferFull
    <2> QED  BY <1>a, <2>1 DEF IsHigh
<1>5. ASSUME NEW f \in Flushers, NEW alert \in flushing[f], ProduceRaises(f, alert)
      PROVE  Told'
    <2>1. /\ troubled' = troubled \cup {alert} /\ UNCHANGED <<signals, alerts>>
          /\ alert \in signals \/ undelivered' = undelivered \cup {alert}
          /\ undelivered \subseteq undelivered'
          /\ Done(f, alert)
        BY <1>5 DEF ProduceRaises
    <2> QED  BY <1>b, <2>1 DEF IsHigh
<1>6. ASSUME NEW f \in Flushers, ProduceAlert(f) PROVE Told'
    <2>1. /\ alerts' = alerts \cup {current[f]}
          /\ UNCHANGED <<signals, undelivered, troubled>>
          /\ GoOn(f, current[f], "webhook")
          /\ current[f] \in signals /\ IsHigh(current[f]) /\ current[f] \in flushing[f]
        BY <1>6 DEF ProduceAlert
    <2> QED  BY <1>a, <2>1 DEF IsHigh
<1>7. ASSUME NEW f \in Flushers, SendWebhook(f) PROVE Told'
    <2>1. /\ UNCHANGED <<signals, alerts, undelivered, troubled>>
          /\ Done(f, current[f])
          /\ current[f] \in signals /\ current[f] \in alerts
        BY <1>7 DEF SendWebhook
    <2> QED  BY <1>b, <2>1 DEF IsHigh
<1>8. ASSUME NEW f \in Flushers, RetrySignal(f) PROVE Told'
    <2>1. /\ UNCHANGED <<alerts, undelivered, troubled>>
          /\ signals' = signals \cup {current[f]}
          /\ Done(f, current[f]) /\ current[f] \in troubled
        BY <1>8 DEF RetrySignal
    <2> QED  BY <1>b, <2>1 DEF IsHigh
<1>9. ASSUME BeginShutdown \/ JoinTimer \/ ShutdownReturns PROVE Told'
    BY <1>9 DEF BeginShutdown, JoinTimer, ShutdownReturns, produceVars, IsHigh
<1>10. ASSUME FinalTake PROVE Told'
    BY <1>10, <1>c DEF FinalTake, Flushers
<1>11. ASSUME ProcessExits PROVE Told'
    <2>1. UNCHANGED <<signals, alerts, reported, undelivered, troubled, place>>
        BY <1>11 DEF ProcessExits, produceVars
    <2>2. \A g \in Flushers : g # "timer" => flushing'[g] = flushing[g] /\ current'[g] = current[g]
        BY <1>11 DEF ProcessExits, AggregatorTypeOK
    <2>3. "timer" \in Flushers /\ current'["timer"] = {}
        BY <1>11 DEF ProcessExits, AggregatorTypeOK, Flushers
    <2> QED  BY <2>1, <2>2, <2>3 DEF IsHigh
<1>12. ASSUME UNCHANGED aggregatorVars PROVE Told'
    BY <1>12 DEF aggregatorVars, IsHigh
<1> QED  BY <1>1, <1>2, <1>3, <1>4, <1>5, <1>6, <1>7, <1>8, <1>9, <1>10, <1>11, <1>12
         DEF AggregatorNext, FlusherNext, ShutdownNext

\* A step of a flusher counts and takes nothing; at most it finishes an alert.
LEMMA FlusherEffect ==
    ASSUME Told, NEW f \in Flushers, FlusherNext(f)
    PROVE  /\ UNCHANGED <<denials, buckets, closingVars>>
           /\ \/ UNCHANGED <<flushing, reported>>
              \/ \E alert \in flushing[f] : Done(f, alert)
<1>1. ASSUME NEW alert \in flushing[f], ProduceSignal(f, alert)
      PROVE  /\ UNCHANGED <<denials, buckets, closingVars>>
             /\ UNCHANGED <<flushing, reported>> \/ Done(f, alert)
    BY <1>1 DEF ProduceSignal, GoOn
<1>2. ASSUME NEW alert \in flushing[f], BufferFull(f, alert)
      PROVE  UNCHANGED <<denials, buckets, closingVars, flushing, reported>>
    BY <1>2 DEF BufferFull, GoOn
<1>3. ASSUME NEW alert \in flushing[f], ProduceRaises(f, alert)
      PROVE  UNCHANGED <<denials, buckets, closingVars>> /\ Done(f, alert)
    BY <1>3 DEF ProduceRaises
<1>4. ASSUME ProduceAlert(f)
      PROVE  UNCHANGED <<denials, buckets, closingVars, flushing, reported>>
    BY <1>4 DEF ProduceAlert, GoOn
<1>5. ASSUME SendWebhook(f) \/ RetrySignal(f)
      PROVE  /\ UNCHANGED <<denials, buckets, closingVars>>
             /\ current[f] \in flushing[f] /\ Done(f, current[f])
    BY <1>5 DEF SendWebhook, RetrySignal, Told
<1> QED  BY <1>1, <1>2, <1>3, <1>4, <1>5 DEF FlusherNext

-----------------------------------------------------------------------------
(* The shutdown *)

LEMMA ClosedStep ==
    ASSUME AggregatorTypeOK, Accounted, Told, Closed, [AggregatorNext]_aggregatorVars
    PROVE  Closed'
<1> USE DEF Closed
<1>t. denials \in Nat /\ early \in Nat
    BY AggregatorAssumption DEF AggregatorTypeOK
<1>1. ASSUME NEW k \in BucketKeys, AddDenial(k) PROVE Closed'
    BY <1>1, <1>t DEF AddDenial, produceVars, closingVars
<1>2. ASSUME TimerFlush PROVE Closed'
    <2>1. closing = "no" /\ UNCHANGED <<denials, reported, closingVars>>
        BY <1>2 DEF TimerFlush, Take, produceVars
    <2>2. flushing'["main"] = flushing["main"]
        BY <1>2 DEF TimerFlush, Take, AggregatorTypeOK, Flushers
    <2> QED  BY <2>1, <2>2 DEF closingVars
<1>3. ASSUME NEW f \in Flushers, FlusherNext(f) PROVE Closed'
    <2>1. UNCHANGED <<denials, buckets, closingVars>>
        BY <1>3, FlusherEffect
    <2>2. CASE UNCHANGED <<flushing, reported>>
        BY <2>1, <2>2 DEF closingVars
    <2>3. ASSUME NEW alert \in flushing[f], Done(f, alert) PROVE Closed'
        <3>1. /\ \A g \in Flushers :
                    flushing'[g] = IF g = f THEN flushing[g] \ {alert} ELSE flushing[g]
              /\ reported' = reported \cup {alert}
            BY <2>3 DEF Done, AggregatorTypeOK
        <3>2. "main" \in Flushers /\ "timer" \in Flushers
            BY DEF Flushers
        <3>3. /\ flushing'["main"] \subseteq flushing["main"]
              /\ flushing'["timer"] \subseteq flushing["timer"]
              /\ \A a \in flushing["main"] : a \in flushing'["main"] \/ a = alert
            BY <3>1, <3>2
        <3> QED  BY <2>1, <3>1, <3>3 DEF closingVars
    <2> QED  BY <1>3, <2>2, <2>3, FlusherEffect
<1>4. ASSUME BeginShutdown PROVE Closed'
    BY <1>4, <1>t DEF BeginShutdown, produceVars
<1>5. ASSUME JoinTimer PROVE Closed'
    BY <1>5 DEF JoinTimer, Busy, produceVars
<1>6. ASSUME FinalTake PROVE Closed'
    \* What was counted before the shutdown is in a bucket or reported.
    <2>1. /\ closing = "flushing" /\ closing' = "producing" /\ flushing["main"] = {}
          /\ UNCHANGED <<denials, reported, expired, lostAtExit, early>>
        BY <1>6 DEF FinalTake, Take, produceVars
    <2>2. /\ flushing'["timer"] = flushing["timer"]
          /\ flushing'["main"] = {buckets[k] : k \in BucketKeys} \ {{}}
        BY <1>6 DEF FinalTake, Take, AggregatorTypeOK, Flushers
    <2>3. ASSUME ~expired, NEW n \in 1 .. early
          PROVE  (\E a \in flushing'["main"] : n \in a) \/ \E a \in reported : n \in a
        <3>1. n \in 1 .. denials /\ n \notin lostAtExit
            BY <1>t, <2>1
        <3>2. \A f \in Flushers : flushing[f] = {}
            BY <2>1, <2>3 DEF Flushers
        <3>3. (\E k \in BucketKeys : n \in buckets[k]) \/ \E a \in reported : n \in a
            BY <3>1, <3>2 DEF Accounted, Placed
        <3>4. \A k \in BucketKeys : n \in buckets[k] => buckets[k] \in flushing'["main"]
            BY <2>2
        <3> QED  BY <3>3, <3>4
    <2> QED  BY <2>1, <2>2, <2>3
<1>7. ASSUME ShutdownReturns PROVE Closed'
    BY <1>7 DEF ShutdownReturns, Busy, produceVars
<1>8. ASSUME ProcessExits PROVE Closed'
    <2>1. flushing'["main"] = flushing["main"] /\ flushing'["timer"] = {}
        BY <1>8 DEF ProcessExits, AggregatorTypeOK, Flushers
    <2> QED  BY <1>8, <2>1 DEF ProcessExits, produceVars
<1>9. ASSUME UNCHANGED aggregatorVars PROVE Closed'
    BY <1>9 DEF aggregatorVars
<1> QED  BY <1>1, <1>2, <1>3, <1>4, <1>5, <1>6, <1>7, <1>8, <1>9 DEF AggregatorNext, ShutdownNext

-----------------------------------------------------------------------------
(* The theorem *)

LEMMA AccountedStep ==
    ASSUME AggregatorTypeOK, Accounted, Told, Closed, [AggregatorNext]_aggregatorVars
    PROVE  Accounted'
<1>1. ASSUME NEW k \in BucketKeys, AddDenial(k) PROVE Accounted'
    BY <1>1, AddAccounted
<1>2. ASSUME TimerFlush \/ FinalTake PROVE Accounted'
    <2>1. /\ UNCHANGED lostAtExit
          /\ \E f \in Flushers : Take(f)
        BY <1>2 DEF TimerFlush, FinalTake, Flushers, closingVars
    <2> QED  BY <2>1, TakeAccounted
<1>3. ASSUME NEW f \in Flushers, FlusherNext(f) PROVE Accounted'
    <2>1. UNCHANGED <<denials, buckets, lostAtExit>>
        BY <1>3, FlusherEffect DEF closingVars
    <2>2. UNCHANGED <<flushing, reported>> \/ \E alert \in flushing[f] : Done(f, alert)
        BY <1>3, FlusherEffect
    <2> QED  BY <2>1, <2>2, StillAccounted, DoneAccounted
<1>4. ASSUME BeginShutdown \/ JoinTimer \/ ShutdownReturns PROVE Accounted'
    <2>1. UNCHANGED <<denials, buckets, flushing, reported, lostAtExit>>
        BY <1>4 DEF BeginShutdown, JoinTimer, ShutdownReturns, produceVars
    <2> QED  BY <2>1, StillAccounted
<1>5. ASSUME ProcessExits PROVE Accounted'
    BY <1>5, ExitAccounted
<1>6. ASSUME UNCHANGED aggregatorVars PROVE Accounted'
    BY <1>6, StillAccounted DEF aggregatorVars
<1> QED  BY <1>1, <1>2, <1>3, <1>4, <1>5, <1>6 DEF AggregatorNext, ShutdownNext

\* Where one denial is, counted over the places there are.
LEMMA OneOrNone ==
    ASSUME NEW S, NEW T, S = {} \/ \E x : S = {x}, T = {} \/ \E x : T = {x}
    PROVE  /\ Cardinality(S) = IF S = {} THEN 0 ELSE 1
           /\ Cardinality(T) = IF T = {} THEN 0 ELSE 1
BY FS_EmptySet, FS_Singleton

LEMMA CountedOnce ==
    ASSUME AggregatorTypeOK, Accounted
    PROVE  DenialCountedOnce
<1> SUFFICES ASSUME NEW n \in 1 .. denials
             PROVE  Cardinality({k \in BucketKeys : n \in buckets[k]})
                    + Cardinality({f \in Flushers : n \in UNION flushing[f]})
                    + Cardinality({alert \in reported : n \in alert})
                    + Cardinality({n} \cap lostAtExit) = 1
    BY DEF DenialCountedOnce
<1> DEFINE B == {k \in BucketKeys : n \in buckets[k]}
           F == {f \in Flushers : n \in UNION flushing[f]}
           R == {alert \in reported : n \in alert}
           L == {n} \cap lostAtExit
<1>1. B = {} \/ \E x : B = {x}
    BY DEF Accounted, Apart, BucketsApart
<1>2. F = {} \/ \E x : F = {x}
    BY DEF Accounted, Apart, FlushesApart
<1>3. R = {} \/ \E x : R = {x}
    BY DEF Accounted, Apart, ReportsApart
<1>4. L = {} \/ \E x : L = {x}
    OBVIOUS
<1>5. B # {} => F = {} /\ R = {} /\ L = {}
    BY DEF Accounted, Apart, BucketsApart
<1>6. F # {} => R = {} /\ L = {}
    BY DEF Accounted, Apart, FlushesApart
<1>7. R # {} => L = {}
    BY DEF Accounted, Apart, ReportsApart
<1>8. B # {} \/ F # {} \/ R # {} \/ L # {}
    BY DEF Accounted, Placed
<1> HIDE DEF B, F, R, L
<1>9. /\ Cardinality(B) = IF B = {} THEN 0 ELSE 1
      /\ Cardinality(F) = IF F = {} THEN 0 ELSE 1
      /\ Cardinality(R) = IF R = {} THEN 0 ELSE 1
      /\ Cardinality(L) = IF L = {} THEN 0 ELSE 1
    BY <1>1, <1>2, <1>3, <1>4, OneOrNone
<1>10. Cardinality(B) + Cardinality(F) + Cardinality(R) + Cardinality(L) = 1
    BY <1>5, <1>6, <1>7, <1>8, <1>9
<1> QED  BY <1>10 DEF B, F, R, L

LEMMA InvImpliesAccounted == AggregatorInv => DenialsAccounted
<1> SUFFICES ASSUME AggregatorInv PROVE DenialsAccounted
    OBVIOUS
<1>1. DenialCountedOnce
    BY CountedOnce DEF AggregatorInv, Accounted
<1>2. HighOnBothTopics
    BY DEF AggregatorInv, Told, HighOnBothTopics
<1>3. ShutdownFlushesAll
    <2> SUFFICES ASSUME closing \in {"done", "exited"}, ~expired, NEW n \in 1 .. early
                 PROVE  n \in UNION reported
        BY DEF ShutdownFlushesAll
    <2> QED  BY DEF AggregatorInv, Closed
<1> QED  BY <1>1, <1>2, <1>3 DEF DenialsAccounted

LEMMA AggregatorStarts == AggregatorInit => AggregatorInv
<1> SUFFICES ASSUME AggregatorInit PROVE AggregatorInv
    OBVIOUS
<1> USE DEF AggregatorInit
<1>1. AggregatorTypeOK
    <2>1. {} \in AlertSets /\ 0 \in 0 .. MaxDenials /\ 0 \in 0 .. ProduceFaults
        BY AggregatorAssumption DEF AlertSets
    <2>2. /\ flushing \in [Flushers -> SUBSET AlertSets] /\ current \in [Flushers -> AlertSets]
          /\ place \in [Flushers -> {"signals", "alerts", "webhook", "retry"}]
          /\ buckets \in [BucketKeys -> AlertSets]
        BY <2>1
    <2> QED  BY <2>1, <2>2 DEF AggregatorTypeOK
<1>2. Placed /\ Ranged /\ Apart
    BY DEF Placed, Ranged, Apart, BucketsApart, FlushesApart, ReportsApart
<1>3. Told /\ Closed
    BY DEF Told, Closed, Flushers
<1> QED  BY <1>1, <1>2, <1>3 DEF AggregatorInv

\* No denial is lost, doubled or told to half of its readers, with two flushers at
\* work beside the processor, failing produces and a shutdown at any moment
\* (DenialsAccounted).
THEOREM DenialsAreAccounted == AggregatorSpec => []DenialsAccounted
<1>1. AggregatorInit => AggregatorInv
    BY AggregatorStarts
<1>2. AggregatorInv /\ [AggregatorNext]_aggregatorVars => AggregatorInv'
    <2> SUFFICES ASSUME AggregatorInv, [AggregatorNext]_aggregatorVars PROVE AggregatorInv'
        OBVIOUS
    <2>1. AggregatorTypeOK /\ Accounted /\ Told /\ Closed
        BY DEF AggregatorInv, Accounted
    <2>2. AggregatorTypeOK' /\ Accounted' /\ Told' /\ Closed'
        BY <2>1, AggregatorTypes, AccountedStep, ToldStep, ClosedStep
    <2> QED  BY <2>2 DEF AggregatorInv, Accounted
<1>3. AggregatorInv => DenialsAccounted
    BY InvImpliesAccounted
<1> QED  BY <1>1, <1>2, <1>3, PTL DEF AggregatorSpec

-----------------------------------------------------------------------------
(* The verdicts on an event *)

BelowIn == OpToRel(<, Nat)

LEMMA BelowIsLess == \A a, b \in Nat : <<a, b>> \in BelowIn <=> a < b
<1>1. BelowIn = {ab \in Nat \X Nat : ab[1] < ab[2]}
    BY DEF BelowIn, OpToRel
<1> QED  BY <1>1

\* What induction over numbers comes to: a set of them has a least one.
LEMMA LeastNumber ==
    ASSUME NEW T \in SUBSET Nat, T # {}
    PROVE  \E n \in T : \A m \in T : n <= m
<1>1. IsWellFoundedOn(BelowIn, Nat)
    BY NatLessThanWellFounded DEF BelowIn
<1>2. PICK n \in T : \A m \in T : ~ (<<m, n>> \in BelowIn)
    BY <1>1, WFMin
<1>3. \A m \in T : n <= m
    <2> SUFFICES ASSUME NEW m \in T PROVE n <= m
        OBVIOUS
    <2>1. m \in Nat /\ n \in Nat
        OBVIOUS
    <2>2. ~ (m < n)
        BY <1>2, <2>1, BelowIsLess
    <2> QED  BY <2>1, <2>2
<1> QED  BY <1>3

\* What a list of rules answers is said by a rule that applies and that no rule before
\* it forestalls.
LEMMA FirstRuleApplies ==
    ASSUME NEW rules, NEW n \in Nat, DOMAIN rules = 1 .. n, NEW k \in 1 .. n, rules[k].when
    PROVE  \E i \in 1 .. n : /\ rules[i].when
                             /\ FirstRule(rules) = rules[i].says
                             /\ \A j \in 1 .. n : rules[j].when => i <= j
<1> DEFINE Applying == {j \in DOMAIN rules : rules[j].when}
<1>1. Applying \in SUBSET Nat /\ Applying # {}
    OBVIOUS
<1>2. PICK i \in Applying : \A j \in Applying : i <= j
    BY <1>1, LeastNumber
<1>3. \A x \in Applying : (\A y \in Applying : x <= y) => x = i
    BY <1>2
<1>4. Min(Applying) = i
    BY <1>2, <1>3 DEF Min
<1> QED  BY <1>2, <1>4 DEF FirstRule

\* What the rules of the four lists ask and say: those of the kind of change ...
ChangeList(rules, e) ==
    /\ DOMAIN rules = 1 .. 8
    /\ (rules[1].when <=> DeniedInDigest(e)) /\ rules[1].says = "denied"
    /\ (rules[2].when <=> (e.type = "authentication" \/ Says(e, Authenticating))) /\ rules[2].says = "authenticated"
    /\ (rules[3].when <=> (e.type = "authorization" \/ Says(e, Authorizing))) /\ rules[3].says = "authorized"
    /\ (rules[4].when <=> Says(e, Deleting)) /\ rules[4].says = "deleted"
    /\ (rules[5].when <=> (Says(e, Changing) \/ Contains(e, {"config"}))) /\ rules[5].says = "changed"
    /\ (rules[6].when <=> Says(e, Reading)) /\ rules[6].says = "read/listed"
    /\ (rules[7].when <=> Says(e, Writing)) /\ rules[7].says = "changed"
    /\ rules[8].when /\ rules[8].says = "unknown"

\* The kind of change is told by such a list.
LEMMA ChangeIsListed ==
    ASSUME NEW e
    PROVE  \E rules : ChangeType(e) = FirstRule(rules) /\ ChangeList(rules, e)
<1> DEFINE rules == ChangeRules(e)
<1>1. ChangeList(rules, e)
    <2>0. DOMAIN rules = 1 .. 8
        BY DEF ChangeRules
    <2>1. (rules[1].when <=> DeniedInDigest(e)) /\ rules[1].says = "denied"
        BY DEF ChangeRules, Rule
    <2>2. (rules[2].when <=> (e.type = "authentication" \/ Says(e, Authenticating))) /\ rules[2].says = "authenticated"
        BY DEF ChangeRules, Rule
    <2>3. (rules[3].when <=> (e.type = "authorization" \/ Says(e, Authorizing))) /\ rules[3].says = "authorized"
        BY DEF ChangeRules, Rule
    <2>4. (rules[4].when <=> Says(e, Deleting)) /\ rules[4].says = "deleted"
        BY DEF ChangeRules, Rule
    <2>5. (rules[5].when <=> (Says(e, Changing) \/ Contains(e, {"config"}))) /\ rules[5].says = "changed"
        BY DEF ChangeRules, Rule
    <2>6. (rules[6].when <=> Says(e, Reading)) /\ rules[6].says = "read/listed"
        BY DEF ChangeRules, Rule
    <2>7. (rules[7].when <=> Says(e, Writing)) /\ rules[7].says = "changed"
        BY DEF ChangeRules, Rule
    <2>8. rules[8].when /\ rules[8].says = "unknown"
        BY DEF ChangeRules, Rule
    <2> HIDE DEF rules
    <2> QED  BY <2>0, <2>1, <2>2, <2>3, <2>4, <2>5, <2>6, <2>7, <2>8 DEF ChangeList
<1> QED  BY <1>1, Zenon DEF ChangeType

\* ... of the impact ...
ImpactList(rules, e) ==
    /\ DOMAIN rules = 1 .. 8
    /\ (rules[1].when <=> (e.type = "access-transparency" \/ DeniedInDigest(e))) /\ rules[1].says = "security_sensitive"
    /\ (rules[2].when <=> e.method \in SchemaLookups) /\ rules[2].says = "read_only"
    /\ (rules[3].when <=> (e.method \in AclMethods /\ e.type # "authorization")) /\ rules[3].says = "access_change"
    /\ (rules[4].when <=> (e.type = "authorization" \/ Contains(e, {"authorize"}))) /\ rules[4].says = "authorization_check"
    /\ (rules[5].when <=> (e.type = "authentication" \/ Contains(e, Authenticating))) /\ rules[5].says = "authentication"
    /\ (rules[6].when <=> Contains(e, AccessNames)) /\ rules[6].says = "access_change"
    /\ (rules[7].when <=> ChangeType(e) = "deleted") /\ rules[7].says = "destructive"
    /\ rules[8].when /\ rules[8].says = "other"

\* The impact is told by such a list.
LEMMA ImpactIsListed ==
    ASSUME NEW e
    PROVE  \E rules : Impact(e) = FirstRule(rules) /\ ImpactList(rules, e)
<1> DEFINE rules == ImpactRules(e)
<1>1. ImpactList(rules, e)
    <2>0. DOMAIN rules = 1 .. 8
        BY DEF ImpactRules
    <2>1. (rules[1].when <=> (e.type = "access-transparency" \/ DeniedInDigest(e))) /\ rules[1].says = "security_sensitive"
        BY DEF ImpactRules, Rule
    <2>2. (rules[2].when <=> e.method \in SchemaLookups) /\ rules[2].says = "read_only"
        BY DEF ImpactRules, Rule
    <2>3. (rules[3].when <=> (e.method \in AclMethods /\ e.type # "authorization")) /\ rules[3].says = "access_change"
        BY DEF ImpactRules, Rule
    <2>4. (rules[4].when <=> (e.type = "authorization" \/ Contains(e, {"authorize"}))) /\ rules[4].says = "authorization_check"
        BY DEF ImpactRules, Rule
    <2>5. (rules[5].when <=> (e.type = "authentication" \/ Contains(e, Authenticating))) /\ rules[5].says = "authentication"
        BY DEF ImpactRules, Rule
    <2>6. (rules[6].when <=> Contains(e, AccessNames)) /\ rules[6].says = "access_change"
        BY DEF ImpactRules, Rule
    <2>7. (rules[7].when <=> ChangeType(e) = "deleted") /\ rules[7].says = "destructive"
        BY DEF ImpactRules, Rule
    <2>8. rules[8].when /\ rules[8].says = "other"
        BY DEF ImpactRules, Rule
    <2> HIDE DEF rules
    <2> QED  BY <2>0, <2>1, <2>2, <2>3, <2>4, <2>5, <2>6, <2>7, <2>8 DEF ImpactList
<1> QED  BY <1>1, Zenon DEF Impact

\* ... of the signal by method, name and status ...
CoreList(rules, e, named) ==
    /\ DOMAIN rules = 1 .. 14
    /\ (rules[1].when <=> DeniedInDigest(e)) /\ rules[1].says = "action_required"
    /\ (rules[2].when <=> e.method \in AlwaysNoise) /\ rules[2].says = "noise"
    /\ (rules[3].when <=> (e.method \in ContextEngine /\ Contains(e, {"delete", "remove", "drop", "destroy"}))) /\ rules[3].says = "action_required"
    /\ (rules[4].when <=> (e.method \in ContextEngine /\ e.method.start # "other")) /\ rules[4].says = "informational"
    /\ (rules[5].when <=> e.method \in ContextEngine) /\ rules[5].says = "attention"
    /\ (rules[6].when <=> (e.method \in FlinkFailures \/ (e.method \in Cancelled /\ FailedInSignal(e)))) /\ rules[6].says = "action_required"
    /\ (rules[7].when <=> e.method \in Lifecycle \cup Cancelled) /\ rules[7].says = "attention"
    /\ (rules[8].when <=> (e.method.start \in {"get", "list"} \/ e.method \in AlwaysInformational)) /\ rules[8].says = "informational"
    /\ (rules[9].when <=> FailedInSignal(e)) /\ rules[9].says = "action_required"
    /\ (rules[10].when <=> ("adminRole" \in e.marks /\ Contains(e, {"bindroleforprincipal"}))) /\ rules[10].says = "action_required"
    /\ (rules[11].when <=> Destroys(e, named)) /\ rules[11].says = "action_required"
    /\ (rules[12].when <=> Alters(e, named)) /\ rules[12].says = "attention"
    /\ (rules[13].when <=> Impact(e) \in {"authentication", "authorization_check"}) /\ rules[13].says = "noise"
    /\ rules[14].when /\ rules[14].says = "informational"

\* The signal is told by such a list ...
LEMMA CoreIsListed ==
    ASSUME NEW e, NEW named
    PROVE  \E rules : CoreSignal(e, named) = FirstRule(rules) /\ CoreList(rules, e, named)
<1> DEFINE rules == CoreRules(e, named)
<1>1. CoreList(rules, e, named)
    <2>0. DOMAIN rules = 1 .. 14
        BY DEF CoreRules
    <2>1. (rules[1].when <=> DeniedInDigest(e)) /\ rules[1].says = "action_required"
        BY DEF CoreRules, Rule
    <2>2. (rules[2].when <=> e.method \in AlwaysNoise) /\ rules[2].says = "noise"
        BY DEF CoreRules, Rule
    <2>3. (rules[3].when <=> (e.method \in ContextEngine /\ Contains(e, {"delete", "remove", "drop", "destroy"}))) /\ rules[3].says = "action_required"
        BY DEF CoreRules, Rule
    <2>4. (rules[4].when <=> (e.method \in ContextEngine /\ e.method.start # "other")) /\ rules[4].says = "informational"
        BY DEF CoreRules, Rule
    <2>5. (rules[5].when <=> e.method \in ContextEngine) /\ rules[5].says = "attention"
        BY DEF CoreRules, Rule
    <2>6. (rules[6].when <=> (e.method \in FlinkFailures \/ (e.method \in Cancelled /\ FailedInSignal(e)))) /\ rules[6].says = "action_required"
        BY DEF CoreRules, Rule
    <2>7. (rules[7].when <=> e.method \in Lifecycle \cup Cancelled) /\ rules[7].says = "attention"
        BY DEF CoreRules, Rule
    <2>8. (rules[8].when <=> (e.method.start \in {"get", "list"} \/ e.method \in AlwaysInformational)) /\ rules[8].says = "informational"
        BY DEF CoreRules, Rule
    <2>9. (rules[9].when <=> FailedInSignal(e)) /\ rules[9].says = "action_required"
        BY DEF CoreRules, Rule
    <2>10. (rules[10].when <=> ("adminRole" \in e.marks /\ Contains(e, {"bindroleforprincipal"}))) /\ rules[10].says = "action_required"
        BY DEF CoreRules, Rule
    <2>11. (rules[11].when <=> Destroys(e, named)) /\ rules[11].says = "action_required"
        BY DEF CoreRules, Rule
    <2>12. (rules[12].when <=> Alters(e, named)) /\ rules[12].says = "attention"
        BY DEF CoreRules, Rule
    <2>13. (rules[13].when <=> Impact(e) \in {"authentication", "authorization_check"}) /\ rules[13].says = "noise"
        BY DEF CoreRules, Rule
    <2>14. rules[14].when /\ rules[14].says = "informational"
        BY DEF CoreRules, Rule
    <2> HIDE DEF rules
    <2> QED  BY <2>0, <2>1, <2>2, <2>3, <2>4, <2>5, <2>6, <2>7, <2>8, <2>9, <2>10, <2>11, <2>12, <2>13, <2>14 DEF CoreList
<1> QED  BY <1>1, Zenon DEF CoreSignal

\* ... and of what overrules it.
SignalList(rules, e, named) ==
    /\ DOMAIN rules = 1 .. 7
    /\ (rules[1].when <=> "dryRun" \in e.marks) /\ rules[1].says = "noise"
    /\ (rules[2].when <=> "readOnly" \in e.marks) /\ rules[2].says = "informational"
    /\ (rules[3].when <=> e.type = "access-transparency") /\ rules[3].says = "action_required"
    /\ (rules[4].when <=> (("internal" \in e.marks \/ (named /\ "internalCrn" \in e.marks)) /\ e.method \in InternalTopicMethods)) /\ rules[4].says = "noise"
    /\ (rules[5].when <=> ("platform" \in e.marks /\ ~(named /\ (e.method \in PlatformHighRisk \/ Contains(e, SecurityVerbs))))) /\ rules[5].says = "informational"
    /\ (rules[6].when <=> (named /\ e.method \in Registrations)) /\ rules[6].says = "attention"
    /\ rules[7].when /\ rules[7].says = CoreSignal(e, named)

\* ... or by such a one before it.
LEMMA SignalIsListed ==
    ASSUME NEW e, NEW named
    PROVE  \E rules : Signal(e, named) = FirstRule(rules) /\ SignalList(rules, e, named)
<1> DEFINE rules == SignalRules(e, named)
<1>1. SignalList(rules, e, named)
    <2>0. DOMAIN rules = 1 .. 7
        BY DEF SignalRules
    <2>1. (rules[1].when <=> "dryRun" \in e.marks) /\ rules[1].says = "noise"
        BY DEF SignalRules, Rule
    <2>2. (rules[2].when <=> "readOnly" \in e.marks) /\ rules[2].says = "informational"
        BY DEF SignalRules, Rule
    <2>3. (rules[3].when <=> e.type = "access-transparency") /\ rules[3].says = "action_required"
        BY DEF SignalRules, Rule
    <2>4. (rules[4].when <=> (("internal" \in e.marks \/ (named /\ "internalCrn" \in e.marks)) /\ e.method \in InternalTopicMethods)) /\ rules[4].says = "noise"
        BY DEF SignalRules, Rule
    <2>5. (rules[5].when <=> ("platform" \in e.marks /\ ~(named /\ (e.method \in PlatformHighRisk \/ Contains(e, SecurityVerbs))))) /\ rules[5].says = "informational"
        BY DEF SignalRules, Rule
    <2>6. (rules[6].when <=> (named /\ e.method \in Registrations)) /\ rules[6].says = "attention"
        BY DEF SignalRules, Rule
    <2>7. rules[7].when /\ rules[7].says = CoreSignal(e, named)
        BY DEF SignalRules, Rule
    <2> HIDE DEF rules
    <2> QED  BY <2>0, <2>1, <2>2, <2>3, <2>4, <2>5, <2>6, <2>7 DEF SignalList
<1> QED  BY <1>1, Zenon DEF Signal

\* A deletion is told by a word of the name.
LEMMA DeletionIsSaid ==
    ASSUME NEW e, Impact(e) = "destructive" \/ ChangeType(e) = "deleted"
    PROVE  Says(e, Deleting)
<1>1. ChangeType(e) = "deleted"
    <2> SUFFICES ASSUME Impact(e) = "destructive" PROVE ChangeType(e) = "deleted"
        OBVIOUS
    <2>1. PICK rules : Impact(e) = FirstRule(rules) /\ ImpactList(rules, e)
        BY ImpactIsListed
    <2>2. DOMAIN rules = 1 .. 8 /\ rules[8].when
        BY <2>1 DEF ImpactList
    <2>3. PICK i \in 1 .. 8 : rules[i].when /\ FirstRule(rules) = rules[i].says
        BY <2>2, 8 \in 1 .. 8, 8 \in Nat, FirstRuleApplies
    <2>4. \A k \in {1, 2, 3, 4, 5, 6, 8} : rules[k].says # "destructive"
        BY <2>1 DEF ImpactList
    <2>5. i = 7
        BY <2>1, <2>3, <2>4
    <2> QED  BY <2>1, <2>3, <2>5 DEF ImpactList
<1>2. PICK rules : ChangeType(e) = FirstRule(rules) /\ ChangeList(rules, e)
    BY ChangeIsListed
<1>3. DOMAIN rules = 1 .. 8 /\ rules[8].when
    BY <1>2 DEF ChangeList
<1>4. PICK i \in 1 .. 8 : rules[i].when /\ FirstRule(rules) = rules[i].says
    BY <1>3, 8 \in 1 .. 8, 8 \in Nat, FirstRuleApplies
<1>5. \A k \in {1, 2, 3, 5, 6, 7, 8} : rules[k].says # "deleted"
    BY <1>2 DEF ChangeList
<1>6. i = 4
    BY <1>1, <1>2, <1>4, <1>5
<1> QED  BY <1>2, <1>4, <1>6 DEF ChangeList

\* A denied event is action_required unless a mark overrules every rule.
LEMMA DeniedIsSignalled ==
    ASSUME NEW e \in AuditEvents, DeniedInDigest(e),
           e.marks \cap {"dryRun", "readOnly", "platform"} = {},
           ~("internal" \in e.marks /\ e.method \in InternalTopicMethods)
    PROVE  Signal(e, FALSE) = "action_required"
<1>1. CoreSignal(e, FALSE) = "action_required"
    <2>1. PICK rules : CoreSignal(e, FALSE) = FirstRule(rules) /\ CoreList(rules, e, FALSE)
        BY CoreIsListed
    <2>2. DOMAIN rules = 1 .. 14 /\ rules[1].when /\ rules[1].says = "action_required"
        BY <2>1 DEF CoreList
    <2>3. PICK i \in 1 .. 14 : /\ FirstRule(rules) = rules[i].says
                               /\ \A j \in 1 .. 14 : rules[j].when => i <= j
        BY <2>2, 1 \in 1 .. 14, 14 \in Nat, FirstRuleApplies
    <2>4. i = 1
        BY <2>2, <2>3
    <2> QED  BY <2>1, <2>2, <2>3, <2>4
<1>2. PICK rules : Signal(e, FALSE) = FirstRule(rules) /\ SignalList(rules, e, FALSE)
    BY SignalIsListed
<1>3. DOMAIN rules = 1 .. 7 /\ rules[7].when
    BY <1>2 DEF SignalList
<1>4. PICK i \in 1 .. 7 : rules[i].when /\ FirstRule(rules) = rules[i].says
    BY <1>3, 7 \in 1 .. 7, 7 \in Nat, FirstRuleApplies
<1>5. ~rules[1].when /\ ~rules[2].when /\ ~rules[4].when /\ ~rules[5].when /\ ~rules[6].when
    BY <1>2 DEF SignalList
<1>6. i = 3 \/ i = 7
    BY <1>4, <1>5
<1>7. rules[3].says = "action_required" /\ rules[7].says = "action_required"
    BY <1>1, <1>2 DEF SignalList
<1> QED  BY <1>2, <1>4, <1>6, <1>7

\* What the short circuit takes for noise is no call for action, but for four statuses
\* and a type: none of the rules that call for action applies to a read, a write or a
\* check that was neither denied nor failed.
LEMMA NoiseIsNoCall ==
    ASSUME NEW e \in AuditEvents, IsBulkNoise(e),
           e.status \notin {"PERMISSION_DENIED", "UNAUTHORIZED", "FORBIDDEN", "NOT_FOUND"},
           e.type # "access-transparency"
    PROVE  Signal(e, FALSE) # "action_required"
<1>1. e.method \in BulkNoiseMethods /\ ~DeniedInDigest(e) /\ ~FailedInSignal(e)
    BY DEF IsBulkNoise, DeniedInDigest, DeniedRaw, FailedInSignal
<1>2. /\ e.method.words \cup e.method.parts
             \subseteq {"fetch", "produce"} \cup Authenticating \cup Authorizing
      /\ e.method.tables \cap {"contextEngine", "flinkFailure", "flinkCancelled"} = {}
    BY <1>1, EventVerdictAssumption
<1>3. /\ e.method \notin ContextEngine /\ e.method \notin FlinkFailures
      /\ e.method \notin Cancelled
    BY <1>2 DEF ContextEngine, FlinkFailures, Cancelled, Listed
<1>4. ~Contains(e, {"bindroleforprincipal"}) /\ ~Says(e, Deleting)
    BY <1>2 DEF Contains, Says, Deleting, Authenticating, Authorizing
<1>5. ~Destroys(e, FALSE)
    BY <1>4, DeletionIsSaid DEF Destroys
<1>6. CoreSignal(e, FALSE) # "action_required"
    <2>1. PICK rules : CoreSignal(e, FALSE) = FirstRule(rules) /\ CoreList(rules, e, FALSE)
        BY CoreIsListed
    <2>2. DOMAIN rules = 1 .. 14 /\ rules[14].when
        BY <2>1 DEF CoreList
    <2>3. PICK i \in 1 .. 14 : FirstRule(rules) = rules[i].says /\ rules[i].when
        BY <2>2, 14 \in 1 .. 14, 14 \in Nat, FirstRuleApplies
    <2>4. ~rules[1].when /\ ~rules[3].when /\ ~rules[6].when /\ ~rules[9].when
        BY <1>1, <1>3, <2>1 DEF CoreList
    <2>5. ~rules[10].when /\ ~rules[11].when
        BY <1>4, <1>5, <2>1 DEF CoreList
    <2>6. i \in {2, 4, 5, 7, 8, 12, 13, 14}
        BY <2>3, <2>4, <2>5
    <2>7. \A k \in {2, 4, 5, 7, 8, 12, 13, 14} : rules[k].says # "action_required"
        BY <2>1 DEF CoreList
    <2> QED  BY <2>1, <2>3, <2>6, <2>7
<1>7. PICK rules : Signal(e, FALSE) = FirstRule(rules) /\ SignalList(rules, e, FALSE)
    BY SignalIsListed
<1>8. DOMAIN rules = 1 .. 7 /\ rules[7].when
    BY <1>7 DEF SignalList
<1>9. PICK i \in 1 .. 7 : rules[i].when /\ FirstRule(rules) = rules[i].says
    BY <1>8, 7 \in 1 .. 7, 7 \in Nat, FirstRuleApplies
<1>10. ~rules[3].when
    BY <1>7 DEF SignalList
<1>11. \A k \in {1, 2, 4, 5, 6, 7} : rules[k].says # "action_required"
    BY <1>6, <1>7 DEF SignalList
<1>12. i \in {1, 2, 4, 5, 6, 7}
    BY <1>9, <1>10
<1> QED  BY <1>7, <1>9, <1>11, <1>12

\* Every signal is one of four.
FourSignals == {"action_required", "attention", "informational", "noise"}

LEMMA CoreSignalIsOneOfFour ==
    ASSUME NEW e, NEW named
    PROVE  CoreSignal(e, named) \in FourSignals
<1>1. PICK rules : CoreSignal(e, named) = FirstRule(rules) /\ CoreList(rules, e, named)
    BY CoreIsListed
<1>2. DOMAIN rules = 1 .. 14 /\ rules[14].when
    BY <1>1 DEF CoreList
<1>3. PICK i \in 1 .. 14 : FirstRule(rules) = rules[i].says
    BY <1>2, 14 \in 1 .. 14, 14 \in Nat, FirstRuleApplies
<1>4. \A k \in 1 .. 14 : rules[k].says \in FourSignals
    BY <1>1 DEF CoreList, FourSignals
<1> QED  BY <1>1, <1>3, <1>4

LEMMA SignalIsOneOfFour ==
    ASSUME NEW e, NEW named
    PROVE  Signal(e, named) \in FourSignals
<1>1. PICK rules : Signal(e, named) = FirstRule(rules) /\ SignalList(rules, e, named)
    BY SignalIsListed
<1>2. DOMAIN rules = 1 .. 7 /\ rules[7].when
    BY <1>1 DEF SignalList
<1>3. PICK i \in 1 .. 7 : FirstRule(rules) = rules[i].says
    BY <1>2, 7 \in 1 .. 7, 7 \in Nat, FirstRuleApplies
<1>4. \A k \in 1 .. 7 : rules[k].says \in FourSignals
    BY <1>1, CoreSignalIsOneOfFour DEF SignalList, FourSignals
<1> QED  BY <1>1, <1>3, <1>4

LEMMA UrgencyOf ==
    /\ Urgency["action_required"] = 2 /\ Urgency["attention"] = 1
    /\ Urgency["informational"] = 0 /\ Urgency["noise"] = 0
BY DEF Urgency

LEMMA NoLess ==
    ASSUME NEW x \in {0, 1, 2}, NEW y \in {0, 1, 2}, x = 2 \/ y = 0
    PROVE  x >= y
OBVIOUS

LEMMA UrgencyRange == \A s \in FourSignals : Urgency[s] \in {0, 1, 2}
BY UrgencyOf DEF FourSignals

\* With "action" there two rules apply more widely, and both raise the signal.
LEMMA CoreRises ==
    ASSUME NEW e \in AuditEvents
    PROVE  \/ CoreSignal(e, TRUE) = CoreSignal(e, FALSE)
           \/ /\ Contains(e, SecondPassWords)
              /\ Urgency[CoreSignal(e, TRUE)] >= Urgency[CoreSignal(e, FALSE)]
<1>1. PICK r : CoreSignal(e, TRUE) = FirstRule(r) /\ CoreList(r, e, TRUE)
    BY CoreIsListed
<1>2. PICK s : CoreSignal(e, FALSE) = FirstRule(s) /\ CoreList(s, e, FALSE)
    BY CoreIsListed
<1>3. r[14].when /\ s[14].when
    BY <1>1, <1>2 DEF CoreList
<1>4. /\ r[1].when <=> s[1].when
      /\ r[2].when <=> s[2].when
      /\ r[3].when <=> s[3].when
      /\ r[4].when <=> s[4].when
      /\ r[5].when <=> s[5].when
      /\ r[6].when <=> s[6].when
      /\ r[7].when <=> s[7].when
      /\ r[8].when <=> s[8].when
      /\ r[9].when <=> s[9].when
      /\ r[10].when <=> s[10].when
      /\ r[13].when <=> s[13].when
    BY <1>1, <1>2 DEF CoreList
<1>5. /\ s[11].when => r[11].when
      /\ r[11].when => s[11].when \/ Contains(e, DestructiveText)
    BY <1>1, <1>2 DEF CoreList, Destroys
<1>6. /\ s[12].when => r[12].when
      /\ r[12].when => s[12].when \/ Contains(e, ChangeText)
    BY <1>1, <1>2 DEF CoreList, Alters
<1>7. Contains(e, DestructiveText) \/ Contains(e, ChangeText) => Contains(e, SecondPassWords)
    BY DEF Contains, SecondPassWords
<1>8. \A k \in 1 .. 14 : r[k].says = s[k].says
    BY <1>1, <1>2 DEF CoreList
<1>9. /\ r[11].says = "action_required" /\ r[12].says = "attention"
      /\ s[13].says = "noise" /\ s[14].says = "informational"
    BY <1>1, <1>2 DEF CoreList
<1>10. PICK i \in 1 .. 14 : /\ r[i].when /\ FirstRule(r) = r[i].says
                            /\ \A j \in 1 .. 14 : r[j].when => i <= j
    <2>1. DOMAIN r = 1 .. 14 /\ r[14].when
        BY <1>1 DEF CoreList
    <2>2. 14 \in Nat /\ 14 \in 1 .. 14
        OBVIOUS
    <2> QED  BY <2>1, <2>2, FirstRuleApplies, ZenonT(30)
<1>11. PICK j \in 1 .. 14 : /\ s[j].when /\ FirstRule(s) = s[j].says
                            /\ \A l \in 1 .. 14 : s[l].when => j <= l
    <2>1. DOMAIN s = 1 .. 14 /\ s[14].when
        BY <1>2 DEF CoreList
    <2>2. 14 \in Nat /\ 14 \in 1 .. 14
        OBVIOUS
    <2> QED  BY <2>1, <2>2, FirstRuleApplies, ZenonT(30)
<1>12. \A k \in 1 .. 14 : s[k].when => r[k].when
    BY <1>3, <1>4, <1>5, <1>6
<1>13. \A k \in 1 .. 14 : r[k].when => s[k].when \/ k = 11 \/ k = 12
    BY <1>3, <1>4
<1>14. i <= j
    BY <1>10, <1>11, <1>12
<1>15. CASE s[i].when
    <2>1. j <= i
        BY <1>11, <1>15
    <2>2. i = j
        BY <1>14, <2>1
    <2> QED  BY <1>1, <1>2, <1>8, <1>10, <1>11, <2>2
<1>16. CASE ~s[i].when /\ i = 11
    <2>1. Contains(e, SecondPassWords)
        BY <1>5, <1>7, <1>10, <1>16
    <2>2. Urgency[CoreSignal(e, TRUE)] = 2
        BY <1>1, <1>9, <1>10, <1>16, UrgencyOf
    <2>3. /\ Urgency[CoreSignal(e, FALSE)] \in {0, 1, 2}
          /\ Urgency[CoreSignal(e, TRUE)] \in {0, 1, 2}
        BY CoreSignalIsOneOfFour, UrgencyRange
    <2>4. Urgency[CoreSignal(e, TRUE)] >= Urgency[CoreSignal(e, FALSE)]
        BY <2>2, <2>3, NoLess, Zenon
    <2> QED  BY <2>1, <2>4
<1>17. CASE ~s[i].when /\ i = 12
    <2>1. Contains(e, SecondPassWords)
        BY <1>6, <1>7, <1>10, <1>17
    <2>2. Urgency[CoreSignal(e, TRUE)] = 1
        BY <1>1, <1>9, <1>10, <1>17, UrgencyOf
    <2>3. j # 12
        BY <1>11, <1>17
    <2>4. j = 13 \/ j = 14
        BY <1>14, <1>17, <2>3
    <2>5. Urgency[CoreSignal(e, FALSE)] = 0
        <3>1. CoreSignal(e, FALSE) = "noise" \/ CoreSignal(e, FALSE) = "informational"
            BY <1>2, <1>9, <1>11, <2>4
        <3> QED  BY <3>1, UrgencyOf
    <2>6. Urgency[CoreSignal(e, TRUE)] >= Urgency[CoreSignal(e, FALSE)]
        BY <2>2, <2>5
    <2> QED  BY <2>1, <2>6
<1>18. s[i].when \/ i = 11 \/ i = 12
    BY <1>10, <1>13
<1> QED  BY <1>15, <1>16, <1>17, <1>18

\* Where the two passes differ, and that the row is the more urgent one then, but for
\* registrations and internal topics.
LEMMA RowRises ==
    ASSUME NEW e \in AuditEvents
    PROVE  \/ Signal(e, TRUE) = Signal(e, FALSE)
           \/ /\ Urgency[Signal(e, TRUE)] >= Urgency[Signal(e, FALSE)]
              /\ \/ Contains(e, SecondPassWords)
                 \/ "platform" \in e.marks /\ e.method \in PlatformHighRisk
           \/ Signal(e, TRUE) = "attention" /\ e.method \in Registrations
           \/ /\ Signal(e, TRUE) = "noise"
              /\ "internalCrn" \in e.marks /\ e.method \in InternalTopicMethods
<1>1. PICK r : Signal(e, TRUE) = FirstRule(r) /\ SignalList(r, e, TRUE)
    BY SignalIsListed
<1>2. PICK s : Signal(e, FALSE) = FirstRule(s) /\ SignalList(s, e, FALSE)
    BY SignalIsListed
<1>3. r[7].when /\ s[7].when /\ ~s[6].when
    BY <1>1, <1>2 DEF SignalList
<1>4. /\ r[1].when <=> s[1].when
      /\ r[2].when <=> s[2].when
      /\ r[3].when <=> s[3].when
    BY <1>1, <1>2 DEF SignalList
<1>5. /\ s[4].when => r[4].when
      /\ r[4].when => s[4].when \/ ("internalCrn" \in e.marks /\ e.method \in InternalTopicMethods)
    BY <1>1, <1>2 DEF SignalList
<1>6. /\ r[5].when => s[5].when
      /\ s[5].when => \/ r[5].when
                      \/ "platform" \in e.marks /\ e.method \in PlatformHighRisk
                      \/ Contains(e, SecurityVerbs)
    BY <1>1, <1>2 DEF SignalList
<1>7. r[6].when => e.method \in Registrations
    BY <1>1 DEF SignalList
<1>8. \A k \in 1 .. 6 : r[k].says = s[k].says
    BY <1>1, <1>2 DEF SignalList
<1>9. /\ r[4].says = "noise" /\ s[5].says = "informational" /\ r[6].says = "attention"
      /\ r[7].says = CoreSignal(e, TRUE) /\ s[7].says = CoreSignal(e, FALSE)
    BY <1>1, <1>2 DEF SignalList
<1>10. Contains(e, SecurityVerbs) => Contains(e, SecondPassWords)
    BY DEF Contains, SecondPassWords
<1>11. PICK i \in 1 .. 7 : /\ r[i].when /\ FirstRule(r) = r[i].says
                           /\ \A j \in 1 .. 7 : r[j].when => i <= j
    <2>1. DOMAIN r = 1 .. 7 /\ r[7].when
        BY <1>1 DEF SignalList
    <2> QED  BY <2>1, 7 \in 1 .. 7, 7 \in Nat, FirstRuleApplies
<1>12. PICK j \in 1 .. 7 : /\ s[j].when /\ FirstRule(s) = s[j].says
                           /\ \A l \in 1 .. 7 : s[l].when => j <= l
    <2>1. DOMAIN s = 1 .. 7 /\ s[7].when
        BY <1>2 DEF SignalList
    <2> QED  BY <2>1, 7 \in 1 .. 7, 7 \in Nat, FirstRuleApplies
<1>13. ASSUME i = j, i # 7 PROVE Signal(e, TRUE) = Signal(e, FALSE)
    <2>1. i \in 1 .. 6
        BY <1>13
    <2>2. r[i].says = s[i].says
        BY <1>8, <2>1
    <2> QED  BY <1>1, <1>2, <1>11, <1>12, <1>13, <2>2
<1>14. CASE i \in {1, 2, 3}
    <2>1. s[i].when
        BY <1>4, <1>11, <1>14
    <2>2. j <= i
        BY <1>12, <2>1
    <2>3. j \in {1, 2, 3}
        BY <1>14, <2>2
    <2>4. r[j].when
        BY <1>4, <1>12, <2>3
    <2>5. i <= j
        BY <1>11, <2>4
    <2>6. i = j /\ i # 7
        BY <1>14, <2>2, <2>5
    <2> QED  BY <1>13, <2>6
<1>15. CASE i = 4
    <2>1. CASE s[4].when
        <3>1. j <= 4
            BY <1>12, <2>1
        <3>2. j \in {1, 2, 3, 4}
            BY <3>1
        <3>3. r[j].when
            BY <1>4, <1>5, <1>12, <3>2
        <3>4. i <= j
            BY <1>11, <3>3
        <3>5. i = j /\ i # 7
            BY <1>15, <3>1, <3>4
        <3> QED  BY <1>13, <3>5
    <2>2. CASE ~s[4].when
        <3>1. "internalCrn" \in e.marks /\ e.method \in InternalTopicMethods
            BY <1>5, <1>11, <1>15, <2>2
        <3>2. Signal(e, TRUE) = "noise"
            BY <1>1, <1>9, <1>11, <1>15
        <3> QED  BY <3>1, <3>2
    <2> QED  BY <2>1, <2>2
<1>16. CASE i = 5
    <2>1. s[5].when
        BY <1>6, <1>11, <1>16
    <2>2. j <= 5
        BY <1>12, <2>1
    <2>3. j \in {1, 2, 3, 4, 5}
        BY <2>2
    <2>4. r[j].when
        BY <1>4, <1>5, <1>11, <1>12, <1>16, <2>3
    <2>5. i <= j
        BY <1>11, <2>4
    <2>6. i = j /\ i # 7
        BY <1>16, <2>2, <2>5
    <2> QED  BY <1>13, <2>6
<1>17. CASE i = 6
    <2>1. e.method \in Registrations
        BY <1>7, <1>11, <1>17
    <2>2. Signal(e, TRUE) = "attention"
        BY <1>1, <1>9, <1>11, <1>17
    <2> QED  BY <2>1, <2>2
<1>18. CASE i = 7
    <2>1. ~r[1].when /\ ~r[2].when /\ ~r[3].when /\ ~r[4].when /\ ~r[5].when
        BY <1>11, <1>18
    <2>2. ~s[1].when /\ ~s[2].when /\ ~s[3].when /\ ~s[4].when
        BY <1>4, <1>5, <2>1
    <2>3. j = 5 \/ j = 7
        BY <1>3, <1>12, <2>2
    <2>4. CASE j = 5
        <3>1. \/ "platform" \in e.marks /\ e.method \in PlatformHighRisk
              \/ Contains(e, SecondPassWords)
            BY <1>6, <1>10, <1>12, <2>1, <2>4
        <3>2. Urgency[Signal(e, FALSE)] = 0
            BY <1>2, <1>9, <1>12, <2>4, UrgencyOf
        <3>3. /\ Urgency[Signal(e, TRUE)] \in {0, 1, 2}
              /\ Urgency[Signal(e, FALSE)] \in {0, 1, 2}
            BY SignalIsOneOfFour, UrgencyRange
        <3>4. Urgency[Signal(e, TRUE)] >= Urgency[Signal(e, FALSE)]
            BY <3>2, <3>3, NoLess, Zenon
        <3> QED  BY <3>1, <3>4
    <2>5. CASE j = 7
        <3>1. Signal(e, TRUE) = CoreSignal(e, TRUE) /\ Signal(e, FALSE) = CoreSignal(e, FALSE)
            BY <1>1, <1>2, <1>9, <1>11, <1>12, <1>18, <2>5
        <3>2. \/ CoreSignal(e, TRUE) = CoreSignal(e, FALSE)
              \/ /\ Contains(e, SecondPassWords)
                 /\ Urgency[CoreSignal(e, TRUE)] >= Urgency[CoreSignal(e, FALSE)]
            BY CoreRises, Zenon
        <3>3. \/ Signal(e, TRUE) = Signal(e, FALSE)
              \/ /\ Contains(e, SecondPassWords)
                 /\ Urgency[Signal(e, TRUE)] >= Urgency[Signal(e, FALSE)]
            BY <3>1, <3>2, Zenon
        <3> QED  BY <3>3, Zenon
    <2> QED  BY <2>3, <2>4, <2>5
<1>19. i \in {1, 2, 3} \/ i = 4 \/ i = 5 \/ i = 6 \/ i = 7
    OBVIOUS
<1> QED  BY <1>14, <1>15, <1>16, <1>17, <1>18, <1>19, Zenon

\* A status that is no security failure changes no rating.
LEMMA RatingsAgree ==
    ASSUME NEW e \in AuditEvents, NEW status, status \notin SecurityFailures
    PROVE  Criticality(e, status) = Criticality(e, "unsaid")
<1>1. "unsaid" \notin SecurityFailures
    BY DEF SecurityFailures
<1>2. RatingRules(e, status) = RatingRules(e, "unsaid")
    BY <1>1 DEF RatingRules, Rule
<1> QED  BY <1>2 DEF Criticality

\* What the writer keeps of a published event.
Written(e) ==
    IF Lane(e) = "bulk" THEN NoiseRow(e, DeniedInRow(e))
    ELSE [table |-> "audit_events", signal |-> Signal(e, TRUE), denied |-> DeniedInRow(e)]

\* What is published, stored and replayed is this event's, and one of the two
\* ways leads to the row.
VerdictInv ==
    /\ event \in AuditEvents
    /\ published = NotYet \/ published = Enriched(event)
    /\ \/ row = NotYet
       \/ published = NotYet /\ IsBulkNoise(event) /\ row.table = "audit_events_noise"
       \/ published = Enriched(event) /\ row = Written(event)
    /\ \/ replayed = NotYet
       \/ /\ published = Enriched(event)
          /\ \/ replayed.criticality = Criticality(event, "unsaid")
             \/ replayed.criticality = Criticality(event, event.status)

LEMMA EnrichedFields ==
    ASSUME NEW e
    PROVE  /\ Enriched(e).signal = Signal(e, FALSE)
           /\ Enriched(e).criticality = Criticality(e, "unsaid")
           /\ Enriched(e) # NotYet
<1>1. "criticality" \in DOMAIN Enriched(e) /\ "criticality" \notin DOMAIN NotYet
    BY DEF Enriched, NotYet
<1>2. Enriched(e).signal = Signal(e, FALSE) /\ Enriched(e).criticality = Criticality(e, "unsaid")
    BY DEF Enriched
<1> QED  BY <1>1, <1>2

LEMMA WrittenFields ==
    ASSUME NEW e
    PROVE  /\ Written(e).table \in {"audit_events", "audit_events_noise"}
           /\ Written(e).denied <=> DeniedInRow(e)
           /\ Written(e).table = "audit_events" => Written(e).signal = Signal(e, TRUE)
<1>1. CASE Lane(e) = "bulk"
    <2>1. Written(e) = [table |-> "audit_events_noise", signal |-> "noise",
                        denied |-> DeniedInRow(e)]
        BY <1>1, Zenon DEF Written, NoiseRow
    <2> QED  BY <2>1
<1>2. CASE Lane(e) # "bulk"
    <2>1. Written(e) = [table |-> "audit_events", signal |-> Signal(e, TRUE),
                        denied |-> DeniedInRow(e)]
        BY <1>2, Zenon DEF Written
    <2> QED  BY <2>1
<1> QED  BY <1>1, <1>2

LEMMA VerdictStep == VerdictInv /\ [VerdictNext]_verdictVars => VerdictInv'
<1> SUFFICES ASSUME VerdictInv, [VerdictNext]_verdictVars PROVE VerdictInv'
    OBVIOUS
<1> USE DEF VerdictInv
<1>1. ASSUME ShortCircuit PROVE VerdictInv'
    <2>1. /\ published = NotYet /\ IsBulkNoise(event) /\ row'.table = "audit_events_noise"
          /\ event' = event /\ published' = published /\ replayed' = replayed
        BY <1>1 DEF ShortCircuit, NoiseRow
    <2> QED  BY <2>1, EnrichedFields
<1>2. ASSUME Process PROVE VerdictInv'
    <2>1. /\ published = NotYet /\ row = NotYet /\ published' = Enriched(event)
          /\ event' = event /\ row' = row /\ replayed' = replayed
        BY <1>2 DEF Process
    <2>2. replayed = NotYet
        BY <2>1, EnrichedFields
    <2> QED  BY <2>1, <2>2
<1>3. ASSUME WriteRow PROVE VerdictInv'
    <2>1. /\ published # NotYet /\ row' = Written(event)
          /\ event' = event /\ published' = published /\ replayed' = replayed
        BY <1>3, Zenon DEF WriteRow, Written
    <2> QED  BY <2>1
<1>4. ASSUME ReplayRaw PROVE VerdictInv'
    <2>1. /\ published # NotYet /\ replayed' = Enriched(event)
          /\ event' = event /\ published' = published /\ row' = row
        BY <1>4 DEF ReplayRaw
    <2> QED  BY <2>1, EnrichedFields
<1>5. ASSUME ReplayEnriched PROVE VerdictInv'
    <2>1. /\ published # NotYet
          /\ replayed'.criticality = Criticality(event, event.status)
          /\ event' = event /\ published' = published /\ row' = row
        BY <1>5 DEF ReplayEnriched
    <2> QED  BY <2>1
<1>6. CASE UNCHANGED verdictVars
    BY <1>6 DEF verdictVars
<1> QED  BY <1>1, <1>2, <1>3, <1>4, <1>5, <1>6 DEF VerdictNext

LEMMA VerdictStarts == VerdictInit => VerdictInv
BY DEF VerdictInit, VerdictInv

LEMMA VerdictsFollow == VerdictInv => VerdictsAgree /\ VerdictTypeOK
<1> SUFFICES ASSUME VerdictInv PROVE VerdictsAgree /\ VerdictTypeOK
    OBVIOUS
<1> USE DEF VerdictInv
<1>1. DenialsSurface
    <2> SUFFICES ASSUME row # NotYet, event.granted = "no"
                 PROVE  /\ row.denied /\ published # NotYet
                        /\ \/ published.signal = "action_required"
                           \/ event.marks \cap {"dryRun", "readOnly", "platform"} # {}
                           \/ "internal" \in event.marks /\ event.method \in InternalTopicMethods
        BY DEF DenialsSurface
    <2>1. ~IsBulkNoise(event) /\ DeniedInRow(event) /\ DeniedInDigest(event)
        BY DEF IsBulkNoise, DeniedInRow, DeniedInDigest, DeniedRaw
    <2>2. published = Enriched(event) /\ row = Written(event)
        BY <2>1
    <2>3. row.denied /\ published # NotYet
        BY <2>1, <2>2, WrittenFields, EnrichedFields
    <2>4. published.signal = Signal(event, FALSE)
        BY <2>2, EnrichedFields
    <2> QED  BY <2>1, <2>3, <2>4, DeniedIsSignalled
<1>2. ShortCutAgrees
    BY EnrichedFields, NoiseIsNoCall DEF ShortCutAgrees
<1>3. RowAsPublished
    <2> SUFFICES ASSUME row # NotYet, row.table = "audit_events"
                 PROVE  RowAsPublished
        BY DEF RowAsPublished
    <2>1. published = Enriched(event) /\ row = Written(event)
        OBVIOUS
    <2>2. row.signal = Signal(event, TRUE) /\ published.signal = Signal(event, FALSE)
        BY <2>1, WrittenFields, EnrichedFields
    <2> QED  BY <2>2, RowRises DEF RowAsPublished
<1>4. ReplayRatesAlike
    <2> SUFFICES ASSUME replayed # NotYet, event.status \notin SecurityFailures
                 PROVE  replayed.criticality = published.criticality
        BY DEF ReplayRatesAlike
    <2>1. published = Enriched(event)
        OBVIOUS
    <2>2. published.criticality = Criticality(event, "unsaid")
        BY <2>1, EnrichedFields
    <2>3. Criticality(event, event.status) = Criticality(event, "unsaid")
        BY RatingsAgree
    <2> QED  BY <2>2, <2>3
<1>5. VerdictTypeOK
    <2>1. NotYet.signal = "none"
        BY DEF NotYet
    <2>2. published.signal \in {"none", "action_required", "attention", "informational", "noise"}
        BY <2>1, EnrichedFields, SignalIsOneOfFour DEF FourSignals
    <2>3. row # NotYet => row.table \in {"audit_events", "audit_events_noise"}
        BY WrittenFields
    <2> QED  BY <2>2, <2>3 DEF VerdictTypeOK
<1> QED  BY <1>1, <1>2, <1>3, <1>4, <1>5 DEF VerdictsAgree

\* Where an event is judged in several places, the verdicts agree, for every set of
\* the modelled methods and statuses, but for those that the property names.
THEOREM VerdictsAlwaysAgree == VerdictSpec => []VerdictsAgree
<1>1. VerdictInv => VerdictsAgree
    BY VerdictsFollow
<1> QED  BY <1>1, VerdictStarts, VerdictStep, PTL DEF VerdictSpec

-----------------------------------------------------------------------------
(* The types of the components *)

\* What stays of ages below a limit one time unit later is below it.
LEMMA AgeingStaysBelow ==
    ASSUME NEW limit \in Nat, NEW ages \in Seq(0 .. limit), NEW n, Leave(n, ages, limit)
    PROVE  Aged(ages, n) \in Seq(0 .. limit) /\ Len(Aged(ages, n)) <= Len(ages)
<1>1. ages \in Seq(Nat) /\ n \in 0 .. Len(ages)
    BY DEF Leave
<1>2. /\ Aged(ages, n) \in Seq(Nat) /\ Len(Aged(ages, n)) = Len(ages) - n
      /\ Len(Aged(ages, n)) <= Len(ages)
    BY <1>1, AgeingAddsNone
<1>3. \A i \in 1 .. Len(ages) - n : Aged(ages, n)[i] = ages[i + n] + 1
    BY <1>1, AgeingAddsNone
<1>4. ASSUME NEW i \in 1 .. Len(ages) - n PROVE Aged(ages, n)[i] \in 0 .. limit
    <2>1. i + n \in 1 .. Len(ages) /\ ~ (i + n <= n) /\ ages[i + n] \in Nat
        BY <1>1
    <2>2. ~ (ages[i + n] + 1 > limit)
        BY <2>1 DEF Leave
    <2> QED  BY <1>3, <2>1, <2>2
<1>5. Aged(ages, n) \in Seq(0 .. limit)
    <2>1. Len(ages) - n \in Nat
        BY <1>1
    <2>2. DOMAIN Aged(ages, n) = 1 .. Len(ages) - n
        BY DEF Aged
    <2>3. Aged(ages, n) \in [1 .. Len(ages) - n -> 0 .. limit]
        BY <1>4, <2>2 DEF Aged
    <2> QED  BY <2>1, <2>3, SeqDef
<1> QED  BY <1>2, <1>5

LEMMA BreakerTypes ==
    ASSUME BreakerTypeOK, [BreakerNext]_breakerVars
    PROVE  BreakerTypeOK'
<1> DEFINE Ages == 0 .. FailureWindow - 1
<1> USE DEF BreakerTypeOK
<1>0. /\ FailureWindow - 1 \in Nat /\ RecoveryTimeout \in Nat /\ HalfOpenRequests \in Nat
      /\ MaxForces \in Nat /\ openFor \in Nat /\ trials \in Nat /\ forces \in Nat
    BY BreakerAssumption
<1>t. ASSUME NEW state \in {"closed", "open", "half_open"}, NEW ages \in Seq(Ages),
             TransitionTo(state, ages)
      PROVE  /\ circuit' \in {"closed", "open", "half_open"} /\ openFor' \in 0 .. RecoveryTimeout
             /\ failureAges' \in Seq(Ages) /\ trials' \in 0 .. HalfOpenRequests
    <2>1. <<>> \in Seq(Ages)
        OBVIOUS
    <2>2. failureAges' \in Seq(Ages)
        BY <1>t, <2>1 DEF TransitionTo
    <2>3. circuit' \in {"closed", "open", "half_open"}
        BY <1>t DEF TransitionTo
    <2>4. openFor' \in 0 .. RecoveryTimeout
        BY <1>0, <1>t DEF TransitionTo
    <2>5. trials' \in 0 .. HalfOpenRequests
        BY <1>0, <1>t DEF TransitionTo
    <2> QED  BY <2>2, <2>3, <2>4, <2>5
<1>1. ASSUME NEW c \in Callers, AdmitCall(c) PROVE BreakerTypeOK'
    BY <1>1, <1>t DEF AdmitCall
<1>2. ASSUME NEW c \in Callers, CallSucceeds(c) PROVE BreakerTypeOK'
    BY <1>0, <1>2, <1>t DEF CallSucceeds
<1>3. ASSUME NEW c \in Callers, CallFails(c) PROVE BreakerTypeOK'
    <2>1. Append(failureAges, 0) \in Seq(Ages)
        BY <1>0
    <2> QED  BY <1>3, <2>1, <1>t DEF CallFails, AfterFailure
<1>4. ASSUME NEW c \in Callers, CallCancelled(c) PROVE BreakerTypeOK'
    BY <1>4 DEF CallCancelled
<1>5. ASSUME NEW state \in {"open", "closed"}, ForceTo(state) PROVE BreakerTypeOK'
    <2>1. forces' \in 0 .. MaxForces
        BY <1>0, <1>5 DEF ForceTo
    <2> QED  BY <1>5, <2>1, <1>t DEF ForceTo
<1>6. ASSUME ServiceRecovers PROVE BreakerTypeOK'
    BY <1>6 DEF ServiceRecovers
<1>7. ASSUME ServiceTick PROVE BreakerTypeOK'
    <2>1. PICK n \in 0 .. Len(failureAges) :
              Leave(n, failureAges, FailureWindow - 1) /\ failureAges' = Aged(failureAges, n)
        BY <1>7 DEF ServiceTick
    <2>2. failureAges' \in Seq(Ages)
        BY <1>0, <2>1, AgeingStaysBelow
    <2>3. openFor' \in 0 .. RecoveryTimeout
        BY <1>0, <1>7 DEF ServiceTick
    <2> QED  BY <1>7, <2>2, <2>3 DEF ServiceTick
<1>8. ASSUME UNCHANGED breakerVars PROVE BreakerTypeOK'
    BY <1>8 DEF breakerVars
<1> QED  BY <1>1, <1>2, <1>3, <1>4, <1>5, <1>6, <1>7, <1>8 DEF BreakerNext, CallReturns

LEMMA BurstTypes ==
    ASSUME BurstTypeOK, [BurstNext]_burstVars
    PROVE  BurstTypeOK'
<1> DEFINE Ages == 0 .. BurstSpan
<1> USE DEF BurstTypeOK
<1>0. BurstSpan \in Nat \ {0} /\ BurstAt \in Nat \ {0}
    BY BurstAssumption
<1>1. ASSUME NEW a \in Actors, RecordFailure(a) PROVE BurstTypeOK'
    <2> DEFINE ages == Append(failures[a], 0)
    <2>1. ages \in Seq(Ages) /\ Append(past[a], 0) \in Seq(Ages) /\ <<>> \in Seq(Ages) /\ Len(<<>>) = 0
        BY <1>0
    <2>2. past' \in [Actors -> Seq(Ages)]
        BY <1>1, <2>1 DEF RecordFailure
    <2>3. burstAge' \in [Actors -> 0 .. BurstSpan + 1]
        <3>1. burstAge' = [burstAge EXCEPT ![a] = 0] \/ burstAge' = burstAge
            BY <1>1 DEF RecordFailure
        <3>2. 0 \in 0 .. BurstSpan + 1
            BY <1>0
        <3> QED  BY <3>1, <3>2
    <2>4. PICK left : failures' = [failures EXCEPT ![a] = left] /\ left \in Seq(Ages) /\ Len(left) < BurstAt
        <3>1. \/ failures' = [failures EXCEPT ![a] = <<>>]
              \/ failures' = [failures EXCEPT ![a] = ages] /\ Len(ages) < BurstAt
            BY <1>1 DEF RecordFailure
        <3> HIDE DEF ages
        <3>2. Len(<<>>) < BurstAt
            BY <1>0, <2>1
        <3> QED  BY <2>1, <3>1, <3>2
    <2> QED  BY <2>2, <2>3, <2>4
<1>2. ASSUME BurstTick PROVE BurstTypeOK'
    <2>1. PICK gone \in [Actors -> 0 .. MaxFailures] :
              /\ \A a \in Actors : Leave(gone[a], failures[a], BurstSpan)
              /\ failures' = [a \in Actors |-> Aged(failures[a], gone[a])]
        BY <1>2 DEF BurstTick
    <2>2. PICK over \in [Actors -> 0 .. MaxFailures] :
              /\ \A a \in Actors : Leave(over[a], past[a], BurstSpan)
              /\ past' = [a \in Actors |-> Aged(past[a], over[a])]
        BY <1>2 DEF BurstTick
    <2>3. ASSUME NEW a \in Actors
          PROVE  /\ Aged(failures[a], gone[a]) \in Seq(Ages)
                 /\ Len(Aged(failures[a], gone[a])) < BurstAt
        <3>1. PICK ages, n : ages = failures[a] /\ n = gone[a] /\ ages \in Seq(Ages)
            OBVIOUS
        <3>2. Leave(n, ages, BurstSpan) /\ Len(ages) < BurstAt
            BY <2>1, <3>1
        <3>3. Aged(ages, n) \in Seq(Ages) /\ Len(Aged(ages, n)) <= Len(ages)
            BY <1>0, <3>1, <3>2, AgeingStaysBelow
        <3>4. Len(ages) \in Nat /\ Len(Aged(ages, n)) \in Nat
            BY <3>3
        <3> QED  BY <1>0, <3>1, <3>2, <3>3, <3>4
    <2>4. ASSUME NEW a \in Actors PROVE Aged(past[a], over[a]) \in Seq(Ages)
        <3>1. PICK ages, n : ages = past[a] /\ n = over[a] /\ ages \in Seq(Ages)
            OBVIOUS
        <3>2. Leave(n, ages, BurstSpan)
            BY <2>2, <3>1
        <3> QED  BY <1>0, <3>1, <3>2, AgeingStaysBelow
    <2>5. burstAge' \in [Actors -> 0 .. BurstSpan + 1]
        BY <1>0, <1>2 DEF BurstTick
    <2> QED  BY <2>1, <2>2, <2>3, <2>4, <2>5
<1>3. ASSUME UNCHANGED burstVars PROVE BurstTypeOK'
    BY <1>3 DEF burstVars
<1> QED  BY <1>1, <1>2, <1>3 DEF BurstNext

LEMMA PatternTypes ==
    ASSUME PatternTypeOK, [PatternNext]_patternVars
    PROVE  PatternTypeOK'
<1> DEFINE Ages == 0 .. PatternSpan - 1
<1> USE DEF PatternTypeOK
<1>0. PatternSpan - 1 \in Nat /\ PatternQueueMax \in Nat \ {0} /\ Len(patternQueue) \in Nat
    BY PatternAssumption
<1>1. ASSUME NEW p \in Patterns, RecordOccurrence(p) PROVE PatternTypeOK'
    <2>1. Append(occurrences[p], 0) \in Seq(Ages)
        BY <1>0
    <2>2. occurrences' \in [Patterns -> Seq(Ages)]
        BY <1>1, <2>1 DEF RecordOccurrence
    <2>3. Append(patternQueue, p) \in Seq(Patterns) /\ Len(Append(patternQueue, p)) = Len(patternQueue) + 1
        OBVIOUS
    <2>4. /\ patternQueue' \in Seq(Patterns) /\ Len(patternQueue') <= PatternQueueMax
          /\ patternLost' \subseteq Patterns
        <3>1. \/ /\ Len(patternQueue) < PatternQueueMax
                 /\ patternQueue' = Append(patternQueue, p) /\ patternLost' = patternLost
              \/ patternLost' = patternLost \cup {p} /\ patternQueue' = patternQueue
              \/ patternLost' = patternLost /\ patternQueue' = patternQueue
            BY <1>1 DEF RecordOccurrence, Crossing
        <3>2. CASE /\ Len(patternQueue) < PatternQueueMax
                   /\ patternQueue' = Append(patternQueue, p) /\ patternLost' = patternLost
            <4>1. Len(patternQueue) + 1 <= PatternQueueMax
                BY <1>0, <3>2
            <4> QED  BY <2>3, <3>2, <4>1
        <3> QED  BY <3>1, <3>2
    <2> QED  BY <1>1, <2>2, <2>4 DEF RecordOccurrence
<1>2. ASSUME TakePattern PROVE PatternTypeOK'
    <2>1. Head(patternQueue) \in Patterns /\ Tail(patternQueue) \in Seq(Patterns)
          /\ Len(Tail(patternQueue)) <= Len(patternQueue) /\ Len(Tail(patternQueue)) \in Nat
        BY <1>2 DEF TakePattern
    <2>2. patternQueue' \in Seq(Patterns) /\ Len(patternQueue') <= PatternQueueMax
        BY <1>0, <1>2, <2>1 DEF TakePattern
    <2> QED  BY <1>2, <2>1, <2>2 DEF TakePattern
<1>3. ASSUME UpsertPattern PROVE PatternTypeOK'
    BY <1>3 DEF UpsertPattern
<1>4. ASSUME PatternTick PROVE PatternTypeOK'
    <2>1. PICK gone \in [Patterns -> 0 .. MaxOccurrences] :
              /\ \A p \in Patterns : Leave(gone[p], occurrences[p], PatternSpan - 1)
              /\ occurrences' = [p \in Patterns |-> Aged(occurrences[p], gone[p])]
        BY <1>4 DEF PatternTick
    <2>2. ASSUME NEW p \in Patterns PROVE Aged(occurrences[p], gone[p]) \in Seq(Ages)
        <3>1. PICK ages, n : ages = occurrences[p] /\ n = gone[p] /\ ages \in Seq(Ages)
            OBVIOUS
        <3>2. Leave(n, ages, PatternSpan - 1)
            BY <2>1, <3>1
        <3> QED  BY <1>0, <3>1, <3>2, AgeingStaysBelow
    <2> QED  BY <1>4, <2>1, <2>2 DEF PatternTick
<1>5. ASSUME UNCHANGED patternVars PROVE PatternTypeOK'
    BY <1>5 DEF patternVars
<1> QED  BY <1>1, <1>2, <1>3, <1>4, <1>5 DEF PatternNext

\* The webhook's functions, whose domains its type leaves open.
WebhookTypes ==
    /\ WebhookTypeOK
    /\ lastAlertTime = [k \in Keys |-> lastAlertTime[k]]
    /\ sending = [t \in WebhookThreads |-> sending[t]]

Underway(t) == [at : {"deciding", "posting"}, key : AlertKeys[t], time : 0 .. LastTick]

LEMMA OneThreadSends ==
    ASSUME WebhookTypes, NEW t \in WebhookThreads, NEW state \in Underway(t) \cup {Idle},
           sending' = [sending EXCEPT ![t] = state]
    PROVE  /\ \A u \in WebhookThreads : sending'[u] = Idle \/ sending'[u] \in Underway(u)
           /\ sending' = [u \in WebhookThreads |-> sending'[u]]
<1>1. \A u \in WebhookThreads : sending'[u] = IF u = t THEN state ELSE sending[u]
    BY DEF WebhookTypes
<1>2. \A u \in WebhookThreads : sending[u] = Idle \/ sending[u] \in Underway(u)
    BY DEF WebhookTypes, WebhookTypeOK, Underway
<1>3. sending' = [u \in WebhookThreads |-> sending'[u]]
    BY DEF WebhookTypes
<1> QED  BY <1>1, <1>2, <1>3

LEMMA WebhookTypesStep ==
    ASSUME WebhookTypes, [WebhookNext]_webhookVars
    PROVE  WebhookTypes'
<1>0. /\ clock \in 0 .. LastTick /\ minuteBucket \in Minutes /\ alertCounts \in [Minutes -> Nat]
      /\ posted \in [Minutes -> Nat] /\ LastTick \in Nat /\ Minute(clock) \in Minutes
      /\ \A k \in Keys : lastAlertTime[k] \in 0 .. Never
    BY WebhookConstants, Minutely DEF WebhookTypes, WebhookTypeOK
<1>k. \A t \in WebhookThreads : AlertKeys[t] \subseteq Keys
    BY DEF Keys
<1>s. ASSUME NEW t \in WebhookThreads, sending[t].at # "idle"
      PROVE  sending[t] \in Underway(t)
    <2>1. sending[t] = Idle \/ sending[t] \in Underway(t)
        BY DEF WebhookTypes, WebhookTypeOK, Underway
    <2>2. sending[t] # Idle
        BY <1>s, IdleIsSender
    <2> QED  BY <2>1, <2>2
<1>1. ASSUME NEW t \in WebhookThreads, NEW key \in AlertKeys[t], ReadClock(t, key)
      PROVE  WebhookTypes'
    <2> DEFINE state == [at |-> "deciding", key |-> key, time |-> clock]
    <2>1. state \in Underway(t)
        BY <1>0 DEF Underway
    <2>2. sending' = [sending EXCEPT ![t] = state]
        BY <1>1 DEF ReadClock
    <2> HIDE DEF state
    <2>3. /\ \A u \in WebhookThreads : sending'[u] = Idle \/ sending'[u] \in Underway(u)
          /\ sending' = [u \in WebhookThreads |-> sending'[u]]
        BY <2>1, <2>2, OneThreadSends
    <2> QED  BY <1>0, <1>1, <2>3 DEF ReadClock, WebhookTypes, WebhookTypeOK, Underway
<1>2. ASSUME NEW t \in WebhookThreads, Decide(t) PROVE WebhookTypes'
    <2>1. sending[t] \in Underway(t)
        BY <1>2, <1>s DEF Decide
    <2>2. sending[t].time \in 0 .. LastTick
        BY <2>1 DEF Underway
    <2>3. Minute(sending[t].time) \in Minutes
        BY <2>2, Minutely
    <2>4. minuteBucket' \in Minutes
        BY <1>2, <2>3 DEF Decide
    <2>5. alertCounts' \in [Minutes -> Nat]
        BY <1>0, <1>2 DEF Decide, CountsFor
    <2>6. PICK state \in Underway(t) \cup {Idle} : sending' = [sending EXCEPT ![t] = state]
        <3>1. [sending[t] EXCEPT !.at = "posting"] \in Underway(t)
            BY <2>1 DEF Underway
        <3>2. \/ sending' = [sending EXCEPT ![t] = [sending[t] EXCEPT !.at = "posting"]]
              \/ sending' = [sending EXCEPT ![t] = Idle]
            BY <1>2 DEF Decide
        <3> QED  BY <3>1, <3>2
    <2>7. /\ \A u \in WebhookThreads : sending'[u] = Idle \/ sending'[u] \in Underway(u)
          /\ sending' = [u \in WebhookThreads |-> sending'[u]]
        BY <2>6, OneThreadSends
    <2>8. UNCHANGED <<clock, lastAlertTime, posted>>
        BY <1>2 DEF Decide
    <2> QED  BY <1>0, <2>4, <2>5, <2>7, <2>8 DEF WebhookTypes, WebhookTypeOK, Underway
<1>3. ASSUME NEW t \in WebhookThreads, PostSucceeds(t) \/ PostFails(t) PROVE WebhookTypes'
    <2>1. sending' = [sending EXCEPT ![t] = Idle] /\ UNCHANGED <<clock, minuteBucket>>
        BY <1>3 DEF PostSucceeds, PostFails
    <2>2. /\ \A u \in WebhookThreads : sending'[u] = Idle \/ sending'[u] \in Underway(u)
          /\ sending' = [u \in WebhookThreads |-> sending'[u]]
        BY <2>1, OneThreadSends
    <2>3. alertCounts' \in [Minutes -> Nat] /\ posted' \in [Minutes -> Nat]
        BY <1>0, <1>3 DEF PostSucceeds, PostFails
    <2>4. /\ \A k \in Keys : lastAlertTime'[k] \in 0 .. Never
          /\ lastAlertTime' = [k \in Keys |-> lastAlertTime'[k]]
        <3>1. clock \in 0 .. Never
            BY <1>0 DEF Never
        <3>2. CASE PostFails(t)
            BY <1>0, <3>2 DEF PostFails, WebhookTypes
        <3>3. CASE PostSucceeds(t)
            <4>1. lastAlertTime' = [lastAlertTime EXCEPT ![sending[t].key] = clock]
                BY <3>3 DEF PostSucceeds
            <4>2. lastAlertTime' = [k \in Keys |-> lastAlertTime'[k]]
                BY <4>1 DEF WebhookTypes
            <4>3. \A k \in Keys : lastAlertTime'[k] = clock \/ lastAlertTime'[k] = lastAlertTime[k]
                BY <4>1 DEF WebhookTypes
            <4> QED  BY <1>0, <3>1, <4>2, <4>3
        <3> QED  BY <1>3, <3>2, <3>3
    <2> QED  BY <1>0, <2>1, <2>2, <2>3, <2>4 DEF WebhookTypes, WebhookTypeOK, Underway
<1>4. ASSUME ClockTick PROVE WebhookTypes'
    <2>1. clock' \in 0 .. LastTick
        BY <1>0, <1>4 DEF ClockTick
    <2>2. UNCHANGED <<minuteBucket, alertCounts, lastAlertTime, sending, posted>>
        BY <1>4 DEF ClockTick
    <2> QED  BY <2>1, <2>2 DEF WebhookTypes, WebhookTypeOK
<1>5. ASSUME UNCHANGED webhookVars PROVE WebhookTypes'
    BY <1>5 DEF webhookVars, WebhookTypes, WebhookTypeOK
<1> QED  BY <1>1, <1>2, <1>3, <1>4, <1>5 DEF WebhookNext

LEMMA TouchedTypes ==
    ASSUME TrackerTypeOK, NEW s \in Spellings
    PROVE  /\ Touched(s) \in Seq(Spellings) /\ Len(Touched(s)) \in 1 .. Len(recentlyUsed) + 1
           /\ s \in {recentlyUsed[i] : i \in DOMAIN recentlyUsed} =>
                  Len(Touched(s)) <= Len(recentlyUsed)
<1> DEFINE spots == {i \in DOMAIN recentlyUsed : recentlyUsed[i] = s}
           spot == CHOOSE i \in spots : TRUE
           before == SubSeq(recentlyUsed, 1, spot - 1)
           after == SubSeq(recentlyUsed, spot + 1, Len(recentlyUsed))
<1>0. recentlyUsed \in Seq(Spellings) /\ Len(recentlyUsed) \in Nat
    BY DEF TrackerTypeOK
<1>1. CASE spots = {}
    <2>1. Touched(s) = Append(recentlyUsed, s)
        BY <1>1 DEF Touched
    <2>2. s \notin {recentlyUsed[i] : i \in DOMAIN recentlyUsed}
        BY <1>1
    <2> HIDE DEF spots
    <2>3. Touched(s) \in Seq(Spellings) /\ Len(Touched(s)) = Len(recentlyUsed) + 1
        BY <1>0, <2>1
    <2> QED  BY <1>0, <2>2, <2>3
<1>2. CASE spots # {}
    <2>1. spot \in 1 .. Len(recentlyUsed)
        BY <1>0, <1>2
    <2>2. Touched(s) = Append(before \o after, s)
        BY <1>2 DEF Touched
    <2> HIDE DEF spot
    <2>3. before \in Seq(Spellings) /\ Len(before) = spot - 1
        BY <1>0, <2>1
    <2>4. after \in Seq(Spellings) /\ Len(after) = Len(recentlyUsed) - spot
        BY <1>0, <2>1
    <2> HIDE DEF before, after
    <2>5. before \o after \in Seq(Spellings) /\ Len(before \o after) = Len(before) + Len(after)
        BY <2>3, <2>4
    <2>6. /\ Touched(s) \in Seq(Spellings)
          /\ Len(Touched(s)) = Len(before \o after) + 1
        BY <2>2, <2>5
    <2>7. Len(Touched(s)) = Len(recentlyUsed)
        BY <1>0, <2>1, <2>3, <2>4, <2>5, <2>6
    <2>8. Len(recentlyUsed) \in 1 .. Len(recentlyUsed) + 1
        BY <1>0, <2>1
    <2> QED  BY <1>0, <2>6, <2>7, <2>8
<1> QED  BY <1>1, <1>2

LEMMA TrackerTypes ==
    ASSUME TrackerTypeOK, [TrackerNext]_trackerVars
    PROVE  TrackerTypeOK'
<1> DEFINE Ages == 0 .. RateSpan - 1
<1>0. /\ RateSpan - 1 \in Nat /\ Cooldown \in Nat \ {0} /\ KnownIpsMax \in Nat \ {0}
      /\ Forgotten \in Nat /\ RateSpan + Cooldown \in Nat /\ Len(recentlyUsed) \in Nat
      /\ Person \in [Spellings -> Persons]
    BY TrackerAssumption DEF Forgotten, TrackerTypeOK
<1>t. /\ counter \in [Kinds \X Spellings -> Seq(Ages)]
      /\ knownIps \in [Spellings -> SUBSET Addresses]
      /\ recentlyUsed \in Seq(Spellings) /\ Len(recentlyUsed) <= KnownIpsMax
      /\ recentAlerts \in [Reports -> 0 .. Forgotten]
      /\ suppressed \subseteq Reports
      /\ alertAge \in [Reports -> 0 .. RateSpan + Cooldown]
    BY DEF TrackerTypeOK
<1>1. ASSUME NEW s \in Spellings, NEW ip \in Addresses, NEW kinds \in SUBSET Kinds,
             TrackEvent(s, ip, kinds)
      PROVE  TrackerTypeOK'
    <2> DEFINE found   == Anomalies(s, ip, kinds) \X {Person[s]}
               silent  == {r \in found : CoolingDown(r)}
               emitted == found \ silent
    <2>1. /\ counter' = AddEvent(s, kinds)
          /\ recentAlerts' = Swept([r \in Reports |-> IF r \in emitted THEN 0 ELSE recentAlerts[r]])
          /\ alertAge' = [r \in Reports |-> IF r \in emitted THEN 0 ELSE alertAge[r]]
          /\ suppressed' = suppressed \cup silent
          /\ IF ip \in KnownOf(s) THEN RememberNothing(s, ip) ELSE Remember(s, ip)
        BY <1>1 DEF TrackEvent
    <2>2. found \subseteq Reports
        <3>1. Anomalies(s, ip, kinds) \subseteq Kinds \cup {"new_source_ip"}
            BY DEF Anomalies
        <3>2. Person[s] \in Persons
            BY <1>0
        <3> QED  BY <3>1, <3>2 DEF Reports
    <2> HIDE DEF found
    <2>3. suppressed' \subseteq Reports
        BY <1>t, <2>1, <2>2
    <2> HIDE DEF silent, emitted
    <2>4. counter' \in [Kinds \X Spellings -> Seq(Ages)]
        <3>1. \A ks \in Kinds \X Spellings : Append(counter[ks], 0) \in Seq(Ages)
            BY <1>0, <1>t
        <3> QED  BY <1>t, <2>1, <3>1 DEF AddEvent
    <2>5. alertAge' \in [Reports -> 0 .. RateSpan + Cooldown]
        <3>1. 0 \in 0 .. RateSpan + Cooldown
            BY <1>0
        <3> QED  BY <1>t, <2>1, <3>1
    <2>6. recentAlerts' \in [Reports -> 0 .. Forgotten]
        <3> DEFINE remembered == [r \in Reports |-> IF r \in emitted THEN 0 ELSE recentAlerts[r]]
        <3>1. 0 \in 0 .. Forgotten /\ Forgotten \in 0 .. Forgotten
            BY <1>0
        <3>2. remembered \in [Reports -> 0 .. Forgotten]
            BY <1>t, <3>1
        <3> HIDE DEF remembered
        <3>3. Swept(remembered) \in [Reports -> 0 .. Forgotten]
            BY <3>1, <3>2 DEF Swept
        <3> QED  BY <2>1, <3>3 DEF remembered
    <2>7. KnownOf(s) \subseteq Addresses
        BY <1>t DEF KnownOf
    <2>8. /\ recentlyUsed' \in Seq(Spellings) /\ Len(recentlyUsed') <= KnownIpsMax
          /\ knownIps' \in [Spellings -> SUBSET Addresses]
        <3>1. CASE ip \in KnownOf(s)
            <4>1. recentlyUsed' = Touched(s) /\ knownIps' = knownIps
                BY <2>1, <3>1 DEF RememberNothing
            <4>2. s \in {recentlyUsed[i] : i \in DOMAIN recentlyUsed}
                BY <3>1 DEF KnownOf
            <4>3. Touched(s) \in Seq(Spellings) /\ Len(Touched(s)) \in Nat
                  /\ Len(Touched(s)) <= Len(recentlyUsed)
                BY <1>0, <4>2, TouchedTypes
            <4> QED  BY <1>0, <1>t, <4>1, <4>3
        <3>2. CASE ip \notin KnownOf(s)
            <4> DEFINE used == IF Len(Touched(s)) > KnownIpsMax THEN Tail(Touched(s)) ELSE Touched(s)
            <4>1. /\ recentlyUsed' = used
                  /\ knownIps' = [t \in Spellings |->
                          IF t = s THEN KnownOf(s) \cup {ip}
                          ELSE IF \E i \in DOMAIN used : used[i] = t THEN knownIps[t] ELSE {}]
                BY <2>1, <3>2 DEF Remember
            <4>2. Touched(s) \in Seq(Spellings) /\ Len(Touched(s)) \in 1 .. Len(recentlyUsed) + 1
                BY TouchedTypes
            <4>3. used \in Seq(Spellings) /\ Len(used) <= KnownIpsMax
                <5>1. PICK touched \in Seq(Spellings) : touched = Touched(s)
                    BY <4>2
                <5>2. /\ Len(touched) \in Nat \ {0} /\ Len(touched) <= KnownIpsMax + 1
                      /\ Tail(touched) \in Seq(Spellings) /\ Len(Tail(touched)) = Len(touched) - 1
                    <6>1. Len(touched) \in 1 .. Len(recentlyUsed) + 1
                        BY <4>2, <5>1
                    <6>2. Len(touched) \in Nat \ {0} /\ Len(touched) <= KnownIpsMax + 1
                        BY <1>0, <1>t, <6>1
                    <6> QED  BY <6>2
                <5>3. used = IF Len(touched) > KnownIpsMax THEN Tail(touched) ELSE touched
                    BY ONLY <5>1 DEF used
                <5> HIDE DEF used
                <5>4. CASE Len(touched) > KnownIpsMax
                    <6>1. used = Tail(touched)
                        BY <5>3, <5>4
                    <6>2. Len(used) <= KnownIpsMax
                        BY <1>0, <5>2, <6>1
                    <6> QED  BY <5>2, <6>1, <6>2
                <5>5. CASE ~ (Len(touched) > KnownIpsMax)
                    <6>1. used = touched
                        BY <5>3, <5>5
                    <6>2. Len(touched) <= KnownIpsMax
                        BY <1>0, <5>2, <5>5
                    <6> QED  BY <6>1, <6>2
                <5> QED  BY <5>4, <5>5
            <4> HIDE DEF used
            <4>4. knownIps' \in [Spellings -> SUBSET Addresses]
                BY <1>t, <2>7, <4>1
            <4> QED  BY <4>1, <4>3, <4>4
        <3> QED  BY <3>1, <3>2
    <2> QED  BY <2>3, <2>4, <2>5, <2>6, <2>8 DEF TrackerTypeOK
<1>2. ASSUME FlushSummary PROVE TrackerTypeOK'
    BY <1>2, <1>t DEF FlushSummary, TrackerTypeOK
<1>3. ASSUME TrackerTick PROVE TrackerTypeOK'
    <2>1. PICK gone \in [Kinds \X Spellings -> 0 .. MaxPerWindow] :
              /\ \A ks \in Kinds \X Spellings : Leave(gone[ks], counter[ks], RateSpan - 1)
              /\ counter' = [ks \in Kinds \X Spellings |-> Aged(counter[ks], gone[ks])]
        BY <1>3 DEF TrackerTick
    <2>2. ASSUME NEW ks \in Kinds \X Spellings PROVE Aged(counter[ks], gone[ks]) \in Seq(Ages)
        <3>1. PICK ages, n : ages = counter[ks] /\ n = gone[ks] /\ ages \in Seq(Ages)
            BY <1>t
        <3>2. Leave(n, ages, RateSpan - 1)
            BY <2>1, <3>1
        <3> QED  BY <1>0, <3>1, <3>2, AgeingStaysBelow
    <2>3. counter' \in [Kinds \X Spellings -> Seq(Ages)]
        BY <2>1, <2>2
    <2>4. ASSUME NEW limit \in Nat, NEW age \in 0 .. limit PROVE AgedUpTo(age, limit) \in 0 .. limit
        BY DEF AgedUpTo
    <2>5. recentAlerts' \in [Reports -> 0 .. Forgotten]
        BY <1>0, <1>3, <1>t, <2>4 DEF TrackerTick
    <2>6. alertAge' \in [Reports -> 0 .. RateSpan + Cooldown]
        BY <1>0, <1>3, <1>t, <2>4 DEF TrackerTick
    <2>7. UNCHANGED <<knownIps, recentlyUsed, suppressed>>
        BY <1>3 DEF TrackerTick
    <2> QED  BY <1>t, <2>3, <2>5, <2>6, <2>7 DEF TrackerTypeOK
<1>4. ASSUME UNCHANGED trackerVars PROVE TrackerTypeOK'
    BY <1>4, <1>t DEF trackerVars, TrackerTypeOK
<1> QED  BY <1>1, <1>2, <1>3, <1>4 DEF TrackerNext

Events == SUBSET (1 .. MaxNotifies)
SenderSet == [kind : {"event", "summary", "digest"}, of : Events, attempt : 1 .. MaxAttempts]
Rates == [live : BOOLEAN, age : 0 .. RateWindow, sent : 0 .. RateLimit, suppressed : Events]
Fates == Pending \cup Final

NotifierTypes == NotifierTypeOK /\ NotifierInv

LEMMA NotifierNumbers ==
    /\ RateLimit \in Nat \ {0} /\ RateWindow \in Nat \ {0} /\ DedupWindow \in Nat \ {0}
    /\ PruneEvery \in Nat \ {0} /\ MaxAttempts \in Nat \ {0} /\ DigestMax \in Nat \ {0}
    /\ MaxNotifies \in Nat /\ MaxReloads \in Nat
BY NotifierAssumption

\* A new thread makes its first attempt.
LEMMA NewSender ==
    ASSUME NEW kind \in {"event", "summary", "digest"}, NEW events \in Events
    PROVE  Sender(kind, events) \in SenderSet
BY NotifierNumbers DEF Sender, SenderSet

\* The fates of some events change, and the number of the events does not.
LEMMA FatesStay ==
    ASSUME NEW fates \in Seq(Fates), NEW events, NEW value \in Fates
    PROVE  Become(fates, events, value) \in Seq(Fates) /\ Len(Become(fates, events, value)) = Len(fates)
<1>1. /\ Len(fates) \in Nat /\ DOMAIN fates = 1 .. Len(fates)
      /\ \A i \in 1 .. Len(fates) : fates[i] \in Fates
    OBVIOUS
<1> DEFINE changed == [i \in 1 .. Len(fates) |-> IF i \in events THEN value ELSE fates[i]]
<1>2. Become(fates, events, value) = changed
    BY <1>1 DEF Become
<1>3. changed \in [1 .. Len(fates) -> Fates]
    BY <1>1
<1> HIDE DEF changed
<1> QED  BY <1>1, <1>2, <1>3

LEMMA FateGrows ==
    ASSUME NEW fates \in Seq(Fates), NEW value \in Fates, Len(fates) + 1 <= MaxNotifies
    PROVE  Append(fates, value) \in Seq(Fates) /\ Len(Append(fates, value)) <= MaxNotifies
OBVIOUS

LEMMA FatesOf ==
    /\ "held" \in Fates /\ "buffered" \in Fates /\ "sending" \in Fates /\ "told" \in Fates
    /\ "gaveup" \in Fates /\ "duplicate" \in Fates /\ "pushedout" \in Fates /\ "untold" \in Fates
BY DEF Fates, Pending, Final

LEMMA NotifierFields ==
    NotifierTypeOK <=>
        /\ mode \in Modes /\ reloads \in 0 .. MaxReloads
        /\ rate \in Rates
        /\ dedupAge \in [Fingerprints -> 0 .. DedupWindow]
        /\ dedupCalls \in 0 .. PruneEvery - 1
        /\ digestBuffer \in Seq(1 .. MaxNotifies) /\ Len(digestBuffer) <= DigestMax
        /\ pastSchedule \in BOOLEAN /\ digestSent \in BOOLEAN
        /\ senders \subseteq SenderSet
        /\ fate \in Seq(Fates) /\ Len(fate) <= MaxNotifies
        /\ \A i \in DOMAIN dispatches : dispatches[i].fp \in Fingerprints
BY DEF NotifierTypeOK, Rates, SenderSet, Fates, Events

LEMMA EntriesBelong ==
    ASSUME NEW values, NEW q \in Seq(values)
    PROVE  {q[i] : i \in DOMAIN q} \subseteq values
OBVIOUS

LEMMA SlotTypes ==
    ASSUME NotifierTypeOK, NEW n \in 1 .. MaxNotifies, n = Len(fate) + 1,
           NEW fp \in Fingerprints, SendOrSuppress(n, fp)
    PROVE  /\ rate' \in Rates /\ senders' \subseteq SenderSet
           /\ fate' \in Seq(Fates) /\ Len(fate') <= MaxNotifies
           /\ dedupCalls' \in 0 .. PruneEvery - 1
<1> USE NotifierFields
<1> DEFINE window == IF WindowOver THEN NewWindow ELSE rate
           summary == IF WindowOver THEN rate.suppressed ELSE {}
           summaries == IF summary = {} THEN {} ELSE {Sender("summary", summary)}
           known == Become(fate, summary, "sending")
<1>0. /\ RateLimit \in Nat \ {0} /\ RateWindow \in Nat \ {0} /\ PruneEvery \in Nat \ {0}
      /\ MaxNotifies \in Nat
    BY NotifierNumbers
<1>1. NewWindow \in Rates
    BY <1>0 DEF NewWindow, Rates, Events
<1>2. window \in Rates
    BY <1>1
<1>3. summary \in Events
    BY DEF Rates, Events
<1>4. known \in Seq(Fates) /\ Len(known) = Len(fate)
    BY FatesStay, FatesOf
<1>5. \/ /\ rate' = [window EXCEPT !.suppressed = @ \cup {n}]
         /\ fate' = Append(known, "held")
         /\ senders' = senders \cup summaries
         /\ dedupCalls' = dedupCalls
      \/ /\ window.sent < RateLimit
         /\ rate' = [window EXCEPT !.sent = @ + 1]
         /\ fate' = Append(known, "duplicate")
         /\ senders' = senders \cup summaries
         /\ dedupCalls' = dedupCalls
      \/ /\ window.sent < RateLimit
         /\ rate' = [window EXCEPT !.sent = @ + 1]
         /\ RecordDedup(fp)
         /\ fate' = Append(known, "sending")
         /\ senders' = senders \cup summaries \cup {Sender("event", {n})}
    BY Zenon DEF SendOrSuppress
<1> HIDE DEF window, known
<1>6. summaries \subseteq SenderSet
    BY <1>3, NewSender
<1> HIDE DEF summaries, summary
<1>7. {n} \in Events
    BY DEF Events
<1>8. Sender("event", {n}) \in SenderSet
    BY <1>7, NewSender
<1>9. [window EXCEPT !.suppressed = @ \cup {n}] \in Rates
    BY <1>2 DEF Rates, Events
<1>10. ASSUME window.sent < RateLimit PROVE [window EXCEPT !.sent = @ + 1] \in Rates
    <2>1. window.sent + 1 \in 0 .. RateLimit
        BY <1>0, <1>2, <1>10 DEF Rates
    <2> QED  BY <1>2, <2>1 DEF Rates
<1>11. \A value \in Fates :
           Append(known, value) \in Seq(Fates) /\ Len(Append(known, value)) <= MaxNotifies
    BY <1>0, <1>4, FateGrows
<1>12. ASSUME RecordDedup(fp) PROVE dedupCalls' \in 0 .. PruneEvery - 1
    <2>1. dedupCalls' = IF dedupCalls + 1 >= PruneEvery THEN 0 ELSE dedupCalls + 1
        BY <1>12 DEF RecordDedup
    <2> QED  BY <1>0, <2>1
<1>13. rate' \in Rates
    BY <1>5, <1>9, <1>10
<1>14. senders' \subseteq SenderSet
    BY <1>5, <1>6, <1>8
<1>15. fate' \in Seq(Fates) /\ Len(fate') <= MaxNotifies
    BY <1>5, <1>11, FatesOf
<1>16. dedupCalls' \in 0 .. PruneEvery - 1
    BY <1>5, <1>12
<1> QED  BY <1>13, <1>14, <1>15, <1>16

LEMMA NotifierTypesStep ==
    ASSUME NotifierTypes, [NotifierNext]_notifierVars
    PROVE  NotifierTypes'
<1> USE NotifierFields DEF NotifierTypes
<1>0. /\ RateLimit \in Nat \ {0} /\ RateWindow \in Nat \ {0} /\ DedupWindow \in Nat \ {0}
      /\ PruneEvery \in Nat \ {0} /\ MaxAttempts \in Nat \ {0} /\ DigestMax \in Nat \ {0}
      /\ MaxNotifies \in Nat /\ MaxReloads \in Nat
    BY NotifierNumbers
<1>i. NotifierInv'
    BY NotifierStep
<1>d. /\ dedupAge' \in [Fingerprints -> 0 .. DedupWindow]
      /\ \A i \in DOMAIN dispatches' : dispatches'[i].fp \in Fingerprints
    <2>1. dispatches' \in Seq(News) /\ dedupAge' \in [Fingerprints -> 0 .. DedupWindow]
        BY <1>i DEF NotifierInv
    <2>2. \A i \in DOMAIN dispatches' : dispatches'[i] \in News
        BY <2>1
    <2> QED  BY <2>1, <2>2 DEF News
<1> DEFINE Rest == /\ rate' \in Rates /\ senders' \subseteq SenderSet
                   /\ fate' \in Seq(Fates) /\ Len(fate') <= MaxNotifies
                   /\ mode' \in Modes /\ reloads' \in 0 .. MaxReloads
                   /\ dedupCalls' \in 0 .. PruneEvery - 1
                   /\ digestBuffer' \in Seq(1 .. MaxNotifies) /\ Len(digestBuffer') <= DigestMax
                   /\ pastSchedule' \in BOOLEAN /\ digestSent' \in BOOLEAN
<1>r. ASSUME Rest PROVE NotifierTypes'
    BY <1>i, <1>d, <1>r DEF NotifierTypeOK, Rates, SenderSet, Fates, Events
<1>1. ASSUME NEW fp \in Fingerprints, Notify(fp) PROVE NotifierTypes'
    <2> DEFINE n == Len(fate) + 1
    <2>1. n \in 1 .. MaxNotifies
        BY <1>0, <1>1 DEF Notify
    <2>2. /\ mode' \in IF reloads < MaxReloads THEN Loadable ELSE {mode}
          /\ reloads' = IF mode' = mode THEN reloads ELSE reloads + 1
          /\ UNCHANGED <<pastSchedule, digestSent>>
        BY <1>1 DEF Notify
    <2>3. Loadable \subseteq Modes
        BY DEF Loadable, LoadConfig, ParseDestination, Modes
    <2>4. mode' \in Modes /\ reloads' \in 0 .. MaxReloads
        BY <1>0, <2>2, <2>3
    <2>5. \/ UNCHANGED <<rate, dedupCalls, digestBuffer, senders, fate>>
          \/ AppendToDigest(n) /\ UNCHANGED <<rate, dedupCalls, senders>>
          \/ SendOrSuppress(n, fp) /\ UNCHANGED digestBuffer
        BY <1>1 DEF Notify
    <2>6. CASE UNCHANGED <<rate, dedupCalls, digestBuffer, senders, fate>>
        BY <1>r, <2>2, <2>4, <2>6
    <2>7. CASE AppendToDigest(n) /\ UNCHANGED <<rate, dedupCalls, senders>>
        <3> DEFINE full == Len(digestBuffer) >= DigestMax
                   kept == IF full THEN Tail(digestBuffer) ELSE digestBuffer
                   dropped == IF full THEN {Head(digestBuffer)} ELSE {}
                   known == Become(fate, dropped, "pushedout")
        <3>1. digestBuffer' = Append(kept, n) /\ fate' = Append(known, "buffered")
            BY <2>7 DEF AppendToDigest
        <3>2. kept \in Seq(1 .. MaxNotifies) /\ Len(kept) + 1 <= DigestMax
            <4>1. CASE full
                BY <1>0, <4>1
            <4>2. CASE ~full
                BY <1>0, <4>2
            <4> QED  BY <4>1, <4>2
        <3>3. known \in Seq(Fates) /\ Len(known) = Len(fate)
            BY FatesStay, FatesOf
        <3> HIDE DEF kept, known
        <3>4. digestBuffer' \in Seq(1 .. MaxNotifies) /\ Len(digestBuffer') <= DigestMax
            BY <2>1, <3>1, <3>2
        <3>5. fate' \in Seq(Fates) /\ Len(fate') <= MaxNotifies
            BY <1>0, <2>1, <3>1, <3>3, FateGrows, FatesOf
        <3> QED  BY <1>r, <2>2, <2>4, <2>7, <3>4, <3>5
    <2>8. CASE SendOrSuppress(n, fp) /\ UNCHANGED digestBuffer
        <3>1. PICK m \in 1 .. MaxNotifies : m = Len(fate) + 1 /\ SendOrSuppress(m, fp)
            BY <2>1, <2>8
        <3>2. /\ rate' \in Rates /\ senders' \subseteq SenderSet
              /\ fate' \in Seq(Fates) /\ Len(fate') <= MaxNotifies
              /\ dedupCalls' \in 0 .. PruneEvery - 1
            BY <3>1, SlotTypes
        <3> QED  BY <1>r, <2>2, <2>4, <2>8, <3>2
    <2> QED  BY <2>5, <2>6, <2>7, <2>8
<1>2. ASSUME FlushExpiredWindow PROVE NotifierTypes'
    <2>1. rate' \in Rates
        BY <1>0, <1>2 DEF FlushExpiredWindow, NewWindow, Rates, Events
    <2>2. rate.suppressed \in Events
        BY DEF Rates
    <2>3. senders' \subseteq SenderSet
        <3>1. Sender("summary", rate.suppressed) \in SenderSet
            BY <2>2, NewSender
        <3> QED  BY <1>2, <3>1 DEF FlushExpiredWindow
    <2>4. fate' \in Seq(Fates) /\ Len(fate') <= MaxNotifies
        <3>1. \A value \in Fates :
                  /\ Become(fate, rate.suppressed, value) \in Seq(Fates)
                  /\ Len(Become(fate, rate.suppressed, value)) = Len(fate)
            BY FatesStay
        <3>2. \/ fate' = fate
              \/ fate' = Become(fate, rate.suppressed, "sending")
              \/ fate' = Become(fate, rate.suppressed, "untold")
            BY <1>2 DEF FlushExpiredWindow
        <3> QED  BY <3>1, <3>2, FatesOf
    <2>5. UNCHANGED <<mode, reloads, dedupCalls, digestBuffer, pastSchedule, digestSent>>
        BY <1>2 DEF FlushExpiredWindow
    <2> QED  BY <1>r, <2>1, <2>3, <2>4, <2>5
<1>3. ASSUME SendDigest PROVE NotifierTypes'
    <2> DEFINE events == {digestBuffer[i] : i \in DOMAIN digestBuffer}
    <2>1. events \in Events
        <3>1. events \subseteq 1 .. MaxNotifies
            BY EntriesBelong
        <3> QED  BY <3>1 DEF Events
    <2>2. /\ digestBuffer' = <<>> /\ digestSent' = TRUE
          /\ senders' = IF events = {} THEN senders ELSE senders \cup {Sender("digest", events)}
          /\ fate' = Become(fate, events, "sending")
          /\ UNCHANGED <<mode, reloads, rate, dedupCalls, pastSchedule>>
        BY <1>3 DEF SendDigest
    <2> HIDE DEF events
    <2>3. senders' \subseteq SenderSet
        BY <2>1, <2>2, NewSender
    <2>4. fate' \in Seq(Fates) /\ Len(fate') <= MaxNotifies
        BY <2>2, FatesStay, FatesOf
    <2>5. digestBuffer' \in Seq(1 .. MaxNotifies) /\ Len(digestBuffer') <= DigestMax
        BY <1>0, <2>2
    <2> QED  BY <1>r, <2>2, <2>3, <2>4, <2>5
<1>4. ASSUME NEW s \in senders, Delivered(s) \/ AttemptFails(s) PROVE NotifierTypes'
    <2>1. s \in SenderSet
        OBVIOUS
    <2>2. senders' \subseteq SenderSet
        <3>1. ASSUME s.attempt < AttemptsFor(s) PROVE [s EXCEPT !.attempt = @ + 1] \in SenderSet
            <4>1. s.attempt < MaxAttempts /\ s.attempt \in Nat
                BY <1>0, <2>1, <3>1 DEF AttemptsFor, SenderSet
            <4>2. s.attempt + 1 \in 1 .. MaxAttempts
                BY <1>0, <4>1
            <4> QED  BY <2>1, <4>2 DEF SenderSet
        <3> QED  BY <1>4, <3>1 DEF Delivered, AttemptFails
    <2>3. fate' \in Seq(Fates) /\ Len(fate') <= MaxNotifies
        <3>1. \A value \in Fates :
                  /\ Become(fate, s.of, value) \in Seq(Fates)
                  /\ Len(Become(fate, s.of, value)) = Len(fate)
            BY FatesStay
        <3>2. \/ fate' = fate
              \/ fate' = Become(fate, s.of, "told")
              \/ fate' = Become(fate, s.of, "gaveup")
            BY <1>4 DEF Delivered, AttemptFails
        <3> QED  BY <3>1, <3>2, FatesOf
    <2>4. UNCHANGED <<mode, reloads, rate, dedupCalls, digestBuffer, pastSchedule, digestSent>>
        BY <1>4 DEF Delivered, AttemptFails
    <2> QED  BY <1>r, <2>2, <2>3, <2>4
<1>5. ASSUME NotifierTick PROVE NotifierTypes'
    <2>1. rate' = [rate EXCEPT !.age = Later(rate.age, RateWindow)]
        BY <1>5 DEF NotifierTick
    <2>2. Later(rate.age, RateWindow) \in 0 .. RateWindow
        BY <1>0 DEF Later, Rates
    <2>3. rate' \in Rates
        BY <2>1, <2>2 DEF Rates
    <2>4. UNCHANGED <<mode, reloads, dedupCalls, digestBuffer, pastSchedule, digestSent,
                      senders, fate>>
        BY <1>5 DEF NotifierTick
    <2> QED  BY <1>r, <2>3, <2>4
<1>6. ASSUME DayTick PROVE NotifierTypes'
    BY <1>6, <1>r DEF DayTick
<1>7. ASSUME UNCHANGED notifierVars PROVE NotifierTypes'
    BY <1>7, <1>r DEF notifierVars
<1> QED  BY <1>1, <1>2, <1>3, <1>4, <1>5, <1>6, <1>7 DEF NotifierNext

-----------------------------------------------------------------------------
(* The alerting components together *)

\* What each component keeps, whichever of them runs.
AlertingTypes ==
    /\ BreakerTypeOK /\ NotifierTypes /\ AggregatorTypeOK /\ TrackerTypeOK /\ BurstTypeOK
    /\ PatternTypeOK /\ BaselineTypeOK /\ WatchdogTypeOK /\ WebhookTypes /\ VerdictInv

\* A step of the group is a step of each component, or leaves it alone.
LEMMA EachSteps ==
    ASSUME [AlertingNext]_alertingVars
    PROVE  /\ [BreakerNext]_breakerVars /\ [NotifierNext]_notifierVars
           /\ [AggregatorNext]_aggregatorVars /\ [TrackerNext]_trackerVars
           /\ [BurstNext]_burstVars /\ [PatternNext]_patternVars
           /\ [BaselineNext]_baselineVars /\ [WatchdogNext]_watchdogVars
           /\ [WebhookNext]_webhookVars /\ [VerdictNext]_verdictVars
<1>1. AggregatorOrEnd => [AggregatorNext]_aggregatorVars
    BY DEF AggregatorOrEnd
<1>2. VerdictOrEnd => [VerdictNext]_verdictVars
    BY DEF VerdictOrEnd
<1>3. CASE UNCHANGED alertingVars
    BY <1>3 DEF alertingVars
<1>4. CASE AlertingNext
    BY <1>1, <1>2, <1>4 DEF AlertingNext, BreakerNextAlone, NotifierNextAlone,
       AggregatorOrEndAlone, TrackerNextAlone, BurstNextAlone, PatternNextAlone,
       BaselineNextAlone, WatchdogNextAlone, WebhookNextAlone, VerdictOrEndAlone
<1> QED  BY <1>3, <1>4

LEMMA NotifierTypesStart == NotifierInit => NotifierTypes
<1> SUFFICES ASSUME NotifierInit PROVE NotifierTypes
    OBVIOUS
<1>1. /\ RateLimit \in Nat \ {0} /\ RateWindow \in Nat \ {0} /\ DedupWindow \in Nat \ {0}
      /\ PruneEvery \in Nat \ {0} /\ MaxNotifies \in Nat /\ MaxReloads \in Nat
      /\ DigestMax \in Nat
    BY NotifierNumbers
<1>2. rate \in Rates
    <2>1. rate = [live |-> FALSE, age |-> 0, sent |-> 0, suppressed |-> {}]
        BY DEF NotifierInit, NewWindow
    <2>2. 0 \in 0 .. RateWindow /\ 0 \in 0 .. RateLimit /\ {} \in Events
        BY <1>1 DEF Events
    <2> QED  BY <2>1, <2>2 DEF Rates
<1>3. /\ mode \in Modes /\ reloads \in 0 .. MaxReloads /\ dedupCalls \in 0 .. PruneEvery - 1
      /\ dedupAge \in [Fingerprints -> 0 .. DedupWindow]
    BY <1>1 DEF NotifierInit, Modes
<1>4. digestBuffer = <<>> /\ fate = <<>> /\ senders = {} /\ dispatches = <<>>
    BY DEF NotifierInit
<1>5. /\ digestBuffer \in Seq(1 .. MaxNotifies) /\ Len(digestBuffer) <= DigestMax
      /\ fate \in Seq(Fates) /\ Len(fate) <= MaxNotifies /\ senders \subseteq SenderSet
      /\ \A i \in DOMAIN dispatches : dispatches[i].fp \in Fingerprints
    BY <1>1, <1>4
<1>6. pastSchedule \in BOOLEAN /\ digestSent \in BOOLEAN
    BY DEF NotifierInit
<1>7. NotifierTypeOK
    BY <1>2, <1>3, <1>5, <1>6, NotifierFields
<1> QED  BY <1>7, NotifierStarts DEF NotifierTypes

LEMMA DetectorTypesStart ==
    ASSUME TrackerInit, BurstInit, PatternInit
    PROVE  TrackerTypeOK /\ BurstTypeOK /\ PatternTypeOK
<1>1. TrackerTypeOK
    BY TrackerAssumption DEF TrackerInit, TrackerTypeOK, Forgotten
<1>2. BurstTypeOK
    BY BurstAssumption DEF BurstInit, BurstTypeOK
<1>3. PatternTypeOK
    BY PatternAssumption DEF PatternInit, PatternTypeOK
<1> QED  BY <1>1, <1>2, <1>3

LEMMA WebhookTypesStart == WebhookInit => WebhookTypes
<1> SUFFICES ASSUME WebhookInit PROVE WebhookTypes
    OBVIOUS
<1>1. LastTick \in Nat /\ 0 \in 0 .. LastTick /\ Never \in 0 .. Never
    BY WebhookConstants DEF Never
<1>2. 0 \in Minutes
    <2>1. Minute(0) \in Minutes /\ Minute(0) = 0
        BY <1>1, WebhookConstants, Minutely DEF Minute
    <2> QED  BY <2>1
<1> QED  BY <1>1, <1>2 DEF WebhookInit, WebhookTypes, WebhookTypeOK

LEMMA AlertingTypesStart == AlertingInit => AlertingTypes
<1> SUFFICES ASSUME AlertingInit PROVE AlertingTypes
    OBVIOUS
<1> USE DEF AlertingInit
<1>1. BreakerTypeOK
    BY BreakerAssumption DEF BreakerInit, BreakerTypeOK
<1>2. NotifierTypes
    BY NotifierTypesStart
<1>3. AggregatorTypeOK
    BY AggregatorStarts DEF AggregatorInv
<1>4. TrackerTypeOK /\ BurstTypeOK /\ PatternTypeOK
    BY DetectorTypesStart
<1>5. BaselineTypeOK
    BY BaselineAssumption DEF BaselineInit, BaselineTypeOK
<1>6. WatchdogTypeOK
    <2>1. 0 \in 0 .. Longest /\ 0 \in 0 .. CheckEvery
        BY WatchdogAssumption DEF Longest
    <2> QED  BY <2>1 DEF WatchdogInit, WatchdogTypeOK
<1>7. WebhookTypes
    BY WebhookTypesStart
<1>8. VerdictInv
    BY VerdictStarts
<1> QED  BY <1>1, <1>2, <1>3, <1>4, <1>5, <1>6, <1>7, <1>8 DEF AlertingTypes

\* Queues, buffers, counters, windows and tables of the alerting components stay within
\* their limits and kinds, whatever the limits, the callers and the failures
\* (AlertingTypeOK).
THEOREM AlertingTypesHold == AlertingSpec => []AlertingTypeOK
<1>1. AlertingInit => AlertingTypes
    BY AlertingTypesStart
<1>2. AlertingTypes /\ [AlertingNext]_alertingVars => AlertingTypes'
    <2> SUFFICES ASSUME AlertingTypes, [AlertingNext]_alertingVars PROVE AlertingTypes'
        OBVIOUS
    <2> USE DEF AlertingTypes
    <2>1. BreakerTypeOK' /\ BurstTypeOK' /\ PatternTypeOK' /\ TrackerTypeOK'
        BY EachSteps, BreakerTypes, BurstTypes, PatternTypes, TrackerTypes
    <2>2. NotifierTypes' /\ WebhookTypes'
        BY EachSteps, NotifierTypesStep, WebhookTypesStep
    <2>3. AggregatorTypeOK' /\ BaselineTypeOK' /\ WatchdogTypeOK' /\ VerdictInv'
        BY EachSteps, AggregatorTypes, BaselineTypes, WatchdogTypes, VerdictStep
    <2> QED  BY <2>1, <2>2, <2>3
<1>3. AlertingTypes => AlertingTypeOK
    BY VerdictsFollow DEF AlertingTypes, AlertingTypeOK, NotifierTypes, WebhookTypes
<1> QED  BY <1>1, <1>2, <1>3, PTL DEF AlertingSpec
=============================================================================
