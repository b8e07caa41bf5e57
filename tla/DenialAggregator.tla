--------------------------- MODULE DenialAggregator ---------------------------
(***************************************************************************)
(* src/aggregation/denial_aggregator.py: denials are counted in buckets by *)
(* the processor thread (add_event), which a timer thread and, at          *)
(* shutdown, the main thread empty into alerts.  The buckets change under  *)
(* a lock, the alerts are produced outside it, one Kafka message at a      *)
(* time, and a webhook call may take long.  A denial is its number; an     *)
(* alert is the set of denials it counts.                                  *)
(***************************************************************************)
EXTENDS Naturals, FiniteSets

CONSTANTS
    BucketKeys,      \* (principal, method, resource)
    HighThreshold,   \* high_threshold
    MaxDenials,      \* bound: denials seen
    ProduceFaults    \* bound: produce() calls that raise

ASSUME AggregatorAssumption ==
    /\ HighThreshold \in Nat \ {0}
    /\ {MaxDenials, ProduceFaults} \subseteq Nat

VARIABLES
    denials,        \* _stats['events_aggregated']
    buckets,        \* _buckets
    flushing,       \* buckets_to_flush of each flusher, until produced
    current,        \* the alert each flusher is in the middle of, {} if none
    place,          \* and what it does next with it
    signals,        \* alerts on signals_topic
    alerts,         \* alerts on alerts_topic
    reported,       \* alerts _produce_alert is done with
    undelivered,    \* alerts given up before the first message was produced
    troubled,       \* ghost: alerts one of whose messages met an exception
    produceFaults,
    closing,        \* progress of shutdown()
    expired,        \* whether the join of the timer expired
    lostAtExit,     \* ghost: denials taken by the timer when the process ended
    early           \* ghost: number of denials when shutdown began

aggregatorVars == <<denials, buckets, flushing, current, place, signals, alerts,
                    reported, undelivered, troubled, produceFaults, closing,
                    expired, lostAtExit, early>>

Flushers == {"timer", "main"}
AlertSets == SUBSET (1 .. MaxDenials)

AggregatorTypeOK ==
    /\ denials \in 0 .. MaxDenials
    /\ buckets \in [BucketKeys -> AlertSets]
    /\ flushing \in [Flushers -> SUBSET AlertSets]
    /\ current \in [Flushers -> AlertSets]
    /\ place \in [Flushers -> {"signals", "alerts", "webhook", "retry"}]
    /\ {signals, alerts, reported, undelivered, troubled} \subseteq SUBSET AlertSets
    /\ produceFaults \in 0 .. ProduceFaults
    /\ closing \in {"no", "joining", "flushing", "producing", "done", "exited"}
    /\ expired \in BOOLEAN
    /\ lostAtExit \in AlertSets
    /\ early \in 0 .. MaxDenials

AggregatorInit ==
    /\ denials = 0
    /\ buckets = [k \in BucketKeys |-> {}]
    /\ flushing = [f \in Flushers |-> {}]
    /\ current = [f \in Flushers |-> {}]
    /\ place = [f \in Flushers |-> "signals"]
    /\ signals = {} /\ alerts = {} /\ reported = {} /\ undelivered = {} /\ troubled = {}
    /\ produceFaults = 0
    /\ closing = "no"
    /\ expired = FALSE
    /\ lostAtExit = {}
    /\ early = 0

produceVars == <<signals, alerts, reported, undelivered, troubled, produceFaults>>
closingVars == <<closing, expired, lostAtExit, early>>

\* add_event.  The processor may outlive its own join and add until the end.
AddDenial(k) ==
    /\ denials < MaxDenials
    /\ closing # "exited"
    /\ denials' = denials + 1
    /\ buckets' = [buckets EXCEPT ![k] = @ \cup {denials + 1}]
    /\ UNCHANGED <<flushing, current, place, produceVars, closingVars>>

Busy(f) == flushing[f] # {}

\* _flush_all_buckets, under the lock.
Take(f) ==
    /\ ~Busy(f)
    /\ flushing' = [flushing EXCEPT ![f] = {buckets[k] : k \in BucketKeys} \ {{}}]
    /\ buckets' = [k \in BucketKeys |-> {}]
    /\ UNCHANGED <<denials, current, place, produceVars>>

\* Mutated: the timer flushes only when a bucket has reached the threshold.
TimerFlush_HighOnly ==
    /\ closing = "no"
    /\ \E k \in BucketKeys : Cardinality(buckets[k]) >= HighThreshold
    /\ Take("timer")
    /\ UNCHANGED closingVars

\* The timer flushes only if its wait ended before the shutdown event was set.
TimerFlush ==
    /\ closing = "no"
    /\ Take("timer")
    /\ UNCHANGED closingVars

IsHigh(alert) == Cardinality(alert) >= HighThreshold

\* Go on with this alert at p, or be done with it.
GoOn(f, alert, p) ==
    /\ current' = [current EXCEPT ![f] = alert]
    /\ place' = [place EXCEPT ![f] = p]
    /\ UNCHANGED <<flushing, reported>>
Done(f, alert) ==
    /\ current' = [current EXCEPT ![f] = {}]
    /\ place' = [place EXCEPT ![f] = "signals"]
    /\ flushing' = [flushing EXCEPT ![f] = @ \ {alert}]
    /\ reported' = reported \cup {alert}

\* Mutated: the second message of a HIGH alert is forgotten.
ProduceSignal_Only(f, alert) ==
    /\ alert \in flushing[f] /\ current[f] = {}
    /\ signals' = signals \cup {alert}
    /\ Done(f, alert)
    /\ UNCHANGED <<denials, buckets, alerts, undelivered, troubled, produceFaults,
                   closingVars>>

\* The first message: a MEDIUM alert has no other.
ProduceSignal(f, alert) ==
    /\ alert \in flushing[f] /\ current[f] = {}
    /\ signals' = signals \cup {alert}
    /\ IF IsHigh(alert) THEN GoOn(f, alert, "alerts") ELSE Done(f, alert)
    /\ UNCHANGED <<denials, buckets, alerts, undelivered, troubled, produceFaults,
                   closingVars>>

\* The second message of a HIGH alert.
ProduceAlert(f) ==
    /\ current[f] # {} /\ place[f] = "alerts"
    /\ alerts' = alerts \cup {current[f]}
    /\ GoOn(f, current[f], "webhook")
    /\ UNCHANGED <<denials, buckets, signals, undelivered, troubled, produceFaults,
                   closingVars>>

\* The webhook; its own failures are swallowed.
SendWebhook(f) ==
    /\ current[f] # {} /\ place[f] = "webhook"
    /\ Done(f, current[f])
    /\ UNCHANGED <<denials, buckets, signals, alerts, undelivered, troubled,
                   produceFaults, closingVars>>

\* BufferError in either produce: poll, then produce the first message (again).
BufferFull(f, alert) ==
    /\ produceFaults < ProduceFaults
    /\ \/ alert \in flushing[f] /\ current[f] = {}
       \/ alert = current[f] /\ alert # {} /\ place[f] = "alerts"
    /\ troubled' = troubled \cup {alert}
    /\ produceFaults' = produceFaults + 1
    /\ GoOn(f, alert, "retry")
    /\ UNCHANGED <<denials, buckets, signals, alerts, undelivered, closingVars>>

RetrySignal(f) ==
    /\ current[f] # {} /\ place[f] = "retry"
    /\ signals' = signals \cup {current[f]}
    /\ Done(f, current[f])
    /\ UNCHANGED <<denials, buckets, alerts, undelivered, troubled, produceFaults,
                   closingVars>>

\* Any other exception, or any in the retry: the alert is given up.
ProduceRaises(f, alert) ==
    /\ produceFaults < ProduceFaults
    /\ \/ alert \in flushing[f] /\ current[f] = {}
       \/ alert = current[f] /\ alert # {} /\ place[f] \in {"alerts", "retry"}
    /\ troubled' = troubled \cup {alert}
    /\ undelivered' = IF alert \in signals THEN undelivered ELSE undelivered \cup {alert}
    /\ produceFaults' = produceFaults + 1
    /\ Done(f, alert)
    /\ UNCHANGED <<denials, buckets, signals, alerts, closingVars>>

\* shutdown(): set the event, join the timer for five seconds, flush.
BeginShutdown ==
    /\ closing = "no"
    /\ closing' = "joining"
    /\ early' = denials
    /\ UNCHANGED <<denials, buckets, flushing, current, place, produceVars, expired,
                   lostAtExit>>

JoinTimer ==
    /\ closing = "joining"
    /\ closing' = "flushing"
    /\ expired' = Busy("timer")
    /\ UNCHANGED <<denials, buckets, flushing, current, place, produceVars, lostAtExit,
                   early>>

FinalTake ==
    /\ closing = "flushing"
    /\ Take("main")
    /\ closing' = "producing"
    /\ UNCHANGED <<expired, lostAtExit, early>>

ShutdownReturns ==
    /\ closing = "producing"
    /\ ~Busy("main")
    /\ closing' = "done"
    /\ UNCHANGED <<denials, buckets, flushing, current, place, produceVars, expired,
                   lostAtExit, early>>

\* main() ends: the timer is a daemon thread and dies with what it has taken.
ProcessExits ==
    /\ closing = "done"
    /\ closing' = "exited"
    /\ lostAtExit' = UNION flushing["timer"]
    /\ flushing' = [flushing EXCEPT !["timer"] = {}]
    /\ current' = [current EXCEPT !["timer"] = {}]
    /\ UNCHANGED <<denials, buckets, place, produceVars, expired, early>>

FlusherNext(f) ==
    \/ \E alert \in flushing[f] :
         ProduceSignal(f, alert) \/ BufferFull(f, alert) \/ ProduceRaises(f, alert)
    \/ ProduceAlert(f) \/ SendWebhook(f) \/ RetrySignal(f)

ShutdownNext == JoinTimer \/ FinalTake \/ ShutdownReturns \/ ProcessExits

AggregatorNext ==
    \/ \E k \in BucketKeys : AddDenial(k)
    \/ TimerFlush
    \/ \E f \in Flushers : FlusherNext(f)
    \/ BeginShutdown
    \/ ShutdownNext

AggregatorSpec == AggregatorInit /\ [][AggregatorNext]_aggregatorVars

-----------------------------------------------------------------------------
(* Properties *)

\* Every denial is counted in exactly one place: a bucket, an alert on its way,
\* a finished alert, or what was lost at exit.  Taking the buckets and adding to
\* them never lose or double one, with two flushers at work.
DenialCountedOnce ==
    \A n \in 1 .. denials :
        Cardinality({k \in BucketKeys : n \in buckets[k]})
        + Cardinality({f \in Flushers : n \in UNION flushing[f]})
        + Cardinality({alert \in reported : n \in alert})
        + Cardinality({n} \cap lostAtExit) = 1

\* A finished HIGH alert is on both topics, and only a HIGH alert is on the
\* second, unless an exception was met while it was produced; and no alert is
\* finished without being on the first or counted as a delivery error.
HighOnBothTopics ==
    /\ \A alert \in reported :
         /\ alert \in signals \cup undelivered
         /\ alert \notin troubled => (alert \in alerts <=> IsHigh(alert))
    /\ alerts \subseteq signals

\* Denials added before the shutdown are reported when shutdown() returns; the
\* only ones that are not are the timer's, when its join expired.
ShutdownFlushesAll ==
    closing \in {"done", "exited"} /\ ~expired =>
        1 .. early \subseteq UNION reported

\* The three together: no denial is lost, doubled or told to half of its readers.
DenialsAccounted == DenialCountedOnce /\ HighOnBothTopics /\ ShutdownFlushesAll

\* While the process lives, the denials in a bucket get reported.
DenialsReported ==
    \A n \in 1 .. MaxDenials :
        n <= denials ~> (n \in UNION reported \/ closing = "exited")
=============================================================================
