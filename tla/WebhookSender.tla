----------------------------- MODULE WebhookSender -----------------------------
(***************************************************************************)
(* src/alerting/webhook_sender.py: the processor thread (critical events)  *)
(* and the aggregator's timer thread (denials) share one sender without a  *)
(* lock.  Each reads the clock, decides on counts it may find out of date, *)
(* posts with retries for as long as that takes, and only then counts what *)
(* it sent.                                                                *)
(***************************************************************************)
EXTENDS Naturals, FiniteSets

CONSTANTS
    WebhookThreads,
    AlertKeys,          \* alert keys each thread uses
    WebhookMax,         \* max_alerts_per_minute
    WebhookCooldown,    \* cooldown_seconds, in ticks
    MinuteTicks,        \* ticks of the clock in a minute
    LastTick            \* bound: the clock's last value

ASSUME WebhookAssumption ==
    /\ IsFiniteSet(WebhookThreads) /\ WebhookThreads # {}
    /\ {WebhookMax, WebhookCooldown, MinuteTicks} \subseteq Nat \ {0}
    /\ LastTick \in Nat

Keys == UNION {AlertKeys[t] : t \in WebhookThreads}
Minute(now) == now \div MinuteTicks
Minutes == 0 .. Minute(LastTick)
Never == LastTick + 1
Idle == [at |-> "idle", key |-> "", time |-> 0]

VARIABLES
    clock,
    minuteBucket,   \* current_minute_bucket
    alertCounts,    \* alert_counts
    lastAlertTime,  \* last_alert_time, Never if the key is not in it
    sending,        \* where each thread is in send_..._alert
    posted          \* ghost: alerts delivered in each minute

webhookVars == <<clock, minuteBucket, alertCounts, lastAlertTime, sending, posted>>

WebhookTypeOK ==
    /\ clock \in 0 .. LastTick
    /\ minuteBucket \in Minutes
    /\ alertCounts \in [Minutes -> Nat]
    /\ \A k \in Keys : lastAlertTime[k] \in 0 .. Never
    /\ \A t \in WebhookThreads :
        \/ sending[t] = Idle
        \/ sending[t] \in [at : {"deciding", "posting"}, key : AlertKeys[t], time : 0 .. LastTick]
    /\ posted \in [Minutes -> Nat]

WebhookInit ==
    /\ clock = 0
    /\ minuteBucket = 0
    /\ alertCounts = [m \in Minutes |-> 0]
    /\ lastAlertTime = [k \in Keys |-> Never]
    /\ sending = [t \in WebhookThreads |-> Idle]
    /\ posted = [m \in Minutes |-> 0]

\* should_send_alert up to its reading of the clock
ReadClock(t, key) ==
    /\ sending[t] = Idle
    /\ sending' = [sending EXCEPT ![t] = [at |-> "deciding", key |-> key, time |-> clock]]
    /\ UNCHANGED <<clock, minuteBucket, alertCounts, lastAlertTime, posted>>

\* Mutated: the bucket's minute is not remembered, every decision resets.
CountsFor_NoBucket(m) == [n \in Minutes |-> 0]

\* The counts a decision made for minute m finds, after the reset of a minute
\* other than the bucket's.
CountsFor(m) == IF m = minuteBucket THEN alertCounts ELSE [n \in Minutes |-> 0]

InCooldown(key, time) ==
    /\ lastAlertTime[key] # Never
    /\ time < lastAlertTime[key] + WebhookCooldown

\* The rest of should_send_alert
Decide(t) ==
    /\ sending[t].at = "deciding"
    /\ LET m     == Minute(sending[t].time)
           allow == /\ CountsFor(m)[m] < WebhookMax
                    /\ ~InCooldown(sending[t].key, sending[t].time)
       IN  /\ alertCounts' = CountsFor(m)
           /\ minuteBucket' = m
           /\ sending' = [sending EXCEPT ![t] =
                            IF allow THEN [@ EXCEPT !.at = "posting"] ELSE Idle]
    /\ UNCHANGED <<clock, lastAlertTime, posted>>

\* _send_webhook succeeds, at last, and the alert is counted in the minute of
\* its success.
PostSucceeds(t) ==
    /\ sending[t].at = "posting"
    /\ alertCounts' = [alertCounts EXCEPT ![Minute(clock)] = @ + 1]
    /\ posted' = [posted EXCEPT ![Minute(clock)] = @ + 1]
    /\ lastAlertTime' = [lastAlertTime EXCEPT ![sending[t].key] = clock]
    /\ sending' = [sending EXCEPT ![t] = Idle]
    /\ UNCHANGED <<clock, minuteBucket>>

\* Every attempt failed: the alert is dropped and nothing counted.
PostFails(t) ==
    /\ sending[t].at = "posting"
    /\ sending' = [sending EXCEPT ![t] = Idle]
    /\ UNCHANGED <<clock, minuteBucket, alertCounts, lastAlertTime, posted>>

ClockTick ==
    /\ clock < LastTick
    /\ clock' = clock + 1
    /\ UNCHANGED <<minuteBucket, alertCounts, lastAlertTime, sending, posted>>

WebhookNext ==
    \/ \E t \in WebhookThreads :
        \/ \E key \in AlertKeys[t] : ReadClock(t, key)
        \/ Decide(t)
        \/ PostSucceeds(t)
        \/ PostFails(t)
    \/ ClockTick

WebhookSpec == WebhookInit /\ [][WebhookNext]_webhookVars

-----------------------------------------------------------------------------
(* Properties *)

\* A thread counts what it sent only after sending it, and one that read the clock
\* before the minute turned resets the counts of the new minute, once for each such
\* thread: up to this many alerts, not max_alerts_per_minute, are delivered in a
\* minute.
WebhookBounded ==
    LET threads == Cardinality(WebhookThreads)
    IN  \A m \in Minutes :
            posted[m] <= threads * WebhookMax + (threads * (threads + 1)) \div 2
=============================================================================
