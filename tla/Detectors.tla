------------------------------ MODULE Detectors -------------------------------
(***************************************************************************)
(* The three detectors that hang off the processor thread: one per rate,   *)
(* one per burst of failures, one per recurring pattern. They share no     *)
(* state: each has variables, an initial state and a next-state relation   *)
(* of its own.                                                             *)
(***************************************************************************)
EXTENDS Naturals, Sequences, FiniteSets, Ages

-------------------------------------------------------------------------------
(***************************************************************************)
(* src/anomaly/rate_tracker.py: sliding-window counters per principal, the *)
(* addresses each principal is known to use, and a cooldown that keeps one *)
(* anomaly from being reported over and over.  Counters and addresses are  *)
(* kept under the principal as it is spelled in the event ("User:sa-1" or  *)
(* "sa-1"), the cooldown under the person the spellings share.             *)
(*                                                                         *)
(* The processor thread makes every call, so calls do not interleave.      *)
(* Time is kept as ages.                                                   *)
(***************************************************************************)

CONSTANTS
    Spellings,      \* principals as events name them
    Persons,        \* normalized principals
    Person,         \* _normalize_principal_for_compare
    Whitelist,      \* persons in whitelist_principals
    Addresses,      \* values of clientIp
    Kinds,          \* detections that count events
    SpikeAt,        \* threshold of each kind
    RateSpan,       \* window_seconds
    Cooldown,       \* dedup_window_seconds
    KnownIpsMax,    \* maxsize of the LRU cache of known addresses
    MaxPerWindow    \* bound: events of one spelling held in a counter

ASSUME TrackerAssumption ==
    /\ Person \in [Spellings -> Persons]
    /\ Whitelist \subseteq Persons
    /\ SpikeAt \in [Kinds -> Nat \ {0}]
    /\ {RateSpan, Cooldown, KnownIpsMax, MaxPerWindow} \subseteq Nat \ {0}

Reports == (Kinds \cup {"new_source_ip"}) \X Persons

VARIABLES
    counter,        \* per kind and spelling: ages of the events counted
    knownIps,       \* _known_ips: addresses per spelling in the cache
    recentlyUsed,   \* its spellings, least recently used first
    recentAlerts,   \* _recent_alerts: ages per report, 2 * Cooldown if absent
    suppressed,     \* _suppressed_counts: reports with a tally
    alertAge        \* ghost: time since each report was last emitted

trackerVars == <<counter, knownIps, recentlyUsed, recentAlerts, suppressed,
                 alertAge>>

Forgotten == 2 * Cooldown

TrackerTypeOK ==
    /\ counter \in [Kinds \X Spellings -> Seq(0 .. RateSpan - 1)]
    /\ knownIps \in [Spellings -> SUBSET Addresses]
    /\ recentlyUsed \in Seq(Spellings) /\ Len(recentlyUsed) <= KnownIpsMax
    /\ recentAlerts \in [Reports -> 0 .. Forgotten]
    /\ suppressed \subseteq Reports
    /\ alertAge \in [Reports -> 0 .. RateSpan + Cooldown]

TrackerInit ==
    /\ counter = [ks \in Kinds \X Spellings |-> <<>>]
    /\ knownIps = [s \in Spellings |-> {}]
    /\ recentlyUsed = <<>>
    /\ recentAlerts = [r \in Reports |-> Forgotten]
    /\ suppressed = {}
    /\ alertAge = [r \in Reports |-> RateSpan + Cooldown]

\* RateCounter.add_event; the ages a tick has dropped are gone already.
AddEvent(s, kinds) ==
    [ks \in DOMAIN counter |->
        IF ks[1] \in kinds /\ ks[2] = s THEN Append(counter[ks], 0) ELSE counter[ks]]

\* The addresses' cache answers a lookup and marks the spelling as used.
KnownOf(s) == IF s \in {recentlyUsed[i] : i \in DOMAIN recentlyUsed}
              THEN knownIps[s] ELSE {}

\* A spelling that is used is the last, wherever it was before.
Touched(s) ==
    LET places == {i \in DOMAIN recentlyUsed : recentlyUsed[i] = s}
        place  == CHOOSE i \in places : TRUE
        others == IF places = {} THEN recentlyUsed
                  ELSE SubSeq(recentlyUsed, 1, place - 1)
                         \o SubSeq(recentlyUsed, place + 1, Len(recentlyUsed))
    IN  Append(others, s)

\* LRUCache.__setitem__: the least recently used spelling makes room.
Remember(s, ip) ==
    LET used == IF Len(Touched(s)) > KnownIpsMax THEN Tail(Touched(s)) ELSE Touched(s)
    IN  /\ recentlyUsed' = used
        /\ knownIps' = [t \in Spellings |->
                          IF t = s THEN KnownOf(s) \cup {ip}
                          ELSE IF \E i \in DOMAIN used : used[i] = t
                               THEN knownIps[t] ELSE {}]

RememberNothing(s, ip) ==
    /\ ip \in KnownOf(s)
    /\ recentlyUsed' = Touched(s)
    /\ UNCHANGED knownIps

\* What track_event finds to report about the event: the kinds at their
\* threshold, and an address that is new to a principal with a history.
Anomalies(s, ip, kinds) ==
    {k \in kinds : Len(counter[k, s]) + 1 >= SpikeAt[k]}
      \cup {k \in {"new_source_ip"} : KnownOf(s) # {} /\ ip \notin KnownOf(s)}

\* Mutated: a report cools down for as long as it is remembered.
CoolingDown_Twice(r) == recentAlerts[r] < 2 * Cooldown

\* _should_alert
CoolingDown(r) == recentAlerts[r] < Cooldown

\* _should_alert, its cleanup of old entries: run when an alert is recorded.
Swept(alerts) == [r \in Reports |-> IF alerts[r] < Forgotten THEN alerts[r] ELSE Forgotten]

\* track_event
TrackEvent(s, ip, kinds) ==
    /\ Person[s] \notin Whitelist
    /\ \A k \in kinds : Len(counter[k, s]) < MaxPerWindow
    /\ LET found   == Anomalies(s, ip, kinds) \X {Person[s]}
           silent  == {r \in found : CoolingDown(r)}
           emitted == found \ silent
       IN /\ recentAlerts' = Swept([r \in Reports |->
                                      IF r \in emitted THEN 0 ELSE recentAlerts[r]])
          /\ alertAge' = [r \in Reports |-> IF r \in emitted THEN 0 ELSE alertAge[r]]
          /\ suppressed' = suppressed \cup silent
    /\ counter' = AddEvent(s, kinds)
    /\ IF ip \in KnownOf(s) THEN RememberNothing(s, ip) ELSE Remember(s, ip)

\* flush_suppression_summary, and cleanup before it: counters without events
\* are deleted, which an empty sequence stands for.
FlushSummary ==
    /\ suppressed # {}
    /\ suppressed' = {}
    /\ UNCHANGED <<counter, knownIps, recentlyUsed, recentAlerts, alertAge>>

AgedUpTo(age, limit) == IF age < limit THEN age + 1 ELSE limit

TrackerTick ==
    /\ \E gone \in [Kinds \X Spellings -> 0 .. MaxPerWindow] :
          /\ \A ks \in Kinds \X Spellings : Leave(gone[ks], counter[ks], RateSpan - 1)
          /\ counter' = [ks \in Kinds \X Spellings |-> Aged(counter[ks], gone[ks])]
    /\ recentAlerts' = [r \in Reports |-> AgedUpTo(recentAlerts[r], Forgotten)]
    /\ alertAge' = [r \in Reports |-> AgedUpTo(alertAge[r], RateSpan + Cooldown)]
    /\ UNCHANGED <<knownIps, recentlyUsed, suppressed>>

TrackerNext ==
    \/ \E s \in Spellings, ip \in Addresses, kinds \in SUBSET Kinds : TrackEvent(s, ip, kinds)
    \/ FlushSummary
    \/ TrackerTick

TrackerSpec == TrackerInit /\ [][TrackerNext]_trackerVars

-----------------------------------------------------------------------------
(* Properties *)

\* While a principal's events keep a counter at its threshold, the person has
\* been reported for it: within the cooldown before the newest of those events.
SpikeReported ==
    \A k \in Kinds, s \in Spellings :
        LET ages == counter[k, s]
        IN  Len(ages) >= SpikeAt[k] =>
                alertAge[k, Person[s]] < ages[Len(ages)] + Cooldown

\* A spike is reported in time, and two reports of one kind about one person,
\* whatever the spelling or address of the events, are at least the cooldown
\* apart: neither the sweep of old alerts nor another spelling's alert hides one
\* for longer (_should_alert, _check_auth_failure_spike and the other checks).
SpikeReportedOnce ==
    [][/\ SpikeReported'
       /\ \A r \in Reports :
            alertAge'[r] = 0 /\ alertAge[r] # 0 => alertAge[r] >= Cooldown]_trackerVars

-------------------------------------------------------------------------------
(***************************************************************************)
(* src/product/burst_detector.py: a window of failures per actor; reaching *)
(* the threshold raises one system alert and empties the window.  Ages     *)
(* stand for timestamps, newest last.                                      *)
(***************************************************************************)

CONSTANTS
    Actors,
    BurstAt,        \* _count_threshold
    BurstSpan,      \* _window_seconds
    MaxFailures     \* bound: failures of an actor within the window

ASSUME BurstAssumption == {BurstAt, BurstSpan, MaxFailures} \subseteq Nat \ {0}

VARIABLES
    failures,       \* _failures
    past,           \* ghost: every failure of the window, counted or not
    burstAge        \* ghost: time since the actor's last burst, up to BurstSpan + 1

burstVars == <<failures, past, burstAge>>

BurstTypeOK ==
    /\ failures \in [Actors -> Seq(0 .. BurstSpan)]
    /\ \A a \in Actors : Len(failures[a]) < BurstAt
    /\ past \in [Actors -> Seq(0 .. BurstSpan)]
    /\ burstAge \in [Actors -> 0 .. BurstSpan + 1]

BurstInit ==
    /\ failures = [a \in Actors |-> <<>>]
    /\ past = failures
    /\ burstAge = [a \in Actors |-> BurstSpan + 1]

\* Mutated: a burst does not empty the window.
RecordFailure_KeepWindow(a) ==
    LET ages == Append(failures[a], 0)
    IN  /\ Len(past[a]) < MaxFailures
        /\ past' = [past EXCEPT ![a] = Append(@, 0)]
        /\ \/ /\ Len(ages) >= BurstAt
              /\ failures' = [failures EXCEPT ![a] = ages]
              /\ burstAge' = [burstAge EXCEPT ![a] = 0]
           \/ /\ Len(ages) < BurstAt
              /\ failures' = [failures EXCEPT ![a] = ages]
              /\ UNCHANGED burstAge

\* Mutated: the burst is raised above the threshold only.
RecordFailure_Above(a) ==
    LET ages == Append(failures[a], 0)
    IN  /\ Len(past[a]) < MaxFailures
        /\ past' = [past EXCEPT ![a] = Append(@, 0)]
        /\ \/ /\ Len(ages) > BurstAt
              /\ failures' = [failures EXCEPT ![a] = <<>>]
              /\ burstAge' = [burstAge EXCEPT ![a] = 0]
           \/ /\ Len(ages) <= BurstAt
              /\ failures' = [failures EXCEPT ![a] = ages]
              /\ UNCHANGED burstAge

\* record.  The window is emptied before the alert is sent, and stays empty when
\* send_system_alert reaches no destination.
RecordFailure(a) ==
    LET ages == Append(failures[a], 0)
    IN  /\ Len(past[a]) < MaxFailures
        /\ past' = [past EXCEPT ![a] = Append(@, 0)]
        /\ \/ /\ Len(ages) >= BurstAt
              /\ failures' = [failures EXCEPT ![a] = <<>>]
              /\ burstAge' = [burstAge EXCEPT ![a] = 0]
           \/ /\ Len(ages) < BurstAt
              /\ failures' = [failures EXCEPT ![a] = ages]
              /\ UNCHANGED burstAge

\* A failure exactly as old as the window still counts.
BurstTick ==
    /\ \E gone \in [Actors -> 0 .. MaxFailures] :
          /\ \A a \in Actors : Leave(gone[a], failures[a], BurstSpan)
          /\ failures' = [a \in Actors |-> Aged(failures[a], gone[a])]
    /\ \E gone \in [Actors -> 0 .. MaxFailures] :
          /\ \A a \in Actors : Leave(gone[a], past[a], BurstSpan)
          /\ past' = [a \in Actors |-> Aged(past[a], gone[a])]
    /\ burstAge' = [a \in Actors |-> IF burstAge[a] <= BurstSpan
                                     THEN burstAge[a] + 1 ELSE burstAge[a]]

BurstNext == BurstTick \/ \E a \in Actors : RecordFailure(a)

BurstSpec == BurstInit /\ [][BurstNext]_burstVars

-----------------------------------------------------------------------------
(* Properties *)

\* An actor with as many failures in the window as the threshold has been
\* alerted about within it, although each alert throws away what it counted.
BurstCaught ==
    \A a \in Actors : Len(past[a]) >= BurstAt => burstAge[a] <= BurstSpan

-------------------------------------------------------------------------------
(***************************************************************************)
(* src/product/pattern_detector.py: occurrences of (actor, action,         *)
(* resource) in a sliding window; the processor thread detects, a writer   *)
(* thread records what it finds in a bounded queue.  Ages stand for        *)
(* timestamps, newest last.                                                *)
(***************************************************************************)

CONSTANTS
    Patterns,
    PatternThreshold,   \* THRESHOLD
    PatternSpan,        \* WINDOW_SECONDS
    PatternQueueMax,    \* maxsize of _queue
    MaxOccurrences      \* bound: occurrences of a pattern within the window

NoPattern == "no pattern"

ASSUME PatternAssumption ==
    /\ {PatternThreshold, PatternSpan, PatternQueueMax, MaxOccurrences} \subseteq Nat \ {0}
    /\ NoPattern \notin Patterns

VARIABLES
    occurrences,    \* _counts
    patternQueue,   \* _queue
    upserting,      \* the item of _writer_loop
    patternTable,   \* audit_event_patterns: the patterns it has a row of
    patternLost     \* ghost: dropped for a full queue, or its upsert failed

patternVars == <<occurrences, patternQueue, upserting, patternTable, patternLost>>

PatternTypeOK ==
    /\ occurrences \in [Patterns -> Seq(0 .. PatternSpan - 1)]
    /\ patternQueue \in Seq(Patterns) /\ Len(patternQueue) <= PatternQueueMax
    /\ upserting \in Patterns \cup {NoPattern}
    /\ patternTable \subseteq Patterns
    /\ patternLost \subseteq Patterns

PatternInit ==
    /\ occurrences = [p \in Patterns |-> <<>>]
    /\ patternQueue = <<>>
    /\ upserting = NoPattern
    /\ patternTable = {}
    /\ patternLost = {}

\* Mutated: off by one at the threshold.
Crossing_TwoAbove(p, count) ==
    \/ /\ count = PatternThreshold + 2
       /\ Len(patternQueue) < PatternQueueMax
       /\ patternQueue' = Append(patternQueue, p)
       /\ UNCHANGED patternLost
    \/ /\ count = PatternThreshold + 2
       /\ Len(patternQueue) >= PatternQueueMax
       /\ patternLost' = patternLost \cup {p}
       /\ UNCHANGED patternQueue
    \/ /\ count # PatternThreshold + 2
       /\ UNCHANGED <<patternQueue, patternLost>>

\* put_nowait, when the count of a pattern stands just above the threshold
Crossing(p, count) ==
    \/ /\ count = PatternThreshold + 1
       /\ Len(patternQueue) < PatternQueueMax
       /\ patternQueue' = Append(patternQueue, p)
       /\ UNCHANGED patternLost
    \/ /\ count = PatternThreshold + 1
       /\ Len(patternQueue) >= PatternQueueMax
       /\ patternLost' = patternLost \cup {p}
       /\ UNCHANGED patternQueue
    \/ /\ count # PatternThreshold + 1
       /\ UNCHANGED <<patternQueue, patternLost>>

\* record
RecordOccurrence(p) ==
    /\ Len(occurrences[p]) < MaxOccurrences
    /\ occurrences' = [occurrences EXCEPT ![p] = Append(@, 0)]
    /\ Crossing(p, Len(occurrences[p]) + 1)
    /\ UNCHANGED <<upserting, patternTable>>

\* _writer_loop
TakePattern ==
    /\ upserting = NoPattern
    /\ patternQueue # <<>>
    /\ upserting' = Head(patternQueue)
    /\ patternQueue' = Tail(patternQueue)
    /\ UNCHANGED <<occurrences, patternTable, patternLost>>

\* _upsert_pattern, which may fail: the item is not put back.
UpsertPattern ==
    /\ upserting # NoPattern
    /\ upserting' = NoPattern
    /\ \/ /\ patternTable' = patternTable \cup {upserting}
          /\ UNCHANGED patternLost
       \/ /\ patternLost' = patternLost \cup {upserting}
          /\ UNCHANGED patternTable
    /\ UNCHANGED <<occurrences, patternQueue>>

PatternTick ==
    /\ \E gone \in [Patterns -> 0 .. MaxOccurrences] :
          /\ \A p \in Patterns : Leave(gone[p], occurrences[p], PatternSpan - 1)
          /\ occurrences' = [p \in Patterns |-> Aged(occurrences[p], gone[p])]
    /\ UNCHANGED <<patternQueue, upserting, patternTable, patternLost>>

PatternNext ==
    \/ \E p \in Patterns : RecordOccurrence(p)
    \/ TakePattern
    \/ UpsertPattern
    \/ PatternTick

PatternSpec == PatternInit /\ [][PatternNext]_patternVars

-----------------------------------------------------------------------------
(* Properties *)

\* A pattern that stands above the threshold is in the table or on its way
\* there, unless the queue was full or the database refused it, although only one
\* count out of all those above the threshold is reported (record).
PatternKept ==
    \A p \in Patterns : Len(occurrences[p]) > PatternThreshold =>
        \/ p \in patternTable \cup patternLost \cup {upserting}
        \/ \E i \in DOMAIN patternQueue : patternQueue[i] = p
===============================================================================
