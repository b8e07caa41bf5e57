------------------------------- MODULE Notifier -------------------------------
(***************************************************************************)
(* src/notifications/notifier.py: what becomes of the events passed to     *)
(* notify().  The processor thread calls it, a rate timer and a digest     *)
(* timer work beside it, and each message is delivered by a thread of its  *)
(* own.  Destinations share nothing but the configuration file, so the     *)
(* module follows one of them.  Time is kept as ages.                      *)
(***************************************************************************)
EXTENDS Naturals, Sequences, FiniteSets

CONSTANTS
    Fingerprints,   \* values of event_fingerprint
    RateLimit,      \* rate_limit_per_minute
    RateWindow,     \* RATE_LIMIT_WINDOW_SECONDS
    DedupWindow,    \* DEDUP_WINDOW_SECONDS
    PruneEvery,     \* DEDUP_PRUNE_EVERY_N_CALLS
    MaxAttempts,    \* len(RETRY_BACKOFFS_SECONDS) + 1
    DigestMax,      \* DIGEST_BUFFER_MAX
    SlackDigest,    \* whether the destination is of type slack
    MaxNotifies,    \* bound: events accepted for the destination
    MaxReloads      \* bound: configuration changes

ASSUME NotifierAssumption ==
    /\ {RateLimit, RateWindow, DedupWindow, PruneEvery, MaxAttempts, DigestMax}
         \subseteq Nat \ {0}
    /\ SlackDigest \in BOOLEAN
    /\ {MaxNotifies, MaxReloads} \subseteq Nat

VARIABLES
    mode,           \* of the destination; "off" when disabled or not listed
    reloads,
    rate,           \* _rate_state: age of window_start, sent, suppressed events
    dedupAge,       \* _dedup: age per fingerprint, DedupWindow if not recorded
    dedupCalls,     \* _call_count
    digestBuffer,   \* _digest_buffer
    pastSchedule,   \* whether today's digest_schedule has passed
    digestSent,     \* _digest_last_sent is today
    senders,        \* threads that deliver something
    fate,           \* ghost: what became of each event so far
    dispatches      \* ghost: single events handed to a thread, with their age

notifierVars == <<mode, reloads, rate, dedupAge, dedupCalls, digestBuffer,
                  pastSchedule, digestSent, senders, fate, dispatches>>

Modes == {"realtime", "digest", "off"}
Pending == {"held", "buffered", "sending"}
Final == {"told", "gaveup", "duplicate", "pushedout", "untold"}

NotifierTypeOK ==
    /\ mode \in Modes
    /\ reloads \in 0 .. MaxReloads
    /\ rate \in [live : BOOLEAN, age : 0 .. RateWindow, sent : 0 .. RateLimit,
                 suppressed : SUBSET (1 .. MaxNotifies)]
    /\ dedupAge \in [Fingerprints -> 0 .. DedupWindow]
    /\ dedupCalls \in 0 .. PruneEvery - 1
    /\ digestBuffer \in Seq(1 .. MaxNotifies) /\ Len(digestBuffer) <= DigestMax
    /\ pastSchedule \in BOOLEAN /\ digestSent \in BOOLEAN
    /\ senders \subseteq [kind : {"event", "summary", "digest"},
                          of : SUBSET (1 .. MaxNotifies), attempt : 1 .. MaxAttempts]
    /\ fate \in Seq(Pending \cup Final) /\ Len(fate) <= MaxNotifies
    /\ \A i \in DOMAIN dispatches : dispatches[i].fp \in Fingerprints

NewWindow == [live |-> TRUE, age |-> 0, sent |-> 0, suppressed |-> {}]

NotifierInit ==
    /\ mode = "realtime"
    /\ reloads = 0
    /\ rate = [NewWindow EXCEPT !.live = FALSE]
    /\ dedupAge = [fp \in Fingerprints |-> DedupWindow]
    /\ dedupCalls = 0
    /\ digestBuffer = <<>>
    /\ pastSchedule = FALSE
    /\ digestSent = FALSE
    /\ senders = {}
    /\ fate = <<>>
    /\ dispatches = <<>>

Sender(kind, events) == [kind |-> kind, of |-> events, attempt |-> 1]

Become(fates, events, value) ==
    [i \in DOMAIN fates |-> IF i \in events THEN value ELSE fates[i]]

-----------------------------------------------------------------------------
(* notify *)

WindowOver == ~rate.live \/ rate.age >= RateWindow

\* Mutated: pruning uses the window of the rate limit.
Pruned_RateWindow(ages) ==
    [fp \in Fingerprints |-> IF ages[fp] >= RateWindow THEN DedupWindow ELSE ages[fp]]

\* _prune_dedup_locked forgets what is no longer a duplicate.
Pruned(ages) ==
    [fp \in Fingerprints |-> IF ages[fp] >= DedupWindow THEN DedupWindow ELSE ages[fp]]

\* _check_and_record_dedup for a fingerprint that is no duplicate.
RecordDedup(fp) ==
    LET prune == dedupCalls + 1 >= PruneEvery
        recorded == [dedupAge EXCEPT ![fp] = 0]
    IN /\ dedupCalls' = IF prune THEN 0 ELSE dedupCalls + 1
       /\ dedupAge' = IF prune THEN Pruned(recorded) ELSE recorded

\* The realtime branch: take a slot of the window, then test for a duplicate.
\* A window that is over yields the summary of what it suppressed.
SendOrSuppress(n, fp) ==
    LET window == IF WindowOver THEN NewWindow ELSE rate
        summary == IF WindowOver THEN rate.suppressed ELSE {}
        summaries == IF summary = {} THEN {} ELSE {Sender("summary", summary)}
        known == Become(fate, summary, "sending")
    IN \/ /\ window.sent >= RateLimit
          /\ rate' = [window EXCEPT !.suppressed = @ \cup {n}]
          /\ fate' = Append(known, "held")
          /\ senders' = senders \cup summaries
          /\ UNCHANGED <<dedupAge, dedupCalls, dispatches>>
       \/ /\ window.sent < RateLimit
          /\ dedupAge[fp] < DedupWindow
          /\ rate' = [window EXCEPT !.sent = @ + 1]
          /\ fate' = Append(known, "duplicate")
          /\ senders' = senders \cup summaries
          /\ UNCHANGED <<dedupAge, dedupCalls, dispatches>>
       \/ /\ window.sent < RateLimit
          /\ dedupAge[fp] >= DedupWindow
          /\ rate' = [window EXCEPT !.sent = @ + 1]
          /\ RecordDedup(fp)
          /\ fate' = Append(known, "sending")
          /\ senders' = senders \cup summaries \cup {Sender("event", {n})}
          /\ dispatches' = Append(dispatches, [fp |-> fp, age |-> 0])

\* _append_to_digest_buffer: the oldest event makes room.
AppendToDigest(n) ==
    LET full == Len(digestBuffer) >= DigestMax
        kept == IF full THEN Tail(digestBuffer) ELSE digestBuffer
        dropped == IF full THEN {Head(digestBuffer)} ELSE {}
    IN /\ digestBuffer' = Append(kept, n)
       /\ fate' = Append(Become(fate, dropped, "pushedout"), "buffered")

\* What notifications.yml may say: it is read or not, lists the destination or not, and the entry
\* is usable unless its type, its address or its filters are not.
ConfigFiles ==
    [read : BOOLEAN, listed : BOOLEAN, usable : BOOLEAN, enabled : BOOLEAN,
     type : IF SlackDigest THEN {"slack"} ELSE {"teams", "webhook", "pagerduty"},
     mode : {"realtime", "digest", "anything else"}]

\* _parse_destination skips what is not usable; a mode that is none, and a digest for PagerDuty,
\* is realtime.
ParseDestination(entry) ==
    IF ~entry.usable \/ ~entry.enabled THEN "off"
    ELSE IF entry.mode = "digest" /\ entry.type # "pagerduty" THEN "digest" ELSE "realtime"

\* _load_config: a file that says nothing of the destination takes it away.
LoadConfig(file) == IF file.read /\ file.listed THEN ParseDestination(file) ELSE "off"

Loadable == {LoadConfig(file) : file \in ConfigFiles}

\* notify, with the reload it may begin with.
Notify(fp) ==
    LET n == Len(fate) + 1
    IN /\ n <= MaxNotifies
       /\ mode' \in IF reloads < MaxReloads THEN Loadable ELSE {mode}
       /\ reloads' = IF mode' = mode THEN reloads ELSE reloads + 1
       /\ \/ /\ mode' = "off"
             /\ UNCHANGED <<rate, dedupAge, dedupCalls, digestBuffer, senders,
                            fate, dispatches>>
          \/ /\ mode' = "digest"
             /\ AppendToDigest(n)
             /\ UNCHANGED <<rate, dedupAge, dedupCalls, senders, dispatches>>
          \/ /\ mode' = "realtime"
             /\ SendOrSuppress(n, fp)
             /\ UNCHANGED digestBuffer
       /\ UNCHANGED <<pastSchedule, digestSent>>

-----------------------------------------------------------------------------
(* Timers and senders *)

\* Mutated: the timer rolls the window and tells nobody.
FlushExpiredWindow_Silent ==
    /\ rate.live
    /\ rate.age >= RateWindow
    /\ rate' = NewWindow
    /\ \/ /\ rate.suppressed = {}
          /\ UNCHANGED <<senders, fate>>
       \/ /\ rate.suppressed # {}
          /\ FALSE
          /\ senders' = senders \cup {Sender("summary", rate.suppressed)}
          /\ fate' = Become(fate, rate.suppressed, "sending")
       \/ /\ rate.suppressed # {}
          /\ TRUE
          /\ UNCHANGED fate
          /\ UNCHANGED senders
    /\ UNCHANGED <<mode, reloads, dedupAge, dedupCalls, digestBuffer, pastSchedule,
                   digestSent, dispatches>>

\* _flush_expired_windows
FlushExpiredWindow ==
    /\ rate.live
    /\ rate.age >= RateWindow
    /\ rate' = NewWindow
    /\ \/ /\ rate.suppressed = {}
          /\ UNCHANGED <<senders, fate>>
       \/ /\ rate.suppressed # {}
          /\ mode # "off"
          /\ senders' = senders \cup {Sender("summary", rate.suppressed)}
          /\ fate' = Become(fate, rate.suppressed, "sending")
       \/ /\ rate.suppressed # {}
          /\ mode = "off"
          /\ fate' = Become(fate, rate.suppressed, "untold")
          /\ UNCHANGED senders
    /\ UNCHANGED <<mode, reloads, dedupAge, dedupCalls, digestBuffer, pastSchedule,
                   digestSent, dispatches>>

\* _maybe_send_digests: the buffer is taken and the day marked before sending.
SendDigest ==
    LET events == {digestBuffer[i] : i \in DOMAIN digestBuffer}
    IN /\ mode = "digest"
       /\ pastSchedule
       /\ ~digestSent
       /\ digestBuffer' = <<>>
       /\ digestSent' = TRUE
       /\ senders' = IF events = {} THEN senders ELSE senders \cup {Sender("digest", events)}
       /\ fate' = Become(fate, events, "sending")
       /\ UNCHANGED <<mode, reloads, rate, dedupAge, dedupCalls, pastSchedule, dispatches>>

\* A digest for Slack is posted once, everything else goes through _send_with_retry.
AttemptsFor(s) == IF s.kind = "digest" /\ SlackDigest THEN 1 ELSE MaxAttempts

Delivered(s) ==
    /\ s \in senders
    /\ senders' = senders \ {s}
    /\ fate' = Become(fate, s.of, "told")
    /\ UNCHANGED <<mode, reloads, rate, dedupAge, dedupCalls, digestBuffer,
                   pastSchedule, digestSent, dispatches>>

\* A failed attempt is repeated until there are no more, or until the thread's
\* time is up before the next one.
AttemptFails(s) ==
    /\ s \in senders
    /\ \/ /\ s.attempt < AttemptsFor(s)
          /\ senders' = (senders \ {s}) \cup {[s EXCEPT !.attempt = @ + 1]}
          /\ UNCHANGED fate
       \/ /\ s.attempt = AttemptsFor(s) \/ s.attempt > 1
          /\ senders' = senders \ {s}
          /\ fate' = Become(fate, s.of, "gaveup")
    /\ UNCHANGED <<mode, reloads, rate, dedupAge, dedupCalls, digestBuffer,
                   pastSchedule, digestSent, dispatches>>

Later(age, limit) == IF age < limit THEN age + 1 ELSE age

\* A dispatch no limit looks at any more; the oldest are first.
OldNews(age) == age >= DedupWindow /\ age >= RateWindow

NotifierTick ==
    /\ rate' = [rate EXCEPT !.age = Later(@, RateWindow)]
    /\ dedupAge' = [f \in Fingerprints |-> Later(dedupAge[f], DedupWindow)]
    /\ \E n \in 0 .. Len(dispatches) :
          /\ \A i \in DOMAIN dispatches : OldNews(dispatches[i].age + 1) <=> i <= n
          /\ dispatches' = [i \in 1 .. Len(dispatches) - n |->
                              [dispatches[i + n] EXCEPT !.age = @ + 1]]
    /\ UNCHANGED <<mode, reloads, dedupCalls, digestBuffer, pastSchedule, digestSent,
                   senders, fate>>

\* The schedule passes, and midnight begins another day.
DayTick ==
    /\ pastSchedule' = ~pastSchedule
    /\ digestSent' = (digestSent /\ ~pastSchedule)
    /\ UNCHANGED <<mode, reloads, rate, dedupAge, dedupCalls, digestBuffer, senders,
                   fate, dispatches>>

NotifierNext ==
    \/ \E fp \in Fingerprints : Notify(fp)
    \/ FlushExpiredWindow
    \/ SendDigest
    \/ \E s \in senders : Delivered(s) \/ AttemptFails(s)
    \/ NotifierTick
    \/ DayTick

NotifierSpec == NotifierInit /\ [][NotifierNext]_notifierVars

-----------------------------------------------------------------------------
(* Properties *)

Recent(limit) == {i \in DOMAIN dispatches : dispatches[i].age < limit}

\* However the calls, the lazy roll of the window and the timer's roll
\* interleave, any stretch of time as long as the window sees at most the
\* events of two windows, RateLimit each (_consume_rate_slot,
\* _flush_expired_windows).
BurstBounded == Cardinality(Recent(RateWindow)) <= 2 * RateLimit

\* No destination hears of the same fingerprint twice within the duplicate
\* window, pruning and rate limiting notwithstanding.
NoRepeatWithinWindow ==
    \A i, j \in Recent(DedupWindow) :
        dispatches[i].fp = dispatches[j].fp => i = j

\* The two limits hold together, although the rate slot of an event is consumed
\* before its duplicate is looked for (notify).
NotTooOften == BurstBounded /\ NoRepeatWithinWindow

\* An event that was accepted is not forgotten: what the rate limit held back is
\* summarised, what was buffered is in a digest while the destination stays in
\* digest mode, and every sender ends.
Unsettled(n) == /\ n \in DOMAIN fate
                /\ fate[n] \in Pending
                /\ ~(fate[n] = "buffered" /\ mode # "digest")
NothingForgotten == \A n \in 1 .. MaxNotifies : Unsettled(n) ~> ~Unsettled(n)
=============================================================================
