------------------------------- MODULE Summaries -------------------------------
(***************************************************************************)
(* The summary of the API and the narrative built on it: several           *)
(* statements on a table the writers and the retention change in between,  *)
(* then one call to Claude, whose answer is cached.                        *)
(*                                                                         *)
(* One time window, and of the many tables of the answer those that can    *)
(* disagree: the total, the failures, and the counts by signal.  The AI is *)
(* enabled and has its key.                                                *)
(***************************************************************************)
EXTENDS Integers, FiniteSets, Sequences

CONSTANTS
    EventKinds,     \* what the events can be: [signal, failed]
    ScanLimit,      \* SUMMARY_SCAN_LIMIT, SIGNAL_FILTER_MAX_SCAN
    Askers,         \* the requests under way
    NarrativeTtl,   \* AI_CACHE_TTL
    LastHour,       \* bound on the time
    MaxEvents, MaxAsked     \* bounds on events and requests

ASSUME SummariesAssumption ==
    /\ EventKinds \subseteq [signal : {"action_required", "attention", "noise"}, failed : BOOLEAN]
    /\ ScanLimit \in Nat \ {0} /\ {NarrativeTtl, LastHour, MaxEvents, MaxAsked} \subseteq Nat

Signals == {"action_required", "attention", "noise"}
NoNarrative == [made |-> FALSE, about |-> {}, from |-> 0, putAt |-> 0]

VARIABLES
    kindOf,         \* the events ever stored, by their place in time
    oldest,         \* the first that retention has left
    ask,            \* request -> what it is for, and how far it is
    count,          \* request -> the figures of its first statement
    scanFound,           \* request -> the events of its second
    still,          \* ghost: nothing was stored or removed between the two
    narrative,      \* the cache, for the window
    hour, asked
summaryTable == <<kindOf, oldest>>
askVars == <<ask, count, scanFound, still>>
summariesVars == <<summaryTable, askVars, narrative, hour, asked>>

InTable == oldest .. Len(kindOf)
NewestEvents(n) == {e \in InTable : e > Len(kindOf) - n}
NoCount == [total |-> 0, failures |-> 0]
NotAsked == [stage |-> "idle", filter |-> Signals, ai |-> FALSE, from |-> 0]

SummariesTypeOK ==
    /\ kindOf \in Seq(EventKinds) /\ Len(kindOf) <= MaxEvents
    /\ oldest \in 1 .. Len(kindOf) + 1
    /\ ask \in [Askers -> [stage : {"idle", "counting", "scanning", "claude", "answered"},
                           filter : SUBSET Signals, ai : BOOLEAN, from : 0 .. MaxEvents]]
    /\ count \in [Askers -> [total : 0 .. MaxEvents, failures : 0 .. MaxEvents]]
    /\ scanFound \in [Askers -> SUBSET (1 .. Len(kindOf))] /\ still \in [Askers -> BOOLEAN]
    /\ narrative \in [made : BOOLEAN, about : SUBSET (1 .. Len(kindOf)), from : 0 .. MaxEvents,
                     putAt : 0 .. hour]
    /\ hour \in 0 .. LastHour /\ asked \in 0 .. MaxAsked

SummariesInit ==
    /\ kindOf = <<>> /\ oldest = 1
    /\ ask = [c \in Askers |-> NotAsked] /\ count = [c \in Askers |-> NoCount]
    /\ scanFound = [c \in Askers |-> {}] /\ still = [c \in Askers |-> TRUE]
    /\ narrative = NoNarrative /\ hour = 0 /\ asked = 0

-----------------------------------------------------------------------------
(* get_summary *)

Filtered(c) == ask[c].filter # Signals
At(c, stage) == ask[c].stage = stage
Moves(c, stage) == ask' = [ask EXCEPT ![c].stage = stage]

AskSummary(c, filter, ai) ==
    /\ asked < MaxAsked /\ asked' = asked + 1
    /\ ask[c].stage \in {"idle", "answered"}
    /\ ai => filter = Signals
    /\ ask' = [ask EXCEPT ![c] = [stage |-> "counting", filter |-> filter, ai |-> ai,
                                  from |-> Len(kindOf)]]
    /\ count' = [count EXCEPT ![c] = NoCount] /\ scanFound' = [scanFound EXCEPT ![c] = {}]
    /\ still' = [still EXCEPT ![c] = TRUE]
    /\ UNCHANGED <<summaryTable, narrative, hour>>

\* One statement counts the window's events and, unless a filter has to, the failures.
CountEvents(c) ==
    /\ At(c, "counting") /\ Moves(c, "scanning")
    /\ count' = [count EXCEPT ![c] =
           [total |-> Cardinality(InTable),
            failures |-> IF Filtered(c) THEN 0
                         ELSE Cardinality({e \in InTable : kindOf[e].failed})]]
    /\ UNCHANGED <<summaryTable, scanFound, still, narrative, hour, asked>>

\* Mutant: the oldest are taken, not the newest.
ScanTaken_Oldest(n) == {e \in InTable : e < oldest + n}

\* ORDER BY timestamp DESC LIMIT
ScanTaken(n) == NewestEvents(n)

\* The next takes the newest events there are, and goes through them.
ScanEvents(c) ==
    /\ At(c, "scanning") /\ Moves(c, IF ask[c].ai THEN "claude" ELSE "answered")
    /\ scanFound' = [scanFound EXCEPT ![c] = ScanTaken(ScanLimit)]
    /\ UNCHANGED <<summaryTable, count, still, narrative, hour, asked>>

Matching(c) == {e \in scanFound[c] : kindOf[e].signal \in ask[c].filter}
Total(c) == IF Filtered(c) THEN Cardinality(Matching(c)) ELSE count[c].total
Failures(c) ==
    IF Filtered(c) THEN Cardinality({e \in Matching(c) : kindOf[e].failed}) ELSE count[c].failures
BySignal(c) == [s \in Signals |-> Cardinality({e \in Matching(c) : kindOf[e].signal = s})]
Scope(c) == IF count[c].total <= ScanLimit THEN "complete" ELSE "sampled"

\* _headline
Status(c) ==
    IF BySignal(c)["action_required"] > 0 THEN "action_required"
    ELSE IF BySignal(c)["attention"] > 0 THEN "review_needed" ELSE "all_clear"

-----------------------------------------------------------------------------
(* AuditSummarizer *)

\* _cache.get
NarrativeCached == narrative.made /\ hour < narrative.putAt + NarrativeTtl

\* The narrative is served from the cache, unless the caller forces a new one or it is off.
ServeNarrative(c) ==
    /\ NarrativeCached /\ ask[c].stage \in {"idle", "answered"}
    /\ asked < MaxAsked /\ asked' = asked + 1
    /\ ask' = [ask EXCEPT ![c] = [@ EXCEPT !.stage = "idle"]]
    /\ UNCHANGED <<summaryTable, count, scanFound, still, narrative, hour>>

\* Not there, or forced: a summary first.
AskNarrative(c) == AskSummary(c, Signals, TRUE)

\* Claude answers, and the answer is what the cache has from now on.
ClaudeAnswers(c) ==
    /\ At(c, "claude") /\ Moves(c, "answered")
    /\ narrative' = [made |-> TRUE, about |-> scanFound[c], from |-> ask[c].from, putAt |-> hour]
    /\ UNCHANGED <<summaryTable, count, scanFound, still, hour, asked>>

\* Mutant: an error is kept as an answer is.
ClaudeFails_Kept(c) ==
    /\ At(c, "claude") /\ Moves(c, "answered")
    /\ narrative' = [made |-> TRUE, about |-> {}, from |-> ask[c].from, putAt |-> hour]
    /\ UNCHANGED <<summaryTable, count, scanFound, still, hour, asked>>

\* It does not, or not with JSON: the caller gets an error, the cache stays.
ClaudeFails(c) ==
    /\ At(c, "claude") /\ Moves(c, "idle")
    /\ UNCHANGED <<summaryTable, count, scanFound, still, narrative, hour, asked>>

-----------------------------------------------------------------------------
(* Outside *)

BetweenStatements == [c \in Askers |-> still[c] /\ ~At(c, "scanning")]

StoreNewEvent(kind) ==
    /\ Len(kindOf) < MaxEvents /\ kindOf' = Append(kindOf, kind) /\ still' = BetweenStatements
    /\ UNCHANGED <<oldest, ask, count, scanFound, narrative, hour, asked>>

RemoveOldest ==
    /\ InTable # {} /\ oldest' = oldest + 1 /\ still' = BetweenStatements
    /\ UNCHANGED <<kindOf, ask, count, scanFound, narrative, hour, asked>>

HourPasses ==
    /\ narrative.made /\ hour < LastHour /\ hour' = hour + 1
    /\ UNCHANGED <<summaryTable, askVars, narrative, asked>>

SummariesNext ==
    \/ \E c \in Askers :
         \/ \E filter \in {Signals, {"action_required"}} : AskSummary(c, filter, FALSE)
         \/ CountEvents(c) \/ ScanEvents(c)
         \/ ServeNarrative(c) \/ AskNarrative(c) \/ ClaudeAnswers(c) \/ ClaudeFails(c)
    \/ \E kind \in EventKinds : StoreNewEvent(kind)
    \/ RemoveOldest \/ HourPasses

SummariesSpec == SummariesInit /\ [][SummariesNext]_summariesVars

-----------------------------------------------------------------------------
(* What a summary says *)

Answered == {c \in Askers : At(c, "answered")}

\* Whoever read `seen`, having asked when `from` events had been stored, missed none of them
\* that is still there but the oldest.
Covers(seen, from) ==
    LET there == {e \in InTable : e <= from}
    IN /\ there # {} => seen # {}
       /\ \A e \in seen : \A other \in there : other > e => other \in seen

\* Nothing in between its statements, the counts by signal of a complete summary add up to its
\* total, and its failures are among them; whatever is stored or removed meanwhile, a summary
\* leaves out older events only, which it says unless they came in between, and is not
\* all-clear while an event it should have seen needs action.  So does the narrative kept.
SummaryAddsUp ==
    /\ \A c \in Answered :
        /\ Covers(scanFound[c], ask[c].from)
        /\ still[c] /\ Scope(c) = "complete" =>
               /\ Total(c) = BySignal(c)["action_required"] + BySignal(c)["attention"] + BySignal(c)["noise"]
               /\ Failures(c) = Cardinality({e \in Matching(c) : kindOf[e].failed})
               /\ \A e \in InTable : e <= ask[c].from /\ kindOf[e].signal = "action_required" =>
                      Status(c) = "action_required"
    /\ narrative.made => Covers(narrative.about, narrative.from)
=============================================================================
