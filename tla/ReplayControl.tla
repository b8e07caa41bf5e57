----------------------------- MODULE ReplayControl -----------------------------
(***************************************************************************)
(* The replay of src/audit_forwarder.py (ReplayState, replay_events) as    *)
(* POST /api/v1/replay of forwarder/health_server.py starts it.  The HTTP  *)
(* server is threaded; each accepted request gets a thread of its own, and *)
(* ReplayState.in_progress is all that keeps two replays apart.            *)
(***************************************************************************)
EXTENDS Naturals, FiniteSets

CONSTANTS
    Requests,       \* requests that may be in hand at once, each with its thread
    RecordsMax,     \* bound: records that one replay reads
    StoreRaises,    \* bound: calls of the product store, Kafka and payloads that raise
    ReplayLives     \* bound: lives of the process

ASSUME ReplayAssumption == {RecordsMax, StoreRaises, ReplayLives} \subseteq Nat

VARIABLES
    inProgress,     \* ReplayState.in_progress
    request,        \* [Requests -> where the request or its thread is]
    recordsRead,    \* [Requests -> records its replay has read]
    lastError,      \* ReplayState.last_error is set
    savedFlag,      \* runtime_meta "replay_in_progress" in the product store's file
    stopping,       \* _shutdown_requested
    raisesLeft, livesLeft,
    stuck,          \* ghost: a replay of this life died between start and its try
    lateFinish      \* ghost: a replay of this life finished a second time

replayVars == <<inProgress, request, recordsRead, lastError, savedFlag, stopping, raisesLeft,
                livesLeft, stuck, lateFinish>>

InSection == {r \in Requests : request[r] \in {"settingUp", "reading", "finishing"}}

ReplayTypeOK ==
    /\ {inProgress, lastError, savedFlag, stopping, stuck, lateFinish} \subseteq BOOLEAN
    /\ request \in [Requests -> {"none", "accepted", "settingUp", "reading", "finishing",
                                 "booking", "failing"}]
    /\ recordsRead \in [Requests -> 0 .. RecordsMax]
    /\ raisesLeft \in 0 .. StoreRaises /\ livesLeft \in 0 .. ReplayLives

ReplayInit ==
    /\ inProgress = FALSE
    /\ request = [r \in Requests |-> "none"]
    /\ recordsRead = [r \in Requests |-> 0]
    /\ lastError = FALSE
    /\ savedFlag = FALSE
    /\ stopping = FALSE
    /\ raisesLeft = StoreRaises
    /\ livesLeft = ReplayLives
    /\ stuck = FALSE /\ lateFinish = FALSE

To(r, place) == request' = [request EXCEPT ![r] = place]
Raised == raisesLeft > 0 /\ raisesLeft' = raisesLeft - 1

\* do_POST: the snapshot shows no replay and a thread is started.  Another
\* request may see the same snapshot before the thread gets to start().
Post(r) ==
    /\ request[r] = "none"
    /\ ~inProgress
    /\ To(r, "accepted")
    /\ UNCHANGED <<inProgress, recordsRead, lastError, savedFlag, stopping, raisesLeft, livesLeft,
                   stuck, lateFinish>>

\* replay_events refuses its arguments, replay is off, or there is no store.
RefuseArguments(r) ==
    /\ request[r] = "accepted"
    /\ To(r, "none")
    /\ UNCHANGED <<inProgress, recordsRead, lastError, savedFlag, stopping, raisesLeft, livesLeft,
                   stuck, lateFinish>>

\* Mutated: start() without its test.
StartReplay_NoTest(r) ==
    /\ request[r] = "accepted"
    /\ inProgress' = TRUE /\ lastError' = FALSE /\ To(r, "settingUp")
    /\ recordsRead' = [recordsRead EXCEPT ![r] = 0]
    /\ UNCHANGED <<savedFlag, stopping, raisesLeft, livesLeft, stuck, lateFinish>>

\* ReplayState.start: test and set under the lock, or RuntimeError
StartReplay(r) ==
    /\ request[r] = "accepted"
    /\ IF inProgress
       THEN To(r, "none") /\ UNCHANGED <<inProgress, lastError>>
       ELSE inProgress' = TRUE /\ lastError' = FALSE /\ To(r, "settingUp")
    /\ recordsRead' = [recordsRead EXCEPT ![r] = 0]
    /\ UNCHANGED <<savedFlag, stopping, raisesLeft, livesLeft, stuck, lateFinish>>

\* The four set_runtime_meta calls, the Consumer, the Producer, the aggregator
SetUp(r) ==
    /\ request[r] = "settingUp"
    /\ savedFlag' = TRUE
    /\ To(r, "reading")
    /\ UNCHANGED <<inProgress, recordsRead, lastError, stopping, raisesLeft, livesLeft, stuck,
                   lateFinish>>

\* One of them raises, outside of the try: nothing gives the slot back.
SetUpRaises(r) ==
    /\ request[r] = "settingUp"
    /\ Raised
    /\ savedFlag' \in {savedFlag, TRUE}
    /\ stuck' = TRUE
    /\ To(r, "none")
    /\ UNCHANGED <<inProgress, recordsRead, lastError, stopping, livesLeft, lateFinish>>

\* A record is rebuilt and persisted.
ReadRecord(r) ==
    /\ request[r] = "reading" /\ ~stopping
    /\ recordsRead[r] < RecordsMax
    /\ recordsRead' = [recordsRead EXCEPT ![r] = @ + 1]
    /\ UNCHANGED <<inProgress, request, lastError, savedFlag, stopping, raisesLeft, livesLeft,
                   stuck, lateFinish>>

\* Five empty polls or the shutdown end the loop; the rest is flushed.
StopReading(r) ==
    /\ request[r] = "reading"
    /\ To(r, "finishing")
    /\ UNCHANGED <<inProgress, recordsRead, lastError, savedFlag, stopping, raisesLeft, livesLeft,
                   stuck, lateFinish>>

\* Anything in the try before finish(True) raises.
ReadingRaises(r) ==
    /\ request[r] \in {"reading", "finishing"}
    /\ Raised
    /\ inProgress' = FALSE /\ lastError' = TRUE
    /\ To(r, "failing")
    /\ UNCHANGED <<recordsRead, savedFlag, stopping, livesLeft, stuck, lateFinish>>

\* finish(True)
Finish(r) ==
    /\ request[r] = "finishing"
    /\ inProgress' = FALSE /\ lastError' = FALSE
    /\ To(r, "booking")
    /\ UNCHANGED <<recordsRead, savedFlag, stopping, raisesLeft, livesLeft, stuck, lateFinish>>

\* The set_runtime_meta calls after it, still inside the try
BookCompletion(r) ==
    /\ request[r] = "booking"
    /\ savedFlag' = FALSE
    /\ To(r, "none")
    /\ UNCHANGED <<inProgress, recordsRead, lastError, stopping, raisesLeft, livesLeft, stuck,
                   lateFinish>>

\* One of them raises: the except branch finishes once more, whoever runs by now.
BookingRaises(r) ==
    /\ request[r] = "booking"
    /\ Raised
    /\ inProgress' = FALSE /\ lastError' = TRUE
    /\ savedFlag' \in {savedFlag, FALSE}
    /\ lateFinish' = TRUE
    /\ To(r, "failing")
    /\ UNCHANGED <<recordsRead, stopping, livesLeft, stuck>>

\* The set_runtime_meta calls of the except branch, which may raise themselves
BookFailure(r) ==
    /\ request[r] = "failing"
    /\ \/ savedFlag' = FALSE /\ UNCHANGED raisesLeft
       \/ savedFlag' \in {savedFlag, FALSE} /\ Raised
    /\ To(r, "none")
    /\ UNCHANGED <<inProgress, recordsRead, lastError, stopping, livesLeft, stuck, lateFinish>>

RequestShutdown ==
    /\ ~stopping
    /\ stopping' = TRUE
    /\ UNCHANGED <<inProgress, request, recordsRead, lastError, savedFlag, raisesLeft, livesLeft,
                   stuck, lateFinish>>

\* The process ends, its daemon threads with it, and the next one starts with a
\* new ReplayState.  Nothing reads the saved flag.
ReplayRestart ==
    /\ livesLeft > 0
    /\ livesLeft' = livesLeft - 1
    /\ inProgress' = FALSE /\ lastError' = FALSE /\ stopping' = FALSE
    /\ request' = [r \in Requests |-> "none"]
    /\ recordsRead' = [r \in Requests |-> 0]
    /\ stuck' = FALSE /\ lateFinish' = FALSE
    /\ UNCHANGED <<savedFlag, raisesLeft>>

ReplayNext ==
    \/ \E r \in Requests :
        \/ Post(r) \/ RefuseArguments(r)
        \/ StartReplay(r)
        \/ SetUp(r) \/ SetUpRaises(r)
        \/ ReadRecord(r) \/ StopReading(r) \/ ReadingRaises(r)
        \/ Finish(r) \/ BookCompletion(r) \/ BookingRaises(r) \/ BookFailure(r)
    \/ RequestShutdown
    \/ ReplayRestart

ReplaySpec == ReplayInit /\ [][ReplayNext]_replayVars

-----------------------------------------------------------------------------
(* Properties *)

\* However requests, failures and shutdowns interleave, the slot is taken exactly
\* while one replay is between start() and its first finish(): two never run at
\* once and a failed one does not lock the next one out.  The two ways this breaks
\* are the ghosts: a replay that dies before its try holds the slot until the
\* process restarts, and one that finishes a second time frees another's.
ReplaySlotExact ==
    ~lateFinish =>
        Cardinality(InSection) + (IF stuck THEN 1 ELSE 0) = IF inProgress THEN 1 ELSE 0
=============================================================================
