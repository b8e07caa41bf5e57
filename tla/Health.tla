-------------------------------- MODULE Health --------------------------------
(***************************************************************************)
(* Health as the forwarder judges it, and as the API tells it on: two      *)
(* processes that share no state, each with variables, an initial state    *)
(* and a next-state relation of its own. Of the first the second sees no   *)
(* more than an answer.                                                    *)
(***************************************************************************)
EXTENDS Integers

-------------------------------------------------------------------------------
(***************************************************************************)
(* The forwarder's own judgement, GET /health.  The startup checks, the    *)
(* consumer and the writers' threads leave their marks in one set of       *)
(* metrics, whoever comes last; /health reads them at any time.            *)
(*                                                                         *)
(* The startup configuration is valid.  The figures /health also shows,    *)
(* and judges nothing by, are left out.                                    *)
(***************************************************************************)

CONSTANTS
    QuietAfter,         \* 60 s: from then on the consumer is idle, a write is late
    DeadAfter,          \* 300 s: idle for so long is unhealthy unless it is quiet
    ErrorShare,         \* 10: one error in so many events is too many
    DegradedAfter,      \* KAFKA_DEGRADED_AFTER_ERRORS
    LastSecondOfHealth, \* bound on the time
    MaxMarks            \* bound on what happens to the forwarder

ASSUME ForwarderHealthAssumption ==
    /\ {QuietAfter, DeadAfter, ErrorShare, DegradedAfter, LastSecondOfHealth, MaxMarks} \subseteq Nat
    /\ QuietAfter <= DeadAfter

Never == -1

VARIABLES
    tick,
    consumer,           \* consumer_state
    retries,            \* consecutive_error_count
    errorTotal, processed,  \* error_count, processed_total
    idleFrom,           \* last_process_time
    lastWrite,          \* db_last_successful_write
    lastEvent,          \* db_last_event_timestamp_iso
    writeErrors,        \* db_write_consecutive_error_count
    dropped,            \* writer_queue_dropped_total
    caughtUp,           \* consumer_lag_total is 0, as it is while no partition has one
    troubles,           \* ghost: what has failed since records last came
    marks
consumerVars == <<consumer, retries, processed, idleFrom, caughtUp>>
writerVars == <<lastWrite, lastEvent, writeErrors, dropped>>
forwarderHealthVars == <<tick, consumerVars, writerVars, errorTotal, troubles, marks>>

ForwarderHealthTypeOK ==
    /\ tick \in 0 .. LastSecondOfHealth /\ idleFrom \in 0 .. tick
    /\ {lastWrite, lastEvent} \subseteq {Never} \cup 0 .. tick
    /\ consumer \in {"starting", "retrying", "connected", "backoff", "degraded"}
    /\ {retries, errorTotal, processed, writeErrors, dropped, troubles} \subseteq 0 .. MaxMarks
    /\ caughtUp \in BOOLEAN /\ marks \in 0 .. MaxMarks

ForwarderHealthInit ==
    /\ tick = 0 /\ consumer = "starting" /\ retries = 0 /\ errorTotal = 0 /\ processed = 0
    /\ idleFrom = 0 /\ lastWrite = Never /\ lastEvent = Never /\ writeErrors = 0 /\ dropped = 0
    /\ caughtUp = TRUE /\ troubles = 0 /\ marks = 0

Mark == marks < MaxMarks /\ marks' = marks + 1
Started == consumer \notin {"starting", "retrying"}

\* The topics are listed at last; what failed before stays counted.
ConnectivityChecked ==
    /\ ~Started /\ consumer' = "connected"
    /\ UNCHANGED <<tick, retries, processed, idleFrom, caughtUp, writerVars, errorTotal,
                   troubles, marks>>

\* record_consumer_retry
RecordRetry ==
    retries' = retries + 1 /\ errorTotal' = errorTotal + 1 /\ troubles' = troubles + 1

\* It fails, and is tried again once the delay is over.
ConnectivityFails ==
    /\ ~Started /\ Mark /\ RecordRetry /\ consumer' = "retrying"
    /\ UNCHANGED <<tick, processed, idleFrom, caughtUp, writerVars>>

\* consume raises, or hands out an error: an empty poll, later, takes none of it back.
ConsumeFails ==
    /\ Started /\ Mark /\ RecordRetry
    /\ consumer' = IF retries' >= DegradedAfter THEN "degraded" ELSE "backoff"
    /\ UNCHANGED <<tick, processed, idleFrom, caughtUp, writerVars>>

\* Mutant: the errors in a row are counted on.
PollRecords_Counting ==
    /\ Started /\ Mark
    /\ consumer' = "connected" /\ troubles' = 0
    /\ processed' = processed + 1 /\ idleFrom' = tick
    /\ UNCHANGED <<tick, retries, caughtUp, writerVars, errorTotal>>

\* record_poll with records, record_processed
PollRecords ==
    /\ Started /\ Mark
    /\ consumer' = "connected" /\ retries' = 0 /\ troubles' = 0
    /\ processed' = processed + 1 /\ idleFrom' = tick
    /\ UNCHANGED <<tick, caughtUp, writerVars, errorTotal>>

\* update_lag
LagReported ==
    /\ Started /\ Mark /\ caughtUp' = ~caughtUp
    /\ UNCHANGED <<tick, consumer, retries, processed, idleFrom, writerVars, errorTotal,
                   troubles>>

\* record_db_write_success, with events as young as now or older than the youngest
WriteSucceeds ==
    /\ Started /\ Mark
    /\ lastWrite' = tick /\ writeErrors' = 0 /\ lastEvent' \in {lastEvent, tick}
    /\ UNCHANGED <<tick, consumerVars, dropped, errorTotal, troubles>>

\* A batch fails: the writer's thread sets the state of the consumer, too; the noise lane's
\* does not.
WriteFails ==
    /\ Started /\ Mark
    /\ writeErrors' = writeErrors + 1 /\ errorTotal' = errorTotal + 1 /\ troubles' = troubles + 1
    /\ consumer' \in {consumer, "degraded"}
    /\ UNCHANGED <<tick, retries, processed, idleFrom, caughtUp, lastWrite, lastEvent,
                   dropped>>

\* A writer's queue stays full for too long, and an event is dropped.
DropEvent ==
    /\ Started /\ Mark /\ dropped' = dropped + 1
    /\ UNCHANGED <<tick, consumerVars, lastWrite, lastEvent, writeErrors, errorTotal,
                   troubles>>

TickPasses ==
    /\ tick < LastSecondOfHealth /\ tick' = tick + 1
    /\ UNCHANGED <<consumerVars, writerVars, errorTotal, troubles, marks>>

ForwarderHealthNext ==
    \/ ConnectivityChecked \/ ConnectivityFails \/ ConsumeFails \/ PollRecords \/ LagReported
    \/ WriteSucceeds \/ WriteFails \/ DropEvent \/ TickPasses

ForwarderHealthSpec == ForwarderHealthInit /\ [][ForwarderHealthNext]_forwarderHealthVars

-----------------------------------------------------------------------------
(* What /health says *)

IdleFor == tick - idleFrom
IsIdle == consumer = "connected" /\ retries = 0 /\ tick > QuietAfter /\ IdleFor > QuietAfter
TooManyErrors == processed > 0 /\ errorTotal * ErrorShare > processed
IsHealthy == ~(IdleFor > DeadAfter /\ ~IsIdle) /\ ~TooManyErrors

\* _classify_db_writer_status
WriterStatus ==
    IF lastWrite = Never \/ tick - lastWrite > DeadAfter THEN "stalled"
    ELSE IF tick - lastWrite > QuietAfter \/ writeErrors > 0 THEN "degraded" ELSE "healthy"

\* _is_replay_recommended
ReplayRecommended ==
    \/ dropped > 0
    \/ caughtUp /\ lastEvent # Never /\ tick - lastEvent > DeadAfter

\* The consumer among the components.
ConsumerStatus ==
    IF IsIdle THEN "idle" ELSE IF IdleFor <= DeadAfter THEN "healthy" ELSE "degraded"

\* _health_payload: the answer is 200 or 503, whatever else it tells.
HealthPayload ==
    [ok |-> IsHealthy, consumer |-> ConsumerStatus, writer |-> WriterStatus,
     replay |-> ReplayRecommended]

\* A source without events is no failure: if nothing has failed since records last came, or
\* ever, a started forwarder stays healthy however long it is idle; one whose consumer fails
\* and gets none does not, and no answer calls the forwarder healthy and its consumer degraded.
\* While every write of the last minute went well and the newest event is young, a replay is
\* recommended for a dropped event alone.
HealthIsEarned ==
    LET told == HealthPayload IN
    /\ Started /\ troubles = 0 /\ ~TooManyErrors => told.ok
    /\ retries > 0 /\ IdleFor > DeadAfter => ~told.ok
    /\ told.ok => told.consumer # "degraded"
    /\ told.writer = "healthy" /\ tick - lastEvent <= QuietAfter =>
           (told.replay <=> dropped > 0)

-------------------------------------------------------------------------------
(***************************************************************************)
(* /system/status of the API: how far the database is behind, told from    *)
(* the forwarder's /health and from the newest event's time.  Both are     *)
(* kept in caches that one request at a time refreshes, while the others   *)
(* are given what there is.  An unhealthy forwarder answers 503, which is  *)
(* an error to the API, and one it knows nothing of.                       *)
(*                                                                         *)
(* The forwarder and the writers appear as what they answer; the other     *)
(* blocks of the status, each best effort, are left out.                   *)
(***************************************************************************)

CONSTANTS
    StatusReaders,      \* requests for /system/status
    HealthTtl,          \* FORWARDER_HEALTH_TTL_SECONDS
    LatestTtl,          \* DB_LATEST_EVENT_TTL_SECONDS
    FetchMax,           \* what a fetch takes at most
    HealthyWithin,      \* 60 s: so far behind the database is healthy
    StallAfter,         \* 300 s: so far behind, or so long idle, is stalled
    Lags,               \* of 0: none, 1: below 100,000, 2: below a million, 3: more
    LastInstant,        \* bound on the time
    MaxChanges,         \* bound on what the forwarder goes through
    MaxAsks             \* bound on the requests

ASSUME StatusViewAssumption ==
    /\ {HealthTtl, LatestTtl} \subseteq Nat \ {0}
    /\ {FetchMax, HealthyWithin, StallAfter, LastInstant, MaxChanges, MaxAsks} \subseteq Nat
    /\ Lags \subseteq 0 .. 3 /\ 0 \in Lags /\ HealthyWithin <= StallAfter

Caches == {"health", "latest"}
Nobody == [at |-> -1]
Unknown == [ok |-> FALSE, lag |-> 0]        \* _unknown_status
Healthy(l) == [ok |-> TRUE, lag |-> l]
Healths == {Healthy(l) : l \in Lags} \cup {Unknown}
Unsaid(c) == IF c = "health" THEN Unknown ELSE -1

VARIABLES
    instant,
    verdict,             \* what /health answers now
    newest,             \* the time of the newest event in the database
    cache,              \* of each cache: the value, when it was kept and when it was sampled
    fetching,           \* _fetching
    at,                 \* where a request is: idle, or asking a cache, fetching, keeping
    which,              \* the cache it asks
    got,                \* what it was given: value, sampled, and whether beside another's fetch
    began,              \* when its fetch began
    shown,              \* the last answer
    changes, asks
pipelineVars == <<verdict, newest>>
statusCacheVars == <<cache, fetching>>
requestVars == <<at, which, got, began, shown>>
statusViewVars == <<instant, pipelineVars, statusCacheVars, requestVars, changes, asks>>

NoStatus == [status |-> "none", replay |-> FALSE, behind |-> 0, was |-> 0, beside |-> FALSE, age |-> 0]
Given(v, sampled, beside) == [value |-> v, sampled |-> sampled, beside |-> beside]

StatusTypeOK ==
    /\ instant \in 0 .. LastInstant /\ newest \in 0 .. instant
    /\ verdict \in Healths
    /\ fetching \in [Caches -> BOOLEAN]
    /\ at \in [StatusReaders -> {"idle", "ask", "fetch", "keep", "answer"}]
    /\ which \in [StatusReaders -> Caches]
    /\ shown.status \in {"none", "unknown", "healthy", "degraded", "stalled"}
    /\ changes \in 0 .. MaxChanges /\ asks \in 0 .. MaxAsks

StatusInit ==
    /\ instant = 0 /\ verdict = Healthy(0) /\ newest = 0
    /\ cache = [c \in Caches |-> Nobody] /\ fetching = [c \in Caches |-> FALSE]
    /\ at = [r \in StatusReaders |-> "idle"] /\ which = [r \in StatusReaders |-> "health"]
    /\ got = [r \in StatusReaders |-> [c \in Caches |-> Given(Unsaid(c), 0, FALSE)]]
    /\ began = [r \in StatusReaders |-> 0]
    /\ shown = NoStatus
    /\ changes = 0 /\ asks = 0

-----------------------------------------------------------------------------
(* The pipeline *)

PipelineAlters == changes < MaxChanges /\ changes' = changes + 1

\* The forwarder's answer becomes another: a lag, or 503, or none at all.
ForwarderChanges ==
    /\ PipelineAlters /\ verdict' \in Healths \ {verdict}
    /\ UNCHANGED <<instant, newest, statusCacheVars, requestVars, asks>>

\* A batch is written, with an event as young as now.
NewerEvent ==
    /\ PipelineAlters /\ newest < instant /\ newest' = instant
    /\ UNCHANGED <<instant, verdict, statusCacheVars, requestVars, asks>>

-----------------------------------------------------------------------------
(* A request for /system/status: the one cache, then the other, then the verdict *)

TtlOf(c) == IF c = "health" THEN HealthTtl ELSE LatestTtl

Serve(r, c) ==
    /\ got' = [got EXCEPT ![r][c] = Given(cache[c].value, cache[c].sampled, FALSE)]
    /\ UNCHANGED cache

StillFresh(c) == cache[c] # Nobody /\ instant - cache[c].at < TtlOf(c)

Turn(r, c) ==       \* on to the other cache, or to the verdict
    /\ at' = [at EXCEPT ![r] = IF c = "health" THEN "ask" ELSE "answer"]
    /\ which' = [which EXCEPT ![r] = "latest"]

AskStatus(r) ==
    /\ at[r] = "idle" /\ asks < MaxAsks /\ asks' = asks + 1
    /\ at' = [at EXCEPT ![r] = "ask"] /\ which' = [which EXCEPT ![r] = "health"]
    /\ shown' = NoStatus
    /\ UNCHANGED <<instant, pipelineVars, statusCacheVars, got, began, changes>>

\* get: a fresh answer, or what there is beside another's fetch, or a fetch of one's own
LookUpCache(r) ==
    LET c == which[r] IN
    /\ at[r] = "ask"
    /\ \/ StillFresh(c) /\ Serve(r, c) /\ Turn(r, c) /\ UNCHANGED <<fetching, began>>
       \/ /\ ~StillFresh(c) /\ fetching[c]
          /\ got' = [got EXCEPT ![r][c] = IF cache[c] = Nobody THEN Given(Unsaid(c), instant, TRUE)
                                          ELSE Given(cache[c].value, cache[c].sampled, TRUE)]
          /\ Turn(r, c) /\ UNCHANGED <<statusCacheVars, began>>
       \/ /\ ~StillFresh(c) /\ ~fetching[c] /\ fetching' = [fetching EXCEPT ![c] = TRUE]
          /\ at' = [at EXCEPT ![r] = "fetch"] /\ began' = [began EXCEPT ![r] = instant]
          /\ UNCHANGED <<cache, which, got>>
    /\ UNCHANGED <<instant, pipelineVars, shown, changes, asks>>

\* _fetch_now
Fetched(c) == IF c = "latest" THEN newest ELSE verdict

Fetch(r) ==
    LET c == which[r] IN
    /\ at[r] = "fetch"
    /\ got' = [got EXCEPT ![r][c] = Given(Fetched(c), instant, FALSE)]
    /\ fetching' = [fetching EXCEPT ![c] = FALSE] /\ at' = [at EXCEPT ![r] = "keep"]
    /\ UNCHANGED <<instant, pipelineVars, cache, which, began, shown, changes, asks>>

\* The answer is kept under another hold of the lock than the flag is cleared under.
KeepFetched(r) ==
    LET c == which[r] IN
    /\ at[r] = "keep"
    /\ cache' = [cache EXCEPT ![c] =
                    [value |-> got[r][c].value, at |-> instant, sampled |-> got[r][c].sampled]]
    /\ Turn(r, c)
    /\ UNCHANGED <<instant, pipelineVars, fetching, got, began, shown, changes, asks>>

\* _classify_pipeline_status, of a database behind by b and a lag of l
Classified(b, l) ==
    IF b > StallAfter \/ l = 3 THEN "stalled"
    ELSE IF b < HealthyWithin /\ l < 2 THEN "healthy" ELSE "degraded"

\* Mutant: the cache keeps how far the database was behind.
Behind_Kept(latest) == latest.sampled - latest.value

\* db_behind_seconds
Behind(latest) == instant - latest.value

\* get_pipeline_lag
AnswerStatus(r) ==
    LET said == got[r]["health"]
        latest == got[r]["latest"]
        known == latest.value # Unsaid("latest")
        behind == Behind(latest) IN
    /\ at[r] = "answer" /\ at' = [at EXCEPT ![r] = "idle"]
    /\ got' = [got EXCEPT ![r] = [d \in Caches |-> Given(Unsaid(d), 0, FALSE)]]
    /\ began' = [began EXCEPT ![r] = 0]
    /\ shown' =
           [status |-> IF ~said.value.ok THEN "unknown"
                       ELSE IF ~known THEN "stalled" ELSE Classified(behind, said.value.lag),
            replay |-> said.value.ok /\ said.value.lag = 0 /\ known /\ behind > StallAfter,
            behind |-> instant - newest,
            was    |-> latest.sampled - latest.value,
            beside |-> said.beside \/ latest.beside,
            age    |-> instant - said.sampled]
    /\ UNCHANGED <<instant, pipelineVars, statusCacheVars, which, changes, asks>>

\* A request is answered within what its fetches take.
InTime(r) ==
    /\ at[r] \in {"fetch", "keep"} => instant - began[r] < FetchMax
    /\ at[r] \in {"ask", "answer"} => FALSE

InstantPasses ==
    /\ instant < LastInstant /\ \A r \in StatusReaders : at[r] # "idle" => InTime(r)
    /\ instant' = instant + 1
    /\ UNCHANGED <<pipelineVars, statusCacheVars, requestVars, changes, asks>>

StatusNext ==
    \/ ForwarderChanges \/ NewerEvent \/ InstantPasses
    \/ \E r \in StatusReaders :
          AskStatus(r) \/ LookUpCache(r) \/ Fetch(r) \/ KeepFetched(r) \/ AnswerStatus(r)

StatusSpec == StatusInit /\ [][StatusNext]_statusViewVars

-----------------------------------------------------------------------------
\* Unless it was given beside another's fetch, when what it tells is as old as it is, an
\* answer tells what the forwarder said at most the caches' and the fetches' time ago, and
\* recommends a replay only if the database was by then behind but for that time.
\* "healthy" is never said of a database that is behind, whatever the caches hold.
StatusIsJustified ==
    /\ shown.status = "healthy" => shown.behind < HealthyWithin
    /\ ~shown.beside => shown.age < HealthTtl + 2 * FetchMax
    /\ shown.replay /\ ~shown.beside => shown.was > StallAfter - (LatestTtl + FetchMax)
===============================================================================
