------------------------------ MODULE EventPaging ------------------------------
(***************************************************************************)
(* GET /events, while the writers store events late and out of order and   *)
(* retention deletes the oldest.  A consumer walks the decision feed,      *)
(* handing back the cursor of each answer.  As long as nothing has to be   *)
(* filtered in Python an answer is one query that starts below the cursor. *)
(* Once a pattern is suppressed the answer is collected by a scan in       *)
(* several queries, each counting its offset anew in a table that changes  *)
(* between them; that path knows no cursor and hands none out.  Which path *)
(* a query takes hangs on a cache of the suppressed patterns.            *)
(*                                                                         *)
(* One pattern, which an event matches or not.  The SQL filters, which are *)
(* the same in every query of a walk, are left out, and so are debug and   *)
(* the counts.                                                             *)
(***************************************************************************)
EXTENDS Integers, Sequences, FiniteSets, SequencesExt

CONSTANTS
    Instants,            \* the timestamps of events, a range
    MaxStored,          \* bound on the events stored
    PageLimit,          \* limit
    ScanSize,          \* SIGNAL_FILTER_BATCH_SIZE
    MaxScan,            \* SIGNAL_FILTER_MAX_SCAN
    SuppressionTtl,     \* _suppression_ttl
    LoadFaults          \* bound on the loads of the patterns that fail

ASSUME EventPagingAssumption ==
    /\ \A n \in {MaxStored, PageLimit, ScanSize, MaxScan, SuppressionTtl} : n \in Nat \ {0}
    /\ Instants \subseteq Nat /\ LoadFaults \in Nat

NoCache == [age |-> -1, hides |-> FALSE]
FirstPage == [at |-> 0, id |-> 0]    \* where a walk starts: no cursor

VARIABLES
    feed,           \* the rows of audit_events
    storedCount,    \* ids given out
    cutoff,         \* retention deletes what is older
    inForce,        \* the pattern is suppressed
    suppressions,   \* _suppression_cache
    noTable,        \* _suppression_table_missing
    failures,       \* loads that failed
    query,        \* "none", or its path: "page", or "scan" and then "answer"
    scanned,        \* the scan's db_offset
    collected,      \* the rows it collected
    scanFrom,       \* the rows there were when it began
    walk,           \* "walking", "ended", or "page" after a scan
    cursor,         \* the consumer's cursor
    listed,           \* the rows it was given
    walkFrom        \* the rows there were when it began

pagingVars == <<feed, storedCount, cutoff, inForce, suppressions, noTable, failures, query,
                scanned, collected, scanFrom, walk, cursor, listed, walkFrom>>
scanVars == <<scanned, collected, scanFrom>>
walkVars == <<walk, cursor, listed, walkFrom>>
tableVars == <<feed, storedCount, cutoff>>
suppressionVars == <<inForce, suppressions, noTable, failures>>

FeedRows == [id : 1..MaxStored, at : Instants, matches : BOOLEAN]

PagingTypeOK ==
    /\ feed \subseteq FeedRows
    /\ storedCount \in 0..MaxStored
    /\ suppressions = NoCache \/ suppressions.age \in 0..SuppressionTtl
    /\ query \in {"none", "page", "scan", "answer"}
    /\ scanned \in 0..MaxScan
    /\ Range(collected) \subseteq FeedRows /\ Range(listed) \subseteq FeedRows
    /\ walk \in {"walking", "ended", "page"}

PagingInit ==
    /\ feed = {} /\ storedCount = 0 /\ cutoff = 0
    /\ inForce = FALSE /\ suppressions = NoCache /\ noTable = FALSE /\ failures = 0
    /\ query = "none" /\ scanned = 0 /\ collected = <<>> /\ scanFrom = {}
    /\ walk = "walking" /\ cursor = FirstPage /\ listed = <<>> /\ walkFrom = {}

-----------------------------------------------------------------------------
(* The table and the pattern *)

\* The table and the patterns go on changing until the walk is over.
Changes == walk = "walking"

\* A writer stores an event, which may be older than others that are there.
StoreEvent ==
    /\ Changes
    /\ storedCount < MaxStored
    /\ \E t \in Instants, m \in BOOLEAN :
          feed' = feed \cup {[id |-> storedCount + 1, at |-> t, matches |-> m]}
    /\ storedCount' = storedCount + 1
    /\ UNCHANGED <<cutoff, suppressionVars, query, scanVars, walkVars>>

\* The cleanup's batches take what is older than its cutoff in any order.
DeleteOld ==
    /\ Changes
    /\ \E c \in Instants :
          /\ c >= cutoff
          /\ cutoff' = c
          /\ \E r \in feed : r.at < c /\ feed' = feed \ {r}
    /\ UNCHANGED <<storedCount, suppressionVars, query, scanVars, walkVars>>

\* suppress_pattern commits, or suppressed_until passes
SetSuppressed ==
    /\ Changes
    /\ inForce' = ~inForce
    /\ UNCHANGED <<tableVars, suppressions, noTable, failures, query, scanVars, walkVars>>

CacheAges ==
    /\ Changes
    /\ suppressions # NoCache /\ suppressions.age < SuppressionTtl
    /\ suppressions' = [suppressions EXCEPT !.age = @ + 1]
    /\ UNCHANGED <<tableVars, inForce, noTable, failures, query, scanVars, walkVars>>

-----------------------------------------------------------------------------
(* The service *)

\* a comes before b, newest first
Newer(a, b) == a.at > b.at \/ (a.at = b.at /\ a.id > b.id)

\* order_by timestamp desc, id desc: the rows in their order, each of them once
Newest(rows) ==
    {s \in [1 .. Cardinality(rows) -> rows] :
        /\ Range(s) = rows
        /\ \A i, j \in DOMAIN s : i < j => Newer(s[i], s[j])}

\* Mutated: rows of the cursor's own moment are left out.
Below_Strictly(c) == {r \in feed : c = FirstPage \/ r.at < c.at}

\* WHERE timestamp < ts OR (timestamp = ts AND id < last_id), if there is a cursor
Below(c) == {r \in feed : c = FirstPage \/ r.at < c.at \/ (r.at = c.at /\ r.id < c.id)}

FirstRows(s, n) == SubSeq(s, 1, IF Len(s) < n THEN Len(s) ELSE n)

TakePath(hides) ==
    /\ query' = IF hides THEN "scan" ELSE "page"
    /\ scanned' = 0 /\ collected' = <<>> /\ scanFrom' = IF hides THEN feed ELSE {}

\* The query begins with _get_suppressed_combos_cached.
BeginRequest ==
    /\ walk = "walking" /\ query = "none"
    /\ \/ /\ noTable
          /\ TakePath(FALSE)
          /\ UNCHANGED suppressionVars
       \/ /\ ~noTable /\ suppressions # NoCache /\ suppressions.age < SuppressionTtl
          /\ TakePath(suppressions.hides)
          /\ UNCHANGED suppressionVars
       \/ /\ ~noTable /\ (suppressions = NoCache \/ suppressions.age = SuppressionTtl)
          /\ suppressions' = [age |-> 0, hides |-> inForce]
          /\ TakePath(inForce)
          /\ UNCHANGED <<inForce, noTable, failures>>
    /\ UNCHANGED <<tableVars, walkVars>>

\* The load fails: the table is missing, for good, or the empty set is cached.
BeginUnloaded ==
    /\ walk = "walking" /\ query = "none" /\ ~noTable /\ failures < LoadFaults
    /\ suppressions = NoCache \/ suppressions.age = SuppressionTtl
    /\ \/ noTable' = TRUE /\ UNCHANGED suppressions
       \/ suppressions' = [age |-> 0, hides |-> FALSE] /\ UNCHANGED noTable
    /\ failures' = failures + 1
    /\ TakePath(FALSE)
    /\ UNCHANGED <<tableVars, inForce, walkVars>>

\* The consumer takes an answer: the first one begins its walk.
Receive(page, next) ==
    /\ listed' = listed \o page
    /\ cursor' = next
    /\ walkFrom' = IF cursor = FirstPage THEN feed ELSE walkFrom

\* One query below the cursor; a full page comes with the cursor of its last row.
AnswerPage ==
    /\ query = "page"
    /\ \E rows \in Newest(Below(cursor)) :
          LET page == FirstRows(rows, PageLimit)
              full == Len(page) = PageLimit
          IN  /\ Receive(page, IF full THEN [at |-> Last(page).at, id |-> Last(page).id] ELSE cursor)
              /\ walk' = IF full THEN "walking" ELSE "ended"
    /\ query' = "none"
    /\ UNCHANGED <<tableVars, suppressionVars, scanVars>>

\* One batch of the scan; it ends with enough rows, at its bound or with a short batch.
ScanRows ==
    /\ query = "scan"
    /\ \E rows \in Newest(feed) :
       LET size == IF ScanSize < MaxScan - scanned THEN ScanSize ELSE MaxScan - scanned
           left == SubSeq(rows, scanned + 1, Cardinality(feed))
           batch == FirstRows(left, size)
       IN  /\ \E kept \in Newest({r \in Range(batch) : ~r.matches}) : collected' = collected \o kept
           /\ scanned' = scanned + Len(batch)
           /\ query' = IF \/ Len(batch) < size \/ scanned' = MaxScan
                            \/ Len(collected') >= PageLimit
                         THEN "answer" ELSE "scan"
    /\ UNCHANGED <<tableVars, suppressionVars, scanFrom, walkVars>>

\* The answer is the first page, wherever the cursor was.
AnswerScan ==
    /\ query = "answer"
    /\ Receive(FirstRows(collected, PageLimit), cursor)
    /\ walk' = "page"
    /\ query' = "none"
    /\ UNCHANGED <<tableVars, suppressionVars, scanVars>>

PagingNext ==
    \/ StoreEvent
    \/ DeleteOld
    \/ SetSuppressed
    \/ CacheAges
    \/ BeginRequest
    \/ BeginUnloaded
    \/ AnswerPage
    \/ ScanRows
    \/ AnswerScan

PagingSpec == PagingInit /\ [][PagingNext]_pagingVars

-----------------------------------------------------------------------------
(* Properties *)

\* As long as no answer came from a scan, a walk by cursor gives no row twice and goes
\* strictly back in time, whatever is stored meanwhile, and when it ends it has given
\* every row that was there when it began and that retention has left alone.
WalkExact ==
    walk # "page" =>
        /\ \A i \in 1..(Len(listed) - 1) : Newer(listed[i], listed[i + 1])
        /\ walk = "ended" => {r \in walkFrom : r.at >= cutoff} \subseteq Range(listed)

\* A scan's answer skips no row that was there when the scan began, is not to be deleted
\* and does not match the pattern, though its offsets are those of a table that changes;
\* it may give one twice.
ScanSkipsNothing ==
    walk = "page" /\ collected # <<>> =>
        LET page == FirstRows(collected, PageLimit)
        IN  \A r \in scanFrom :
              ~r.matches /\ r.at >= cutoff /\ Newer(r, Last(page)) => r \in Range(page)

PagesComplete == WalkExact /\ ScanSkipsNothing
=============================================================================
