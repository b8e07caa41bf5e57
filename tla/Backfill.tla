------------------------------- MODULE Backfill -------------------------------
(***************************************************************************)
(* The long jobs over stored rows: three of                                *)
(* backend/app/services/backfill_service.py and the script of              *)
(* scripts/backfill_classification.py. They share no state but the table,  *)
(* which each sees in columns of its own: each has variables, an initial   *)
(* state and a next-state relation of its own.                             *)
(***************************************************************************)
EXTENDS Naturals, FiniteSets, FiniteSetsExt, Sequences, Integers

-------------------------------------------------------------------------------
(***************************************************************************)
(* backfill_source_fields_from_raw_payload of backfill_service.py: a scan  *)
(* of audit_events in (timestamp, id) order that fills missing fields from *)
(* the raw payload, a batch at a time, and saves after every batch how far *)
(* it came, so that a run that was killed is resumed by the next.  Runs    *)
(* that name a row (target_id) and dry runs neither read nor write the     *)
(* cursor; a dry run writes nothing at all.                                *)
(***************************************************************************)

CONSTANTS
    RowCount,       \* bound: rows that the table may come to have
    Limits,         \* limits the runs are started with
    BatchMax,       \* 1000
    Scopes,         \* sets of rows that since and until select
    MaxRuns,        \* bound: runs started
    MaxCrashes      \* bound: runs killed

ASSUME FieldBackfillAssumption ==
    /\ RowCount \in Nat
    /\ Limits \subseteq Nat \ {0} /\ BatchMax \in Nat \ {0}
    /\ Scopes \subseteq SUBSET (1 .. RowCount)
    /\ {MaxRuns, MaxCrashes} \subseteq Nat

\* What a row's payload lets the plan do with it: fill every missing field, fill
\* none of them, or nothing because it does not parse; "keyless" fills them and has
\* none of the keys in its text that a run looks for before it reads a row.
Payloads == {"full", "keyless", "bare", "broken"}
Telling == {"full", "keyless"}
NoCursor == 0
\* Rows, by their place in the order of (timestamp, id)
Places == 1 .. RowCount
Waiting == [at |-> "idle"]

VARIABLES
    rows,           \* the rows that the table has
    payload,        \* what each row's payload is
    filled,         \* the rows whose fields are in the database
    savedCursor,    \* the setting backfill/source_fields_cursor
    job,            \* the run: its arguments, cursor, and uncommitted updates
    runsLeft, crashesLeft,
    scan            \* ghost: the runs since a cursor was last absent

fieldVars == <<rows, payload, filled, savedCursor, job, runsLeft, crashesLeft, scan>>

FieldTypeOK ==
    /\ rows \subseteq Places
    /\ payload \in [Places -> Payloads]
    /\ filled \subseteq rows
    /\ savedCursor \in Places \cup {NoCursor}
    /\ job.at \in {"idle", "scanning", "writing", "marking", "clearing"}
    /\ job.at # "idle" => /\ job.cursor \in Places \cup {NoCursor}
                          /\ job.updates \subseteq rows
                          /\ job.processed \in 0 .. job.limit
    /\ runsLeft \in 0 .. MaxRuns /\ crashesLeft \in 0 .. MaxCrashes
    /\ scan.due \subseteq rows /\ {scan.uniform, scan.finished} \subseteq BOOLEAN

FieldInit ==
    /\ rows \in SUBSET Places
    /\ payload \in [Places -> Payloads]
    /\ filled = {}
    /\ savedCursor = NoCursor
    /\ job = Waiting
    /\ runsLeft = MaxRuns
    /\ crashesLeft = MaxCrashes
    /\ scan = [order |-> "oldest", scope |-> {}, due |-> {}, uniform |-> TRUE, finished |-> FALSE]

\* The forwarder stores an event, anywhere in the order of timestamps, with its
\* fields missing as rows of older builds have them.
RowArrives(p) ==
    /\ p \notin rows
    /\ rows' = rows \cup {p}
    /\ UNCHANGED <<payload, filled, savedCursor, job, runsLeft, crashesLeft, scan>>

Beyond(p, cursor, order) ==
    \/ cursor = NoCursor
    \/ order = "oldest" /\ p > cursor
    \/ order = "newest" /\ p < cursor

\* _build_batch_query: without force, the incomplete rows whose payload's text has one
\* of the keys; force takes them all.
Selected(j) ==
    {p \in rows \cap j.scope :
        /\ j.force \/ (p \notin filled /\ payload[p] # "keyless")
        /\ Beyond(p, j.cursor, j.order)}

\* The first n of a set of rows in the order of the run
FirstOf(S, n, order) ==
    {p \in S : Cardinality({q \in S : IF order = "oldest" THEN q < p ELSE q > p}) < n}

LastOf(S, order) == IF order = "oldest" THEN Max(S) ELSE Min(S)

\* A run starts where the saved cursor is, whatever run saved it.
StartRun(order, scope, limit, force) ==
    /\ job = Waiting
    /\ runsLeft > 0
    /\ runsLeft' = runsLeft - 1
    /\ job' = [at |-> "scanning", order |-> order, scope |-> scope, limit |-> limit,
               force |-> force, processed |-> 0, cursor |-> savedCursor, updates |-> {},
               last |-> FALSE]
    /\ scan' = IF savedCursor = NoCursor
               THEN [order |-> order, scope |-> scope, uniform |-> TRUE, finished |-> FALSE,
                     due |-> {p \in rows \cap scope : payload[p] = "full"}]
               ELSE [scan EXCEPT !.finished = FALSE,
                                 !.uniform = @ /\ <<order, scope>> = <<scan.order, scan.scope>>]
    /\ UNCHANGED <<rows, payload, filled, savedCursor, crashesLeft>>

\* _row_plan: the rows of a batch that would change
Planned(batch) == {p \in batch : payload[p] \in Telling}

BatchSize(j) == Min({BatchMax, j.limit, j.limit - j.processed})

\* Mutated: the cursor is saved with the scan, before the batch is committed.
ScanBatch_SaveFirst ==
    /\ job.at = "scanning" /\ job.processed < job.limit
    /\ LET batch == FirstOf(Selected(job), BatchSize(job), job.order)
           read  == {p \in batch : payload[p] # "broken"}
           next  == IF read = {} THEN job.cursor ELSE LastOf(read, job.order)
       IN  /\ batch # {}
           /\ job' = [job EXCEPT !.at = "writing", !.cursor = next,
                                 !.processed = @ + Cardinality(batch),
                                 !.updates = Planned(batch),
                                 !.last = Cardinality(batch) < BatchSize(job)]
           /\ savedCursor' = next
    /\ UNCHANGED <<rows, payload, filled, runsLeft, crashesLeft, scan>>

\* The loop's body up to the commit.  A row whose payload does not parse counts as
\* processed and leaves the cursor behind it.
ScanBatch ==
    /\ job.at = "scanning" /\ job.processed < job.limit
    /\ LET batch == FirstOf(Selected(job), BatchSize(job), job.order)
           read  == {p \in batch : payload[p] # "broken"}
       IN  /\ batch # {}
           /\ job' = [job EXCEPT !.at = "writing",
                                 !.processed = @ + Cardinality(batch),
                                 !.cursor = IF read = {} THEN @ ELSE LastOf(read, job.order),
                                 !.updates = Planned(batch),
                                 !.last = Cardinality(batch) < BatchSize(job)]
    /\ UNCHANGED <<rows, payload, filled, savedCursor, runsLeft, crashesLeft, scan>>

\* db.commit()
CommitBatch ==
    /\ job.at = "writing"
    /\ filled' = filled \cup job.updates
    /\ job' = [job EXCEPT !.at = "marking", !.updates = {}]
    /\ UNCHANGED <<rows, payload, savedCursor, runsLeft, crashesLeft, scan>>

\* settings_service.set, with a commit of its own
SaveCursor ==
    /\ job.at = "marking"
    /\ savedCursor' = IF job.cursor = NoCursor THEN savedCursor ELSE job.cursor
    /\ job' = [job EXCEPT !.at = IF job.last \/ job.processed >= job.limit
                                 THEN "clearing" ELSE "scanning"]
    /\ UNCHANGED <<rows, payload, filled, runsLeft, crashesLeft, scan>>

\* settings_service.delete: after a short batch, and by the loop's else branch
\* when the limit is used up, whether or not the table is finished.
DeleteCursor ==
    /\ job.at = "clearing"
    /\ savedCursor' = NoCursor
    /\ scan' = [scan EXCEPT !.finished = job.last]
    /\ job' = Waiting
    /\ UNCHANGED <<rows, payload, filled, runsLeft, crashesLeft>>

\* An empty batch ends the run by `break`: the cursor stays.
FindNothing ==
    /\ job.at = "scanning" /\ job.processed < job.limit
    /\ Selected(job) = {}
    /\ scan' = [scan EXCEPT !.finished = TRUE]
    /\ job' = Waiting
    /\ UNCHANGED <<rows, payload, filled, savedCursor, runsLeft, crashesLeft>>

\* target_id: one row, whatever its text, no cursor
FillOne(p) ==
    /\ job = Waiting
    /\ p \in rows \ filled /\ payload[p] \in Telling
    /\ filled' = filled \cup {p}
    /\ UNCHANGED <<rows, payload, savedCursor, job, runsLeft, crashesLeft, scan>>

\* The script is killed, or the database refuses and the exception ends it.
RunDies ==
    /\ job # Waiting
    /\ crashesLeft > 0
    /\ crashesLeft' = crashesLeft - 1
    /\ job' = Waiting
    /\ UNCHANGED <<rows, payload, filled, savedCursor, runsLeft, scan>>

FieldNext ==
    \/ \E p \in Places : RowArrives(p) \/ FillOne(p)
    \/ \E order \in {"oldest", "newest"}, scope \in Scopes, limit \in Limits, force \in BOOLEAN :
        StartRun(order, scope, limit, force)
    \/ ScanBatch
    \/ CommitBatch
    \/ SaveCursor
    \/ DeleteCursor
    \/ FindNothing
    \/ RunDies

FieldSpec == FieldInit /\ [][FieldNext]_fieldVars

-----------------------------------------------------------------------------
(* Properties *)

\* Runs of one order and one time range that were killed and resumed, any number
\* of times, between any two steps: once one of them comes to the end, every row
\* that was there when the first began, and whose payload says how and has one of the
\* keys the query looks for, is filled.
\* Runs with other arguments in between share the cursor and break this.
CompleteMeansDone == scan.finished /\ scan.uniform => scan.due \subseteq filled

-------------------------------------------------------------------------------
(***************************************************************************)
(* The actor-display-name job of backfill_service.py: one thread at a time *)
(* walks audit_events in three passes, a page at a time by id, resolves    *)
(* the actors of each page again and commits it.  The passes select rows   *)
(* by the fields that the job itself rewrites.                             *)
(***************************************************************************)

CONSTANTS
    LastId,         \* bound: the ids the table may come to have are 1 .. LastId
    PageSize,       \* _ACTOR_BACKFILL_BATCH_SIZE
    Stored,         \* the labels rows are stored with, of Labels
    Answers,        \* what the enrichment chain may say, of AllAnswers
    MaxJobs,        \* bound: jobs started
    MaxFaults       \* bound: statements and commits the database refuses

Ids == 1 .. LastId
Passes == 0 .. 2

\* actor_display_name as far as the passes tell: one of _UNKNOWN_DISPLAY_NAMES,
\* the raw actor, or another name; and whether actor_confidence is "low".
Labels == [name : {"unknown", "raw", "named"}, low : BOOLEAN]
\* What enrich_actor makes of a row's actor: a name with its confidence, a
\* placeholder again (skipped), or an exception.  An IAM principal without a name
\* of its own comes back as its raw id with medium confidence.
Nothing == [name |-> "nothing", low |-> FALSE]
Raises == [name |-> "raises", low |-> FALSE]
Unusable == {Nothing, Raises}
AllAnswers == {[name |-> "named", low |-> FALSE], [name |-> "raw", low |-> FALSE],
               [name |-> "raw", low |-> TRUE]} \cup Unusable
Missing == [name |-> "none", low |-> FALSE]

ASSUME ActorBackfillAssumption ==
    /\ PageSize \in Nat \ {0} /\ {LastId, MaxJobs, MaxFaults} \subseteq Nat
    /\ Stored \subseteq Labels /\ Answers \subseteq AllAnswers

VARIABLES
    actorRows,      \* the rows, Missing where an id is not used yet
    answer,         \* what the enrichment chain says for each id
    status,         \* _actor_backfill_state["status"]
    task,           \* the thread's locals
    errors,         \* progress["errors"] of the last or present job
    jobsLeft, faultsLeft,
    wanted          \* ghost: ids the job, unless a dry run, has to rename

actorVars == <<actorRows, answer, status, task, errors, jobsLeft, faultsLeft, wanted>>

NoTask == [at |-> "none", pass |-> 0, after |-> 0, page |-> {}, dryRun |-> FALSE, full |-> FALSE]

ActorTypeOK ==
    /\ \A i \in Ids : actorRows[i] \in Labels \cup {Missing}
    /\ status \in {"idle", "running", "complete", "error"}
    /\ task.at \in {"none", "fetching", "committing"}
    /\ task.pass \in 0 .. 3 /\ task.after \in 0 .. LastId /\ task.page \subseteq Ids
    /\ {task.dryRun, task.full} \subseteq BOOLEAN
    /\ (status = "running") = (task.at # "none")
    /\ errors \in Nat /\ jobsLeft \in 0 .. MaxJobs /\ faultsLeft \in 0 .. MaxFaults
    /\ wanted \subseteq Ids

\* The filter clause of each pass
Matches(p, row) ==
    \/ p = 0 /\ row.low
    \/ p = 1 /\ row.name = "unknown" /\ ~row.low
    \/ p = 2 /\ row.name = "raw" /\ ~row.low

ActorInit ==
    /\ actorRows \in [Ids -> Stored \cup {Missing}]
    /\ \A i, j \in Ids : i < j /\ actorRows[i] = Missing => actorRows[j] = Missing
    /\ answer \in [Ids -> Answers]
    /\ status = "idle"
    /\ task = NoTask
    /\ errors = 0
    /\ jobsLeft = MaxJobs
    /\ faultsLeft = MaxFaults
    /\ wanted = {}

\* The forwarder stores an event.
ActorRowArrives(i, label) ==
    /\ actorRows[i] = Missing
    /\ i > 1 => actorRows[i - 1] # Missing
    /\ actorRows' = [actorRows EXCEPT ![i] = label]
    /\ UNCHANGED <<answer, status, task, errors, jobsLeft, faultsLeft, wanted>>

\* start_actor_display_name_backfill.  While a job runs, a second POST is answered
\* with that job's state and starts nothing.
StartJob(dryRun) ==
    /\ status # "running"
    /\ jobsLeft > 0
    /\ jobsLeft' = jobsLeft - 1
    /\ status' = "running"
    /\ errors' = 0
    /\ task' = [NoTask EXCEPT !.at = "fetching", !.dryRun = dryRun]
    /\ wanted' = {i \in Ids : /\ ~dryRun
                              /\ actorRows[i] # Missing /\ answer[i] \notin Unusable
                              /\ \E p \in Passes : Matches(p, actorRows[i])}
    /\ UNCHANGED <<actorRows, answer, faultsLeft>>

Found(t) == {i \in Ids : actorRows[i] # Missing /\ i > t.after /\ Matches(t.pass, actorRows[i])}
Page(t) == {i \in Found(t) : Cardinality({j \in Found(t) : j < i}) < PageSize}

\* Mutated: the next pass goes on after the id where the last one ended.
NextPass_NoReset(t) == [t EXCEPT !.pass = @ + 1, !.at = "fetching", !.page = {}]

NextPass(t) == [t EXCEPT !.pass = @ + 1, !.after = 0, !.at = "fetching", !.page = {}]

\* The query, and the loop over the page.  A row that cannot be resolved counts as
\* an error and is left as it is.
FetchPage ==
    /\ task.at = "fetching" /\ task.pass \in Passes
    /\ task' = IF Found(task) = {} THEN NextPass(task)
               ELSE [task EXCEPT !.at = "committing", !.page = Page(task),
                                 !.full = Cardinality(Page(task)) = PageSize]
    /\ errors' = errors + Cardinality({i \in Page(task) : answer[i] = Raises})
    /\ UNCHANGED <<actorRows, answer, status, jobsLeft, faultsLeft, wanted>>

\* The pass goes on after a full page, from the cursor; a short page ends it.
AfterPage(t, after) ==
    IF t.full THEN [t EXCEPT !.after = after, !.at = "fetching", !.page = {}] ELSE NextPass(t)

\* db.commit() succeeds; a dry run has nothing to commit.
CommitPage ==
    /\ task.at = "committing"
    /\ actorRows' = IF task.dryRun THEN actorRows
                    ELSE [i \in Ids |-> IF i \in task.page /\ answer[i] \notin Unusable
                                        THEN answer[i] ELSE actorRows[i]]
    /\ task' = AfterPage(task, Max(task.page))
    /\ UNCHANGED <<answer, status, errors, jobsLeft, faultsLeft, wanted>>

\* It fails, and the page is rolled back.  A full page is fetched again; a short one
\* ends its pass all the same.
CommitRefused ==
    /\ task.at = "committing" /\ ~task.dryRun
    /\ faultsLeft > 0
    /\ faultsLeft' = faultsLeft - 1
    /\ errors' = errors + 1
    /\ task' = AfterPage(task, task.after)
    /\ UNCHANGED <<actorRows, answer, status, jobsLeft, wanted>>

JobCompletes ==
    /\ task.at = "fetching" /\ task.pass \notin Passes
    /\ status' = "complete"
    /\ task' = NoTask
    /\ UNCHANGED <<actorRows, answer, errors, jobsLeft, faultsLeft, wanted>>

\* Mutated: the thread's exception leaves the status as it is.
JobFails_Running ==
    /\ task.at = "fetching" /\ task.pass \in Passes
    /\ faultsLeft > 0
    /\ faultsLeft' = faultsLeft - 1
    /\ task' = NoTask
    /\ UNCHANGED <<actorRows, answer, status, errors, jobsLeft, wanted>>

\* The query itself raises.  The thread's state keeps the counts it last stored.
JobFails ==
    /\ task.at = "fetching" /\ task.pass \in Passes
    /\ faultsLeft > 0
    /\ faultsLeft' = faultsLeft - 1
    /\ status' = "error"
    /\ task' = NoTask
    /\ UNCHANGED <<actorRows, answer, errors, jobsLeft, wanted>>

\* The API process restarts: its thread and its state are gone.
ApiRestarts ==
    /\ faultsLeft > 0
    /\ faultsLeft' = faultsLeft - 1
    /\ status' = "idle"
    /\ task' = NoTask
    /\ errors' = 0
    /\ wanted' = {}
    /\ UNCHANGED <<actorRows, answer, jobsLeft>>

ActorNext ==
    \/ \E i \in Ids, label \in Stored : ActorRowArrives(i, label)
    \/ \E dryRun \in BOOLEAN : StartJob(dryRun)
    \/ FetchPage
    \/ CommitPage
    \/ CommitRefused
    \/ JobCompletes
    \/ JobFails
    \/ ApiRestarts

ActorSpec == ActorInit /\ [][ActorNext]_actorVars

-----------------------------------------------------------------------------
(* Properties *)

\* A job that reports "complete" with no error, and was no dry run, has given every
\* row it was started for the name the enrichment chain has for it, although its
\* own updates move rows between the sets its passes select.
CleanRunComplete ==
    status = "complete" /\ errors = 0 => \A i \in wanted : actorRows[i] = answer[i]

-------------------------------------------------------------------------------
(***************************************************************************)
(* The resource intelligence backfill of backfill_service.py: a scan of    *)
(* audit_events in (timestamp, id) order that fills the resource columns   *)
(* of each row from its payload, commits a batch at a time, and writes the *)
(* resources of every row read into resource_catalog, one transaction per  *)
(* resource, while the forwarder's writers store rows and upsert the same  *)
(* catalog and retention deletes rows.  Nothing is saved between runs.     *)
(***************************************************************************)

CONSTANTS
    LastPlace,        \* bound: rows that the table may come to have
    Columns,        \* the resource columns that the scan looks at
    Extracted,      \* row -> the columns its payload (or the row) has a value for
    Unreadable,     \* rows whose payload is not JSON
    Unresolvable,   \* rows whose extraction raises
    CatalogNames,          \* the resources
    NameOf,         \* row -> its resource; rows of none have NoName
    NoName,
    PassLimits, PassBatch,
    MaxPasses          \* bound: runs started

ASSUME ResourceAssumption ==
    /\ LastPlace \in Nat /\ MaxPasses \in Nat
    /\ PassLimits \subseteq Nat \ {0} /\ PassBatch \in Nat \ {0}
    /\ Extracted \in [1 .. LastPlace -> SUBSET Columns]
    /\ Unreadable \cup Unresolvable \subseteq 1 .. LastPlace
    /\ NameOf \in [1 .. LastPlace -> CatalogNames \cup {NoName}] /\ NoName \notin CatalogNames

\* Rows, by their place in the order of (timestamp, id)
RowPlaces == 1 .. LastPlace

VARIABLES
    present,        \* the rows in the table
    removed,           \* the rows retention deleted: their ids do not come back
    columns,        \* row -> its columns that hold no placeholder
    catalogOf,      \* resource -> its catalog row
    pass,           \* the run under way
    finished,       \* the last run that reported, and whether an upsert failed
    passesLeft
resourceVars == <<present, removed, columns, catalogOf, pass, finished, passesLeft>>

\* A catalog row: the columns known.
NotListed == [listed |-> FALSE, known |-> {}]
CatalogRows == [listed : BOOLEAN, known : SUBSET Columns]

NoPass == [at |-> "idle", dry |-> FALSE, force |-> FALSE, limit |-> 1, cursor |-> 0,
           processed |-> 0, last |-> FALSE, changed |-> {}, entries |-> << >>,
           read |-> NotListed, failed |-> FALSE, due |-> {}]
NoReport == [due |-> {}, failed |-> FALSE]

ResourceTypeOK ==
    /\ {present, removed} \subseteq SUBSET RowPlaces
    /\ columns \in [RowPlaces -> SUBSET Columns]
    /\ catalogOf \in [CatalogNames -> CatalogRows]
    /\ pass \in [at : {"idle", "loading", "saving", "listing", "upserting"},
                 dry : BOOLEAN, force : BOOLEAN, limit : Nat, cursor : 0 .. LastPlace,
                 processed : Nat, last : BOOLEAN, changed : SUBSET RowPlaces,
                 entries : Seq(RowPlaces), read : CatalogRows, failed : BOOLEAN,
                 due : SUBSET RowPlaces]
    /\ finished \in [due : SUBSET RowPlaces, failed : BOOLEAN] /\ passesLeft \in 0 .. MaxPasses

ResourceInit ==
    /\ present = RowPlaces \ {LastPlace}
    /\ removed = {} /\ columns = [p \in RowPlaces |-> {}]
    /\ catalogOf = [r \in CatalogNames |-> NotListed]
    /\ pass = NoPass /\ finished = NoReport /\ passesLeft = MaxPasses

-----------------------------------------------------------------------------
(* The table *)

\* The writers store a row, and fill its columns or (older versions) do not.
RowStored(p) ==
    /\ p \notin present \cup removed /\ present' = present \cup {p}
    /\ \E filledIn \in {{}, Extracted[p]} : columns' = [columns EXCEPT ![p] = filledIn]
    /\ UNCHANGED <<removed, catalogOf, pass, finished, passesLeft>>

RowDeleted(p) ==
    /\ p \in present /\ \A q \in present : p <= q
    /\ present' = present \ {p} /\ removed' = removed \cup {p}
    /\ UNCHANGED <<columns, catalogOf, pass, finished, passesLeft>>

\* _prefer: what is known stays, unless the incoming value is the first.
WithSeen(entry, p) == [listed |-> TRUE, known |-> entry.known \cup Extracted[p]]

\* The writers' upsert, one statement.
WriterUpsert(p) ==
    /\ p \in present /\ NameOf[p] # NoName
    /\ catalogOf' = [catalogOf EXCEPT ![NameOf[p]] = WithSeen(@, p)]
    /\ catalogOf' # catalogOf
    /\ UNCHANGED <<present, removed, columns, pass, finished, passesLeft>>

-----------------------------------------------------------------------------
(* The run *)

\* _resource_missing_condition, _is_placeholder
LacksColumns(p) == Columns \ columns[p] # {}

\* _resource_batch_query
Due(force) == {p \in present : force \/ LacksColumns(p)}

StartPass ==
    /\ pass.at = "idle" /\ passesLeft > 0 /\ passesLeft' = passesLeft - 1
    /\ \E dry, force \in BOOLEAN, limit \in PassLimits :
        pass' = [NoPass EXCEPT !.at = "loading", !.dry = dry, !.force = force,
                               !.limit = limit, !.due = Due(force)]
    /\ UNCHANGED <<present, removed, columns, catalogOf, finished>>

\* current_limit, and the rows it selects after the cursor
CurrentLimit == Min({PassBatch, pass.limit - pass.processed})
Batch ==
    LET beyond == {p \in Due(pass.force) : p > pass.cursor}
    IN  {p \in beyond : Cardinality({q \in beyond : q < p}) < CurrentLimit}

\* _resource_updates: the columns that would change
Updates(p) == IF pass.force THEN Extracted[p] ELSE Extracted[p] \ columns[p]

\* The ways to list rows in the order of their places: there is one.
Listings(S) == {listing \in [1 .. Cardinality(S) -> S] :
                    \A i, j \in DOMAIN listing : i < j => listing[i] < listing[j]}

\* The catalog's entries: the rows that change, then those that do not
\* (the mutant takes only the rows that change).
Entries_Changed(readable) == Listings({p \in readable : Updates(p) # {}})
Entries(readable) ==
    {listing[1] \o listing[2] :
        listing \in Listings({p \in readable : Updates(p) # {}})
                        \X Listings({p \in readable : Updates(p) = {}})}

\* The end of a run: its report, which a dry run or one stopped by its limit
\* gives as well.
EndPass(failed) ==
    /\ pass' = NoPass
    /\ finished' = IF pass.dry \/ pass.processed >= pass.limit THEN NoReport
                   ELSE [due |-> pass.due, failed |-> failed]

\* One batch is read and planned.  The cursor passes every row read, whatever
\* becomes of it.
LoadBatch ==
    /\ pass.at = "loading" /\ pass.processed < pass.limit /\ Batch # {}
    /\ LET readable == Batch \ (Unreadable \cup Unresolvable)
       IN  \E entries \in IF pass.dry THEN {<< >>} ELSE Entries(readable) :
               pass' = [pass EXCEPT
                   !.cursor = Max(Batch), !.processed = @ + Cardinality(Batch),
                   !.last = Cardinality(Batch) < CurrentLimit,
                   !.changed = {p \in readable : Updates(p) # {}},
                   !.entries = entries, !.at = "saving"]
    /\ UNCHANGED <<present, removed, columns, catalogOf, finished, passesLeft>>
StopLoading ==
    /\ pass.at = "loading" /\ (pass.processed >= pass.limit \/ Batch = {})
    /\ EndPass(pass.failed)
    /\ UNCHANGED <<present, removed, columns, catalogOf, passesLeft>>

\* db.commit, whose UPDATEs fail when a row was deleted: the run ends without a
\* report.
SaveBatch ==
    /\ pass.at = "saving"
    /\ IF pass.dry \/ pass.changed \subseteq present
       THEN /\ columns' = [p \in RowPlaces |-> IF ~pass.dry /\ p \in pass.changed
                                          THEN columns[p] \cup Extracted[p] ELSE columns[p]]
            /\ pass' = [pass EXCEPT !.at = "listing"]
       ELSE pass' = NoPass /\ UNCHANGED columns
    /\ UNCHANGED <<present, removed, catalogOf, finished, passesLeft>>

\* The next catalog entry: its row is read from the catalog.  A row that changed
\* is read again from the table first (its time), and fails if it is gone; a row
\* without a resource is counted and left out.
ReadCatalog ==
    /\ pass.at = "listing" /\ pass.entries # << >>
    /\ LET p == Head(pass.entries)
       IN  pass' = IF p \in pass.changed \ present
                   THEN [pass EXCEPT !.entries = Tail(@), !.failed = TRUE]
                   ELSE IF NameOf[p] = NoName THEN [pass EXCEPT !.entries = Tail(@)]
                   ELSE [pass EXCEPT !.at = "upserting", !.read = catalogOf[NameOf[p]]]
    /\ UNCHANGED <<present, removed, columns, catalogOf, finished, passesLeft>>

\* upsert_resource_catalog commits; the INSERT of a resource that another writer
\* has listed in between fails.
CommitCatalog ==
    /\ pass.at = "upserting"
    /\ LET p == Head(pass.entries)
           taken == pass.read = NotListed /\ catalogOf[NameOf[p]] # NotListed
       IN  /\ catalogOf' = [catalogOf EXCEPT ![NameOf[p]] =
                                IF taken THEN @ ELSE WithSeen(@, p)]
           /\ pass' = [pass EXCEPT !.at = "listing", !.entries = Tail(@),
                                   !.read = NotListed, !.failed = @ \/ taken]
    /\ UNCHANGED <<present, removed, columns, finished, passesLeft>>

NextBatch ==
    /\ pass.at = "listing" /\ pass.entries = << >>
    /\ IF pass.last THEN EndPass(pass.failed)
       ELSE pass' = [pass EXCEPT !.at = "loading", !.changed = {}] /\ UNCHANGED finished
    /\ UNCHANGED <<present, removed, columns, catalogOf, passesLeft>>

PassDies ==
    /\ pass.at # "idle" /\ pass' = NoPass
    /\ UNCHANGED <<present, removed, columns, catalogOf, finished, passesLeft>>

ResourceNext ==
    \/ \E p \in RowPlaces : RowStored(p) \/ RowDeleted(p) \/ WriterUpsert(p)
    \/ StartPass \/ LoadBatch \/ StopLoading \/ SaveBatch
    \/ ReadCatalog \/ CommitCatalog \/ NextBatch \/ PassDies

ResourceSpec == ResourceInit /\ [][ResourceNext]_resourceVars

(***************************************************************************)
(* Properties                                                              *)
(***************************************************************************)

\* A run that reports and was not stopped by its limit has filled every row that
\* was due when it started and is still there, up to what its payload tells, and,
\* if it reports no failed upsert, the catalog knows what those rows tell of
\* their resources: whatever rows were added, deleted or listed meanwhile
\* (backfill_resource_intelligence_from_raw_payload).
ReportedPassIsDone ==
    \A p \in (finished.due \cap present) \ (Unreadable \cup Unresolvable) :
        /\ Extracted[p] \subseteq columns[p]
        /\ (~finished.failed /\ NameOf[p] # NoName)
              => catalogOf[NameOf[p]].listed /\ Extracted[p] \subseteq catalogOf[NameOf[p]].known

-------------------------------------------------------------------------------
(***************************************************************************)
(* scripts/backfill_classification.py: a run by hand that classifies again *)
(* the stored rows without a signal type or with the catch-all category,   *)
(* batch by batch in the order of their ids, beside the forwarder's writer *)
(* that inserts rows and the retention that clears payloads and deletes    *)
(* rows.  The four fields it rewrites are one value here, the class of the *)
(* row; what a classifier makes of a payload is a constant.                *)
(***************************************************************************)

CONSTANTS
    LastRowId,      \* bound: the ids
    LateId,         \* an id that was drawn, and whose row is committed later
    RawPayloads,    \* the payloads a row may have
    ClassOf,        \* what normalize_event makes of them now
    OldClassOf,     \* what the classifier of the day made of them
    NoObjects,      \* those that are no JSON object or that make normalize_event raise
    Unclear,        \* the classes that the script looks for
    RerunBatch,     \* BATCH_SIZE
    MaxReruns,      \* bound: runs of the script
    MaxRowChanges,  \* bound: rows inserted, cleared or deleted by the others
    RerunFaults     \* bound: statements that raise and kills

ASSUME RerunAssumption ==
    /\ DOMAIN ClassOf = RawPayloads /\ DOMAIN OldClassOf = RawPayloads
    /\ NoObjects \subseteq RawPayloads /\ RerunBatch \in Nat \ {0}
    /\ LateId \in 1 .. LastRowId
    /\ {LastRowId, MaxReruns, MaxRowChanges, RerunFaults} \subseteq Nat

NoSuchRow == [payload |-> "none"]
Gone == [payload |-> "gone"]
Classes == {ClassOf[p] : p \in RawPayloads} \cup {OldClassOf[p] : p \in RawPayloads}

VARIABLES
    rowOf,          \* audit_events: payload and class of each row
    rerunning, dryRun,
    lastId,         \* last_id
    rerunBatch,     \* rows, what a SELECT has returned: payload and class, by id
    known,          \* ghost: the rows that were there when the run began
    rerunOutcome,   \* ghost: a run has logged that it is done, or was it a dry one
    reruns, rowChanges, rerunFaults

rerunVars == <<rowOf, rerunning, dryRun, lastId, rerunBatch, known, rerunOutcome, reruns,
               rowChanges, rerunFaults>>
boundVars == <<reruns, rowChanges, rerunFaults>>
RowIds == 1 .. LastRowId
There == {i \in RowIds : rowOf[i] \notin {NoSuchRow, Gone}}
NoBatch == [i \in {} |-> NoSuchRow]
AStoredRow == [payload : RawPayloads, cleared : BOOLEAN, class : Classes]

RerunTypeOK ==
    /\ rowOf \in [RowIds -> AStoredRow \cup {NoSuchRow, Gone}]
    /\ rerunning \in BOOLEAN /\ dryRun \in BOOLEAN /\ lastId \in 0 .. LastRowId
    /\ DOMAIN rerunBatch \subseteq RowIds /\ Cardinality(DOMAIN rerunBatch) <= RerunBatch
    /\ known \subseteq RowIds
    /\ rerunOutcome \in {"nothing", "done", "dry"}

RerunInit ==
    /\ \E payloads \in [RowIds -> RawPayloads] :
          rowOf = [i \in RowIds |-> IF i = LateId THEN NoSuchRow ELSE
                      [payload |-> payloads[i], cleared |-> FALSE, class |-> OldClassOf[payloads[i]]]]
    /\ rerunning = FALSE /\ dryRun = FALSE /\ lastId = 0 /\ rerunBatch = NoBatch
    /\ known = {} /\ rerunOutcome = "nothing"
    /\ reruns = 0 /\ rowChanges = 0 /\ rerunFaults = 0

-----------------------------------------------------------------------------
(* The script *)

StartRerun(dry) ==
    /\ ~rerunning /\ reruns < MaxReruns
    /\ rerunning' = TRUE /\ dryRun' = dry /\ lastId' = 0 /\ rerunBatch' = NoBatch
    /\ known' = There /\ rerunOutcome' = "nothing"
    /\ reruns' = reruns + 1
    /\ UNCHANGED <<rowOf, rowChanges, rerunFaults>>

StillUnclear == {i \in There : i > lastId /\ rowOf[i].class \in Unclear}

\* The next rows in the order of their ids; without any the run is done.
SelectRows ==
    /\ rerunning /\ rerunBatch = NoBatch
    /\ LET next == {i \in StillUnclear : Cardinality({j \in StillUnclear : j < i}) < RerunBatch}
       IN  /\ rerunBatch' = [i \in next |-> rowOf[i]]
           /\ rerunning' = (next # {})
           /\ rerunOutcome' = IF next # {} THEN rerunOutcome ELSE IF dryRun THEN "dry" ELSE "done"
    /\ UNCHANGED <<rowOf, dryRun, lastId, known, boundVars>>

\* _load_payload and normalize_event give something.
Usable(row) == ~row.cleared /\ row.payload \notin NoObjects

\* _build_update: the rows whose class is another one now
ClassUpdates ==
    {i \in DOMAIN rerunBatch :
        /\ Usable(rerunBatch[i])
        /\ ClassOf[rerunBatch[i].payload] # rerunBatch[i].class}

\* Mutated: the next batch begins one row too late.
LastOfBatch_Skips ==
    CHOOSE i \in RowIds : i = LastRowId \/ (i - 1 \in DOMAIN rerunBatch /\ i \notin DOMAIN rerunBatch)

\* last_id after the batch, the unusable rows in it included
LastOfBatch == CHOOSE i \in DOMAIN rerunBatch : \A j \in DOMAIN rerunBatch : j <= i

\* The updates of a batch are one transaction; a row deleted meanwhile is not hit.
WriteUpdates ==
    /\ rerunning /\ rerunBatch # NoBatch
    /\ lastId' = LastOfBatch
    /\ LET hit == IF dryRun THEN {} ELSE ClassUpdates \cap There
       IN  rowOf' = [i \in RowIds |-> IF i \in hit
                        THEN [rowOf[i] EXCEPT !.class = ClassOf[rerunBatch[i].payload]] ELSE rowOf[i]]
    /\ rerunBatch' = NoBatch
    /\ UNCHANGED <<rerunning, dryRun, known, rerunOutcome, boundVars>>

\* A statement raises, or the operator stops the run.
RerunEnds ==
    /\ rerunning /\ rerunFaults < RerunFaults
    /\ rerunFaults' = rerunFaults + 1
    /\ rerunning' = FALSE /\ rerunBatch' = NoBatch
    /\ UNCHANGED <<rowOf, dryRun, lastId, known, rerunOutcome, reruns, rowChanges>>

-----------------------------------------------------------------------------
(* The writer, with the classifier of today, and the retention *)

Change(i, row) ==
    /\ rowChanges < MaxRowChanges /\ rowChanges' = rowChanges + 1
    /\ rowOf' = [rowOf EXCEPT ![i] = row]
    /\ UNCHANGED <<rerunning, dryRun, lastId, rerunBatch, known, rerunOutcome, reruns,
                   rerunFaults>>

\* Lanes commit out of the order of the ids.  A row that is there is never replaced.
InsertRow(i, p) ==
    rowOf[i] = NoSuchRow /\ Change(i, [payload |-> p, cleared |-> FALSE, class |-> ClassOf[p]])

ClearPayload(i) == i \in There /\ Change(i, [rowOf[i] EXCEPT !.cleared = TRUE])

DeleteRow(i) == i \in There /\ Change(i, Gone)

RerunNext ==
    \/ \E dry \in BOOLEAN : StartRerun(dry)
    \/ SelectRows \/ WriteUpdates \/ RerunEnds
    \/ \E i \in RowIds : ClearPayload(i) \/ DeleteRow(i) \/ \E p \in RawPayloads : InsertRow(i, p)

RerunSpec == RerunInit /\ [][RerunNext]_rerunVars

-----------------------------------------------------------------------------
(* Properties *)

\* A run that reports it is done has left no row of those it began with behind: one
\* that is still unclear has no usable payload or is unclear to today's classifier too.
DoneLeavesNothing ==
    rerunOutcome = "done" =>
        \A i \in known \cap There :
            rowOf[i].class \in Unclear =>
                ~Usable(rowOf[i]) \/ rowOf[i].class = ClassOf[rowOf[i].payload]

\* However many runs, killed or not, and whatever is deleted or cleared under them,
\* every row has the class that one of the two classifiers gives its own payload.
ClassFitsPayload ==
    \A i \in There :
        rowOf[i].class \in {ClassOf[rowOf[i].payload], OldClassOf[rowOf[i].payload]}

\* What the classification script reports is so, and it leaves no row half rewritten
\* (main of backfill_classification.py).
RerunIsHonest == DoneLeavesNothing /\ ClassFitsPayload
===============================================================================
