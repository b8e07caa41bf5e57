------------------------------- MODULE EventsView -------------------------------
(***************************************************************************)
(* The events page of the web console.  Its lists, summaries and panels    *)
(* are answered later than they are asked for, while the operator goes on. *)
(* A call whose question has changed is aborted, so that its answer never  *)
(* arrives; the calls for one event's detail and for its triage are not,   *)
(* and their answers are applied to whatever is on the screen by then.     *)
(*                                                                         *)
(* Every list shows the same rows: what differs is the filters and the     *)
(* page it was asked for, and the triage it was read with.  Formatting,    *)
(* grouping, the filter bar and the downloads are left out.                *)
(***************************************************************************)
EXTENDS Naturals, FiniteSets

CONSTANTS
    Filters,        \* the filters an operator sets, as wholes
    LastPage,       \* the last page of a list
    Rows,           \* the events
    Marks,          \* triage statuses but open
    Actors,         \* actors with a panel
    CallFaults,     \* bound on the calls that fail
    MaxActs         \* bound on these and on what the operator and the heartbeat do

ASSUME EventsViewAssumption ==
    /\ {LastPage, MaxActs, CallFaults} \subseteq Nat
    /\ Filters # {} /\ Rows # {} /\ IsFiniteSet(Rows)

Unanswered == "nothing"

VARIABLES
    filters, page,              \* filters, offset
    listCalls, list,            \* getEvents under way, data: none or one
    summaryCalls, summary, summaryError,
    optionsAsked, pageError,    \* getFilters under way, error
    expanded, detail, expandedError, drawer,    \* expandedId, expandedDetail, .., selectedEvent
    detailCalls, triageCalls,
    triage,                     \* audit_event_triage
    actor, panelCalls, panel,   \* actorId, the panel's calls and data
    polls, statusCalls, health, statusError,    \* useSystemStatus
    acts, faults,
    arrived, overtaken         \* the youngest detail answered; one came out of turn

listVars == <<filters, page, listCalls, list>>
summaryVars == <<summaryCalls, summary, summaryError>>
detailVars == <<expanded, detail, expandedError, drawer, detailCalls, arrived, overtaken>>
triageVars == <<triageCalls, triage>>
panelVars == <<actor, panelCalls, panel>>
statusVars == <<polls, statusCalls, health, statusError>>
errorVars == <<optionsAsked, pageError>>
viewVars == <<listVars, summaryVars, detailVars, triageVars, panelVars, statusVars, errorVars,
              acts, faults>>

ListCall(f, p, n) ==
    [filters |-> f, page |-> p, n |-> n, read |-> FALSE, marks |-> [e \in Rows |-> "open"]]

ViewTypeOK ==
    /\ filters \in Filters /\ page \in 0..LastPage
    /\ \A c \in listCalls : c.filters \in Filters /\ c.page \in 0..LastPage
    /\ \A l \in list : l.filters \in Filters /\ l.read
    /\ summary \in Filters \cup {Unanswered}
    /\ {expanded, detail, drawer} \subseteq Rows \cup {Unanswered}
    /\ \A c \in detailCalls \cup triageCalls : c.id \in Rows
    /\ triage \in [Rows -> Marks \cup {"open"}]
    /\ {actor, panel} \subseteq Actors \cup {Unanswered}
    /\ statusCalls \subseteq 1..(MaxActs + 1) /\ health \in 0..(MaxActs + 1)
    /\ acts \in 0..MaxActs /\ faults \in 0..CallFaults
    /\ {pageError, optionsAsked, summaryError, statusError, expandedError} \subseteq BOOLEAN

\* The page opens with the filters of its address, and with the event a link in an alert
\* names, which is asked for at once.
ViewInit ==
    /\ filters \in Filters /\ page = 0
    /\ listCalls = {ListCall(filters, 0, 0)} /\ list = {}
    /\ summaryCalls = {[filters |-> filters, n |-> 0]} /\ summary = Unanswered
    /\ summaryError = FALSE
    /\ optionsAsked = TRUE /\ pageError = FALSE
    /\ expanded = Unanswered /\ detail = Unanswered /\ expandedError = FALSE /\ drawer = Unanswered
    /\ \E linked \in SUBSET Rows :
          /\ Cardinality(linked) <= 1
          /\ detailCalls = {[id |-> e, n |-> 0] : e \in linked}
    /\ triageCalls = {} /\ triage = [e \in Rows |-> "open"]
    /\ actor = Unanswered /\ panelCalls = {} /\ panel = Unanswered
    /\ polls = 1 /\ statusCalls = {1} /\ health = 0 /\ statusError = FALSE
    /\ acts = 0 /\ faults = 0 /\ arrived = 0 /\ overtaken = FALSE

\* Once there is an error the page has no controls.
Spends == acts + faults < MaxActs /\ acts' = acts + 1
Acts == ~pageError /\ Spends
Fails == faults < CallFaults /\ acts + faults < MaxActs /\ faults' = faults + 1

-----------------------------------------------------------------------------
(* Lists, summaries and the actor's panel *)

\* Mutated: calls whose question has changed are left to arrive.
Abort_Never(calls) == calls

\* The cleanup of an effect: controller.abort().
Abort(calls) == {}

\* updateFilters, from whatever control: back to the first page, no row expanded.
ChangeFilters ==
    /\ Acts
    /\ \E f \in Filters :
          /\ filters' = f
          /\ listCalls' = Abort(listCalls) \cup {ListCall(f, 0, acts')}
          /\ summaryCalls' = Abort(summaryCalls) \cup {[filters |-> f, n |-> acts']}
    /\ page' = 0 /\ summaryError' = FALSE
    /\ expanded' = Unanswered /\ detail' = Unanswered
    /\ UNCHANGED <<list, summary, expandedError, drawer, detailCalls, arrived, overtaken,
                   triageVars, panelVars, statusVars, errorVars, faults>>

\* Previous and Next, which are there once there is a list.
TurnPage ==
    /\ Acts
    /\ list # {}
    /\ \E p \in {page - 1, page + 1} \cap 0..LastPage :
          page' = p /\ listCalls' = Abort(listCalls) \cup {ListCall(filters, p, acts')}
    /\ UNCHANGED <<filters, list, summaryVars, detailVars, triageVars, panelVars, statusVars,
                   errorVars, faults>>

\* The service reads the list with the triage of the moment.
ServeList(c) ==
    /\ ~c.read
    /\ listCalls' = (listCalls \ {c}) \cup {[c EXCEPT !.read = TRUE, !.marks = triage]}
    /\ UNCHANGED <<filters, page, list, summaryVars, detailVars, triageVars, panelVars,
                   statusVars, errorVars, acts, faults>>

ListArrives(c) ==
    /\ c.read
    /\ list' = {c}
    /\ listCalls' = listCalls \ {c}
    /\ UNCHANGED <<filters, page, summaryVars, detailVars, triageVars, panelVars, statusVars,
                   errorVars, acts, faults>>

\* The error takes the place of the page: the panels in it go, with their calls.
BreakPage ==
    /\ pageError' = TRUE
    /\ panelCalls' = Abort(panelCalls) /\ panel' = Unanswered

ListFails(c) ==
    /\ Fails
    /\ BreakPage
    /\ listCalls' = listCalls \ {c}
    /\ UNCHANGED <<filters, page, list, summaryVars, detailVars, triageVars, actor, statusVars,
                   optionsAsked, acts>>

\* getFilters: without the options of the filters there is no page either.
OptionsEnd ==
    /\ optionsAsked
    /\ optionsAsked' = FALSE
    /\ \/ UNCHANGED <<pageError, panelVars, faults>>
       \/ Fails /\ BreakPage /\ UNCHANGED actor
    /\ UNCHANGED <<listVars, summaryVars, detailVars, triageVars, statusVars, acts>>

SummaryEnds(c) ==
    /\ summaryCalls' = summaryCalls \ {c}
    /\ \/ summary' = c.filters /\ UNCHANGED <<summaryError, faults>>
       \/ Fails /\ summaryError' = TRUE /\ UNCHANGED summary
    /\ UNCHANGED <<listVars, detailVars, triageVars, panelVars, statusVars, errorVars,
                   acts>>

\* A click on an actor, on another or on Close: the panel starts empty.
ShowActor ==
    /\ Acts
    /\ list # {}
    /\ \E a \in (Actors \cup {Unanswered}) \ {actor} :
          /\ actor' = a
          /\ panelCalls' = Abort(panelCalls) \cup
                 (IF a = Unanswered THEN {} ELSE {[actor |-> a, n |-> acts']})
    /\ panel' = Unanswered
    /\ UNCHANGED <<listVars, summaryVars, detailVars, triageVars, statusVars, errorVars,
                   faults>>

PanelEnds(c) ==
    /\ panelCalls' = panelCalls \ {c}
    /\ \/ panel' = c.actor /\ UNCHANGED faults
       \/ Fails /\ UNCHANGED panel
    /\ UNCHANGED <<listVars, summaryVars, detailVars, triageVars, actor, statusVars, errorVars,
                   acts>>

-----------------------------------------------------------------------------
(* One event: its detail and its triage *)

\* onToggleExpand
ToggleExpand ==
    /\ Acts
    /\ list # {}
    /\ \E e \in Rows :
          \/ /\ expanded = e
             /\ expanded' = Unanswered /\ drawer' = Unanswered
             /\ UNCHANGED detailCalls
          \/ /\ expanded # e
             /\ expanded' = e /\ drawer' = e
             /\ detailCalls' = detailCalls \cup {[id |-> e, n |-> acts']}
    /\ detail' = Unanswered /\ expandedError' = FALSE
    /\ UNCHANGED <<listVars, summaryVars, triageVars, panelVars, statusVars, errorVars, faults,
                   arrived, overtaken>>

\* The answer of a link's call opens the row, the others only fill it.
DetailArrives(c) ==
    /\ detailCalls' = detailCalls \ {c}
    /\ detail' = c.id /\ drawer' = c.id
    /\ IF c.n = 0 THEN expanded' = c.id /\ expandedError' = FALSE
                  ELSE UNCHANGED <<expanded, expandedError>>
    /\ arrived' = IF c.n > arrived THEN c.n ELSE arrived
    /\ overtaken' = (overtaken \/ c.n < arrived \/ (c.n = 0 /\ Cardinality(detailCalls) > 1))
    /\ UNCHANGED <<listVars, summaryVars, triageVars, panelVars, statusVars, errorVars, acts,
                   faults>>

DetailFails(c) ==
    /\ Fails
    /\ detailCalls' = detailCalls \ {c}
    /\ expandedError' = TRUE
    /\ UNCHANGED <<listVars, summaryVars, triageVars, panelVars, statusVars, errorVars, acts,
                   expanded, detail, drawer, arrived, overtaken>>

\* The drawer's Close
CloseDrawer ==
    /\ Acts
    /\ drawer # Unanswered
    /\ drawer' = Unanswered /\ expanded' = Unanswered /\ detail' = Unanswered /\ expandedError' = FALSE
    /\ UNCHANGED <<listVars, summaryVars, triageVars, panelVars, statusVars, errorVars, faults,
                   detailCalls, arrived, overtaken>>

\* handleTriage: a button of the drawer, for the event that is in it.
Triage ==
    /\ Acts
    /\ drawer # Unanswered
    /\ \E m \in Marks :
          triageCalls' = triageCalls \cup {[id |-> drawer, mark |-> m, n |-> acts', saved |-> FALSE]}
    /\ UNCHANGED <<listVars, summaryVars, detailVars, triage, panelVars, statusVars, errorVars,
                   faults>>

\* update_event_triage, upsert_triage
SaveTriage(c) ==
    /\ ~c.saved
    /\ triage' = [triage EXCEPT ![c.id] = c.mark]
    /\ triageCalls' = (triageCalls \ {c}) \cup {[c EXCEPT !.saved = TRUE]}
    /\ UNCHANGED <<listVars, summaryVars, detailVars, panelVars, statusVars, errorVars, acts,
                   faults>>

\* The answer puts its event into the drawer and its status into the list.
TriageArrives(c) ==
    /\ c.saved
    /\ triageCalls' = triageCalls \ {c}
    /\ drawer' = c.id
    /\ list' = {[l EXCEPT !.marks[c.id] = c.mark] : l \in list}
    /\ UNCHANGED <<filters, page, listCalls, summaryVars, expanded, detail, expandedError,
                   detailCalls, arrived, overtaken, triage, panelVars, statusVars, errorVars,
                   acts, faults>>

\* It failed, or its answer was lost after it was saved: nothing on the screen changes but a note.
TriageFails(c) ==
    /\ Fails
    /\ triageCalls' = triageCalls \ {c}
    /\ UNCHANGED <<listVars, summaryVars, detailVars, triage, panelVars, statusVars, errorVars,
                   acts>>

-----------------------------------------------------------------------------
(* The heartbeat *)

\* _fetchOnce by the timer, whether or not the last one has been answered
PollStatus ==
    /\ Spends
    /\ polls' = polls + 1
    /\ statusCalls' = Abort(statusCalls) \cup {polls'}
    /\ UNCHANGED <<listVars, summaryVars, detailVars, triageVars, panelVars, health, statusError,
                   errorVars, faults>>

\* A failure leaves the last status.
PollEnds(n) ==
    /\ statusCalls' = statusCalls \ {n}
    /\ \/ health' = n /\ statusError' = FALSE /\ UNCHANGED faults
       \/ Fails /\ statusError' = TRUE /\ UNCHANGED health
    /\ UNCHANGED <<listVars, summaryVars, detailVars, triageVars, panelVars, polls, errorVars,
                   acts>>

ViewNext ==
    \/ ChangeFilters
    \/ TurnPage
    \/ \E c \in listCalls : ServeList(c) \/ ListArrives(c) \/ ListFails(c)
    \/ OptionsEnd
    \/ \E c \in summaryCalls : SummaryEnds(c)
    \/ ShowActor
    \/ \E c \in panelCalls : PanelEnds(c)
    \/ ToggleExpand
    \/ \E c \in detailCalls : DetailArrives(c) \/ DetailFails(c)
    \/ CloseDrawer
    \/ Triage
    \/ \E c \in triageCalls : SaveTriage(c) \/ TriageArrives(c) \/ TriageFails(c)
    \/ PollStatus
    \/ \E n \in statusCalls : PollEnds(n)

ViewSpec == ViewInit /\ [][ViewNext]_viewVars

-----------------------------------------------------------------------------
(* Properties *)

\* What an operator looks at once the answers are in is what the controls say: the list
\* is of the filters and the page, the summary of the filters, the panel of its actor,
\* the status of the last poll.
AnswersAreCurrent ==
    /\ listCalls = {} /\ ~pageError =>
           \E l \in list : l.filters = filters /\ l.page = page
    /\ summaryCalls = {} /\ ~summaryError => summary = filters
    /\ panel \in {actor, Unanswered}
    /\ statusCalls = {} /\ ~statusError => health = polls

\* The detail under the expanded row is that row's, unless a call for a detail failed,
\* was answered after a younger one, or is a link's and was answered after a row was opened.
DetailIsOfItsRow ==
    detailCalls = {} /\ ~overtaken /\ ~expandedError /\ expanded # Unanswered =>
        detail = expanded

ViewIsCurrent == AnswersAreCurrent /\ DetailIsOfItsRow
=============================================================================
