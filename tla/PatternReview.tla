----------------------------- MODULE PatternReview -----------------------------
(***************************************************************************)
(* What becomes of the recurring patterns the forwarder has found: the     *)
(* detector's upserts, the expiry that every listing begins with, and the  *)
(* decisions of responders to suppress a pattern or to mark it expected,   *)
(* behind the role check and its audit log.  The events page hides the     *)
(* events of suppressed patterns (EventPaging).                            *)
(***************************************************************************)
EXTENDS Integers

CONSTANTS
    Recurring,      \* the patterns
    Reviewers,      \* those who hold tokens
    StaleHours,     \* PATTERN_STALE_HOURS
    Durations,      \* duration_hours of a suppression; 0 is without end
    ReviewHours,       \* bound on time
    MaxGrants,      \* bound: changes of the token file
    MaxDecisions    \* bound: requests to decide

ASSUME ReviewAssumption ==
    /\ {StaleHours, ReviewHours, MaxGrants, MaxDecisions} \subseteq Nat
    /\ Durations \subseteq Nat /\ "api" \notin Reviewers

ReviewRoles == {"none", "viewer", "responder", "exporter", "admin"}
Decisions == {"suppressed", "expected"}
NoEnd == -1

VARIABLES
    reviewHour,
    guarded,        \* the API's authentication is enabled
    roleOf,         \* the token file: reviewer -> role
    found,          \* audit_event_patterns
    deciding,        \* reviewer -> the decision it is making
    adminLog,       \* admin_audit_log
    unlogged,       \* ghost: entries whose write failed
    decided,        \* ghost: the patterns a decision was committed for
    grantsLeft, decisionsLeft
reviewVars == <<reviewHour, guarded, roleOf, found, deciding, adminLog, unlogged, decided,
                grantsLeft, decisionsLeft>>

NotFound == [status |-> "absent", seen |-> 0, until |-> NoEnd, by |-> "nobody"]
NoRequest == [at |-> "idle"]

RowTypes == [status : {"absent", "active", "expired"} \cup Decisions, seen : 0 .. ReviewHours,
             until : {NoEnd} \cup Nat, by : Reviewers \cup {"nobody", "api"}]
LogEntries == [actor : Reviewers, role : ReviewRoles, action : Decisions, target : Recurring]

ReviewTypeOK ==
    /\ reviewHour \in 0 .. ReviewHours /\ guarded \in BOOLEAN
    /\ roleOf \in [Reviewers -> ReviewRoles] /\ found \in [Recurring -> RowTypes]
    /\ \A r \in Reviewers : deciding[r].at # "idle" =>
          /\ deciding[r].at \in {"admitted", "loaded"} /\ deciding[r].pattern \in Recurring
          /\ deciding[r].kind \in Decisions /\ deciding[r].hours \in Durations \cup {0}
          /\ deciding[r].at = "loaded" => deciding[r].row \in RowTypes
    /\ {adminLog, unlogged} \subseteq SUBSET LogEntries /\ decided \subseteq Recurring
    /\ grantsLeft \in 0 .. MaxGrants /\ decisionsLeft \in 0 .. MaxDecisions

ReviewInit ==
    /\ reviewHour = 0 /\ guarded \in BOOLEAN
    /\ roleOf \in [Reviewers -> {"viewer", "responder"}]
    /\ found = [p \in Recurring |-> NotFound] /\ deciding = [r \in Reviewers |-> NoRequest]
    /\ adminLog = {} /\ unlogged = {} /\ decided = {}
    /\ grantsLeft = MaxGrants /\ decisionsLeft = MaxDecisions

\* _upsert_pattern: a row that is there keeps its status, expired or not.
Detected(p) ==
    /\ found' = [found EXCEPT ![p] = IF @ = NotFound
                     THEN [NotFound EXCEPT !.status = "active", !.seen = reviewHour]
                     ELSE [@ EXCEPT !.seen = reviewHour]]
    /\ UNCHANGED <<reviewHour, guarded, roleOf, deciding, adminLog, unlogged, decided,
                   grantsLeft, decisionsLeft>>

\* _require_viewer
MayView(r) == guarded => roleOf[r] \in {"viewer", "responder", "admin"}

\* _expire_stale_patterns (the mutant expires decided patterns too)
IsStale_Any(p) == found[p] # NotFound /\ found[p].seen < reviewHour - StaleHours
IsStale(p) == found[p].status = "active" /\ found[p].seen < reviewHour - StaleHours

\* GET /patterns, whose expiry may fail without harm
ListPatterns(r) ==
    /\ MayView(r)
    /\ found' = [p \in Recurring |-> IF IsStale(p) THEN [found[p] EXCEPT !.status = "expired"]
                                     ELSE found[p]]
    /\ UNCHANGED <<reviewHour, guarded, roleOf, deciding, adminLog, unlogged, decided,
                   grantsLeft, decisionsLeft>>

-----------------------------------------------------------------------------
(* A decision: POST /patterns/{id}/suppress and /mark-expected             *)

\* _require_responder (the mutant admits whoever may view)
MayDecide_Viewers(r) == MayView(r)
MayDecide(r) == guarded => roleOf[r] \in {"responder", "admin"}

\* _log_via_dep: the request is logged once its sender is admitted, before
\* anything is decided; a log entry that cannot be written is dropped.
Logged(r, kind, p) ==
    LET entry == [actor |-> r, role |-> roleOf[r], action |-> kind, target |-> p]
    IN  IF guarded
        THEN \/ adminLog' = adminLog \cup {entry} /\ UNCHANGED unlogged
             \/ unlogged' = unlogged \cup {entry} /\ UNCHANGED adminLog
        ELSE UNCHANGED <<adminLog, unlogged>>
AskToDecide(r, kind, p, hours) ==
    /\ deciding[r] = NoRequest /\ decisionsLeft > 0 /\ MayDecide(r)
    /\ Logged(r, kind, p)
    /\ deciding' = [deciding EXCEPT ![r] = [at |-> "admitted", kind |-> kind, pattern |-> p,
                                          hours |-> hours]]
    /\ decisionsLeft' = decisionsLeft - 1
    /\ UNCHANGED <<reviewHour, guarded, roleOf, found, decided, grantsLeft>>

\* _actor_id reads the token file again, and calls a sender it no longer knows
\* "api"; then the row is loaded.
Signature(r) == IF guarded /\ roleOf[r] # "none" THEN r ELSE "api"
LoadPattern(r) ==
    /\ deciding[r].at = "admitted"
    /\ LET p == deciding[r].pattern
       IN  deciding' = [deciding EXCEPT ![r] =
               IF found[p] = NotFound THEN NoRequest
               ELSE [at |-> "loaded", kind |-> @.kind, pattern |-> p, hours |-> @.hours,
                     by |-> Signature(r), row |-> found[p]]]
    /\ UNCHANGED <<reviewHour, guarded, roleOf, found, adminLog, unlogged, decided,
                   grantsLeft, decisionsLeft>>

\* The UPDATE names the columns whose value differs from the one loaded.
Written(current, loaded, new) == IF new = loaded THEN current ELSE new
Commit(r, until) ==
    LET p == deciding[r].pattern
        old == deciding[r].row
        row == found[p]
    IN  /\ found' = [found EXCEPT ![p] =
               [row EXCEPT !.status = Written(row.status, old.status, deciding[r].kind),
                           !.until = Written(row.until, old.until, until),
                           !.by = Written(row.by, old.by, deciding[r].by)]]
        /\ decided' = decided \cup {p}
        /\ deciding' = [deciding EXCEPT ![r] = NoRequest]
        /\ UNCHANGED <<reviewHour, guarded, roleOf, adminLog, unlogged, grantsLeft,
                       decisionsLeft>>
SuppressPattern(r) ==
    /\ deciding[r].at = "loaded" /\ deciding[r].kind = "suppressed"
    /\ Commit(r, IF deciding[r].hours > 0 THEN reviewHour + deciding[r].hours ELSE NoEnd)
MarkExpected(r) ==
    /\ deciding[r].at = "loaded" /\ deciding[r].kind = "expected" /\ Commit(r, NoEnd)

\* The row stays as it was if the commit fails.
DecisionFails(r) ==
    /\ deciding[r] # NoRequest /\ deciding' = [deciding EXCEPT ![r] = NoRequest]
    /\ UNCHANGED <<reviewHour, guarded, roleOf, found, adminLog, unlogged, decided,
                   grantsLeft, decisionsLeft>>

GrantRole(r, role) ==
    /\ grantsLeft > 0 /\ grantsLeft' = grantsLeft - 1
    /\ roleOf' = [roleOf EXCEPT ![r] = role]
    /\ UNCHANGED <<reviewHour, guarded, found, deciding, adminLog, unlogged, decided,
                   decisionsLeft>>

HourGoesBy ==
    /\ reviewHour < ReviewHours /\ reviewHour' = reviewHour + 1
    /\ UNCHANGED <<guarded, roleOf, found, deciding, adminLog, unlogged, decided,
                   grantsLeft, decisionsLeft>>

ReviewNext ==
    \/ \E p \in Recurring : Detected(p)
    \/ \E r \in Reviewers :
        \/ ListPatterns(r) \/ LoadPattern(r) \/ SuppressPattern(r) \/ MarkExpected(r)
        \/ DecisionFails(r)
        \/ \E p \in Recurring, hours \in Durations : AskToDecide(r, "suppressed", p, hours)
        \/ \E p \in Recurring : AskToDecide(r, "expected", p, 0)
        \/ \E role \in {"none", "responder"} : GrantRole(r, role)
    \/ HourGoesBy

ReviewSpec == ReviewInit /\ [][ReviewNext]_reviewVars

(***************************************************************************)
(* Properties                                                              *)
(***************************************************************************)

\* get_suppressed_combos
Hidden(p) ==
    found[p].status \in Decisions /\ (found[p].until = NoEnd \/ found[p].until > reviewHour)

\* A pattern that was decided about stays so: the expiry of a listing and the
\* upserts of the detector, between the reading and the writing of a decision or
\* after it, never make it active or expired again (_expire_stale_patterns,
\* _upsert_pattern, suppress_pattern).
DecisionsStand == \A p \in Recurring : p \in decided <=> found[p].status \in Decisions

\* While the API is guarded the events of a pattern are hidden only by a decision
\* of someone who was a responder or an admin when asking for it, and the audit
\* log names them unless its own write failed, though the role is taken away or
\* two decisions cross (_require_responder, _log_via_dep, _actor_id).
HidingIsOnRecord ==
    \A p \in Recurring : (guarded /\ Hidden(p)) =>
        \E e \in adminLog \cup unlogged :
            /\ e.target = p /\ e.action = found[p].status
            /\ e.role \in {"responder", "admin"}

ReviewsStand == DecisionsStand /\ HidingIsOnRecord
===============================================================================
