---------------------------- MODULE ForwarderApi ----------------------------
(***************************************************************************)
(* The investigation endpoints of the forwarder's HTTP server              *)
(* (src/src/forwarder/health_server.py), its tokens                        *)
(* (src/src/product/auth.py), and the two places they answer from: the hot *)
(* cache's tables (src/src/product/persistence.py) and the deques of       *)
(* ApiState (src/audit_forwarder.py).                                      *)
(*                                                                         *)
(* Requests run each in a thread of its own, beside the consume loop.      *)
(* The token file is rewritten while they run: it is emptied and written,  *)
(* and each of the two changes its mtime, which serves as its version; an  *)
(* odd one is a file half written.  One token is presented; a version says *)
(* what it grants.  Filters by text are left out; the time window is kept, *)
(* because only one of the two places looks at it.                         *)
(***************************************************************************)
EXTENDS Naturals, Sequences, FiniteSets, SequencesExt

CONSTANTS
    ApiRequests,     \* the requests, each a thread
    AsksOf,          \* request -> the kinds, with their windows, that it may be
    Modes,           \* the <<API_AUTH_ENABLED, hot cache on>> there are
    GrantAt,         \* version of the token file -> what the token grants by it
    LastVersion,     \* bound: the versions of the file
    OrgOf, TimeOf,   \* event -> its organization and its time, in the order of consumption
    RiskyEvents,     \* those with is_high_risk
    LowEvents,       \* those that an emergency drops
    BufferMax,       \* API_BUFFER_ENRICHED, API_BUFFER_SIGNALS
    RowsMax,         \* the limit of a request
    MaxMoves         \* bound: events consumed or spoiled, changes of storage and of the file

Consumable == 1 .. Len(OrgOf)
Orgs == {OrgOf[e] : e \in Consumable}
NoGrant == [role |-> "none", orgs |-> {}]
Anonymous == [role |-> "viewer", orgs |-> Orgs]
Roles == {"viewer", "exporter", "admin"}
Kinds == {"search", "highRisk", "export", "vacuum"}
Windows == {"all", "early", "tooLong"}

ASSUME ForwarderApiAssumption ==
    /\ LastVersion \in Nat /\ LastVersion % 2 = 0
    /\ \A v \in 0 .. LastVersion : v % 2 = 0 =>
           GrantAt[v] = NoGrant \/ (GrantAt[v].role \in Roles /\ GrantAt[v].orgs \subseteq Orgs)
    /\ AsksOf \in [ApiRequests -> SUBSET (({"search", "highRisk", "vacuum"} \X {"all"})
                                         \cup ({"export"} \X Windows))]
    /\ IsFiniteSet(ApiRequests) /\ Modes \subseteq BOOLEAN \X BOOLEAN
    /\ OrgOf \in Seq(Orgs) /\ Len(TimeOf) = Len(OrgOf)
    /\ RiskyEvents \cup LowEvents \subseteq Consumable
    /\ RiskyEvents \cap LowEvents = {}
    /\ {BufferMax, RowsMax} \subseteq Nat \ {0} /\ MaxMoves \in Nat

VARIABLES
    grantFile,       \* its version
    tokens,          \* config: the mtime it has and the version it was read from
    authOn, cacheOn, \* API_AUTH_ENABLED; product_store is there
    call,            \* request -> how far it is
    reply,           \* request -> what it was answered
    cachedEvents,    \* enriched_events
    recentEvents, recentRisky,   \* the deques, the newest first
    cacheHealthy,    \* persistence_status["healthy"]
    emergency,       \* the storage mode is emergency, or degraded
    consumed, eventInHand,
    auditTrail,      \* api_audit_log: the requests it has a row of
    denials, exports,\* export_denied_total and export_requests_total
    unkept,          \* ghost: events whose write was dropped or raised
    exportAsked,     \* ghost: exports that were let in or refused for want of a right
    moves
tokenVars == <<grantFile, tokens, authOn>>
apiRequestVars == <<call, reply, auditTrail, denials, exports, exportAsked>>
feedVars == <<cachedEvents, recentEvents, recentRisky, cacheHealthy, emergency,
              consumed, eventInHand, unkept, cacheOn>>
apiVars == <<tokenVars, apiRequestVars, feedVars, moves>>
OneMove == moves < MaxMoves /\ moves' = moves + 1

NoReply == [status |-> 0, rows |-> <<>>, source |-> "none", owed |-> {}]
NoCall == [stage |-> "idle", kind |-> "search", window |-> "all", mtime |-> 0, read |-> 0,
          since |-> 0,
          grant |-> NoGrant]

ForwarderApiTypeOK ==
    /\ grantFile \in 0 .. LastVersion
    /\ tokens.mtime \in 0 .. LastVersion /\ tokens.read \in 0 .. LastVersion
    /\ tokens.read % 2 = 0
    /\ \A r \in ApiRequests :
          /\ call[r].stage \in {"idle", "reading", "setting", "matching", "querying", "answered", "dead"}
          /\ call[r].kind \in Kinds /\ call[r].window \in Windows
          /\ reply[r].status \in {0, 200, 401, 403, 500, 503}
    /\ cachedEvents \subseteq 1 .. consumed
    /\ Len(recentEvents) <= BufferMax /\ Len(recentRisky) <= BufferMax
    /\ consumed \in 0 .. Len(OrgOf) /\ eventInHand \in {"none", "kept"}

\* from_env reads the file, and then its mtime: it may have been rewritten in between.
ForwarderApiInit ==
    /\ grantFile \in {0, 2} \cap 0 .. LastVersion
    /\ tokens = [mtime |-> grantFile, read |-> 0]
    /\ \E mode \in Modes : authOn = mode[1] /\ cacheOn = mode[2]
    /\ ~authOn => grantFile = 0
    /\ call = [r \in ApiRequests |-> NoCall] /\ reply = [r \in ApiRequests |-> NoReply]
    /\ cachedEvents = {} /\ recentEvents = <<>> /\ recentRisky = <<>>
    /\ cacheHealthy = TRUE /\ emergency = FALSE /\ consumed = 0 /\ eventInHand = "none"
    /\ auditTrail = {} /\ denials = 0 /\ exports = 0 /\ exportAsked = 0
    /\ unkept = {} /\ moves = 0

-----------------------------------------------------------------------------
(* The consume loop *)

Push(item, deque) == SubSeq(<<item>> \o deque, 1, IF Len(deque) < BufferMax THEN Len(deque) + 1
                                                  ELSE BufferMax)

\* A write to the hot cache: made, dropped for want of room, or raising; persist_safely
\* swallows what it raises.  high says that an emergency does not drop it.
WriteKept(high) == cacheOn /\ (emergency => high)

\* The event goes to the hot cache; that is called a success with the health taken before.
KeepEvent ==
    /\ OneMove /\ consumed < Len(OrgOf) /\ eventInHand = "none"
    /\ consumed' = consumed + 1 /\ eventInHand' = "kept"
    /\ \/ /\ WriteKept(consumed' \notin LowEvents)
          /\ cachedEvents' = cachedEvents \cup {consumed'}
          /\ UNCHANGED unkept
       \/ /\ unkept' = unkept \cup {consumed'}
          /\ UNCHANGED cachedEvents
    /\ cacheHealthy' = TRUE
    /\ UNCHANGED <<recentEvents, recentRisky, emergency, cacheOn, tokenVars,
                   apiRequestVars>>

\* Once it is produced it goes to the deques.  The risky ones have a table too, which no query
\* can read.
ShowEvent ==
    /\ eventInHand = "kept" /\ eventInHand' = "none"
    /\ recentEvents' = Push(consumed, recentEvents)
    /\ recentRisky' = IF consumed \in RiskyEvents THEN Push(consumed, recentRisky) ELSE recentRisky
    /\ UNCHANGED <<cachedEvents, cacheHealthy, emergency, consumed, unkept, cacheOn, tokenVars,
                   apiRequestVars, moves>>

\* An event that cannot be processed: the hot cache is called unhealthy until the next success.
SpoilEvent ==
    /\ OneMove /\ eventInHand = "kept" /\ eventInHand' = "none" /\ cacheHealthy' = ~cacheOn
    /\ UNCHANGED <<cachedEvents, recentEvents, recentRisky, emergency, consumed, unkept,
                   cacheOn, tokenVars, apiRequestVars>>

\* The monitor finds the storage in an emergency, or out of it, and the cache healthy.
MonitorStorage ==
    /\ OneMove /\ cacheOn /\ emergency' = ~emergency /\ cacheHealthy' = TRUE
    /\ UNCHANGED <<cachedEvents, recentEvents, recentRisky, consumed, eventInHand, unkept,
                   cacheOn, tokenVars, apiRequestVars>>

-----------------------------------------------------------------------------
(* Tokens *)

\* The operator empties the file or writes it anew.
RewriteTokens ==
    /\ OneMove /\ authOn /\ grantFile < LastVersion /\ grantFile' = grantFile + 1
    /\ UNCHANGED <<tokens, authOn, apiRequestVars, feedVars>>

CallAt(r, stage) == call[r].stage = stage

\* refresh_if_needed, for a request that has come in: the mtime, newer than the one it has.
StartCall(r, kind, window) ==
    /\ CallAt(r, "idle")
    /\ <<kind, window>> \in AsksOf[r]
    /\ call' = [call EXCEPT ![r] =
           [stage |-> IF authOn /\ grantFile > tokens.mtime THEN "reading" ELSE "matching",
            kind |-> kind, window |-> window, mtime |-> grantFile, read |-> 0,
            since |-> consumed, grant |-> NoGrant]]
    /\ UNCHANGED <<tokenVars, reply, auditTrail, denials, exports, exportAsked, feedVars,
                   moves>>

\* It reads the file.  Half a file raises, and ends the request.
ReadTokens(r) ==
    /\ CallAt(r, "reading")
    /\ call' = [call EXCEPT ![r] = [@ EXCEPT !.stage = IF grantFile % 2 = 1 THEN "dead" ELSE "setting",
                                             !.read = grantFile]]
    /\ UNCHANGED <<tokenVars, reply, auditTrail, denials, exports, exportAsked, feedVars,
                   moves>>

\* Mutant: the mtime is taken after the file was read, as from_env takes it.
SetTokens_MtimeNow(r) ==
    /\ CallAt(r, "setting")
    /\ tokens' = [mtime |-> grantFile, read |-> call[r].read]
    /\ call' = [call EXCEPT ![r].stage = "matching"]
    /\ UNCHANGED <<grantFile, authOn, reply, auditTrail, denials, exports, exportAsked,
                   feedVars, moves>>

\* What it read replaces the tokens, be they those of another request that read later.
SetTokens(r) ==
    /\ CallAt(r, "setting")
    /\ tokens' = [mtime |-> call[r].mtime, read |-> call[r].read]
    /\ call' = [call EXCEPT ![r].stage = "matching"]
    /\ UNCHANGED <<grantFile, authOn, reply, auditTrail, denials, exports, exportAsked,
                   feedVars, moves>>

-----------------------------------------------------------------------------
(* Requests *)

\* _record_api_audit: dropped in an emergency, and without a hot cache there is none.
AuditKept(r) == auditTrail' = IF WriteKept(FALSE) THEN auditTrail \cup {r} ELSE auditTrail

Replies(r, status, rows, source, owed) ==
    /\ reply' = [reply EXCEPT ![r] =
                    [status |-> status, rows |-> rows, source |-> source, owed |-> owed]]
    /\ call' = [call EXCEPT ![r].stage = "answered"]
    /\ AuditKept(r)

GrantNow == IF authOn THEN GrantAt[tokens.read] ELSE Anonymous
Permitted(kind, role) ==
    CASE kind = "export" -> role \in {"exporter", "admin"}
      [] kind = "vacuum" -> role = "admin"
      [] OTHER -> role # "none"

\* _authorize_request refuses, or the export's window does.
Refuse(r) ==
    /\ CallAt(r, "matching")
    /\ LET kind == call[r].kind
           refused == ~Permitted(kind, GrantNow.role) \/ call[r].window = "tooLong"
           counts == kind = "export" /\ GrantNow # NoGrant
       IN  /\ refused
           /\ denials' = IF counts THEN denials + 1 ELSE denials
           /\ exportAsked' = IF counts THEN exportAsked + 1 ELSE exportAsked
           /\ Replies(r, IF GrantNow = NoGrant THEN 401 ELSE 403, <<>>, "none", {})
    /\ UNCHANGED <<tokenVars, exports, feedVars, moves>>

Admit(r) ==
    /\ CallAt(r, "matching") /\ Permitted(call[r].kind, GrantNow.role) /\ call[r].window # "tooLong"
    /\ call' = [call EXCEPT ![r] = [@ EXCEPT !.stage = "querying", !.grant = GrantNow]]
    /\ exportAsked' = IF call[r].kind = "export" THEN exportAsked + 1 ELSE exportAsked
    /\ UNCHANGED <<tokenVars, reply, auditTrail, denials, exports, feedVars,
                   moves>>

FromCache == cacheOn /\ cacheHealthy
InScope(r, e) == OrgOf[e] \in call[r].grant.orgs
InWindow(r, e) == call[r].window = "early" => TimeOf[e] <= 1
Capped(rows) == SubSeq(rows, 1, IF Len(rows) < RowsMax THEN Len(rows) ELSE RowsMax)

\* ORDER BY event_time DESC, which leaves those of one time in any order
LatestFirst(events) ==
    {s \in [1 .. Cardinality(events) -> events] :
        /\ Range(s) = events
        /\ \A i, j \in DOMAIN s : i < j => TimeOf[s[i]] >= TimeOf[s[j]]}

\* Mutant: the newest rows are taken first, and then those in scope.
CachedRowsOf_LimitFirst(r) ==
    UNION {LatestFirst({e \in Range(Capped(s)) : InScope(r, e) /\ InWindow(r, e)}) :
               s \in LatestFirst(cachedEvents)}

\* _query_records: in scope and in the window, the latest first.
CachedRowsOf(r) ==
    {Capped(s) : s \in LatestFirst({e \in cachedEvents : InScope(r, e) /\ InWindow(r, e)})}

\* The deques, which hold each event once and the last consumed first, are asked for the
\* scope, not for the window.
RecentOf(r, deque) ==
    LET scoped == {e \in Range(deque) : InScope(r, e)}
    IN  {Capped(s) : s \in {t \in [1 .. Cardinality(scoped) -> scoped] :
            Range(t) = scoped /\ \A i, j \in DOMAIN t : i < j => t[i] > t[j]}}

\* What was consumed before the request came, and written, is owed to it.
OwedTo(r) == {e \in (1 .. call[r].since) \ unkept : InScope(r, e) /\ InWindow(r, e)}

AnswerSearch(r) ==
    /\ CallAt(r, "querying") /\ call[r].kind \in {"search", "export"}
    /\ IF FromCache
       THEN \E rows \in CachedRowsOf(r) : Replies(r, 200, rows, "persistence", OwedTo(r))
       ELSE \E rows \in RecentOf(r, recentEvents) : Replies(r, 200, rows, "memory", {})
    /\ exports' = IF call[r].kind = "export" THEN exports + 1 ELSE exports
    /\ UNCHANGED <<tokenVars, denials, exportAsked, feedVars, moves>>

\* high_risk_events has no column source_topic: its query raises and there is no answer.
AnswerHighRisk(r) ==
    /\ CallAt(r, "querying") /\ call[r].kind = "highRisk"
    /\ IF FromCache
       THEN /\ call' = [call EXCEPT ![r].stage = "dead"]
            /\ UNCHANGED <<reply, auditTrail>>
       ELSE \E rows \in RecentOf(r, recentRisky) : Replies(r, 200, rows, "memory", {})
    /\ UNCHANGED <<tokenVars, denials, exports, exportAsked, feedVars,
                   moves>>

\* /admin/vacuum: off, done or failed.
AnswerVacuum(r) ==
    /\ CallAt(r, "querying") /\ call[r].kind = "vacuum"
    /\ \E status \in IF cacheOn THEN {200, 500} ELSE {503} : Replies(r, status, <<>>, "none", {})
    /\ UNCHANGED <<tokenVars, denials, exports, exportAsked, feedVars,
                   moves>>

ForwarderApiNext ==
    \/ KeepEvent \/ ShowEvent \/ SpoilEvent \/ MonitorStorage \/ RewriteTokens
    \/ \E r \in ApiRequests :
          \/ \E kind \in Kinds, window \in Windows : StartCall(r, kind, window)
          \/ ReadTokens(r) \/ SetTokens(r) \/ Refuse(r) \/ Admit(r)
          \/ AnswerSearch(r) \/ AnswerHighRisk(r) \/ AnswerVacuum(r)

ForwarderApiSpec == ForwarderApiInit /\ [][ForwarderApiNext]_apiVars

-----------------------------------------------------------------------------
(* What an answer may be relied on for *)

\* The tokens in force are never older than their mtime says, unless they were read while the
\* forwarder started, whichever of several requests that reread the file comes last: a rewrite is
\* noticed by the next request, and by each one until it is in force.
TokensKeepUp == tokens.read >= tokens.mtime \/ tokens.read = 0

\* An answer has only rows in the scope it was admitted with, no more than asked for, newest
\* first.  One that says it comes from persistence is within its window, and short of its limit
\* it has every event in it that was consumed before the request and whose write did not fail.
AnswersAreWhole ==
    \A r \in ApiRequests : reply[r].status = 200 /\ call[r].kind # "vacuum" =>
        LET rows == reply[r].rows IN
        /\ Len(rows) <= RowsMax /\ \A i \in DOMAIN rows : InScope(r, rows[i])
        /\ reply[r].source = "persistence" =>
              /\ \A i, j \in DOMAIN rows : i < j => TimeOf[rows[i]] >= TimeOf[rows[j]]
              /\ \A i \in DOMAIN rows : InWindow(r, rows[i])
              /\ Len(rows) < RowsMax => reply[r].owed \subseteq {rows[i] : i \in DOMAIN rows}

\* Each export that was asked for by someone known is counted once, as made, as denied, or is
\* still under way.
ExportsAreCounted ==
    exportAsked = denials + exports
        + Cardinality({r \in ApiRequests : CallAt(r, "querying") /\ call[r].kind = "export"})

AccessHolds == TokensKeepUp /\ ExportsAreCounted
=============================================================================
