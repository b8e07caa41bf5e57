----------------------------- MODULE TopicRouting -----------------------------
(***************************************************************************)
(* The criticality router and the DLQ it falls back to, on a producer with *)
(* a bounded queue, and the creation of the topics it needs.               *)
(*                                                                         *)
(* An event's criticality is given: calculate_criticality is modelled in   *)
(* EventVerdict.  The events come one after the other, from the processor. *)
(***************************************************************************)
EXTENDS Integers, FiniteSets, SequencesExt

CONSTANTS
    Routables,      \* the events, ordered by <
    LevelOf,        \* event -> criticality
    LowLevel,       \* criticality: the one that DROP_LOW_EVENTS drops
    AllTopic,       \* the topic for all events
    QueueSize,      \* of the producer
    Creators,       \* those who create missing topics
    MaxDeliveries   \* bound on failed deliveries and refused produce calls

ASSUME RoutingAssumption ==
    /\ Routables \subseteq Nat /\ IsFiniteSet(Routables)
    /\ LevelOf \in [Routables -> {LevelOf[e] : e \in Routables}]
    /\ AllTopic \notin {LevelOf[e] : e \in Routables} /\ QueueSize \in Nat \ {0}
    /\ MaxDeliveries \in Nat

Levels == {LevelOf[e] : e \in Routables}
NoEvent == -1

VARIABLES
    config,         \* RouterConfig
    sendQueue,      \* what the producer holds: <<event, topic>>
    deliveredTo,    \* topic -> the events delivered
    gaveUp,         \* the deliveries that failed, their callbacks run
    outcome,         \* event -> RoutingResult, for those routed
    routing,        \* the event inside route_event, its own topic served
    stats,
    toDlq,          \* the events the forwarder sent to the DLQ
    topicsThere,    \* the topics that exist, for the creators
    missing, created, report,   \* creator -> what it found, made and returned
    hitches
creationVars == <<topicsThere, missing, created, report>>
routeVars == <<config, sendQueue, deliveredTo, gaveUp, outcome, routing, stats, toDlq, hitches>>
routingVars == <<routeVars, creationVars>>

\* get_enabled_topic_names
EnabledTopics == config.enabled \cup (IF config.all THEN {AllTopic} ELSE {})
AllTopics == Levels \cup {AllTopic}
Results == {"ROUTED", "DRY_RUN", "SKIPPED", "DROPPED", "ERROR"}

RoutingTypeOK ==
    /\ config \in [enabled : SUBSET Levels, all : BOOLEAN, dropLow : BOOLEAN, dry : BOOLEAN]
    /\ sendQueue \in Seq(Routables \X AllTopics) /\ Len(sendQueue) <= QueueSize
    /\ deliveredTo \in [AllTopics -> SUBSET Routables] /\ gaveUp \subseteq Routables \X AllTopics
    /\ outcome \in [Routables -> Results \cup {"none"}] /\ routing \in Routables \cup {NoEvent}
    /\ stats \in [total : Nat, level : [Levels -> Nat], dropped : Nat, errors : Nat]
    /\ toDlq \subseteq Routables /\ topicsThere \subseteq AllTopics
    /\ {missing, created} \subseteq [Creators -> SUBSET AllTopics]
    /\ report \in [Creators -> {"idle", "verified", "ok", "failed"}]
    /\ hitches \in 0 .. MaxDeliveries

RoutingInit ==
    /\ config \in [enabled : SUBSET Levels, all : BOOLEAN, dropLow : BOOLEAN, dry : BOOLEAN]
    /\ sendQueue = <<>> /\ deliveredTo = [t \in AllTopics |-> {}] /\ gaveUp = {}
    /\ outcome = [e \in Routables |-> "none"] /\ routing = NoEvent
    /\ stats = [total |-> 0, level |-> [l \in Levels |-> 0], dropped |-> 0, errors |-> 0]
    /\ toDlq = {} /\ hitches = 0
    /\ topicsThere \in {{}, {AllTopic}}
    /\ missing = [c \in Creators |-> {}] /\ created = missing /\ report = [c \in Creators |-> "idle"]

-----------------------------------------------------------------------------
(* route_event *)

\* The next event, all before it being through.
MayRoute(e) ==
    /\ routing = NoEvent /\ outcome[e] = "none"
    /\ \A other \in Routables : other < e => outcome[other] # "none"

Counted == [stats EXCEPT !.total = @ + 1]
Drops(e) == LevelOf[e] = LowLevel /\ config.dropLow

\* The event needs no topic: dropped, its topic disabled, or a dry run.
RouteNowhere(e) ==
    /\ MayRoute(e)
    /\ \/ Drops(e) /\ outcome' = [outcome EXCEPT ![e] = "DROPPED"]
          /\ stats' = [Counted EXCEPT !.dropped = @ + 1]
       \/ ~Drops(e) /\ LevelOf[e] \notin config.enabled
          /\ outcome' = [outcome EXCEPT ![e] = "SKIPPED"] /\ stats' = Counted
       \/ ~Drops(e) /\ LevelOf[e] \in config.enabled /\ config.dry
          /\ outcome' = [outcome EXCEPT ![e] = "DRY_RUN"] /\ stats' = Counted
    /\ UNCHANGED <<config, sendQueue, deliveredTo, gaveUp, routing, toDlq, hitches,
                   creationVars>>

Wanted(e) == ~Drops(e) /\ LevelOf[e] \in config.enabled /\ ~config.dry

\* _produce_event: the queue may be full, before and after the poll.
Room == Len(sendQueue) < QueueSize

\* Mutant: the event is routed once its own topic has it.
ProduceOwn_Only(e) ==
    /\ MayRoute(e) /\ Wanted(e) /\ Room
    /\ sendQueue' = Append(sendQueue, <<e, LevelOf[e]>>)
    /\ stats' = [Counted EXCEPT !.level[LevelOf[e]] = @ + 1]
    /\ outcome' = [outcome EXCEPT ![e] = "ROUTED"]
    /\ UNCHANGED <<config, deliveredTo, gaveUp, routing, toDlq, hitches, creationVars>>

\* The event's own topic has it, and its level is counted.
ProduceOwn(e) ==
    /\ MayRoute(e) /\ Wanted(e) /\ Room
    /\ sendQueue' = Append(sendQueue, <<e, LevelOf[e]>>)
    /\ stats' = [Counted EXCEPT !.level[LevelOf[e]] = @ + 1]
    /\ IF config.all THEN routing' = e /\ UNCHANGED outcome
       ELSE outcome' = [outcome EXCEPT ![e] = "ROUTED"] /\ UNCHANGED routing
    /\ UNCHANGED <<config, deliveredTo, gaveUp, toDlq, hitches, creationVars>>

\* ... and so has the topic of all events.
ProduceAll ==
    /\ routing # NoEvent /\ Room
    /\ sendQueue' = Append(sendQueue, <<routing, AllTopic>>)
    /\ outcome' = [outcome EXCEPT ![routing] = "ROUTED"] /\ routing' = NoEvent
    /\ UNCHANGED <<config, deliveredTo, gaveUp, stats, toDlq, hitches, creationVars>>

\* produce raises again, or anything does: ERROR, and the forwarder sends the event to the
\* DLQ even if its own topic has it.
RouteRaises(e) ==
    /\ (MayRoute(e) /\ Wanted(e)) \/ routing = e
    /\ ~Room \/ hitches < MaxDeliveries
    /\ hitches' = IF Room THEN hitches + 1 ELSE hitches
    /\ stats' = [(IF routing = e THEN stats ELSE Counted) EXCEPT !.errors = @ + 1]
    /\ outcome' = [outcome EXCEPT ![e] = "ERROR"] /\ routing' = NoEvent
    /\ toDlq' = toDlq \cup {e}
    /\ UNCHANGED <<config, sendQueue, deliveredTo, gaveUp, creationVars>>

\* The producer delivers its first message or gives it up; the callback counts an error.
DeliverRouted ==
    /\ sendQueue # <<>> /\ sendQueue' = Tail(sendQueue)
    /\ LET e == Head(sendQueue)[1]
           t == Head(sendQueue)[2]
       IN \/ /\ deliveredTo' = [deliveredTo EXCEPT ![t] = @ \cup {e}]
             /\ UNCHANGED <<gaveUp, stats, hitches>>
          \/ /\ hitches < MaxDeliveries /\ hitches' = hitches + 1
             /\ gaveUp' = gaveUp \cup {<<e, t>>} /\ stats' = [stats EXCEPT !.errors = @ + 1]
             /\ UNCHANGED deliveredTo
    /\ UNCHANGED <<config, outcome, routing, toDlq, creationVars>>

-----------------------------------------------------------------------------
(* create_topics_if_missing *)

Verify(c) ==
    /\ report[c] = "idle"
    /\ missing' = [missing EXCEPT ![c] = EnabledTopics \ topicsThere]
    /\ report' = [report EXCEPT ![c] = IF missing'[c] = {} THEN "ok" ELSE "verified"]
    /\ UNCHANGED <<topicsThere, created, routeVars>>

\* The broker makes each topic the creator asked for, unless it is there by now.
CreateTopics(c) ==
    /\ report[c] = "verified"
    /\ created' = [created EXCEPT ![c] = missing[c] \ topicsThere]
    /\ topicsThere' = topicsThere \cup missing[c]
    /\ report' = [report EXCEPT ![c] = IF created'[c] = missing[c] THEN "ok" ELSE "failed"]
    /\ UNCHANGED <<missing, routeVars>>

RoutingNext ==
    \/ \E e \in Routables : RouteNowhere(e) \/ ProduceOwn(e) \/ RouteRaises(e)
    \/ ProduceAll \/ DeliverRouted
    \/ \E c \in Creators : Verify(c) \/ CreateTopics(c)

RoutingSpec == RoutingInit /\ [][RoutingNext]_routingVars

-----------------------------------------------------------------------------
(* What routing promises *)

On(e, t) == <<e, t>> \in Range(sendQueue) \/ e \in deliveredTo[t]
Accepted(e, t) == On(e, t) \/ <<e, t>> \in gaveUp
Through(result) == {e \in Routables : outcome[e] = result}

\* An event that is not dropped, disabled or dry is accepted by each of its topics or is in
\* the DLQ, and one that is appears nowhere; a level's count is that of the events its topic
\* accepted, whatever became of the second produce; the errors are the failed calls and
\* deliveries; no topic is created twice, and who reports success has all topics there.
RoutedIsAccounted ==
    /\ \A e \in Through("ROUTED") : \A t \in {LevelOf[e]} \cup (EnabledTopics \cap {AllTopic}) : Accepted(e, t)
    /\ Through("ERROR") = toDlq
    /\ \A e \in Routables : outcome[e] \in {"SKIPPED", "DROPPED", "DRY_RUN"} =>
           \A t \in AllTopics : ~Accepted(e, t)
    /\ \A l \in Levels : stats.level[l] = Cardinality({e \in Routables : LevelOf[e] = l /\ Accepted(e, l)})
    /\ stats.errors = Cardinality(toDlq) + Cardinality(gaveUp)
    /\ \A c \in Creators : report[c] = "ok" => EnabledTopics \subseteq topicsThere
    /\ \A c, d \in Creators : c # d => created[c] \cap created[d] = {}
=============================================================================
