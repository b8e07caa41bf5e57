-------------------------- MODULE DeliveryContract ---------------------------
(***************************************************************************)
(* What the forwarder promises the owner of the audit log, without its     *)
(* threads and queues: records become durable, some are waived, and the    *)
(* group's committed offsets pass over no other record.  The offsets may   *)
(* move back (a record is then delivered again), never ahead of delivery.  *)
(***************************************************************************)
EXTENDS Integers

CONSTANTS Partitions, LogEnd

VARIABLES
    committed,  \* committed[p]: the group's offset in partition p
    durable,    \* records with a durable home
    waived      \* records the forwarder has let go of

vars == <<committed, durable, waived>>

Records == Partitions \X (0 .. LogEnd - 1)

PassedOver(offsets) == {r \in Records : r[2] < offsets[r[1]]}

Init ==
    /\ committed = [p \in Partitions |-> 0]
    /\ durable = {} /\ waived = {}

(***************************************************************************)
(* Records are delivered or waived, for good; the offsets stay.            *)
(***************************************************************************)
Handle ==
    /\ durable' \in SUBSET Records /\ durable \subseteq durable'
    /\ waived' \in SUBSET Records /\ waived \subseteq waived'
    /\ UNCHANGED committed

(***************************************************************************)
(* The offsets move, over records handled by then.                         *)
(***************************************************************************)
Advance ==
    /\ committed' \in [Partitions -> 0 .. LogEnd]
    /\ waived' \in SUBSET Records /\ waived \subseteq waived'
    /\ PassedOver(committed') \subseteq durable \cup waived'
    /\ UNCHANGED durable

Next == Handle \/ Advance

Spec == Init /\ [][Next]_vars
=============================================================================
