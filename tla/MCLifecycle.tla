----------------------------- MODULE MCLifecycle -----------------------------
(***************************************************************************)
(* Instances of Lifecycle for TLC.                                         *)
(***************************************************************************)
EXTENDS Lifecycle, MCForwarder

MCLifecycleFaults == {Once({"join"}), Once({"poll"})}

(***************************************************************************)
(* A process starts where an earlier one left the group: what lies below   *)
(* the committed offsets is stored.  That keeps two partitions small.      *)
(***************************************************************************)
MCStart(offsets) ==
    /\ committed = offsets
    /\ topics = {r \in Below(offsets) : kind[r] # "noise"}
    /\ pg = Below(offsets) /\ dlq = {}
    /\ ColdStart
    /\ excused = [c \in Causes |-> {}]
    /\ entered = FALSE
    /\ paused = FALSE /\ writerPressurePaused = FALSE
    /\ fetchPaused = {}
    /\ stored = NoHwm
    /\ shutdown = FALSE
    /\ alive = Threads
    /\ mpc = "run" /\ processorStillAlive = FALSE

MCFirst == CHOOSE p \in Partitions : TRUE

MCOffsets(first, other) == [p \in Partitions |-> IF p = MCFirst THEN first ELSE other]

(***************************************************************************)
(* Three noise records on two partitions are what it takes to fill a queue *)
(* of two while a third batch is in hand and a partition is assigned late; *)
(* a poll may discard one.  A join that expires is tried with two normal   *)
(* records on one partition, which keep every thread busy.                 *)
(***************************************************************************)
MCLifecycleInit ==
    /\ budget \in MCLifecycleFaults
    /\ IF budget["poll"] > 0
       THEN kind = [r \in Records |-> "noise"] /\ MCStart(MCOffsets(0, 1))
       ELSE kind = [r \in Records |-> "normal"] /\ MCStart(MCOffsets(0, LogEnd))

MCFairLifecycle == MCLifecycleInit /\ [][LifecycleNext]_lvars /\ LifecycleFairness
=============================================================================
