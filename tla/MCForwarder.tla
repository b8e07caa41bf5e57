----------------------------- MODULE MCForwarder -----------------------------
(***************************************************************************)
(* Instances of Forwarder for TLC.  A fault budget is given as the number  *)
(* of times each fault it names may occur; a run may offer several.        *)
(***************************************************************************)
EXTENDS Forwarder, TLC

Budget(counts) == counts @@ [f \in Faults |-> 0]

Once(S) == Budget([f \in S |-> 1])

MCNoFaults == {Once({})}
MCCrash == {Once({"crash"})}
MCDb == {Once({"db"})}
MCDelivery == {Once({"delivery"})}

\* One budget per part of the system that fails: writers, consumer, producer.
MCEachPart == {Budget([db |-> 2, dlq |-> 1]),
               Once({"rebalance", "poll", "commit"}),
               Once({"consume", "delivery", "buffer"}),
               Once({"rebalance", "delivery"})}

\* With every option off or strict: rebalances, and failing INSERTs.
MCOptions == {Once({"rebalance"}), Once({"db"})}
=============================================================================
