---------------------------------- MODULE Ages ----------------------------------
(***************************************************************************)
(* Timestamps of a sliding window, kept as ages, the oldest first.  The    *)
(* code drops those outside the window when it looks at them next; no      *)
(* decision is taken in between, so the models drop them as they age.      *)
(***************************************************************************)
EXTENDS Naturals, Sequences

\* The n oldest are those that are above the limit one time unit later.
Leave(n, ages, limit) ==
    /\ n \in 0 .. Len(ages)
    /\ \A i \in 1 .. Len(ages) : ages[i] + 1 > limit <=> i <= n

\* The others then.
Aged(ages, n) == [i \in 1 .. Len(ages) - n |-> ages[i + n] + 1]
=============================================================================
