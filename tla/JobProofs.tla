------------------------------ MODULE JobProofs ------------------------------
(***************************************************************************)
(* Theorems about the long jobs over stored rows, the replays and the      *)
(* pages of the event list, for any number of rows, sizes of their pages   *)
(* and limits: whatever comes, goes, fails or is killed between their      *)
(* steps, what they report done is done, and what they give is whole.      *)
(***************************************************************************)
EXTENDS Backfill, ReplayControl, EventPaging, StorageProofs

-----------------------------------------------------------------------------
(* The next rows of a scan *)

\* A set of bounded numbers has a greatest one.
LEMMA GreatestNumber ==
    ASSUME NEW n \in Nat, NEW T \in SUBSET (0 .. n), T # {}
    PROVE  \E g \in T : \A m \in T : m <= g
<1> DEFINE U == {n - m : m \in T}
<1>1. U \in SUBSET Nat /\ U # {}
    <2>1. \A m \in T : n - m \in Nat
        OBVIOUS
    <2> QED  BY <2>1
<1>2. PICK u \in U : \A v \in U : u <= v
    <2> HIDE DEF U
    <2> QED  BY <1>1, LeastNumber
<1>3. PICK g \in T : u = n - g
    BY <1>2
<1>4. \A m \in T : n - g <= n - m
    BY <1>2, <1>3
<1>5. \A m \in T : m <= g
    <2>1. g \in Int /\ \A m \in T : m \in Int
        OBVIOUS
    <2> QED  BY <1>4, <2>1
<1> QED  BY <1>5

\* What comes before each member of a set: every part of the set has a first member.
Orders(S, before) ==
    /\ before \in [S -> SUBSET S]
    /\ \A p \in S : \A q \in before[p] : before[q] \subseteq before[p]
    /\ \A T \in SUBSET S : T # {} => \E p \in T : before[p] \cap T = {}

AreFirst(F, n, S, before) == F = {p \in S : Cardinality(before[p]) < n}

\* Of the first n nothing is left out before one of them, and where they are fewer, nothing at all.
LEMMA FirstOnes ==
    ASSUME NEW S, IsFiniteSet(S), NEW n \in Nat \ {0}, NEW before, Orders(S, before),
           NEW F, AreFirst(F, n, S, before)
    PROVE  /\ IsFiniteSet(F) /\ Cardinality(F) \in Nat
           /\ \A f \in F : before[f] \subseteq F
           /\ Cardinality(F) < n => F = S
           /\ S # {} => F # {}
<1> USE DEF Orders, AreFirst
<1>1. IsFiniteSet(F) /\ Cardinality(F) \in Nat
    BY FS_Subset, FS_CardinalityType
<1>2. \A p \in S : IsFiniteSet(before[p]) /\ Cardinality(before[p]) \in Nat
    BY FS_Subset, FS_CardinalityType
<1>3. ASSUME NEW f \in F, NEW q \in before[f] PROVE q \in F
    <2>1. f \in S /\ q \in S /\ before[q] \in SUBSET before[f] /\ Cardinality(before[f]) < n
        OBVIOUS
    <2>2. Cardinality(before[q]) <= Cardinality(before[f])
        BY <1>2, <2>1, FS_Subset
    <2> QED  BY <1>2, <2>1, <2>2
<1>4. ASSUME Cardinality(F) < n PROVE F = S
    <2> SUFFICES ASSUME S \ F # {} PROVE FALSE
        OBVIOUS
    <2>1. PICK p \in S \ F : before[p] \cap (S \ F) = {}
        OBVIOUS
    <2>2. before[p] \in SUBSET F
        BY <2>1
    <2>3. Cardinality(before[p]) <= Cardinality(F)
        BY <1>1, <2>2, FS_Subset
    <2> QED  BY <1>1, <1>2, <1>4, <2>1, <2>3
<1>5. S # {} => F # {}
    <2>1. F = {} => Cardinality(F) < n
        BY FS_EmptySet
    <2> QED  BY <1>4, <2>1
<1> QED  BY <1>1, <1>3, <1>4, <1>5

\* So it is with numbers, upwards
Upwards(S) == [p \in S |-> {q \in S : q < p}]

LEMMA FirstUpwards ==
    ASSUME NEW N \in Nat, NEW S \in SUBSET (1 .. N), NEW n \in Nat \ {0},
           NEW F, AreFirst(F, n, S, Upwards(S))
    PROVE  /\ F \subseteq S /\ IsFiniteSet(F) /\ Cardinality(F) \in Nat
           /\ \A f \in F, q \in S : q < f => q \in F
           /\ Cardinality(F) < n => F = S
           /\ S # {} => F # {}
<1> DEFINE before == Upwards(S)
<1>1. IsFiniteSet(S)
    <2>1. IsFiniteSet(1 .. N)
        BY FS_Interval
    <2> QED  BY <2>1, FS_Subset
<1>2. before \in [S -> SUBSET S]
    BY DEF Upwards
<1>3. \A p \in S : before[p] = {q \in S : q < p}
    BY DEF Upwards
<1> HIDE DEF before
<1>4. \A p \in S : p \in Nat
    OBVIOUS
<1>5. ASSUME NEW p \in S, NEW q \in before[p] PROVE before[q] \subseteq before[p]
    <2>1. q \in S /\ q < p
        BY <1>3, <1>5
    <2> SUFFICES ASSUME NEW r \in before[q] PROVE r \in before[p]
        OBVIOUS
    <2>2. r \in S /\ r < q
        BY <1>3, <2>1
    <2>3. r < p
        BY <1>4, <2>1, <2>2
    <2> QED  BY <1>3, <2>2, <2>3
<1>6. ASSUME NEW T \in SUBSET S, T # {} PROVE \E p \in T : before[p] \cap T = {}
    <2>1. PICK p \in T : \A m \in T : p <= m
        <3>1. T \in SUBSET Nat
            BY <1>4
        <3> QED  BY <3>1, <1>6, LeastNumber
    <2>2. ASSUME NEW q \in before[p], q \in T PROVE FALSE
        <3>1. q < p
            BY <1>3, <2>2
        <3> QED  BY <1>4, <2>1, <2>2, <3>1
    <2> QED  BY <2>2
<1>7. Orders(S, before)
    BY <1>2, <1>5, <1>6 DEF Orders
<1>8. /\ IsFiniteSet(F) /\ Cardinality(F) \in Nat
      /\ \A f \in F : before[f] \subseteq F
      /\ Cardinality(F) < n => F = S
      /\ S # {} => F # {}
    BY <1>1, <1>7, FirstOnes DEF before
<1>9. F \subseteq S
    BY DEF AreFirst
<1> QED  BY <1>3, <1>8, <1>9

\* They are no more than n: all but the last come before it.
LEMMA FirstAreFew ==
    ASSUME NEW N \in Nat, NEW S \in SUBSET (1 .. N), NEW n \in Nat \ {0},
           NEW F, AreFirst(F, n, S, Upwards(S))
    PROVE  Cardinality(F) <= n
<1>1. IsFiniteSet(S) /\ F \subseteq S /\ IsFiniteSet(F) /\ Cardinality(F) \in Nat
    <2>1. IsFiniteSet(1 .. N)
        BY FS_Interval
    <2>2. F \subseteq S
        BY DEF AreFirst
    <2> QED  BY <2>1, <2>2, FS_Subset, FS_CardinalityType
<1>2. CASE F = {}
    BY <1>2, FS_EmptySet
<1>3. CASE F # {}
    <2>1. PICK g \in F : \A m \in F : m <= g
        <3>1. F \in SUBSET (0 .. N)
            BY <1>1
        <3> QED  BY <1>3, <3>1, GreatestNumber
    <2> DEFINE before == {q \in S : q < g}
    <2>2. Cardinality(before) < n
        BY <1>1 DEF AreFirst, Upwards
    <2>3. F \ {g} \in SUBSET before
        <3>1. \A m \in F \ {g} : m \in Nat /\ g \in Nat /\ m <= g /\ m # g
            BY <1>1, <2>1
        <3>2. \A m \in F \ {g} : m < g
            BY <3>1
        <3> QED  BY <1>1, <3>2
    <2>4. IsFiniteSet(before) /\ before \subseteq S
        <3>1. before \in SUBSET S
            OBVIOUS
        <3> HIDE DEF before
        <3> QED  BY <1>1, <3>1, FS_Subset
    <2> HIDE DEF before
    <2>5. Cardinality(F \ {g}) <= Cardinality(before) /\ Cardinality(before) \in Nat
        BY <2>3, <2>4, FS_Subset, FS_CardinalityType
    <2>6. Cardinality(F \ {g}) = Cardinality(F) - 1
        BY <1>1, FS_RemoveElement
    <2> QED  BY <1>1, <2>2, <2>5, <2>6
<1> QED  BY <1>2, <1>3

\* and downwards.
Downwards(S) == [p \in S |-> {q \in S : q > p}]

LEMMA FirstDownwards ==
    ASSUME NEW N \in Nat, NEW S \in SUBSET (1 .. N), NEW n \in Nat \ {0},
           NEW F, AreFirst(F, n, S, Downwards(S))
    PROVE  /\ F \subseteq S /\ IsFiniteSet(F) /\ Cardinality(F) \in Nat
           /\ \A f \in F, q \in S : q > f => q \in F
           /\ Cardinality(F) < n => F = S
           /\ S # {} => F # {}
<1> DEFINE before == Downwards(S)
<1>1. IsFiniteSet(S)
    <2>1. IsFiniteSet(1 .. N)
        BY FS_Interval
    <2> QED  BY <2>1, FS_Subset
<1>2. before \in [S -> SUBSET S]
    BY DEF Downwards
<1>3. \A p \in S : before[p] = {q \in S : q > p}
    BY DEF Downwards
<1> HIDE DEF before
<1>4. \A p \in S : p \in Nat
    OBVIOUS
<1>5. ASSUME NEW p \in S, NEW q \in before[p] PROVE before[q] \subseteq before[p]
    <2>1. q \in S /\ q > p
        BY <1>3, <1>5
    <2> SUFFICES ASSUME NEW r \in before[q] PROVE r \in before[p]
        OBVIOUS
    <2>2. r \in S /\ r > q
        BY <1>3, <2>1
    <2>3. r > p
        BY <1>4, <2>1, <2>2
    <2> QED  BY <1>3, <2>2, <2>3
<1>6. ASSUME NEW T \in SUBSET S, T # {} PROVE \E p \in T : before[p] \cap T = {}
    <2>1. PICK p \in T : \A m \in T : m <= p
        <3>1. T \in SUBSET (0 .. N)
            OBVIOUS
        <3> QED  BY <3>1, <1>6, GreatestNumber
    <2>2. ASSUME NEW q \in before[p], q \in T PROVE FALSE
        <3>1. q > p
            BY <1>3, <2>2
        <3>2. p \in Nat /\ q \in Nat /\ q <= p
            BY <1>4, <2>1, <2>2
        <3> QED  BY <3>1, <3>2
    <2> QED  BY <2>2
<1>7. Orders(S, before)
    BY <1>2, <1>5, <1>6 DEF Orders
<1>8. /\ IsFiniteSet(F) /\ Cardinality(F) \in Nat
      /\ \A f \in F : before[f] \subseteq F
      /\ Cardinality(F) < n => F = S
      /\ S # {} => F # {}
    BY <1>1, <1>7, FirstOnes DEF before
<1>9. F \subseteq S
    BY DEF AreFirst
<1> QED  BY <1>3, <1>8, <1>9

\* The last of them is one of them.
LEMMA LastOnes ==
    ASSUME NEW N \in Nat, NEW S \in SUBSET (0 .. N), S # {}
    PROVE  /\ Max(S) \in S /\ \A p \in S : p <= Max(S)
           /\ Min(S) \in S /\ \A p \in S : Min(S) <= p
<1>0. S \in SUBSET Nat
    OBVIOUS
<1>1. \E g \in S : \A p \in S : g >= p
    BY <1>0, GreatestNumber
<1>2. \E l \in S : \A p \in S : l =< p
    BY <1>0, LeastNumber
<1>3. Max(S) \in S /\ \A p \in S : Max(S) >= p
    BY <1>1 DEF Max
<1>4. Min(S) \in S /\ \A p \in S : Min(S) =< p
    BY <1>2 DEF Min
<1> QED  BY <1>0, <1>3, <1>4

\* What a batch may still take is at least one.
LEMMA RoomIsLeft ==
    ASSUME NEW S \in SUBSET (Nat \ {0}), S # {}
    PROVE  Min(S) \in Nat \ {0}
<1>1. \E l \in S : \A p \in S : l =< p
    BY LeastNumber
<1>2. Min(S) \in S
    BY <1>1 DEF Min
<1> QED  BY <1>2

-----------------------------------------------------------------------------
(* The source fields *)

ScanOrders == {"oldest", "newest"}

FieldJobs ==
    [at : {"scanning", "writing", "marking", "clearing"}, order : ScanOrders, scope : SUBSET Places,
     limit : Nat, force : BOOLEAN, processed : Nat, cursor : Places \cup {NoCursor},
     updates : SUBSET Places, last : BOOLEAN]

FieldTypes ==
    /\ rows \subseteq Places /\ payload \in [Places -> Payloads] /\ filled \subseteq Places
    /\ savedCursor \in Places \cup {NoCursor}
    /\ job \in FieldJobs \cup {Waiting}
    /\ scan \in [order : ScanOrders, scope : SUBSET Places, due : SUBSET Places,
                 uniform : BOOLEAN, finished : BOOLEAN]

\* What is due was there when the scan began.
DueIsThere ==
    /\ scan.due \subseteq rows \cap scan.scope
    /\ \A p \in scan.due : payload[p] = "full"

\* The rows due that a cursor has behind it are filled, or will be by the next commit.
FilledBehind(last, updates) ==
    \A p \in scan.due : Beyond(p, last, scan.order) \/ p \in filled \cup updates

\* Of a scan whose runs all have the same arguments: the cursor that is saved has filled rows
\* behind it; so has the run's, after its next commit, and a short batch leaves none in front.
FieldInv ==
    /\ FieldTypes /\ DueIsThere /\ CompleteMeansDone
    /\ job # Waiting => scan.finished = FALSE /\ (job.at # "writing" => job.updates = {})
    /\ scan.uniform = TRUE => FilledBehind(savedCursor, {})
    /\ scan.uniform = TRUE /\ job # Waiting =>
          /\ job.order = scan.order /\ job.scope = scan.scope
          /\ FilledBehind(job.cursor, job.updates)
          /\ job.last = TRUE => scan.due \subseteq filled \cup job.updates

LEMMA FieldJobIs ==
    ASSUME FieldTypes, job.at # "idle" \/ job # Waiting
    PROVE  job # Waiting /\ job \in FieldJobs
BY DEF FieldTypes, FieldJobs, Waiting

LEMMA BatchSizeIs ==
    ASSUME FieldTypes, job \in FieldJobs, job.limit # 0, job.processed < job.limit
    PROVE  BatchSize(job) \in Nat \ {0}
<1>1. {BatchMax, job.limit, job.limit - job.processed} \in SUBSET (Nat \ {0})
    BY FieldBackfillAssumption DEF FieldJobs
<1> QED  BY <1>1, RoomIsLeft DEF BatchSize

\* The batch is the first of what is selected, and its last row the last of them.
LEMMA FieldBatch ==
    ASSUME NEW S \in SUBSET Places, NEW n \in Nat \ {0}, NEW order \in ScanOrders
    PROVE  /\ FirstOf(S, n, order) \subseteq S /\ Cardinality(FirstOf(S, n, order)) \in Nat
           /\ \A f \in FirstOf(S, n, order), q \in S \ FirstOf(S, n, order) : Beyond(q, f, order)
           /\ Cardinality(FirstOf(S, n, order)) < n => FirstOf(S, n, order) = S
           /\ S # {} => FirstOf(S, n, order) # {}
           /\ S # {} => LastOf(S, order) \in S
<1> DEFINE F == FirstOf(S, n, order)
<1>0. RowCount \in Nat /\ S \in SUBSET (1 .. RowCount) /\ \A p \in S : p \in Nat /\ p # NoCursor
    BY FieldBackfillAssumption DEF Places, NoCursor
<1>1. S # {} => LastOf(S, order) \in S
    <2>1. S \in SUBSET (0 .. RowCount)
        BY <1>0
    <2> QED  BY <1>0, <2>1, LastOnes DEF LastOf
<1>2. CASE order = "oldest"
    <2>1. AreFirst(F, n, S, Upwards(S))
        BY <1>2 DEF FirstOf, AreFirst, Upwards
    <2> HIDE DEF F
    <2>2. /\ F \subseteq S /\ Cardinality(F) \in Nat
          /\ \A f \in F, q \in S : q < f => q \in F
          /\ Cardinality(F) < n => F = S
          /\ S # {} => F # {}
        BY <1>0, <2>1, FirstUpwards
    <2>3. \A f \in F, q \in S \ F : Beyond(q, f, order)
        BY <1>0, <1>2, <2>2 DEF Beyond
    <2> QED  BY <1>1, <2>2, <2>3 DEF F
<1>3. CASE order = "newest"
    <2>1. AreFirst(F, n, S, Downwards(S))
        BY <1>3 DEF FirstOf, AreFirst, Downwards
    <2> HIDE DEF F
    <2>2. /\ F \subseteq S /\ Cardinality(F) \in Nat
          /\ \A f \in F, q \in S : q > f => q \in F
          /\ Cardinality(F) < n => F = S
          /\ S # {} => F # {}
        BY <1>0, <2>1, FirstDownwards
    <2>3. \A f \in F, q \in S \ F : Beyond(q, f, order)
        BY <1>0, <1>3, <2>2 DEF Beyond
    <2> QED  BY <1>1, <2>2, <2>3 DEF F
<1> QED  BY <1>2, <1>3 DEF ScanOrders

\* A batch fills what it passes over.
LEMMA ScanKeeps == ASSUME FieldInv, ScanBatch PROVE FieldInv'
<1> DEFINE S     == Selected(job)
           n     == BatchSize(job)
           firstOnes == FirstOf(S, n, job.order)
           read  == {p \in firstOnes : payload[p] # "broken"}
           next  == IF read = {} THEN job.cursor ELSE LastOf(read, job.order)
<1>1. /\ job # Waiting /\ job \in FieldJobs /\ job.at = "scanning" /\ job.updates = {}
      /\ job.processed < job.limit /\ firstOnes # {}
      /\ UNCHANGED <<rows, payload, filled, savedCursor, scan>>
    BY FieldJobIs DEF ScanBatch, FieldInv
<1>2. job' = [job EXCEPT !.at = "writing", !.processed = @ + Cardinality(firstOnes), !.cursor = next,
                         !.updates = Planned(firstOnes), !.last = Cardinality(firstOnes) < n]
    BY DEF ScanBatch
<1>3. S \in SUBSET Places /\ n \in Nat \ {0} /\ job.order \in ScanOrders
    <2>1. job.limit # 0
        BY <1>1 DEF FieldJobs
    <2>2. n \in Nat \ {0}
        BY <1>1, <2>1, BatchSizeIs DEF FieldInv
    <2> HIDE DEF n
    <2> QED  BY <1>1, <2>2 DEF Selected, FieldInv, FieldTypes, FieldJobs
<1> HIDE DEF n
<1>4. /\ firstOnes \subseteq S /\ Cardinality(firstOnes) \in Nat
      /\ \A f \in firstOnes, q \in S \ firstOnes : Beyond(q, f, job.order)
      /\ Cardinality(firstOnes) < n => firstOnes = S
    BY <1>3, FieldBatch
<1> HIDE DEF firstOnes
<1>5. read # {} => next \in read
    <2>1. read \in SUBSET Places
        BY <1>3, <1>4
    <2>2. read # {} => LastOf(read, job.order) \in read
        BY <1>3, <2>1, FieldBatch
    <2> QED  BY <2>2
<1>6. next \in Places \cup {NoCursor}
    <2>1. read \in SUBSET Places /\ job.cursor \in Places \cup {NoCursor}
        BY <1>1, <1>3, <1>4 DEF FieldJobs
    <2> QED  BY <1>5, <2>1
<1> HIDE DEF next, S
<1>7. /\ job' \in FieldJobs /\ job'.at = "writing" /\ job'.cursor = next
      /\ job'.updates = Planned(firstOnes) /\ job'.last = (Cardinality(firstOnes) < n)
      /\ job'.order = job.order /\ job'.scope = job.scope
    <2>1. Planned(firstOnes) \in SUBSET Places /\ (Cardinality(firstOnes) < n) \in BOOLEAN
        BY <1>3, <1>4 DEF Planned
    <2>2. job.processed + Cardinality(firstOnes) \in Nat
        BY <1>1, <1>4 DEF FieldJobs
    <2> QED  BY <1>1, <1>2, <1>6, <2>1, <2>2 DEF FieldJobs
<1>8. job' # Waiting
    BY <1>7 DEF Waiting, FieldJobs
<1>9. FieldTypes' /\ DueIsThere' /\ CompleteMeansDone'
    BY <1>1, <1>7 DEF FieldInv, FieldTypes, DueIsThere, CompleteMeansDone
<1>10. ASSUME scan.uniform = TRUE
       PROVE  /\ job.order = scan.order /\ job.scope = scan.scope
              /\ \A p \in scan.due : p \in filled \cup S
       <2>1. /\ job.order = scan.order /\ job.scope = scan.scope
             /\ \A p \in scan.due : Beyond(p, job.cursor, scan.order) \/ p \in filled
             /\ scan.due \subseteq rows \cap scan.scope
           BY <1>1, <1>10 DEF FieldInv, FilledBehind, DueIsThere
       <2>2. \A p \in scan.due : payload[p] # "keyless"
           BY DEF FieldInv, DueIsThere
       <2> QED  BY <2>1, <2>2 DEF S, Selected
<1>11. ASSUME scan.uniform = TRUE, NEW p \in scan.due
       PROVE  Beyond(p, next, scan.order) \/ p \in filled \cup Planned(firstOnes)
    <2>1. CASE p \in firstOnes
        BY <2>1 DEF Planned, Telling, FieldInv, DueIsThere
    <2>2. CASE p \in S \ firstOnes
        <3>1. CASE read = {}
            BY <1>1, <1>11, <3>1 DEF next, FieldInv, FilledBehind
        <3>2. CASE read # {}
            BY <1>4, <1>5, <1>10, <1>11, <2>2, <3>2
        <3> QED  BY <3>1, <3>2
    <2> QED  BY <1>10, <1>11, <2>1, <2>2
<1>12. ASSUME scan.uniform = TRUE, Cardinality(firstOnes) < n
       PROVE  scan.due \subseteq filled \cup Planned(firstOnes)
    <2>1. firstOnes = S
        BY <1>4, <1>12
    <2> QED  BY <1>10, <1>12, <2>1 DEF Planned, Telling, FieldInv, DueIsThere
<1>13. scan.uniform = TRUE => FilledBehind(savedCursor, {})'
    BY <1>1 DEF FieldInv, FilledBehind, Beyond
<1>14. scan.uniform = TRUE => FilledBehind(job.cursor, job.updates)'
    BY <1>1, <1>7, <1>11 DEF FilledBehind, Beyond
<1> QED
    BY <1>1, <1>7, <1>8, <1>9, <1>10, <1>12, <1>13, <1>14 DEF FieldInv

LEMMA FieldStep == FieldInv /\ [FieldNext]_fieldVars => FieldInv'
<1> SUFFICES ASSUME FieldInv, [FieldNext]_fieldVars PROVE FieldInv'
    OBVIOUS
<1>0. FieldTypes
    BY DEF FieldInv
<1>1. ASSUME NEW p \in Places, RowArrives(p) PROVE FieldInv'
    BY <1>1 DEF RowArrives, FieldInv, FieldTypes, DueIsThere, CompleteMeansDone, FilledBehind, Beyond
<1>2. ASSUME NEW p \in Places, FillOne(p) PROVE FieldInv'
    BY <1>2 DEF FillOne, FieldInv, FieldTypes, DueIsThere, CompleteMeansDone, FilledBehind, Beyond
\* A run begins: without a cursor a new scan, with one the scan that saved it, if any.
<1>3. ASSUME NEW order \in ScanOrders, NEW scope \in Scopes, NEW limit \in Limits,
             NEW force \in BOOLEAN, StartRun(order, scope, limit, force)
      PROVE  FieldInv'
    <2>1. /\ job = Waiting /\ job' \in FieldJobs /\ job' # Waiting /\ job'.updates = {}
          /\ job'.order = order /\ job'.scope = scope /\ job'.cursor = savedCursor
          /\ job'.last = FALSE
          /\ UNCHANGED <<rows, payload, filled, savedCursor>>
        <3>1. scope \in SUBSET Places /\ limit \in Nat
            BY FieldBackfillAssumption DEF Places
        <3>2. savedCursor \in Places \cup {NoCursor}
            BY <1>0 DEF FieldTypes
        <3>3. job' = [at |-> "scanning", order |-> order, scope |-> scope, limit |-> limit,
                      force |-> force, processed |-> 0, cursor |-> savedCursor, updates |-> {},
                      last |-> FALSE]
            BY <1>3 DEF StartRun
        <3>4. job' \in FieldJobs
            BY <3>1, <3>2, <3>3 DEF FieldJobs
        <3> QED  BY <1>3, <3>3, <3>4 DEF StartRun, Waiting
    <2>2. CASE savedCursor = NoCursor
        <3>1. scan' = [order |-> order, scope |-> scope, uniform |-> TRUE, finished |-> FALSE,
                       due |-> {p \in rows \cap scope : payload[p] = "full"}]
            BY <1>3, <2>2 DEF StartRun
        <3>2. scope \in SUBSET Places /\ rows \in SUBSET Places
            BY <1>0, FieldBackfillAssumption DEF Places, FieldTypes
        <3>3. FieldTypes'
            BY <1>0, <2>1, <3>1, <3>2 DEF FieldTypes
        <3>4. DueIsThere' /\ CompleteMeansDone'
            BY <2>1, <3>1 DEF DueIsThere, CompleteMeansDone
        <3>5. FilledBehind(savedCursor, {})' /\ FilledBehind(job.cursor, job.updates)'
            BY <2>1, <2>2 DEF FilledBehind, Beyond
        <3> QED  BY <2>1, <3>1, <3>3, <3>4, <3>5 DEF FieldInv
    <2>3. CASE savedCursor # NoCursor
        <3>1. /\ scan' = [scan EXCEPT !.finished = FALSE,
                              !.uniform = scan.uniform /\ <<order, scope>> = <<scan.order, scan.scope>>]
            BY <1>3, <2>3 DEF StartRun
        <3>2. /\ scan' \in [order : ScanOrders, scope : SUBSET Places, due : SUBSET Places,
                            uniform : BOOLEAN, finished : BOOLEAN]
              /\ scan'.finished = FALSE /\ scan'.due = scan.due
              /\ scan'.order = scan.order /\ scan'.scope = scan.scope
              /\ scan'.uniform = TRUE => scan.uniform = TRUE /\ order = scan.order /\ scope = scan.scope
            BY <1>0, <3>1 DEF FieldTypes
        <3>3. FieldTypes' /\ DueIsThere' /\ CompleteMeansDone'
            BY <1>0, <2>1, <3>2 DEF FieldTypes, DueIsThere, CompleteMeansDone, FieldInv
        <3>4. scan'.uniform = TRUE => FilledBehind(savedCursor, {})' /\ FilledBehind(job.cursor, job.updates)'
            BY <2>1, <3>2 DEF FieldInv, FilledBehind, Beyond
        <3> QED  BY <2>1, <3>2, <3>3, <3>4 DEF FieldInv
    <2> QED  BY <2>2, <2>3
<1>4. CASE ScanBatch
    BY <1>4, ScanKeeps
\* What the run is to write, and how far it came, become the table's and the setting's.
<1>5. CASE CommitBatch
    <2>1. /\ job # Waiting /\ job \in FieldJobs /\ filled' = filled \cup job.updates
          /\ job' = [job EXCEPT !.at = "marking", !.updates = {}]
          /\ UNCHANGED <<rows, payload, savedCursor, scan>>
        BY <1>0, <1>5, FieldJobIs DEF CommitBatch
    <2>2. /\ job' \in FieldJobs /\ job'.updates = {} /\ job'.cursor = job.cursor
          /\ job'.order = job.order /\ job'.scope = job.scope /\ job'.last = job.last
        BY <2>1 DEF FieldJobs
    <2>3. job' # Waiting
        BY <2>2 DEF FieldJobs, Waiting
    <2>4. job.updates \subseteq Places
        BY <2>1 DEF FieldJobs
    <2>5. FieldTypes' /\ DueIsThere' /\ CompleteMeansDone'
        BY <2>1, <2>2, <2>4 DEF FieldInv, FieldTypes, DueIsThere, CompleteMeansDone
    <2>6. scan.uniform = TRUE => FilledBehind(savedCursor, {})' /\ FilledBehind(job.cursor, job.updates)'
        BY <2>1, <2>2 DEF FieldInv, FilledBehind, Beyond
    <2> QED  BY <2>1, <2>2, <2>3, <2>5, <2>6 DEF FieldInv
<1>6. CASE SaveCursor
    <2>1. /\ job # Waiting /\ job \in FieldJobs /\ job.updates = {}
          /\ savedCursor' = (IF job.cursor = NoCursor THEN savedCursor ELSE job.cursor)
          /\ \E at \in {"clearing", "scanning"} : job' = [job EXCEPT !.at = at]
          /\ UNCHANGED <<rows, payload, filled, scan>>
        BY <1>0, <1>6, FieldJobIs DEF SaveCursor, FieldInv
    <2>2. /\ job' \in FieldJobs /\ job'.updates = {} /\ job'.cursor = job.cursor
          /\ job'.order = job.order /\ job'.scope = job.scope /\ job'.last = job.last
        BY <2>1 DEF FieldJobs
    <2>3. job' # Waiting
        BY <2>2 DEF FieldJobs, Waiting
    <2>4. savedCursor' \in Places \cup {NoCursor}
        BY <1>0, <2>1 DEF FieldTypes, FieldJobs
    <2>5. FieldTypes' /\ DueIsThere' /\ CompleteMeansDone'
        BY <2>1, <2>2, <2>4 DEF FieldInv, FieldTypes, DueIsThere, CompleteMeansDone
    <2>6. scan.uniform = TRUE => FilledBehind(savedCursor, {})' /\ FilledBehind(job.cursor, job.updates)'
        BY <2>1, <2>2 DEF FieldInv, FilledBehind, Beyond
    <2> QED  BY <2>1, <2>2, <2>3, <2>5, <2>6 DEF FieldInv
\* A run ends.
<1>7. CASE DeleteCursor
    <2>1. /\ job # Waiting /\ job \in FieldJobs /\ job.updates = {} /\ job' = Waiting
          /\ savedCursor' = NoCursor /\ scan' = [scan EXCEPT !.finished = job.last]
          /\ UNCHANGED <<rows, payload, filled>>
        BY <1>0, <1>7, FieldJobIs DEF DeleteCursor, FieldInv
    <2>2. job.last \in BOOLEAN
        BY <2>1 DEF FieldJobs
    <2>3. /\ scan'.finished = job.last /\ scan'.due = scan.due /\ scan'.uniform = scan.uniform
          /\ scan'.order = scan.order /\ scan'.scope = scan.scope
          /\ scan' \in [order : ScanOrders, scope : SUBSET Places, due : SUBSET Places,
                        uniform : BOOLEAN, finished : BOOLEAN]
        BY <1>0, <2>1, <2>2 DEF FieldTypes
    <2>4. FieldTypes' /\ DueIsThere'
        BY <2>1, <2>3 DEF FieldInv, FieldTypes, DueIsThere
    <2>5. CompleteMeansDone'
        BY <1>0, <2>1, <2>2, <2>3 DEF FieldInv, FieldTypes, CompleteMeansDone
    <2> QED  BY <2>1, <2>3, <2>4, <2>5 DEF FieldInv, FilledBehind, Beyond
<1>8. CASE FindNothing
    <2>1. /\ job # Waiting /\ job \in FieldJobs /\ job.updates = {} /\ job' = Waiting
          /\ Selected(job) = {} /\ scan' = [scan EXCEPT !.finished = TRUE]
          /\ UNCHANGED <<rows, payload, filled, savedCursor>>
        BY <1>0, <1>8, FieldJobIs DEF FindNothing, FieldInv
    <2>2. /\ scan'.due = scan.due /\ scan'.uniform = scan.uniform
          /\ scan'.order = scan.order /\ scan'.scope = scan.scope
          /\ scan' \in [order : ScanOrders, scope : SUBSET Places, due : SUBSET Places,
                        uniform : BOOLEAN, finished : BOOLEAN]
        BY <1>0, <2>1 DEF FieldTypes
    <2>3. FieldTypes' /\ DueIsThere'
        BY <2>1, <2>2 DEF FieldInv, FieldTypes, DueIsThere
    <2>4. scan.uniform = TRUE => scan.due \subseteq filled
        BY <2>1 DEF Selected, FieldInv, FilledBehind, DueIsThere
    <2>5. CompleteMeansDone'
        BY <1>0, <2>1, <2>2, <2>4 DEF FieldTypes, CompleteMeansDone
    <2> QED  BY <2>1, <2>2, <2>3, <2>5 DEF FieldInv, FilledBehind, Beyond
<1>9. CASE RunDies
    BY <1>9 DEF RunDies, FieldInv, FieldTypes, DueIsThere, CompleteMeansDone, FilledBehind, Beyond
<1>10. CASE UNCHANGED fieldVars
    BY <1>10 DEF fieldVars, FieldInv, FieldTypes, DueIsThere, CompleteMeansDone, FilledBehind, Beyond
<1> QED
    BY <1>1, <1>2, <1>3, <1>4, <1>5, <1>6, <1>7, <1>8, <1>9, <1>10 DEF FieldNext, ScanOrders

\* Runs with the same arguments, killed and resumed at any step, that come to an end have
\* filled every row that was there when the first began.
THEOREM CompleteStaysDone == FieldSpec => []CompleteMeansDone
<1>1. FieldInit => FieldInv
    BY DEF FieldInit, FieldInv, FieldTypes, DueIsThere, CompleteMeansDone, FilledBehind, Beyond, ScanOrders
<1>2. FieldInv => CompleteMeansDone
    BY DEF FieldInv
<1> QED  BY <1>1, <1>2, FieldStep, PTL DEF FieldSpec

-----------------------------------------------------------------------------
(* The replay *)

\* The slot is free, or one replay holds it, alive or dead before its try.
SlotInv ==
    /\ inProgress \in BOOLEAN /\ stuck \in BOOLEAN /\ lateFinish \in BOOLEAN
    /\ request \in [Requests -> {"none", "accepted", "settingUp", "reading", "finishing",
                                 "booking", "failing"}]
    /\ lateFinish = FALSE =>
          /\ inProgress = FALSE => stuck = FALSE /\ InSection = {}
          /\ inProgress = TRUE /\ stuck = TRUE => InSection = {}
          /\ inProgress = TRUE /\ stuck = FALSE => \E r \in Requests : InSection = {r}

LEMMA SlotStep == SlotInv /\ [ReplayNext]_replayVars => SlotInv'
<1> SUFFICES ASSUME SlotInv, [ReplayNext]_replayVars PROVE SlotInv'
    OBVIOUS
<1> USE DEF SlotInv, InSection, To, Raised
<1>1. ASSUME NEW r \in Requests, Post(r) PROVE SlotInv'
    BY <1>1 DEF Post
<1>2. ASSUME NEW r \in Requests, RefuseArguments(r) PROVE SlotInv'
    BY <1>2 DEF RefuseArguments
<1>3. ASSUME NEW r \in Requests, StartReplay(r) PROVE SlotInv'
    BY <1>3 DEF StartReplay
<1>4. ASSUME NEW r \in Requests, SetUp(r) PROVE SlotInv'
    BY <1>4 DEF SetUp
<1>5. ASSUME NEW r \in Requests, SetUpRaises(r) PROVE SlotInv'
    BY <1>5 DEF SetUpRaises
<1>6. ASSUME NEW r \in Requests, ReadRecord(r) PROVE SlotInv'
    BY <1>6 DEF ReadRecord
<1>7. ASSUME NEW r \in Requests, StopReading(r) PROVE SlotInv'
    BY <1>7 DEF StopReading
<1>8. ASSUME NEW r \in Requests, ReadingRaises(r) \/ Finish(r) PROVE SlotInv'
    BY <1>8 DEF ReadingRaises, Finish
<1>9. ASSUME NEW r \in Requests, BookCompletion(r) PROVE SlotInv'
    BY <1>9 DEF BookCompletion
<1>10. ASSUME NEW r \in Requests, BookingRaises(r) PROVE SlotInv'
    BY <1>10 DEF BookingRaises
<1>11. ASSUME NEW r \in Requests, BookFailure(r) PROVE SlotInv'
    BY <1>11 DEF BookFailure
<1>12. CASE RequestShutdown \/ ReplayRestart
    BY <1>12 DEF RequestShutdown, ReplayRestart
<1>13. CASE UNCHANGED replayVars
    BY <1>13 DEF replayVars
<1> QED
    BY <1>1, <1>2, <1>3, <1>4, <1>5, <1>6, <1>7, <1>8, <1>9, <1>10, <1>11, <1>12, <1>13
        DEF ReplayNext

\* Whatever requests, failures and shutdowns interleave, the slot is held by exactly one replay
\* or by none, in a life in which no replay finishes twice.
THEOREM SlotStaysExact == ReplaySpec => []ReplaySlotExact
<1>1. ReplayInit => SlotInv
    BY DEF ReplayInit, SlotInv, InSection
<1>2. SlotInv => ReplaySlotExact
    <2> SUFFICES ASSUME SlotInv, ~ lateFinish PROVE
            Cardinality(InSection) + (IF stuck THEN 1 ELSE 0) = IF inProgress THEN 1 ELSE 0
        BY DEF ReplaySlotExact
    <2>1. InSection = {} => Cardinality(InSection) = 0
        BY FS_EmptySet
    <2>2. \A r : InSection = {r} => Cardinality(InSection) = 1
        BY FS_Singleton
    <2> HIDE DEF InSection
    <2> QED  BY <2>1, <2>2 DEF SlotInv
<1> QED  BY <1>1, <1>2, SlotStep, PTL DEF ReplaySpec

-----------------------------------------------------------------------------
(* The actors' names *)

Tasks == [at : {"none", "fetching", "committing"}, pass : 0 .. 3, after : Nat, page : SUBSET Ids,
          dryRun : BOOLEAN, full : BOOLEAN]

ActorTypes ==
    /\ actorRows \in [Ids -> Labels \cup {Missing}] /\ answer \in [Ids -> AllAnswers]
    /\ status \in {"idle", "running", "complete", "error"} /\ task \in Tasks
    /\ errors \in Nat /\ wanted \subseteq Ids
    /\ status = "running" <=> task.at # "none"

\* What the job is to rename: rows with an answer, and no row in a dry run.
WantedIs ==
    /\ \A i \in wanted : actorRows[i] # Missing /\ answer[i] \notin Unusable
    /\ status = "running" /\ wanted # {} => task.dryRun = FALSE

\* A pass still to come, or the one under way from its cursor on, will select the row.
InFront(i, now, after) ==
    \E p \in Passes : Matches(p, actorRows[i]) /\ (p > now \/ (p = now /\ i > after))

\* As long as nothing failed, what is wanted has its name or is in front of the passes; while a
\* page is at hand, it has all that its pass selects up to its last row, or in all if it is short.
ActorInv ==
    /\ ActorTypes /\ WantedIs /\ CleanRunComplete
    /\ status = "running" /\ errors = 0 =>
          \A i \in wanted : actorRows[i] = answer[i] \/ InFront(i, task.pass, task.after)
    /\ task.at = "committing" =>
          /\ task.pass \in Passes /\ task.page # {}
          /\ \A i \in wanted : i \in Found(task) =>
                i \in task.page \/ (task.full = TRUE /\ \A j \in task.page : j < i)

LEMMA PageIs ==
    ASSUME Found(task) # {}
    PROVE  /\ Page(task) \subseteq Found(task) /\ Page(task) # {}
           /\ \A i \in Found(task) \ Page(task) :
                 Cardinality(Page(task)) = PageSize /\ \A j \in Page(task) : j < i
<1> DEFINE S == Found(task)
           F == Page(task)
<1>1. /\ LastId \in Nat /\ PageSize \in Nat \ {0} /\ S \in SUBSET (1 .. LastId)
      /\ \A i \in S : i \in Nat
    BY ActorBackfillAssumption DEF Found, Ids
<1>2. AreFirst(F, PageSize, S, Upwards(S))
    BY DEF Page, AreFirst, Upwards
<1> HIDE DEF S, F
<1>3. /\ F \subseteq S /\ IsFiniteSet(F) /\ Cardinality(F) \in Nat
      /\ \A f \in F, q \in S : q < f => q \in F
      /\ Cardinality(F) < PageSize => F = S
      /\ S # {} => F # {}
    BY <1>1, <1>2, FirstUpwards
<1>4. Cardinality(F) <= PageSize
    BY <1>1, <1>2, FirstAreFew
<1> QED  BY <1>1, <1>3, <1>4 DEF S, F

LEMMA NextPassIs ==
    ASSUME ActorTypes, task.pass \in Passes
    PROVE  /\ NextPass(task) \in Tasks /\ NextPass(task).at = "fetching"
           /\ NextPass(task).pass = task.pass + 1 /\ NextPass(task).after = 0
           /\ NextPass(task).dryRun = task.dryRun
           /\ \A i \in Ids : InFront(i, task.pass + 1, 0) <=>
                  \E p \in Passes : Matches(p, actorRows[i]) /\ p > task.pass
<1>1. /\ NextPass(task) \in Tasks /\ NextPass(task).at = "fetching"
      /\ NextPass(task).pass = task.pass + 1 /\ NextPass(task).after = 0
      /\ NextPass(task).dryRun = task.dryRun
    <2>1. task \in Tasks /\ task.pass + 1 \in 0 .. 3 /\ {} \in SUBSET Ids
        BY DEF ActorTypes, Passes
    <2> QED  BY <2>1 DEF NextPass, Tasks
<1>2. \A i \in Ids : i > 0
    BY DEF Ids
<1>3. \A p \in Passes : p > task.pass <=> p > task.pass + 1 \/ p = task.pass + 1
    BY DEF Passes
<1> QED  BY <1>1, <1>2, <1>3 DEF InFront

LEMMA FetchKeeps == ASSUME ActorInv, FetchPage PROVE ActorInv'
<1>0. ActorTypes /\ task.at = "fetching" /\ task.pass \in Passes /\ status = "running"
      /\ UNCHANGED <<actorRows, answer, status, jobsLeft, faultsLeft, wanted>>
    BY DEF ActorInv, ActorTypes, FetchPage
<1>1. errors' \in Nat /\ (errors' = 0 => errors = 0)
    <2> DEFINE raised == {i \in Page(task) : answer[i] = Raises}
    <2>1. raised \in SUBSET (1 .. LastId) /\ IsFiniteSet(1 .. LastId)
        <3>1. LastId \in Nat
            BY ActorBackfillAssumption
        <3> QED  BY <3>1, FS_Interval DEF Page, Found, Ids
    <2> HIDE DEF raised
    <2>2. Cardinality(raised) \in Nat
        BY <2>1, FS_Subset, FS_CardinalityType
    <2>3. errors' = errors + Cardinality(raised)
        BY DEF FetchPage, raised
    <2> QED  BY <1>0, <2>2, <2>3 DEF ActorTypes
<1>2. ASSUME NEW i \in wanted, i \in Found(task)
      PROVE  actorRows[i] # Missing /\ i \in Ids /\ i > task.after /\ Matches(task.pass, actorRows[i])
    BY <1>2 DEF Found
<1>3. CASE Found(task) = {}
    <2>1. task' = NextPass(task)
        BY <1>3 DEF FetchPage
    <2>2. task' \in Tasks /\ task'.at = "fetching" /\ task'.dryRun = task.dryRun
          /\ task'.pass = task.pass + 1 /\ task'.after = 0
        BY <1>0, <2>1, NextPassIs
    <2>3. ActorTypes' /\ WantedIs' /\ CleanRunComplete'
        BY <1>0, <1>1, <2>2 DEF ActorTypes, WantedIs, CleanRunComplete, ActorInv
    <2>4. ASSUME errors' = 0, NEW i \in wanted
          PROVE  actorRows[i] = answer[i] \/ InFront(i, task.pass + 1, 0)
        <3>1. actorRows[i] = answer[i] \/ InFront(i, task.pass, task.after)
            BY <1>0, <1>1, <2>4 DEF ActorInv
        <3>2. i \in Ids /\ actorRows[i] # Missing
            BY <1>0, <2>4 DEF ActorTypes, ActorInv, WantedIs
        <3>3. ~ (i > task.after /\ Matches(task.pass, actorRows[i]))
            BY <1>3, <3>2 DEF Found
        <3>4. InFront(i, task.pass, task.after) =>
                  \E p \in Passes : Matches(p, actorRows[i]) /\ p > task.pass
            BY <3>3 DEF InFront
        <3> QED  BY <1>0, <3>1, <3>2, <3>4, NextPassIs
    <2> QED  BY <1>0, <2>2, <2>3, <2>4 DEF ActorInv, InFront
<1>4. CASE Found(task) # {}
    <2>1. task' = [task EXCEPT !.at = "committing", !.page = Page(task),
                               !.full = (Cardinality(Page(task)) = PageSize)]
        BY <1>4 DEF FetchPage
    <2>2. Page(task) \in SUBSET Ids /\ Page(task) # {}
        BY <1>4, PageIs DEF Found
    <2>3. /\ task' \in Tasks /\ task'.at = "committing" /\ task'.page = Page(task)
          /\ task'.pass = task.pass /\ task'.after = task.after /\ task'.dryRun = task.dryRun
          /\ task'.full = (Cardinality(Page(task)) = PageSize)
        BY <1>0, <2>1, <2>2 DEF ActorTypes, Tasks
    <2>4. ActorTypes' /\ WantedIs' /\ CleanRunComplete'
        BY <1>0, <1>1, <2>3 DEF ActorTypes, WantedIs, CleanRunComplete, ActorInv
    <2>5. Found(task)' = Found(task)
        BY <1>0, <2>3 DEF Found
    <2>6. \A i \in Found(task) : i \in Page(task)
              \/ (task'.full = TRUE /\ \A j \in Page(task) : j < i)
        BY <1>4, <2>3, PageIs
    <2> QED  BY <1>0, <1>1, <2>2, <2>3, <2>4, <2>5, <2>6 DEF ActorInv, InFront
<1> QED  BY <1>3, <1>4

\* After a page, what was wanted and is not renamed is still in front.
LEMMA PageCommitKeeps == ASSUME ActorInv, CommitPage PROVE ActorInv'
<1>0. /\ ActorTypes /\ task.at = "committing" /\ task.pass \in Passes /\ status = "running"
      /\ UNCHANGED <<answer, status, errors, jobsLeft, faultsLeft, wanted>>
      /\ task' = AfterPage(task, Max(task.page))
    BY DEF ActorInv, ActorTypes, CommitPage
<1>1. /\ task.page \in SUBSET Ids /\ task.page # {}
      /\ Max(task.page) \in task.page /\ \A j \in task.page : j <= Max(task.page)
    <2>1. LastId \in Nat /\ task.page \in SUBSET (0 .. LastId) /\ task.page # {}
        BY <1>0, ActorBackfillAssumption DEF ActorInv, ActorTypes, Tasks, Ids
    <2> QED  BY <1>0, <2>1, LastOnes DEF ActorTypes, Tasks
<1>2. actorRows' \in [Ids -> Labels \cup {Missing}]
    <2>1. \A i \in Ids : answer[i] \notin Unusable => answer[i] \in Labels
        <3>1. \A a \in AllAnswers : a \notin Unusable => a \in
                  {[name |-> "named", low |-> FALSE], [name |-> "raw", low |-> FALSE],
                   [name |-> "raw", low |-> TRUE]}
            BY DEF AllAnswers
        <3>2. \A n \in {"named", "raw"}, l \in BOOLEAN : [name |-> n, low |-> l] \in Labels
            BY DEF Labels
        <3> QED  BY <1>0, <3>1, <3>2 DEF ActorTypes
    <2> QED  BY <1>0, <2>1 DEF CommitPage, ActorTypes
<1>3. ASSUME NEW i \in wanted
      PROVE  /\ i \in Ids /\ actorRows'[i] # Missing
             /\ actorRows'[i] = actorRows[i] \/ actorRows'[i] = answer[i]
             /\ i \in task.page => actorRows'[i] = answer[i]
    BY <1>0, <1>1 DEF CommitPage, ActorTypes, ActorInv, WantedIs, AllAnswers, Unusable, Missing
<1>4. /\ task' \in Tasks /\ task'.at = "fetching" /\ task'.dryRun = task.dryRun
      /\ (task'.pass = task.pass /\ task.full = TRUE /\ task'.after = Max(task.page))
         \/ (task'.pass = task.pass + 1 /\ task.full = FALSE /\ task'.after = 0)
    <2>1. CASE task.full = TRUE
        <3>1. task' = [task EXCEPT !.after = Max(task.page), !.at = "fetching", !.page = {}]
            BY <1>0, <2>1 DEF AfterPage
        <3>2. Max(task.page) \in Nat
            BY <1>1 DEF Ids
        <3> QED  BY <1>0, <2>1, <3>1, <3>2 DEF ActorTypes, Tasks
    <2>2. CASE task.full = FALSE
        BY <1>0, <2>2, NextPassIs DEF AfterPage
    <2> QED  BY <1>0, <2>1, <2>2 DEF ActorTypes, Tasks
<1>5. ActorTypes' /\ WantedIs' /\ CleanRunComplete'
    <2>1. wanted # {} => task'.dryRun = FALSE
        BY <1>0, <1>4 DEF ActorInv, WantedIs
    <2> QED  BY <1>0, <1>2, <1>3, <1>4, <2>1 DEF ActorTypes, WantedIs, CleanRunComplete, ActorInv
<1>6. ASSUME errors = 0, NEW i \in wanted, actorRows'[i] # answer[i]
      PROVE  InFront(i, task.pass, task.after)'
    <2>1. /\ i \in Ids /\ actorRows'[i] = actorRows[i] /\ i \notin task.page
          /\ actorRows[i] # Missing
        BY <1>3, <1>6 DEF ActorInv, WantedIs
    <2>2. PICK p \in Passes : /\ Matches(p, actorRows[i])
                              /\ p > task.pass \/ (p = task.pass /\ i > task.after)
        BY <1>0, <1>6, <2>1 DEF ActorInv, InFront
    <2>3. Matches(p, actorRows'[i])
        BY <2>1, <2>2
    <2>4. CASE p > task.pass
        <3>1. i > 0 /\ (p > task.pass + 1 \/ p = task.pass + 1)
            BY <1>0, <2>1, <2>4 DEF Ids, Passes
        <3> QED  BY <1>4, <2>3, <2>4, <3>1 DEF InFront
    <2>5. CASE p = task.pass /\ i > task.after
        <3>1. i \in Found(task)
            BY <2>1, <2>2, <2>5 DEF Found
        <3>2. task.full = TRUE /\ \A j \in task.page : j < i
            BY <1>0, <1>6, <2>1, <3>1 DEF ActorInv
        <3>3. task'.pass = task.pass /\ task'.after = Max(task.page)
            BY <1>4, <3>2
        <3>4. i > task'.after
            <4>1. Max(task.page) < i /\ Max(task.page) \in Nat /\ i \in Nat
                BY <1>1, <2>1, <3>2 DEF Ids
            <4> HIDE DEF Max
            <4> QED  BY <3>3, <4>1
        <3> QED  BY <2>3, <2>5, <3>3, <3>4 DEF InFront
    <2> QED  BY <2>2, <2>4, <2>5
<1> QED  BY <1>0, <1>4, <1>5, <1>6 DEF ActorInv

LEMMA ActorStep == ActorInv /\ [ActorNext]_actorVars => ActorInv'
<1> SUFFICES ASSUME ActorInv, [ActorNext]_actorVars PROVE ActorInv'
    OBVIOUS
<1>0. ActorTypes
    BY DEF ActorInv
\* A row that comes is none of those wanted.
<1>1. ASSUME NEW i \in Ids, NEW label \in Stored, ActorRowArrives(i, label) PROVE ActorInv'
    <2>1. /\ actorRows[i] = Missing /\ label \in Labels
          /\ actorRows' = [actorRows EXCEPT ![i] = label]
          /\ UNCHANGED <<answer, status, task, errors, jobsLeft, faultsLeft, wanted>>
        BY <1>1, ActorBackfillAssumption DEF ActorRowArrives
    <2>2. \A w \in wanted : actorRows'[w] = actorRows[w]
        BY <1>0, <2>1 DEF ActorInv, WantedIs, ActorTypes
    <2>3. ActorTypes'
        BY <1>0, <2>1 DEF ActorTypes
    <2>4. WantedIs' /\ CleanRunComplete'
        BY <2>1, <2>2 DEF ActorInv, WantedIs, CleanRunComplete
    <2>5. \A w \in wanted : InFront(w, task.pass, task.after)' = InFront(w, task.pass, task.after)
        BY <2>1, <2>2 DEF InFront
    <2>6. \A w \in wanted : w \in Found(task)' <=> w \in Found(task)
        BY <2>1, <2>2 DEF Found
    <2> QED  BY <2>1, <2>2, <2>3, <2>4, <2>5, <2>6 DEF ActorInv
<1>2. ASSUME NEW dry \in BOOLEAN, StartJob(dry) PROVE ActorInv'
    <2>1. /\ status' = "running" /\ errors' = 0 /\ UNCHANGED <<actorRows, answer, faultsLeft>>
          /\ task' = [NoTask EXCEPT !.at = "fetching", !.dryRun = dry]
          /\ wanted' = {i \in Ids : /\ ~dry
                                    /\ actorRows[i] # Missing /\ answer[i] \notin Unusable
                                    /\ \E p \in Passes : Matches(p, actorRows[i])}
        BY <1>2 DEF StartJob
    <2>2. /\ task' \in Tasks /\ task'.at = "fetching" /\ task'.pass = 0 /\ task'.after = 0
          /\ task'.dryRun = dry
        <3>1. task' = [at |-> "fetching", pass |-> 0, after |-> 0, page |-> {}, dryRun |-> dry,
                       full |-> FALSE]
            BY <2>1 DEF NoTask
        <3>2. 0 \in 0 .. 3 /\ {} \in SUBSET Ids
            OBVIOUS
        <3> QED  BY <3>1, <3>2 DEF Tasks
    <2>3. ActorTypes' /\ WantedIs' /\ CleanRunComplete'
        BY <1>0, <2>1, <2>2 DEF ActorTypes, WantedIs, CleanRunComplete
    <2>4. \A i \in wanted' : InFront(i, 0, 0)'
        BY <2>1 DEF InFront, Passes, Ids
    <2> QED  BY <2>1, <2>2, <2>3, <2>4 DEF ActorInv, InFront
<1>3. CASE FetchPage
    BY <1>3, FetchKeeps
<1>4. CASE CommitPage
    BY <1>4, PageCommitKeeps
<1>5. CASE CommitRefused
    <2>1. /\ task.at = "committing" /\ errors' = errors + 1 /\ task.pass \in Passes
          /\ task' = AfterPage(task, task.after)
          /\ UNCHANGED <<actorRows, answer, status, wanted>>
        BY <1>5 DEF CommitRefused, ActorInv
    <2>2. task' \in Tasks /\ task'.at = "fetching" /\ task'.dryRun = task.dryRun
        <3>1. CASE task.full = TRUE
            BY <1>0, <2>1, <3>1 DEF AfterPage, ActorTypes, Tasks
        <3>2. CASE task.full = FALSE
            BY <1>0, <2>1, <3>2, NextPassIs DEF AfterPage
        <3> QED  BY <1>0, <3>1, <3>2 DEF ActorTypes, Tasks
    <2>3. errors' \in Nat /\ errors' # 0
        BY <1>0, <2>1 DEF ActorTypes
    <2>4. ActorTypes' /\ WantedIs' /\ CleanRunComplete'
        BY <1>0, <2>1, <2>2, <2>3 DEF ActorTypes, WantedIs, CleanRunComplete, ActorInv
    <2> QED  BY <2>2, <2>3, <2>4 DEF ActorInv
\* FilledBehind the last pass nothing is in front.
<1>6. CASE JobCompletes
    <2>1. /\ task.at = "fetching" /\ task.pass = 3 /\ status = "running"
          /\ status' = "complete" /\ task' = NoTask /\ UNCHANGED <<actorRows, answer, errors, wanted>>
        BY <1>0, <1>6 DEF JobCompletes, ActorTypes, Tasks, Passes
    <2>2. \A i \in wanted : ~ InFront(i, task.pass, task.after)
        BY <2>1 DEF InFront, Passes
    <2>3. CleanRunComplete'
        BY <2>1, <2>2 DEF CleanRunComplete, ActorInv
    <2>4. ActorTypes' /\ WantedIs'
        BY <1>0, <2>1 DEF ActorTypes, WantedIs, NoTask, Tasks, ActorInv
    <2> QED  BY <2>1, <2>3, <2>4 DEF ActorInv, NoTask
<1>7. CASE JobFails \/ ApiRestarts
    <2>1. /\ status' \in {"idle", "error"} /\ task' = NoTask /\ errors' \in Nat
          /\ wanted' \subseteq wanted /\ UNCHANGED <<actorRows, answer>>
        BY <1>0, <1>7 DEF JobFails, ApiRestarts, ActorTypes
    <2>2. ActorTypes' /\ WantedIs' /\ CleanRunComplete'
        BY <1>0, <2>1 DEF ActorTypes, WantedIs, NoTask, Tasks, ActorInv, CleanRunComplete
    <2> QED  BY <2>1, <2>2 DEF ActorInv, NoTask
<1>8. CASE UNCHANGED actorVars
    BY <1>8 DEF actorVars, ActorInv, ActorTypes, WantedIs, CleanRunComplete, InFront, Found
<1> QED
    BY <1>1, <1>2, <1>3, <1>4, <1>5, <1>6, <1>7, <1>8 DEF ActorNext

\* A job that completes without an error has renamed every row it was started for, although
\* its updates move rows between its passes.
THEOREM CleanRunsComplete == ActorSpec => []CleanRunComplete
<1>1. ActorInit => ActorInv
    <2>1. Stored \subseteq Labels /\ Answers \subseteq AllAnswers
        BY ActorBackfillAssumption
    <2> QED  BY <2>1 DEF ActorInit, ActorInv, ActorTypes, WantedIs, CleanRunComplete, NoTask, Tasks
<1>2. ActorInv => CleanRunComplete
    BY DEF ActorInv
<1> QED  BY <1>1, <1>2, ActorStep, PTL DEF ActorSpec

-----------------------------------------------------------------------------
(* The classification script *)

RerunTypes ==
    /\ rowOf \in [RowIds -> AStoredRow \cup {NoSuchRow, Gone}]
    /\ rerunning \in BOOLEAN /\ dryRun \in BOOLEAN /\ lastId \in Nat
    /\ DOMAIN rerunBatch \subseteq RowIds /\ rerunBatch \in [DOMAIN rerunBatch -> AStoredRow]
    /\ known \subseteq RowIds

\* What a batch was read with still is so of its rows, but for payloads cleared since.
ReadIs ==
    \A i \in DOMAIN rerunBatch :
        /\ rowOf[i] # NoSuchRow
        /\ i \in There => /\ rowOf[i].payload = rerunBatch[i].payload
                          /\ rowOf[i].class = rerunBatch[i].class
                          /\ rerunBatch[i].cleared = TRUE => rowOf[i].cleared = TRUE

\* Nothing is left to do for a row.
RowSettled(i) ==
    rowOf[i].class \in Unclear => ~Usable(rowOf[i]) \/ rowOf[i].class = ClassOf[rowOf[i].payload]

\* The rows a run began with are settled up to its last id, and its batch has those it
\* selects from there up to the batch's end.
RerunInv ==
    /\ RerunTypes /\ ReadIs /\ ClassFitsPayload
    /\ \A i \in known : rowOf[i] # NoSuchRow
    /\ rerunning = TRUE => rerunOutcome # "done"
    /\ rerunOutcome = "done" => \A i \in known \cap There : RowSettled(i)
    /\ rerunning = TRUE /\ dryRun = FALSE => \A i \in known \cap There : i <= lastId => RowSettled(i)
    /\ \A i \in known \cap There :
          i > lastId /\ rowOf[i].class \in Unclear =>
              i \in DOMAIN rerunBatch \/ \A j \in DOMAIN rerunBatch : j < i

LEMMA RowsAre ==
    ASSUME RerunTypes, NEW i \in There
    PROVE  i \in RowIds /\ rowOf[i] \in AStoredRow
BY DEF RerunTypes, There

LEMMA NoRows == NoSuchRow \notin AStoredRow /\ Gone \notin AStoredRow /\ NoSuchRow # Gone
BY DEF NoSuchRow, Gone, AStoredRow

\* A batch is the first of the rows that are still unclear.
LEMMA SelectKeeps == ASSUME RerunInv, SelectRows PROVE RerunInv'
<1> DEFINE next == {i \in StillUnclear : Cardinality({j \in StillUnclear : j < i}) < RerunBatch}
<1>1. /\ rerunning = TRUE /\ rerunBatch' = [i \in next |-> rowOf[i]] /\ rerunning' = (next # {})
      /\ rerunOutcome' = IF next # {} THEN rerunOutcome ELSE IF dryRun THEN "dry" ELSE "done"
      /\ UNCHANGED <<rowOf, dryRun, lastId, known>>
    BY DEF SelectRows, RerunInv, RerunTypes
<1>2. /\ next \subseteq StillUnclear
      /\ \A f \in next, q \in StillUnclear : q < f => q \in next
      /\ StillUnclear # {} => next # {}
    <2>1. /\ LastRowId \in Nat /\ RerunBatch \in Nat \ {0}
          /\ StillUnclear \in SUBSET (1 .. LastRowId)
        BY RerunAssumption DEF StillUnclear, There, RowIds
    <2>2. AreFirst(next, RerunBatch, StillUnclear, Upwards(StillUnclear))
        BY DEF AreFirst, Upwards
    <2> HIDE DEF next
    <2> QED  BY <2>1, <2>2, FirstUpwards
<1> HIDE DEF next
<1>3. \A i \in next : i \in There /\ i \in RowIds /\ rowOf[i] \in AStoredRow
    BY <1>2, RowsAre DEF StillUnclear, RerunInv
<1>4. /\ DOMAIN rerunBatch' = next /\ \A i \in next : rerunBatch'[i] = rowOf[i]
      /\ rerunBatch' \in [next -> AStoredRow]
    BY <1>1, <1>3
<1>5. There' = There
    BY <1>1 DEF There
<1>6. RerunTypes' /\ ReadIs' /\ ClassFitsPayload'
    BY <1>1, <1>3, <1>4, <1>5, NoRows DEF RerunInv, RerunTypes, ReadIs, ClassFitsPayload
<1>7. ASSUME NEW i \in known \cap There, i > lastId, rowOf[i].class \in Unclear
      PROVE  next # {} /\ (i \in next \/ \A j \in next : j < i)
    <2>1. i \in StillUnclear /\ i \in Nat /\ \A j \in next : j \in Nat
        BY <1>3, <1>7 DEF StillUnclear, RerunInv, RerunTypes, RowIds
    <2> QED  BY <1>2, <2>1
<1>8. ASSUME next = {}, dryRun = FALSE, NEW i \in known \cap There PROVE RowSettled(i)
    <2>1. i \in Nat /\ lastId \in Nat
        BY <1>8 DEF RerunInv, RerunTypes, RowIds
    <2>2. i <= lastId \/ ~ (rowOf[i].class \in Unclear)
        BY <1>7, <1>8, <2>1
    <2> QED  BY <1>1, <1>8, <2>2 DEF RerunInv, RowSettled
<1> QED
    BY <1>1, <1>4, <1>5, <1>6, <1>7, <1>8 DEF RerunInv, RerunTypes, RowSettled, Usable

\* A batch settles its rows, whatever was cleared or deleted since it was read.
LEMMA UpdatesKeep == ASSUME RerunInv, WriteUpdates PROVE RerunInv'
<1> DEFINE hit == IF dryRun THEN {} ELSE ClassUpdates \cap There
<1>1. /\ rerunning = TRUE /\ rerunBatch # NoBatch /\ lastId' = LastOfBatch /\ rerunBatch' = NoBatch
      /\ rowOf' = [i \in RowIds |-> IF i \in hit
                       THEN [rowOf[i] EXCEPT !.class = ClassOf[rerunBatch[i].payload]] ELSE rowOf[i]]
      /\ UNCHANGED <<rerunning, dryRun, known, rerunOutcome>>
    BY DEF WriteUpdates, RerunInv, RerunTypes
<1>2. LastOfBatch \in DOMAIN rerunBatch /\ \A j \in DOMAIN rerunBatch : j <= LastOfBatch
    <2>1. DOMAIN rerunBatch # {}
        <3>1. rerunBatch = [i \in DOMAIN rerunBatch |-> rerunBatch[i]]
            BY DEF RerunInv, RerunTypes
        <3> QED  BY <1>1, <3>1 DEF NoBatch
    <2>2. LastRowId \in Nat /\ DOMAIN rerunBatch \in SUBSET (0 .. LastRowId)
        BY RerunAssumption DEF RerunInv, RerunTypes, RowIds
    <2>3. \E g \in DOMAIN rerunBatch : \A j \in DOMAIN rerunBatch : j <= g
        BY <2>1, <2>2, GreatestNumber
    <2> QED  BY <2>3 DEF LastOfBatch
<1>3. ASSUME NEW i \in hit
      PROVE  /\ i \in DOMAIN rerunBatch /\ i \in There /\ i \in RowIds /\ dryRun = FALSE
             /\ rerunBatch[i].payload = rowOf[i].payload /\ rowOf[i] \in AStoredRow
             /\ rowOf[i].payload \in RawPayloads
             /\ rowOf'[i] = [rowOf[i] EXCEPT !.class = ClassOf[rowOf[i].payload]]
             /\ rowOf'[i] \in AStoredRow /\ rowOf'[i].payload = rowOf[i].payload
             /\ rowOf'[i].cleared = rowOf[i].cleared
             /\ rowOf'[i].class = ClassOf[rowOf[i].payload]
    <2>1. i \in DOMAIN rerunBatch /\ i \in There /\ dryRun = FALSE
        BY <1>3 DEF ClassUpdates, RerunInv, RerunTypes
    <2>2. i \in RowIds /\ rowOf[i] \in AStoredRow /\ rerunBatch[i].payload = rowOf[i].payload
        BY <2>1, RowsAre DEF RerunInv, ReadIs
    <2>3. rowOf[i].payload \in RawPayloads /\ ClassOf[rowOf[i].payload] \in Classes
        BY <2>2 DEF AStoredRow, Classes
    <2>4. rowOf'[i] = [rowOf[i] EXCEPT !.class = ClassOf[rowOf[i].payload]]
        BY <1>1, <1>3, <2>2
    <2> QED  BY <2>1, <2>2, <2>3, <2>4 DEF AStoredRow
<1>4. \A i \in RowIds : i \notin hit => rowOf'[i] = rowOf[i]
    BY <1>1
<1>5. \A i \in DOMAIN rerunBatch : i \in There /\ dryRun = FALSE /\ i \notin hit =>
          ~Usable(rerunBatch[i]) \/ ClassOf[rerunBatch[i].payload] = rerunBatch[i].class
    BY DEF ClassUpdates
<1>6. rowOf' = [i \in RowIds |-> rowOf'[i]]
    BY <1>1
<1> HIDE DEF hit
<1>7. There' = There
    <2>1. \A i \in RowIds : rowOf'[i] \notin {NoSuchRow, Gone} <=> rowOf[i] \notin {NoSuchRow, Gone}
        BY <1>3, <1>4, NoRows
    <2> QED  BY <2>1 DEF There
<1>8. RerunTypes'
    <2>1. \A i \in RowIds : rowOf'[i] \in AStoredRow \cup {NoSuchRow, Gone}
        BY <1>3, <1>4 DEF RerunInv, RerunTypes
    <2>2. rowOf' \in [RowIds -> AStoredRow \cup {NoSuchRow, Gone}]
        BY <1>6, <2>1
    <2>3. lastId' \in Nat
        BY <1>1, <1>2 DEF RerunInv, RerunTypes, RowIds
    <2>4. DOMAIN rerunBatch' = {} /\ rerunBatch' \in [{} -> AStoredRow]
        BY <1>1 DEF NoBatch
    <2> QED  BY <1>1, <2>2, <2>3, <2>4 DEF RerunInv, RerunTypes
<1>9. DOMAIN rerunBatch' = {}
    BY <1>1 DEF NoBatch
<1>10. ClassFitsPayload'
    <2> SUFFICES ASSUME NEW i \in There
                 PROVE  rowOf'[i].class \in {ClassOf[rowOf'[i].payload], OldClassOf[rowOf'[i].payload]}
        BY <1>7 DEF ClassFitsPayload
    <2>1. CASE i \in hit
        BY <1>3, <2>1
    <2>2. CASE i \notin hit
        <3>1. i \in RowIds
            BY DEF There
        <3> QED  BY <1>4, <2>2, <3>1 DEF RerunInv, ClassFitsPayload
    <2> QED  BY <2>1, <2>2
<1>11. ASSUME NEW i \in known \cap There, dryRun = FALSE, i <= lastId' PROVE RowSettled(i)'
    <2>1. i \in RowIds /\ rowOf[i] \in AStoredRow
        BY <1>11, RowsAre DEF RerunInv
    <2>2. CASE i \in hit
        BY <1>3, <2>2 DEF RowSettled
    <2>3. CASE i \notin hit
        <3>1. rowOf'[i] = rowOf[i]
            BY <1>4, <2>1, <2>3
        <3>2. CASE i <= lastId
            BY <1>1, <1>11, <3>1, <3>2 DEF RerunInv, RowSettled, Usable
        <3>3. CASE i > lastId /\ rowOf[i].class \in Unclear
            <4>1. i \in DOMAIN rerunBatch
                <5>1. i \in Nat /\ LastOfBatch \in Nat /\ i <= LastOfBatch
                    BY <1>1, <1>2, <1>11, <2>1 DEF RerunInv, RerunTypes, RowIds
                <5>2. ~ (LastOfBatch < i)
                    BY <5>1
                <5> QED  BY <1>2, <1>11, <3>3, <5>2 DEF RerunInv
            <4>2. /\ rowOf[i].payload = rerunBatch[i].payload /\ rowOf[i].class = rerunBatch[i].class
                  /\ rerunBatch[i].cleared = TRUE => rowOf[i].cleared = TRUE
                  /\ rerunBatch[i].cleared \in BOOLEAN /\ rowOf[i].cleared \in BOOLEAN
                BY <1>11, <2>1, <4>1 DEF RerunInv, ReadIs, RerunTypes, AStoredRow
            <4>3. ~Usable(rerunBatch[i]) \/ ClassOf[rerunBatch[i].payload] = rerunBatch[i].class
                BY <1>5, <1>11, <2>3, <4>1
            <4> QED  BY <3>1, <4>2, <4>3 DEF RowSettled, Usable
        <3>4. i <= lastId \/ i > lastId
            BY <2>1 DEF RerunInv, RerunTypes, RowIds
        <3> QED  BY <3>1, <3>2, <3>3, <3>4 DEF RowSettled
    <2> QED  BY <2>2, <2>3
<1>12. \A i \in known : rowOf'[i] # NoSuchRow
    BY <1>3, <1>4, NoRows DEF RerunInv, RerunTypes
<1> QED
    BY <1>1, <1>7, <1>8, <1>9, <1>10, <1>11, <1>12 DEF RerunInv, ReadIs

LEMMA RerunStep == RerunInv /\ [RerunNext]_rerunVars => RerunInv'
<1> SUFFICES ASSUME RerunInv, [RerunNext]_rerunVars PROVE RerunInv'
    OBVIOUS
<1>0. RerunTypes
    BY DEF RerunInv
<1>1. ASSUME NEW dry \in BOOLEAN, StartRerun(dry) PROVE RerunInv'
    <2>1. /\ rerunning' = TRUE /\ dryRun' = dry /\ lastId' = 0 /\ rerunBatch' = NoBatch
          /\ known' = There /\ rerunOutcome' = "nothing" /\ rowOf' = rowOf
        BY <1>1 DEF StartRerun
    <2>2. There \subseteq RowIds /\ There' = There /\ \A i \in There : i > 0 /\ ~ (i <= 0)
        BY <2>1 DEF There, RowIds
    <2>3. DOMAIN rerunBatch' = {} /\ rerunBatch' \in [{} -> AStoredRow]
        BY <2>1 DEF NoBatch
    <2>4. RerunTypes' /\ ReadIs' /\ ClassFitsPayload'
        BY <1>0, <2>1, <2>2, <2>3 DEF RerunInv, RerunTypes, ReadIs, ClassFitsPayload
    <2> QED  BY <2>1, <2>2, <2>3, <2>4 DEF RerunInv, There
<1>2. CASE SelectRows
    BY <1>2, SelectKeeps
<1>3. CASE WriteUpdates
    BY <1>3, UpdatesKeep
<1>4. CASE RerunEnds
    <2>1. DOMAIN rerunBatch' = {} /\ rerunBatch' \in [{} -> AStoredRow]
        BY <1>4 DEF RerunEnds, NoBatch
    <2>2. There' = There
        BY <1>4 DEF RerunEnds, There
    <2> QED  BY <1>4, <2>1, <2>2 DEF RerunEnds, RerunInv, RerunTypes, ReadIs, ClassFitsPayload,
            RowSettled, Usable
\* What the others do to one row settles it, or leaves it as unsettled as it was.
<1>5. ASSUME NEW i \in RowIds, NEW row \in AStoredRow \cup {Gone}, Change(i, row),
             \/ rowOf[i] = NoSuchRow /\ row.class \in {ClassOf[row.payload], OldClassOf[row.payload]}
             \/ i \in There /\ row = [rowOf[i] EXCEPT !.cleared = TRUE]
             \/ i \in There /\ row = Gone
      PROVE  RerunInv'
    <2>1. /\ rowOf' = [rowOf EXCEPT ![i] = row]
          /\ UNCHANGED <<rerunning, dryRun, lastId, rerunBatch, known, rerunOutcome>>
        BY <1>5 DEF Change
    <2>2. /\ \A j \in RowIds : j # i => rowOf'[j] = rowOf[j]
          /\ rowOf'[i] = row /\ row # NoSuchRow
        BY <1>0, <1>5, <2>1, NoRows DEF RerunTypes
    <2>3. RerunTypes'
        BY <1>0, <1>5, <2>1 DEF RerunTypes
    <2>4. /\ There' \subseteq There \cup {i}
          /\ i \notin There => i \notin known /\ i \notin DOMAIN rerunBatch
        BY <1>5, <2>2 DEF There, RerunInv, ReadIs
    <2>5. ASSUME i \in There, i \in There'
          PROVE  /\ row.payload = rowOf[i].payload /\ row.class = rowOf[i].class
                 /\ row.cleared = TRUE
        <3>1. row = [rowOf[i] EXCEPT !.cleared = TRUE] /\ rowOf[i] \in AStoredRow
            BY <1>0, <1>5, <2>2, <2>5, RowsAre DEF There
        <3> QED  BY <3>1 DEF AStoredRow
    <2>6. ReadIs'
        <3> SUFFICES ASSUME NEW j \in DOMAIN rerunBatch'
                     PROVE  /\ rowOf'[j] # NoSuchRow
                            /\ j \in There' =>
                                  /\ rowOf'[j].payload = rerunBatch'[j].payload
                                  /\ rowOf'[j].class = rerunBatch'[j].class
                                  /\ rerunBatch'[j].cleared = TRUE => rowOf'[j].cleared = TRUE
            BY DEF ReadIs
        <3>0. rerunBatch' = rerunBatch /\ j \in DOMAIN rerunBatch
            BY <2>1
        <3>1. j \in RowIds /\ rowOf[j] # NoSuchRow
            BY <1>0, <3>0 DEF ReadIs, RerunInv, RerunTypes
        <3>2. j \in There => /\ rowOf[j].payload = rerunBatch[j].payload
                             /\ rowOf[j].class = rerunBatch[j].class
                             /\ rerunBatch[j].cleared = TRUE => rowOf[j].cleared = TRUE
            BY <3>0 DEF ReadIs, RerunInv
        <3>3. CASE j = i
            BY <2>2, <2>4, <2>5, <3>0, <3>2, <3>3
        <3>4. CASE j # i
            <4>1. rowOf'[j] = rowOf[j] /\ (j \in There' => j \in There)
                BY <2>2, <2>4, <3>1, <3>4
            <4> QED  BY <3>0, <3>1, <3>2, <4>1
        <3> QED  BY <3>3, <3>4
    <2>7. ClassFitsPayload'
        BY <1>0, <1>5, <2>2, <2>4, <2>5 DEF ClassFitsPayload, RerunInv, There
    <2>8. ASSUME NEW j \in known, j \in There' PROVE j \in There /\ (RowSettled(j) => RowSettled(j)')
        BY <1>0, <2>1, <2>2, <2>4, <2>5, <2>8 DEF RowSettled, Usable, RerunTypes
    <2>9. \A j \in known : j \in There' => rowOf'[j].class = rowOf[j].class
        BY <1>0, <2>2, <2>4, <2>5 DEF RerunTypes
    <2>10. \A j \in known : rowOf'[j] # NoSuchRow
        BY <1>0, <2>2 DEF RerunInv, RerunTypes
    <2> QED  BY <2>1, <2>3, <2>6, <2>7, <2>8, <2>9, <2>10 DEF RerunInv
<1>6. ASSUME NEW i \in RowIds, NEW p \in RawPayloads, InsertRow(i, p) PROVE RerunInv'
    <2> DEFINE row == [payload |-> p, cleared |-> FALSE, class |-> ClassOf[p]]
    <2>1. ClassOf[p] \in Classes
        BY DEF Classes
    <2>2. row \in AStoredRow
        BY <2>1 DEF AStoredRow
    <2> QED  BY <1>5, <1>6, <2>2 DEF InsertRow
<1>7. ASSUME NEW i \in RowIds, ClearPayload(i) PROVE RerunInv'
    <2> DEFINE row == [rowOf[i] EXCEPT !.cleared = TRUE]
    <2>1. i \in There /\ Change(i, row)
        BY <1>7 DEF ClearPayload
    <2>2. row \in AStoredRow
        BY <1>0, <2>1, RowsAre DEF AStoredRow
    <2> QED  BY <1>5, <2>1, <2>2
<1>8. ASSUME NEW i \in RowIds, DeleteRow(i) PROVE RerunInv'
    BY <1>5, <1>8 DEF DeleteRow
<1>9. CASE UNCHANGED rerunVars
    BY <1>9 DEF rerunVars, RerunInv, RerunTypes, ReadIs, ClassFitsPayload, RowSettled, Usable, There
<1> QED
    BY <1>1, <1>2, <1>3, <1>4, <1>6, <1>7, <1>8, <1>9 DEF RerunNext

LEMMA RerunStarts == RerunInit => RerunInv
<1> SUFFICES ASSUME RerunInit PROVE RerunInv
    OBVIOUS
<1>1. PICK payloads \in [RowIds -> RawPayloads] :
          rowOf = [i \in RowIds |-> IF i = LateId THEN NoSuchRow ELSE
                      [payload |-> payloads[i], cleared |-> FALSE,
                       class |-> OldClassOf[payloads[i]]]]
    BY DEF RerunInit
<1>2. \A p \in RawPayloads :
          [payload |-> p, cleared |-> FALSE, class |-> OldClassOf[p]] \in AStoredRow
    <2>1. \A p \in RawPayloads : OldClassOf[p] \in Classes
        BY DEF Classes
    <2> QED  BY <2>1 DEF AStoredRow
<1>3. RerunTypes
    BY <1>1, <1>2 DEF RerunInit, RerunTypes, NoBatch
<1>4. ClassFitsPayload
    BY <1>1 DEF ClassFitsPayload, There
<1> QED  BY <1>3, <1>4 DEF RerunInit, RerunInv, ReadIs, NoBatch

\* A run that says it is done has left none of its rows behind, and every row has the class
\* that one of the two classifiers gives its payload.
THEOREM RerunsStayHonest == RerunSpec => []RerunIsHonest
<1>1. RerunInv => RerunIsHonest
    BY DEF RerunInv, RerunIsHonest, DoneLeavesNothing, RowSettled
<1> QED  BY <1>1, RerunStarts, RerunStep, PTL DEF RerunSpec

-----------------------------------------------------------------------------
(* The resources *)

PassRecords ==
    [at : {"idle", "loading", "saving", "listing", "upserting"},
     dry : BOOLEAN, force : BOOLEAN, limit : Nat, cursor : 0 .. LastPlace,
     processed : Nat, last : BOOLEAN, changed : SUBSET RowPlaces,
     entries : Seq(RowPlaces), read : CatalogRows, failed : BOOLEAN, due : SUBSET RowPlaces]

ResourceTypes ==
    /\ present \subseteq RowPlaces /\ removed \subseteq RowPlaces /\ present \cap removed = {}
    /\ columns \in [RowPlaces -> SUBSET Columns] /\ catalogOf \in [CatalogNames -> CatalogRows]
    /\ pass \in PassRecords /\ finished \in [due : SUBSET RowPlaces, failed : BOOLEAN]

Readable(p) == p \notin Unreadable \cup Unresolvable
ColumnsKnow(p) == Extracted[p] \subseteq columns[p]
CatalogKnows(p) ==
    NameOf[p] # NoName =>
        catalogOf[NameOf[p]].listed = TRUE /\ Extracted[p] \subseteq catalogOf[NameOf[p]].known
ToList(p) == \E k \in 1 .. Len(pass.entries) : pass.entries[k] = p

\* Of the rows due that are still there: those in front of the cursor are still selected; those
\* behind it have their columns, or get them with the commit, and are in the catalog or to be
\* listed, or a failure is booked.
PassInv ==
    /\ pass.due \subseteq present \cup removed
    /\ \A p \in pass.changed : p <= pass.cursor
    /\ \A p \in pass.due \cap present :
          /\ p > pass.cursor => pass.force = TRUE \/ LacksColumns(p)
          /\ pass.last = TRUE => p <= pass.cursor
          /\ pass.dry = FALSE /\ Readable(p) /\ p <= pass.cursor =>
                /\ ColumnsKnow(p) \/ (pass.at = "saving" /\ p \in pass.changed)
                /\ pass.failed = TRUE \/ CatalogKnows(p) \/ ToList(p)
    /\ pass.at = "loading" => pass.entries = << >>
    /\ pass.at = "upserting" => pass.entries # << >> /\ NameOf[Head(pass.entries)] # NoName

ResourceInv ==
    /\ ResourceTypes
    /\ pass.at # "idle" => PassInv
    /\ finished.due \subseteq present \cup removed /\ ReportedPassIsDone

LEMMA ResourceConstants ==
    /\ LastPlace \in Nat /\ PassBatch \in Nat \ {0} /\ PassLimits \subseteq Nat \ {0}
    /\ \A p \in RowPlaces : p \in Nat /\ p > 0
    /\ Extracted \in [RowPlaces -> SUBSET Columns]
    /\ NameOf \in [RowPlaces -> CatalogNames \cup {NoName}] /\ NoName \notin CatalogNames
BY ResourceAssumption DEF RowPlaces

LEMMA NoPassIs == NoPass \in PassRecords /\ NoPass.at = "idle"
<1>1. NotListed \in CatalogRows
    BY DEF NotListed, CatalogRows
<1>2. LastPlace \in Nat /\ 0 \in 0 .. LastPlace /\ << >> \in Seq(RowPlaces) /\ {} \in SUBSET RowPlaces
    BY ResourceConstants
<1> QED  BY <1>1, <1>2 DEF NoPass, PassRecords

\* A row that is kept keeps what is known of it.
LEMMA KeepsReported ==
    ASSUME ResourceInv, UNCHANGED finished,
           \A p \in RowPlaces : p \in present' => p \in present \/ p \notin present \cup removed,
           \A p \in present \cap present' :
               (ColumnsKnow(p) => ColumnsKnow(p)') /\ (CatalogKnows(p) => CatalogKnows(p)'),
           present \cup removed \subseteq present' \cup removed', present' \subseteq RowPlaces
    PROVE  finished'.due \subseteq present' \cup removed' /\ ReportedPassIsDone'
<1>1. finished.due \subseteq present \cup removed
    BY DEF ResourceInv
<1>2. ASSUME NEW p \in (finished.due \cap present') \ (Unreadable \cup Unresolvable)
      PROVE  /\ p \in present /\ ColumnsKnow(p)' /\ ColumnsKnow(p)
             /\ ~finished.failed => CatalogKnows(p)'
    <2>1. p \in present
        BY <1>1, <1>2
    <2>2. ColumnsKnow(p) /\ (~finished.failed => CatalogKnows(p))
        BY <1>2, <2>1 DEF ResourceInv, ReportedPassIsDone, ColumnsKnow, CatalogKnows, ResourceTypes, CatalogRows
    <2> QED  BY <2>1, <2>2
<1>3. ReportedPassIsDone'
    BY <1>2 DEF ReportedPassIsDone, ColumnsKnow, CatalogKnows
<1> QED  BY <1>1, <1>3

\* A run that comes to its end has nothing due left.
LEMMA EndKeeps ==
    ASSUME ResourceInv, pass.at \in {"loading", "listing"}, pass.entries = << >>,
           \A p \in pass.due \cap present :
               pass.dry = FALSE /\ pass.processed < pass.limit => p <= pass.cursor,
           EndPass(pass.failed), UNCHANGED <<present, removed, columns, catalogOf>>
    PROVE  ResourceInv'
<1>0. present' = present /\ removed' = removed /\ columns' = columns /\ catalogOf' = catalogOf
    OBVIOUS
<1>1. /\ PassInv /\ pass' = NoPass /\ pass \in PassRecords
      /\ finished' = IF pass.dry \/ pass.processed >= pass.limit THEN NoReport
                     ELSE [due |-> pass.due, failed |-> pass.failed]
    BY DEF EndPass, ResourceInv, ResourceTypes
<1>2. ResourceTypes'
    BY <1>1, NoPassIs DEF ResourceInv, ResourceTypes, PassRecords, NoReport
<1>3. finished'.due \subseteq present' \cup removed' /\ ReportedPassIsDone'
    <2>1. CASE ~ (pass.dry = FALSE /\ pass.processed < pass.limit)
        <3>0. pass.dry \in BOOLEAN /\ pass.processed \in Nat /\ pass.limit \in Nat
            BY <1>1 DEF PassRecords
        <3>1. finished'.due = {}
            BY <1>1, <2>1, <3>0 DEF NoReport
        <3> QED  BY <3>1 DEF ReportedPassIsDone
    <2>2. CASE pass.dry = FALSE /\ pass.processed < pass.limit
        <3>1. finished' = [due |-> pass.due, failed |-> pass.failed]
            BY <1>1, <2>2 DEF PassRecords
        <3>2. \A p : ~ ToList(p)
            BY DEF ToList
        <3>3. \A p \in (pass.due \cap present) \ (Unreadable \cup Unresolvable) :
                  ColumnsKnow(p) /\ (pass.failed = TRUE \/ CatalogKnows(p))
            BY <1>1, <2>2, <3>2 DEF PassInv, Readable
        <3>4. ReportedPassIsDone'
            BY <1>1, <3>1, <3>3 DEF ReportedPassIsDone, ColumnsKnow, CatalogKnows, PassRecords
        <3>5. finished'.due = pass.due /\ pass.due \subseteq present \cup removed
            BY <1>1, <3>1 DEF PassInv
        <3>6. finished'.due \subseteq present' \cup removed'
            BY <1>0, <3>5
        <3> QED  BY <3>4, <3>6
    <2> QED  BY <2>1, <2>2
<1> QED  BY <1>1, <1>2, <1>3, NoPassIs DEF ResourceInv

\* Lists of all rows that change and all that do not, one after the other, list them all.
LEMMA EntriesList ==
    ASSUME NEW readable \in SUBSET RowPlaces, NEW entries \in Entries(readable)
    PROVE  /\ entries \in Seq(RowPlaces)
           /\ \A p \in readable : \E k \in 1 .. Len(entries) : entries[k] = p
<1> DEFINE A == {p \in readable : Updates(p) # {}}
           B == {p \in readable : Updates(p) = {}}
<1>0. entries \in {listing[1] \o listing[2] : listing \in Listings(A) \X Listings(B)}
    BY DEF Entries
<1> HIDE DEF A, B
<1>1. PICK one \in Listings(A), two \in Listings(B) : entries = one \o two
    BY <1>0
<1>2. A \in SUBSET (1 .. LastPlace) /\ B \in SUBSET (1 .. LastPlace) /\ A \cup B = readable
      /\ LastPlace \in Nat
    BY ResourceConstants DEF RowPlaces, A, B
<1>3. one \in InOrder(A) /\ two \in InOrder(B)
    BY <1>1 DEF Listings, InOrder
<1>4. /\ Cardinality(A) \in Nat /\ one \in [1 .. Cardinality(A) -> A]
      /\ \A p \in A : \E k \in 1 .. Cardinality(A) : one[k] = p
    BY <1>2, <1>3, OrderNamesAll
<1>5. /\ Cardinality(B) \in Nat /\ two \in [1 .. Cardinality(B) -> B]
      /\ \A p \in B : \E k \in 1 .. Cardinality(B) : two[k] = p
    BY <1>2, <1>3, OrderNamesAll
<1>6. /\ one \in Seq(RowPlaces) /\ Len(one) = Cardinality(A)
      /\ two \in Seq(RowPlaces) /\ Len(two) = Cardinality(B)
    <2>1. \A n \in Nat, S \in SUBSET RowPlaces : \A f \in [1 .. n -> S] :
              f \in Seq(RowPlaces) /\ Len(f) = n
        OBVIOUS
    <2>2. A \in SUBSET RowPlaces /\ B \in SUBSET RowPlaces
        BY <1>2 DEF RowPlaces
    <2> QED  BY <1>4, <1>5, <2>1, <2>2
<1>7. /\ entries \in Seq(RowPlaces) /\ Len(entries) = Len(one) + Len(two)
      /\ \A k \in 1 .. Len(one) : entries[k] = one[k]
      /\ \A k \in 1 .. Len(two) : entries[Len(one) + k] = two[k]
    <2>1. /\ one \o two \in Seq(RowPlaces) /\ Len(one \o two) = Len(one) + Len(two)
          /\ \A k \in 1 .. Len(one) + Len(two) :
                 (one \o two)[k] = IF k <= Len(one) THEN one[k] ELSE two[k - Len(one)]
        BY <1>6, ConcatProperties
    <2>2. Len(one) \in Nat /\ Len(two) \in Nat
        BY <1>4, <1>5, <1>6
    <2> QED  BY <1>1, <2>1, <2>2
<1>8. ASSUME NEW p \in A PROVE \E k \in 1 .. Len(entries) : entries[k] = p
    <2>1. PICK k \in 1 .. Len(one) : one[k] = p
        BY <1>4, <1>6
    <2>2. k \in 1 .. Len(entries) /\ entries[k] = p
        BY <1>6, <1>7, <2>1
    <2> QED  BY <2>2
<1>9. ASSUME NEW p \in B PROVE \E k \in 1 .. Len(entries) : entries[k] = p
    <2>1. PICK k \in 1 .. Len(two) : two[k] = p
        BY <1>5, <1>6
    <2>2. Len(one) + k \in 1 .. Len(entries) /\ entries[Len(one) + k] = p
        BY <1>6, <1>7, <2>1
    <2> QED  BY <2>2
<1> QED  BY <1>2, <1>7, <1>8, <1>9

\* A catalog row that takes in what a row tells knows that, and no less than before.
LEMMA CatalogGrows ==
    ASSUME ResourceTypes, NEW p \in RowPlaces, NameOf[p] # NoName,
           catalogOf' = [catalogOf EXCEPT ![NameOf[p]] = WithSeen(catalogOf[NameOf[p]], p)]
    PROVE  /\ catalogOf' \in [CatalogNames -> CatalogRows]
           /\ CatalogKnows(p)'
           /\ \A q \in RowPlaces : CatalogKnows(q) => CatalogKnows(q)'
<1> DEFINE n == NameOf[p]
           row == WithSeen(catalogOf[n], p)
<1>1. n \in CatalogNames /\ Extracted[p] \in SUBSET Columns
    BY ResourceConstants
<1>2. catalogOf \in [CatalogNames -> CatalogRows]
    BY DEF ResourceTypes
<1>3. row = [listed |-> TRUE, known |-> catalogOf[n].known \cup Extracted[p]]
    BY DEF WithSeen
<1>4. row \in CatalogRows /\ row.listed = TRUE
      /\ catalogOf[n].known \subseteq row.known /\ Extracted[p] \subseteq row.known
    BY <1>1, <1>2, <1>3 DEF CatalogRows
<1> HIDE DEF row
<1>5. /\ catalogOf' \in [CatalogNames -> CatalogRows]
      /\ catalogOf'[n] = row /\ \A m \in CatalogNames : m # n => catalogOf'[m] = catalogOf[m]
    BY <1>1, <1>2, <1>4 DEF row
<1>6. CatalogKnows(p)'
    BY <1>4, <1>5 DEF CatalogKnows
<1>7. ASSUME NEW q \in RowPlaces, CatalogKnows(q) PROVE CatalogKnows(q)'
    <2>1. NameOf[q] \in CatalogNames \cup {NoName}
        BY ResourceConstants
    <2>2. CASE NameOf[q] = n
        BY <1>4, <1>5, <1>7, <2>2 DEF CatalogKnows
    <2>3. CASE NameOf[q] # n
        BY <1>5, <1>7, <2>1, <2>3 DEF CatalogKnows
    <2> QED  BY <2>2, <2>3
<1> QED  BY <1>5, <1>6, <1>7

\* What the others do to the table and the catalog leaves the run right.
LEMMA OthersKeep ==
    ASSUME ResourceInv, UNCHANGED <<pass, finished>>, ResourceTypes',
           present \cup removed \subseteq present' \cup removed',
           \A p \in RowPlaces : p \in present' => p \in present \/ p \notin present \cup removed,
           \A p \in present \cap present' :
               columns'[p] = columns[p] /\ (CatalogKnows(p) => CatalogKnows(p)')
    PROVE  ResourceInv'
<1>1. present' \subseteq RowPlaces /\ pass' = pass /\ finished' = finished
    BY DEF ResourceTypes
<1>2. \A p \in present \cap present' : ColumnsKnow(p) => ColumnsKnow(p)'
    BY DEF ColumnsKnow
<1>3. finished'.due \subseteq present' \cup removed' /\ ReportedPassIsDone'
    BY <1>1, <1>2, KeepsReported
<1>4. ASSUME pass.at # "idle" PROVE PassInv'
    <2>1. PassInv
        BY <1>4 DEF ResourceInv
    <2>2. pass'.due \subseteq present' \cup removed'
        BY <1>1, <2>1 DEF PassInv
    <2>3. ASSUME NEW p \in pass.due \cap present'
          PROVE  /\ p \in present /\ columns'[p] = columns[p]
                 /\ (CatalogKnows(p) => CatalogKnows(p)')
                 /\ (ColumnsKnow(p) => ColumnsKnow(p)')
                 /\ (LacksColumns(p) => LacksColumns(p)') /\ (ToList(p) => ToList(p)')
        <3>1. p \in present
            BY <1>1, <2>1, <2>3 DEF PassInv
        <3>2. p \in present \cap present'
            BY <2>3, <3>1
        <3>3. columns'[p] = columns[p] /\ (CatalogKnows(p) => CatalogKnows(p)')
            BY <3>2
        <3>4. LacksColumns(p) => LacksColumns(p)'
            BY <3>3 DEF LacksColumns
        <3>5. ToList(p) => ToList(p)'
            BY <1>1 DEF ToList
        <3> QED  BY <1>2, <3>1, <3>2, <3>3, <3>4, <3>5
    <2>4. \A p \in pass.due \cap present' :
              /\ p > pass.cursor => pass.force = TRUE \/ LacksColumns(p)'
              /\ pass.last = TRUE => p <= pass.cursor
              /\ pass.dry = FALSE /\ Readable(p) /\ p <= pass.cursor =>
                    /\ ColumnsKnow(p)' \/ (pass.at = "saving" /\ p \in pass.changed)
                    /\ pass.failed = TRUE \/ CatalogKnows(p)' \/ ToList(p)'
        BY <2>1, <2>3 DEF PassInv
    <2> QED  BY <1>1, <2>1, <2>2, <2>4 DEF PassInv, Readable
<1> QED  BY <1>1, <1>3, <1>4 DEF ResourceInv

\* What is due lies in front of the cursor until the batch has it.
LEMMA BatchIs ==
    ASSUME ResourceInv, PassInv, pass.processed < pass.limit
    PROVE  /\ CurrentLimit \in Nat \ {0} /\ Batch \subseteq present /\ Cardinality(Batch) \in Nat
           /\ \A p \in Batch : p > pass.cursor
           /\ \A p \in pass.due \cap present : p > pass.cursor =>
                  /\ Batch # {} /\ (Cardinality(Batch) < CurrentLimit => p \in Batch)
                  /\ p \in Batch \/ \A q \in Batch : q < p
<1> DEFINE beyond == {p \in Due(pass.force) : p > pass.cursor}
           B == Batch
<1>0. /\ pass \in PassRecords /\ present \in SUBSET RowPlaces
    BY DEF ResourceInv, ResourceTypes
<1>1. /\ LastPlace \in Nat /\ beyond \in SUBSET (1 .. LastPlace) /\ beyond \subseteq present
      /\ \A p \in beyond : p > pass.cursor /\ p \in Nat
    BY <1>0, ResourceConstants DEF Due, RowPlaces
<1>2. CurrentLimit \in Nat \ {0}
    <2>1. pass.processed \in Nat /\ pass.limit \in Nat /\ PassBatch \in Nat \ {0}
        BY <1>0, ResourceConstants DEF PassRecords
    <2>2. {PassBatch, pass.limit - pass.processed} \in SUBSET (Nat \ {0})
        BY <2>1
    <2> QED  BY <2>2, RoomIsLeft DEF CurrentLimit
<1>3. AreFirst(B, CurrentLimit, beyond, Upwards(beyond))
    BY DEF Batch, AreFirst, Upwards
<1>4. ASSUME NEW p \in pass.due \cap present, p > pass.cursor PROVE p \in beyond
    BY <1>4 DEF PassInv, Due
<1> HIDE DEF B, beyond
<1>5. /\ B \subseteq beyond /\ IsFiniteSet(B) /\ Cardinality(B) \in Nat
      /\ \A f \in B, q \in beyond : q < f => q \in B
      /\ Cardinality(B) < CurrentLimit => B = beyond
      /\ beyond # {} => B # {}
    BY <1>1, <1>2, <1>3, FirstUpwards
<1>6. ASSUME NEW p \in pass.due \cap present, p > pass.cursor
      PROVE  /\ B # {} /\ (Cardinality(B) < CurrentLimit => p \in B)
             /\ p \in B \/ \A q \in B : q < p
    <2>1. p \in beyond
        BY <1>4, <1>6
    <2>2. B # {} /\ (Cardinality(B) < CurrentLimit => p \in B)
        BY <1>5, <2>1
    <2>3. ASSUME p \notin B, NEW q \in B PROVE q < p
        <3>1. q \in beyond /\ q # p /\ q \in Nat /\ p \in Nat
            BY <1>1, <1>5, <2>1, <2>3
        <3>2. ~ (p < q)
            BY <1>5, <2>1, <2>3
        <3> QED  BY <3>1, <3>2
    <2> QED  BY <2>2, <2>3
<1> QED  BY <1>1, <1>2, <1>5, <1>6 DEF B

\* A batch is read: the cursor passes its rows, which are to be saved and listed.
LEMMA LoadKeeps == ASSUME ResourceInv, LoadBatch PROVE ResourceInv'
<1> DEFINE readable == Batch \ (Unreadable \cup Unresolvable)
           changed == {p \in readable : Updates(p) # {}}
<1>0. /\ ResourceTypes /\ PassInv /\ pass \in PassRecords
      /\ pass.at = "loading" /\ pass.processed < pass.limit /\ Batch # {}
      /\ UNCHANGED <<present, removed, columns, catalogOf, finished>>
      /\ pass.entries = << >>
    BY DEF LoadBatch, ResourceInv, ResourceTypes, PassInv
<1>1. /\ CurrentLimit \in Nat \ {0} /\ Batch \subseteq present /\ Cardinality(Batch) \in Nat
      /\ \A p \in Batch : p > pass.cursor
      /\ \A p \in pass.due \cap present : p > pass.cursor =>
             /\ Batch # {} /\ (Cardinality(Batch) < CurrentLimit => p \in Batch)
             /\ p \in Batch \/ \A q \in Batch : q < p
    BY <1>0, BatchIs
<1>2. Batch \in SUBSET RowPlaces /\ readable \in SUBSET RowPlaces /\ changed \in SUBSET RowPlaces
    BY <1>0, <1>1 DEF ResourceTypes
<1>3. Max(Batch) \in Batch /\ (\A p \in Batch : p <= Max(Batch)) /\ Max(Batch) \in 0 .. LastPlace
    <2>1. LastPlace \in Nat /\ Batch \in SUBSET (0 .. LastPlace)
        BY <1>2, ResourceConstants DEF RowPlaces
    <2> QED  BY <1>0, <2>1, LastOnes
<1>4. PICK entries \in IF pass.dry THEN {<< >>} ELSE Entries(readable) :
          pass' = [pass EXCEPT
                   !.cursor = Max(Batch), !.processed = @ + Cardinality(Batch),
                   !.last = Cardinality(Batch) < CurrentLimit,
                   !.changed = changed, !.entries = entries, !.at = "saving"]
    BY DEF LoadBatch
<1>5. /\ entries \in Seq(RowPlaces)
      /\ pass.dry = FALSE => \A p \in readable : \E k \in 1 .. Len(entries) : entries[k] = p
    <2>1. pass.dry \in BOOLEAN
        BY <1>0 DEF PassRecords
    <2>2. CASE pass.dry = TRUE
        <3>1. entries = << >>
            BY <1>4, <2>2
        <3> QED  BY <2>2, <3>1
    <2>3. CASE pass.dry = FALSE
        <3>1. entries \in Entries(readable)
            BY <1>4, <2>3
        <3> HIDE DEF readable
        <3> QED  BY <1>2, <3>1, EntriesList, Zenon
    <2> QED  BY <2>1, <2>2, <2>3
<1> DEFINE full == Cardinality(Batch) < CurrentLimit
           processed == pass.processed + Cardinality(Batch)
<1>6. /\ pass'.at = "saving" /\ pass'.dry = pass.dry /\ pass'.force = pass.force
      /\ pass'.cursor = Max(Batch) /\ pass'.last = full /\ pass'.changed = changed
      /\ pass'.entries = entries /\ pass'.failed = pass.failed /\ pass'.due = pass.due
    BY <1>0, <1>4 DEF PassRecords
<1>7. pass' \in PassRecords
    <2>1. full \in BOOLEAN /\ processed \in Nat
        BY <1>0, <1>1 DEF PassRecords
    <2> HIDE DEF full, changed
    <2> QED  BY <1>0, <1>2, <1>3, <1>4, <1>5, <2>1 DEF PassRecords, full
<1>8. ResourceTypes'
    BY <1>0, <1>7 DEF ResourceTypes
<1>9. PassInv'
    <2>0. \A p \in RowPlaces : p \in Nat /\ pass.cursor \in Nat /\ Max(Batch) \in Nat
        BY <1>0, <1>3, ResourceConstants DEF PassRecords
    <2>1. pass'.due \subseteq present' \cup removed'
        BY <1>0, <1>6 DEF PassInv
    <2>2. \A p \in pass'.changed : p <= pass'.cursor
        BY <1>3, <1>6
    <2>3. ASSUME NEW p \in pass.due \cap present
          PROVE  /\ p > Max(Batch) => pass.force = TRUE \/ LacksColumns(p)
                 /\ full = TRUE => p <= Max(Batch)
                 /\ pass.dry = FALSE /\ Readable(p) /\ p <= Max(Batch) =>
                       /\ ColumnsKnow(p) \/ p \in changed
                       /\ \/ pass.failed = TRUE \/ CatalogKnows(p)
                          \/ \E k \in 1 .. Len(entries) : entries[k] = p
        <3>0. p \in RowPlaces /\ p \in Nat /\ pass.cursor \in Nat /\ Max(Batch) \in Nat
              /\ Max(Batch) > pass.cursor
            BY <1>0, <1>1, <1>3, <2>0, <2>3 DEF ResourceTypes
        <3>1. p > Max(Batch) => pass.force = TRUE \/ LacksColumns(p)
            BY <1>0, <3>0 DEF PassInv
        <3>2. full = TRUE => p <= Max(Batch)
            BY <1>1, <1>3, <3>0
        <3>3. ASSUME pass.dry = FALSE, Readable(p), p <= Max(Batch)
              PROVE  /\ ColumnsKnow(p) \/ p \in changed
                     /\ \/ pass.failed = TRUE \/ CatalogKnows(p)
                        \/ \E k \in 1 .. Len(entries) : entries[k] = p
            <4>1. CASE p <= pass.cursor
                <5>1. \A q : ~ ToList(q)
                    BY <1>0 DEF ToList
                <5> QED  BY <1>0, <3>3, <4>1, <5>1 DEF PassInv
            <4>2. CASE p > pass.cursor
                <5>1. p \in Batch
                    BY <1>1, <1>3, <3>0, <3>3, <4>2
                <5>2. p \in readable
                    BY <3>3, <5>1 DEF Readable
                <5>3. p \in changed \/ ColumnsKnow(p)
                    BY <5>2 DEF Updates, ColumnsKnow
                <5>4. \E k \in 1 .. Len(entries) : entries[k] = p
                    BY <1>5, <3>3, <5>2
                <5> QED  BY <5>3, <5>4
            <4>3. p <= pass.cursor \/ p > pass.cursor
                BY <3>0
            <4> HIDE DEF changed
            <4> QED  BY <4>1, <4>2, <4>3, Zenon
        <3> QED  BY <3>1, <3>2, <3>3
    <2>4. \A p : ColumnsKnow(p)' = ColumnsKnow(p) /\ CatalogKnows(p)' = CatalogKnows(p)
                 /\ LacksColumns(p)' = LacksColumns(p)
                 /\ (ToList(p)' <=> \E k \in 1 .. Len(entries) : entries[k] = p)
        BY <1>0, <1>6 DEF ColumnsKnow, CatalogKnows, LacksColumns, ToList
    <2>5. \A p \in pass'.due \cap present' :
              /\ p > pass'.cursor => pass'.force = TRUE \/ LacksColumns(p)'
              /\ pass'.last = TRUE => p <= pass'.cursor
              /\ pass'.dry = FALSE /\ Readable(p) /\ p <= pass'.cursor =>
                    /\ ColumnsKnow(p)' \/ (pass'.at = "saving" /\ p \in pass'.changed)
                    /\ pass'.failed = TRUE \/ CatalogKnows(p)' \/ ToList(p)'
        <3> HIDE DEF changed, full
        <3> QED  BY <1>0, <1>6, <2>3, <2>4
    <2> QED  BY <1>6, <2>1, <2>2, <2>5 DEF PassInv, Readable
<1>10. finished'.due \subseteq present' \cup removed' /\ ReportedPassIsDone'
    BY <1>0 DEF ResourceInv, ReportedPassIsDone
<1> QED  BY <1>8, <1>9, <1>10 DEF ResourceInv

\* The updates of a batch are stored, or none is and the run is over.
LEMMA SaveKeeps == ASSUME ResourceInv, SaveBatch PROVE ResourceInv'
<1>0. /\ ResourceTypes /\ PassInv /\ pass \in PassRecords
      /\ pass.at = "saving" /\ pass.dry \in BOOLEAN /\ pass.changed \in SUBSET RowPlaces
      /\ present' = present /\ removed' = removed /\ catalogOf' = catalogOf
      /\ finished' = finished
    BY DEF SaveBatch, ResourceInv, ResourceTypes, PassRecords
<1>1. CASE ~ (pass.dry \/ pass.changed \subseteq present)
    <2>1. pass' = NoPass /\ columns' = columns
        BY <1>1 DEF SaveBatch
    <2>2. ResourceTypes'
        BY <1>0, <2>1, NoPassIs DEF ResourceTypes
    <2> QED  BY <1>0, <2>1, <2>2, NoPassIs DEF ResourceInv, ReportedPassIsDone
<1>2. CASE pass.dry \/ pass.changed \subseteq present
    <2>1. /\ columns' = [p \in RowPlaces |-> IF ~pass.dry /\ p \in pass.changed
                                             THEN columns[p] \cup Extracted[p] ELSE columns[p]]
          /\ pass' = [pass EXCEPT !.at = "listing"]
        BY <1>2 DEF SaveBatch
    <2>2. \A p \in RowPlaces : columns[p] \in SUBSET Columns /\ Extracted[p] \in SUBSET Columns
        BY <1>0, ResourceConstants DEF ResourceTypes
    <2>3. columns' \in [RowPlaces -> SUBSET Columns]
        BY <2>1, <2>2
    <2>4. pass' \in PassRecords
        BY <1>0, <2>1 DEF PassRecords
    <2>5. ResourceTypes'
        BY <1>0, <2>3, <2>4 DEF ResourceTypes
    <2>6. \A p \in RowPlaces : /\ ColumnsKnow(p) => ColumnsKnow(p)'
                               /\ CatalogKnows(p) => CatalogKnows(p)'
        BY <1>0, <2>1 DEF ColumnsKnow, CatalogKnows
    <2>7. finished'.due \subseteq present' \cup removed' /\ ReportedPassIsDone'
        <3>1. present' \subseteq RowPlaces /\ UNCHANGED finished
            BY <1>0 DEF ResourceTypes
        <3> QED  BY <1>0, <2>6, <3>1, KeepsReported DEF ResourceTypes
    <2>8. /\ pass'.at = "listing" /\ pass'.dry = pass.dry /\ pass'.force = pass.force
          /\ pass'.cursor = pass.cursor /\ pass'.last = pass.last
          /\ pass'.changed = pass.changed /\ pass'.entries = pass.entries
          /\ pass'.failed = pass.failed /\ pass'.due = pass.due
        BY <1>0, <2>1 DEF PassRecords
    <2>9. ASSUME NEW p \in pass.due \cap present
          PROVE  /\ p > pass.cursor => pass.force = TRUE \/ LacksColumns(p)'
                 /\ pass.dry = FALSE /\ Readable(p) /\ p <= pass.cursor => ColumnsKnow(p)'
                 /\ CatalogKnows(p) => CatalogKnows(p)'
                 /\ ToList(p) => ToList(p)'
        <3>0. p \in RowPlaces /\ p \in Nat /\ pass.cursor \in Nat
            BY <1>0, <2>9, ResourceConstants DEF ResourceTypes, PassRecords
        <3>1. ASSUME p > pass.cursor PROVE pass.force = TRUE \/ LacksColumns(p)'
            <4>1. p \notin pass.changed
                BY <1>0, <3>0, <3>1 DEF PassInv
            <4>2. columns'[p] = columns[p]
                BY <2>1, <3>0, <4>1
            <4> QED  BY <1>0, <3>1, <4>2 DEF PassInv, LacksColumns
        <3>2. ASSUME pass.dry = FALSE, Readable(p), p <= pass.cursor PROVE ColumnsKnow(p)'
            <4>1. ColumnsKnow(p) \/ p \in pass.changed
                BY <1>0, <3>2 DEF PassInv
            <4>2. CASE p \in pass.changed
                BY <2>1, <3>0, <3>2, <4>2 DEF ColumnsKnow
            <4> QED  BY <2>6, <3>0, <4>1, <4>2
        <3>3. ToList(p) => ToList(p)'
            BY <2>8 DEF ToList
        <3> QED  BY <2>6, <3>0, <3>1, <3>2, <3>3
    <2>10. PassInv'
        <3>1. \A p \in pass'.due \cap present' :
                  /\ p > pass'.cursor => pass'.force = TRUE \/ LacksColumns(p)'
                  /\ pass'.last = TRUE => p <= pass'.cursor
                  /\ pass'.dry = FALSE /\ Readable(p) /\ p <= pass'.cursor =>
                        /\ ColumnsKnow(p)'
                        /\ pass'.failed = TRUE \/ CatalogKnows(p)' \/ ToList(p)'
            BY <1>0, <2>8, <2>9 DEF PassInv
        <3>2. /\ pass'.due \subseteq present' \cup removed'
              /\ \A p \in pass'.changed : p <= pass'.cursor
            BY <1>0, <2>8 DEF PassInv
        <3> QED  BY <2>8, <3>1, <3>2 DEF PassInv, Readable
    <2> QED  BY <2>5, <2>7, <2>10 DEF ResourceInv
<1> QED  BY <1>1, <1>2

TakesOff(booked) ==
    \/ pass' = [pass EXCEPT !.at = "listing", !.entries = Tail(pass.entries),
                            !.read = NotListed, !.failed = booked]
    \/ /\ pass.at = "listing"
       /\ pass' = [pass EXCEPT !.entries = Tail(pass.entries), !.failed = booked]

\* An entry that leaves the list is known to the catalog, or its failure is booked.
LEMMA EntryDone ==
    ASSUME ResourceInv, pass.at \in {"listing", "upserting"}, pass.entries # << >>,
           NEW booked \in BOOLEAN, pass.failed = TRUE => booked = TRUE,
           TakesOff(booked),
           UNCHANGED <<present, removed, columns, finished>>,
           catalogOf' \in [CatalogNames -> CatalogRows],
           \A p \in RowPlaces : CatalogKnows(p) => CatalogKnows(p)',
           NEW first, first = Head(pass.entries), booked = TRUE \/ CatalogKnows(first)'
    PROVE  ResourceInv'
<1>0. /\ ResourceTypes /\ PassInv /\ pass \in PassRecords /\ pass.entries \in Seq(RowPlaces)
      /\ present' = present /\ removed' = removed /\ columns' = columns
      /\ finished' = finished
    BY DEF ResourceInv, ResourceTypes, PassRecords
<1>1. /\ Head(pass.entries) \in RowPlaces /\ Tail(pass.entries) \in Seq(RowPlaces)
      /\ Len(pass.entries) \in Nat /\ Len(pass.entries) > 0
      /\ Len(Tail(pass.entries)) = Len(pass.entries) - 1
      /\ Head(pass.entries) = pass.entries[1]
      /\ \A k \in 1 .. Len(Tail(pass.entries)) : Tail(pass.entries)[k] = pass.entries[k + 1]
    BY <1>0, HeadTailProperties, EmptySeq
<1>2. /\ pass'.at = "listing" /\ pass'.dry = pass.dry /\ pass'.force = pass.force
      /\ pass'.cursor = pass.cursor /\ pass'.last = pass.last
      /\ pass'.changed = pass.changed /\ pass'.entries = Tail(pass.entries)
      /\ pass'.failed = booked /\ pass'.due = pass.due
    <2>1. CASE pass' = [pass EXCEPT !.at = "listing", !.entries = Tail(pass.entries),
                                    !.read = NotListed, !.failed = booked]
        BY <1>0, <2>1 DEF PassRecords
    <2>2. CASE /\ pass.at = "listing"
               /\ pass' = [pass EXCEPT !.entries = Tail(pass.entries), !.failed = booked]
        BY <1>0, <2>2 DEF PassRecords
    <2> QED  BY <2>1, <2>2 DEF TakesOff
<1>3. pass' \in PassRecords
    <2>1. NotListed \in CatalogRows
        BY DEF NotListed, CatalogRows
    <2>2. CASE pass' = [pass EXCEPT !.at = "listing", !.entries = Tail(pass.entries),
                                    !.read = NotListed, !.failed = booked]
        BY <1>0, <1>1, <2>1, <2>2 DEF PassRecords
    <2>3. CASE /\ pass.at = "listing"
               /\ pass' = [pass EXCEPT !.entries = Tail(pass.entries), !.failed = booked]
        BY <1>0, <1>1, <2>3 DEF PassRecords
    <2> QED  BY <2>2, <2>3 DEF TakesOff
<1>4. ResourceTypes'
    BY <1>0, <1>3 DEF ResourceTypes
<1>5. finished'.due \subseteq present' \cup removed' /\ ReportedPassIsDone'
    <2>1. present' \subseteq RowPlaces /\ \A p \in RowPlaces : ColumnsKnow(p) => ColumnsKnow(p)'
        BY <1>0 DEF ResourceTypes, ColumnsKnow
    <2> QED  BY <1>0, <2>1, KeepsReported DEF ResourceTypes
<1>6. ASSUME NEW p \in pass.due \cap present, ToList(p)
      PROVE  booked = TRUE \/ CatalogKnows(p)' \/ ToList(p)'
    <2>1. PICK k \in 1 .. Len(pass.entries) : pass.entries[k] = p
        BY <1>6 DEF ToList
    <2>2. CASE k = 1
        <3>1. p = first
            BY <1>1, <2>1, <2>2
        <3> QED  BY <3>1
    <2>3. CASE k # 1
        <3>1. k - 1 \in 1 .. Len(Tail(pass.entries)) /\ Tail(pass.entries)[k - 1] = p
            BY <1>1, <2>1, <2>3
        <3> QED  BY <1>2, <3>1 DEF ToList
    <2> QED  BY <2>2, <2>3
<1>7. ASSUME NEW p \in pass.due \cap present
      PROVE  /\ p > pass.cursor => pass.force = TRUE \/ LacksColumns(p)'
             /\ pass.last = TRUE => p <= pass.cursor
             /\ pass.dry = FALSE /\ Readable(p) /\ p <= pass.cursor =>
                   ColumnsKnow(p)' /\ (booked = TRUE \/ CatalogKnows(p)' \/ ToList(p)')
    <2>1. p \in RowPlaces /\ (LacksColumns(p) => LacksColumns(p)')
          /\ (ColumnsKnow(p) => ColumnsKnow(p)') /\ (CatalogKnows(p) => CatalogKnows(p)')
        BY <1>0, <1>7 DEF ResourceTypes, LacksColumns, ColumnsKnow
    <2> QED  BY <1>0, <1>6, <2>1 DEF PassInv
<1>8. PassInv'
    <2>1. \A p \in pass'.due \cap present' :
              /\ p > pass'.cursor => pass'.force = TRUE \/ LacksColumns(p)'
              /\ pass'.last = TRUE => p <= pass'.cursor
              /\ pass'.dry = FALSE /\ Readable(p) /\ p <= pass'.cursor =>
                    /\ ColumnsKnow(p)'
                    /\ pass'.failed = TRUE \/ CatalogKnows(p)' \/ ToList(p)'
        BY <1>0, <1>2, <1>7
    <2>2. /\ pass'.due \subseteq present' \cup removed'
          /\ \A p \in pass'.changed : p <= pass'.cursor
        BY <1>0, <1>2 DEF PassInv
    <2> QED  BY <1>2, <2>1, <2>2 DEF PassInv, Readable
<1> QED  BY <1>4, <1>5, <1>8 DEF ResourceInv

LEMMA ReadKeeps == ASSUME ResourceInv, ReadCatalog PROVE ResourceInv'
<1>0. /\ ResourceTypes /\ PassInv /\ pass \in PassRecords /\ pass.entries \in Seq(RowPlaces)
      /\ pass.at = "listing" /\ pass.entries # << >> /\ pass.failed \in BOOLEAN
      /\ present' = present /\ removed' = removed /\ columns' = columns
      /\ catalogOf' = catalogOf /\ finished' = finished
    BY DEF ReadCatalog, ResourceInv, ResourceTypes, PassRecords
<1>1. PICK p : p = Head(pass.entries)
    OBVIOUS
<1>2. /\ p \in RowPlaces /\ catalogOf \in [CatalogNames -> CatalogRows]
      /\ \A q \in RowPlaces : CatalogKnows(q) => CatalogKnows(q)'
    BY <1>0, <1>1 DEF ResourceTypes, CatalogKnows
<1>3. CASE p \in pass.changed \ present
    <2>1. TakesOff(TRUE)
        BY <1>0, <1>1, <1>3 DEF ReadCatalog, TakesOff
    <2> QED  BY <1>0, <1>1, <1>2, <2>1, EntryDone
<1>4. CASE p \notin pass.changed \ present /\ NameOf[p] = NoName
    <2>1. pass' = [pass EXCEPT !.entries = Tail(pass.entries)]
        BY <1>1, <1>4 DEF ReadCatalog
    <2>2. pass' = [pass EXCEPT !.entries = Tail(pass.entries), !.failed = pass.failed]
        BY <1>0, <2>1 DEF PassRecords
    <2>3. CatalogKnows(p)'
        BY <1>4 DEF CatalogKnows
    <2>4. TakesOff(pass.failed)
        BY <1>0, <2>2 DEF TakesOff
    <2> QED  BY <1>0, <1>1, <1>2, <2>3, <2>4, EntryDone
<1>5. CASE p \notin pass.changed \ present /\ NameOf[p] # NoName
    <2>1. pass' = [pass EXCEPT !.at = "upserting", !.read = catalogOf[NameOf[p]]]
        BY <1>1, <1>5 DEF ReadCatalog
    <2>2. NameOf[p] \in CatalogNames
        BY <1>2, <1>5, ResourceConstants
    <2>3. catalogOf[NameOf[p]] \in CatalogRows
        BY <1>2, <2>2
    <2>4. pass' \in PassRecords
        BY <1>0, <2>1, <2>3 DEF PassRecords
    <2>5. ResourceTypes'
        BY <1>0, <2>4 DEF ResourceTypes
    <2>6. /\ pass'.at = "upserting" /\ pass'.dry = pass.dry /\ pass'.force = pass.force
          /\ pass'.cursor = pass.cursor /\ pass'.last = pass.last
          /\ pass'.changed = pass.changed /\ pass'.entries = pass.entries
          /\ pass'.failed = pass.failed /\ pass'.due = pass.due
        BY <1>0, <2>1 DEF PassRecords
    <2>7. PassInv'
        BY <1>0, <1>1, <1>5, <2>6
           DEF PassInv, ColumnsKnow, CatalogKnows, LacksColumns, ToList, Readable
    <2> QED  BY <1>0, <2>5, <2>7 DEF ResourceInv, ReportedPassIsDone
<1> QED  BY <1>3, <1>4, <1>5

LEMMA ListingKeeps == ASSUME ResourceInv, CommitCatalog PROVE ResourceInv'
<1>0. /\ ResourceTypes /\ PassInv /\ pass \in PassRecords /\ pass.entries \in Seq(RowPlaces)
      /\ pass.at = "upserting" /\ pass.entries # << >> /\ pass.failed \in BOOLEAN
      /\ NameOf[Head(pass.entries)] # NoName
      /\ present' = present /\ removed' = removed /\ columns' = columns /\ finished' = finished
    BY DEF CommitCatalog, ResourceInv, ResourceTypes, PassRecords, PassInv
<1>1. PICK p : p = Head(pass.entries)
    OBVIOUS
<1>2. p \in RowPlaces /\ NameOf[p] # NoName /\ catalogOf \in [CatalogNames -> CatalogRows]
    BY <1>0, <1>1 DEF ResourceTypes
<1> DEFINE listedNow == pass.read = NotListed /\ catalogOf[NameOf[p]] # NotListed
<1>3. /\ catalogOf' = [catalogOf EXCEPT ![NameOf[p]] =
                           IF listedNow THEN catalogOf[NameOf[p]] ELSE WithSeen(catalogOf[NameOf[p]], p)]
      /\ pass' = [pass EXCEPT !.at = "listing", !.entries = Tail(pass.entries),
                              !.read = NotListed, !.failed = pass.failed \/ listedNow]
    BY <1>1 DEF CommitCatalog
<1>4. CASE listedNow
    <2>1. catalogOf' = catalogOf
        BY <1>2, <1>3, <1>4
    <2>2. pass' = [pass EXCEPT !.at = "listing", !.entries = Tail(pass.entries),
                               !.read = NotListed, !.failed = TRUE]
        <3>1. (pass.failed \/ listedNow) = TRUE
            BY <1>4
        <3> HIDE DEF listedNow
        <3> QED  BY <1>3, <3>1
    <2>3. \A q \in RowPlaces : CatalogKnows(q) => CatalogKnows(q)'
        BY <2>1 DEF CatalogKnows
    <2>4. TakesOff(TRUE)
        BY <2>2 DEF TakesOff
    <2> QED  BY <1>0, <1>1, <1>2, <2>1, <2>3, <2>4, EntryDone
<1>5. CASE ~ listedNow
    <2>1. catalogOf' = [catalogOf EXCEPT ![NameOf[p]] = WithSeen(catalogOf[NameOf[p]], p)]
        BY <1>3, <1>5
    <2>2. pass' = [pass EXCEPT !.at = "listing", !.entries = Tail(pass.entries),
                               !.read = NotListed, !.failed = pass.failed]
        <3>1. (pass.failed \/ listedNow) = pass.failed
            BY <1>0, <1>5
        <3> HIDE DEF listedNow
        <3> QED  BY <1>3, <3>1
    <2>3. /\ catalogOf' \in [CatalogNames -> CatalogRows] /\ CatalogKnows(p)'
          /\ \A q \in RowPlaces : CatalogKnows(q) => CatalogKnows(q)'
        BY <1>0, <1>2, <2>1, CatalogGrows
    <2>4. TakesOff(pass.failed)
        BY <2>2 DEF TakesOff
    <2> QED  BY <1>0, <1>1, <2>3, <2>4, EntryDone
<1> QED  BY <1>4, <1>5

LEMMA ResourceStep == ResourceInv /\ [ResourceNext]_resourceVars => ResourceInv'
<1> SUFFICES ASSUME ResourceInv, [ResourceNext]_resourceVars PROVE ResourceInv'
    OBVIOUS
<1>0. ResourceTypes /\ pass \in PassRecords
    BY DEF ResourceInv, ResourceTypes
<1>1. ASSUME NEW p \in RowPlaces, RowStored(p) PROVE ResourceInv'
    <2>1. PICK filledIn \in {{}, Extracted[p]} : columns' = [columns EXCEPT ![p] = filledIn]
        BY <1>1 DEF RowStored
    <2>2. /\ p \notin present \cup removed /\ present' = present \cup {p} /\ removed' = removed
          /\ catalogOf' = catalogOf /\ pass' = pass /\ finished' = finished
        BY <1>1 DEF RowStored
    <2>3. ResourceTypes'
        <3>1. filledIn \in SUBSET Columns
            BY ResourceConstants
        <3> QED  BY <1>0, <2>1, <2>2, <3>1 DEF ResourceTypes
    <2>4. \A q \in present \cap present' :
              columns'[q] = columns[q] /\ (CatalogKnows(q) => CatalogKnows(q)')
        BY <1>0, <2>1, <2>2 DEF ResourceTypes, CatalogKnows
    <2> QED  BY <2>2, <2>3, <2>4, OthersKeep
<1>2. ASSUME NEW p \in RowPlaces, RowDeleted(p) PROVE ResourceInv'
    <2>1. /\ present' = present \ {p} /\ removed' = removed \cup {p}
          /\ columns' = columns /\ catalogOf' = catalogOf /\ pass' = pass /\ finished' = finished
        BY <1>2 DEF RowDeleted
    <2>2. ResourceTypes'
        BY <1>0, <2>1 DEF ResourceTypes
    <2>3. \A q \in present \cap present' :
              columns'[q] = columns[q] /\ (CatalogKnows(q) => CatalogKnows(q)')
        BY <2>1 DEF CatalogKnows
    <2> QED  BY <2>1, <2>2, <2>3, OthersKeep
<1>3. ASSUME NEW p \in RowPlaces, WriterUpsert(p) PROVE ResourceInv'
    <2>1. /\ catalogOf' = [catalogOf EXCEPT ![NameOf[p]] = WithSeen(catalogOf[NameOf[p]], p)]
          /\ NameOf[p] # NoName /\ present' = present /\ removed' = removed
          /\ columns' = columns /\ pass' = pass /\ finished' = finished
        BY <1>3 DEF WriterUpsert
    <2>2. /\ catalogOf' \in [CatalogNames -> CatalogRows]
          /\ \A q \in RowPlaces : CatalogKnows(q) => CatalogKnows(q)'
        BY <1>0, <2>1, CatalogGrows
    <2>3. ResourceTypes'
        BY <1>0, <2>1, <2>2 DEF ResourceTypes
    <2>4. \A q \in present \cap present' :
              columns'[q] = columns[q] /\ (CatalogKnows(q) => CatalogKnows(q)')
        BY <1>0, <2>1, <2>2 DEF ResourceTypes
    <2> QED  BY <2>1, <2>3, <2>4, OthersKeep
<1>4. CASE StartPass
    <2>1. PICK dry \in BOOLEAN, force \in BOOLEAN, limit \in PassLimits :
              pass' = [NoPass EXCEPT !.at = "loading", !.dry = dry, !.force = force,
                                     !.limit = limit, !.due = Due(force)]
        BY <1>4 DEF StartPass
    <2>2. UNCHANGED <<present, removed, columns, catalogOf, finished>>
        BY <1>4 DEF StartPass
    <2>3. Due(force) \subseteq present /\ present \in SUBSET RowPlaces
        BY <1>0 DEF Due, ResourceTypes
    <2>4. pass' \in PassRecords
        BY <2>1, <2>3, NoPassIs, ResourceConstants DEF PassRecords
    <2>5. ResourceTypes'
        BY <1>0, <2>2, <2>4 DEF ResourceTypes
    <2>6. /\ pass'.at = "loading" /\ pass'.dry = dry /\ pass'.force = force
          /\ pass'.cursor = 0 /\ pass'.last = FALSE /\ pass'.changed = {}
          /\ pass'.entries = << >> /\ pass'.failed = FALSE /\ pass'.due = Due(force)
        BY <2>1 DEF NoPass
    <2>7. ASSUME NEW p \in Due(force)
          PROVE  p > 0 /\ ~ (p <= 0) /\ (force = TRUE \/ LacksColumns(p)')
        <3>1. p \in Nat /\ p > 0
            BY <2>3, <2>7, ResourceConstants
        <3>2. force = TRUE \/ LacksColumns(p)'
            BY <2>2, <2>7 DEF Due, LacksColumns
        <3> QED  BY <3>1, <3>2
    <2>8. PassInv'
        BY <2>2, <2>3, <2>6, <2>7 DEF PassInv
    <2> QED  BY <2>2, <2>5, <2>8 DEF ResourceInv, ReportedPassIsDone
<1>5. CASE StopLoading
    <2>1. /\ PassInv /\ pass.at = "loading" /\ pass.entries = << >>
          /\ EndPass(pass.failed) /\ UNCHANGED <<present, removed, columns, catalogOf>>
        BY <1>5 DEF StopLoading, ResourceInv, PassInv
    <2>2. ASSUME NEW p \in pass.due \cap present, pass.dry = FALSE, pass.processed < pass.limit
          PROVE  p <= pass.cursor
        <3>1. Batch = {}
            BY <1>0, <1>5, <2>2 DEF StopLoading, PassRecords
        <3>2. ~ (p > pass.cursor)
            BY <2>1, <2>2, <3>1, BatchIs
        <3>3. p \in Nat /\ pass.cursor \in Nat
            BY <1>0, <2>2, ResourceConstants DEF ResourceTypes, PassRecords
        <3> QED  BY <3>2, <3>3
    <2> QED  BY <2>1, <2>2, EndKeeps
<1>6. CASE NextBatch
    <2>1. /\ PassInv /\ pass.at = "listing" /\ pass.entries = << >>
          /\ UNCHANGED <<present, removed, columns, catalogOf>> /\ pass.last \in BOOLEAN
        BY <1>0, <1>6 DEF NextBatch, ResourceInv, PassInv, PassRecords
    <2>2. CASE pass.last = TRUE
        <3>1. EndPass(pass.failed)
            BY <1>6, <2>2 DEF NextBatch
        <3>2. \A p \in pass.due \cap present : p <= pass.cursor
            BY <2>1, <2>2 DEF PassInv
        <3> QED  BY <2>1, <3>1, <3>2, EndKeeps
    <2>3. CASE pass.last = FALSE
        <3>1. pass' = [pass EXCEPT !.at = "loading", !.changed = {}] /\ finished' = finished
            BY <1>6, <2>3 DEF NextBatch
        <3>2. pass' \in PassRecords
            BY <1>0, <3>1 DEF PassRecords
        <3>3. ResourceTypes'
            BY <1>0, <2>1, <3>1, <3>2 DEF ResourceTypes
        <3>4. /\ pass'.at = "loading" /\ pass'.dry = pass.dry /\ pass'.force = pass.force
              /\ pass'.cursor = pass.cursor /\ pass'.last = pass.last /\ pass'.changed = {}
              /\ pass'.entries = pass.entries /\ pass'.failed = pass.failed
              /\ pass'.due = pass.due
            BY <1>0, <3>1 DEF PassRecords
        <3>5. PassInv'
            BY <2>1, <3>4 DEF PassInv, ColumnsKnow, CatalogKnows, LacksColumns, ToList, Readable
        <3> QED  BY <2>1, <3>1, <3>3, <3>5 DEF ResourceInv, ReportedPassIsDone
    <2> QED  BY <2>1, <2>2, <2>3
<1>7. CASE PassDies
    <2>1. ResourceTypes'
        BY <1>0, <1>7, NoPassIs DEF PassDies, ResourceTypes
    <2> QED  BY <1>7, <2>1, NoPassIs DEF PassDies, ResourceInv, ReportedPassIsDone
<1>8. CASE UNCHANGED resourceVars
    BY <1>8 DEF resourceVars, ResourceInv, ResourceTypes, PassInv, ReportedPassIsDone,
                ColumnsKnow, CatalogKnows, LacksColumns, ToList
<1> QED
    BY <1>1, <1>2, <1>3, <1>4, <1>5, <1>6, <1>7, <1>8, LoadKeeps, SaveKeeps, ReadKeeps,
       ListingKeeps DEF ResourceNext

\* A run that reports to the end has filled the rows that were due when it began.
THEOREM PassesStayDone == ResourceSpec => []ReportedPassIsDone
<1>1. ResourceInit => ResourceInv
    <2> SUFFICES ASSUME ResourceInit PROVE ResourceInv
        OBVIOUS
    <2>1. NotListed \in CatalogRows /\ {} \in SUBSET Columns
        BY DEF NotListed, CatalogRows
    <2>2. ResourceTypes
        BY <2>1, NoPassIs DEF ResourceInit, ResourceTypes, NoReport
    <2> QED  BY <2>2, NoPassIs DEF ResourceInit, ResourceInv, ReportedPassIsDone, NoReport
<1>2. ResourceInv => ReportedPassIsDone
    BY DEF ResourceInv
<1> QED  BY <1>1, <1>2, ResourceStep, PTL DEF ResourceSpec

-----------------------------------------------------------------------------
(* The pages of the event list *)

\* The condition of a query below a cursor.
Under(c, r) == c = FirstPage \/ r.at < c.at \/ (r.at = c.at /\ r.id < c.id)

LEMMA BelowIsUnder == \A c : Below(c) = {r \in feed : Under(c, r)}
BY DEF Below, Under

LEMMA RowNumbers ==
    ASSUME NEW r \in FeedRows
    PROVE  r.at \in Nat /\ r.id \in Nat \ {0} /\ r.matches \in BOOLEAN
<1>1. MaxStored \in Nat \ {0} /\ Instants \subseteq Nat
    BY EventPagingAssumption
<1>2. r.at \in Instants /\ r.id \in 1 .. MaxStored
    BY DEF FeedRows
<1>3. r.matches \in BOOLEAN
    BY DEF FeedRows
<1>4. r.id \in Nat \ {0}
    BY <1>1, <1>2
<1> QED  BY <1>1, <1>2, <1>3, <1>4

\* Newer orders rows strictly.
LEMMA NewerOrders ==
    ASSUME NEW a \in FeedRows, NEW b \in FeedRows, NEW c \in FeedRows
    PROVE  /\ ~ Newer(a, a)
           /\ ~ (Newer(a, b) /\ Newer(b, a))
           /\ Newer(a, b) /\ Newer(b, c) => Newer(a, c)
BY RowNumbers DEF Newer

\* What a query below a row's place gives is older, and what it leaves out is not.
LEMMA UnderIsOlder ==
    ASSUME NEW a \in FeedRows, NEW b \in FeedRows
    PROVE  /\ Under([at |-> a.at, id |-> a.id], b) <=> Newer(a, b)
           /\ [at |-> a.at, id |-> a.id] # FirstPage
<1> DEFINE c == [at |-> a.at, id |-> a.id]
<1>1. c.at = a.at /\ c.id = a.id
    OBVIOUS
<1>2. c # FirstPage
    BY RowNumbers DEF FirstPage
<1> HIDE DEF c
<1>3. Under(c, b) <=> Newer(a, b)
    BY <1>1, <1>2, RowNumbers DEF Under, Newer
<1> QED  BY <1>2, <1>3 DEF c

\* An ordering of the rows has each of them at one place, and before it those newer.
LEMMA NewestPlaces ==
    ASSUME NEW sorted \in SUBSET FeedRows, IsFiniteSet(sorted), NEW s \in Newest(sorted)
    PROVE  /\ Cardinality(sorted) \in Nat
           /\ s \in Seq(sorted) /\ Len(s) = Cardinality(sorted) /\ DOMAIN s = 1 .. Len(s)
           /\ \A r \in sorted : \E p \in 1 .. Len(s) : s[p] = r
           /\ \A i, j \in 1 .. Len(s) : i < j => Newer(s[i], s[j])
<1> DEFINE n == Cardinality(sorted)
<1>1. n \in Nat
    BY FS_CardinalityType
<1>2. /\ s \in [1 .. n -> sorted] /\ Range(s) = sorted
      /\ \A i, j \in DOMAIN s : i < j => Newer(s[i], s[j])
    BY DEF Newest
<1> HIDE DEF n
<1>3. s \in Seq(sorted)
    BY <1>1, <1>2, SeqDef
<1>4. DOMAIN s = 1 .. n
    BY <1>2
<1>5. Len(s) = n
    BY <1>1, <1>3, <1>4, LenProperties
<1>6. \A r \in sorted : \E p \in 1 .. n : s[p] = r
    BY <1>2, <1>4 DEF Range
<1> QED  BY <1>1, <1>2, <1>3, <1>4, <1>5, <1>6 DEF n

LEMMA NewerBefore ==
    ASSUME NEW sorted \in SUBSET FeedRows, IsFiniteSet(sorted), NEW s \in Newest(sorted),
           NEW p \in 1 .. Len(s)
    PROVE  Cardinality({q \in sorted : Newer(q, s[p])}) = p - 1
<1> DEFINE before == {q \in sorted : Newer(q, s[p])}
           f == [k \in 1 .. p - 1 |-> s[k]]
<1>1. /\ Len(s) \in Nat /\ s \in Seq(sorted) /\ DOMAIN s = 1 .. Len(s)
      /\ \A r \in sorted : \E k \in 1 .. Len(s) : s[k] = r
      /\ \A i, j \in 1 .. Len(s) : i < j => Newer(s[i], s[j])
    BY NewestPlaces
<1>2. \A k \in 1 .. Len(s) : s[k] \in sorted /\ s[k] \in FeedRows
    BY <1>1
<1>3. p - 1 \in Nat /\ \A k \in 1 .. p - 1 : k \in 1 .. Len(s) /\ k < p
    BY <1>1
<1>4. f \in [1 .. p - 1 -> before]
    BY <1>1, <1>2, <1>3
<1>5. \A q \in before : \E k \in 1 .. p - 1 : f[k] = q
    <2> SUFFICES ASSUME NEW q \in before PROVE \E k \in 1 .. p - 1 : f[k] = q
        OBVIOUS
    <2>1. PICK k \in 1 .. Len(s) : s[k] = q
        BY <1>1
    <2>2. Newer(s[k], s[p])
        BY <2>1
    <2>3. k # p
        BY <2>2, <1>2, NewerOrders
    <2>4. ~ (p < k)
        BY <2>2, <1>1, <1>2, NewerOrders
    <2>5. k \in 1 .. p - 1
        BY <2>3, <2>4, <1>1
    <2> QED  BY <2>1, <2>5
<1>6. \A i, j \in 1 .. p - 1 : f[i] = f[j] => i = j
    <2> SUFFICES ASSUME NEW i \in 1 .. p - 1, NEW j \in 1 .. p - 1, s[i] = s[j] PROVE i = j
        OBVIOUS
    <2>1. ~ Newer(s[i], s[j]) /\ ~ Newer(s[j], s[i])
        BY <1>2, <1>3, NewerOrders
    <2>2. ~ (i < j) /\ ~ (j < i)
        BY <2>1, <1>1, <1>3
    <2> QED  BY <2>2
<1>7. f \in Bijection(1 .. p - 1, before)
    <2> HIDE DEF f, before
    <2> QED  BY <1>4, <1>5, <1>6 DEF Bijection, Injection, Surjection, IsInjective
<1>8. IsFiniteSet(1 .. p - 1) /\ Cardinality(1 .. p - 1) = p - 1
    BY <1>3, FS_Interval
<1> HIDE DEF f, before
<1>9. ExistsBijection(1 .. p - 1, before)
    BY <1>7 DEF ExistsBijection
<1>10. Cardinality(before) = Cardinality(1 .. p - 1)
    BY <1>8, <1>9, FS_Bijection
<1> QED  BY <1>8, <1>10 DEF before

\* The first rows of a list.
LEMMA FirstOfRows ==
    ASSUME NEW X, NEW s \in Seq(X), NEW n \in Nat
    PROVE  /\ FirstRows(s, n) \in Seq(X)
           /\ Len(FirstRows(s, n)) = IF Len(s) < n THEN Len(s) ELSE n
           /\ Len(FirstRows(s, n)) \in 0 .. Len(s)
           /\ \A i \in 1 .. Len(FirstRows(s, n)) : FirstRows(s, n)[i] = s[i]
<1> DEFINE m == IF Len(s) < n THEN Len(s) ELSE n
<1>1. Len(s) \in Nat /\ m \in 0 .. Len(s)
    OBVIOUS
<1>2. FirstRows(s, n) = SubSeq(s, 1, m)
    BY DEF FirstRows
<1> HIDE DEF m
<1>3. SubSeq(s, 1, m) \in Seq(X) /\ Len(SubSeq(s, 1, m)) = m
      /\ \A i \in 1 .. m : SubSeq(s, 1, m)[i] = s[i]
    BY <1>1
<1> QED  BY <1>1, <1>2, <1>3 DEF m

\* What retention is to leave alone, and of that what a scan is to give.
Spared(r) == r.at >= cutoff
Awaited(r) == r \in scanFrom /\ ~ r.matches /\ r.at >= cutoff

PagingTypes ==
    /\ feed \subseteq FeedRows /\ IsFiniteSet(feed)
    /\ storedCount \in 0 .. MaxStored /\ cutoff \in Nat /\ scanned \in 0 .. MaxScan
    /\ collected \in Seq(FeedRows) /\ listed \in Seq(FeedRows)
    /\ walkFrom \subseteq FeedRows /\ scanFrom \subseteq FeedRows
    /\ walk \in {"walking", "ended", "page"}
    /\ walk # "walking" => query = "none"

\* A walk has gone down to its cursor, and what was there when it began and is spared
\* is listed or lies below.
WalkInv ==
    /\ walk # "page" =>
           \A i, j \in 1 .. Len(listed) : i < j => Newer(listed[i], listed[j])
    /\ walk = "walking" =>
           /\ \A i \in 1 .. Len(listed) : ~ Under(cursor, listed[i])
           /\ cursor # FirstPage => cursor.at \in Nat /\ cursor.id \in Nat
           /\ cursor # FirstPage => \A r \in walkFrom : Spared(r) =>
                  \/ \E i \in 1 .. Len(listed) : listed[i] = r
                  \/ r \in feed /\ Under(cursor, r)
    /\ walk = "ended" => \A r \in walkFrom : Spared(r) =>
           \E i \in 1 .. Len(listed) : listed[i] = r

\* What a scan wants is still there, is collected unless so many rows are newer that its
\* place is yet to come, and comes before every older row that was collected.
ScanInv ==
    \A r \in FeedRows : Awaited(r) =>
        /\ r \in feed
        /\ \/ \E k \in 1 .. Len(collected) : collected[k] = r
           \/ Cardinality({q \in feed : Newer(q, r)}) >= scanned
        /\ \A i \in 1 .. Len(collected) : Newer(r, collected[i]) =>
               \E k \in 1 .. i - 1 : collected[k] = r

PagingInv == PagingTypes /\ WalkInv /\ ScanInv

\* Storing a row and deleting one that is not spared.
LEMMA TableKeepsPaging ==
    ASSUME PagingInv, UNCHANGED <<query, scanVars, walkVars>>, NEW leaving, NEW added,
           feed' \subseteq FeedRows, IsFiniteSet(feed'), storedCount' \in 0 .. MaxStored,
           cutoff' \in Nat, cutoff <= cutoff', feed' = (feed \ leaving) \cup added,
           \A r \in leaving : r \in FeedRows /\ r.at < cutoff'
    PROVE  PagingInv'
<1>0. /\ PagingTypes /\ WalkInv /\ ScanInv /\ cutoff \in Nat
      /\ walkFrom \subseteq FeedRows /\ scanFrom \subseteq FeedRows
    BY DEF PagingInv, PagingTypes
<1>1. PagingTypes'
    BY <1>0 DEF PagingTypes, scanVars, walkVars
<1>2. ASSUME NEW r \in FeedRows, r.at >= cutoff'
      PROVE  /\ r.at >= cutoff /\ r \notin leaving /\ (r \in feed => r \in feed')
    <2>1. r.at \in Nat
        BY RowNumbers
    <2>2. r.at >= cutoff
        BY <1>0, <1>2, <2>1
    <2>3. r \notin leaving
        BY <1>2, <2>1
    <2> QED  BY <2>2, <2>3
<1>3. WalkInv'
    <2>1. UNCHANGED <<walk, cursor, listed, walkFrom>>
        BY DEF walkVars
    <2>2. \A r \in walkFrom : Spared(r)' => Spared(r) /\ (r \in feed => r \in feed')
        BY <1>0, <1>2 DEF Spared
    <2> QED  BY <1>0, <2>1, <2>2 DEF WalkInv, Under
<1>4. ScanInv'
    <2> SUFFICES ASSUME NEW r \in FeedRows, r \in scanFrom, ~ r.matches, r.at >= cutoff'
                 PROVE  /\ r \in feed'
                        /\ \/ \E k \in 1 .. Len(collected) : collected[k] = r
                           \/ Cardinality({q \in feed' : Newer(q, r)}) >= scanned
                        /\ \A i \in 1 .. Len(collected) : Newer(r, collected[i]) =>
                               \E k \in 1 .. i - 1 : collected[k] = r
        BY DEF ScanInv, Awaited, scanVars
    <2>1. Awaited(r) /\ r \in feed => r \in feed'
        BY <1>2 DEF Awaited
    <2>2. Awaited(r)
        BY <1>2 DEF Awaited
    <2>3. /\ r \in feed'
          /\ \/ \E k \in 1 .. Len(collected) : collected[k] = r
             \/ Cardinality({q \in feed : Newer(q, r)}) >= scanned
          /\ \A i \in 1 .. Len(collected) : Newer(r, collected[i]) =>
                 \E k \in 1 .. i - 1 : collected[k] = r
        BY <1>0, <2>1, <2>2 DEF ScanInv
    <2>4. {q \in feed : Newer(q, r)} \subseteq {q \in feed' : Newer(q, r)}
        <3> SUFFICES ASSUME NEW q \in feed, Newer(q, r) PROVE q \in feed'
            OBVIOUS
        <3>1. q \in FeedRows
            BY <1>0 DEF PagingTypes
        <3>2. q.at >= r.at /\ q.at \in Nat /\ r.at \in Nat
            BY <3>1, RowNumbers DEF Newer
        <3>3. q.at >= cutoff'
            BY <3>2
        <3> QED  BY <1>2, <3>1, <3>3
    <2>5. /\ Cardinality({q \in feed : Newer(q, r)}) \in Nat
          /\ Cardinality({q \in feed' : Newer(q, r)}) \in Nat
          /\ Cardinality({q \in feed : Newer(q, r)}) <= Cardinality({q \in feed' : Newer(q, r)})
        <3>1. IsFiniteSet({q \in feed' : Newer(q, r)})
            BY FS_Subset
        <3>2. IsFiniteSet({q \in feed : Newer(q, r)})
            BY <2>4, <3>1, FS_Subset
        <3> QED  BY <2>4, <3>1, <3>2, FS_Subset, FS_CardinalityType
    <2>6. scanned \in Nat
        BY <1>0, EventPagingAssumption DEF PagingTypes
    <2> QED  BY <2>3, <2>5, <2>6
<1> QED  BY <1>1, <1>3, <1>4 DEF PagingInv

\* Nothing of the walk, the scan and the table changes.
LEMMA StillPages ==
    ASSUME PagingInv, UNCHANGED <<tableVars, scanVars, walkVars>>, walk # "walking" => query' = "none"
    PROVE  PagingInv'
<1>1. UNCHANGED <<feed, storedCount, cutoff, scanned, collected, scanFrom, walk, cursor, listed, walkFrom>>
    BY DEF tableVars, scanVars, walkVars
<1>2. PagingTypes'
    BY <1>1 DEF PagingInv, PagingTypes
<1>3. WalkInv'
    BY <1>1 DEF PagingInv, WalkInv, Under, Newer, Spared
<1>4. ScanInv'
    BY <1>1 DEF PagingInv, ScanInv, Awaited, Newer
<1> QED  BY <1>2, <1>3, <1>4 DEF PagingInv

LEMMA BeginsPaging ==
    ASSUME PagingInv, BeginRequest \/ BeginUnloaded
    PROVE  PagingInv'
<1>1. /\ UNCHANGED <<tableVars, walkVars>> /\ walk = "walking"
      /\ \E hides : TakePath(hides)
    BY DEF BeginRequest, BeginUnloaded
<1>2. /\ scanned' = 0 /\ collected' = <<>> /\ (scanFrom' = feed \/ scanFrom' = {})
      /\ UNCHANGED <<feed, storedCount, cutoff, walk, cursor, listed, walkFrom>>
    BY <1>1 DEF TakePath, tableVars, walkVars
<1>3. PagingTypes'
    <2>1. 0 \in 0 .. MaxScan
        BY EventPagingAssumption
    <2> QED  BY <1>1, <1>2, <2>1 DEF PagingInv, PagingTypes
<1>4. WalkInv'
    BY <1>2 DEF PagingInv, WalkInv, Under, Newer, Spared
<1>5. ScanInv'
    <2> SUFFICES ASSUME NEW r \in FeedRows, Awaited(r)'
                 PROVE  /\ r \in feed
                        /\ Cardinality({q \in feed : Newer(q, r)}) >= 0
                        /\ Len(collected') = 0
        BY <1>2 DEF ScanInv, Newer
    <2>1. r \in feed
        BY <1>2 DEF Awaited
    <2>2. Cardinality({q \in feed : Newer(q, r)}) \in Nat
        BY FS_Subset, FS_CardinalityType DEF PagingInv, PagingTypes
    <2> QED  BY <1>2, <2>1, <2>2
<1> QED  BY <1>3, <1>4, <1>5 DEF PagingInv

\* A page is what there is below the cursor, newest first, up to the limit.
LEMMA AnswerKeepsPaging ==
    ASSUME PagingInv, AnswerPage
    PROVE  PagingInv'
<1>0. /\ feed \subseteq FeedRows /\ IsFiniteSet(feed) /\ listed \in Seq(FeedRows)
      /\ walkFrom \subseteq FeedRows /\ PageLimit \in Nat \ {0}
      /\ walk = "walking" /\ query' = "none" /\ Len(listed) \in Nat
      /\ UNCHANGED <<feed, storedCount, cutoff, scanned, collected, scanFrom>>
    BY EventPagingAssumption DEF PagingInv, PagingTypes, AnswerPage, tableVars, scanVars
<1> DEFINE below == Below(cursor)
<1>1. below \in SUBSET FeedRows /\ below \subseteq feed /\ IsFiniteSet(below)
      /\ \A r : r \in below <=> r \in feed /\ Under(cursor, r)
    BY <1>0, BelowIsUnder, FS_Subset
<1>2. PICK sorted \in Newest(below) :
          LET given == FirstRows(sorted, PageLimit)
              full == Len(given) = PageLimit
          IN  /\ Receive(given, IF full THEN [at |-> Last(given).at, id |-> Last(given).id] ELSE cursor)
              /\ walk' = IF full THEN "walking" ELSE "ended"
    BY DEF AnswerPage
<1> HIDE DEF below
<1> DEFINE given == FirstRows(sorted, PageLimit)
           n == Len(given)
           full == n = PageLimit
<1>3. /\ sorted \in Seq(below) /\ Len(sorted) \in Nat
      /\ \A r \in below : \E p \in 1 .. Len(sorted) : sorted[p] = r
      /\ \A i, j \in 1 .. Len(sorted) : i < j => Newer(sorted[i], sorted[j])
    BY <1>1, NewestPlaces
<1>4. /\ given \in Seq(below) /\ n = (IF Len(sorted) < PageLimit THEN Len(sorted) ELSE PageLimit)
      /\ n \in 0 .. Len(sorted) /\ \A i \in 1 .. n : given[i] = sorted[i]
    BY <1>0, <1>3, FirstOfRows
<1>5. /\ listed' = listed \o given
      /\ walkFrom' = IF cursor = FirstPage THEN feed ELSE walkFrom
      /\ cursor' = (IF full THEN [at |-> Last(given).at, id |-> Last(given).id] ELSE cursor)
      /\ walk' = IF full THEN "walking" ELSE "ended"
    BY <1>2 DEF Receive
<1> HIDE DEF given, full
<1>6. given \in Seq(FeedRows) /\ n \in Nat
      /\ \A i \in 1 .. n : given[i] \in FeedRows /\ given[i] \in feed /\ Under(cursor, given[i])
    <2>1. \A i \in 1 .. n : given[i] \in below
        BY <1>4
    <2>2. given \in Seq(FeedRows)
        BY <1>1, <1>4
    <2> QED  BY <1>1, <1>4, <2>1, <2>2
<1>7. /\ listed' \in Seq(FeedRows) /\ Len(listed') = Len(listed) + n
      /\ \A i \in 1 .. Len(listed) : listed'[i] = listed[i] /\ listed[i] \in FeedRows
      /\ \A i \in 1 .. n : listed'[Len(listed) + i] = given[i]
    BY <1>0, <1>5, <1>6
<1>8. \A i, j \in 1 .. n : i < j => Newer(given[i], given[j])
    <2> HIDE DEF n
    <2>1. \A i \in 1 .. n : i \in 1 .. Len(sorted)
        BY <1>3, <1>4
    <2> QED  BY <1>3, <1>4, <2>1
<1>9. ASSUME NEW i \in 1 .. Len(listed), NEW r \in FeedRows, Under(cursor, r)
      PROVE  Newer(listed[i], r)
    <2>1. ~ Under(cursor, listed[i])
        BY <1>0 DEF PagingInv, WalkInv
    <2>2. listed[i] \in FeedRows
        BY <1>7
    <2>3. cursor # FirstPage
        BY <2>1 DEF Under
    <2>4. \/ r.at < cursor.at
          \/ r.at = cursor.at /\ r.id < cursor.id
        BY <1>9, <2>3 DEF Under
    <2>5. PICK a, b : a = cursor.at /\ b = cursor.id
        OBVIOUS
    <2>6. a \in Nat /\ b \in Nat
        BY <1>0, <2>3, <2>5 DEF PagingInv, WalkInv
    <2>7. ~ (listed[i].at < a) /\ ~ (listed[i].at = a /\ listed[i].id < b)
        BY <2>1, <2>5 DEF Under
    <2> QED  BY <1>9, <2>2, <2>4, <2>5, <2>6, <2>7, RowNumbers DEF Newer
<1>10. \A i, j \in 1 .. Len(listed') : i < j => Newer(listed'[i], listed'[j])
    <2> SUFFICES ASSUME NEW i \in 1 .. Len(listed'), NEW j \in 1 .. Len(listed'), i < j
                 PROVE  Newer(listed'[i], listed'[j])
        OBVIOUS
    <2>1. CASE j <= Len(listed)
        <3>1. i \in 1 .. Len(listed) /\ j \in 1 .. Len(listed)
            BY <2>1, <1>0, <1>6, <1>7
        <3>2. Newer(listed[i], listed[j])
            BY <3>1, <1>0 DEF PagingInv, WalkInv
        <3> QED  BY <3>1, <3>2, <1>7
    <2>2. CASE i <= Len(listed) /\ j > Len(listed)
        <3>1. i \in 1 .. Len(listed) /\ j - Len(listed) \in 1 .. n
            BY <2>2, <1>0, <1>6, <1>7
        <3>2. listed'[j] = given[j - Len(listed)]
            BY <3>1, <1>0, <1>7
        <3> QED  BY <3>1, <3>2, <1>6, <1>7, <1>9
    <2>3. CASE i > Len(listed)
        <3>1. i - Len(listed) \in 1 .. n /\ j - Len(listed) \in 1 .. n
              /\ i - Len(listed) < j - Len(listed)
            BY <2>3, <1>0, <1>6, <1>7
        <3>2. listed'[i] = given[i - Len(listed)] /\ listed'[j] = given[j - Len(listed)]
            BY <3>1, <1>0, <1>7
        <3> QED  BY <3>1, <3>2, <1>8
    <2> QED  BY <2>1, <2>2, <2>3, <1>0
\* What was there when the walk began, and is spared, is listed or still below.
<1>11. ASSUME NEW r \in walkFrom', Spared(r)
       PROVE  (\E i \in 1 .. Len(listed) : listed[i] = r) \/ r \in below
    <2>1. CASE cursor = FirstPage
        <3>1. r \in feed /\ Under(cursor, r)
            BY <1>5, <1>11, <2>1 DEF Under
        <3> QED  BY <1>1, <3>1
    <2>2. CASE cursor # FirstPage
        BY <1>0, <1>1, <1>5, <1>11, <2>2 DEF PagingInv, WalkInv
    <2> QED  BY <2>1, <2>2
<1>12. ASSUME NEW r \in FeedRows, \E i \in 1 .. n : given[i] = r
       PROVE  \E i \in 1 .. Len(listed') : listed'[i] = r
    <2>1. PICK i \in 1 .. n : given[i] = r
        BY <1>12
    <2>2. Len(listed) + i \in 1 .. Len(listed')
        BY <1>0, <1>6, <1>7
    <2> QED  BY <1>7, <2>1, <2>2
<1>13. ASSUME NEW r, \E i \in 1 .. Len(listed) : listed[i] = r
       PROVE  \E i \in 1 .. Len(listed') : listed'[i] = r
    <2>1. PICK i \in 1 .. Len(listed) : listed[i] = r
        BY <1>13
    <2>2. i \in 1 .. Len(listed')
        BY <1>0, <1>6, <1>7
    <2> QED  BY <1>7, <2>1, <2>2
<1>14. CASE full
    <2> DEFINE last == given[n]
    <2>1. n = PageLimit /\ n \in 1 .. n /\ last \in FeedRows
        BY <1>0, <1>6, <1>14 DEF full
    <2>2. Last(given) = last
        BY DEF Last
    <2>3. cursor' = [at |-> last.at, id |-> last.id] /\ walk' = "walking"
        BY <1>5, <1>14, <2>2
    <2> HIDE DEF last
    <2>4. /\ cursor' # FirstPage /\ \A r \in FeedRows : Under(cursor', r) <=> Newer(last, r)
          /\ cursor'.at \in Nat /\ cursor'.id \in Nat
        BY <2>1, <2>3, UnderIsOlder, RowNumbers
    <2>5. ASSUME NEW i \in 1 .. Len(listed') PROVE ~ Under(cursor', listed'[i])
        <3>1. listed'[i] \in FeedRows
            BY <1>7
        <3>2. Newer(listed'[i], last) \/ listed'[i] = last
            <4>1. Len(listed') \in 1 .. Len(listed') /\ listed'[Len(listed')] = last
                BY <1>0, <1>6, <1>7, <2>1 DEF last
            <4>2. CASE i = Len(listed')
                BY <4>1, <4>2
            <4>3. CASE i < Len(listed')
                BY <1>10, <4>1, <4>3
            <4>4. Len(listed') \in Nat
                BY <1>0, <1>6, <1>7
            <4> QED  BY <4>2, <4>3, <4>4
        <3>3. ~ Newer(last, listed'[i])
            BY <2>1, <3>1, <3>2, NewerOrders
        <3> QED  BY <2>4, <3>1, <3>3
    <2>6. ASSUME NEW r \in walkFrom', Spared(r)
          PROVE  (\E i \in 1 .. Len(listed') : listed'[i] = r) \/ (r \in feed /\ Under(cursor', r))
        <3>1. CASE r \in below
            <4>1. PICK p \in 1 .. Len(sorted) : sorted[p] = r
                BY <1>3, <3>1
            <4>2. CASE p <= n
                <5>1. p \in 1 .. n
                    <6> HIDE DEF n
                    <6> QED  BY <1>3, <1>6, <4>1, <4>2
                <5>2. given[p] = r
                    BY <1>4, <4>1, <5>1
                <5>3. r \in FeedRows
                    BY <1>1, <3>1
                <5> QED  BY <5>1, <5>2, <5>3, <1>12
            <4>3. CASE n < p
                <5>1. sorted[n] = last
                    BY <1>4, <2>1 DEF last
                <5>2. n \in 1 .. Len(sorted)
                    <6> HIDE DEF n
                    <6> QED  BY <1>3, <1>4, <2>1
                <5>3. Newer(sorted[n], sorted[p])
                    <6> HIDE DEF n
                    <6> QED  BY <1>3, <4>1, <4>3, <5>2
                <5>4. Newer(last, r) /\ r \in FeedRows /\ r \in feed /\ r \in below
                    BY <1>1, <3>1, <4>1, <5>1, <5>3
                <5> QED  BY <2>4, <5>4
            <4>4. p <= n \/ n < p
                <5> HIDE DEF n
                <5> QED  BY <1>3, <1>6, <4>1
            <4> QED  BY <4>2, <4>3, <4>4
        <3> QED  BY <1>11, <1>13, <2>6, <3>1
    <2>7. WalkInv'
        BY <1>0, <1>10, <2>3, <2>4, <2>5, <2>6 DEF WalkInv, Spared
    <2> QED
        <3>1. PagingTypes'
            BY <1>0, <1>5, <1>7, <2>3 DEF PagingInv, PagingTypes
        <3>2. ScanInv'
            BY <1>0 DEF PagingInv, ScanInv, Awaited, Newer
        <3> QED  BY <2>7, <3>1, <3>2 DEF PagingInv
<1>15. CASE ~ full
    <2>1. n = Len(sorted) /\ walk' = "ended"
        BY <1>0, <1>4, <1>5, <1>15 DEF full
    <2>2. ASSUME NEW r \in walkFrom', Spared(r)
          PROVE  \E i \in 1 .. Len(listed') : listed'[i] = r
        <3>1. CASE r \in below
            <4>1. PICK p \in 1 .. n : sorted[p] = r
                BY <1>3, <2>1, <3>1
            <4>2. given[p] = r /\ r \in FeedRows
                BY <1>1, <1>4, <3>1, <4>1
            <4> QED  BY <4>2, <1>12
        <3> QED  BY <1>11, <1>13, <2>2, <3>1
    <2>3. WalkInv'
        BY <1>0, <1>10, <2>1, <2>2 DEF WalkInv, Spared
    <2>4. PagingTypes'
        BY <1>0, <1>5, <1>7, <2>1 DEF PagingInv, PagingTypes
    <2>5. ScanInv'
        BY <1>0 DEF PagingInv, ScanInv, Awaited, Newer
    <2> QED  BY <2>3, <2>4, <2>5 DEF PagingInv
<1> QED  BY <1>14, <1>15

\* A batch of a scan takes up where its offset stands.
LEMMA BatchKeepsPaging ==
    ASSUME PagingInv, ScanRows
    PROVE  PagingInv'
<1>0. /\ feed \in SUBSET FeedRows /\ IsFiniteSet(feed) /\ collected \in Seq(FeedRows)
      /\ ScanSize \in Nat \ {0} /\ MaxScan \in Nat /\ scanned \in 0 .. MaxScan
      /\ UNCHANGED <<feed, storedCount, cutoff, scanFrom, walk, cursor, listed, walkFrom>>
    BY EventPagingAssumption DEF PagingInv, PagingTypes, ScanRows, tableVars, walkVars
<1>1. PICK sorted \in Newest(feed) :
          LET size == IF ScanSize < MaxScan - scanned THEN ScanSize ELSE MaxScan - scanned
              left == SubSeq(sorted, scanned + 1, Cardinality(feed))
              piece == FirstRows(left, size)
          IN  /\ \E kept \in Newest({r \in Range(piece) : ~r.matches}) : collected' = collected \o kept
              /\ scanned' = scanned + Len(piece)
    BY DEF ScanRows
<1> DEFINE size == IF ScanSize < MaxScan - scanned THEN ScanSize ELSE MaxScan - scanned
           left == SubSeq(sorted, scanned + 1, Cardinality(feed))
           piece == FirstRows(left, size)
           unhidden == {r \in Range(piece) : ~r.matches}
           total == Len(sorted)
           m == Len(piece)
<1>2. size \in Nat /\ size <= MaxScan - scanned
    BY <1>0
<1>3. /\ sorted \in Seq(feed) /\ total = Cardinality(feed) /\ total \in Nat
      /\ \A r \in feed : \E p \in 1 .. total : sorted[p] = r
      /\ \A i, j \in 1 .. total : i < j => Newer(sorted[i], sorted[j])
    BY <1>0, NewestPlaces
<1>4. /\ left \in Seq(feed)
      /\ Len(left) = (IF scanned < total THEN total - scanned ELSE 0)
      /\ \A i \in 1 .. Len(left) : left[i] = sorted[scanned + i]
    <2> HIDE DEF total
    <2>1. left = SubSeq(sorted, scanned + 1, total)
        BY <1>3
    <2>2. left \in Seq(feed)
        BY <1>0, <1>3, <2>1 DEF total
    <2>3. Len(left) = (IF scanned < total THEN total - scanned ELSE 0)
        BY <1>0, <1>3, <2>1 DEF total
    <2>4. \A i \in 1 .. Len(left) : left[i] = sorted[scanned + i]
        BY <1>0, <1>3, <2>1, <2>3 DEF total
    <2> QED  BY <2>2, <2>3, <2>4
<1> HIDE DEF left, size
<1>5. /\ piece \in Seq(feed) /\ m = (IF Len(left) < size THEN Len(left) ELSE size)
      /\ m \in 0 .. Len(left) /\ \A i \in 1 .. m : piece[i] = left[i]
    BY <1>2, <1>4, FirstOfRows
<1> HIDE DEF piece
<1>6. \A i \in 1 .. m : piece[i] = sorted[scanned + i]
    <2> HIDE DEF m
    <2>1. \A i \in 1 .. m : i \in 1 .. Len(left)
        BY <1>4, <1>5
    <2> QED  BY <1>4, <1>5, <2>1
<1> HIDE DEF m, total
<1>7. m \in Nat /\ m <= size /\ scanned + m \in 0 .. MaxScan
    BY <1>0, <1>2, <1>4, <1>5
<1>8. /\ Range(piece) = {piece[i] : i \in 1 .. m} /\ IsFiniteSet(Range(piece))
      /\ Range(piece) \subseteq FeedRows
    <2>1. DOMAIN piece = 1 .. m
        BY <1>5 DEF m
    <2>2. Range(piece) = {piece[i] : i \in 1 .. m}
        BY <2>1 DEF Range
    <2>3. Range(piece) \subseteq feed
        BY <1>5, <2>2 DEF m
    <2>4. IsFiniteSet(Range(piece))
        BY <1>0, <2>3, FS_Subset
    <2> QED  BY <1>0, <2>2, <2>3, <2>4
<1>9. unhidden \in SUBSET FeedRows /\ IsFiniteSet(unhidden)
    BY <1>8, FS_Subset
<1>10. PICK kept \in Newest(unhidden) : collected' = collected \o kept
    BY <1>1 DEF unhidden, piece, left, size
<1>11. scanned' = scanned + m
    BY <1>1 DEF m, piece, left, size
<1> HIDE DEF unhidden
<1>12. /\ kept \in Seq(unhidden) /\ Len(kept) \in Nat
       /\ \A r \in unhidden : \E p \in 1 .. Len(kept) : kept[p] = r
       /\ \A i, j \in 1 .. Len(kept) : i < j => Newer(kept[i], kept[j])
    BY <1>9, NewestPlaces
<1>13. kept \in Seq(FeedRows) /\ \A i \in 1 .. Len(kept) : kept[i] \in unhidden /\ kept[i] \in FeedRows
    BY <1>9, <1>12
<1>14. /\ collected' \in Seq(FeedRows) /\ Len(collected') = Len(collected) + Len(kept)
       /\ Len(collected) \in Nat
       /\ \A i \in 1 .. Len(collected) : collected'[i] = collected[i]
       /\ \A i \in 1 .. Len(kept) : collected'[Len(collected) + i] = kept[i]
    BY <1>0, <1>10, <1>13
<1>15. PagingTypes'
    <2>1. walk' # "walking" => query' = "none"
        BY DEF PagingInv, PagingTypes, ScanRows, walkVars
    <2> QED  BY <1>0, <1>7, <1>11, <1>14, <2>1 DEF PagingInv, PagingTypes
<1>16. WalkInv'
    BY <1>0 DEF PagingInv, WalkInv, Under, Newer, Spared
<1>17. ASSUME NEW r \in FeedRows, Awaited(r), NEW p \in 1 .. total, sorted[p] = r, p <= scanned
       PROVE  \E k \in 1 .. Len(collected) : collected[k] = r
    <2>1. Cardinality({q \in feed : Newer(q, r)}) = p - 1
        BY <1>0, <1>17, NewerBefore DEF total
    <2>2. ~ (p - 1 >= scanned)
        BY <1>0, <1>3, <1>17
    <2> QED  BY <1>17, <2>1, <2>2 DEF PagingInv, ScanInv
<1>18. ASSUME NEW r \in FeedRows, ~ r.matches, NEW p \in 1 .. total, sorted[p] = r,
              scanned < p, p <= scanned + m
       PROVE  \E k \in 1 .. Len(kept) : kept[k] = r
    <2>1. p - scanned \in 1 .. m /\ scanned + (p - scanned) = p
        BY <1>0, <1>3, <1>7, <1>18
    <2>2. piece[p - scanned] = r
        BY <1>6, <1>18, <2>1
    <2>3. r \in unhidden
        BY <1>8, <1>18, <2>1, <2>2 DEF unhidden
    <2> QED  BY <1>12, <2>3
<1>19. ASSUME NEW r, \E k \in 1 .. Len(collected) : collected[k] = r
       PROVE  \E k \in 1 .. Len(collected) : collected'[k] = r
    BY <1>14, <1>19
<1>20. ASSUME NEW r \in FeedRows, Awaited(r)
       PROVE  /\ r \in feed
              /\ \/ \E k \in 1 .. Len(collected') : collected'[k] = r
                 \/ Cardinality({q \in feed : Newer(q, r)}) >= scanned + m
              /\ \A i \in 1 .. Len(collected') : Newer(r, collected'[i]) =>
                     \E k \in 1 .. i - 1 : collected'[k] = r
    <2>1. r \in feed /\ ~ r.matches
        BY <1>20 DEF PagingInv, ScanInv, Awaited
    <2>2. PICK p \in 1 .. total : sorted[p] = r
        BY <1>3, <2>1
    <2>3. Cardinality({q \in feed : Newer(q, r)}) = p - 1
        BY <1>0, <2>2, NewerBefore DEF total
    <2>4. (\E k \in 1 .. Len(collected') : collected'[k] = r) \/ p - 1 >= scanned + m
        <3>1. CASE p <= scanned
            <4>1. PICK k \in 1 .. Len(collected) : collected[k] = r
                BY <1>17, <1>20, <2>2, <3>1
            <4>2. k \in 1 .. Len(collected') /\ collected'[k] = r
                BY <1>12, <1>14, <4>1
            <4> QED  BY <4>2
        <3>2. CASE scanned < p /\ p <= scanned + m
            <4>1. PICK k \in 1 .. Len(kept) : kept[k] = r
                BY <1>18, <2>1, <2>2, <3>2
            <4>2. Len(collected) + k \in 1 .. Len(collected')
                BY <1>12, <1>14
            <4> QED  BY <1>14, <4>1, <4>2
        <3>3. CASE scanned + m < p
            BY <1>0, <1>3, <1>7, <3>3
        <3> QED  BY <1>0, <1>3, <1>7, <3>1, <3>2, <3>3
    <2>5. ASSUME NEW i \in 1 .. Len(collected'), Newer(r, collected'[i])
          PROVE  \E k \in 1 .. i - 1 : collected'[k] = r
        <3>1. CASE i <= Len(collected)
            <4>1. i \in 1 .. Len(collected)
                BY <1>12, <1>14, <3>1
            <4>2. Newer(r, collected[i])
                BY <1>14, <2>5, <4>1
            <4>3. PICK k \in 1 .. i - 1 : collected[k] = r
                BY <1>20, <4>1, <4>2 DEF PagingInv, ScanInv
            <4>4. k \in 1 .. Len(collected)
                BY <1>14, <4>1
            <4>5. collected'[k] = r
                BY <1>14, <4>3, <4>4
            <4> QED  BY <4>3, <4>5
        <3>2. CASE i > Len(collected)
            <4> DEFINE j == i - Len(collected)
            <4>1. j \in 1 .. Len(kept) /\ i = Len(collected) + j /\ j \in Nat \ {0}
                BY <1>12, <1>14, <3>2
            <4> HIDE DEF j
            <4>2. collected'[i] = kept[j]
                BY <1>14, <4>1
            <4>3. kept[j] \in unhidden
                BY <1>13, <4>1
            <4>4. PICK b \in 1 .. m : kept[j] = piece[b]
                BY <1>8, <4>3 DEF unhidden
            <4>5. kept[j] = sorted[scanned + b] /\ scanned + b \in 1 .. total
                <5>1. scanned + b \in 1 .. total
                    BY <1>0, <1>3, <1>4, <1>5
                <5> QED  BY <1>6, <4>4, <5>1
            <4>6. Newer(sorted[p], sorted[scanned + b])
                BY <2>2, <2>5, <4>2, <4>5
            <4>7. p < scanned + b
                <5>1. sorted[p] \in FeedRows /\ sorted[scanned + b] \in FeedRows
                    BY <1>13, <1>20, <2>2, <4>1, <4>5
                <5>2. ~ Newer(sorted[scanned + b], sorted[p]) /\ sorted[p] # sorted[scanned + b]
                    BY <4>6, <5>1, NewerOrders
                <5>3. p # scanned + b /\ ~ (scanned + b < p)
                    BY <1>3, <4>5, <5>2
                <5>4. p \in Nat /\ scanned + b \in Nat
                    BY <1>0, <1>3
                <5> QED  BY <5>3, <5>4
            <4>8. CASE p <= scanned
                <5>1. PICK k \in 1 .. Len(collected) : collected[k] = r
                    BY <1>17, <1>20, <2>2, <4>8
                <5>2. Len(collected) \in Nat /\ k \in Nat
                    BY <1>14, <5>1
                <5>3. k \in 1 .. i - 1
                    BY <4>1, <5>1, <5>2
                <5>4. collected'[k] = r
                    BY <1>14, <5>1
                <5> QED  BY <5>3, <5>4
            <4>9. CASE scanned < p
                <5>1. p <= scanned + m
                    BY <1>0, <1>3, <1>7, <4>7
                <5>2. PICK k \in 1 .. Len(kept) : kept[k] = r
                    BY <1>18, <2>1, <2>2, <4>9, <5>1
                <5>3. Newer(kept[k], kept[j])
                    BY <2>5, <4>2, <5>2
                <5>4. k < j
                    <6>1. kept[k] \in FeedRows /\ kept[j] \in FeedRows
                        BY <1>13, <4>1
                    <6>2. ~ Newer(kept[j], kept[k]) /\ kept[k] # kept[j]
                        BY <5>3, <6>1, NewerOrders
                    <6>3. k # j /\ ~ (j < k)
                        BY <1>12, <4>1, <6>2
                    <6> QED  BY <1>12, <4>1, <6>3
                <5>5. Len(collected) + k \in 1 .. i - 1
                    BY <1>14, <4>1, <5>4
                <5>6. collected'[Len(collected) + k] = r
                    BY <1>14, <5>2
                <5> QED  BY <5>5, <5>6
            <4> QED  BY <1>0, <1>3, <4>8, <4>9
        <3> QED  BY <1>14, <3>1, <3>2
    <2> QED  BY <2>1, <2>3, <2>4, <2>5
<1>21. ScanInv'
    <2> SUFFICES ASSUME NEW r \in FeedRows, Awaited(r)
                 PROVE  /\ r \in feed
                        /\ \/ \E k \in 1 .. Len(collected') : collected'[k] = r
                           \/ Cardinality({q \in feed : Newer(q, r)}) >= scanned'
                        /\ \A i \in 1 .. Len(collected') : Newer(r, collected'[i]) =>
                               \E k \in 1 .. i - 1 : collected'[k] = r
        BY <1>0 DEF ScanInv, Awaited, Newer
    <2> QED  BY <1>11, <1>20
<1> QED  BY <1>15, <1>16, <1>21 DEF PagingInv

\* A scan's answer gives what it collected first.
LEMMA ScanAnswerKeeps ==
    ASSUME PagingInv, AnswerScan
    PROVE  PagingInv'
<1>1. /\ walk' = "page" /\ query' = "none"
      /\ listed' = listed \o FirstRows(collected, PageLimit)
      /\ walkFrom' = IF cursor = FirstPage THEN feed ELSE walkFrom
      /\ UNCHANGED <<feed, storedCount, cutoff, scanned, collected, scanFrom>>
    BY DEF AnswerScan, Receive, tableVars, scanVars
<1>2. PagingTypes'
    <2>1. collected \in Seq(FeedRows) /\ listed \in Seq(FeedRows) /\ PageLimit \in Nat
        BY EventPagingAssumption DEF PagingInv, PagingTypes
    <2>2. FirstRows(collected, PageLimit) \in Seq(FeedRows)
        BY <2>1, FirstOfRows
    <2>3. listed' \in Seq(FeedRows)
        BY <1>1, <2>1, <2>2
    <2> QED  BY <1>1, <2>3 DEF PagingInv, PagingTypes
<1>3. WalkInv'
    BY <1>1 DEF WalkInv
<1>4. ScanInv'
    BY <1>1 DEF PagingInv, ScanInv, Awaited, Newer
<1> QED  BY <1>2, <1>3, <1>4 DEF PagingInv

LEMMA StoreKeepsPaging ==
    ASSUME PagingInv, StoreEvent
    PROVE  PagingInv'
<1>1. PICK t \in Instants, b \in BOOLEAN :
          feed' = feed \cup {[id |-> storedCount + 1, at |-> t, matches |-> b]}
    BY DEF StoreEvent
<1> DEFINE row == [id |-> storedCount + 1, at |-> t, matches |-> b]
<1>2. /\ storedCount \in 0 .. MaxStored /\ storedCount < MaxStored /\ MaxStored \in Nat
      /\ feed \subseteq FeedRows /\ IsFiniteSet(feed) /\ cutoff \in Nat
      /\ storedCount' = storedCount + 1 /\ cutoff' = cutoff
      /\ UNCHANGED <<query, scanVars, walkVars>>
    BY EventPagingAssumption DEF PagingInv, PagingTypes, StoreEvent
<1>3. storedCount + 1 \in 1 .. MaxStored /\ storedCount' \in 0 .. MaxStored
    BY <1>2
<1>4. row \in FeedRows
    BY <1>3 DEF FeedRows
<1> HIDE DEF row
<1>5. PICK leaving, added : leaving = {} /\ added = {row}
    OBVIOUS
<1>6. feed' = (feed \ leaving) \cup added /\ \A r \in leaving : r \in FeedRows /\ r.at < cutoff'
    BY <1>1, <1>5 DEF row
<1>7. feed' \subseteq FeedRows /\ IsFiniteSet(feed')
    <2>1. feed' = feed \cup {row}
        BY <1>1 DEF row
    <2> QED  BY <1>2, <1>4, <2>1, FS_AddElement
<1>8. cutoff' \in Nat /\ cutoff <= cutoff'
    BY <1>2
<1> QED  BY <1>2, <1>3, <1>6, <1>7, <1>8, TableKeepsPaging

LEMMA DeletionKeepsPaging ==
    ASSUME PagingInv, DeleteOld
    PROVE  PagingInv'
<1>1. PICK c \in Instants, r \in feed :
          c >= cutoff /\ cutoff' = c /\ r.at < c /\ feed' = feed \ {r}
    BY DEF DeleteOld
<1>2. /\ feed \subseteq FeedRows /\ IsFiniteSet(feed) /\ cutoff \in Nat
      /\ storedCount' \in 0 .. MaxStored /\ UNCHANGED <<query, scanVars, walkVars>>
    BY DEF PagingInv, PagingTypes, DeleteOld
<1>3. cutoff' \in Nat /\ cutoff <= cutoff'
    BY <1>1, <1>2, EventPagingAssumption
<1>4. PICK leaving, added : leaving = {r} /\ added = {}
    OBVIOUS
<1>5. feed' = (feed \ leaving) \cup added /\ \A q \in leaving : q \in FeedRows /\ q.at < cutoff'
    BY <1>1, <1>2, <1>4
<1>6. feed' \subseteq FeedRows /\ IsFiniteSet(feed')
    BY <1>1, <1>2, FS_Subset
<1> QED  BY <1>2, <1>3, <1>5, <1>6, TableKeepsPaging

LEMMA PagingStarts == PagingInit => PagingInv
<1> SUFFICES ASSUME PagingInit PROVE PagingInv
    OBVIOUS
<1> USE DEF PagingInit
<1>1. PagingTypes
    BY EventPagingAssumption, FS_EmptySet DEF PagingTypes
<1>2. WalkInv
    BY DEF WalkInv, Under
<1>3. ScanInv
    BY DEF ScanInv, Awaited
<1> QED  BY <1>1, <1>2, <1>3 DEF PagingInv

LEMMA PagingStep == PagingInv /\ [PagingNext]_pagingVars => PagingInv'
<1> SUFFICES ASSUME PagingInv, [PagingNext]_pagingVars PROVE PagingInv'
    OBVIOUS
<1>1. CASE SetSuppressed \/ CacheAges \/ UNCHANGED pagingVars
    <2>1. UNCHANGED <<tableVars, scanVars, walkVars, query>>
        BY <1>1 DEF SetSuppressed, CacheAges, pagingVars, tableVars, scanVars, walkVars
    <2>2. walk # "walking" => query' = "none"
        BY <2>1 DEF PagingInv, PagingTypes
    <2> QED  BY <2>1, <2>2, StillPages
<1> QED  BY <1>1, StoreKeepsPaging, DeletionKeepsPaging, BeginsPaging, AnswerKeepsPaging, BatchKeepsPaging,
            ScanAnswerKeeps DEF PagingNext

\* A scan's answer ends with the last of the rows it gives, so what is newer comes before it.
LEMMA PagesFollow == PagingInv => PagesComplete
<1> SUFFICES ASSUME PagingInv PROVE PagesComplete
    OBVIOUS
<1>0. /\ collected \in Seq(FeedRows) /\ listed \in Seq(FeedRows) /\ walkFrom \subseteq FeedRows
      /\ scanFrom \subseteq FeedRows /\ PageLimit \in Nat \ {0}
      /\ WalkInv /\ ScanInv /\ Len(listed) \in Nat
    BY EventPagingAssumption DEF PagingInv, PagingTypes
<1>1. WalkExact
    <2> SUFFICES ASSUME walk # "page"
                 PROVE  /\ \A i \in 1 .. (Len(listed) - 1) : Newer(listed[i], listed[i + 1])
                        /\ walk = "ended" => {r \in walkFrom : r.at >= cutoff} \subseteq Range(listed)
        BY DEF WalkExact
    <2>1. \A i, j \in 1 .. Len(listed) : i < j => Newer(listed[i], listed[j])
        BY <1>0 DEF WalkInv
    <2>2. ASSUME NEW i \in 1 .. (Len(listed) - 1) PROVE Newer(listed[i], listed[i + 1])
        <3>1. i \in 1 .. Len(listed) /\ i + 1 \in 1 .. Len(listed) /\ i < i + 1
            BY <1>0
        <3> QED  BY <2>1, <3>1
    <2>3. ASSUME walk = "ended", NEW r \in walkFrom, r.at >= cutoff PROVE r \in Range(listed)
        <3>1. PICK i \in 1 .. Len(listed) : listed[i] = r
            BY <1>0, <2>3 DEF WalkInv, Spared
        <3>2. DOMAIN listed = 1 .. Len(listed)
            BY <1>0
        <3> QED  BY <3>1, <3>2 DEF Range
    <2> QED  BY <2>2, <2>3
<1>2. ScanSkipsNothing
    <2> DEFINE given == FirstRows(collected, PageLimit)
               n == Len(given)
    <2> SUFFICES ASSUME collected # <<>>, NEW r \in scanFrom, ~r.matches, r.at >= cutoff,
                        Newer(r, Last(given))
                 PROVE  r \in Range(given)
        BY DEF ScanSkipsNothing
    <2>1. Len(collected) \in Nat \ {0}
        BY <1>0, EmptySeq, LenProperties
    <2>2. /\ given \in Seq(FeedRows) /\ n = (IF Len(collected) < PageLimit THEN Len(collected) ELSE PageLimit)
          /\ n \in 0 .. Len(collected) /\ \A i \in 1 .. n : given[i] = collected[i]
        BY <1>0, FirstOfRows
    <2> HIDE DEF given
    <2>3. n \in 1 .. n /\ n \in Nat /\ n <= Len(collected)
        <3> HIDE DEF n
        <3> QED  BY <1>0, <2>1, <2>2
    <2>4. Last(given) = given[n]
        BY DEF Last
    <2>5. given[n] = collected[n]
        BY <2>2, <2>3
    <2>6. DOMAIN given = 1 .. n
        BY <2>2
    <2> HIDE DEF n
    <2>7. Newer(r, collected[n]) /\ n \in 1 .. Len(collected)
        BY <2>1, <2>3, <2>4, <2>5
    <2>8. r \in FeedRows /\ Awaited(r)
        BY <1>0 DEF Awaited
    <2>9. PICK k \in 1 .. n - 1 : collected[k] = r
        BY <1>0, <2>7, <2>8 DEF ScanInv
    <2>10. k \in 1 .. n
        BY <2>3
    <2>11. given[k] = r
        BY <2>2, <2>9, <2>10
    <2> QED  BY <2>6, <2>10, <2>11 DEF Range
<1> QED  BY <1>1, <1>2 DEF PagesComplete

\* A walk by cursor gives every row once, in order, that was there when it began and that
\* retention spares, and a scan's answer skips none it should give, though the table
\* changes between the queries.
THEOREM PagesStayComplete == PagingSpec => []PagesComplete
<1>1. PagingInit => PagingInv
    BY PagingStarts
<1>2. PagingInv /\ [PagingNext]_pagingVars => PagingInv'
    BY PagingStep
<1>3. PagingInv => PagesComplete
    BY PagesFollow
<1> QED  BY <1>1, <1>2, <1>3, PTL DEF PagingSpec
-----------------------------------------------------------------------------
(* The types of the jobs *)

\* A set of first members whose last has fewer than n before it has at most n.
LEMMA FewBefore ==
    ASSUME NEW S, IsFiniteSet(S), NEW n \in Nat, NEW before \in [S -> SUBSET S],
           NEW F, AreFirst(F, n, S, before), NEW g \in F, F \ {g} \subseteq before[g]
    PROVE  Cardinality(F) <= n
<1>1. /\ g \in S /\ Cardinality(before[g]) < n /\ before[g] \subseteq S
      /\ IsFiniteSet(F) /\ Cardinality(F) \in Nat
    <2>1. F \subseteq S
        BY DEF AreFirst
    <2> QED  BY <2>1, FS_Subset, FS_CardinalityType DEF AreFirst
<1>2. Cardinality(F \ {g}) <= Cardinality(before[g]) /\ Cardinality(before[g]) \in Nat
    BY <1>1, FS_Subset, FS_CardinalityType
<1>3. Cardinality(F \ {g}) = Cardinality(F) - 1
    BY <1>1, FS_RemoveElement
<1> QED  BY <1>1, <1>2, <1>3

\* A batch is no larger than it may be.
LEMMA BatchIsWithin ==
    ASSUME NEW S \in SUBSET Places, NEW n \in Nat \ {0}, NEW order \in ScanOrders
    PROVE  Cardinality(FirstOf(S, n, order)) <= n
<1> DEFINE F == FirstOf(S, n, order)
<1>0. RowCount \in Nat /\ S \in SUBSET (0 .. RowCount) /\ F \in SUBSET S
    BY FieldBackfillAssumption DEF Places, FirstOf
<1>1. IsFiniteSet(S)
    <2>1. IsFiniteSet(0 .. RowCount)
        BY <1>0, FS_Interval
    <2> QED  BY <1>0, <2>1, FS_Subset
<1>2. CASE order = "oldest"
    <2>1. AreFirst(F, n, S, Upwards(S)) /\ S \in SUBSET (1 .. RowCount)
        BY <1>2 DEF FirstOf, AreFirst, Upwards, Places
    <2> HIDE DEF F
    <2> QED  BY <1>0, <2>1, FirstAreFew DEF F
<1>3. CASE order = "newest" /\ F # {}
    <2>1. AreFirst(F, n, S, Downwards(S))
        BY <1>3 DEF FirstOf, AreFirst, Downwards
    <2> HIDE DEF F
    <2>2. PICK g \in F : \A m \in F : g <= m
        BY <1>0, <1>3, LeastNumber
    <2>3. \A m \in F : m \in Nat /\ g \in S
        BY <1>0
    <2>4. F \ {g} \subseteq Downwards(S)[g] /\ Downwards(S) \in [S -> SUBSET S]
        BY <1>0, <2>2, <2>3 DEF Downwards
    <2> QED  BY <1>1, <2>1, <2>4, FewBefore DEF F
<1>4. CASE F = {}
    BY <1>4, FS_EmptySet
<1> QED  BY <1>2, <1>3, <1>4 DEF ScanOrders

\* What a scan gives is left for it to give.
LEMMA BatchIsLeft ==
    ASSUME FieldTypes, job \in FieldJobs, job.limit # 0, job.processed < job.limit
    PROVE  BatchSize(job) <= job.limit - job.processed
<1> DEFINE T == {BatchMax, job.limit, job.limit - job.processed}
<1>1. T \in SUBSET Nat /\ job.limit - job.processed \in T
    BY FieldBackfillAssumption DEF FieldJobs
<1> HIDE DEF T
<1>2. \E l \in T : \A p \in T : l =< p
    BY <1>1, LeastNumber
<1>3. \A p \in T : Min(T) =< p
    BY <1>2 DEF Min
<1> QED  BY <1>1, <1>3 DEF BatchSize, T

\* The bounds of a backfill of fields, beyond its invariant.
FieldBounds ==
    /\ filled \subseteq rows /\ scan.due \subseteq rows
    /\ job # Waiting => job.updates \subseteq rows /\ job.processed <= job.limit
    /\ runsLeft \in 0 .. MaxRuns /\ crashesLeft \in 0 .. MaxCrashes

\* What a run fills are rows, and it does not read more of them than it may.
LEMMA FieldBoundsKeep ==
    ASSUME FieldInv, FieldInv', FieldBounds, [FieldNext]_fieldVars
    PROVE  FieldBounds'
<1>0. FieldTypes /\ FieldTypes' /\ {MaxRuns, MaxCrashes} \subseteq Nat
    BY FieldBackfillAssumption DEF FieldInv
<1>a. job # Waiting => job \in FieldJobs
    BY <1>0 DEF FieldTypes
<1> USE DEF FieldBounds
<1>1. ASSUME NEW p \in Places, RowArrives(p) \/ FillOne(p) PROVE FieldBounds'
    BY <1>1 DEF RowArrives, FillOne
<1>2. ASSUME NEW order \in ScanOrders, NEW scope \in Scopes, NEW limit \in Limits, NEW force \in BOOLEAN,
             StartRun(order, scope, limit, force)
      PROVE  FieldBounds'
    <2>1. /\ job'.updates = {} /\ job'.processed = 0 /\ job'.limit = limit /\ limit \in Nat
          /\ UNCHANGED <<rows, filled, crashesLeft>>
        BY <1>2, FieldBackfillAssumption DEF StartRun
    <2>2. runsLeft' \in 0 .. MaxRuns
        BY <1>0, <1>2 DEF StartRun
    <2>3. scan'.due \subseteq rows
        <3>1. CASE savedCursor = NoCursor
            BY <1>2, <3>1 DEF StartRun
        <3>2. CASE savedCursor # NoCursor
            <4>1. scan'.due = scan.due
                BY <1>0, <1>2, <3>2 DEF StartRun, FieldTypes
            <4> QED  BY <4>1
        <3> QED  BY <3>1, <3>2
    <2> QED  BY <2>1, <2>2, <2>3
<1>3. CASE ScanBatch
    <2> DEFINE S     == Selected(job)
               n     == BatchSize(job)
               firstOnes == FirstOf(S, n, job.order)
    <2>1. /\ job \in FieldJobs /\ job.processed < job.limit
          /\ UNCHANGED <<rows, filled, scan, runsLeft, crashesLeft>>
        BY <1>0, <1>3, FieldJobIs DEF ScanBatch
    <2>2. /\ job'.updates = Planned(firstOnes) /\ job'.limit = job.limit
          /\ job'.processed = job.processed + Cardinality(firstOnes)
        BY <1>3, <2>1 DEF ScanBatch, FieldJobs
    <2>3. S \in SUBSET Places /\ n \in Nat \ {0} /\ n <= job.limit - job.processed /\ job.order \in ScanOrders
        <3>1. job.limit # 0 /\ job.limit \in Nat /\ job.processed \in Nat
            BY <2>1 DEF FieldJobs
        <3>2. n \in Nat \ {0} /\ n <= job.limit - job.processed
            BY <1>0, <2>1, <3>1, BatchSizeIs, BatchIsLeft
        <3> HIDE DEF n
        <3> QED  BY <1>0, <2>1, <3>2 DEF Selected, FieldTypes, FieldJobs
    <2> HIDE DEF n
    <2>4. S \subseteq rows
        BY DEF Selected
    <2> HIDE DEF S
    <2>5. firstOnes \subseteq S /\ Cardinality(firstOnes) \in Nat /\ Cardinality(firstOnes) <= n
        BY <2>3, FieldBatch, BatchIsWithin
    <2> HIDE DEF firstOnes
    <2>6. job'.updates \subseteq rows
        BY <2>2, <2>4, <2>5 DEF Planned
    <2>7. job'.processed <= job'.limit
        <3>1. job.limit \in Nat /\ job.processed \in Nat
            BY <2>1 DEF FieldJobs
        <3> QED  BY <2>2, <2>3, <2>5, <3>1
    <2> QED  BY <2>1, <2>6, <2>7
<1>4. CASE CommitBatch
    <2>1. job # Waiting /\ job \in FieldJobs
        BY <1>0, <1>4, FieldJobIs DEF CommitBatch
    <2>2. job'.updates = {} /\ job'.processed = job.processed /\ job'.limit = job.limit
        BY <1>4, <2>1 DEF CommitBatch, FieldJobs
    <2> QED  BY <1>4, <2>1, <2>2 DEF CommitBatch
<1>5. CASE SaveCursor
    <2>1. job # Waiting /\ job \in FieldJobs
        BY <1>0, <1>5, FieldJobIs DEF SaveCursor
    <2>2. job'.updates = job.updates /\ job'.processed = job.processed /\ job'.limit = job.limit
        BY <1>5, <2>1 DEF SaveCursor, FieldJobs
    <2> QED  BY <1>5, <2>1, <2>2 DEF SaveCursor
<1>6. CASE DeleteCursor \/ FindNothing
    <2>1. job' = Waiting /\ UNCHANGED <<rows, filled, runsLeft, crashesLeft>>
        BY <1>6 DEF DeleteCursor, FindNothing
    <2>2. scan'.due = scan.due
        BY <1>0, <1>6 DEF DeleteCursor, FindNothing, FieldTypes
    <2> QED  BY <2>1, <2>2
<1>7. CASE RunDies
    <2>1. crashesLeft' \in 0 .. MaxCrashes
        BY <1>0, <1>7 DEF RunDies
    <2> QED  BY <1>7, <2>1 DEF RunDies
<1>8. CASE UNCHANGED fieldVars
    BY <1>8 DEF fieldVars
<1> QED  BY <1>1, <1>2, <1>3, <1>4, <1>5, <1>6, <1>7, <1>8 DEF FieldNext, ScanOrders

\* The invariant and the bounds give the types.
LEMMA FieldKinds == FieldInv /\ FieldBounds => FieldTypeOK
<1> SUFFICES ASSUME FieldInv, FieldBounds PROVE FieldTypeOK
    OBVIOUS
<1>1. /\ scan.uniform \in BOOLEAN /\ scan.finished \in BOOLEAN
      /\ payload \in [Places -> Payloads] /\ rows \subseteq Places
      /\ savedCursor \in Places \cup {NoCursor} /\ job \in FieldJobs \cup {Waiting}
    BY DEF FieldInv, FieldTypes
<1>2. CASE job = Waiting
    BY <1>1, <1>2 DEF FieldTypeOK, FieldBounds, Waiting
<1>3. CASE job \in FieldJobs /\ job # Waiting
    <2>1. job.processed \in 0 .. job.limit
        BY <1>3 DEF FieldBounds, FieldJobs
    <2> QED  BY <1>1, <1>3, <2>1 DEF FieldTypeOK, FieldBounds, FieldJobs
<1> QED  BY <1>1, <1>2, <1>3

\* A backfill of fields stays typed, whatever rows come and go.
LEMMA FieldsKeepTypes == FieldSpec => []FieldTypeOK
<1>1. FieldInit => FieldInv /\ FieldBounds
    BY FieldBackfillAssumption DEF FieldInit, FieldInv, FieldTypes, DueIsThere, CompleteMeansDone,
       FilledBehind, Beyond, ScanOrders, FieldBounds
<1> QED  BY <1>1, FieldStep, FieldBoundsKeep, FieldKinds, PTL DEF FieldSpec

\* The bounds of a backfill of actors.
ActorBounds ==
    /\ task.after \in 0 .. LastId /\ jobsLeft \in 0 .. MaxJobs /\ faultsLeft \in 0 .. MaxFaults

\* A task goes on from a row of the table.
LEMMA AfterIsIn ==
    ASSUME ActorTypes, task.at = "committing", task.after \in 0 .. LastId,
           NEW after \in 0 .. LastId
    PROVE  AfterPage(task, after).after \in 0 .. LastId
<1>1. task \in Tasks /\ LastId \in Nat
    BY ActorBackfillAssumption DEF ActorTypes
<1>2. NextPass(task).after = 0
    BY <1>1 DEF NextPass, Tasks
<1>3. [task EXCEPT !.after = after, !.at = "fetching", !.page = {}].after = after
    BY <1>1 DEF Tasks
<1> QED  BY <1>1, <1>2, <1>3 DEF AfterPage

\* A step keeps a backfill of actors within its bounds.
LEMMA ActorBoundsKeep ==
    ASSUME ActorInv, ActorInv', ActorBounds, [ActorNext]_actorVars
    PROVE  ActorBounds'
<1>0. ActorTypes /\ task \in Tasks /\ LastId \in Nat /\ MaxJobs \in Nat /\ MaxFaults \in Nat
      /\ NoTask.after = 0
    BY ActorBackfillAssumption DEF ActorInv, ActorTypes, NoTask
<1> USE DEF ActorBounds
<1>1. ASSUME NEW i \in Ids, NEW label \in Stored, ActorRowArrives(i, label) PROVE ActorBounds'
    BY <1>1 DEF ActorRowArrives
<1>2. ASSUME NEW dry \in BOOLEAN, StartJob(dry) PROVE ActorBounds'
    <2>1. task'.after = 0
        BY <1>2 DEF StartJob, NoTask
    <2>2. jobsLeft' \in 0 .. MaxJobs
        BY <1>0, <1>2 DEF StartJob
    <2> QED  BY <1>0, <1>2, <2>1, <2>2 DEF StartJob
<1>3. CASE FetchPage
    <2>1. task'.after \in {task.after, 0}
        <3>1. CASE Found(task) = {}
            BY <1>0, <1>3, <3>1 DEF FetchPage, NextPass, Tasks
        <3>2. CASE Found(task) # {}
            BY <1>0, <1>3, <3>2 DEF FetchPage, Tasks
        <3> QED  BY <3>1, <3>2
    <2> QED  BY <1>0, <1>3, <2>1 DEF FetchPage
<1>4. CASE CommitPage
    <2>1. task.page \in SUBSET (0 .. LastId) /\ task.page # {}
        BY <1>0, <1>4 DEF CommitPage, ActorInv, Tasks, Ids
    <2>2. Max(task.page) \in 0 .. LastId
        BY <1>0, <2>1, LastOnes
    <2> QED  BY <1>0, <1>4, <2>2, AfterIsIn DEF CommitPage
<1>5. CASE CommitRefused
    <2>1. faultsLeft' \in 0 .. MaxFaults
        BY <1>0, <1>5 DEF CommitRefused
    <2> QED  BY <1>0, <1>5, <2>1, AfterIsIn DEF CommitRefused
<1>6. CASE JobCompletes
    BY <1>0, <1>6 DEF JobCompletes
<1>7. CASE JobFails \/ ApiRestarts
    <2>1. faultsLeft' \in 0 .. MaxFaults
        BY <1>0, <1>7 DEF JobFails, ApiRestarts
    <2> QED  BY <1>0, <1>7, <2>1 DEF JobFails, ApiRestarts
<1>8. CASE UNCHANGED actorVars
    BY <1>8 DEF actorVars
<1> QED  BY <1>1, <1>2, <1>3, <1>4, <1>5, <1>6, <1>7, <1>8 DEF ActorNext

\* The invariant and the bounds give the types.
LEMMA ActorKinds == ActorInv /\ ActorBounds => ActorTypeOK
<1> SUFFICES ASSUME ActorInv, ActorBounds PROVE ActorTypeOK
    OBVIOUS
<1>1. task.dryRun \in BOOLEAN /\ task.full \in BOOLEAN /\ task.page \subseteq Ids
      /\ task.pass \in 0 .. 3 /\ task.at \in {"none", "fetching", "committing"}
    BY DEF ActorInv, ActorTypes, Tasks
<1> QED  BY <1>1 DEF ActorInv, ActorTypes, ActorBounds, ActorTypeOK

\* A backfill of actors stays typed.
LEMMA ActorsKeepTypes == ActorSpec => []ActorTypeOK
<1>1. ActorInit => ActorInv /\ ActorBounds
    <2>1. Stored \subseteq Labels /\ Answers \subseteq AllAnswers /\ {LastId, MaxJobs, MaxFaults} \subseteq Nat
        BY ActorBackfillAssumption
    <2> QED  BY <2>1 DEF ActorInit, ActorInv, ActorTypes, WantedIs, CleanRunComplete, NoTask, Tasks, ActorBounds
<1> QED  BY <1>1, ActorStep, ActorBoundsKeep, ActorKinds, PTL DEF ActorSpec

\* A step keeps the replays within their bounds.
LEMMA ReplayBoundsKeep ==
    ASSUME SlotInv, SlotInv', ReplayTypeOK, [ReplayNext]_replayVars
    PROVE  ReplayTypeOK'
<1> DEFINE Flags == lastError \in BOOLEAN /\ savedFlag \in BOOLEAN /\ stopping \in BOOLEAN
           Counts == raisesLeft \in 0 .. StoreRaises /\ livesLeft \in 0 .. ReplayLives
<1>0. Flags /\ Counts /\ recordsRead \in [Requests -> 0 .. RecordsMax] /\ {RecordsMax, StoreRaises, ReplayLives} \subseteq Nat
    BY ReplayAssumption DEF ReplayTypeOK
<1>a. Raised => raisesLeft' \in 0 .. StoreRaises
    BY <1>0 DEF Raised
<1>1. Flags'
    BY <1>0 DEF ReplayNext, Post, RefuseArguments, StartReplay, SetUp, SetUpRaises, ReadRecord, StopReading,
           ReadingRaises, Finish, BookCompletion, BookingRaises, BookFailure, RequestShutdown, ReplayRestart, replayVars
<1>b. (raisesLeft' = raisesLeft \/ Raised) /\ (livesLeft' = livesLeft \/ (livesLeft > 0 /\ livesLeft' = livesLeft - 1))
    BY DEF ReplayNext, Post, RefuseArguments, StartReplay, SetUp, SetUpRaises, ReadRecord, StopReading,
           ReadingRaises, Finish, BookCompletion, BookingRaises, BookFailure, RequestShutdown, ReplayRestart, replayVars
<1>2. Counts'
    BY <1>0, <1>a, <1>b
<1>c. ASSUME NEW r \in Requests, ReadRecord(r) PROVE recordsRead' \in [Requests -> 0 .. RecordsMax]
    <2>1. recordsRead[r] + 1 \in 0 .. RecordsMax
        BY <1>0, <1>c DEF ReadRecord
    <2> QED  BY <1>0, <1>c, <2>1 DEF ReadRecord
<1>d. ASSUME NEW r \in Requests, StartReplay(r) PROVE recordsRead' \in [Requests -> 0 .. RecordsMax]
    BY <1>0, <1>d DEF StartReplay
<1>e. ASSUME ReplayRestart PROVE recordsRead' \in [Requests -> 0 .. RecordsMax]
    BY <1>0, <1>e DEF ReplayRestart
<1>f. ASSUME UNCHANGED recordsRead PROVE recordsRead' \in [Requests -> 0 .. RecordsMax]
    BY <1>0, <1>f
<1>3. recordsRead' \in [Requests -> 0 .. RecordsMax]
    BY <1>c, <1>d, <1>e, <1>f DEF ReplayNext, Post, RefuseArguments, SetUp, SetUpRaises, StopReading,
           ReadingRaises, Finish, BookCompletion, BookingRaises, BookFailure, RequestShutdown, replayVars
<1> QED  BY <1>1, <1>2, <1>3 DEF ReplayTypeOK, SlotInv

\* Replays and the records they read stay typed.
LEMMA ReplaysKeepTypes == ReplaySpec => []ReplayTypeOK
<1>1. ReplayInit => SlotInv
    BY DEF ReplayInit, SlotInv, InSection
<1>2. ReplayInit => ReplayTypeOK
    <2>1. /\ 0 \in 0 .. RecordsMax /\ StoreRaises \in 0 .. StoreRaises
          /\ ReplayLives \in 0 .. ReplayLives
        BY ReplayAssumption
    <2> QED  BY <2>1 DEF ReplayInit, ReplayTypeOK
<1> QED  BY <1>1, <1>2, SlotStep, ReplayBoundsKeep, PTL DEF ReplaySpec

\* The passes that are left are counted.
PassesCount == passesLeft \in 0 .. MaxPasses

\* A step keeps their count.
LEMMA PassesAreCounted ==
    ASSUME PassesCount, [ResourceNext]_resourceVars
    PROVE  PassesCount'
<1>1. passesLeft' = passesLeft \/ (passesLeft > 0 /\ passesLeft' = passesLeft - 1)
    BY DEF ResourceNext, RowStored, RowDeleted, WriterUpsert, StartPass, LoadBatch, StopLoading,
           SaveBatch, ReadCatalog, CommitCatalog, NextBatch, PassDies, resourceVars
<1> QED  BY <1>1, ResourceAssumption DEF PassesCount

\* A backfill of resources stays typed.
LEMMA ResourcesKeepTypes == ResourceSpec => []ResourceTypeOK
<1>1. ResourceInit => ResourceInv /\ PassesCount
    <2> SUFFICES ASSUME ResourceInit PROVE ResourceInv /\ PassesCount
        OBVIOUS
    <2>1. NotListed \in CatalogRows /\ {} \in SUBSET Columns
        BY DEF NotListed, CatalogRows
    <2>2. ResourceTypes
        BY <2>1, NoPassIs DEF ResourceInit, ResourceTypes, NoReport
    <2>3. PassesCount
        BY ResourceAssumption DEF ResourceInit, PassesCount
    <2> QED  BY <2>2, <2>3, NoPassIs DEF ResourceInit, ResourceInv, ReportedPassIsDone, NoReport
<1>2. ResourceInv /\ PassesCount => ResourceTypeOK
    BY DEF PassesCount, ResourceInv, ResourceTypes, ResourceTypeOK, PassRecords
<1> QED  BY <1>1, <1>2, ResourceStep, PassesAreCounted, PTL DEF ResourceSpec

\* The bounds of a run of the classification script.
RerunBounds ==
    /\ lastId \in 0 .. LastRowId /\ rerunOutcome \in {"nothing", "done", "dry"}
    /\ Cardinality(DOMAIN rerunBatch) <= RerunBatch

\* A run that has read no batch holds none.
LEMMA NoBatchIsSmall == Cardinality(DOMAIN NoBatch) <= RerunBatch
<1>1. DOMAIN NoBatch = {}
    BY DEF NoBatch
<1> QED  BY <1>1, FS_EmptySet, RerunAssumption

\* A step keeps a run of the script within its bounds.
LEMMA RerunBoundsKeep ==
    ASSUME RerunInv, RerunInv', RerunBounds, [RerunNext]_rerunVars
    PROVE  RerunBounds'
<1>0. RerunTypes /\ LastRowId \in Nat /\ RerunBatch \in Nat \ {0} /\ 0 \in 0 .. LastRowId
    BY RerunAssumption DEF RerunInv
<1>1. ASSUME NEW dry \in BOOLEAN, StartRerun(dry) PROVE RerunBounds'
    BY <1>0, <1>1, NoBatchIsSmall DEF RerunBounds, StartRerun
<1>2. CASE SelectRows
    <2> DEFINE next == {i \in StillUnclear : Cardinality({j \in StillUnclear : j < i}) < RerunBatch}
    <2>1. /\ DOMAIN rerunBatch' = next /\ lastId' = lastId
          /\ rerunOutcome' \in {rerunOutcome, "dry", "done"}
        BY <1>2 DEF SelectRows
    <2>2. StillUnclear \in SUBSET (1 .. LastRowId)
        BY DEF StillUnclear, There, RowIds
    <2>3. AreFirst(next, RerunBatch, StillUnclear, Upwards(StillUnclear))
        BY DEF AreFirst, Upwards
    <2> HIDE DEF next
    <2>4. Cardinality(next) <= RerunBatch
        BY <1>0, <2>2, <2>3, FirstAreFew
    <2> QED  BY <2>1, <2>4 DEF RerunBounds
<1>3. CASE WriteUpdates
    <2>1. DOMAIN rerunBatch \in SUBSET (0 .. LastRowId) /\ DOMAIN rerunBatch # {}
        <3>1. rerunBatch # NoBatch
            BY <1>3 DEF WriteUpdates
        <3>2. DOMAIN rerunBatch # {}
            BY <1>0, <3>1 DEF RerunTypes, NoBatch
        <3> QED  BY <1>0, <3>2 DEF RerunTypes, RowIds
    <2>2. \E i \in DOMAIN rerunBatch : \A j \in DOMAIN rerunBatch : j <= i
        BY <1>0, <2>1, GreatestNumber
    <2>3. LastOfBatch \in 0 .. LastRowId
        BY <2>1, <2>2 DEF LastOfBatch
    <2> QED  BY <1>3, <2>3, NoBatchIsSmall DEF RerunBounds, WriteUpdates
<1>4. CASE RerunEnds
    BY <1>4, NoBatchIsSmall DEF RerunBounds, RerunEnds
<1>5. ASSUME NEW i \in RowIds, NEW row, Change(i, row) PROVE RerunBounds'
    BY <1>5 DEF RerunBounds, Change
<1>6. ASSUME NEW i \in RowIds, ClearPayload(i) \/ DeleteRow(i) \/ \E p \in RawPayloads : InsertRow(i, p)
      PROVE  RerunBounds'
    BY <1>5, <1>6 DEF ClearPayload, DeleteRow, InsertRow
<1>7. CASE UNCHANGED rerunVars
    BY <1>7 DEF RerunBounds, rerunVars
<1> QED  BY <1>1, <1>2, <1>3, <1>4, <1>6, <1>7 DEF RerunNext

\* A run of the classification script stays typed.
LEMMA RerunsKeepTypes == RerunSpec => []RerunTypeOK
<1>1. RerunInit => RerunBounds
    BY RerunAssumption, NoBatchIsSmall DEF RerunInit, RerunBounds
<1>2. RerunInv /\ RerunBounds => RerunTypeOK
    BY DEF RerunInv, RerunTypes, RerunBounds, RerunTypeOK
<1> QED  BY <1>1, <1>2, RerunStarts, RerunStep, RerunBoundsKeep, PTL DEF RerunSpec

\* The bounds of the walks and scans over the event list.
PagingBounds ==
    /\ suppressions = NoCache \/ suppressions.age \in 0 .. SuppressionTtl
    /\ query \in {"none", "page", "scan", "answer"}

\* A step keeps them.
LEMMA PagingBoundsKeep ==
    ASSUME PagingInv, PagingBounds, [PagingNext]_pagingVars
    PROVE  PagingBounds'
<1>0. SuppressionTtl \in Nat \ {0} /\ 0 \in 0 .. SuppressionTtl
    <2>1. SuppressionTtl \in {MaxStored, PageLimit, ScanSize, MaxScan, SuppressionTtl}
        OBVIOUS
    <2>2. SuppressionTtl \in Nat \ {0}
        BY <2>1, EventPagingAssumption
    <2> QED  BY <2>2
<1> USE DEF PagingBounds
<1>1. CASE StoreEvent \/ DeleteOld \/ SetSuppressed
    BY <1>1 DEF StoreEvent, DeleteOld, SetSuppressed, suppressionVars
<1>2. CASE CacheAges
    <2>1. suppressions.age \in 0 .. SuppressionTtl /\ suppressions.age < SuppressionTtl
          /\ suppressions' = [suppressions EXCEPT !.age = suppressions.age + 1]
        BY <1>2 DEF CacheAges
    <2>2. suppressions.age + 1 \in 0 .. SuppressionTtl
        BY <1>0, <2>1
    <2> QED  BY <1>2, <2>1, <2>2 DEF CacheAges
<1>3. CASE BeginRequest \/ BeginUnloaded
    <2>1. query' \in {"scan", "page"}
        BY <1>3 DEF BeginRequest, BeginUnloaded, TakePath
    <2>2. suppressions' = suppressions \/ \E hides : suppressions' = [age |-> 0, hides |-> hides]
        <3>1. CASE BeginRequest
            BY <3>1 DEF BeginRequest, suppressionVars
        <3>2. CASE BeginUnloaded
            BY <3>2 DEF BeginUnloaded
        <3> QED  BY <1>3, <3>1, <3>2
    <2> QED  BY <1>0, <2>1, <2>2
<1>4. CASE AnswerPage \/ ScanRows \/ AnswerScan
    <2>1. query' \in {"none", "scan", "answer"} /\ suppressions' = suppressions
        BY <1>4 DEF AnswerPage, ScanRows, AnswerScan, suppressionVars
    <2> QED  BY <2>1
<1>5. CASE UNCHANGED pagingVars
    BY <1>5 DEF pagingVars
<1> QED  BY <1>1, <1>2, <1>3, <1>4, <1>5 DEF PagingNext

\* The walks, the scans and what they gave stay typed.
LEMMA PagesKeepTypes == PagingSpec => []PagingTypeOK
<1>1. PagingInit => PagingBounds
    BY DEF PagingInit, PagingBounds
<1>2. ASSUME PagingInv, PagingBounds PROVE PagingTypeOK
    <2>1. Range(collected) \subseteq FeedRows /\ Range(listed) \subseteq FeedRows
        BY <1>2 DEF PagingInv, PagingTypes, Range
    <2> QED  BY <1>2, <2>1 DEF PagingInv, PagingTypes, PagingBounds, PagingTypeOK
<1> QED  BY <1>1, <1>2, PagingStarts, PagingStep, PagingBoundsKeep, PTL DEF PagingSpec
=============================================================================
