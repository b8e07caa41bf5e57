---------------------------- MODULE StorageProofs ----------------------------
(***************************************************************************)
(* Theorems about what the services keep, for every value of their         *)
(* constants: what the writer threads leave in audit_events, in the        *)
(* dead-letter topic and in the catalog, what the cold archive deletes,    *)
(* the collector commits, the hot cache moves and the sinks refuse.        *)
(***************************************************************************)
EXTENDS EventStore, ColdArchive, Collector, HotCache, Sinks, FiniteSetTheorems,
        FunctionTheorems, SequenceTheorems, WellFoundedInduction, TLAPS

-----------------------------------------------------------------------------
(* Numbers, and the events of a batch *)

BelowIn == OpToRel(<, Nat)

LEMMA BelowIsLess == \A a, b \in Nat : <<a, b>> \in BelowIn <=> a < b
<1>1. BelowIn = {ab \in Nat \X Nat : ab[1] < ab[2]}
    BY DEF BelowIn, OpToRel
<1> QED  BY <1>1

\* What induction over numbers comes to: a set of them has a least one.
LEMMA LeastNumber ==
    ASSUME NEW T \in SUBSET Nat, T # {}
    PROVE  \E n \in T : \A m \in T : n <= m
<1>1. IsWellFoundedOn(BelowIn, Nat)
    BY NatLessThanWellFounded DEF BelowIn
<1>2. PICK n \in T : \A m \in T : ~ (<<m, n>> \in BelowIn)
    BY <1>1, WFMin
<1>3. \A m \in T : n <= m
    <2> SUFFICES ASSUME NEW m \in T PROVE n <= m
        OBVIOUS
    <2>1. m \in Nat /\ n \in Nat
        OBVIOUS
    <2>2. ~ (m < n)
        BY <1>2, <2>1, BelowIsLess
    <2> QED  BY <2>1, <2>2
<1> QED  BY <1>3

\* An order of as many places as a set has names each of them.
LEMMA OrderNamesAll ==
    ASSUME NEW n \in Nat, NEW S \in SUBSET (1 .. n), NEW pick \in InOrder(S)
    PROVE  /\ Cardinality(S) \in Nat
           /\ pick \in [1 .. Cardinality(S) -> S]
           /\ \A i \in S : \E j \in 1 .. Cardinality(S) : pick[j] = i
<1>1. IsFiniteSet(S) /\ Cardinality(S) \in Nat
    <2>1. IsFiniteSet(1 .. n)
        BY FS_Interval
    <2>2. IsFiniteSet(S)
        BY <2>1, FS_Subset
    <2> QED  BY <2>2, FS_CardinalityType
<1> DEFINE size == Cardinality(S)
<1>2. pick \in [1 .. size -> S] /\ \A i, j \in 1 .. size : i < j => pick[i] < pick[j]
    BY DEF InOrder
<1>3. \A i \in 1 .. size : pick[i] \in Nat
    <2>1. \A i \in S : i \in Nat
        OBVIOUS
    <2> QED  BY <1>2, <2>1
<1>4. pick \in Injection(1 .. size, S)
    <2>1. \A i, j \in 1 .. size : pick[i] = pick[j] => i = j
        BY <1>1, <1>2, <1>3
    <2> QED  BY <1>2, <2>1 DEF Injection, IsInjective
<1>5. IsFiniteSet(1 .. size) /\ Cardinality(1 .. size) = size
    BY <1>1, FS_Interval
<1>6. pick \in Surjection(1 .. size, S)
    BY <1>1, <1>4, <1>5, FS_Injection
<1> QED  BY <1>1, <1>2, <1>6 DEF Surjection

-----------------------------------------------------------------------------
(* The invariant *)

\* An event in a lane or with a writer, and how often its batch has failed
Tries == Emissions \X Nat

KeptPrints == Prints(stored) \cup swept
Holds(s, e) == \E i \in DOMAIN s : s[i][1] = e
AllKept(s) == \A i \in DOMAIN s : s[i][1].print \in KeptPrints

StoreTypes ==
    /\ lane \in [Lanes -> Seq(Tries)] /\ taken \in [Lanes -> Seq(Tries)]
    /\ \A l \in Lanes : Len(lane[l]) <= LaneSize
    /\ writer \in [Lanes -> {"waits", "writing", "sweeping", "queueing"}]
    /\ stored \subseteq Emissions /\ IsFiniteSet(stored)
    /\ catalogQueue \in Seq(Emissions)

Distinct == \A e, f \in stored : e.print = f.print => e = f

\* A writer that waits holds nothing; one that is past the INSERT holds events whose
\* fingerprints are or were in the table, and so does the catalog's queue.
WriterHolds ==
    \A l \in Lanes : /\ writer[l] = "waits" => taken[l] = << >>
                     /\ writer[l] \in {"sweeping", "queueing"} => AllKept(taken[l])

Queued == \A i \in DOMAIN catalogQueue : catalogQueue[i].print \in KeptPrints

Booked ==
    \A e \in seen :
        \/ \E l \in Lanes : Holds(lane[l], e) \/ Holds(taken[l], e)
        \/ e \in unplaced \/ e \in lost \/ e.print \in KeptPrints
        \/ \E p \in deadLetters : p[1] = e

StoreInv ==
    StoreTypes /\ Distinct /\ WriterHolds /\ Queued /\ Booked /\ CatalogFollows

LEMMA MemoryIs ==
    \A e : e \in InMemory <=> \E l \in Lanes : Holds(lane[l], e) \/ Holds(taken[l], e)
BY DEF InMemory, ToSet, Holds

LEMMA StoreInvSuffices == StoreInv => StoreConsistent
<1> SUFFICES ASSUME StoreInv PROVE StoreConsistent
    OBVIOUS
<1>1. OneRowEach
    <2> DEFINE f == [e \in stored |-> e.print]
    <2>1. f \in [stored -> Prints(stored)]
        BY DEF Prints
    <2>2. \A a, b \in stored : f[a] = f[b] => a = b
        BY DEF StoreInv, Distinct
    <2>3. \A t \in Prints(stored) : \E a \in stored : f[a] = t
        BY DEF Prints
    <2>4. f \in Bijection(stored, Prints(stored))
        BY <2>1, <2>2, <2>3 DEF Bijection, Injection, Surjection, IsInjective
    <2>5. ExistsBijection(stored, Prints(stored)) /\ IsFiniteSet(stored)
        BY <2>4 DEF ExistsBijection, StoreInv, StoreTypes
    <2> QED  BY <2>5, FS_Bijection DEF OneRowEach
<1>2. EventsAccounted
    <2> SUFFICES ASSUME NEW e \in seen
                 PROVE  \/ e \in InMemory \cup unplaced \cup lost
                        \/ e.print \in Prints(stored) \cup swept
                        \/ e \in {p[1] : p \in deadLetters}
        BY DEF EventsAccounted
    <2> QED  BY MemoryIs DEF StoreInv, Booked, KeptPrints
<1> QED  BY <1>1, <1>2 DEF StoreInv, StoreConsistent

-----------------------------------------------------------------------------
(* The steps *)

LEMMA StoreStarts == StoreInit => StoreInv
<1> SUFFICES ASSUME StoreInit PROVE StoreInv
    OBVIOUS
<1>1. StoreTypes
    BY FS_EmptySet, EventStoreAssumption DEF StoreInit, StoreTypes
<1>2. Distinct /\ WriterHolds /\ Queued /\ Booked
    BY DEF StoreInit, Distinct, WriterHolds, Queued, Booked
<1>3. CatalogFollows
    BY DEF StoreInit, CatalogFollows
<1> QED  BY <1>1, <1>2, <1>3 DEF StoreInv

LEMMA RouteKeeps ==
    ASSUME StoreInv, NEW l \in Lanes, NEW e \in Emissions, RouteEvent(l, e)
    PROVE  StoreInv'
<1>1. lane[l] \in Seq(Tries) /\ <<e, 0>> \in Tries
    BY DEF StoreInv, StoreTypes, Tries
<1> DEFINE longer == Append(lane[l], <<e, 0>>)
<1>2. /\ longer \in Seq(Tries) /\ Holds(longer, e)
      /\ \A f : Holds(lane[l], f) => Holds(longer, f)
    <2>1. /\ Len(lane[l]) \in Nat /\ DOMAIN lane[l] = 1 .. Len(lane[l])
          /\ longer \in Seq(Tries) /\ DOMAIN longer = 1 .. Len(lane[l]) + 1
          /\ longer[Len(lane[l]) + 1] = <<e, 0>>
          /\ \A i \in 1 .. Len(lane[l]) : longer[i] = lane[l][i]
        BY <1>1
    <2> QED  BY <2>1 DEF Holds
<1>3. /\ lane' = [lane EXCEPT ![l] = longer] /\ seen' = seen \cup {e}
      /\ UNCHANGED <<taken, writer, stored, catalogQueue, catalog, learnt, deadLetters, swept,
                     unplaced, lost>>
    BY DEF RouteEvent, catalogVars
<1> HIDE DEF longer
<1>4. StoreTypes'
    <2>1. Len(longer) <= LaneSize
        BY <1>1, EventStoreAssumption DEF RouteEvent, longer
    <2> QED  BY <1>2, <1>3, <2>1 DEF StoreInv, StoreTypes
<1>5. /\ KeptPrints' = KeptPrints
      /\ \A f : \A k \in Lanes : /\ Holds(lane[k], f) => Holds(lane'[k], f)
                                /\ Holds(lane'[l], e)
    BY <1>2, <1>3 DEF KeptPrints, StoreInv, StoreTypes
<1>6. Booked'
    BY <1>3, <1>5 DEF StoreInv, Booked
<1>7. Distinct' /\ WriterHolds' /\ Queued' /\ CatalogFollows'
    BY <1>3, <1>5 DEF StoreInv, Distinct, WriterHolds, AllKept, Queued, CatalogFollows
<1> QED  BY <1>4, <1>6, <1>7 DEF StoreInv

\* The first events of a lane and the others are all there were.
LEMMA Parted ==
    ASSUME NEW s \in Seq(Tries), NEW n \in 1 .. Len(s)
    PROVE  /\ SubSeq(s, 1, n) \in Seq(Tries) /\ SubSeq(s, n + 1, Len(s)) \in Seq(Tries)
           /\ Len(SubSeq(s, n + 1, Len(s))) = Len(s) - n
           /\ \A e : Holds(s, e) =>
                 Holds(SubSeq(s, 1, n), e) \/ Holds(SubSeq(s, n + 1, Len(s)), e)
<1> DEFINE first == SubSeq(s, 1, n)
           rest  == SubSeq(s, n + 1, Len(s))
<1>1. Len(s) \in Nat /\ n \in Nat /\ n <= Len(s) /\ \A i \in 1 .. Len(s) : s[i] \in Tries
    OBVIOUS
<1>2. /\ first \in Seq(Tries) /\ Len(first) = n
      /\ \A i \in 1 .. n : first[i] = s[i]
    <2>1. \A i \in 1 .. n : s[i] \in Tries
        BY <1>1
    <2>2. /\ first \in Seq(Tries) /\ Len(first) = IF 1 <= n THEN n - 1 + 1 ELSE 0
          /\ \A i \in 1 .. n - 1 + 1 : first[i] = s[1 + i - 1]
        BY <1>1, <2>1, SubSeqProperties
    <2> HIDE DEF first
    <2> QED  BY <1>1, <2>2
<1>3. /\ rest \in Seq(Tries) /\ Len(rest) = Len(s) - n
      /\ \A i \in 1 .. Len(s) - n : rest[i] = s[i + n]
    <2>1. \A i \in n + 1 .. Len(s) : s[i] \in Tries
        BY <1>1
    <2>2. /\ rest \in Seq(Tries)
          /\ Len(rest) = IF n + 1 <= Len(s) THEN Len(s) - (n + 1) + 1 ELSE 0
          /\ \A i \in 1 .. Len(s) - (n + 1) + 1 : rest[i] = s[(n + 1) + i - 1]
        BY <1>1, <2>1, SubSeqProperties
    <2>3. (IF n + 1 <= Len(s) THEN Len(s) - (n + 1) + 1 ELSE 0) = Len(s) - n
        BY <1>1
    <2>4. \A i \in 1 .. Len(s) - n : i \in 1 .. Len(s) - (n + 1) + 1 /\ (n + 1) + i - 1 = i + n
        BY <1>1
    <2> HIDE DEF rest
    <2> QED  BY <2>2, <2>3, <2>4
<1>4. ASSUME NEW i \in 1 .. Len(s)
      PROVE  (\E j \in DOMAIN first : first[j] = s[i]) \/ (\E j \in DOMAIN rest : rest[j] = s[i])
    <2>1. DOMAIN first = 1 .. n /\ DOMAIN rest = 1 .. Len(s) - n
        BY <1>1, <1>2, <1>3
    <2>2. CASE i <= n
        <3>1. i \in 1 .. n /\ first[i] = s[i]
            BY <1>1, <1>2, <2>2
        <3> QED  BY <2>1, <3>1
    <2>3. CASE i > n
        <3>1. i - n \in 1 .. Len(s) - n /\ (i - n) + n = i
            BY <1>1, <2>3
        <3>2. rest[i - n] = s[i]
            BY <1>3, <3>1
        <3> QED  BY <2>1, <3>1, <3>2
    <2> QED  BY <1>1, <2>2, <2>3
<1>5. DOMAIN s = 1 .. Len(s)
    OBVIOUS
<1> HIDE DEF first, rest
<1>6. \A e : Holds(s, e) => Holds(first, e) \/ Holds(rest, e)
    BY <1>4, <1>5 DEF Holds
<1> QED  BY <1>2, <1>3, <1>6 DEF first, rest

\* What is in memory is accounted for as long as each lane and its writer keep it.
LEMMA MemoryMoves ==
    ASSUME Booked, seen' = seen, KeptPrints \subseteq KeptPrints',
           unplaced \subseteq unplaced', lost \subseteq lost', deadLetters \subseteq deadLetters',
           \A e \in seen : \A l \in Lanes : Holds(lane[l], e) \/ Holds(taken[l], e) =>
               \/ \E k \in Lanes : Holds(lane'[k], e) \/ Holds(taken'[k], e)
               \/ e \in unplaced' \/ e \in lost' \/ e.print \in KeptPrints'
               \/ \E p \in deadLetters' : p[1] = e
    PROVE  Booked'
BY DEF Booked

LEMMA TakeKeeps ==
    ASSUME StoreInv, NEW l \in Lanes, TakeWriteBatch(l)
    PROVE  StoreInv'
<1>1. PICK n \in 1 .. WriteBatch :
          /\ n <= Len(lane[l])
          /\ taken' = [taken EXCEPT ![l] = SubSeq(lane[l], 1, n)]
          /\ lane' = [lane EXCEPT ![l] = SubSeq(@, n + 1, Len(@))]
    BY DEF TakeWriteBatch
<1>2. lane[l] \in Seq(Tries) /\ n \in 1 .. Len(lane[l])
    BY <1>1, EventStoreAssumption DEF StoreInv, StoreTypes
<1> DEFINE first == SubSeq(lane[l], 1, n)
           rest  == SubSeq(lane[l], n + 1, Len(lane[l]))
<1>3. /\ first \in Seq(Tries) /\ rest \in Seq(Tries) /\ Len(rest) = Len(lane[l]) - n
      /\ \A e : Holds(lane[l], e) => Holds(first, e) \/ Holds(rest, e)
    BY <1>2, Parted
<1>4. /\ taken' = [taken EXCEPT ![l] = first] /\ lane' = [lane EXCEPT ![l] = rest]
      /\ writer[l] = "waits" /\ writer' = [writer EXCEPT ![l] = "writing"]
      /\ UNCHANGED <<stored, catalogQueue, catalog, learnt, deadLetters, swept, unplaced, seen,
                     lost>>
    BY <1>1 DEF TakeWriteBatch, catalogVars, storeGhosts
<1> HIDE DEF first, rest
<1>5. StoreTypes'
    <2>1. Len(rest) <= LaneSize
        BY <1>2, <1>3, EventStoreAssumption DEF StoreInv, StoreTypes
    <2> QED  BY <1>3, <1>4, <2>1 DEF StoreInv, StoreTypes
<1>6. KeptPrints' = KeptPrints
    BY <1>4 DEF KeptPrints
<1>7. \A k \in Lanes : k # l => lane'[k] = lane[k] /\ taken'[k] = taken[k] /\ writer'[k] = writer[k]
    BY <1>4 DEF StoreInv, StoreTypes
<1>8. lane'[l] = rest /\ taken'[l] = first /\ writer'[l] = "writing"
    BY <1>4 DEF StoreInv, StoreTypes
<1>9. taken[l] = << >>
    BY <1>4 DEF StoreInv, WriterHolds
<1>10. \A e : ~ Holds(taken[l], e)
    BY <1>9 DEF Holds
<1>11. Booked'
    <2>1. \A e : \A k \in Lanes : Holds(lane[k], e) \/ Holds(taken[k], e) =>
              \E m \in Lanes : Holds(lane'[m], e) \/ Holds(taken'[m], e)
        BY <1>3, <1>7, <1>8, <1>10
    <2> QED  BY <1>4, <1>6, <2>1, MemoryMoves DEF StoreInv
<1>12. WriterHolds'
    BY <1>6, <1>7, <1>8 DEF StoreInv, WriterHolds, AllKept
<1>13. Distinct' /\ Queued' /\ CatalogFollows'
    BY <1>4, <1>6 DEF StoreInv, Distinct, Queued, CatalogFollows
<1> QED  BY <1>5, <1>11, <1>12, <1>13 DEF StoreInv

\* Of the events of a batch with one new fingerprint the first is a new row.
LEMMA NewRowsAre ==
    ASSUME NEW l \in Lanes, taken[l] \in Seq(Tries)
    PROVE  /\ NewRows(l) \subseteq Emissions /\ IsFiniteSet(NewRows(l))
           /\ \A e, f \in NewRows(l) : e.print = f.print => e = f
           /\ \A e \in NewRows(l) : e.print \notin Prints(stored)
           /\ \A i \in DOMAIN taken[l] : taken[l][i][1].print \in Prints(stored \cup NewRows(l))
<1> DEFINE size      == Len(taken[l])
           events    == [i \in DOMAIN taken[l] |-> taken[l][i][1]]
           First(j)  == /\ events[j].print \notin Prints(stored)
                        /\ \A k \in 1 .. j - 1 : events[k].print # events[j].print
           places    == {j \in DOMAIN events : First(j)}
<1>1. /\ size \in Nat /\ DOMAIN taken[l] = 1 .. size /\ DOMAIN events = 1 .. size
      /\ \A i \in 1 .. size : events[i] = taken[l][i][1] /\ events[i] \in Emissions
    BY DEF Tries
<1>2. NewRows(l) = {events[i] : i \in places}
    BY DEF NewRows
<1> HIDE DEF events
<1>3. NewRows(l) \subseteq Emissions
    BY <1>1, <1>2
<1>4. IsFiniteSet(NewRows(l))
    <2> DEFINE f == [i \in places |-> events[i]]
    <2>1. IsFiniteSet(1 .. size)
        BY <1>1, FS_Interval
    <2>2. IsFiniteSet(places)
        BY <1>1, <2>1, FS_Subset
    <2>3. f \in Surjection(places, NewRows(l))
        BY <1>2 DEF Surjection
    <2> HIDE DEF f, places
    <2> QED  BY <2>2, <2>3, FS_Surjection
<1>5. \A e \in NewRows(l) : e.print \notin Prints(stored)
    BY <1>2
<1>6. ASSUME NEW e \in NewRows(l), NEW f \in NewRows(l), e.print = f.print
      PROVE  e = f
    <2>1. PICK i \in places : e = events[i]
        BY <1>2
    <2>2. PICK j \in places : f = events[j]
        BY <1>2
    <2>3. i \in 1 .. size /\ j \in 1 .. size
        BY <1>1
    <2>4. ~ (i < j) /\ ~ (j < i)
        BY <1>6, <2>1, <2>2, <2>3
    <2> QED  BY <1>1, <2>1, <2>2, <2>3, <2>4
<1>7. ASSUME NEW i \in 1 .. size
      PROVE  events[i].print \in Prints(stored \cup NewRows(l))
    <2>1. CASE events[i].print \in Prints(stored)
        BY <2>1 DEF Prints
    <2>2. CASE events[i].print \notin Prints(stored)
        <3> DEFINE same == {j \in 1 .. size : events[j].print = events[i].print}
        <3>1. same \in SUBSET Nat /\ same # {}
            BY <1>1
        <3>2. PICK n \in same : \A m \in same : n <= m
            BY <3>1, LeastNumber
        <3>3. n \in 1 .. size /\ events[n].print = events[i].print
            OBVIOUS
        <3>4. \A k \in 1 .. n - 1 : events[k].print # events[n].print
            <4> SUFFICES ASSUME NEW k \in 1 .. n - 1, events[k].print = events[n].print
                         PROVE  FALSE
                OBVIOUS
            <4>1. k \in 1 .. size /\ k < n /\ k \in Nat /\ n \in Nat
                BY <1>1, <3>3
            <4>2. k \in same
                BY <3>3, <4>1
            <4> QED  BY <3>2, <4>1, <4>2
        <3>5. n \in places
            BY <1>1, <2>2, <3>3, <3>4
        <3>6. events[n] \in NewRows(l)
            BY <1>2, <3>5
        <3> QED  BY <3>3, <3>6 DEF Prints
    <2> QED  BY <2>1, <2>2
<1>8. \A i \in DOMAIN taken[l] : taken[l][i][1].print \in Prints(stored \cup NewRows(l))
    BY <1>1, <1>7
<1> QED  BY <1>3, <1>4, <1>5, <1>6, <1>8

LEMMA InsertKeeps ==
    ASSUME StoreInv, NEW l \in Lanes, InsertRows(l)
    PROVE  StoreInv'
<1>1. taken[l] \in Seq(Tries)
    BY DEF StoreInv, StoreTypes
<1> DEFINE new == NewRows(l)
<1>2. /\ new \subseteq Emissions /\ IsFiniteSet(new)
      /\ \A e, f \in new : e.print = f.print => e = f
      /\ \A e \in new : e.print \notin Prints(stored)
      /\ \A i \in DOMAIN taken[l] : taken[l][i][1].print \in Prints(stored \cup new)
    BY <1>1, NewRowsAre
<1>3. /\ stored' = stored \cup new /\ writer' = [writer EXCEPT ![l] = "sweeping"]
      /\ UNCHANGED <<lane, taken, catalogQueue, catalog, learnt, deadLetters, swept, unplaced,
                     seen, lost>>
    BY DEF InsertRows, catalogVars, storeGhosts
<1> HIDE DEF new
<1>4. IsFiniteSet(stored')
    BY <1>2, <1>3, FS_Union DEF StoreInv, StoreTypes
<1>5. StoreTypes'
    BY <1>2, <1>3, <1>4 DEF StoreInv, StoreTypes
<1>6. Distinct'
    BY <1>2, <1>3 DEF StoreInv, Distinct, Prints
<1>7. KeptPrints \subseteq KeptPrints' /\ Prints(stored \cup new) \subseteq KeptPrints'
    BY <1>3 DEF KeptPrints, Prints
<1>8. WriterHolds'
    <2>1. \A i \in DOMAIN taken[l] : taken[l][i][1].print \in KeptPrints'
        BY <1>2, <1>7
    <2> QED  BY <1>3, <1>7, <2>1 DEF StoreInv, StoreTypes, WriterHolds, AllKept
<1>9. Booked'
    BY <1>3, <1>7, MemoryMoves DEF StoreInv
<1>10. Queued' /\ CatalogFollows'
    BY <1>3, <1>7 DEF StoreInv, Queued, CatalogFollows, KeptPrints
<1> QED  BY <1>5, <1>6, <1>8, <1>9, <1>10 DEF StoreInv

LEMMA SweepKeeps ==
    ASSUME StoreInv, NEW l \in Lanes, SweepOldRows(l)
    PROVE  StoreInv'
<1>1. PICK edge : LET old == {e \in stored : e.at < edge}
                    IN  stored' = stored \ old /\ swept' = swept \cup Prints(old)
    BY DEF SweepOldRows
<1> DEFINE old == {e \in stored : e.at < edge}
<1>2. /\ stored' = stored \ old /\ swept' = swept \cup Prints(old)
      /\ writer[l] = "sweeping" /\ writer' = [writer EXCEPT ![l] = "queueing"]
      /\ UNCHANGED <<lane, taken, catalogQueue, catalog, learnt, deadLetters, unplaced, seen, lost>>
    BY <1>1 DEF SweepOldRows, catalogVars, storeGhosts
<1> HIDE DEF old
<1>3. IsFiniteSet(stored') /\ stored' \subseteq stored
    BY <1>2, FS_Subset DEF StoreInv, StoreTypes
<1>4. StoreTypes'
    BY <1>2, <1>3 DEF StoreInv, StoreTypes
<1>5. KeptPrints \subseteq KeptPrints'
    BY <1>2 DEF KeptPrints, Prints
<1>6. Distinct'
    BY <1>3 DEF StoreInv, Distinct
<1>7. WriterHolds'
    BY <1>2, <1>5 DEF StoreInv, StoreTypes, WriterHolds, AllKept
<1>8. Booked'
    BY <1>2, <1>5, MemoryMoves DEF StoreInv
<1>9. Queued' /\ CatalogFollows'
    BY <1>2, <1>5 DEF StoreInv, Queued, CatalogFollows, KeptPrints
<1> QED  BY <1>4, <1>6, <1>7, <1>8, <1>9 DEF StoreInv

LEMMA QueueKeeps ==
    ASSUME StoreInv, NEW l \in Lanes, QueueCatalogRows(l)
    PROVE  StoreInv'
<1> DEFINE fresh == [i \in DOMAIN taken[l] |-> taken[l][i][1]]
           all  == catalogQueue \o fresh
<1>1. /\ catalogQueue' = IF Len(all) <= CatalogSize THEN all ELSE SubSeq(all, 1, CatalogSize)
      /\ writer[l] = "queueing" /\ writer' = [writer EXCEPT ![l] = "waits"]
      /\ taken' = [taken EXCEPT ![l] = << >>]
      /\ UNCHANGED <<lane, stored, catalog, learnt, deadLetters, swept, unplaced, seen, lost>>
    BY DEF QueueCatalogRows, storeGhosts
<1>2. /\ taken[l] \in Seq(Tries) /\ catalogQueue \in Seq(Emissions)
      /\ AllKept(taken[l])
    BY <1>1 DEF StoreInv, StoreTypes, WriterHolds
<1> DEFINE Fine == {e \in Emissions : e.print \in KeptPrints}
<1>3. fresh \in Seq(Fine)
    <2>1. Len(taken[l]) \in Nat /\ DOMAIN taken[l] = 1 .. Len(taken[l])
        BY <1>2
    <2>2. \A i \in 1 .. Len(taken[l]) : taken[l][i] \in Tries /\ taken[l][i][1] \in Fine
        BY <1>2, <2>1 DEF AllKept, Tries
    <2>3. fresh \in [1 .. Len(taken[l]) -> Fine]
        BY <2>1, <2>2
    <2> QED  BY <2>1, <2>3, SeqDef
<1>4. catalogQueue \in Seq(Fine)
    <2>1. Len(catalogQueue) \in Nat /\ DOMAIN catalogQueue = 1 .. Len(catalogQueue)
        BY <1>2
    <2>2. catalogQueue \in [1 .. Len(catalogQueue) -> Fine]
        BY <1>2, <2>1 DEF StoreInv, Queued
    <2> QED  BY <2>1, <2>2, SeqDef
<1> HIDE DEF fresh
<1>5. all \in Seq(Fine)
    BY <1>3, <1>4
<1> HIDE DEF all
<1>6. SubSeq(all, 1, CatalogSize) \in Seq(Fine) \/ Len(all) <= CatalogSize
    <2>1. Len(all) \in Nat /\ CatalogSize \in Nat /\ \A i \in 1 .. Len(all) : all[i] \in Fine
        BY <1>5, EventStoreAssumption
    <2>2. CASE Len(all) > CatalogSize
        <3>1. \A i \in 1 .. CatalogSize : all[i] \in Fine
            BY <2>1, <2>2
        <3> QED  BY <2>1, <3>1, SubSeqProperties
    <2> QED  BY <2>1, <2>2
<1>7. catalogQueue' \in Seq(Fine)
    BY <1>1, <1>5, <1>6
<1>8. KeptPrints' = KeptPrints
    BY <1>1 DEF KeptPrints
<1>9. Queued' /\ catalogQueue' \in Seq(Emissions)
    <2>1. \A i \in 1 .. Len(catalogQueue') : catalogQueue'[i] \in Fine
        BY <1>7
    <2>2. Len(catalogQueue') \in Nat /\ catalogQueue' \in [1 .. Len(catalogQueue') -> Emissions]
        BY <1>7
    <2>3. DOMAIN catalogQueue' = 1 .. Len(catalogQueue')
        BY <1>7
    <2> QED  BY <1>8, <2>1, <2>2, <2>3, SeqDef DEF Queued
<1>10. StoreTypes'
    BY <1>1, <1>9 DEF StoreInv, StoreTypes
<1>11. WriterHolds'
    BY <1>1, <1>8 DEF StoreInv, StoreTypes, WriterHolds, AllKept
<1>12. Booked'
    <2>1. ASSUME NEW e \in seen, NEW k \in Lanes, Holds(lane[k], e) \/ Holds(taken[k], e)
          PROVE  (\E m \in Lanes : Holds(lane'[m], e) \/ Holds(taken'[m], e)) \/ e.print \in KeptPrints'
        <3>1. CASE Holds(lane[k], e)
            BY <1>1, <3>1
        <3>2. CASE Holds(taken[k], e) /\ k # l
            BY <1>1, <3>2 DEF StoreInv, StoreTypes
        <3>3. CASE Holds(taken[k], e) /\ k = l
            BY <1>2, <1>8, <3>3 DEF Holds, AllKept
        <3> QED  BY <2>1, <3>1, <3>2, <3>3
    <2> QED  BY <1>1, <1>8, <2>1, MemoryMoves DEF StoreInv
<1>13. Distinct' /\ CatalogFollows'
    BY <1>1 DEF StoreInv, Distinct, CatalogFollows
<1> QED  BY <1>9, <1>10, <1>11, <1>12, <1>13 DEF StoreInv

LEMMA FailKeeps ==
    ASSUME StoreInv, NEW l \in Lanes, BatchFails(l)
    PROVE  StoreInv'
<1> DEFINE size      == Len(taken[l])
           places    == Retried(l)
           again     == Cardinality(places)
           room      == LaneSize - Len(lane[l])
           kept      == IF again <= room THEN again ELSE room
           Failed(i) == <<taken[l][i][1], taken[l][i][2] + 1>>
<1>1. PICK pick \in InOrder(places) :
          /\ lane' = [lane EXCEPT ![l] = @ \o [i \in 1 .. kept |-> Failed(pick[i])]]
          /\ unplaced' = unplaced \cup {taken[l][pick[i]][1] : i \in kept + 1 .. again}
    BY DEF BatchFails, RequeueOrDlq
<1>2. /\ deadLetters' = deadLetters \cup {Failed(i) : i \in DOMAIN taken[l] \ places}
      /\ taken' = [taken EXCEPT ![l] = << >>]
      /\ writer' = [writer EXCEPT ![l] = "waits"]
      /\ UNCHANGED <<stored, catalogQueue, catalog, learnt, swept, seen, lost>>
    BY DEF BatchFails, RequeueOrDlq, catalogVars
<1>3. /\ taken[l] \in Seq(Tries) /\ lane[l] \in Seq(Tries) /\ size \in Nat
      /\ DOMAIN taken[l] = 1 .. size /\ room \in Nat
      /\ \A i \in 1 .. size : Failed(i) \in Tries /\ taken[l][i][1] = Failed(i)[1]
    <2>1. taken[l] \in Seq(Tries) /\ lane[l] \in Seq(Tries) /\ Len(lane[l]) <= LaneSize
        BY DEF StoreInv, StoreTypes
    <2>2. size \in Nat /\ DOMAIN taken[l] = 1 .. size /\ room \in Nat
        BY <2>1, EventStoreAssumption
    <2> QED  BY <2>1, <2>2 DEF Tries
<1>4. places \in SUBSET (1 .. size)
    BY <1>3 DEF Retried
<1>5. /\ again \in Nat /\ pick \in [1 .. again -> places]
      /\ \A i \in places : \E j \in 1 .. again : pick[j] = i
    <2>1. size \in Nat /\ places \in SUBSET (1 .. size) /\ pick \in InOrder(places)
        BY <1>3, <1>4
    <2> HIDE DEF places, size
    <2> QED  BY <2>1, OrderNamesAll
<1> HIDE DEF places, again, room, size
<1>6. kept \in Nat /\ kept <= again /\ kept <= room
    BY <1>3, <1>5
<1> HIDE DEF kept
<1> DEFINE back == [i \in 1 .. kept |-> Failed(pick[i])]
<1>7. back \in Seq(Tries) /\ Len(back) = kept
    <2>1. \A i \in 1 .. kept : pick[i] \in 1 .. size
        <3> SUFFICES ASSUME NEW i \in 1 .. kept PROVE pick[i] \in 1 .. size
            OBVIOUS
        <3>1. i \in 1 .. again
            BY <1>5, <1>6
        <3>2. pick[i] \in places
            BY <1>5, <3>1
        <3> QED  BY <1>4, <3>2
    <2>2. back \in [1 .. kept -> Tries]
        BY <1>3, <2>1
    <2>3. back \in Seq(Tries) /\ DOMAIN back = 1 .. kept
        BY <1>6, <2>2, SeqDef
    <2> QED  BY <1>6, <2>3, LenProperties
<1>8. \A i \in places : \/ \E j \in DOMAIN back : back[j] = Failed(i)
                        \/ taken[l][i][1] \in unplaced'
    <2> SUFFICES ASSUME NEW i \in places
                 PROVE  \/ \E j \in DOMAIN back : back[j] = Failed(i)
                        \/ taken[l][i][1] \in unplaced'
        OBVIOUS
    <2>1. PICK j \in 1 .. again : pick[j] = i
        BY <1>5
    <2>2. CASE j <= kept
        <3>1. j \in 1 .. kept
            BY <1>5, <1>6, <2>2
        <3> QED  BY <2>1, <3>1
    <2>3. CASE j > kept
        <3>1. j \in kept + 1 .. again
            BY <1>5, <1>6, <2>3
        <3> QED  BY <1>1, <2>1, <3>1
    <2>4. j <= kept \/ j > kept
        BY <1>5, <1>6
    <2> QED  BY <2>2, <2>3, <2>4
<1> HIDE DEF back
<1> DEFINE longer == lane[l] \o back
<1>9. /\ longer \in Seq(Tries) /\ Len(longer) <= LaneSize
      /\ \A e : Holds(lane[l], e) \/ Holds(back, e) => Holds(longer, e)
    <2>1. /\ longer \in Seq(Tries) /\ Len(longer) = Len(lane[l]) + kept
          /\ Len(lane[l]) \in Nat /\ DOMAIN lane[l] = 1 .. Len(lane[l])
          /\ DOMAIN back = 1 .. kept
          /\ DOMAIN longer = 1 .. Len(lane[l]) + kept
          /\ \A i \in 1 .. Len(lane[l]) : longer[i] = lane[l][i]
          /\ \A i \in 1 .. kept : longer[Len(lane[l]) + i] = back[i]
        <3>1. Len(lane[l]) \in Nat /\ DOMAIN lane[l] = 1 .. Len(lane[l]) /\ DOMAIN back = 1 .. kept
            BY <1>3, <1>7
        <3>2. /\ longer \in Seq(Tries) /\ Len(longer) = Len(lane[l]) + Len(back)
              /\ \A i \in 1 .. Len(lane[l]) + Len(back) :
                    longer[i] = IF i <= Len(lane[l]) THEN lane[l][i] ELSE back[i - Len(lane[l])]
            BY <1>3, <1>7, ConcatProperties
        <3>3. DOMAIN longer = 1 .. Len(lane[l]) + kept
            BY <1>7, <3>2
        <3> HIDE DEF longer
        <3>4. \A i \in 1 .. Len(lane[l]) : longer[i] = lane[l][i]
            BY <1>6, <1>7, <3>1, <3>2
        <3>5. ASSUME NEW i \in 1 .. kept
              PROVE  longer[Len(lane[l]) + i] = back[i]
            <4> DEFINE place == Len(lane[l]) + i
            <4>1. /\ place \in 1 .. Len(lane[l]) + Len(back)
                  /\ ~ (place <= Len(lane[l])) /\ place - Len(lane[l]) = i
                BY <1>6, <1>7, <3>1
            <4> HIDE DEF place
            <4>2. longer[place] = back[i]
                BY <3>2, <4>1
            <4> QED  BY <4>2 DEF place
        <3> QED  BY <1>7, <3>1, <3>2, <3>3, <3>4, <3>5
    <2>2. Len(longer) <= LaneSize
        BY <1>6, <2>1, EventStoreAssumption DEF room
    <2>3. ASSUME NEW e, Holds(lane[l], e) PROVE Holds(longer, e)
        <3>1. PICK i \in 1 .. Len(lane[l]) : lane[l][i][1] = e
            BY <2>1, <2>3 DEF Holds
        <3>2. i \in DOMAIN longer /\ longer[i][1] = e
            BY <1>6, <2>1, <3>1
        <3> QED  BY <3>2 DEF Holds
    <2>4. ASSUME NEW e, Holds(back, e) PROVE Holds(longer, e)
        <3>1. PICK i \in 1 .. kept : back[i][1] = e
            BY <2>1, <2>4 DEF Holds
        <3>2. Len(lane[l]) + i \in DOMAIN longer /\ longer[Len(lane[l]) + i][1] = e
            BY <1>6, <2>1, <3>1
        <3> QED  BY <3>2 DEF Holds
    <2> QED  BY <2>1, <2>2, <2>3, <2>4
<1>10. lane' = [lane EXCEPT ![l] = longer]
    BY <1>1 DEF back
<1> HIDE DEF longer
<1>11. StoreTypes'
    BY <1>2, <1>9, <1>10 DEF StoreInv, StoreTypes
<1>12. KeptPrints' = KeptPrints
    BY <1>2 DEF KeptPrints
<1>13. Booked'
    <2> SUFFICES ASSUME NEW e \in seen, NEW k \in Lanes, Holds(lane[k], e) \/ Holds(taken[k], e)
                 PROVE  \/ \E m \in Lanes : Holds(lane'[m], e) \/ Holds(taken'[m], e)
                        \/ e \in unplaced'
                        \/ \E p \in deadLetters' : p[1] = e
        BY <1>1, <1>2, <1>12, MemoryMoves DEF StoreInv
    <2>1. CASE Holds(lane[k], e)
        BY <1>9, <1>10, <2>1 DEF StoreInv, StoreTypes
    <2>2. CASE Holds(taken[k], e) /\ k # l
        BY <1>2, <2>2 DEF StoreInv, StoreTypes
    <2>3. CASE Holds(taken[k], e) /\ k = l
        <3>1. PICK i \in 1 .. size : taken[l][i][1] = e
            BY <1>3, <2>3 DEF Holds
        <3>2. CASE i \notin places
            <4>1. Failed(i) \in deadLetters' /\ Failed(i)[1] = e
                BY <1>2, <1>3, <3>1, <3>2
            <4> QED  BY <4>1
        <3>3. CASE i \in places /\ \E j \in DOMAIN back : back[j] = Failed(i)
            <4>1. Holds(back, e)
                BY <3>1, <3>3 DEF Holds
            <4>2. lane'[l] = longer
                BY <1>10 DEF StoreInv, StoreTypes
            <4> QED  BY <1>9, <4>1, <4>2
        <3> QED  BY <1>8, <3>1, <3>2, <3>3
    <2> QED  BY <2>1, <2>2, <2>3
<1>14. WriterHolds'
    BY <1>2, <1>12 DEF StoreInv, StoreTypes, WriterHolds, AllKept
<1>15. Distinct' /\ Queued' /\ CatalogFollows'
    BY <1>2, <1>12 DEF StoreInv, Distinct, Queued, CatalogFollows
<1> QED  BY <1>11, <1>13, <1>14, <1>15 DEF StoreInv

LEMMA UpsertKeeps ==
    ASSUME StoreInv, UpsertCatalog \/ UpsertFails
    PROVE  StoreInv'
<1>1. /\ catalogQueue' = << >>
      /\ UNCHANGED <<lane, taken, writer, stored, deadLetters, swept, unplaced, seen, lost>>
    BY DEF UpsertCatalog, UpsertFails, storeGhosts
<1>2. KeptPrints' = KeptPrints
    BY <1>1 DEF KeptPrints
<1>3. StoreTypes' /\ Distinct' /\ WriterHolds' /\ Queued' /\ Booked'
    BY <1>1, <1>2
        DEF StoreInv, StoreTypes, Distinct, WriterHolds, AllKept, Queued, Booked
<1>4. CASE UpsertCatalog
    <2> SUFFICES ASSUME NEW r \in Resources
                 PROVE  /\ catalog'[r] # Unlisted =>
                              \E e \in Emissions : e.resource = r /\ e.print \in KeptPrints
                        /\ r \in learnt' => catalog'[r].named
        BY <1>1, <1>2, <1>3 DEF StoreInv, CatalogFollows, KeptPrints
    <2>1. /\ catalog'[r] = IF r \in Told THEN Upserted(catalog[r], Latest(r)) ELSE catalog[r]
          /\ learnt' = learnt \cup {s \in Told : Latest(s).named}
        BY <1>4 DEF UpsertCatalog
    <2>2. /\ catalog[r] # Unlisted =>
                \E e \in Emissions : e.resource = r /\ e.print \in KeptPrints
          /\ r \in learnt => catalog[r].named
        BY DEF StoreInv, CatalogFollows, KeptPrints
    <2>3. CASE r \in Told
        <3>1. PICK i \in DOMAIN catalogQueue : catalogQueue[i].resource = r
            BY <2>3 DEF Told
        <3>2. catalogQueue[i] \in Emissions /\ catalogQueue[i].print \in KeptPrints
            BY <3>1 DEF StoreInv, StoreTypes, Queued
        <3>3. catalog'[r].named = (Latest(r).named \/ catalog[r].named)
            BY <2>1, <2>3 DEF Upserted
        <3> QED  BY <2>1, <2>2, <3>1, <3>2, <3>3
    <2>4. CASE r \notin Told
        BY <2>1, <2>2, <2>4
    <2> QED  BY <2>3, <2>4
<1>5. CASE UpsertFails
    BY <1>1, <1>2, <1>3, <1>5 DEF UpsertFails, StoreInv, CatalogFollows
<1> QED  BY <1>3, <1>4, <1>5 DEF StoreInv

LEMMA CrashKeeps ==
    ASSUME StoreInv, ForwarderCrash
    PROVE  StoreInv'
<1>1. /\ lane' = [l \in Lanes |-> << >>] /\ taken' = [l \in Lanes |-> << >>]
      /\ writer' = [l \in Lanes |-> "waits"] /\ catalogQueue' = << >>
      /\ lost' = lost \cup InMemory
      /\ UNCHANGED <<stored, catalog, learnt, deadLetters, swept, unplaced, seen>>
    BY DEF ForwarderCrash
<1>2. KeptPrints' = KeptPrints
    BY <1>1 DEF KeptPrints
<1>3. StoreTypes'
    BY <1>1, EventStoreAssumption DEF StoreInv, StoreTypes
<1>4. Booked'
    <2>1. \A e \in seen : \A l \in Lanes : Holds(lane[l], e) \/ Holds(taken[l], e) => e \in lost'
        BY <1>1, MemoryIs
    <2> QED  BY <1>1, <1>2, <2>1, MemoryMoves DEF StoreInv
<1>5. Distinct' /\ WriterHolds' /\ Queued' /\ CatalogFollows'
    BY <1>1, <1>2 DEF StoreInv, Distinct, WriterHolds, Queued, CatalogFollows
<1> QED  BY <1>3, <1>4, <1>5 DEF StoreInv

LEMMA StoreStep == StoreInv /\ [StoreNext]_storeVars => StoreInv'
<1> SUFFICES ASSUME StoreInv, [StoreNext]_storeVars PROVE StoreInv'
    OBVIOUS
<1>1. ASSUME NEW l \in Lanes, NEW e \in Emissions, RouteEvent(l, e) PROVE StoreInv'
    BY <1>1, RouteKeeps
<1>2. ASSUME NEW l \in Lanes, TakeWriteBatch(l) PROVE StoreInv'
    BY <1>2, TakeKeeps
<1>3. ASSUME NEW l \in Lanes, InsertRows(l) PROVE StoreInv'
    BY <1>3, InsertKeeps
<1>4. ASSUME NEW l \in Lanes, SweepOldRows(l) PROVE StoreInv'
    BY <1>4, SweepKeeps
<1>5. ASSUME NEW l \in Lanes, QueueCatalogRows(l) PROVE StoreInv'
    BY <1>5, QueueKeeps
<1>6. ASSUME NEW l \in Lanes, BatchFails(l) PROVE StoreInv'
    BY <1>6, FailKeeps
<1>7. CASE UpsertCatalog \/ UpsertFails
    BY <1>7, UpsertKeeps
<1>8. CASE ForwarderCrash
    BY <1>8, CrashKeeps
<1>9. CASE UNCHANGED storeVars
    BY <1>9 DEF storeVars, catalogVars, storeGhosts, storeBounds, StoreInv, StoreTypes, Distinct,
        WriterHolds, AllKept, Queued, Booked, KeptPrints, CatalogFollows
<1> QED  BY <1>1, <1>2, <1>3, <1>4, <1>5, <1>6, <1>7, <1>8, <1>9 DEF StoreNext

(***************************************************************************)
(* One row per fingerprint, no event out of sight, and a catalog that      *)
(* lists only what was stored and forgets no name: for any number of       *)
(* writers, sizes, retries and events, through failing statements,         *)
(* redeliveries, retention and crashes.                                    *)
(***************************************************************************)
THEOREM StoreIsConsistent == StoreSpec => []StoreConsistent
BY StoreStarts, StoreStep, StoreInvSuffices, PTL DEF StoreSpec

-----------------------------------------------------------------------------
(* The cold archive *)

Cleanups ==
    [at : {"archiving", "deleting"}, cutoff : Cutoffs, days : SUBSET Days, archived : Nat,
     errors : BOOLEAN, late : SUBSET Events, archives : BOOLEAN, deletes : BOOLEAN]

\* What a run that archives has still to upload: the days on its list.  One that deletes
\* has uploaded all it found.
TakenBy(c) ==
    cleaner[c].at # "idle" /\ cleaner[c].archives = TRUE /\ cleaner[c].errors = FALSE =>
        \A e \in table : Before(e, cleaner[c].cutoff) =>
            e \in uploaded \/ e \in cleaner[c].late \/ DayOf(e) \in cleaner[c].days

ArchiveInv ==
    /\ enabled \in BOOLEAN /\ table \subseteq Events
    /\ cleaner \in [Cleaners -> Cleanups \cup {NoCleanup}]
    /\ \A c \in Cleaners : TakenBy(c)
    /\ \A c \in Cleaners : cleaner[c].at = "deleting" /\ cleaner[c].archives = TRUE =>
          cleaner[c].errors = FALSE /\ cleaner[c].days = {}
    /\ UploadedBeforeDeleted

LEMMA ArchiveStep == ArchiveInv /\ [ArchiveNext]_archiveVars => ArchiveInv'
<1> SUFFICES ASSUME ArchiveInv, [ArchiveNext]_archiveVars PROVE ArchiveInv'
    OBVIOUS
<1> USE DEF UploadedBeforeDeleted
<1>0. \A c \in Cleaners : cleaner[c].at # "idle" <=> cleaner[c] \in Cleanups
    BY DEF ArchiveInv, Cleanups, NoCleanup
\* A row that comes is late for every run under way.
<1>1. ASSUME NEW e \in Events, EventArrives(e) PROVE ArchiveInv'
    <2>1. \A c \in Cleaners : cleaner[c].at # "idle" =>
              cleaner'[c] = [cleaner[c] EXCEPT !.late = @ \cup {e}]
        BY <1>1 DEF EventArrives
    <2>2. \A c \in Cleaners : cleaner[c].at = "idle" => cleaner'[c] = NoCleanup
        BY <1>1 DEF EventArrives
    <2>3. /\ table' = table \cup {e} /\ UNCHANGED <<enabled, deleted, uploaded, exempt>>
          /\ cleaner' = [c \in Cleaners |-> cleaner'[c]]
        BY <1>1 DEF EventArrives
    <2>4. \A c \in Cleaners : cleaner[c].at # "idle" =>
              /\ cleaner'[c] \in Cleanups /\ cleaner'[c].late = cleaner[c].late \cup {e}
              /\ cleaner'[c].at = cleaner[c].at /\ cleaner'[c].archives = cleaner[c].archives
              /\ cleaner'[c].errors = cleaner[c].errors /\ cleaner'[c].days = cleaner[c].days
              /\ cleaner'[c].cutoff = cleaner[c].cutoff
        <3> SUFFICES ASSUME NEW c \in Cleaners, cleaner[c].at # "idle"
                     PROVE  /\ [cleaner[c] EXCEPT !.late = @ \cup {e}] \in Cleanups
                            /\ cleaner'[c].late = cleaner[c].late \cup {e}
                            /\ cleaner'[c].at = cleaner[c].at /\ cleaner'[c].archives = cleaner[c].archives
                            /\ cleaner'[c].errors = cleaner[c].errors /\ cleaner'[c].days = cleaner[c].days
                            /\ cleaner'[c].cutoff = cleaner[c].cutoff
            BY <2>1
        <3>1. cleaner[c] \in Cleanups /\ cleaner'[c] = [cleaner[c] EXCEPT !.late = @ \cup {e}]
            BY <1>0, <2>1
        <3>2. cleaner[c].late \cup {e} \in SUBSET Events
            BY <1>1, <3>1 DEF Cleanups
        <3> QED  BY <3>1, <3>2 DEF Cleanups
    <2>5. cleaner' \in [Cleaners -> Cleanups \cup {NoCleanup}]
        BY <2>2, <2>3, <2>4
    <2>6. \A c \in Cleaners : TakenBy(c)'
        BY <2>2, <2>3, <2>4 DEF ArchiveInv, TakenBy, NoCleanup
    <2>7. \A c \in Cleaners : cleaner'[c].at = "deleting" /\ cleaner'[c].archives = TRUE =>
              cleaner'[c].errors = FALSE /\ cleaner'[c].days = {}
        BY <2>2, <2>4 DEF ArchiveInv, NoCleanup
    <2> QED  BY <2>3, <2>5, <2>6, <2>7 DEF ArchiveInv
<1>2. CASE Configure
    BY <1>2 DEF Configure, ArchiveInv, TakenBy
\* A run begins with every day that has a row before its cutoff, or archives nothing.
<1>3. ASSUME NEW c \in Cleaners, NEW cutoff \in Cutoffs,
             BeginCleanup(c, cutoff) \/ BeginUnarchived(c, cutoff) \/ RouteArchives(c, cutoff)
      PROVE  ArchiveInv'
    <2>1. PICK run \in Cleanups :
              /\ cleaner' = [cleaner EXCEPT ![c] = run]
              /\ run.cutoff = cutoff
              /\ run.archives = TRUE => run.days = DaysBefore(cutoff) /\ run.at = "archiving"
        <3>1. DaysBefore(cutoff) \subseteq Days
            BY DEF DaysBefore, Days, ArchiveInv
        <3>2. CASE BeginCleanup(c, cutoff)
            <4>1. CASE enabled = TRUE
                <5> DEFINE run == [at |-> "archiving", cutoff |-> cutoff, days |-> DaysBefore(cutoff),
                       archived |-> 0, errors |-> FALSE, late |-> {}, archives |-> TRUE, deletes |-> TRUE]
                <5>1. run \in Cleanups
                    BY <3>1 DEF Cleanups
                <5>2. cleaner' = [cleaner EXCEPT ![c] = run]
                    BY <3>2, <4>1 DEF BeginCleanup
                <5> QED  BY <5>1, <5>2
            <4>2. CASE enabled = FALSE
                <5> DEFINE run == [at |-> "deleting", cutoff |-> cutoff, days |-> {},
                       archived |-> 0, errors |-> FALSE, late |-> {}, archives |-> FALSE, deletes |-> TRUE]
                <5>1. run \in Cleanups
                    BY DEF Cleanups
                <5>2. cleaner' = [cleaner EXCEPT ![c] = run]
                    BY <3>2, <4>2 DEF BeginCleanup
                <5> QED  BY <5>1, <5>2
            <4> QED  BY <4>1, <4>2 DEF ArchiveInv
        <3>3. CASE BeginUnarchived(c, cutoff)
            <4> DEFINE run == [at |-> "deleting", cutoff |-> cutoff, days |-> {}, archived |-> 0,
                   errors |-> FALSE, late |-> {}, archives |-> FALSE, deletes |-> TRUE]
            <4>1. run \in Cleanups /\ cleaner' = [cleaner EXCEPT ![c] = run]
                BY <3>3 DEF BeginUnarchived, Cleanups
            <4> QED  BY <4>1
        <3>4. CASE RouteArchives(c, cutoff)
            <4> DEFINE run == [at |-> "archiving", cutoff |-> cutoff, days |-> DaysBefore(cutoff),
                   archived |-> 0, errors |-> FALSE, late |-> {}, archives |-> TRUE, deletes |-> FALSE]
            <4>1. run \in Cleanups /\ cleaner' = [cleaner EXCEPT ![c] = run]
                BY <3>1, <3>4 DEF RouteArchives, Cleanups
            <4> QED  BY <4>1
        <3> QED  BY <1>3, <3>2, <3>3, <3>4
    <2>2. UNCHANGED <<enabled, table, deleted, uploaded, exempt>>
        BY <1>3 DEF BeginCleanup, BeginUnarchived, RouteArchives
    <2>3. /\ cleaner'[c] = run /\ \A d \in Cleaners \ {c} : cleaner'[d] = cleaner[d]
          /\ cleaner' \in [Cleaners -> Cleanups \cup {NoCleanup}]
        BY <2>1 DEF ArchiveInv
    <2>4. TakenBy(c)'
        <3>1. \A e \in table : Before(e, cutoff) => DayOf(e) \in DaysBefore(cutoff)
            BY DEF DaysBefore
        <3> QED  BY <2>1, <2>2, <2>3, <3>1 DEF TakenBy
    <2>5. \A d \in Cleaners \ {c} : TakenBy(d)'
        BY <2>2, <2>3 DEF TakenBy, ArchiveInv
    <2> QED  BY <2>1, <2>2, <2>3, <2>4, <2>5 DEF ArchiveInv
<1>4. ASSUME NEW c \in Cleaners, UploadDay(c) PROVE ArchiveInv'
    <2>1. PICK day :
              /\ uploaded' = uploaded \cup {e \in table : DayOf(e) = day}
              /\ cleaner' = [cleaner EXCEPT ![c].days = @ \ {day}, ![c].archived = @ + 1]
        BY <1>4 DEF UploadDay, RowsOf
    <2>2. cleaner[c] \in Cleanups /\ cleaner[c].at = "archiving" /\ UNCHANGED <<enabled, table, deleted, exempt>>
        BY <1>0, <1>4 DEF UploadDay
    <2>3. /\ cleaner' \in [Cleaners -> Cleanups \cup {NoCleanup}]
          /\ \A d \in Cleaners \ {c} : cleaner'[d] = cleaner[d]
          /\ cleaner'[c].at = "archiving" /\ cleaner'[c].archives = cleaner[c].archives
          /\ cleaner'[c].errors = cleaner[c].errors /\ cleaner'[c].days = cleaner[c].days \ {day}
          /\ cleaner'[c].cutoff = cleaner[c].cutoff /\ cleaner'[c].late = cleaner[c].late
        BY <2>1, <2>2 DEF ArchiveInv, Cleanups
    <2>4. \A d \in Cleaners : TakenBy(d)'
        BY <2>1, <2>2, <2>3 DEF TakenBy, ArchiveInv
    <2> QED  BY <2>1, <2>2, <2>3, <2>4 DEF ArchiveInv
<1>5. ASSUME NEW c \in Cleaners, UploadFails(c) PROVE ArchiveInv'
    <2>1. PICK day : cleaner' = [cleaner EXCEPT ![c].days = @ \ {day}, ![c].errors = TRUE]
        BY <1>5 DEF UploadFails
    <2>2. /\ cleaner[c] \in Cleanups /\ cleaner[c].at = "archiving"
          /\ UNCHANGED <<enabled, table, deleted, uploaded, exempt>>
        BY <1>0, <1>5 DEF UploadFails
    <2>3. /\ cleaner' \in [Cleaners -> Cleanups \cup {NoCleanup}]
          /\ \A d \in Cleaners \ {c} : cleaner'[d] = cleaner[d]
          /\ cleaner'[c].at = "archiving" /\ cleaner'[c].errors = TRUE
        BY <2>1, <2>2 DEF ArchiveInv, Cleanups
    <2> QED  BY <2>2, <2>3 DEF TakenBy, ArchiveInv
<1>6. ASSUME NEW c \in Cleaners, EndArchive(c) PROVE ArchiveInv'
    <2>1. /\ cleaner[c] \in Cleanups /\ cleaner[c].days = {}
          /\ UNCHANGED <<enabled, table, deleted, uploaded, exempt>>
        BY <1>0, <1>6 DEF EndArchive
    <2>2. CASE cleaner[c].errors = TRUE \/ cleaner[c].deletes = FALSE
        <3>1. cleaner' = [cleaner EXCEPT ![c] = NoCleanup]
            BY <1>6, <2>2 DEF EndArchive
        <3> QED  BY <2>1, <3>1 DEF TakenBy, ArchiveInv, NoCleanup
    <2>3. CASE cleaner[c].errors = FALSE /\ cleaner[c].deletes = TRUE
        <3>1. cleaner' = [cleaner EXCEPT ![c] = [cleaner[c] EXCEPT !.at = "deleting"]]
            BY <1>6, <2>3 DEF EndArchive
        <3>2. /\ cleaner' \in [Cleaners -> Cleanups \cup {NoCleanup}]
              /\ \A d \in Cleaners \ {c} : cleaner'[d] = cleaner[d]
              /\ cleaner'[c].archives = cleaner[c].archives
              /\ cleaner'[c].errors = cleaner[c].errors /\ cleaner'[c].days = cleaner[c].days
              /\ cleaner'[c].cutoff = cleaner[c].cutoff /\ cleaner'[c].late = cleaner[c].late
            BY <2>1, <3>1 DEF ArchiveInv, Cleanups
        <3>3. cleaner[c].at # "idle"
            BY <1>6 DEF EndArchive
        <3> QED  BY <2>1, <2>3, <3>2, <3>3 DEF TakenBy, ArchiveInv
    <2> QED  BY <2>1, <2>2, <2>3 DEF Cleanups
\* A run that archives deletes what it uploaded, or what came late.
<1>7. ASSUME NEW c \in Cleaners, DeleteRows(c) PROVE ArchiveInv'
    <2>1. PICK bunch \in SUBSET {e \in table : Before(e, cleaner[c].cutoff)} :
              /\ table' = table \ bunch /\ deleted' = deleted \cup bunch
              /\ exempt' = exempt \cup (IF cleaner[c].archives THEN bunch \cap cleaner[c].late
                                        ELSE bunch)
              /\ cleaner' \in {cleaner, [cleaner EXCEPT ![c] = NoCleanup]}
        BY <1>7 DEF DeleteRows
    <2>2. cleaner[c] \in Cleanups /\ cleaner[c].at = "deleting" /\ UNCHANGED <<enabled, uploaded>>
        BY <1>0, <1>7 DEF DeleteRows
    <2>3. bunch \subseteq uploaded \cup exempt'
        <3>1. CASE cleaner[c].archives = TRUE
            BY <2>1, <2>2, <3>1 DEF ArchiveInv, TakenBy
        <3>2. CASE cleaner[c].archives = FALSE
            BY <2>1, <3>2
        <3> QED  BY <2>2, <3>1, <3>2 DEF Cleanups
    <2>4. /\ cleaner' \in [Cleaners -> Cleanups \cup {NoCleanup}]
          /\ \A d \in Cleaners : cleaner'[d] = cleaner[d] \/ cleaner'[d] = NoCleanup
        BY <2>1 DEF ArchiveInv
    <2>5. \A d \in Cleaners : TakenBy(d)'
        BY <2>1, <2>2, <2>4 DEF ArchiveInv, TakenBy, NoCleanup
    <2> QED  BY <2>1, <2>2, <2>3, <2>4, <2>5 DEF ArchiveInv, NoCleanup
<1>8. ASSUME NEW cutoff \in Cutoffs, WriterSweeps(cutoff) PROVE ArchiveInv'
    <2>1. /\ table' \subseteq table /\ UNCHANGED <<enabled, cleaner, uploaded>>
          /\ deleted' \subseteq deleted \cup exempt' /\ exempt \subseteq exempt'
        BY <1>8 DEF WriterSweeps
    <2> QED  BY <2>1 DEF ArchiveInv, TakenBy
<1>9. ASSUME NEW c \in Cleaners, CleanupDies(c) PROVE ArchiveInv'
    <2>1. /\ cleaner' = [cleaner EXCEPT ![c] = NoCleanup]
          /\ UNCHANGED <<enabled, table, deleted, uploaded, exempt>>
        BY <1>9 DEF CleanupDies
    <2> QED  BY <2>1 DEF ArchiveInv, TakenBy, NoCleanup
<1>10. CASE UNCHANGED archiveVars
    BY <1>10 DEF archiveVars, ArchiveInv, TakenBy
<1> QED  BY <1>1, <1>2, <1>3, <1>4, <1>5, <1>6, <1>7, <1>8, <1>9, <1>10 DEF ArchiveNext

\* A run that archives deletes no row that was there when it began and that no upload took.
THEOREM UploadComesFirst == ArchiveSpec => []UploadedBeforeDeleted
<1>1. ArchiveInit => ArchiveInv
    BY DEF ArchiveInit, ArchiveInv, TakenBy, UploadedBeforeDeleted, NoCleanup
<1>2. ArchiveInv => UploadedBeforeDeleted
    BY DEF ArchiveInv
<1> QED  BY <1>1, <1>2, ArchiveStep, PTL DEF ArchiveSpec

-----------------------------------------------------------------------------
(* The collector *)

\* Where a message is that parses: with the process, in a file, or lost in a named way.
Collected(e) ==
    \/ e \in buffer \cup {inHand}
    \/ \E n \in Names : e \in files[n]
    \/ e \in overwritten \cup lostAtDeath

\* What poll returned is collected, and what is committed too: the position may be either's.
CollectorInv ==
    /\ second \in 0 .. LastSecond /\ position \in 0 .. TopicEnd /\ committed \in 0 .. TopicEnd
    /\ inHand \in 0 .. TopicEnd /\ buffer \subseteq Messages /\ files \in [Names -> SUBSET Messages]
    /\ running \in {"yes", "leaving", "down"}
    /\ running = "leaving" => inHand = 0
    /\ \A e \in Messages \ Malformed : e <= position \/ e <= committed => Collected(e)

LEMMA NameIsKnown == CollectorInv => <<second, Cardinality(buffer)>> \in Names
<1> SUFFICES ASSUME CollectorInv PROVE Cardinality(buffer) \in 0 .. TopicEnd
    BY DEF CollectorInv, Names
<1>1. IsFiniteSet(Messages) /\ Cardinality(Messages) = TopicEnd
    <2>1. TopicEnd \in Int /\ TopicEnd >= 0
        BY CollectorAssumption
    <2> QED  BY <2>1, FS_Interval DEF Messages
<1> QED  BY <1>1, FS_Subset, FS_CardinalityType, CollectorAssumption DEF CollectorInv

\* A file written over another's name leaves every message of both accounted for.
LEMMA FileKeeps ==
    ASSUME CollectorInv, WriteFile
    PROVE  /\ files' \in [Names -> SUBSET Messages]
           /\ overwritten \subseteq overwritten'
           /\ \A e : e \in buffer \/ (\E n \in Names : e \in files[n]) =>
                 (\E n \in Names : e \in files'[n]) \/ e \in overwritten'
<1> DEFINE name == <<second, Cardinality(buffer)>>
<1>1. name \in Names /\ files \in [Names -> SUBSET Messages] /\ buffer \subseteq Messages
    BY NameIsKnown DEF CollectorInv
<1>2. files' = [files EXCEPT ![name] = buffer] /\ overwritten' = overwritten \cup (files[name] \ buffer)
    BY DEF WriteFile
<1> HIDE DEF name
<1>3. files'[name] = buffer /\ \A n \in Names \ {name} : files'[n] = files[n]
    BY <1>1, <1>2
<1> QED  BY <1>1, <1>2, <1>3

LEMMA CollectorStep == CollectorInv /\ [CollectorNext]_collectorVars => CollectorInv'
<1> SUFFICES ASSUME CollectorInv, [CollectorNext]_collectorVars PROVE CollectorInv'
    OBVIOUS
<1> USE CollectorAssumption
<1>1. CASE Poll
    BY <1>1 DEF Poll, CollectorInv, Collected, Messages
<1>2. CASE TakeIn
    BY <1>2 DEF TakeIn, CollectorInv, Collected, Messages
<1>3. CASE AutoCommit \/ Close \/ StopCollector \/ RestartCollector \/ SecondPasses
    <2>1. /\ UNCHANGED <<inHand, buffer, files, overwritten, lostAtDeath>>
          /\ second' \in 0 .. LastSecond /\ running' \in {"yes", "leaving", "down"}
          /\ running' = "leaving" => inHand = 0
          /\ position' \in {position, committed} /\ committed' \in {position, committed}
        BY <1>3 DEF AutoCommit, Close, StopCollector, RestartCollector, SecondPasses, CollectorInv
    <2> QED  BY <2>1 DEF CollectorInv, Collected
<1>4. CASE Flush
    <2>1. /\ WriteFile /\ buffer' = {}
          /\ UNCHANGED <<second, running, position, committed, inHand, lostAtDeath>>
        BY <1>4 DEF Flush
    <2> QED  BY <2>1, FileKeeps DEF CollectorInv, Collected
<1>5. CASE FlushFails
    <2>1. /\ buffer' \subseteq buffer /\ buffer \subseteq buffer' \cup lostAtDeath'
          /\ lostAtDeath \subseteq lostAtDeath'
          /\ running' \in {"leaving", "down"} /\ (running' = "leaving" => inHand = 0)
          /\ UNCHANGED <<second, position, committed, inHand>>
        BY <1>5 DEF FlushFails, FlushDue, FinalFlushDue
    <2>2. /\ files' \in [Names -> SUBSET Messages] /\ overwritten \subseteq overwritten'
          /\ \A e : (\E n \in Names : e \in files[n]) =>
                (\E n \in Names : e \in files'[n]) \/ e \in overwritten'
        <3>1. WriteFile \/ UNCHANGED <<files, overwritten>>
            BY <1>5 DEF FlushFails
        <3> QED  BY <3>1, FileKeeps DEF CollectorInv
    <2> QED  BY <2>1, <2>2 DEF CollectorInv, Collected
<1>6. CASE Killed
    BY <1>6 DEF Killed, CollectorInv, Collected, Messages
<1>7. CASE UNCHANGED collectorVars
    BY <1>7 DEF collectorVars, CollectorInv, Collected
<1> QED  BY <1>1, <1>2, <1>3, <1>4, <1>5, <1>6, <1>7 DEF CollectorNext

\* No message is committed that no file, no live process and no named loss accounts for.
THEOREM CommittedStaysCollected == CollectorSpec => []CommittedIsCollected
<1>1. CollectorInit => CollectorInv
    BY CollectorAssumption DEF CollectorInit, CollectorInv, Messages
<1>2. CollectorInv => CommittedIsCollected
    BY DEF CollectorInv, CommittedIsCollected, Collected
<1> QED  BY <1>1, <1>2, CollectorStep, PTL DEF CollectorSpec

-----------------------------------------------------------------------------
(* The hot cache *)

\* Where the files are at each step of a rotation.
FilesInPlace ==
    /\ rotation \in {"none", "copying", "copied", "closed", "swappedOut", "swappedIn"}
    /\ ~ db.there => db.rows = {}
    /\ ~ newFile.there => newFile.rows = {}
    /\ rotation \in {"none", "copying", "swappedIn"} => ~ newFile.there
    /\ rotation \notin {"swappedOut", "swappedIn"} => oldFile = Absent

CacheInv ==
    /\ FilesInPlace
    /\ owed \subseteq db.rows \cup oldFile.rows \cup leftovers
    /\ rotation = "swappedIn" => owed \subseteq db.rows \cup leftovers
    /\ rotation = "none" /\ ~ conn => ~ db.there /\ degraded /\ owed \subseteq leftovers

LEMMA CacheStep == CacheInv /\ [CacheNext]_cacheVars => CacheInv'
<1> SUFFICES ASSUME CacheInv, [CacheNext]_cacheVars PROVE CacheInv'
    OBVIOUS
<1> USE DEF CacheInv, FilesInPlace, onDisk, ghosts, LockFree, Absent, FileOf
<1>1. CASE Offer \/ DecideWrite \/ EnforceBounds \/ Vacuum \/ (\E due \in BOOLEAN : CheckSize(due))
    <2>1. /\ UNCHANGED <<db, newFile, oldFile, conn, degraded, ghosts>>
          /\ rotation' = rotation \/ (rotation = "none" /\ rotation' = "copying")
        BY <1>1 DEF Offer, DecideWrite, EnforceBounds, Vacuum, CheckSize
    <2> QED  BY <2>1
<1>2. CASE WriteRow
    BY <1>2 DEF WriteRow
<1>3. CASE CleanUp
    <2>1. PICK old :
              /\ db' = FileOf(db.rows \ old) /\ owed' = owed \ old
              /\ UNCHANGED <<newFile, oldFile, conn, degraded, leftovers>>
              /\ conn /\ rotation = "none" /\ rotation' \in {"none", "copying"}
        BY <1>3 DEF CleanUp
    <2> QED  BY <2>1
<1>4. CASE CopyRows
    BY <1>4 DEF CopyRows
<1>5. CASE CloseConnection
    BY <1>5 DEF CloseConnection
<1>6. CASE SwapOut
    BY <1>6 DEF SwapOut
<1>7. CASE SwapIn
    BY <1>7 DEF SwapIn
<1>8. CASE CompleteRotation
    BY <1>8 DEF CompleteRotation
<1>9. CASE RotationFails
    BY <1>9 DEF RotationFails
<1>10. CASE RestartCache
    <2>1. /\ leftovers' = leftovers \cup oldFile.rows \cup newFile.rows
          /\ newFile' = Absent /\ oldFile' = Absent /\ conn' = TRUE /\ rotation' = "none"
          /\ \/ db' = FileOf(db.rows) /\ owed' = owed
             \/ db' = db /\ owed' = owed
             \/ db' = FileOf({}) /\ owed' = owed \ db.rows
        BY <1>10 DEF RestartCache
    <2> QED  BY <2>1
<1>11. CASE UNCHANGED cacheVars
    BY <1>11 DEF cacheVars
<1> QED
    BY <1>1, <1>2, <1>3, <1>4, <1>5, <1>6, <1>7, <1>8, <1>9, <1>10, <1>11 DEF CacheNext, RotationStep

\* No failing file operation and no death in a rotation loses a row that was to stay.
THEOREM RotationsRecover == CacheSpec => []RotationRecovers
<1>1. CacheInit => CacheInv
    BY DEF CacheInit, CacheInv, FilesInPlace, Absent, FileOf
<1>2. CacheInv => RotationRecovers
    BY DEF CacheInv, FilesInPlace, RotationRecovers, LockFree, Absent
<1> QED  BY <1>1, <1>2, CacheStep, PTL DEF CacheSpec

-----------------------------------------------------------------------------
(* The sinks *)

\* Accounted for, or gone in one of the ways the code cannot tell of.
Settled(e, s) == e \in gone \/ Accounted(e, s)

SinkSets ==
    /\ sent \in 0 .. LastSent
    /\ batch \in [WriteCalls -> SUBSET (1 .. sent)] /\ failed \in [WriteCalls -> SUBSET (1 .. sent)]
    /\ waiting \in [WriteCalls -> SUBSET AllSinks]
    /\ held \in [AllSinks \cup {"dlq"} -> SUBSET (1 .. sent)]
    /\ landed \in [AllSinks \cup {"dlq"} -> SUBSET (1 .. sent)]
    /\ returned \subseteq 1 .. sent

\* A sink whose task has run has settled the events of the call, before the call returns.
SinksInv ==
    /\ SinkSets
    /\ \A c \in WriteCalls : \A e \in batch[c], s \in AllSinks \ waiting[c] : Settled(e, s)
    /\ \A e \in returned, s \in AllSinks : Settled(e, s)

LEMMA PutIn ==
    ASSUME NEW D, NEW S, NEW f \in [D -> SUBSET S], NEW d \in D, NEW T \in SUBSET S
    PROVE  [f EXCEPT ![d] = T] \in [D -> SUBSET S]
OBVIOUS

LEMMA SinkNames == AllSinks = Buckets \cup {"kafka"} /\ "dlq" \notin AllSinks /\ "kafka" \notin Buckets
BY SinksAssumption DEF AllSinks

\* Of the failed events of an id the first is written to the dead letter queue.
LEMMA OneOfEach ==
    ASSUME NEW S \in SUBSET (1 .. LastSent), NEW e \in S
    PROVE  \E d \in OncePerId(S) : IdOf[d] = IdOf[e]
<1> DEFINE T == {d \in S : IdOf[d] = IdOf[e]}
<1>1. T \in SUBSET Nat /\ T # {}
    <2>1. LastSent \in Nat
        BY SinksAssumption
    <2>2. \A d \in S : d \in Nat
        BY <2>1
    <2> QED  BY <2>2
<1>2. PICK d \in T : \A f \in T : d <= f
    BY <1>1, LeastNumber
<1> QED  BY <1>2 DEF OncePerId

\* What is settled stays so when every place it may be in keeps it or names where it went.
LEMMA SettledStays ==
    ASSUME NEW e, NEW s \in AllSinks, Settled(e, s), gone \subseteq gone',
           e \in landed[s] \cup held[s] => Settled(e, s)',
           \A c \in WriteCalls : e \in failed[c] => Settled(e, s)',
           \A d \in landed["dlq"] \cup held["dlq"] : IdOf[d] = IdOf[e] => Settled(e, s)'
    PROVE  Settled(e, s)'
<1>1. CASE e \in gone
    BY <1>1 DEF Settled
<1>2. CASE Accounted(e, s)
    BY <1>2 DEF Accounted
<1> QED  BY <1>1, <1>2 DEF Settled

\* Growing is enough.
LEMMA SettledGrows ==
    ASSUME SinkSets, NEW e, NEW s \in AllSinks, Settled(e, s), gone \subseteq gone',
           \A z \in AllSinks \cup {"dlq"} : landed[z] \cup held[z] \subseteq landed'[z] \cup held'[z],
           \A c \in WriteCalls : failed[c] \subseteq failed'[c]
    PROVE  Settled(e, s)'
BY DEF Settled, Accounted

LEMMA WriteKeeps ==
    ASSUME SinksInv, NEW c \in WriteCalls, Write(c)
    PROVE  SinksInv'
<1>1. /\ sent' \in 0 .. LastSent /\ sent <= sent'
      /\ batch' = [batch EXCEPT ![c] = sent + 1 .. sent']
      /\ waiting' = [waiting EXCEPT ![c] = AllSinks]
      /\ UNCHANGED <<failed, held, landed, returned, gone>>
    BY SinksAssumption DEF Write, SinksInv, SinkSets
<1>2. 1 .. sent \subseteq 1 .. sent' /\ sent + 1 .. sent' \subseteq 1 .. sent'
    BY <1>1 DEF SinksInv, SinkSets
<1>3. SinkSets'
    BY <1>1, <1>2 DEF SinksInv, SinkSets
<1>4. \A e, s : Settled(e, s) => Settled(e, s)'
    BY <1>1 DEF Settled, Accounted
<1>5. \A d \in WriteCalls : \A e \in batch'[d], s \in AllSinks \ waiting'[d] : Settled(e, s)'
    <2> SUFFICES ASSUME NEW d \in WriteCalls, NEW e \in batch'[d], NEW s \in AllSinks \ waiting'[d]
                 PROVE  Settled(e, s)'
        OBVIOUS
    <2>1. d # c /\ batch'[d] = batch[d] /\ waiting'[d] = waiting[d]
        BY <1>1 DEF SinksInv, SinkSets
    <2> QED  BY <1>4, <2>1 DEF SinksInv
<1> QED  BY <1>1, <1>3, <1>4, <1>5 DEF SinksInv

\* One task of a call has run: the call's events are settled at its sink.
LEMMA TaskKeeps ==
    ASSUME SinksInv, NEW c \in WriteCalls, NEW s \in AllSinks, SinkSets',
           waiting' = [waiting EXCEPT ![c] = @ \ {s}],
           UNCHANGED <<batch, returned>>,
           \A e \in batch[c] : Settled(e, s)',
           \A e : \A z \in AllSinks : Settled(e, z) => Settled(e, z)'
    PROVE  SinksInv'
<1>1. \A d \in WriteCalls : \A e \in batch'[d], z \in AllSinks \ waiting'[d] : Settled(e, z)'
    <2> SUFFICES ASSUME NEW d \in WriteCalls, NEW e \in batch'[d], NEW z \in AllSinks \ waiting'[d]
                 PROVE  Settled(e, z)'
        OBVIOUS
    <2>1. CASE z \notin waiting[d]
        BY <2>1 DEF SinksInv
    <2>2. CASE z \in waiting[d]
        <3>1. d = c /\ z = s
            BY <2>2 DEF SinksInv, SinkSets
        <3> QED  BY <3>1
    <2> QED  BY <2>1, <2>2
<1> QED  BY <1>1 DEF SinksInv


LEMMA WriteKafkaKeeps ==
    ASSUME SinksInv, NEW c \in WriteCalls, WriteKafka(c)
    PROVE  SinksInv'
<1>1. PICK bad \in SUBSET batch[c] :
          /\ failed' = [failed EXCEPT ![c] = @ \cup bad]
          /\ held' = [held EXCEPT !["kafka"] = @ \cup (batch[c] \ bad)]
    BY DEF WriteKafka
<1>2. /\ waiting' = [waiting EXCEPT ![c] = @ \ {"kafka"}]
      /\ UNCHANGED <<sent, batch, landed, returned, gone>>
    BY DEF WriteKafka
<1>3. "kafka" \in AllSinks /\ SinkSets'
    BY <1>1, <1>2 DEF SinksInv, SinkSets, AllSinks
<1>4. \A e : \A z \in AllSinks : Settled(e, z) => Settled(e, z)'
    <2>1. /\ \A z \in AllSinks \cup {"dlq"} : landed[z] \cup held[z] \subseteq landed'[z] \cup held'[z]
          /\ \A d \in WriteCalls : failed[d] \subseteq failed'[d]
        BY <1>1, <1>2 DEF SinksInv, SinkSets
    <2> QED  BY <1>2, <2>1, SettledGrows DEF SinksInv
<1>5. \A e \in batch[c] : Settled(e, "kafka")'
    <2>1. \A e \in batch[c] : e \in failed'[c] \/ e \in held'["kafka"]
        BY <1>1, <1>3 DEF SinksInv, SinkSets
    <2> QED  BY <2>1 DEF Settled, Accounted
<1> QED  BY <1>2, <1>3, <1>4, <1>5, TaskKeeps

LEMMA WriteBucketKeeps ==
    ASSUME SinksInv, NEW c \in WriteCalls, NEW b \in Buckets, WriteBucket(c, b)
    PROVE  SinksInv'
<1> DEFINE merged == held[b] \cup batch[c]
<1>1. /\ waiting' = [waiting EXCEPT ![c] = @ \ {b}]
      /\ UNCHANGED <<sent, batch, returned, gone>>
      /\ b \in AllSinks /\ b # "dlq"
    BY SinkNames DEF WriteBucket
<1>2. \/ held' = [held EXCEPT ![b] = merged] /\ UNCHANGED <<landed, failed>>
      \/ /\ held' = [held EXCEPT ![b] = {}]
         /\ landed' = [landed EXCEPT ![b] = @ \cup merged] /\ UNCHANGED failed
      \/ /\ held' = [held EXCEPT ![b] = {}]
         /\ failed' = [failed EXCEPT ![c] = @ \cup merged] /\ UNCHANGED landed
    BY DEF WriteBucket, Upload
<1>3. merged \subseteq 1 .. sent
    BY <1>1 DEF SinksInv, SinkSets
<1> HIDE DEF merged
<1>4. SinkSets'
    <2>1. /\ held' \in [AllSinks \cup {"dlq"} -> SUBSET (1 .. sent)]
          /\ landed' \in [AllSinks \cup {"dlq"} -> SUBSET (1 .. sent)]
        <3>1. held[b] \subseteq 1 .. sent /\ landed[b] \cup merged \in SUBSET (1 .. sent)
            BY <1>1, <1>3 DEF SinksInv, SinkSets
        <3>2. /\ held \in [AllSinks \cup {"dlq"} -> SUBSET (1 .. sent)] /\ {} \in SUBSET (1 .. sent)
              /\ landed \in [AllSinks \cup {"dlq"} -> SUBSET (1 .. sent)] /\ b \in AllSinks \cup {"dlq"}
            BY <1>1 DEF SinksInv, SinkSets
        <3>3. CASE held' = [held EXCEPT ![b] = merged] /\ landed' = landed
            BY <1>3, <3>2, <3>3, PutIn
        <3>4. CASE held' = [held EXCEPT ![b] = {}] /\ landed' = [landed EXCEPT ![b] = @ \cup merged]
            BY <3>1, <3>2, <3>4, PutIn
        <3>5. CASE held' = [held EXCEPT ![b] = {}] /\ landed' = landed
            BY <3>2, <3>5, PutIn
        <3> QED  BY <1>2, <3>3, <3>4, <3>5
    <2>2. failed' \in [WriteCalls -> SUBSET (1 .. sent)]
        <3>1. failed[c] \cup merged \in SUBSET (1 .. sent)
            BY <1>3 DEF SinksInv, SinkSets
        <3> QED  BY <1>2, <3>1, PutIn DEF SinksInv, SinkSets
    <2>3. waiting' \in [WriteCalls -> SUBSET AllSinks]
        BY <1>1 DEF SinksInv, SinkSets
    <2> QED  BY <1>1, <2>1, <2>2, <2>3 DEF SinksInv, SinkSets
<1>5. \A e \in merged : e \in landed'[b] \cup held'[b] \/ e \in failed'[c]
    BY <1>1, <1>2 DEF SinksInv, SinkSets
<1>6. \A e \in merged : Settled(e, b)'
    BY <1>5 DEF Settled, Accounted
<1>7. /\ \A z \in AllSinks \cup {"dlq"} : z # b => landed'[z] = landed[z] /\ held'[z] = held[z]
      /\ landed[b] \subseteq landed'[b] /\ held[b] \subseteq merged
      /\ \A d \in WriteCalls : failed[d] \subseteq failed'[d]
    BY <1>1, <1>2 DEF SinksInv, SinkSets, merged
<1>8. ASSUME NEW e, NEW z \in AllSinks, Settled(e, z) PROVE Settled(e, z)'
    <2>1. e \in landed[z] \cup held[z] => Settled(e, z)'
        <3>1. CASE z = b
            BY <1>6, <1>7, <3>1 DEF Settled, Accounted
        <3>2. CASE z # b
            BY <1>7, <3>2 DEF Settled, Accounted
        <3> QED  BY <3>1, <3>2
    <2>2. \A d \in WriteCalls : e \in failed[d] => Settled(e, z)'
        BY <1>7 DEF Settled, Accounted
    <2>3. \A d \in landed["dlq"] \cup held["dlq"] : IdOf[d] = IdOf[e] => Settled(e, z)'
        BY <1>1, <1>7 DEF Settled, Accounted
    <2> QED  BY <1>1, <1>8, <2>1, <2>2, <2>3, SettledStays
<1>9. \A e \in batch[c] : Settled(e, b)'
    BY <1>6 DEF merged
<1> QED  BY <1>1, <1>4, <1>8, <1>9, TaskKeeps

LEMMA GatherKeeps ==
    ASSUME SinksInv, NEW c \in WriteCalls, Gather(c)
    PROVE  SinksInv'
<1>1. /\ waiting[c] = {} /\ returned' = returned \cup batch[c]
      /\ batch' = [batch EXCEPT ![c] = {}] /\ failed' = [failed EXCEPT ![c] = {}]
      /\ UNCHANGED <<sent, waiting>>
    BY DEF Gather
\* Each failed event, or one of its id, is with the dead letter queue or gone.
<1>2. /\ held' \in [AllSinks \cup {"dlq"} -> SUBSET (1 .. sent)]
      /\ landed' \in [AllSinks \cup {"dlq"} -> SUBSET (1 .. sent)] /\ gone \subseteq gone'
      /\ \A z \in AllSinks \cup {"dlq"} : landed[z] \cup held[z] \subseteq landed'[z] \cup held'[z]
      /\ \A e \in failed[c] : e \in gone' \/ \E d \in landed'["dlq"] \cup held'["dlq"] : IdOf[d] = IdOf[e]
    <2>1. CASE failed[c] = {}
        BY <2>1 DEF Gather, SinksInv, SinkSets
    <2>2. CASE failed[c] # {}
        <3>1. PICK rejects \in SUBSET OncePerId(failed[c]) :
                  /\ gone' = gone \cup Alike(rejects)
                  /\ LET dead == held["dlq"] \cup (OncePerId(failed[c]) \ rejects)
                     IN  \/ /\ held' = [held EXCEPT !["dlq"] = {}]
                            /\ landed' = [landed EXCEPT !["dlq"] = @ \cup dead]
                         \/ held' = [held EXCEPT !["dlq"] = dead] /\ UNCHANGED landed
            BY <2>2 DEF Gather, WriteFailures
        <3>2. OncePerId(failed[c]) \subseteq failed[c] /\ failed[c] \subseteq 1 .. sent
            BY DEF OncePerId, SinksInv, SinkSets
        <3>3. /\ held' \in [AllSinks \cup {"dlq"} -> SUBSET (1 .. sent)]
              /\ landed' \in [AllSinks \cup {"dlq"} -> SUBSET (1 .. sent)]
              /\ \A z \in AllSinks \cup {"dlq"} : landed[z] \cup held[z] \subseteq landed'[z] \cup held'[z]
              /\ OncePerId(failed[c]) \ rejects \subseteq landed'["dlq"] \cup held'["dlq"]
            BY <3>1, <3>2 DEF SinksInv, SinkSets
        <3>4. ASSUME NEW e \in failed[c]
              PROVE  e \in gone' \/ \E d \in landed'["dlq"] \cup held'["dlq"] : IdOf[d] = IdOf[e]
            <4>1. failed[c] \in SUBSET (1 .. LastSent)
                <5>1. 1 .. sent \subseteq 1 .. LastSent
                    BY SinksAssumption DEF SinksInv, SinkSets
                <5> QED  BY <3>2, <5>1
            <4>2. PICK d \in OncePerId(failed[c]) : IdOf[d] = IdOf[e]
                BY <4>1, OneOfEach
            <4>3. CASE d \in rejects
                BY <3>1, <3>2, <4>2, <4>3 DEF Alike
            <4>4. CASE d \notin rejects
                BY <3>3, <4>2, <4>4
            <4> QED  BY <4>3, <4>4
        <3> QED  BY <3>1, <3>3, <3>4
    <2> QED  BY <2>1, <2>2
<1>3. SinkSets'
    BY <1>1, <1>2 DEF SinksInv, SinkSets
<1>4. ASSUME NEW e, NEW z \in AllSinks, Settled(e, z) PROVE Settled(e, z)'
    <2>1. e \in landed[z] \cup held[z] => Settled(e, z)'
        BY <1>2 DEF Settled, Accounted
    <2>2. \A d \in WriteCalls : e \in failed[d] => Settled(e, z)'
        <3> SUFFICES ASSUME NEW d \in WriteCalls, e \in failed[d] PROVE Settled(e, z)'
            OBVIOUS
        <3>1. CASE d = c
            BY <1>2, <3>1 DEF Settled, Accounted
        <3>2. CASE d # c
            <4>1. failed'[d] = failed[d]
                BY <1>1, <3>2 DEF SinksInv, SinkSets
            <4> QED  BY <4>1 DEF Settled, Accounted
        <3> QED  BY <3>1, <3>2
    <2>3. \A d \in landed["dlq"] \cup held["dlq"] : IdOf[d] = IdOf[e] => Settled(e, z)'
        BY <1>2 DEF Settled, Accounted
    <2> QED  BY <1>2, <1>4, <2>1, <2>2, <2>3, SettledStays
<1>5. \A d \in WriteCalls : batch'[d] \subseteq batch[d]
    BY <1>1 DEF SinksInv, SinkSets
<1>6. \A e \in returned', z \in AllSinks : Settled(e, z)'
    BY <1>1, <1>4 DEF SinksInv
<1> QED  BY <1>1, <1>3, <1>4, <1>5, <1>6 DEF SinksInv

\* Nothing else is done by a call: the places of an event change, and its being settled does not.
LEMMA CallsWait ==
    ASSUME SinksInv, SinkSets', UNCHANGED <<batch, waiting, returned>>,
           \A e : \A z \in AllSinks : Settled(e, z) => Settled(e, z)'
    PROVE  SinksInv'
BY DEF SinksInv

LEMMA DeliveryKeeps ==
    ASSUME SinksInv, NEW p \in Producers, Delivery(p)
    PROVE  SinksInv'
<1>1. PICK e \in held[p] :
          /\ held' = [held EXCEPT ![p] = @ \ {e}]
          /\ \/ landed' = [landed EXCEPT ![p] = @ \cup {e}] /\ UNCHANGED gone
             \/ gone' = gone \cup Alike({e}) /\ UNCHANGED landed
    BY DEF Delivery
<1>2. UNCHANGED <<sent, batch, waiting, failed, returned>> /\ p \in AllSinks \cup {"dlq"}
    BY DEF Delivery, callVars, Producers, AllSinks
<1>3. SinkSets' /\ gone \subseteq gone' /\ e \in 1 .. sent
    BY <1>1, <1>2 DEF SinksInv, SinkSets
<1>4. \A z \in AllSinks \cup {"dlq"} :
          \A f \in landed[z] \cup held[z] : f \in landed'[z] \cup held'[z] \/ (f = e /\ Alike({e}) \subseteq gone')
    <2>1. /\ \A z \in AllSinks \cup {"dlq"} : landed[z] \subseteq landed'[z] /\ held[z] \ {e} \subseteq held'[z]
          /\ \A z \in AllSinks \cup {"dlq"} : z # p => held'[z] = held[z]
        BY <1>1, <1>2 DEF SinksInv, SinkSets
    <2>2. e \in landed'[p] \/ Alike({e}) \subseteq gone'
        BY <1>1, <1>2 DEF SinksInv, SinkSets
    <2> QED  BY <2>1, <2>2
<1>5. ASSUME NEW f, NEW z \in AllSinks, Settled(f, z), f \in 1 .. sent PROVE Settled(f, z)'
    <2>1. f \in landed[z] \cup held[z] => Settled(f, z)'
        BY <1>3, <1>4 DEF Settled, Accounted, Alike
    <2>2. \A d \in WriteCalls : f \in failed[d] => Settled(f, z)'
        BY <1>2 DEF Settled, Accounted
    <2>3. \A d \in landed["dlq"] \cup held["dlq"] : IdOf[d] = IdOf[f] => Settled(f, z)'
        BY <1>4, <1>5 DEF Settled, Accounted, Alike
    <2> QED  BY <1>3, <1>5, <2>1, <2>2, <2>3, SettledStays
<1> QED  BY <1>2, <1>3, <1>5 DEF SinksInv, SinkSets

LEMMA FlushBucketKeeps ==
    ASSUME SinksInv, NEW b \in Buckets, FlushBucket(b)
    PROVE  SinksInv'
<1>1. /\ held' = [held EXCEPT ![b] = {}]
      /\ \/ landed' = [landed EXCEPT ![b] = @ \cup held[b]] /\ UNCHANGED gone
         \/ gone' = gone \cup held[b] /\ UNCHANGED landed
      /\ UNCHANGED <<sent, batch, waiting, failed, returned>> /\ b \in AllSinks /\ b # "dlq"
    BY SinkNames DEF FlushBucket, callVars
<1>2. SinkSets' /\ gone \subseteq gone'
    BY <1>1 DEF SinksInv, SinkSets
<1>3. /\ \A z \in AllSinks \cup {"dlq"} : z # b => landed'[z] = landed[z] /\ held'[z] = held[z]
      /\ landed[b] \cup held[b] \subseteq landed'[b] \cup gone'
    BY <1>1 DEF SinksInv, SinkSets
<1>4. ASSUME NEW e, NEW z \in AllSinks, Settled(e, z) PROVE Settled(e, z)'
    BY <1>1, <1>2, <1>3, <1>4 DEF Settled, Accounted
<1> QED  BY <1>1, <1>2, <1>4, CallsWait

LEMMA SinkCrashKeeps ==
    ASSUME SinksInv, SinkCrash
    PROVE  SinksInv'
<1> DEFINE inHeld == UNION {held[s] : s \in DOMAIN held}
           inFailed == UNION {failed[c] : c \in WriteCalls}
<1>1. /\ gone' = gone \cup Alike(inHeld) \cup Alike(inFailed)
      /\ batch' = [c \in WriteCalls |-> {}] /\ failed' = batch' /\ waiting' = batch'
      /\ held' = [s \in DOMAIN held |-> {}] /\ UNCHANGED <<sent, landed, returned>>
    BY DEF SinkCrash
<1>2. /\ \A z \in AllSinks \cup {"dlq"} : \A e \in held[z] : e \in inHeld
      /\ \A c \in WriteCalls : \A e \in failed[c] : e \in inFailed
    BY DEF SinksInv, SinkSets
<1> HIDE DEF inHeld, inFailed
<1>3. SinkSets'
    BY <1>1 DEF SinksInv, SinkSets
<1>4. \A e \in 1 .. sent : (\E d \in inHeld \cup inFailed : IdOf[d] = IdOf[e]) => e \in gone'
    BY <1>1 DEF Alike
<1>5. ASSUME NEW e \in 1 .. sent, NEW z \in AllSinks, Settled(e, z) PROVE Settled(e, z)'
    <2>1. e \in landed[z] \cup held[z] => Settled(e, z)'
        BY <1>1, <1>2, <1>4 DEF Settled, Accounted
    <2>2. \A d \in WriteCalls : e \in failed[d] => Settled(e, z)'
        BY <1>2, <1>4 DEF Settled
    <2>3. \A d \in landed["dlq"] \cup held["dlq"] : IdOf[d] = IdOf[e] => Settled(e, z)'
        BY <1>1, <1>2, <1>4 DEF Settled, Accounted
    <2> QED  BY <1>1, <1>5, <2>1, <2>2, <2>3, SettledStays
<1> QED  BY <1>1, <1>3, <1>5 DEF SinksInv, SinkSets

LEMMA SinksStep == SinksInv /\ [SinksNext]_sinksVars => SinksInv'
<1> SUFFICES ASSUME SinksInv, [SinksNext]_sinksVars PROVE SinksInv'
    OBVIOUS
<1>1. CASE Initialize \/ FlushAll \/ UNCHANGED sinksVars
    <2>1. UNCHANGED <<sent, batch, waiting, failed, held, landed, returned, gone>>
        BY <1>1 DEF Initialize, FlushAll, sinksVars, callVars
    <2> QED  BY <2>1 DEF SinksInv, SinkSets, Settled, Accounted
<1> QED
    BY <1>1, WriteKeeps, WriteKafkaKeeps, WriteBucketKeeps, GatherKeeps, DeliveryKeeps,
       FlushBucketKeeps, SinkCrashKeeps DEF SinksNext

\* An event whose write has returned is with each sink, in the dead letter queue or lost in a
\* way that is named, however late the upload it was buffered for fails.
THEOREM FailuresStayKept == SinksSpec => []FailuresAreKept
<1>1. SinksInit => SinksInv
    BY SinksAssumption DEF SinksInit, SinksInv, SinkSets
<1>2. SinksInv => FailuresAreKept
    BY DEF SinksInv, FailuresAreKept, Settled
<1> QED  BY <1>1, <1>2, SinksStep, PTL DEF SinksSpec
-----------------------------------------------------------------------------
(* The types of what is stored *)

\* A step keeps the lanes and the tables of the writer threads within their bounds.
LEMMA StoreTypesKeep ==
    ASSUME StoreTypeOK, StoreTypes, StoreTypes', [StoreNext]_storeVars
    PROVE  StoreTypeOK'
<1> USE DEF StoreTypeOK, StoreTypes
<1>1. ASSUME NEW l \in Lanes, NEW e \in Emissions, RouteEvent(l, e) PROVE StoreTypeOK'
    BY <1>1, EventStoreAssumption DEF RouteEvent, catalogVars
<1>2. ASSUME NEW l \in Lanes, TakeWriteBatch(l) PROVE StoreTypeOK'
    BY <1>2, EventStoreAssumption DEF TakeWriteBatch, catalogVars, storeGhosts, storeBounds
<1>3. ASSUME NEW l \in Lanes, InsertRows(l) PROVE StoreTypeOK'
    BY <1>3, EventStoreAssumption DEF InsertRows, HasPoison, NewRows, catalogVars, storeGhosts,
       storeBounds, BatchOf, Prints
<1>4. ASSUME NEW l \in Lanes, SweepOldRows(l) PROVE StoreTypeOK'
    BY <1>4, EventStoreAssumption DEF SweepOldRows, Prints, catalogVars, storeGhosts, storeBounds
<1>5. ASSUME NEW l \in Lanes, QueueCatalogRows(l) PROVE StoreTypeOK'
    BY <1>5, EventStoreAssumption DEF QueueCatalogRows, storeGhosts, storeBounds
<1>6. ASSUME NEW l \in Lanes, BatchFails(l) PROVE StoreTypeOK'
    <2>1. /\ taken' = [taken EXCEPT ![l] = << >>]
          /\ UNCHANGED <<stored, catalogQueue, learnt>>
        BY <1>6 DEF BatchFails, RequeueOrDlq, catalogVars
    <2>2. dbFaultsLeft' \in 0 .. DbFaults
        BY <1>6, EventStoreAssumption DEF BatchFails
    <2>3. \A k \in Lanes : Len(taken'[k]) <= WriteBatch
        <3>1. Len(<< >>) = 0 /\ 0 <= WriteBatch
            BY EventStoreAssumption
        <3> QED  BY <2>1, <3>1
    <2> QED  BY <2>1, <2>2, <2>3
<1>7. ASSUME UpsertCatalog PROVE StoreTypeOK'
    BY <1>7, EventStoreAssumption DEF UpsertCatalog, Resources, Told, Upserted, Latest, storeGhosts,
       storeBounds, Unlisted
<1>8. ASSUME UpsertFails PROVE StoreTypeOK'
    BY <1>8, EventStoreAssumption DEF UpsertFails, storeGhosts
<1>9. ASSUME ForwarderCrash PROVE StoreTypeOK'
    BY <1>9, EventStoreAssumption DEF ForwarderCrash, InMemory
<1>10. ASSUME UNCHANGED storeVars PROVE StoreTypeOK'
    BY <1>10, EventStoreAssumption DEF storeVars
<1> QED  BY <1>1, <1>2, <1>3, <1>4, <1>5, <1>6, <1>7, <1>8, <1>9, <1>10 DEF StoreNext

\* A step keeps the archive typed.
LEMMA ArchiveTypesKeep ==
    ASSUME ArchiveTypeOK, ArchiveInv, ArchiveInv', [ArchiveNext]_archiveVars
    PROVE  ArchiveTypeOK'
<1> USE DEF ArchiveTypeOK
<1>1. ASSUME NEW e \in Events, EventArrives(e) PROVE ArchiveTypeOK'
    BY <1>1, ColdArchiveAssumption DEF EventArrives, NoCleanup
<1>2. ASSUME Configure PROVE ArchiveTypeOK'
    BY <1>2, ColdArchiveAssumption DEF Configure
<1>3. ASSUME NEW cutoff \in Cutoffs, WriterSweeps(cutoff) PROVE ArchiveTypeOK'
    BY <1>3, ColdArchiveAssumption DEF WriterSweeps, Before
<1>4. ASSUME NEW c \in Cleaners, NEW cutoff \in Cutoffs, BeginCleanup(c, cutoff) PROVE ArchiveTypeOK'
    BY <1>4, ColdArchiveAssumption DEF BeginCleanup, NoCleanup, DaysBefore, DayOf, Before
<1>5. ASSUME NEW c \in Cleaners, NEW cutoff \in Cutoffs, BeginUnarchived(c, cutoff) PROVE ArchiveTypeOK'
    BY <1>5, ColdArchiveAssumption DEF BeginUnarchived, NoCleanup
<1>6. ASSUME NEW c \in Cleaners, NEW cutoff \in Cutoffs, RouteArchives(c, cutoff) PROVE ArchiveTypeOK'
    BY <1>6, ColdArchiveAssumption DEF RouteArchives, NoCleanup, DaysBefore, DayOf, Before
<1>7. ASSUME NEW c \in Cleaners, UploadDay(c) PROVE ArchiveTypeOK'
    <2>1. PICK rows \in SUBSET Events :
              /\ \E o : store' = [store EXCEPT ![o] = rows]
              /\ uploaded' = uploaded \cup rows
        <3> DEFINE rows == RowsOf(Min(cleaner[c].days), cleaner[c].cutoff)
        <3>1. rows \in SUBSET Events
            BY DEF RowsOf
        <3>2. /\ \E o : store' = [store EXCEPT ![o] = rows]
              /\ uploaded' = uploaded \cup rows
            BY <1>7, Zenon DEF UploadDay
        <3> QED  BY <3>1, <3>2
    <2>2. UNCHANGED <<table, enabled, cleanupsLeft, storeFaultsLeft, deleted, exempt>>
        BY <1>7 DEF UploadDay
    <2>3. \A k \in Cleaners : cleaner'[k].at \in {"idle", "archiving", "deleting"}
        BY DEF ArchiveInv, Cleanups, NoCleanup
    <2>4. store' \in [Objects -> SUBSET Events]
        BY <2>1
    <2> QED  BY <2>1, <2>2, <2>3, <2>4
<1>8. ASSUME NEW c \in Cleaners, UploadFails(c) PROVE ArchiveTypeOK'
    <2>1. storeFaultsLeft' \in 0 .. StoreFaults
        BY <1>8, ColdArchiveAssumption DEF UploadFails
    <2>2. \A k \in Cleaners : cleaner'[k].at \in {"idle", "archiving", "deleting"}
        BY DEF ArchiveInv, Cleanups, NoCleanup
    <2> QED  BY <1>8, <2>1, <2>2 DEF UploadFails
<1>9. ASSUME NEW c \in Cleaners, EndArchive(c) PROVE ArchiveTypeOK'
    BY <1>9, ColdArchiveAssumption DEF EndArchive, NoCleanup
<1>10. ASSUME NEW c \in Cleaners, DeleteRows(c) PROVE ArchiveTypeOK'
    BY <1>10, ColdArchiveAssumption DEF DeleteRows, Before, NoCleanup
<1>11. ASSUME NEW c \in Cleaners, CleanupDies(c) PROVE ArchiveTypeOK'
    BY <1>11, ColdArchiveAssumption DEF CleanupDies, NoCleanup
<1>12. ASSUME UNCHANGED archiveVars PROVE ArchiveTypeOK'
    BY <1>12, ColdArchiveAssumption DEF archiveVars
<1> QED  BY <1>1, <1>2, <1>3, <1>4, <1>5, <1>6, <1>7, <1>8, <1>9, <1>10, <1>11, <1>12 DEF
   ArchiveNext

\* What is written to a file, and what it overwrites there, are messages.
LEMMA FileTypes ==
    ASSUME CollectorTypeOK, CollectorInv, WriteFile
    PROVE  overwritten' \subseteq Messages /\ files' \in [Names -> SUBSET Messages]
<1> DEFINE name == <<second, Cardinality(buffer)>>
<1>1. name \in Names
    BY NameIsKnown
<1>2. files' = [files EXCEPT ![name] = buffer] /\ overwritten' = overwritten \cup (files[name] \ buffer)
    BY DEF WriteFile
<1> HIDE DEF name
<1> QED  BY <1>1, <1>2 DEF CollectorTypeOK

\* A step keeps the collector typed.
LEMMA CollectorTypesKeep ==
    ASSUME CollectorTypeOK, CollectorInv, CollectorInv', [CollectorNext]_collectorVars
    PROVE  CollectorTypeOK'
<1> USE DEF CollectorTypeOK
<1>1. ASSUME Poll PROVE CollectorTypeOK'
    BY <1>1, CollectorAssumption DEF Poll, Full
<1>2. ASSUME TakeIn PROVE CollectorTypeOK'
    <2>1. inHand' = 0 /\ 0 \in 0 .. TopicEnd
        BY <1>2, CollectorAssumption DEF TakeIn
    <2>2. buffer' \subseteq Messages
        BY DEF CollectorInv
    <2> QED  BY <1>2, <2>1, <2>2 DEF TakeIn
<1>3. ASSUME AutoCommit PROVE CollectorTypeOK'
    BY <1>3, CollectorAssumption DEF AutoCommit
<1>4. ASSUME Flush PROVE CollectorTypeOK'
    <2>1. overwritten' \subseteq Messages /\ files' \in [Names -> SUBSET Messages]
        BY <1>4, FileTypes DEF Flush
    <2>2. lastFlush' \in 0 .. second'
        BY <1>4, CollectorAssumption DEF Flush
    <2> QED  BY <1>4, <2>1, <2>2 DEF Flush
<1>5. ASSUME FlushFails PROVE CollectorTypeOK'
    <2>1. overwritten' \subseteq Messages /\ files' \in [Names -> SUBSET Messages]
        <3>1. CASE WriteFile
            BY <3>1, FileTypes
        <3>2. CASE UNCHANGED <<files, overwritten>>
            BY <3>2
        <3> QED  BY <1>5, <3>1, <3>2 DEF FlushFails
    <2>2. uploadFaultsLeft' \in 0 .. UploadFaults
        BY <1>5, CollectorAssumption DEF FlushFails
    <2>3. buffer' \subseteq Messages /\ lostAtDeath' \subseteq Messages /\ running' \in {"leaving", "down"}
        BY <1>5 DEF FlushFails
    <2> QED  BY <1>5, <2>1, <2>2, <2>3 DEF FlushFails
<1>6. ASSUME Close PROVE CollectorTypeOK'
    BY <1>6, CollectorAssumption DEF Close
<1>7. ASSUME StopCollector PROVE CollectorTypeOK'
    BY <1>7, CollectorAssumption DEF StopCollector, Full
<1>8. ASSUME Killed PROVE CollectorTypeOK'
    BY <1>8, CollectorAssumption DEF Killed, Messages
<1>9. ASSUME RestartCollector PROVE CollectorTypeOK'
    BY <1>9, CollectorAssumption DEF RestartCollector
<1>10. ASSUME SecondPasses PROVE CollectorTypeOK'
    BY <1>10, CollectorAssumption DEF SecondPasses
<1>11. ASSUME UNCHANGED collectorVars PROVE CollectorTypeOK'
    BY <1>11, CollectorAssumption DEF collectorVars
<1> QED  BY <1>1, <1>2, <1>3, <1>4, <1>5, <1>6, <1>7, <1>8, <1>9, <1>10, <1>11 DEF CollectorNext

\* What a file holds is no more than its size, which SMT need not see as sets.
Files(f, g, h) == /\ f.rows \subseteq CacheRows /\ f.there \in BOOLEAN
                  /\ g.rows \subseteq CacheRows /\ g.there \in BOOLEAN
                  /\ h.rows \subseteq CacheRows /\ h.there \in BOOLEAN

\* The states of the hot cache's files, rows and moves.
CacheKinds ==
    /\ Files(db, newFile, oldFile)
    /\ conn \in BOOLEAN /\ degraded \in BOOLEAN
    /\ rotation \in {"none", "copying", "copied", "closed", "swappedOut", "swappedIn"}
    /\ pending # NoRow => /\ pending \in [at : {"checking", "waiting", "deciding", "writing"}, row : CacheRows]
    /\ owed \subseteq CacheRows /\ leftovers \subseteq CacheRows
    /\ offered \in 0 .. LastRow /\ dbSize \in Nat /\ Cardinality(db.rows) <= dbSize

\* A database holds finitely many rows.
LEMMA RowsAreFinite ==
    /\ IsFiniteSet(CacheRows)
    /\ \A S \in SUBSET CacheRows : IsFiniteSet(S) /\ Cardinality(S) \in Nat
<1>1. IsFiniteSet(CacheRows)
    <2>1. LastRow \in Nat
        BY CacheAssumption
    <2> QED  BY <2>1, FS_Interval DEF CacheRows
<1> QED  BY <1>1, FS_Subset, FS_CardinalityType

\* One more row raises the number of rows by at most one.
LEMMA OneMoreRow ==
    ASSUME NEW S \in SUBSET CacheRows, NEW r \in CacheRows
    PROVE  Cardinality(S \cup {r}) \in Nat /\ Cardinality(S \cup {r}) <= Cardinality(S) + 1
<1>1. IsFiniteSet(S) /\ Cardinality(S) \in Nat
    BY RowsAreFinite
<1>2. CASE r \in S
    <2>1. S \cup {r} = S
        BY <1>2
    <2> QED  BY <1>1, <2>1
<1>3. CASE r \notin S
    <2>1. Cardinality(S \cup {r}) = Cardinality(S) + 1
        BY <1>1, <1>3, FS_AddElement
    <2> QED  BY <1>1, <2>1
<1> QED  BY <1>2, <1>3

\* Deleting leaves fewer rows.
LEMMA FewerRows ==
    ASSUME NEW S \in SUBSET CacheRows, NEW T \in SUBSET S
    PROVE  Cardinality(T) \in Nat /\ Cardinality(T) <= Cardinality(S)
BY RowsAreFinite, FS_Subset

\* What a rotation copies are rows of the file.
LEMMA CopiesAreRows == ToCopy \subseteq db.rows
<1>1. \A S, n : NewestOf(S, n) \subseteq S
    BY DEF NewestOf
<1>2. \A S : CopyOf(S) \subseteq S
    BY <1>1 DEF CopyOf
<1>3. RecentRows \subseteq db.rows
    BY DEF RecentRows
<1> QED  BY <1>2, <1>3 DEF ToCopy

\* A step keeps the hot cache typed.
LEMMA CacheKindsKeep ==
    ASSUME CacheKinds, CacheInv, [CacheNext]_cacheVars
    PROVE  CacheKinds'
<1>0. LastRow \in Nat /\ Cardinality(db.rows) \in Nat
    BY CacheAssumption, RowsAreFinite DEF CacheKinds, Files
<1>f. \A S : FileOf(S).rows = S /\ FileOf(S).there = TRUE
    BY DEF FileOf
<1>g. Absent.rows = {} /\ Absent.there = FALSE /\ Cardinality({}) = 0
    BY FS_EmptySet DEF Absent
<1>1. CASE Offer
    <2>1. offered + 1 \in 1 .. LastRow
        BY <1>0, <1>1 DEF Offer, CacheKinds
    <2> QED  BY <1>1, <2>1 DEF Offer, CacheKinds, CacheRows, onDisk, ghosts, Files
<1>2. ASSUME NEW due \in BOOLEAN, CheckSize(due) PROVE CacheKinds'
    <2>1. pending' \in [at : {"checking", "waiting", "deciding", "writing"}, row : CacheRows]
        BY <1>2 DEF CheckSize, CacheKinds
    <2>2. rotation' \in {rotation, "copying"}
        BY <1>2 DEF CheckSize
    <2> QED  BY <1>2, <2>1, <2>2 DEF CheckSize, CacheKinds, onDisk, ghosts, Files
<1>3. CASE DecideWrite
    <2>1. pending' = NoRow \/ pending' \in [at : {"checking", "waiting", "deciding", "writing"}, row : CacheRows]
        BY <1>3 DEF DecideWrite, CacheKinds
    <2> QED  BY <1>3, <2>1 DEF DecideWrite, CacheKinds, onDisk, ghosts, Files
<1>4. CASE WriteRow
    <2>1. pending.row \in CacheRows /\ pending' = NoRow
          /\ UNCHANGED <<newFile, oldFile, conn, degraded, rotation, offered, leftovers>>
        BY <1>4 DEF WriteRow, CacheKinds
    <2>2. CASE conn
        <3>1. /\ db' = FileOf(db.rows \cup {pending.row})
              /\ dbSize' = IF Cardinality(db.rows) < dbSize THEN dbSize ELSE dbSize + 1
              /\ owed' = owed \cup {pending.row}
            BY <1>4, <2>2 DEF WriteRow
        <3>2. /\ Cardinality(db.rows \cup {pending.row}) \in Nat
              /\ Cardinality(db.rows \cup {pending.row}) <= Cardinality(db.rows) + 1
            BY <2>1, OneMoreRow DEF CacheKinds, Files
        <3>3. dbSize' \in Nat /\ Cardinality(db'.rows) <= dbSize'
            BY <1>0, <1>f, <3>1, <3>2 DEF CacheKinds
        <3>4. db'.rows \subseteq CacheRows /\ db'.there \in BOOLEAN /\ owed' \subseteq CacheRows
            <4>1. db'.rows = db.rows \cup {pending.row} /\ db'.there = TRUE
                BY <1>f, <3>1, Zenon
            <4> QED  BY <2>1, <3>1, <4>1 DEF CacheKinds, Files
        <3> QED  BY <2>1, <3>3, <3>4 DEF CacheKinds, Files
    <2>3. CASE ~ conn
        BY <1>4, <2>1, <2>3 DEF WriteRow, CacheKinds, Files
    <2> QED  BY <2>2, <2>3
<1>5. CASE EnforceBounds
    BY <1>5 DEF EnforceBounds, CacheKinds, onDisk, ghosts, Files
<1>6. CASE CleanUp
    <2>1. PICK dropped : /\ db' = FileOf(db.rows \ dropped)
                         /\ owed' = owed \ dropped
                         /\ dbSize' = dbSize \/ dbSize' \in Cardinality(db.rows \ dropped) .. dbSize
                         /\ rotation' \in {rotation, "copying"}
        BY <1>6 DEF CleanUp
    <2>2. Cardinality(db.rows \ dropped) \in Nat /\ Cardinality(db.rows \ dropped) <= Cardinality(db.rows)
        BY FewerRows DEF CacheKinds, Files
    <2>3. dbSize' \in Nat /\ Cardinality(db'.rows) <= dbSize'
        BY <1>0, <1>f, <2>1, <2>2 DEF CacheKinds
    <2> QED  BY <1>6, <1>f, <2>1, <2>3 DEF CleanUp, CacheKinds, Files
<1>7. CASE Vacuum
    BY <1>0, <1>7 DEF Vacuum, CacheKinds, ghosts, Files
<1>8. CASE CopyRows
    BY <1>8, <1>f, CopiesAreRows DEF CopyRows, CacheKinds, ghosts, Files
<1>9. CASE CloseConnection
    BY <1>9 DEF CloseConnection, CacheKinds, onDisk, ghosts, Files
<1>10. CASE SwapOut
    <2>1. /\ oldFile' = db /\ db' = Absent /\ rotation' = "swappedOut"
          /\ UNCHANGED <<dbSize, newFile, conn, degraded, pending, offered, owed, leftovers>>
        BY <1>10 DEF SwapOut, ghosts
    <2>2. dbSize \in Nat /\ Cardinality(db'.rows) <= dbSize'
        BY <1>g, <2>1 DEF CacheKinds
    <2>3. Files(db', newFile', oldFile')
        BY <1>g, <2>1 DEF CacheKinds, Files
    <2> QED  BY <2>1, <2>2, <2>3 DEF CacheKinds
<1>11. CASE SwapIn
    <2>1. Cardinality(newFile.rows) \in Nat
        BY RowsAreFinite DEF CacheKinds, Files
    <2>2. /\ db' = newFile /\ dbSize' = Cardinality(newFile.rows) /\ newFile' = Absent
          /\ owed' = newFile.rows /\ rotation' = "swappedIn"
          /\ UNCHANGED <<oldFile, conn, degraded, pending, offered, leftovers>>
        BY <1>11 DEF SwapIn
    <2>3. dbSize' \in Nat /\ Cardinality(db'.rows) <= dbSize'
        BY <2>1, <2>2
    <2>4. Files(db', newFile', oldFile') /\ owed' \subseteq CacheRows
        BY <1>g, <2>2 DEF CacheKinds, Files
    <2> QED  BY <2>2, <2>3, <2>4 DEF CacheKinds
<1>12. CASE CompleteRotation
    BY <1>12, <1>g DEF CompleteRotation, CacheKinds, ghosts, Files
<1>13. CASE RotationFails
    <2>1. dbSize' \in Nat /\ Cardinality(db'.rows) <= dbSize'
        <3>1. ~ db.there => db.rows = {}
            BY DEF CacheInv, FilesInPlace
        <3>2. db' = db /\ dbSize' = IF db.there THEN dbSize ELSE 0
            BY <1>13 DEF RotationFails
        <3> QED  BY <1>g, <3>1, <3>2 DEF CacheKinds
    <2> QED  BY <1>13, <1>g, <2>1 DEF RotationFails, CacheKinds, Files
<1>14. CASE RestartCache
    <2> DEFINE size == IF db.there THEN dbSize ELSE 0
    <2>1. /\ leftovers' = leftovers \cup oldFile.rows \cup newFile.rows
          /\ newFile' = Absent /\ oldFile' = Absent /\ conn' = TRUE /\ degraded' = FALSE
          /\ rotation' = "none" /\ pending' = NoRow /\ offered' = offered
          /\ \/ db' = FileOf(db.rows) /\ dbSize' = size /\ owed' = owed
             \/ db' = db /\ dbSize' \in Cardinality(db.rows) .. size - 1 /\ owed' = owed
             \/ db' = FileOf({}) /\ dbSize' = 0 /\ owed' = owed \ db.rows
        BY <1>14 DEF RestartCache
    <2>2. ~ db.there => db.rows = {}
        BY DEF CacheInv, FilesInPlace
    <2>3. size \in Nat /\ Cardinality(db.rows) <= size
        BY <1>0, <1>g, <2>2 DEF CacheKinds
    <2> HIDE DEF size
    <2>4. dbSize' \in Nat /\ Cardinality(db'.rows) <= dbSize'
        BY <1>0, <1>f, <1>g, <2>1, <2>3
    <2>5. db'.rows \subseteq CacheRows /\ db'.there \in BOOLEAN /\ owed' \subseteq CacheRows
        BY <1>f, <2>1 DEF CacheKinds, Files
    <2> QED  BY <1>g, <2>1, <2>4, <2>5 DEF CacheKinds, Files
<1>15. CASE UNCHANGED cacheVars
    BY <1>15 DEF cacheVars, CacheKinds, Files
<1> QED
    BY <1>1, <1>2, <1>3, <1>4, <1>5, <1>6, <1>7, <1>8, <1>9, <1>10, <1>11, <1>12, <1>13, <1>14, <1>15
        DEF CacheNext, RotationStep

\* A step keeps the sinks typed.
LEMMA SinksTypesKeep ==
    ASSUME SinksTypeOK, SinkSets, SinkSets', [SinksNext]_sinksVars
    PROVE  SinksTypeOK'
<1> USE DEF SinksTypeOK, SinkSets
<1>1. ASSUME Initialize PROVE SinksTypeOK'
    <2>1. sinkFaults' \in 0 .. SinkFaults
        BY <1>1, SinksAssumption DEF Initialize, SinkFails
    <2>2. ready' \in BOOLEAN
        BY <1>1 DEF Initialize
    <2> QED  BY <1>1, <2>1, <2>2 DEF Initialize, callVars
<1>2. ASSUME FlushAll PROVE SinksTypeOK'
    BY <1>2, SinksAssumption DEF FlushAll, callVars
<1>3. ASSUME SinkCrash PROVE SinksTypeOK'
    <2>1. sinkFaults' \in 0 .. SinkFaults /\ ready' \in BOOLEAN
        <3>1. sinkFaults < SinkFaults /\ sinkFaults' = sinkFaults + 1 /\ ready' = FALSE
            BY <1>3 DEF SinkCrash, SinkFails
        <3>2. SinkFaults \in Nat
            BY SinksAssumption
        <3>3. sinkFaults \in Nat
            OBVIOUS
        <3> HIDE DEF SinksTypeOK, SinkSets
        <3>4. sinkFaults' \in 0 .. SinkFaults
            BY <3>1, <3>2, <3>3
        <3> QED  BY <3>1, <3>4
    <2>2. gone' \subseteq 1 .. sent
        BY <1>3 DEF SinkCrash, Alike
    <2>3. /\ batch' \in [WriteCalls -> SUBSET (1 .. sent')] /\ failed' \in [WriteCalls -> SUBSET (1 .. sent')]
          /\ waiting' \in [WriteCalls -> SUBSET AllSinks]
          /\ held' \in [AllSinks \cup {"dlq"} -> SUBSET (1 .. sent')]
          /\ landed' \in [AllSinks \cup {"dlq"} -> SUBSET (1 .. sent')]
          /\ returned' \subseteq 1 .. sent' /\ sent' \in 0 .. LastSent
        OBVIOUS
    <2> QED  BY <1>3, <2>1, <2>2, <2>3 DEF SinkCrash
<1>4. ASSUME NEW c \in WriteCalls, Write(c) PROVE SinksTypeOK'
    BY <1>4, SinksAssumption DEF Write, AllSinks
<1>5. ASSUME NEW c \in WriteCalls, WriteKafka(c) PROVE SinksTypeOK'
    BY <1>5, SinksAssumption DEF WriteKafka, SinkFails
<1>6. ASSUME NEW c \in WriteCalls, Gather(c) PROVE SinksTypeOK'
    BY <1>6, SinksAssumption DEF Gather, WriteFailures, OncePerId, SinkFails, Alike
<1>7. ASSUME NEW c \in WriteCalls, NEW b \in Buckets, WriteBucket(c, b) PROVE SinksTypeOK'
    BY <1>7, SinksAssumption DEF WriteBucket, Upload, SinkFails
<1>8. ASSUME NEW p \in Producers, Delivery(p) PROVE SinksTypeOK'
    BY <1>8, SinksAssumption DEF Delivery, SinkFails, Alike, callVars
<1>9. ASSUME NEW b \in Buckets, FlushBucket(b) PROVE SinksTypeOK'
    BY <1>9, SinksAssumption DEF FlushBucket, SinkFails, callVars
<1>10. ASSUME UNCHANGED sinksVars PROVE SinksTypeOK'
    BY <1>10, SinksAssumption DEF sinksVars, callVars
<1> QED  BY <1>1, <1>2, <1>3, <1>4, <1>5, <1>6, <1>7, <1>8, <1>9, <1>10 DEF SinksNext

\* The lanes, tables and catalog of the writer threads stay typed.
LEMMA StoredKeepsTypes == StoreSpec => []StoreTypeOK
<1>1. StoreInit => StoreTypeOK
    BY EventStoreAssumption DEF StoreInit, StoreTypeOK
<1>2. StoreInv => StoreTypes
    BY DEF StoreInv
<1> QED  BY <1>1, <1>2, StoreStarts, StoreStep, StoreTypesKeep, PTL DEF StoreSpec

\* The cold archive's rows, files and phases stay typed.
LEMMA ArchivesKeepTypes == ArchiveSpec => []ArchiveTypeOK
<1>1. ArchiveInit => ArchiveInv
    BY DEF ArchiveInit, ArchiveInv, TakenBy, UploadedBeforeDeleted, NoCleanup
<1>2. ArchiveInit => ArchiveTypeOK
    BY ColdArchiveAssumption DEF ArchiveInit, ArchiveTypeOK, NoCleanup
<1> QED  BY <1>1, <1>2, ArchiveStep, ArchiveTypesKeep, PTL DEF ArchiveSpec

\* The collector's offsets, buffer and files stay typed.
LEMMA CollectorsKeepTypes == CollectorSpec => []CollectorTypeOK
<1>1. CollectorInit => CollectorInv /\ CollectorTypeOK
    BY CollectorAssumption DEF CollectorInit, CollectorInv, CollectorTypeOK, Messages
<1> QED  BY <1>1, CollectorStep, CollectorTypesKeep, PTL DEF CollectorSpec

\* The hot cache's files and the moves between them stay typed.
LEMMA CachesKeepTypes == CacheSpec => []CacheTypeOK
<1>1. CacheInit => CacheInv
    BY DEF CacheInit, CacheInv, FilesInPlace, Absent, FileOf
<1>2. CacheInit => CacheKinds
    <2> SUFFICES ASSUME CacheInit PROVE CacheKinds
        OBVIOUS
    <2>1. FoundRows \in Nat /\ FoundRows \in 0 .. LastRow /\ Cardinality(1 .. FoundRows) = FoundRows
        <3>1. LastRow \in Nat /\ FoundRows \in Nat
            BY CacheAssumption
        <3> QED  BY <3>1, FS_Interval, CacheAssumption
    <2>2. 1 .. FoundRows \subseteq CacheRows
        BY <2>1, CacheAssumption DEF CacheRows
    <2>3. db.rows = 1 .. FoundRows /\ db.there = TRUE /\ Absent.rows = {} /\ Absent.there = FALSE
        BY DEF CacheInit, FileOf, Absent
    <2>4. /\ newFile = Absent /\ oldFile = Absent /\ conn = TRUE /\ degraded = FALSE
          /\ rotation = "none" /\ pending = NoRow /\ offered = FoundRows /\ dbSize = FoundRows
          /\ owed = 1 .. FoundRows /\ leftovers = {}
        BY DEF CacheInit
    <2>5. Files(db, newFile, oldFile)
        BY <2>2, <2>3, <2>4 DEF Files
    <2>6. dbSize \in Nat /\ Cardinality(db.rows) <= dbSize
        BY <2>1, <2>3, <2>4
    <2> QED  BY <2>1, <2>2, <2>4, <2>5, <2>6 DEF CacheKinds
<1>3. CacheKinds => CacheTypeOK
    <2> SUFFICES ASSUME CacheKinds PROVE CacheTypeOK
        OBVIOUS
    <2>1. pending # NoRow => pending.at \in {"checking", "waiting", "deciding", "writing"}
        BY DEF CacheKinds
    <2> QED  BY <2>1 DEF CacheKinds, CacheTypeOK, Files
<1> QED  BY <1>1, <1>2, <1>3, CacheStep, CacheKindsKeep, PTL DEF CacheSpec

\* The sinks' buffers, breakers and destinations stay typed.
LEMMA SinksKeepTypes == SinksSpec => []SinksTypeOK
<1>1. SinksInit => SinksInv
    BY SinksAssumption DEF SinksInit, SinksInv, SinkSets
<1>3. SinksInit => SinksTypeOK
    <2> SUFFICES ASSUME SinksInit PROVE SinksTypeOK
        OBVIOUS
    <2> DEFINE calls == [c \in WriteCalls |-> {}]  places == [s \in AllSinks \cup {"dlq"} |-> {}]
    <2>1. calls \in [WriteCalls -> SUBSET (1 .. sent)] /\ calls \in [WriteCalls -> SUBSET AllSinks]
          /\ places \in [AllSinks \cup {"dlq"} -> SUBSET (1 .. sent)]
        OBVIOUS
    <2>2. /\ batch = calls /\ failed = calls /\ waiting = calls /\ held = places /\ landed = places
          /\ ready = FALSE /\ sent = 0 /\ sinkFaults = 0 /\ flushing = {} /\ returned = {} /\ gone = {}
        BY DEF SinksInit
    <2> HIDE DEF calls, places
    <2>3. sent \in 0 .. LastSent /\ sinkFaults \in 0 .. SinkFaults
        BY <2>2, SinksAssumption
    <2> QED  BY <2>1, <2>2, <2>3 DEF SinksTypeOK
<1>2. SinksInv => SinkSets
    BY DEF SinksInv
<1> QED  BY <1>1, <1>2, <1>3, SinksStep, SinksTypesKeep, PTL DEF SinksSpec
=============================================================================
