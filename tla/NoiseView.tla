------------------------------- MODULE NoiseView -------------------------------
(***************************************************************************)
(* What the API says of the noise table, which an older deployment may not *)
(* have yet: the cached existence test and the cached distribution of      *)
(* methods of backend/app/services/noise_service.py.  Requests run in      *)
(* threads; both caches are read and written in separate locked sections.  *)
(***************************************************************************)
EXTENDS Naturals

CONSTANTS
    Readers,        \* requests in hand at once
    FalseTtl,       \* _EXISTENCE_FALSE_TTL
    MethodsTtl,     \* METHODS_TTL_SECONDS
    LastMoment,     \* bound: the clock's last value
    QueryFaults     \* bound: probes and queries that raise

ASSUME NoiseAssumption ==
    /\ {FalseTtl, MethodsTtl} \subseteq Nat \ {0}
    /\ {LastMoment, QueryFaults} \subseteq Nat

Moments == 0 .. LastMoment

\* Evidence: when somebody last looked in vain; Seen: the table's rows are there.
Seen == LastMoment + 1
Evidence == Moments \cup {Seen}

VARIABLES
    moment,
    tableThere,     \* audit_events_noise exists
    existence,      \* _existence_cache: what it says, until when, and ghost: since when
    methods,        \* _methods_cache: until when, and ghost: the evidence of its noise
                    \* rows and the time its making took
    reader,         \* [Readers -> a request]
    queryFaultsLeft,
    answered        \* ghost: the answer the last step gave: moment, evidence, allowance

noiseVars == <<moment, tableThere, existence, methods, reader, queryFaultsLeft, answered>>

Resting == [at |-> "resting"]
NotCached == [cached |-> FALSE]
NoAnswer == [at |-> 0, since |-> Seen, within |-> 0]

NoiseTypeOK ==
    /\ moment \in Moments /\ tableThere \in BOOLEAN
    /\ existence # NotCached => existence.since \in Evidence
    /\ methods # NotCached => methods.since \in Evidence /\ methods.until > moment
    /\ \A r \in Readers : reader[r].at \in
        {"resting", "noise", "probing", "probed", "counting", "storing"}
    /\ queryFaultsLeft \in 0 .. QueryFaults
    /\ answered.since \in Evidence

NoiseInit ==
    /\ moment = 0
    /\ tableThere \in BOOLEAN
    /\ existence = NotCached
    /\ methods = NotCached
    /\ reader = [r \in Readers |-> Resting]
    /\ queryFaultsLeft = QueryFaults
    /\ answered = NoAnswer

Fault == queryFaultsLeft > 0 /\ queryFaultsLeft' = queryFaultsLeft - 1

Silent == answered' = NoAnswer
Answer(since, within) == answered' = [at |-> moment, since |-> since, within |-> within]

\* A request comes to the end of its noise rows: the distribution is stored first,
\* the other routes answer at once.
Conclude(r, since) ==
    IF reader[r].for = "methods"
    THEN /\ reader' = [reader EXCEPT ![r] = [at |-> "storing", for |-> "methods",
                                             since |-> since, asked |-> reader[r].asked]]
         /\ Silent
    ELSE /\ reader' = [reader EXCEPT ![r] = Resting]
         /\ Answer(since, FalseTtl + (moment - reader[r].asked))

\* get_method_distribution: a fresh distribution is the answer; else the signal
\* table is queried, which leaves its rows out if that fails, and then noise.
AskMethods(r) ==
    /\ reader[r] = Resting
    /\ IF methods # NotCached
       THEN /\ Answer(methods.since, FalseTtl + MethodsTtl + methods.took)
            /\ UNCHANGED reader
       ELSE /\ reader' = [reader EXCEPT ![r] = [at |-> "noise", for |-> "methods"]]
            /\ Silent
    /\ UNCHANGED <<moment, tableThere, existence, methods, queryFaultsLeft>>

\* list_noise_events, get_noise_summary: straight to the noise table
AskNoise(r) ==
    /\ reader[r] = Resting
    /\ reader' = [reader EXCEPT ![r] = [at |-> "noise", for |-> "noise"]]
    /\ UNCHANGED <<moment, tableThere, existence, methods, queryFaultsLeft>>
    /\ Silent

\* noise_table_exists up to the probe.  `now` is read here and used after it.
CheckCache(r) ==
    /\ reader[r].at = "noise"
    /\ LET there == existence # NotCached /\ existence.there
           fresh == existence # NotCached /\ ~there /\ moment < existence.until
       IN  \/ /\ there
              /\ reader' = [reader EXCEPT ![r] = [at |-> "counting", for |-> reader[r].for,
                                                  asked |-> moment]]
              /\ Silent
           \/ /\ fresh
              /\ IF reader[r].for = "methods"
                 THEN /\ reader' = [reader EXCEPT ![r] =
                                        [at |-> "storing", for |-> "methods",
                                         since |-> existence.since, asked |-> moment]]
                      /\ Silent
                 ELSE /\ reader' = [reader EXCEPT ![r] = Resting]
                      /\ Answer(existence.since, FalseTtl)
           \/ /\ ~there /\ ~fresh
              /\ reader' = [reader EXCEPT ![r] = [at |-> "probing", for |-> reader[r].for,
                                                  asked |-> moment]]
              /\ Silent
    /\ UNCHANGED <<moment, tableThere, existence, methods, queryFaultsLeft>>

\* inspect(bind).get_table_names(); a probe that raises counts as "absent".
Probe(r) ==
    /\ reader[r].at = "probing"
    /\ \/ /\ reader' = [reader EXCEPT ![r] = [at |-> "probed", for |-> @.for, asked |-> @.asked,
                                              since |-> IF tableThere THEN Seen ELSE moment]]
          /\ UNCHANGED queryFaultsLeft
       \/ /\ reader' = [reader EXCEPT ![r] = [at |-> "probed", for |-> @.for, asked |-> @.asked,
                                              since |-> moment]]
          /\ Fault
    /\ UNCHANGED <<moment, tableThere, existence, methods>>
    /\ Silent

\* Mutated: the answer's lifetime is counted from its writing.
Cached_FromNow(since, now) ==
    [there |-> since = Seen, since |-> since,
     until |-> IF since = Seen THEN LastMoment + 1 ELSE moment + FalseTtl]

\* TRUE is kept for good, FALSE until FalseTtl after the probe began.
Cached(since, now) ==
    [there |-> since = Seen, since |-> since,
     until |-> IF since = Seen THEN LastMoment + 1 ELSE now + FalseTtl]

\* The write, which may replace a TRUE that a later probe has put there.
CacheProbe(r) ==
    /\ reader[r].at = "probed"
    /\ existence' = Cached(reader[r].since, reader[r].asked)
    /\ IF reader[r].since = Seen
       THEN /\ reader' = [reader EXCEPT ![r] = [at |-> "counting", for |-> @.for,
                                                asked |-> @.asked]]
            /\ Silent
       ELSE Conclude(r, reader[r].since)
    /\ UNCHANGED <<moment, tableThere, methods, queryFaultsLeft>>

\* The query on the noise table: its rows, or none after an error
CountNoise(r) ==
    /\ reader[r].at = "counting"
    /\ \/ Conclude(r, Seen) /\ UNCHANGED queryFaultsLeft
       \/ Conclude(r, moment) /\ Fault
    /\ UNCHANGED <<moment, tableThere, existence, methods>>

\* _methods_cache: an answer that lacks rows is kept as long as a whole one.
StoreMethods(r) ==
    /\ reader[r].at = "storing"
    /\ methods' = [since |-> reader[r].since, until |-> moment + MethodsTtl,
                   took |-> moment - reader[r].asked]
    /\ Answer(reader[r].since, FalseTtl + (moment - reader[r].asked))
    /\ reader' = [reader EXCEPT ![r] = Resting]
    /\ UNCHANGED <<moment, tableThere, existence, queryFaultsLeft>>

\* Migration 0007
CreateTable ==
    /\ ~tableThere
    /\ tableThere' = TRUE
    /\ UNCHANGED <<moment, existence, methods, reader, queryFaultsLeft>>
    /\ Silent

\* An entry whose time is over counts as none.
Kept(entry) == IF entry # NotCached /\ entry.until <= moment + 1 THEN NotCached ELSE entry

NoiseTick ==
    /\ moment < LastMoment
    /\ moment' = moment + 1
    /\ existence' = Kept(existence)
    /\ methods' = Kept(methods)
    /\ UNCHANGED <<tableThere, reader, queryFaultsLeft>>
    /\ Silent

NoiseNext ==
    \/ \E r \in Readers :
        \/ AskMethods(r) \/ AskNoise(r)
        \/ CheckCache(r) \/ Probe(r) \/ CacheProbe(r)
        \/ CountNoise(r)
        \/ StoreMethods(r)
    \/ CreateTable
    \/ NoiseTick

NoiseSpec == NoiseInit /\ [][NoiseNext]_noiseVars

-----------------------------------------------------------------------------
(* Properties *)

\* An answer without noise rows rests on a look at the database, in vain or
\* failed, that is younger than the lifetime of a FALSE, plus that of a stored
\* distribution when it comes from there, plus the time the request that built it
\* took: the two caches, one filled from the other by racing threads, heal within
\* the sum of their lifetimes.
MissingNoiseIsRecent ==
    answered.since # Seen => answered.at - answered.since < answered.within
=============================================================================
