------------------------------ MODULE ActorNames ------------------------------
(***************************************************************************)
(* How the forwarder turns a principal into a name: enrich_actor with its  *)
(* cache (product/actor_enrichment.py), the bulk prefetch that fills that  *)
(* cache, actor_mappings.yml with its editor in the API, and under them    *)
(* IdentityEnricher (identity/enricher.py), whose thread refreshes its     *)
(* maps of service accounts and users and which caches what it resolves.   *)
(*                                                                         *)
(* One unit of time is longer than a lookup, a refresh or an edit takes.   *)
(* A name is <<"iam", n>>, the n-th name that a principal has in Confluent *)
(* Cloud, <<"file", n>>, the n-th mapping, or Raw, the principal's own id. *)
(* Names in audit events and the other configured maps are left out: they  *)
(* answer only where these two have none.                                  *)
(***************************************************************************)
EXTENDS Naturals

CONSTANTS
    Principals,
    Lookups,         \* threads that may be in enrich_actor
    ActorTtl,        \* IAM_ENRICHMENT_CACHE_TTL_SECONDS, of _CACHE too
    IdentityTtl,     \* cache_ttl of the enricher
    RefreshEvery,    \* refresh_interval_seconds
    LastTime,        \* bound: the clock
    MaxRenamings,    \* bound: new names given in Confluent Cloud
    MaxEdits,        \* bound: edits of the mapping file
    MaxPrefetches,   \* bound: bulk prefetches
    IamFaults        \* bound: refreshes that fail or are cut short

ASSUME ActorNamesAssumption ==
    /\ {ActorTtl, IdentityTtl, RefreshEvery} \subseteq Nat \ {0}
    /\ {LastTime, MaxRenamings, MaxEdits, MaxPrefetches, IamFaults} \subseteq Nat

Raw == <<"raw", 0>>
NoEntry == [name |-> Raw, at |-> LastTime + 1]
Idle == [of |-> "nobody"]

VARIABLES
    iamName,         \* the name of each principal in Confluent Cloud
    mapping,         \* what actor_mappings.yml gives each principal
    written,         \* FALSE while the editor has the file open (its two mtimes differ)
    maps,            \* _service_accounts and _users
    identityCache,   \* _cache of the enricher
    actorCache,      \* _CACHE of actor_enrichment
    lookup,          \* what each thread in enrich_actor has found
    fetchedMaps,     \* the names a refresh holds, or Idle
    prefetched,      \* the names a prefetch holds, or Idle
    loaded,          \* _identities_loaded
    refreshDue, clock,
    lastTrue,        \* ghost: when a principal last had a name in Confluent Cloud
    lastEdit,        \* ghost: when the mapping file was last written
    failedRefreshes, renamings, edits, prefetches

namesVars == <<iamName, mapping, written, maps, identityCache, actorCache, lookup, fetchedMaps,
               prefetched, loaded, refreshDue, clock, lastTrue, lastEdit, failedRefreshes,
               renamings, edits, prefetches>>
sourceVars == <<iamName, mapping, written, lastTrue, lastEdit, renamings, edits>>
enricherVars == <<maps, identityCache, fetchedMaps, loaded, refreshDue, failedRefreshes>>
actorNameVars == <<actorCache, lookup, prefetched, prefetches>>

IamNames == {<<"iam", n>> : n \in 0 .. MaxRenamings}
FileNames == {<<"file", n>> : n \in 1 .. MaxEdits}

NamesTypeOK ==
    /\ iamName \in [Principals -> IamNames]
    /\ mapping \in [Principals -> FileNames \cup {Raw}]
    /\ maps \in [Principals -> IamNames \cup {Raw}]
    /\ clock \in 0 .. LastTime
    /\ refreshDue \in Nat
    /\ failedRefreshes \in 0 .. IamFaults

NamesInit ==
    /\ iamName = [p \in Principals |-> <<"iam", 0>>]
    /\ mapping = [p \in Principals |-> Raw]
    /\ written = TRUE
    /\ maps = [p \in Principals |-> Raw]
    /\ identityCache = [p \in Principals |-> NoEntry]
    /\ actorCache = [p \in Principals |-> NoEntry]
    /\ lookup = [t \in Lookups |-> Idle]
    /\ fetchedMaps = Idle /\ prefetched = Idle
    /\ loaded = FALSE
    /\ refreshDue = 0 /\ clock = 0
    /\ lastTrue = [p \in Principals |-> [n \in IamNames |-> 0]]
    /\ lastEdit = 0
    /\ failedRefreshes = 0 /\ renamings = 0 /\ edits = 0 /\ prefetches = 0

-----------------------------------------------------------------------------
(* The sources *)

Rename(p) ==
    /\ renamings < MaxRenamings
    /\ renamings' = renamings + 1
    /\ iamName' = [iamName EXCEPT ![p] = <<"iam", renamings'>>]
    /\ lastTrue' = [lastTrue EXCEPT ![p][iamName'[p]] = clock]
    /\ UNCHANGED <<mapping, written, lastEdit, edits, enricherVars, actorNameVars, clock>>

\* _save_yaml opens the file for writing, which empties it, and then dumps.
OpenMapping ==
    /\ written
    /\ edits < MaxEdits
    /\ written' = FALSE
    /\ edits' = edits + 1
    /\ UNCHANGED <<iamName, mapping, lastTrue, lastEdit, renamings, enricherVars, actorNameVars,
                   clock>>

DumpMapping(p) ==
    /\ ~written
    /\ written' = TRUE
    /\ mapping' = [mapping EXCEPT ![p] = <<"file", edits>>]
    /\ lastEdit' = clock
    /\ UNCHANGED <<iamName, lastTrue, renamings, edits, enricherVars, actorNameVars,
                   clock>>

-----------------------------------------------------------------------------
(* The enricher's thread *)

\* _fetch_all_identities into new dicts: all pages, or those before a 429.
FetchIdentities ==
    /\ clock >= refreshDue
    /\ fetchedMaps = Idle
    /\ \/ /\ fetchedMaps' = [of |-> "all", names |-> iamName]
          /\ UNCHANGED failedRefreshes
       \/ /\ failedRefreshes < IamFaults
          /\ failedRefreshes' = failedRefreshes + 1
          /\ \E some \in SUBSET Principals :
                fetchedMaps' = [of |-> "some",
                            names |-> [p \in Principals |-> IF p \in some THEN iamName[p] ELSE Raw]]
    /\ UNCHANGED <<sourceVars, maps, identityCache, loaded, refreshDue, actorNameVars,
                   clock>>

\* The maps are swapped; every refresh but the first clears the enricher's cache.
SwapIdentities ==
    /\ fetchedMaps # Idle
    /\ maps' = fetchedMaps.names
    /\ fetchedMaps' = Idle
    /\ loaded' = TRUE
    /\ identityCache' = IF loaded THEN [p \in Principals |-> NoEntry] ELSE identityCache
    /\ refreshDue' = clock + RefreshEvery
    /\ UNCHANGED <<sourceVars, failedRefreshes, actorNameVars, clock>>

\* The refresh raises: the old maps and the cache stay.
RefreshFails ==
    /\ clock >= refreshDue
    /\ fetchedMaps = Idle
    /\ failedRefreshes < IamFaults
    /\ failedRefreshes' = failedRefreshes + 1
    /\ loaded' = TRUE
    /\ refreshDue' = clock + RefreshEvery
    /\ UNCHANGED <<sourceVars, maps, identityCache, fetchedMaps, actorNameVars, clock>>

-----------------------------------------------------------------------------
(* enrich_actor *)

Fresh(entry, ttl) == entry.at <= clock /\ clock - entry.at < ttl

\* resolve: the enricher's cache, else the maps; what is found is cached, the raw
\* id too.
Resolved(p) == IF Fresh(identityCache[p], IdentityTtl) THEN identityCache[p].name ELSE maps[p]

Override(p) == IF written THEN mapping[p] ELSE Raw

\* Mutated: the mapping answers only for a principal without a name.
NameFor_IamFirst(p) == IF Resolved(p) # Raw THEN Resolved(p) ELSE Override(p)

NameFor(p) == IF Override(p) # Raw THEN Override(p) ELSE Resolved(p)

\* A cache miss: the mapping, the enricher, or the raw id.
LookUp(t, p) ==
    /\ lookup[t] = Idle
    /\ ~Fresh(actorCache[p], ActorTtl)
    /\ lookup' = [lookup EXCEPT ![t] = [of |-> p, name |-> NameFor(p)]]
    /\ identityCache' = IF Override(p) = Raw /\ ~Fresh(identityCache[p], IdentityTtl)
                        THEN [identityCache EXCEPT ![p] = [name |-> maps[p], at |-> clock]]
                        ELSE identityCache
    /\ UNCHANGED <<sourceVars, maps, fetchedMaps, loaded, refreshDue, failedRefreshes, actorCache,
                   prefetched, prefetches, clock>>

\* The double-checked write: an entry made in the meantime stays.
CacheName(t) ==
    /\ lookup[t] # Idle
    /\ LET p == lookup[t].of
       IN  actorCache' = IF Fresh(actorCache[p], ActorTtl) THEN actorCache
                         ELSE [actorCache EXCEPT ![p] =
                                 [name |-> lookup[t].name, at |-> clock, by |-> "lookup"]]
    /\ lookup' = [lookup EXCEPT ![t] = Idle]
    /\ UNCHANGED <<sourceVars, enricherVars, prefetched, prefetches, clock>>

\* _bulk_prefetch_identities, at startup and every six hours: all pages or some.
Prefetch ==
    /\ prefetched = Idle
    /\ prefetches < MaxPrefetches
    /\ prefetches' = prefetches + 1
    /\ \E some \in SUBSET Principals :
          prefetched' = [of |-> "some", at |-> clock,
                         names |-> [p \in Principals |-> IF p \in some THEN iamName[p] ELSE Raw]]
    /\ UNCHANGED <<sourceVars, enricherVars, actorCache, lookup, clock>>

\* It fills what is absent and replaces raw ids, and asks no mapping.
StorePrefetched ==
    /\ prefetched # Idle
    /\ actorCache' = [p \in Principals |->
            IF /\ prefetched.names[p] # Raw
               /\ ~Fresh(actorCache[p], ActorTtl) \/ actorCache[p].name = Raw
            THEN [name |-> prefetched.names[p], at |-> prefetched.at, by |-> "prefetch"]
            ELSE actorCache[p]]
    /\ prefetched' = Idle
    /\ UNCHANGED <<sourceVars, enricherVars, lookup, prefetches, clock>>

\* Time does not pass while one of them is at work, or past a refresh that is due.
NamesTick ==
    /\ clock < LastTime
    /\ clock < refreshDue
    /\ written /\ fetchedMaps = Idle /\ prefetched = Idle
    /\ \A t \in Lookups : lookup[t] = Idle
    /\ clock' = clock + 1
    /\ lastTrue' = [p \in Principals |->
            [n \in IamNames |-> IF n = iamName[p] THEN clock' ELSE lastTrue[p][n]]]
    /\ identityCache' = [p \in Principals |->
            IF clock' - identityCache[p].at >= IdentityTtl THEN NoEntry ELSE identityCache[p]]
    /\ actorCache' = [p \in Principals |->
            IF clock' - actorCache[p].at >= ActorTtl THEN NoEntry ELSE actorCache[p]]
    /\ UNCHANGED <<iamName, mapping, written, lastEdit, renamings, edits, maps, fetchedMaps, loaded,
                   refreshDue, failedRefreshes, lookup, prefetched, prefetches>>

NamesNext ==
    \/ \E p \in Principals : Rename(p) \/ DumpMapping(p)
    \/ OpenMapping
    \/ FetchIdentities \/ SwapIdentities \/ RefreshFails
    \/ \E t \in Lookups : CacheName(t) \/ \E p \in Principals : LookUp(t, p)
    \/ Prefetch \/ StorePrefetched
    \/ NamesTick

NamesSpec == NamesInit /\ [][NamesNext]_namesVars

-----------------------------------------------------------------------------
(* Properties *)

Served(p) == IF Fresh(actorCache[p], ActorTtl) THEN {actorCache[p].name} ELSE {}

\* Through three layers of caching no event gets a name that its principal lost longer
\* ago than one lookup is kept and the maps may be old: a refresh interval, and one
\* more for each refresh that failed.
NamesAreRecent ==
    \A p \in Principals : \A n \in Served(p) \cap IamNames :
        clock - lastTrue[p][n] < ActorTtl + RefreshEvery * (1 + failedRefreshes)

\* A lookup that began after the mapping file was last written serves the mapping:
\* an edit is heeded, without a restart, at the latest when what was cached before it
\* expires.  A prefetch puts its names before the mapping, and is exempt.
EditsAreHeeded ==
    \A p \in Principals :
        /\ Fresh(actorCache[p], ActorTtl)
        /\ mapping[p] # Raw
        /\ clock - lastEdit >= ActorTtl
        /\ written
        => actorCache[p].by = "prefetch" \/ actorCache[p].name = mapping[p]

\* Names are as recent as the caches under them promise, and an edit is heeded.
ActorNamesCurrent == NamesAreRecent /\ EditsAreHeeded
=============================================================================
