---------------------------- MODULE AdminDirectory ----------------------------
(***************************************************************************)
(* The Confluent Cloud admin client: its listings of environments and      *)
(* clusters (page by page) and of one cluster's topics and ACLs (a single  *)
(* page, from the endpoint the cluster listing names), with their shared   *)
(* cache and the rate limit.                                               *)
(*                                                                         *)
(* A listing is abstracted to the set of the pages it holds.               *)
(***************************************************************************)
EXTENDS Integers, FiniteSets

CONSTANTS
    Threads,         \* the threads that use the client
    PageCount,       \* the pages of the environments and of the clusters
    EndpointPage,   \* the page of clusters that holds the cluster asked for
    CacheTtl,       \* cache_ttl
    WaitCap,        \* the longest sleep for the rate limit
    RetryAfters,    \* the waits a 429 asks for
    LastTick        \* bound on time

ASSUME DirectoryAssumption ==
    /\ PageCount \in Nat \ {0} /\ EndpointPage \in 1 .. PageCount
    /\ CacheTtl \in Nat \ {0} /\ WaitCap \in Nat \ {0}
    /\ RetryAfters \subseteq Nat /\ LastTick \in Nat

CloudKeys == {"environments", "clusters"}
ClusterKeys == {"topics", "acls"}
Keys == CloudKeys \cup ClusterKeys

VARIABLES
    ticks,
    listings,       \* _cache: key -> the pages held and when they were put
    limitedUntil,   \* _rate_limit_reset
    asking          \* asker -> its call
directoryVars == <<ticks, listings, limitedUntil, asking>>

NoListing == [pages |-> {}, at |-> -1]

\* what a caller asks for ("want"), the request under way for it ("key"), the
\* time its sleep ends and the pages read so far
NotAsking == [step |-> "idle", want |-> "clusters", key |-> "clusters", wake |-> 0, got |-> {}]

DirectoryTypeOK ==
    /\ ticks \in 0 .. LastTick /\ limitedUntil \in Nat
    /\ listings \in [Keys -> [pages : SUBSET (1 .. PageCount), at : -1 .. LastTick]]
    /\ asking \in [Threads -> [step : {"idle", "sleeping", "reading"}, want : Keys, key : Keys,
                              wake : Nat, got : SUBSET (1 .. PageCount)]]

DirectoryInit ==
    /\ ticks = 0 /\ limitedUntil = 0
    /\ listings = [k \in Keys |-> NoListing]
    /\ asking = [a \in Threads |-> NotAsking]

Least(s, t) == IF s < t THEN s ELSE t

\* _get_cached: a TTLCache drops what is older than cache_ttl (TickClock)
HasListing(k) == listings[k].at >= 0

\* _set_cached
SetCached(k, pages) == listings' = [listings EXCEPT ![k] = [pages |-> pages, at |-> ticks]]

\* _wait_for_rate_limit: one sleep, of no more than the cap, whatever the limit
WaitForRateLimit == ticks + Least(limitedUntil - ticks, WaitCap)
StartReading(a, want, key) ==
    asking' = [asking EXCEPT ![a] =
        [step |-> IF key \in CloudKeys /\ ticks < limitedUntil THEN "sleeping" ELSE "reading",
         want |-> want, key |-> key, got |-> {},
         wake |-> IF key \in CloudKeys /\ ticks < limitedUntil THEN WaitForRateLimit ELSE 0]]
Woken(a) ==
    /\ asking[a].step = "sleeping" /\ ticks >= asking[a].wake
    /\ asking' = [asking EXCEPT ![a].step = "reading", ![a].wake = 0]
    /\ UNCHANGED <<ticks, listings, limitedUntil>>

\* a call returns
ReturnListing(a) == asking' = [asking EXCEPT ![a] = NotAsking]

\* list_environments
ListEnvironments(a) ==
    /\ asking[a].step = "idle" /\ ~HasListing("environments")
    /\ StartReading(a, "environments", "environments")
    /\ UNCHANGED <<ticks, listings, limitedUntil>>

\* list_clusters
ListClusters(a) ==
    /\ asking[a].step = "idle" /\ ~HasListing("clusters")
    /\ StartReading(a, "clusters", "clusters")
    /\ UNCHANGED <<ticks, listings, limitedUntil>>

\* The cluster's REST endpoint, as a listing of clusters tells it.
EndpointIn(pages) == EndpointPage \in pages

\* list_topics and list_acls: the caller gives the endpoint, or the cached
\* clusters tell it; without one the answer is empty and nothing is cached.
\* A listing of clusters that is not cached is read first.
ListTopics(a, given) ==
    /\ asking[a].step = "idle" /\ ~HasListing("topics")
    /\ \/ /\ given \/ (HasListing("clusters") /\ EndpointIn(listings["clusters"].pages))
          /\ StartReading(a, "topics", "topics")
       \/ ~given /\ ~HasListing("clusters") /\ StartReading(a, "topics", "clusters")
    /\ UNCHANGED <<ticks, listings, limitedUntil>>
ListAcls(a, given) ==
    /\ asking[a].step = "idle" /\ ~HasListing("acls")
    /\ \/ /\ given \/ (HasListing("clusters") /\ EndpointIn(listings["clusters"].pages))
          /\ StartReading(a, "acls", "acls")
       \/ ~given /\ ~HasListing("clusters") /\ StartReading(a, "acls", "clusters")
    /\ UNCHANGED <<ticks, listings, limitedUntil>>

\* The clusters read for another listing: go on with its own request, or give
\* up when they do not tell the endpoint.
WithClusters(a, pages) ==
    IF asking[a].want = "clusters" \/ ~EndpointIn(pages) THEN ReturnListing(a)
    ELSE StartReading(a, asking[a].want, asking[a].want)

\* What each loop has read once the next page is there.
NextPages(a) == asking[a].got \cup {Cardinality(asking[a].got) + 1}

ReadEnvironments(a) ==
    /\ asking[a].step = "reading" /\ asking[a].key = "environments"
    /\ \/ /\ PageCount \notin NextPages(a)
          /\ asking' = [asking EXCEPT ![a].got = NextPages(a)] /\ UNCHANGED listings
       \/ PageCount \in NextPages(a) /\ SetCached("environments", NextPages(a)) /\ ReturnListing(a)
    /\ UNCHANGED <<ticks, limitedUntil>>
ReadClusters(a) ==
    /\ asking[a].step = "reading" /\ asking[a].key = "clusters"
    /\ \/ /\ PageCount \notin NextPages(a)
          /\ asking' = [asking EXCEPT ![a].got = NextPages(a)] /\ UNCHANGED listings
       \/ /\ PageCount \in NextPages(a)
          /\ SetCached("clusters", NextPages(a)) /\ WithClusters(a, NextPages(a))
    /\ UNCHANGED <<ticks, limitedUntil>>
ReadTopics(a) ==
    /\ asking[a].step = "reading" /\ asking[a].key = "topics"
    /\ SetCached("topics", {1}) /\ ReturnListing(a) /\ UNCHANGED <<ticks, limitedUntil>>
ReadAcls(a) ==
    /\ asking[a].step = "reading" /\ asking[a].key = "acls"
    /\ SetCached("acls", {1}) /\ ReturnListing(a) /\ UNCHANGED <<ticks, limitedUntil>>

\* _handle_rate_limit: a 429 ends the loop as the last page does; the pages
\* read before it are cached and answered as the whole listing.
RateLimited(a, wait) ==
    /\ asking[a].step = "reading" /\ asking[a].key \in CloudKeys
    /\ limitedUntil' = ticks + wait
    /\ SetCached(asking[a].key, asking[a].got)
    /\ IF asking[a].key = "clusters" THEN WithClusters(a, asking[a].got) ELSE ReturnListing(a)
    /\ UNCHANGED ticks

\* an exception: nothing is cached and the listing is empty
\* (the mutant keeps the pages read so far)
KeptOnError_Partial(a) == SetCached(asking[a].key, asking[a].got)
KeptOnError(a) == UNCHANGED listings
ListingFails(a) ==
    /\ asking[a].step = "reading" /\ KeptOnError(a) /\ ReturnListing(a)
    /\ UNCHANGED <<ticks, limitedUntil>>

\* refresh_cache, which the fetches under way do not see
RefreshCache ==
    /\ listings' = [k \in Keys |-> NoListing]
    /\ UNCHANGED <<ticks, limitedUntil, asking>>

TickClock ==
    /\ ticks < LastTick /\ ticks' = ticks + 1
    /\ listings' = [k \in Keys |-> IF listings[k].at + CacheTtl > ticks + 1 THEN listings[k]
                                  ELSE NoListing]
    /\ UNCHANGED <<limitedUntil, asking>>

DirectoryNext ==
    \/ \E a \in Threads :
        \/ ListEnvironments(a) \/ ListClusters(a) \/ Woken(a)
        \/ \E given \in BOOLEAN : ListTopics(a, given) \/ ListAcls(a, given)
        \/ ReadEnvironments(a) \/ ReadClusters(a) \/ ReadTopics(a) \/ ReadAcls(a)
        \/ \E wait \in RetryAfters : RateLimited(a, wait)
        \/ ListingFails(a)
    \/ RefreshCache \/ TickClock

DirectorySpec == DirectoryInit /\ [][DirectoryNext]_directoryVars

(***************************************************************************)
(* Properties                                                              *)
(***************************************************************************)

WholeListing(k) == IF k \in CloudKeys THEN 1 .. PageCount ELSE {1}

\* A cached listing that lacks a page was cut by the rate limit: no failed
\* request, no refresh during a fetch and no other caller's pages leave a part
\* of a listing in the cache (list_environments, list_clusters: the excepts).
CutByTheLimitOnly ==
    \A k \in Keys : (listings[k].at >= 0 /\ listings[k].pages # WholeListing(k))
        => k \in CloudKeys /\ limitedUntil >= listings[k].at
===============================================================================
