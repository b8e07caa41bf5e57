---------------------------- MODULE AnswerProofs ----------------------------
(***************************************************************************)
(* Theorems about what is shown or looked up, for every value of the       *)
(* constants: the forwarder's health and its API's tokens, exports and     *)
(* answers, the listings of the Confluent Cloud API, the view of the noise *)
(* table, the lookup of secrets, the status, the names of actors, the      *)
(* events page and the summaries.                                          *)
(***************************************************************************)
EXTENDS Health, AdminDirectory, NoiseView, SecretLookup, ActorNames, EventsView,
        Summaries, ForwarderApi, FiniteSetTheorems, SequenceTheorems, TLAPS

-----------------------------------------------------------------------------
(* The forwarder's health *)

\* Marks are counted and dated by the clock, retries are among the troubles since records last
\* came, and a trouble is what takes a started forwarder out of "connected".
MarksAreDated ==
    /\ {tick, retries, troubles, errorTotal, processed, writeErrors, dropped} \subseteq Nat
    /\ idleFrom \in 0 .. tick /\ caughtUp \in BOOLEAN
    /\ lastWrite \in {Never} \cup 0 .. tick /\ lastEvent \in {Never} \cup 0 .. tick
HealthInv ==
    /\ MarksAreDated
    /\ retries <= troubles
    /\ Started /\ troubles = 0 => consumer = "connected"

LEMMA HealthStep == HealthInv /\ [ForwarderHealthNext]_forwarderHealthVars => HealthInv'
<1> SUFFICES ASSUME HealthInv, [ForwarderHealthNext]_forwarderHealthVars PROVE HealthInv'
    OBVIOUS
<1> USE DEF HealthInv, MarksAreDated, Started, Never
<1>1. CASE UNCHANGED forwarderHealthVars
    BY <1>1 DEF forwarderHealthVars, consumerVars, writerVars
<1>2. CASE ConnectivityChecked
    BY <1>2 DEF ConnectivityChecked, writerVars
<1>3. CASE ConnectivityFails
    BY <1>3 DEF ConnectivityFails, RecordRetry, writerVars
<1>4. CASE ConsumeFails
    BY <1>4 DEF ConsumeFails, RecordRetry, writerVars
<1>5. CASE PollRecords
    BY <1>5 DEF PollRecords, writerVars
<1>6. CASE LagReported
    BY <1>6 DEF LagReported, writerVars
<1>7. CASE WriteSucceeds
    BY <1>7 DEF WriteSucceeds, consumerVars
<1>8. CASE WriteFails
    BY <1>8 DEF WriteFails
<1>9. CASE DropEvent
    BY <1>9 DEF DropEvent, consumerVars
<1>10. CASE TickPasses
    BY <1>10 DEF TickPasses, consumerVars, writerVars
<1> QED
    BY <1>1, <1>2, <1>3, <1>4, <1>5, <1>6, <1>7, <1>8, <1>9, <1>10 DEF ForwarderHealthNext

\* What /health says follows from the marks.
LEMMA HealthJudged == HealthInv => HealthIsEarned
<1> SUFFICES ASSUME HealthInv PROVE HealthIsEarned
    OBVIOUS
<1> USE DEF HealthInv, MarksAreDated, Never
<1>1. /\ HealthPayload.ok = IsHealthy /\ HealthPayload.consumer = ConsumerStatus
      /\ HealthPayload.writer = WriterStatus /\ HealthPayload.replay = ReplayRecommended
    BY DEF HealthPayload
<1>2. QuietAfter \in Nat /\ DeadAfter \in Nat /\ QuietAfter <= DeadAfter
    BY ForwarderHealthAssumption
<1>3. Started /\ troubles = 0 /\ ~TooManyErrors => IsHealthy
    BY <1>2 DEF IsHealthy, IsIdle, IdleFor
<1>4. retries > 0 /\ IdleFor > DeadAfter => ~IsHealthy
    BY <1>2 DEF IsHealthy, IsIdle
<1>5. IsHealthy => ConsumerStatus # "degraded"
    BY <1>2 DEF IsHealthy, ConsumerStatus, IdleFor
<1>6. ASSUME tick - lastEvent <= QuietAfter PROVE ReplayRecommended <=> dropped > 0
    <2>1. ~ (lastEvent # Never /\ tick - lastEvent > DeadAfter)
        BY <1>2, <1>6
    <2> QED  BY <2>1, Zenon DEF ReplayRecommended
<1> QED
    BY <1>1, <1>3, <1>4, <1>5, <1>6 DEF HealthIsEarned

\* The forwarder's health is earned, however marks, failures and polls interleave: without a
\* failure it stays healthy however long it is idle, one that fails and gets nothing does not,
\* no answer is healthy with a degraded consumer, and a replay is recommended to a writer that
\* keeps up for a dropped event alone (_health_payload, audit_forwarder.py).
THEOREM HealthStaysEarned == ForwarderHealthSpec => []HealthIsEarned
<1>1. ForwarderHealthInit => HealthInv
    BY DEF ForwarderHealthInit, HealthInv, MarksAreDated, Started, Never
<1> QED
    BY <1>1, HealthStep, HealthJudged, PTL DEF ForwarderHealthSpec

-----------------------------------------------------------------------------
(* The admin directory *)

Calls == [step : {"idle", "sleeping", "reading"}, want : Keys, key : Keys, wake : Int,
          got : SUBSET Nat]

\* A listing is dated by the clock, a call has read the pages from the first on and not the
\* last, and a listing cut short was cut by a limit that was at least as late as it.
DirectoryInv ==
    /\ ticks \in Nat /\ limitedUntil \in Nat
    /\ listings \in [Keys -> [pages : SUBSET Nat, at : {-1} \cup 0 .. ticks]]
    /\ asking \in [Threads -> Calls]
    /\ \A a \in Threads : \E n \in 0 .. PageCount - 1 : asking[a].got = 1 .. n
    /\ CutByTheLimitOnly

\* The next page of a call is the one after those it has read.
LEMMA NextPageFollows ==
    ASSUME NEW a \in Threads, NEW n \in Nat, asking[a].got = 1 .. n
    PROVE  NextPages(a) = 1 .. (n + 1)
<1>1. Cardinality(1 .. n) = n
    BY FS_Interval
<1> QED
    BY <1>1 DEF NextPages

\* A call that begins has read nothing.
LEMMA ReadingStarts ==
    ASSUME NEW a \in Threads, NEW w \in Keys, NEW k \in Keys, DirectoryInv, StartReading(a, w, k)
    PROVE  /\ asking' \in [Threads -> Calls]
           /\ \A b \in Threads : \E n \in 0 .. PageCount - 1 : asking'[b].got = 1 .. n
<1> DEFINE begun == [step |-> IF k \in CloudKeys /\ ticks < limitedUntil THEN "sleeping" ELSE "reading",
                    want |-> w, key |-> k, got |-> {},
                    wake |-> IF k \in CloudKeys /\ ticks < limitedUntil THEN WaitForRateLimit ELSE 0]
<1>1. asking' = [asking EXCEPT ![a] = begun]
    BY DEF StartReading
<1>2. (IF k \in CloudKeys /\ ticks < limitedUntil THEN WaitForRateLimit ELSE 0) \in Int
    BY DirectoryAssumption DEF WaitForRateLimit, Least, DirectoryInv
<1>3. begun.got = 1 .. 0
    OBVIOUS
<1>4. begun \in Calls
    BY <1>2 DEF Calls
<1> HIDE DEF begun
<1>5. 0 \in 0 .. PageCount - 1
    BY DirectoryAssumption
<1> QED
    BY <1>1, <1>3, <1>4, <1>5 DEF DirectoryInv

LEMMA ReturnRests ==
    ASSUME NEW a \in Threads, DirectoryInv, ReturnListing(a)
    PROVE  /\ asking' \in [Threads -> Calls]
           /\ \A b \in Threads : \E n \in 0 .. PageCount - 1 : asking'[b].got = 1 .. n
<1>1. asking' = [asking EXCEPT ![a] = NotAsking]
    BY DEF ReturnListing
<1>2. NotAsking.got = 1 .. 0
    BY DEF NotAsking
<1>3. NotAsking \in Calls
    BY DEF NotAsking, Keys, CloudKeys, Calls
<1>4. 0 \in 0 .. PageCount - 1
    BY DirectoryAssumption
<1> QED
    BY <1>1, <1>2, <1>3, <1>4 DEF DirectoryInv

\* A listing put now leaves the others; it is whole, or the limit reaches up to now.
LEMMA CachedIsJustified ==
    ASSUME NEW k \in Keys, NEW pages \in SUBSET Nat, DirectoryInv, SetCached(k, pages), UNCHANGED ticks,
           limitedUntil' \in Nat, limitedUntil' >= limitedUntil \/ limitedUntil' >= ticks,
           pages = WholeListing(k) \/ (k \in CloudKeys /\ limitedUntil' >= ticks)
    PROVE  /\ listings' \in [Keys -> [pages : SUBSET Nat, at : {-1} \cup 0 .. ticks']]
           /\ CutByTheLimitOnly'
<1>1. listings' = [listings EXCEPT ![k] = [pages |-> pages, at |-> ticks]]
    BY DEF SetCached
<1>2. listings' \in [Keys -> [pages : SUBSET Nat, at : {-1} \cup 0 .. ticks']]
    BY <1>1 DEF DirectoryInv
<1>3. ASSUME NEW j \in Keys, listings'[j].at >= 0, listings'[j].pages # WholeListing(j)
      PROVE  j \in CloudKeys /\ limitedUntil' >= listings'[j].at
    <2>1. CASE j = k
        BY <1>1, <1>3, <2>1 DEF DirectoryInv
    <2>2. CASE j # k
        <3>1. listings'[j] = listings[j]
            BY <1>1, <2>2 DEF DirectoryInv
        <3>2. j \in CloudKeys /\ limitedUntil >= listings[j].at
            BY <1>3, <3>1 DEF DirectoryInv, CutByTheLimitOnly
        <3>3. listings[j].at \in Int /\ listings[j].at <= ticks
            BY DEF DirectoryInv
        <3> QED  BY <3>1, <3>2, <3>3 DEF DirectoryInv
    <2> QED  BY <2>1, <2>2
<1> QED
    BY <1>2, <1>3 DEF CutByTheLimitOnly, WholeListing

LEMMA DirectoryStep == DirectoryInv /\ [DirectoryNext]_directoryVars => DirectoryInv'
<1> SUFFICES ASSUME DirectoryInv, [DirectoryNext]_directoryVars PROVE DirectoryInv'
    OBVIOUS
<1>1. CASE UNCHANGED directoryVars
    BY <1>1 DEF directoryVars, DirectoryInv, CutByTheLimitOnly
<1>2. ASSUME NEW a \in Threads,
             \/ ListEnvironments(a) \/ ListClusters(a)
             \/ \E given \in BOOLEAN : ListTopics(a, given) \/ ListAcls(a, given)
      PROVE  DirectoryInv'
    <2>1. /\ UNCHANGED <<ticks, listings, limitedUntil>>
          /\ \E w \in Keys, k \in Keys : StartReading(a, w, k)
        BY <1>2 DEF ListEnvironments, ListClusters, ListTopics, ListAcls, Keys, CloudKeys, ClusterKeys
    <2> QED  BY <2>1, ReadingStarts DEF DirectoryInv, CutByTheLimitOnly
<1>3. ASSUME NEW a \in Threads, Woken(a) PROVE DirectoryInv'
    <2>1. /\ asking' = [asking EXCEPT ![a].step = "reading", ![a].wake = 0]
          /\ UNCHANGED <<ticks, listings, limitedUntil>>
        BY <1>3 DEF Woken
    <2>2. asking' \in [Threads -> Calls]
        <3>1. asking[a] \in Calls /\ asking \in [Threads -> Calls]
            BY DEF DirectoryInv
        <3>2. [asking[a] EXCEPT !.step = "reading", !.wake = 0] \in Calls
            <4>1. PICK begun \in Calls : begun = asking[a]
                BY <3>1
            <4>2. [begun EXCEPT !.step = "reading"] \in Calls
                BY DEF Calls
            <4>3. \A c \in Calls : [c EXCEPT !.wake = 0] \in Calls
                BY DEF Calls
            <4>4. [begun EXCEPT !.step = "reading", !.wake = 0]
                      = [[begun EXCEPT !.step = "reading"] EXCEPT !.wake = 0]
                OBVIOUS
            <4> QED  BY <4>1, <4>2, <4>3, <4>4
        <3>3. asking' = [asking EXCEPT ![a] = [asking[a] EXCEPT !.step = "reading", !.wake = 0]]
            BY <2>1
        <3> QED  BY <3>1, <3>2, <3>3
    <2>3. \A b \in Threads : asking'[b].got = asking[b].got
        BY <2>1 DEF DirectoryInv
    <2> QED  BY <2>1, <2>2, <2>3 DEF DirectoryInv, CutByTheLimitOnly
<1>4. ASSUME NEW a \in Threads, ReadEnvironments(a) \/ ReadClusters(a) PROVE DirectoryInv'
    <2>1. PICK n \in 0 .. PageCount - 1 : asking[a].got = 1 .. n
        BY DEF DirectoryInv
    <2>2. /\ n \in Nat /\ NextPages(a) = 1 .. (n + 1) /\ PageCount \in Nat \ {0}
        BY <2>1, NextPageFollows, DirectoryAssumption
    <2>3. CASE PageCount \notin NextPages(a)
        <3>1. /\ asking' = [asking EXCEPT ![a].got = 1 .. (n + 1)]
              /\ UNCHANGED <<ticks, listings, limitedUntil>>
            BY <1>4, <2>2, <2>3 DEF ReadEnvironments, ReadClusters
        <3>2. n + 1 \in 0 .. PageCount - 1
            BY <2>2, <2>3
        <3>3. asking' \in [Threads -> Calls]
            <4>1. asking[a] \in Calls /\ asking \in [Threads -> Calls]
                BY DEF DirectoryInv
            <4>2. [asking[a] EXCEPT !.got = 1 .. (n + 1)] \in Calls
                BY <4>1, <2>2 DEF Calls
            <4>3. asking' = [asking EXCEPT ![a] = [asking[a] EXCEPT !.got = 1 .. (n + 1)]]
                BY <3>1
            <4> QED  BY <4>1, <4>2, <4>3
        <3>4. \A b \in Threads : \E m \in 0 .. PageCount - 1 : asking'[b].got = 1 .. m
            BY <3>1, <3>2 DEF DirectoryInv
        <3> QED  BY <3>1, <3>3, <3>4 DEF DirectoryInv, CutByTheLimitOnly
    <2>4. CASE PageCount \in NextPages(a)
        <3>1. PICK k \in CloudKeys :
                  /\ asking[a].key = k /\ SetCached(k, NextPages(a)) /\ UNCHANGED <<ticks, limitedUntil>>
                  /\ ReturnListing(a) \/ WithClusters(a, NextPages(a))
            BY <1>4, <2>4 DEF ReadEnvironments, ReadClusters, CloudKeys
        <3>2. NextPages(a) = WholeListing(k) /\ NextPages(a) \in SUBSET Nat
            BY <2>2, <2>4, <2>1 DEF WholeListing
        <3>3. ReturnListing(a) \/ \E w \in Keys, j \in Keys : StartReading(a, w, j)
            BY <3>1 DEF WithClusters, DirectoryInv, Calls
        <3>4. /\ listings' \in [Keys -> [pages : SUBSET Nat, at : {-1} \cup 0 .. ticks']]
              /\ CutByTheLimitOnly'
            <4>1. PICK pages \in SUBSET Nat : pages = NextPages(a)
                BY <3>2
            <4>2. /\ k \in Keys /\ SetCached(k, pages) /\ UNCHANGED ticks /\ limitedUntil' \in Nat
                  /\ limitedUntil' >= limitedUntil /\ pages = WholeListing(k)
                BY <3>1, <3>2, <4>1 DEF DirectoryInv, Keys
            <4> QED  BY <4>2, CachedIsJustified
        <3>5. /\ asking' \in [Threads -> Calls]
              /\ \A b \in Threads : \E m \in 0 .. PageCount - 1 : asking'[b].got = 1 .. m
            BY <3>3, ReturnRests, ReadingStarts
        <3> QED  BY <3>1, <3>4, <3>5 DEF DirectoryInv
    <2> QED  BY <2>3, <2>4
<1>5. ASSUME NEW a \in Threads, ReadTopics(a) \/ ReadAcls(a) PROVE DirectoryInv'
    <2>1. PICK k \in ClusterKeys :
              SetCached(k, {1}) /\ ReturnListing(a) /\ UNCHANGED <<ticks, limitedUntil>>
        BY <1>5 DEF ReadTopics, ReadAcls, ClusterKeys
    <2>2. {1} = WholeListing(k) /\ {1} \in SUBSET Nat /\ k \in Keys
        BY DEF WholeListing, ClusterKeys, CloudKeys, Keys
    <2>3. /\ listings' \in [Keys -> [pages : SUBSET Nat, at : {-1} \cup 0 .. ticks']]
          /\ CutByTheLimitOnly'
        <3>1. PICK pages \in SUBSET Nat : pages = {1}
            BY <2>2
        <3>2. /\ k \in Keys /\ SetCached(k, pages) /\ UNCHANGED ticks /\ limitedUntil' \in Nat
              /\ limitedUntil' >= limitedUntil /\ pages = WholeListing(k)
            BY <2>1, <2>2, <3>1 DEF DirectoryInv
        <3> QED  BY <3>2, CachedIsJustified
    <2> QED  BY <2>1, <2>3, ReturnRests DEF DirectoryInv
<1>6. ASSUME NEW a \in Threads, NEW wait \in RetryAfters, RateLimited(a, wait) PROVE DirectoryInv'
    <2>1. PICK k \in CloudKeys :
              /\ limitedUntil' = ticks + wait /\ SetCached(k, asking[a].got) /\ UNCHANGED ticks
              /\ ReturnListing(a) \/ WithClusters(a, asking[a].got)
        BY <1>6 DEF RateLimited
    <2>2. wait \in Nat /\ asking[a].got \in SUBSET Nat /\ k \in Keys
        BY DirectoryAssumption DEF DirectoryInv, Keys
    <2>3. limitedUntil' \in Nat /\ limitedUntil' >= ticks
        BY <2>1, <2>2 DEF DirectoryInv
    <2>4. /\ listings' \in [Keys -> [pages : SUBSET Nat, at : {-1} \cup 0 .. ticks']]
          /\ CutByTheLimitOnly'
        <3>1. PICK pages \in SUBSET Nat : pages = asking[a].got
            BY <2>2
        <3>2. SetCached(k, pages)
            BY <2>1, <3>1
        <3>3. /\ k \in Keys /\ SetCached(k, pages) /\ UNCHANGED ticks /\ limitedUntil' \in Nat
              /\ limitedUntil' >= limitedUntil \/ limitedUntil' >= ticks
              /\ pages = WholeListing(k) \/ (k \in CloudKeys /\ limitedUntil' >= ticks)
            BY <2>1, <2>2, <2>3, <3>2
        <3> QED  BY <3>3, CachedIsJustified
    <2>5. ReturnListing(a) \/ \E w \in Keys, j \in Keys : StartReading(a, w, j)
        BY <2>1 DEF WithClusters, DirectoryInv, Calls
    <2>6. /\ asking' \in [Threads -> Calls]
          /\ \A b \in Threads : \E m \in 0 .. PageCount - 1 : asking'[b].got = 1 .. m
        BY <2>5, ReturnRests, ReadingStarts
    <2> QED  BY <2>1, <2>3, <2>4, <2>6 DEF DirectoryInv
<1>7. ASSUME NEW a \in Threads, ListingFails(a) PROVE DirectoryInv'
    <2>1. ReturnListing(a) /\ UNCHANGED <<ticks, listings, limitedUntil>>
        BY <1>7 DEF ListingFails, KeptOnError
    <2> QED  BY <2>1, ReturnRests DEF DirectoryInv, CutByTheLimitOnly
<1>8. CASE RefreshCache
    <2>1. NoListing.at = -1 /\ NoListing \in [pages : SUBSET Nat, at : {-1} \cup 0 .. ticks]
        BY DEF NoListing
    <2>2. /\ listings' = [k \in Keys |-> NoListing] /\ UNCHANGED <<ticks, limitedUntil, asking>>
        BY <1>8 DEF RefreshCache
    <2> QED  BY <2>1, <2>2 DEF DirectoryInv, CutByTheLimitOnly
<1>9. CASE TickClock
    <2>1. /\ ticks' = ticks + 1 /\ UNCHANGED <<limitedUntil, asking>>
          /\ \A k \in Keys : listings'[k] \in {listings[k], NoListing}
          /\ listings' = [k \in Keys |-> listings'[k]]
        BY <1>9 DEF TickClock
    <2>2. NoListing.at = -1 /\ NoListing \in [pages : SUBSET Nat, at : {-1} \cup 0 .. ticks']
        BY DEF NoListing
    <2>3. \A k \in Keys : listings[k] \in [pages : SUBSET Nat, at : {-1} \cup 0 .. ticks']
        BY <2>1 DEF DirectoryInv
    <2>4. listings' \in [Keys -> [pages : SUBSET Nat, at : {-1} \cup 0 .. ticks']]
        BY <2>1, <2>2, <2>3
    <2>5. CutByTheLimitOnly'
        BY <2>1, <2>2 DEF CutByTheLimitOnly, DirectoryInv, WholeListing
    <2> QED  BY <2>1, <2>4, <2>5 DEF DirectoryInv
<1> QED
    BY <1>1, <1>2, <1>3, <1>4, <1>5, <1>6, <1>7, <1>8, <1>9 DEF DirectoryNext

LEMMA DirectoryStarts == DirectoryInit => DirectoryInv
<1> SUFFICES ASSUME DirectoryInit PROVE DirectoryInv
    OBVIOUS
<1>1. NoListing.at = -1 /\ NoListing \in [pages : SUBSET Nat, at : {-1} \cup 0 .. ticks]
    BY DEF NoListing
<1>2. NotAsking.got = 1 .. 0 /\ 0 \in 0 .. PageCount - 1
    BY DirectoryAssumption DEF NotAsking
<1>3. NotAsking \in Calls
    BY DEF NotAsking, Keys, CloudKeys, Calls
<1>4. /\ ticks = 0 /\ limitedUntil = 0 /\ listings = [k \in Keys |-> NoListing]
      /\ asking = [a \in Threads |-> NotAsking]
    BY DEF DirectoryInit
<1>5. \A a \in Threads : \E n \in 0 .. PageCount - 1 : asking[a].got = 1 .. n
    BY <1>2, <1>4
<1>6. CutByTheLimitOnly
    BY <1>1, <1>4 DEF CutByTheLimitOnly
<1> QED  BY <1>1, <1>3, <1>4, <1>5, <1>6 DEF DirectoryInv

\* A cached listing of the Confluent Cloud API that lacks a page was cut by a rate limit: no
\* failed request, no refresh during a fetch and no other thread's pages leave a part of one
\* (list_environments, list_clusters, src/confluent_api/admin_client.py).
THEOREM CutsStayTheLimits == DirectorySpec => []CutByTheLimitOnly
<1>1. DirectoryInit => DirectoryInv
    BY DirectoryStarts
<1>2. DirectoryInv => CutByTheLimitOnly
    BY DEF DirectoryInv
<1> QED
    BY <1>1, <1>2, DirectoryStep, PTL DEF DirectorySpec

-----------------------------------------------------------------------------
(* Access to the forwarder's API *)

\* A call that is to reread the tokens has an mtime the file had, and reads no older a file.
CallIsOrdered(c, version) ==
    /\ c = [stage |-> c.stage, kind |-> c.kind, window |-> c.window, mtime |-> c.mtime,
            read |-> c.read, since |-> c.since, grant |-> c.grant]
    /\ c.stage = "reading" => c.mtime \in 0 .. version
    /\ c.stage = "setting" => c.mtime \in Nat /\ c.read \in Nat /\ c.mtime <= c.read

Exporting(c) == c.stage = "querying" /\ c.kind = "export"
UnderWay(calls) == {r \in ApiRequests : Exporting(calls[r])}

ExportCount(calls, askedFor, denied, made) ==
    /\ {askedFor, denied, made} \subseteq Nat
    /\ askedFor = denied + made + Cardinality(UnderWay(calls))

AccessInv ==
    /\ grantFile \in Nat /\ tokens.mtime \in Nat /\ tokens.read \in Nat /\ TokensKeepUp
    /\ call = [r \in ApiRequests |-> call[r]]
    /\ \A r \in ApiRequests : CallIsOrdered(call[r], grantFile)
    /\ ExportCount(call, exportAsked, denials, exports)

\* A step of one call: its export comes under way, is done, or neither.
LEMMA OneCallCounts ==
    ASSUME AccessInv, NEW r \in ApiRequests, NEW c, NEW calls, calls = [call EXCEPT ![r] = c],
           NEW askedFor, NEW denied, NEW made,
           \/ /\ Exporting(call[r]) <=> Exporting(c)
              /\ \/ askedFor = exportAsked /\ denied = denials
                 \/ askedFor = exportAsked + 1 /\ denied = denials + 1
              /\ made = exports
           \/ ~ Exporting(call[r]) /\ Exporting(c) /\ askedFor = exportAsked + 1 /\ denied = denials
              /\ made = exports
           \/ Exporting(call[r]) /\ ~ Exporting(c) /\ askedFor = exportAsked /\ denied = denials
              /\ made = exports + 1
    PROVE  ExportCount(calls, askedFor, denied, made)
<1> DEFINE before == UnderWay(call)
           after == UnderWay(calls)
<1>1. IsFiniteSet(before) /\ Cardinality(before) \in Nat
    BY ForwarderApiAssumption, FS_Subset, FS_CardinalityType DEF UnderWay
<1>2. /\ {exportAsked, denials, exports} \subseteq Nat
      /\ exportAsked = denials + exports + Cardinality(before)
    BY DEF AccessInv, ExportCount
<1>3. call = [q \in ApiRequests |-> call[q]]
    BY DEF AccessInv
<1>4. calls[r] = c /\ \A q \in ApiRequests \ {r} : calls[q] = call[q]
    BY <1>3
<1>5. CASE Exporting(call[r]) <=> Exporting(c)
    <2>1. after = before
        BY <1>4, <1>5 DEF UnderWay
    <2>2. /\ \/ askedFor = exportAsked /\ denied = denials
             \/ askedFor = exportAsked + 1 /\ denied = denials + 1
          /\ made = exports
        BY <1>5
    <2>3. PICK n : n = Cardinality(before) /\ n = Cardinality(after)
        BY <2>1
    <2>4. {askedFor, denied, made} \subseteq Nat /\ askedFor = denied + made + n
        BY <1>1, <1>2, <2>2, <2>3
    <2> QED  BY <2>3, <2>4 DEF ExportCount
<1>6. CASE ~ Exporting(call[r]) /\ Exporting(c)
    <2>1. after = before \cup {r} /\ r \notin before
        BY <1>4, <1>6 DEF UnderWay
    <2>2. askedFor = exportAsked + 1 /\ denied = denials /\ made = exports
        BY <1>6
    <2>3. Cardinality(before \cup {r}) = Cardinality(before) + 1
        BY <1>1, <2>1, FS_AddElement
    <2>4. PICK n, m : n = Cardinality(before) /\ m = Cardinality(after) /\ m = n + 1
        BY <2>1, <2>3
    <2>5. {askedFor, denied, made} \subseteq Nat /\ askedFor = denied + made + m
        BY <1>1, <1>2, <2>2, <2>4
    <2> QED  BY <2>4, <2>5 DEF ExportCount
<1>7. CASE Exporting(call[r]) /\ ~ Exporting(c)
    <2>1. after = before \ {r} /\ r \in before
        BY <1>4, <1>7 DEF UnderWay
    <2>2. askedFor = exportAsked /\ denied = denials /\ made = exports + 1
        BY <1>7
    <2>3. Cardinality(before \ {r}) = Cardinality(before) - 1
        BY <1>1, <2>1, FS_RemoveElement
    <2>4. PICK n, m : n = Cardinality(before) /\ m = Cardinality(after) /\ m = n - 1
        BY <2>1, <2>3
    <2>5. {askedFor, denied, made} \subseteq Nat /\ askedFor = denied + made + m
        BY <1>1, <1>2, <2>2, <2>4
    <2> QED  BY <2>4, <2>5 DEF ExportCount
<1> QED
    BY <1>5, <1>6, <1>7

\* An answer ends the call.
LEMMA AnsweredIsOrdered ==
    ASSUME AccessInv, NEW r \in ApiRequests, NEW stage \in {"answered", "dead", "matching"}
    PROVE  \E c : /\ [call EXCEPT ![r].stage = stage] = [call EXCEPT ![r] = c]
                  /\ CallIsOrdered(c, grantFile) /\ ~ Exporting(c) /\ c.stage = stage
<1> DEFINE c == [call[r] EXCEPT !.stage = stage]
<1>1. CallIsOrdered(call[r], grantFile) /\ call = [q \in ApiRequests |-> call[q]]
    BY DEF AccessInv
<1>2. c.stage = stage
    BY <1>1 DEF CallIsOrdered
<1>3. CallIsOrdered(c, grantFile)
    BY <1>1, <1>2 DEF CallIsOrdered
<1>4. ~ Exporting(c)
    BY <1>2 DEF Exporting
<1> QED
    BY <1>1, <1>2, <1>3, <1>4

LEMMA AccessStep ==
    ASSUME AccessInv, [ForwarderApiNext]_apiVars
    PROVE  AccessInv'
<1>0. /\ grantFile \in Nat /\ tokens.mtime \in Nat /\ tokens.read \in Nat /\ TokensKeepUp
      /\ \A r \in ApiRequests : CallIsOrdered(call[r], grantFile)
    BY DEF AccessInv
<1> DEFINE Quiet == UNCHANGED <<call, exportAsked, denials, exports>>
<1>1. ASSUME UNCHANGED <<tokens, grantFile>>, Quiet PROVE AccessInv'
    BY <1>1 DEF AccessInv, TokensKeepUp
<1>2. CASE UNCHANGED apiVars \/ KeepEvent \/ ShowEvent \/ SpoilEvent \/ MonitorStorage
    BY <1>1, <1>2 DEF apiVars, apiRequestVars, tokenVars, KeepEvent, ShowEvent, SpoilEvent, MonitorStorage
<1>3. CASE RewriteTokens
    <2>1. grantFile' = grantFile + 1 /\ UNCHANGED tokens /\ Quiet
        BY <1>3 DEF RewriteTokens, apiRequestVars
    <2>2. ASSUME NEW r \in ApiRequests PROVE CallIsOrdered(call[r], grantFile + 1)
        BY <1>0 DEF CallIsOrdered
    <2> QED  BY <2>1, <2>2, <1>0 DEF AccessInv, TokensKeepUp
\* A call's step, the file and the counters given.
<1>4. ASSUME NEW r \in ApiRequests, NEW c, call' = [call EXCEPT ![r] = c], UNCHANGED grantFile,
             CallIsOrdered(c, grantFile), TokensKeepUp', tokens.mtime' \in Nat, tokens.read' \in Nat,
             \/ /\ Exporting(call[r]) <=> Exporting(c)
                /\ \/ exportAsked' = exportAsked /\ denials' = denials
                   \/ exportAsked' = exportAsked + 1 /\ denials' = denials + 1
                /\ exports' = exports
             \/ ~ Exporting(call[r]) /\ Exporting(c) /\ exportAsked' = exportAsked + 1
                /\ denials' = denials /\ exports' = exports
             \/ Exporting(call[r]) /\ ~ Exporting(c) /\ exportAsked' = exportAsked
                /\ denials' = denials /\ exports' = exports + 1
      PROVE  AccessInv'
    <2>1. ExportCount(call', exportAsked', denials', exports')
        BY <1>4, OneCallCounts
    <2>2. PICK calls : calls = call'
        OBVIOUS
    <2>3. /\ AccessInv /\ r \in ApiRequests /\ calls = [call EXCEPT ![r] = c]
          /\ CallIsOrdered(c, grantFile)
        BY <1>4, <2>2
    <2>4. /\ calls = [q \in ApiRequests |-> calls[q]]
          /\ \A q \in ApiRequests : CallIsOrdered(calls[q], grantFile)
        <3>1. call = [q \in ApiRequests |-> call[q]] /\ \A q \in ApiRequests : CallIsOrdered(call[q], grantFile)
            BY DEF AccessInv
        <3>2. /\ calls[r] = c /\ \A q \in ApiRequests \ {r} : calls[q] = call[q]
              /\ calls = [q \in ApiRequests |-> calls[q]]
            BY <2>3, <3>1
        <3>3. ASSUME NEW q \in ApiRequests PROVE CallIsOrdered(calls[q], grantFile)
            BY <2>3, <3>1, <3>2
        <3> QED  BY <3>2, <3>3
    <2> QED  BY <1>0, <1>4, <2>1, <2>2, <2>4 DEF AccessInv
<1>5. ASSUME UNCHANGED <<tokens, grantFile>> PROVE TokensKeepUp' /\ tokens.mtime' \in Nat /\ tokens.read' \in Nat
    BY <1>0, <1>5 DEF TokensKeepUp
<1>6. ASSUME NEW r \in ApiRequests, NEW kind \in Kinds, NEW window \in Windows, StartCall(r, kind, window)
      PROVE  AccessInv'
    <2> DEFINE c == [stage |-> IF authOn /\ grantFile > tokens.mtime THEN "reading" ELSE "matching",
                     kind |-> kind, window |-> window, mtime |-> grantFile, read |-> 0,
                     since |-> consumed, grant |-> NoGrant]
    <2>1. /\ call' = [call EXCEPT ![r] = c] /\ UNCHANGED <<tokens, grantFile>>
          /\ exportAsked' = exportAsked /\ denials' = denials /\ exports' = exports
          /\ call[r].stage = "idle"
        BY <1>6 DEF StartCall, tokenVars, CallAt
    <2>2. CallIsOrdered(c, grantFile)
        BY <1>0 DEF CallIsOrdered
    <2>3. ~ Exporting(c) /\ ~ Exporting(call[r])
        BY <2>1 DEF Exporting
    <2> QED  BY <1>4, <1>5, <2>1, <2>2, <2>3
<1>7. ASSUME NEW r \in ApiRequests, ReadTokens(r) PROVE AccessInv'
    <2> DEFINE stage == IF grantFile % 2 = 1 THEN "dead" ELSE "setting"
               c == [call[r] EXCEPT !.stage = stage, !.read = grantFile]
               to == [call[r] EXCEPT !.stage = stage]
    <2>1. /\ call' = [call EXCEPT ![r] = c] /\ UNCHANGED <<tokens, grantFile>>
          /\ exportAsked' = exportAsked /\ denials' = denials /\ exports' = exports
          /\ call[r].stage = "reading"
        BY <1>7 DEF ReadTokens, tokenVars, CallAt
    <2>2. CallIsOrdered(call[r], grantFile)
        BY <1>0
    <2>3. /\ c = [stage |-> stage, kind |-> call[r].kind, window |-> call[r].window,
                  mtime |-> call[r].mtime, read |-> grantFile, since |-> call[r].since,
                  grant |-> call[r].grant]
          /\ call[r].mtime \in 0 .. grantFile
        <3>1. to = [stage |-> stage, kind |-> call[r].kind, window |-> call[r].window,
                    mtime |-> call[r].mtime, read |-> call[r].read, since |-> call[r].since,
                    grant |-> call[r].grant]
            BY <2>2 DEF CallIsOrdered
        <3>2. c = [to EXCEPT !.read = grantFile]
            BY <2>2 DEF CallIsOrdered
        <3> HIDE DEF c, to
        <3>3. c = [stage |-> stage, kind |-> call[r].kind, window |-> call[r].window,
                    mtime |-> call[r].mtime, read |-> grantFile, since |-> call[r].since,
                    grant |-> call[r].grant]
            BY <3>1, <3>2
        <3> QED  BY <2>1, <2>2, <3>3 DEF CallIsOrdered
    <2>4. CallIsOrdered(c, grantFile)
        BY <2>3, <1>0 DEF CallIsOrdered
    <2>5. ~ Exporting(c) /\ ~ Exporting(call[r])
        BY <2>1, <2>3 DEF Exporting
    <2> HIDE DEF c
    <2> QED  BY <1>4, <1>5, <2>1, <2>4, <2>5
<1>8. ASSUME NEW r \in ApiRequests, SetTokens(r) PROVE AccessInv'
    <2>1. /\ call' = [call EXCEPT ![r].stage = "matching"] /\ UNCHANGED grantFile
          /\ tokens' = [mtime |-> call[r].mtime, read |-> call[r].read]
          /\ exportAsked' = exportAsked /\ denials' = denials /\ exports' = exports
          /\ call[r].stage = "setting"
        BY <1>8 DEF SetTokens, CallAt
    <2>2. PICK c : /\ call' = [call EXCEPT ![r] = c] /\ CallIsOrdered(c, grantFile)
                   /\ ~ Exporting(c)
        BY <2>1, AnsweredIsOrdered
    <2>3. call[r].mtime \in Nat /\ call[r].read \in Nat /\ call[r].mtime <= call[r].read
        BY <1>0, <2>1 DEF CallIsOrdered
    <2>4. TokensKeepUp' /\ tokens.mtime' \in Nat /\ tokens.read' \in Nat
        BY <2>1, <2>3 DEF TokensKeepUp
    <2>5. ~ Exporting(call[r])
        BY <2>1 DEF Exporting
    <2> QED  BY <1>4, <2>1, <2>2, <2>4, <2>5
<1>9. ASSUME NEW r \in ApiRequests, Refuse(r) PROVE AccessInv'
    <2>1. /\ call' = [call EXCEPT ![r].stage = "answered"] /\ UNCHANGED <<tokens, grantFile>>
          /\ exports' = exports /\ call[r].stage = "matching"
        BY <1>9 DEF Refuse, Replies, tokenVars, CallAt
    <2>2. \/ exportAsked' = exportAsked /\ denials' = denials
          \/ exportAsked' = exportAsked + 1 /\ denials' = denials + 1
        BY <1>9 DEF Refuse
    <2>3. PICK c : /\ call' = [call EXCEPT ![r] = c] /\ CallIsOrdered(c, grantFile)
                   /\ ~ Exporting(c)
        BY <2>1, AnsweredIsOrdered
    <2>4. ~ Exporting(call[r])
        BY <2>1 DEF Exporting
    <2> QED  BY <1>4, <1>5, <2>1, <2>2, <2>3, <2>4
<1>10. ASSUME NEW r \in ApiRequests, Admit(r) PROVE AccessInv'
    <2> DEFINE c == [call[r] EXCEPT !.stage = "querying", !.grant = GrantNow]
               to == [call[r] EXCEPT !.stage = "querying"]
    <2>1. /\ call' = [call EXCEPT ![r] = c] /\ UNCHANGED <<tokens, grantFile>>
          /\ exportAsked' = IF call[r].kind = "export" THEN exportAsked + 1 ELSE exportAsked
          /\ denials' = denials /\ exports' = exports /\ call[r].stage = "matching"
        BY <1>10 DEF Admit, tokenVars, CallAt
    <2>2. CallIsOrdered(call[r], grantFile)
        BY <1>0
    <2>3. c = [stage |-> "querying", kind |-> call[r].kind, window |-> call[r].window,
               mtime |-> call[r].mtime, read |-> call[r].read, since |-> call[r].since,
               grant |-> GrantNow]
        <3>1. to = [stage |-> "querying", kind |-> call[r].kind, window |-> call[r].window,
                    mtime |-> call[r].mtime, read |-> call[r].read, since |-> call[r].since,
                    grant |-> call[r].grant]
            BY <2>2 DEF CallIsOrdered
        <3>2. c = [to EXCEPT !.grant = GrantNow]
            BY <2>2 DEF CallIsOrdered
        <3> HIDE DEF c, to
        <3> QED  BY <3>1, <3>2
    <2>4. CallIsOrdered(c, grantFile)
        BY <2>3 DEF CallIsOrdered
    <2>5. ~ Exporting(call[r]) /\ (Exporting(c) <=> call[r].kind = "export")
        BY <2>1, <2>3 DEF Exporting
    <2> HIDE DEF c
    <2> QED  BY <1>4, <1>5, <2>1, <2>4, <2>5
<1>11. ASSUME NEW r \in ApiRequests, AnswerSearch(r) PROVE AccessInv'
    <2>1. /\ call' = [call EXCEPT ![r].stage = "answered"] /\ UNCHANGED <<tokens, grantFile>>
          /\ exports' = IF call[r].kind = "export" THEN exports + 1 ELSE exports
          /\ exportAsked' = exportAsked /\ denials' = denials /\ call[r].stage = "querying"
        BY <1>11 DEF AnswerSearch, Replies, tokenVars, CallAt
    <2>2. PICK c : /\ call' = [call EXCEPT ![r] = c] /\ CallIsOrdered(c, grantFile)
                   /\ ~ Exporting(c)
        BY <2>1, AnsweredIsOrdered
    <2>3. Exporting(call[r]) <=> call[r].kind = "export"
        BY <2>1 DEF Exporting
    <2> QED  BY <1>4, <1>5, <2>1, <2>2, <2>3
<1>12. ASSUME NEW r \in ApiRequests, AnswerHighRisk(r) \/ AnswerVacuum(r) PROVE AccessInv'
    <2>1. /\ \E stage \in {"answered", "dead"} : call' = [call EXCEPT ![r].stage = stage]
          /\ UNCHANGED <<tokens, grantFile>> /\ exports' = exports
          /\ exportAsked' = exportAsked /\ denials' = denials
          /\ call[r].kind \in {"highRisk", "vacuum"}
        BY <1>12 DEF AnswerHighRisk, AnswerVacuum, Replies, tokenVars, CallAt
    <2>2. PICK stage \in {"answered", "dead"} : call' = [call EXCEPT ![r].stage = stage]
        BY <2>1
    <2>3. PICK c : /\ call' = [call EXCEPT ![r] = c] /\ CallIsOrdered(c, grantFile)
                   /\ ~ Exporting(c)
        BY <2>2, AnsweredIsOrdered
    <2>4. ~ Exporting(call[r])
        BY <2>1 DEF Exporting
    <2> QED  BY <1>4, <1>5, <2>1, <2>3, <2>4
<1> QED
    BY <1>2, <1>3, <1>6, <1>7, <1>8, <1>9, <1>10, <1>11, <1>12 DEF ForwarderApiNext

LEMMA AccessStarts ==
    ASSUME ForwarderApiInit
    PROVE  AccessInv
<1>1. /\ grantFile \in Nat /\ tokens.mtime \in Nat /\ tokens.read = 0
      /\ {exportAsked, denials, exports} \subseteq Nat
      /\ exportAsked = 0 /\ denials = 0 /\ exports = 0
    BY DEF ForwarderApiInit
<1>2. call = [r \in ApiRequests |-> call[r]] /\ \A r \in ApiRequests : call[r] = NoCall
    BY DEF ForwarderApiInit
<1>3. ASSUME NEW r \in ApiRequests PROVE CallIsOrdered(call[r], grantFile) /\ ~ Exporting(call[r])
    BY <1>2 DEF CallIsOrdered, NoCall, Exporting
<1>4. UnderWay(call) = {} /\ Cardinality({}) = 0
    BY <1>3, FS_EmptySet DEF UnderWay
<1>5. ExportCount(call, exportAsked, denials, exports)
    <2>1. Cardinality(UnderWay(call)) = 0
        BY <1>4
    <2> QED  BY <1>1, <2>1 DEF ExportCount
<1> QED  BY <1>1, <1>2, <1>3, <1>5 DEF AccessInv, TokensKeepUp

\* Tokens are never older than their mtime says, whichever of several requests that reread
\* the file comes last, so that a rewrite is noticed until it is in force; and every export
\* that was asked for is counted as made, denied or under way (refresh_if_needed of
\* src/product/auth.py, the export handler of src/forwarder/health_server.py).
THEOREM AccessAlwaysHolds == ForwarderApiSpec => []AccessHolds
<1>1. ForwarderApiInit => AccessInv
    BY AccessStarts
<1>2. AccessInv /\ [ForwarderApiNext]_apiVars => AccessInv'
    BY AccessStep
<1>3. AccessInv => AccessHolds
    BY DEF AccessInv, ExportCount, UnderWay, Exporting, AccessHolds, ExportsAreCounted, CallAt
<1> QED
    BY <1>1, <1>2, <1>3, PTL DEF ForwarderApiSpec

-----------------------------------------------------------------------------
(* What the forwarder's API answers *)

\* AnswersAreWhole of one call and its reply.
IsWhole(c, answer) ==
    LET rows == answer.rows IN
    answer.status = 200 /\ c.kind # "vacuum" =>
        /\ Len(rows) <= RowsMax
        /\ \A i \in DOMAIN rows : OrgOf[rows[i]] \in c.grant.orgs
        /\ answer.source = "persistence" =>
              /\ \A i, j \in DOMAIN rows : i < j => TimeOf[rows[i]] >= TimeOf[rows[j]]
              /\ \A i \in DOMAIN rows : c.window = "early" => TimeOf[rows[i]] <= 1
              /\ Len(rows) < RowsMax => answer.owed \subseteq {rows[i] : i \in DOMAIN rows}

\* What was consumed is in the hot cache or among what it lost; a call knows of nothing
\* that is consumed later, and is answered at its end.
AnswersInv ==
    /\ reply = [r \in ApiRequests |-> reply[r]]
    /\ consumed \in Nat /\ cachedEvents \subseteq 1 .. consumed
    /\ 1 .. consumed \subseteq cachedEvents \cup unkept
    /\ recentEvents \in Seq(Nat) /\ recentRisky \in Seq(Nat)
    /\ \A r \in ApiRequests : /\ call[r].since \in 0 .. consumed
                              /\ reply[r].status = 200 => call[r].stage = "answered"
                              /\ IsWhole(call[r], reply[r])

\* An ordering of finitely many events, cut at the limit, has no more than it allows,
\* only what it orders, and all of it when it is shorter.
LEMMA CappedRows ==
    ASSUME NEW whole, IsFiniteSet(whole), NEW order,
           order \in [1 .. Cardinality(whole) -> whole], Range(order) = whole
    PROVE  /\ Len(Capped(order)) \in Nat /\ Len(Capped(order)) <= RowsMax
           /\ DOMAIN Capped(order) = 1 .. Len(Capped(order))
           /\ DOMAIN Capped(order) \subseteq DOMAIN order
           /\ \A i \in DOMAIN Capped(order) : Capped(order)[i] = order[i]
           /\ \A i \in DOMAIN Capped(order) : Capped(order)[i] \in whole
           /\ Len(Capped(order)) < RowsMax => whole = {Capped(order)[i] : i \in DOMAIN Capped(order)}
<1> DEFINE n == Cardinality(whole)
           m == IF Len(order) < RowsMax THEN Len(order) ELSE RowsMax
<1>1. n \in Nat /\ RowsMax \in Nat
    BY FS_CardinalityType, ForwarderApiAssumption
<1>2. order \in Seq(whole) /\ Len(order) = n /\ DOMAIN order = 1 .. n
    <2> HIDE DEF n
    <2>1. order \in Seq(whole)
        BY <1>1, SeqDef DEF n
    <2>2. DOMAIN order = 1 .. n
        BY DEF n
    <2> QED  BY <1>1, <2>1, <2>2, LenProperties
<1> HIDE DEF n
<1>3. m \in 0 .. n /\ m <= RowsMax
    BY <1>1, <1>2
<1>4. Capped(order) = SubSeq(order, 1, m)
    BY DEF Capped
<1> HIDE DEF m
<1>5. Len(Capped(order)) = m /\ DOMAIN Capped(order) = 1 .. m /\ \A i \in 1 .. m : Capped(order)[i] = order[i]
    BY <1>1, <1>2, <1>3, <1>4
<1>6. ASSUME Len(Capped(order)) < RowsMax
      PROVE  whole = {Capped(order)[i] : i \in DOMAIN Capped(order)}
    <2>1. m = n
        BY <1>1, <1>2, <1>5, <1>6 DEF m
    <2>2. whole = {order[i] : i \in 1 .. n}
        BY <1>2 DEF Range
    <2> QED  BY <1>5, <2>1, <2>2
<1>7. \A i \in 1 .. n : order[i] \in whole
    BY DEF n
<1> QED  BY <1>1, <1>2, <1>3, <1>5, <1>6, <1>7

\* What a search is answered from the hot cache is whole.
LEMMA CachedIsWhole ==
    ASSUME AnswersInv, NEW r \in ApiRequests, NEW rows \in CachedRowsOf(r), NEW status, NEW c,
           c.grant = call[r].grant, c.window = call[r].window
    PROVE  IsWhole(c, [status |-> status, rows |-> rows, source |-> "persistence",
                       owed |-> OwedTo(r)])
<1> DEFINE events == {e \in cachedEvents : InScope(r, e) /\ InWindow(r, e)}
<1>1. PICK s \in LatestFirst(events) : rows = Capped(s)
    BY DEF CachedRowsOf
<1>2. /\ s \in [1 .. Cardinality(events) -> events] /\ Range(s) = events
      /\ \A i, j \in DOMAIN s : i < j => TimeOf[s[i]] >= TimeOf[s[j]]
    BY <1>1 DEF LatestFirst
<1>3. IsFiniteSet(events)
    BY FS_Interval, FS_Subset DEF AnswersInv
<1>4. /\ Len(rows) \in Nat /\ Len(rows) <= RowsMax /\ DOMAIN rows \subseteq DOMAIN s
      /\ \A i \in DOMAIN rows : rows[i] = s[i] /\ rows[i] \in events
      /\ Len(rows) < RowsMax => events = {rows[i] : i \in DOMAIN rows}
    <2> HIDE DEF events
    <2>1. PICK all : all = events
        OBVIOUS
    <2>2. /\ IsFiniteSet(all) /\ s \in [1 .. Cardinality(all) -> all] /\ Range(s) = all
          /\ rows = Capped(s)
        BY <1>1, <1>2, <1>3, <2>1
    <2>3. /\ Len(Capped(s)) \in Nat /\ Len(Capped(s)) <= RowsMax /\ DOMAIN Capped(s) \subseteq DOMAIN s
          /\ \A i \in DOMAIN Capped(s) : Capped(s)[i] = s[i]
          /\ \A i \in DOMAIN Capped(s) : Capped(s)[i] \in all
          /\ Len(Capped(s)) < RowsMax => all = {Capped(s)[i] : i \in DOMAIN Capped(s)}
        BY <2>2, CappedRows
    <2> QED  BY <2>1, <2>2, <2>3
<1>5. OwedTo(r) \subseteq events
    BY DEF AnswersInv, OwedTo
<1>6. \A i \in DOMAIN rows : OrgOf[rows[i]] \in c.grant.orgs
    BY <1>4 DEF InScope
<1>7. \A i \in DOMAIN rows : c.window = "early" => TimeOf[rows[i]] <= 1
    BY <1>4 DEF InWindow
<1> HIDE DEF events
<1>8. \A i, j \in DOMAIN rows : i < j => TimeOf[rows[i]] >= TimeOf[rows[j]]
    BY <1>2, <1>4
<1>9. Len(rows) < RowsMax => OwedTo(r) \subseteq {rows[i] : i \in DOMAIN rows}
    BY <1>4, <1>5
<1> QED  BY <1>4, <1>6, <1>7, <1>8, <1>9 DEF IsWhole

\* What it is answered from a deque is in its scope and within the limit.
LEMMA RecentIsWhole ==
    ASSUME NEW deque \in Seq(Nat), NEW r \in ApiRequests, NEW rows \in RecentOf(r, deque),
           NEW status, NEW c, c.grant = call[r].grant
    PROVE  IsWhole(c, [status |-> status, rows |-> rows, source |-> "memory", owed |-> {}])
<1> DEFINE scoped == {e \in Range(deque) : InScope(r, e)}
<1>1. PICK s \in [1 .. Cardinality(scoped) -> scoped] : Range(s) = scoped /\ rows = Capped(s)
    BY DEF RecentOf
<1>2. IsFiniteSet(scoped)
    <2>1. IsFiniteSet(1 .. Len(deque)) /\ DOMAIN deque = 1 .. Len(deque)
        BY FS_Interval, LenProperties
    <2>2. Range(deque) = {deque[i] : i \in 1 .. Len(deque)}
        BY <2>1 DEF Range
    <2>3. deque \in Surjection(1 .. Len(deque), Range(deque))
        <3>1. deque \in [1 .. Len(deque) -> Range(deque)]
            BY <2>1, <2>2
        <3> QED  BY <2>1, <2>2, <3>1 DEF Surjection
    <2>4. IsFiniteSet(Range(deque))
        BY <2>1, <2>3, FS_Surjection
    <2> QED  BY <2>4, FS_Subset
<1>3. /\ Len(rows) \in Nat /\ Len(rows) <= RowsMax
      /\ \A i \in DOMAIN rows : rows[i] \in scoped
    <2> HIDE DEF scoped
    <2>1. PICK all : all = scoped
        OBVIOUS
    <2>2. /\ IsFiniteSet(all) /\ s \in [1 .. Cardinality(all) -> all] /\ Range(s) = all
          /\ rows = Capped(s)
        BY <1>1, <1>2, <2>1
    <2>3. /\ Len(Capped(s)) \in Nat /\ Len(Capped(s)) <= RowsMax
          /\ \A i \in DOMAIN Capped(s) : Capped(s)[i] = s[i]
          /\ \A i \in DOMAIN Capped(s) : Capped(s)[i] \in all
        BY <2>2, CappedRows
    <2> QED  BY <2>1, <2>2, <2>3
<1>4. \A i \in DOMAIN rows : OrgOf[rows[i]] \in c.grant.orgs
    BY <1>3 DEF InScope
<1> QED  BY <1>3, <1>4 DEF IsWhole

LEMMA PushedDeque ==
    ASSUME NEW item \in Nat, NEW deque \in Seq(Nat)
    PROVE  Push(item, deque) \in Seq(Nat)
<1> DEFINE whole == <<item>> \o deque
           m == IF Len(deque) < BufferMax THEN Len(deque) + 1 ELSE BufferMax
<1>1. whole \in Seq(Nat) /\ Len(whole) = Len(deque) + 1 /\ Len(deque) \in Nat
    OBVIOUS
<1>2. m \in 1 .. Len(whole)
    BY <1>1, ForwarderApiAssumption
<1> HIDE DEF whole, m
<1>3. SubSeq(whole, 1, m) \in Seq(Nat)
    BY <1>1, <1>2
<1> QED  BY <1>3 DEF Push, whole, m

\* A step of one call and its reply, the feed as it was.
LEMMA OneCallAnswers ==
    ASSUME AccessInv, AnswersInv, NEW r \in ApiRequests, NEW c, NEW answer,
           call' = [call EXCEPT ![r] = c], reply' = [reply EXCEPT ![r] = answer],
           UNCHANGED <<consumed, cachedEvents, unkept, recentEvents, recentRisky>>,
           c.since \in 0 .. consumed, answer.status = 200 => c.stage = "answered",
           IsWhole(c, answer)
    PROVE  AnswersInv'
<1>1. call = [q \in ApiRequests |-> call[q]] /\ reply = [q \in ApiRequests |-> reply[q]]
    BY DEF AccessInv, AnswersInv
<1>2. /\ call'[r] = c /\ reply'[r] = answer
      /\ \A q \in ApiRequests \ {r} : call'[q] = call[q] /\ reply'[q] = reply[q]
      /\ reply' = [q \in ApiRequests |-> reply'[q]]
    BY <1>1
<1>3. ASSUME NEW q \in ApiRequests
      PROVE  /\ call'[q].since \in 0 .. consumed
             /\ reply'[q].status = 200 => call'[q].stage = "answered"
             /\ IsWhole(call'[q], reply'[q])
    <2>1. CASE q = r
        BY <1>2, <2>1
    <2>2. CASE q # r
        BY <1>2, <2>2 DEF AnswersInv
    <2> QED  BY <2>1, <2>2
<1> QED  BY <1>2, <1>3 DEF AnswersInv

\* The consume loop goes on.
LEMMA FeedStep ==
    ASSUME AnswersInv, UNCHANGED <<call, reply>>,
           consumed' \in Nat, consumed <= consumed', cachedEvents' \subseteq 1 .. consumed',
           1 .. consumed' \subseteq cachedEvents' \cup unkept',
           recentEvents' \in Seq(Nat), recentRisky' \in Seq(Nat)
    PROVE  AnswersInv'
<1>1. ASSUME NEW r \in ApiRequests PROVE call[r].since \in 0 .. consumed'
    <2>1. call[r].since \in 0 .. consumed /\ consumed \in Nat
        BY DEF AnswersInv
    <2> QED  BY <2>1
<1>2. ASSUME NEW r \in ApiRequests
      PROVE  (reply[r].status = 200 => call[r].stage = "answered") /\ IsWhole(call[r], reply[r])
    BY DEF AnswersInv
<1>3. reply = [r \in ApiRequests |-> reply[r]]
    BY DEF AnswersInv
<1> QED  BY <1>1, <1>2, <1>3 DEF AnswersInv

LEMMA ShowsStep ==
    ASSUME AnswersInv, KeepEvent \/ ShowEvent \/ SpoilEvent \/ MonitorStorage \/ RewriteTokens
    PROVE  AnswersInv'
<1>0. /\ consumed \in Nat /\ cachedEvents \subseteq 1 .. consumed
      /\ 1 .. consumed \subseteq cachedEvents \cup unkept
      /\ recentEvents \in Seq(Nat) /\ recentRisky \in Seq(Nat)
    BY DEF AnswersInv
<1>1. CASE KeepEvent
    <2>1. /\ UNCHANGED <<call, reply, recentEvents, recentRisky>> /\ consumed' = consumed + 1
          /\ \/ cachedEvents' = cachedEvents \cup {consumed'} /\ unkept' = unkept
             \/ unkept' = unkept \cup {consumed'} /\ cachedEvents' = cachedEvents
        BY <1>1 DEF KeepEvent, apiRequestVars
    <2>2. 1 .. (consumed + 1) = (1 .. consumed) \cup {consumed + 1}
        BY <1>0
    <2>3. cachedEvents' \subseteq 1 .. consumed' /\ 1 .. consumed' \subseteq cachedEvents' \cup unkept'
        BY <1>0, <2>1, <2>2
    <2> QED  BY <1>0, <2>1, <2>3, FeedStep
<1>2. CASE ShowEvent
    <2>1. /\ UNCHANGED <<call, reply, consumed, cachedEvents, unkept>>
          /\ recentEvents' = Push(consumed, recentEvents)
          /\ recentRisky' = Push(consumed, recentRisky) \/ recentRisky' = recentRisky
        BY <1>2 DEF ShowEvent, apiRequestVars
    <2>2. recentEvents' \in Seq(Nat) /\ recentRisky' \in Seq(Nat)
        BY <1>0, <2>1, PushedDeque
    <2> QED  BY <1>0, <2>1, <2>2, FeedStep
<1>3. CASE SpoilEvent \/ MonitorStorage \/ RewriteTokens
    <2>1. UNCHANGED <<call, reply, consumed, cachedEvents, unkept, recentEvents, recentRisky>>
        BY <1>3 DEF SpoilEvent, MonitorStorage, RewriteTokens, apiRequestVars, feedVars
    <2> QED  BY <1>0, <2>1, FeedStep
<1> QED  BY <1>1, <1>2, <1>3

LEMMA AnswersStep ==
    ASSUME AccessInv, AnswersInv, [ForwarderApiNext]_apiVars
    PROVE  AnswersInv'
<1>0. /\ consumed \in Nat /\ recentEvents \in Seq(Nat) /\ recentRisky \in Seq(Nat)
      /\ call = [r \in ApiRequests |-> call[r]] /\ reply = [r \in ApiRequests |-> reply[r]]
    BY DEF AccessInv, AnswersInv
<1>r. ASSUME NEW r \in ApiRequests
      PROVE  /\ call[r] = [stage |-> call[r].stage, kind |-> call[r].kind,
                           window |-> call[r].window, mtime |-> call[r].mtime,
                           read |-> call[r].read, since |-> call[r].since,
                           grant |-> call[r].grant]
             /\ call[r].since \in 0 .. consumed
             /\ reply[r].status = 200 => call[r].stage = "answered"
    BY DEF AccessInv, CallIsOrdered, AnswersInv
\* A call goes on without an answer.
<1>1. ASSUME NEW r \in ApiRequests, NEW c, call' = [call EXCEPT ![r] = c], UNCHANGED reply,
             UNCHANGED <<consumed, cachedEvents, unkept, recentEvents, recentRisky>>,
             c.since \in 0 .. consumed, call[r].stage # "answered"
      PROVE  AnswersInv'
    <2>1. reply[r].status # 200
        BY <1>1, <1>r
    <2>2. reply' = [reply EXCEPT ![r] = reply[r]]
        BY <1>0, <1>1
    <2>3. IsWhole(c, reply[r])
        BY <2>1 DEF IsWhole
    <2> QED  BY <1>1, <2>1, <2>2, <2>3, OneCallAnswers
\* It is answered.
<1>2. ASSUME NEW r \in ApiRequests, NEW status, NEW rows, NEW source, NEW owed,
             Replies(r, status, rows, source, owed),
             UNCHANGED <<consumed, cachedEvents, unkept, recentEvents, recentRisky>>,
             \A c : c.grant = call[r].grant /\ c.window = call[r].window /\ c.kind = call[r].kind
                 => IsWhole(c, [status |-> status, rows |-> rows, source |-> source, owed |-> owed])
      PROVE  AnswersInv'
    <2> DEFINE c == [call[r] EXCEPT !.stage = "answered"]
               answer == [status |-> status, rows |-> rows, source |-> source, owed |-> owed]
    <2>1. call' = [call EXCEPT ![r] = c] /\ reply' = [reply EXCEPT ![r] = answer]
        BY <1>2 DEF Replies
    <2>2. /\ c.since = call[r].since /\ c.grant = call[r].grant /\ c.window = call[r].window
          /\ c.kind = call[r].kind /\ c.stage = "answered"
        BY <1>r
    <2>3. IsWhole(c, answer)
        BY <1>2, <2>2
    <2> HIDE DEF c, answer
    <2> QED  BY <1>2, <1>r, <2>1, <2>2, <2>3, OneCallAnswers
<1>3. ASSUME NEW r \in ApiRequests, NEW kind \in Kinds, NEW window \in Windows,
             StartCall(r, kind, window)
      PROVE  AnswersInv'
    <2> DEFINE c == [stage |-> IF authOn /\ grantFile > tokens.mtime THEN "reading" ELSE "matching",
                     kind |-> kind, window |-> window, mtime |-> grantFile, read |-> 0,
                     since |-> consumed, grant |-> NoGrant]
    <2>1. /\ call' = [call EXCEPT ![r] = c] /\ UNCHANGED reply /\ call[r].stage = "idle"
          /\ UNCHANGED <<consumed, cachedEvents, unkept, recentEvents, recentRisky>>
        BY <1>3 DEF StartCall, CallAt, feedVars
    <2>2. c.since \in 0 .. consumed
        BY <1>0
    <2> HIDE DEF c
    <2> QED  BY <1>1, <2>1, <2>2
<1>4. ASSUME NEW r \in ApiRequests, ReadTokens(r) \/ SetTokens(r) \/ Admit(r)
      PROVE  AnswersInv'
    <2>1. /\ UNCHANGED reply /\ call[r].stage \in {"reading", "setting", "matching"}
          /\ UNCHANGED <<consumed, cachedEvents, unkept, recentEvents, recentRisky>>
        BY <1>4 DEF ReadTokens, SetTokens, Admit, CallAt, feedVars
    <2>2. \E c : call' = [call EXCEPT ![r] = c] /\ c.since = call[r].since
        <3>1. CASE ReadTokens(r)
            <4> DEFINE stage == IF grantFile % 2 = 1 THEN "dead" ELSE "setting"
                       c == [call[r] EXCEPT !.stage = stage, !.read = grantFile]
            <4>1. call' = [call EXCEPT ![r] = c]
                BY <3>1 DEF ReadTokens
            <4>2. c.since = call[r].since
                BY <1>r
            <4> HIDE DEF c
            <4> QED  BY <4>1, <4>2
        <3>2. CASE SetTokens(r)
            <4> DEFINE c == [call[r] EXCEPT !.stage = "matching"]
            <4>1. call' = [call EXCEPT ![r] = c]
                BY <3>2 DEF SetTokens
            <4>2. c.since = call[r].since
                BY <1>r
            <4> HIDE DEF c
            <4> QED  BY <4>1, <4>2
        <3>3. CASE Admit(r)
            <4> DEFINE c == [call[r] EXCEPT !.stage = "querying", !.grant = GrantNow]
            <4>1. call' = [call EXCEPT ![r] = c]
                BY <3>3 DEF Admit
            <4>2. c.since = call[r].since
                BY <1>r
            <4> HIDE DEF c
            <4> QED  BY <4>1, <4>2
        <3> QED  BY <1>4, <3>1, <3>2, <3>3
    <2>3. PICK c : call' = [call EXCEPT ![r] = c] /\ c.since = call[r].since
        BY <2>2
    <2> QED  BY <1>1, <1>r, <2>1, <2>3
<1>5. ASSUME NEW r \in ApiRequests, Refuse(r) PROVE AnswersInv'
    <2>1. PICK status : status \in {401, 403} /\ Replies(r, status, <<>>, "none", {})
        BY <1>5 DEF Refuse
    <2>2. UNCHANGED <<consumed, cachedEvents, unkept, recentEvents, recentRisky>>
        BY <1>5 DEF Refuse, feedVars
    <2>3. \A c : IsWhole(c, [status |-> status, rows |-> <<>>, source |-> "none", owed |-> {}])
        BY <2>1 DEF IsWhole
    <2> QED  BY <1>2, <2>1, <2>2, <2>3
<1>6. ASSUME NEW r \in ApiRequests, AnswerSearch(r) PROVE AnswersInv'
    <2>1. UNCHANGED <<consumed, cachedEvents, unkept, recentEvents, recentRisky>>
        BY <1>6 DEF AnswerSearch, feedVars
    <2>2. CASE FromCache
        <3>1. PICK rows \in CachedRowsOf(r) : Replies(r, 200, rows, "persistence", OwedTo(r))
            BY <1>6, <2>2 DEF AnswerSearch
        <3>2. ASSUME NEW c, c.grant = call[r].grant, c.window = call[r].window
              PROVE  IsWhole(c, [status |-> 200, rows |-> rows, source |-> "persistence",
                                 owed |-> OwedTo(r)])
            BY <3>1, <3>2, CachedIsWhole
        <3> QED  BY <1>2, <2>1, <3>1, <3>2
    <2>3. CASE ~ FromCache
        <3>1. PICK rows \in RecentOf(r, recentEvents) : Replies(r, 200, rows, "memory", {})
            BY <1>6, <2>3 DEF AnswerSearch
        <3>2. ASSUME NEW c, c.grant = call[r].grant
              PROVE  IsWhole(c, [status |-> 200, rows |-> rows, source |-> "memory", owed |-> {}])
            <4>1. recentEvents \in Seq(Nat)
                BY <1>0
            <4> QED  BY <3>1, <3>2, <4>1, RecentIsWhole
        <3> QED  BY <1>2, <2>1, <3>1, <3>2
    <2> QED  BY <2>2, <2>3
<1>7. ASSUME NEW r \in ApiRequests, AnswerHighRisk(r) PROVE AnswersInv'
    <2>1. /\ UNCHANGED <<consumed, cachedEvents, unkept, recentEvents, recentRisky>>
          /\ call[r].stage = "querying"
        BY <1>7 DEF AnswerHighRisk, feedVars, CallAt
    <2>2. CASE FromCache
        <3> DEFINE c == [call[r] EXCEPT !.stage = "dead"]
        <3>1. call' = [call EXCEPT ![r] = c] /\ UNCHANGED reply
            BY <1>7, <2>2 DEF AnswerHighRisk
        <3>2. c.since = call[r].since
            BY <1>r
        <3> HIDE DEF c
        <3> QED  BY <1>1, <1>r, <2>1, <3>1, <3>2
    <2>3. CASE ~ FromCache
        <3>1. PICK rows \in RecentOf(r, recentRisky) : Replies(r, 200, rows, "memory", {})
            BY <1>7, <2>3 DEF AnswerHighRisk
        <3>2. ASSUME NEW c, c.grant = call[r].grant
              PROVE  IsWhole(c, [status |-> 200, rows |-> rows, source |-> "memory", owed |-> {}])
            <4>1. recentRisky \in Seq(Nat)
                BY <1>0
            <4> QED  BY <3>1, <3>2, <4>1, RecentIsWhole
        <3> QED  BY <1>2, <2>1, <3>1, <3>2
    <2> QED  BY <2>2, <2>3
<1>8. ASSUME NEW r \in ApiRequests, AnswerVacuum(r) PROVE AnswersInv'
    <2>1. PICK status : Replies(r, status, <<>>, "none", {})
        BY <1>8 DEF AnswerVacuum
    <2>2. /\ UNCHANGED <<consumed, cachedEvents, unkept, recentEvents, recentRisky>>
          /\ call[r].kind = "vacuum"
        BY <1>8 DEF AnswerVacuum, feedVars
    <2>3. \A c : c.kind = call[r].kind =>
              IsWhole(c, [status |-> status, rows |-> <<>>, source |-> "none", owed |-> {}])
        BY <2>2 DEF IsWhole
    <2> QED  BY <1>2, <2>1, <2>2, <2>3
<1>9. CASE UNCHANGED apiVars
    <2>1. UNCHANGED <<call, reply, consumed, cachedEvents, unkept, recentEvents, recentRisky>>
        BY <1>9 DEF apiVars, apiRequestVars, feedVars
    <2>2. /\ consumed \in Nat /\ cachedEvents \subseteq 1 .. consumed
          /\ 1 .. consumed \subseteq cachedEvents \cup unkept
        BY DEF AnswersInv
    <2> QED  BY <1>0, <2>1, <2>2, FeedStep
<1> QED
    BY <1>3, <1>4, <1>5, <1>6, <1>7, <1>8, <1>9, ShowsStep DEF ForwarderApiNext

LEMMA AnswersStart == ForwarderApiInit => AnswersInv
<1> SUFFICES ASSUME ForwarderApiInit PROVE AnswersInv
    OBVIOUS
<1>1. /\ reply = [r \in ApiRequests |-> NoReply] /\ call = [r \in ApiRequests |-> NoCall]
      /\ consumed = 0 /\ cachedEvents = {} /\ recentEvents = <<>> /\ recentRisky = <<>>
    BY DEF ForwarderApiInit
<1>2. 1 .. 0 = {}
    OBVIOUS
<1>3. ASSUME NEW r \in ApiRequests
      PROVE  call[r].since = 0 /\ reply[r].status = 0
    BY <1>1 DEF NoCall, NoReply
<1>4. ASSUME NEW r \in ApiRequests PROVE IsWhole(call[r], reply[r])
    BY <1>3 DEF IsWhole
<1>5. reply = [r \in ApiRequests |-> reply[r]]
    BY <1>1
<1>6. recentEvents \in Seq(Nat) /\ recentRisky \in Seq(Nat)
    BY <1>1
<1> QED  BY <1>1, <1>2, <1>3, <1>4, <1>5, <1>6 DEF AnswersInv

\* A search's rows are in the scope it was admitted with, within its window and its limit,
\* latest first, and short of the limit they leave out nothing that was consumed before it
\* came and kept (_query_records of src/product/persistence.py, _search_records of
\* src/forwarder/health_server.py).
THEOREM AnswersStayWhole == ForwarderApiSpec => []AnswersAreWhole
<1>1. ForwarderApiInit => AnswersInv
    BY AnswersStart
<1>2. AnswersInv => AnswersAreWhole
    BY DEF AnswersInv, AnswersAreWhole, IsWhole, InScope, InWindow
<1>3. ForwarderApiSpec => []AccessInv
    BY AccessStarts, AccessStep, PTL DEF ForwarderApiSpec
<1>4. AccessInv /\ AnswersInv /\ [ForwarderApiNext]_apiVars => AnswersInv'
    BY AnswersStep
<1> QED  BY <1>1, <1>2, <1>3, <1>4, PTL DEF ForwarderApiSpec

-----------------------------------------------------------------------------
(* The noise table's view *)

\* A remembered "absent" was looked for when it says, and lasts no longer than FalseTtl from then.
ExistenceIsDated ==
    existence # NotCached =>
        /\ existence.there <=> existence.since = Seen
        /\ ~existence.there =>
               /\ existence.since \in 0 .. moment /\ existence.until \in Nat
               /\ existence.until <= existence.since + FalseTtl

\* A distribution that lacks noise rows ends within the lifetimes and its making.
MethodsAreDated ==
    methods # NotCached =>
        /\ methods.until \in Nat /\ methods.until >= moment /\ methods.took \in Nat
        /\ methods.since # Seen =>
               /\ methods.since \in 0 .. moment
               /\ methods.until - methods.since < FalseTtl + MethodsTtl + methods.took

\* A request's evidence is no older than its beginning, but for what a remembered "absent" may be.
ReaderIsDated(q, now) ==
    /\ q.at \in {"probing", "counting", "probed", "storing"} => q.asked \in 0 .. now
    /\ q.at = "probed" /\ q.since # Seen => q.since \in q.asked .. now
    /\ q.at = "storing" /\ q.since # Seen =>
           q.since \in 0 .. now /\ q.asked - q.since < FalseTtl
ReadersDated ==
    /\ reader = [r \in Readers |-> reader[r]]
    /\ \A r \in Readers : ReaderIsDated(reader[r], moment)

NoiseInv ==
    /\ moment \in 0 .. LastMoment
    /\ ExistenceIsDated /\ MethodsAreDated /\ ReadersDated
    /\ MissingNoiseIsRecent

\* Only one request moves, and the time does not.
LEMMA ReaderMoves ==
    ASSUME NEW r \in Readers, NEW q, ReadersDated, reader' = [reader EXCEPT ![r] = q],
           moment' = moment, ReaderIsDated(q, moment)
    PROVE  ReadersDated'
<1>1. \A x \in Readers : reader'[x] = IF x = r THEN q ELSE reader[x]
    BY DEF ReadersDated
<1>2. \A x \in Readers : ReaderIsDated(reader'[x], moment')
    BY <1>1 DEF ReadersDated
<1>3. reader' = [x \in Readers |-> reader'[x]]
    BY DEF ReadersDated
<1> QED
    BY <1>2, <1>3 DEF ReadersDated

\* The answer a request concludes with is young enough, and so is what it stores.
LEMMA Concluded ==
    ASSUME NEW r \in Readers, NEW since, NoiseInv, Conclude(r, since), moment' = moment,
           reader[r].asked \in 0 .. moment, since # Seen => since \in reader[r].asked .. moment
    PROVE  ReadersDated' /\ MissingNoiseIsRecent'
<1>1. FalseTtl \in Nat \ {0} /\ moment \in 0 .. LastMoment /\ LastMoment \in Nat /\ ReadersDated
    BY NoiseAssumption DEF NoiseInv
<1>2. CASE reader[r].for = "methods"
    <2> DEFINE q == [at |-> "storing", for |-> "methods", since |-> since, asked |-> reader[r].asked]
    <2>1. reader' = [reader EXCEPT ![r] = q] /\ answered' = NoAnswer
        BY <1>2 DEF Conclude, Silent
    <2>2. /\ q.at = "storing" /\ q.since = since /\ q.asked = reader[r].asked
        OBVIOUS
    <2> HIDE DEF q
    <2>3. ReaderIsDated(q, moment)
        BY <1>1, <2>2 DEF ReaderIsDated
    <2>4. MissingNoiseIsRecent'
        BY <2>1 DEF MissingNoiseIsRecent, NoAnswer
    <2> QED  BY <1>1, <2>1, <2>3, <2>4, ReaderMoves
<1>3. CASE reader[r].for # "methods"
    <2>1. /\ reader' = [reader EXCEPT ![r] = Resting]
          /\ answered' = [at |-> moment, since |-> since, within |-> FalseTtl + (moment - reader[r].asked)]
        BY <1>3 DEF Conclude, Answer
    <2>2. ReaderIsDated(Resting, moment)
        BY DEF ReaderIsDated, Resting
    <2>3. MissingNoiseIsRecent'
        BY <1>1, <2>1 DEF MissingNoiseIsRecent
    <2> QED  BY <1>1, <2>1, <2>2, <2>3, ReaderMoves
<1> QED
    BY <1>2, <1>3

LEMMA NoiseStep == NoiseInv /\ [NoiseNext]_noiseVars => NoiseInv'
<1> SUFFICES ASSUME NoiseInv, [NoiseNext]_noiseVars PROVE NoiseInv'
    OBVIOUS
<1>0. /\ FalseTtl \in Nat \ {0} /\ MethodsTtl \in Nat \ {0} /\ LastMoment \in Nat
      /\ moment \in 0 .. LastMoment /\ ReadersDated /\ ExistenceIsDated /\ MethodsAreDated
    BY NoiseAssumption DEF NoiseInv
\* What leaves the caches and the time alone need only keep the requests and the answer.
<1>a. /\ UNCHANGED <<moment, existence>> => ExistenceIsDated'
      /\ UNCHANGED <<moment, methods>> => MethodsAreDated'
    BY <1>0 DEF ExistenceIsDated, MethodsAreDated
<1>b. Silent => MissingNoiseIsRecent'
    BY DEF Silent, MissingNoiseIsRecent, NoAnswer
<1>c. /\ ReaderIsDated(Resting, moment)
      /\ \A f : ReaderIsDated([at |-> "noise", for |-> f], moment)
    BY DEF ReaderIsDated, Resting
<1>1. CASE UNCHANGED noiseVars
    BY <1>1 DEF noiseVars, NoiseInv, ExistenceIsDated, MethodsAreDated, ReadersDated, MissingNoiseIsRecent
<1>2. ASSUME NEW r \in Readers, AskMethods(r) PROVE NoiseInv'
    <2>0. UNCHANGED <<moment, existence, methods>>
        BY <1>2 DEF AskMethods
    <2>1. CASE methods # NotCached
        <3>1. UNCHANGED reader /\ answered' = [at |-> moment, since |-> methods.since,
                                              within |-> FalseTtl + MethodsTtl + methods.took]
            BY <1>2, <2>1 DEF AskMethods, Answer
        <3>2. MissingNoiseIsRecent'
            BY <3>1, <2>1, <1>0 DEF MissingNoiseIsRecent, MethodsAreDated
        <3> QED  BY <3>1, <3>2, <2>0, <1>a, <1>0 DEF NoiseInv, ReadersDated
    <2>2. CASE methods = NotCached
        <3>1. reader' = [reader EXCEPT ![r] = [at |-> "noise", for |-> "methods"]] /\ Silent
            BY <1>2, <2>2 DEF AskMethods
        <3>2. ReadersDated'
            BY <3>1, <2>0, <1>0, <1>c, ReaderMoves
        <3> QED  BY <3>1, <3>2, <2>0, <1>0, <1>a, <1>b DEF NoiseInv
    <2> QED  BY <2>1, <2>2
<1>3. ASSUME NEW r \in Readers, AskNoise(r) PROVE NoiseInv'
    <2>1. /\ UNCHANGED <<moment, existence, methods>> /\ Silent
          /\ reader' = [reader EXCEPT ![r] = [at |-> "noise", for |-> "noise"]]
        BY <1>3 DEF AskNoise
    <2>2. ReadersDated'
        BY <2>1, <1>0, <1>c, ReaderMoves
    <2> QED  BY <2>1, <2>2, <1>0, <1>a, <1>b DEF NoiseInv
<1>4. ASSUME NEW r \in Readers, CheckCache(r) PROVE NoiseInv'
    <2>0. UNCHANGED <<moment, existence, methods>>
        BY <1>4 DEF CheckCache
    <2>1. \/ \E s \in {"counting", "probing"} :
                 /\ reader' = [reader EXCEPT ![r] = [at |-> s, for |-> reader[r].for, asked |-> moment]]
                 /\ Silent
          \/ /\ existence # NotCached /\ ~existence.there /\ moment < existence.until
             /\ \/ /\ reader' = [reader EXCEPT ![r] = [at |-> "storing", for |-> "methods",
                                                       since |-> existence.since, asked |-> moment]]
                   /\ Silent
                \/ reader' = [reader EXCEPT ![r] = Resting] /\ Answer(existence.since, FalseTtl)
        BY <1>4 DEF CheckCache
    <2>2. ASSUME NEW s \in {"counting", "probing"},
                 reader' = [reader EXCEPT ![r] = [at |-> s, for |-> reader[r].for, asked |-> moment]],
                 Silent
          PROVE  NoiseInv'
        <3>1. ReaderIsDated([at |-> s, for |-> reader[r].for, asked |-> moment], moment)
            BY <1>0 DEF ReaderIsDated
        <3>2. ReadersDated'
            BY <2>0, <2>2, <3>1, <1>0, ReaderMoves
        <3> QED  BY <3>2, <2>0, <2>2, <1>0, <1>a, <1>b DEF NoiseInv
    <2>3. ASSUME existence # NotCached, ~existence.there, moment < existence.until PROVE
              existence.since \in 0 .. moment /\ moment - existence.since < FalseTtl
        BY <2>3, <1>0 DEF ExistenceIsDated
    <2>4. ASSUME existence # NotCached, ~existence.there, moment < existence.until,
                 reader' = [reader EXCEPT ![r] = [at |-> "storing", for |-> "methods",
                                                  since |-> existence.since, asked |-> moment]],
                 Silent
          PROVE  NoiseInv'
        <3>1. ReaderIsDated([at |-> "storing", for |-> "methods", since |-> existence.since,
                             asked |-> moment], moment)
            BY <1>0, <2>3, <2>4 DEF ReaderIsDated
        <3>2. ReadersDated'
            BY <2>0, <2>4, <3>1, <1>0, ReaderMoves
        <3> QED  BY <3>2, <2>0, <2>4, <1>0, <1>a, <1>b DEF NoiseInv
    <2>5. ASSUME existence # NotCached, ~existence.there, moment < existence.until,
                 reader' = [reader EXCEPT ![r] = Resting], Answer(existence.since, FalseTtl)
          PROVE  NoiseInv'
        <3>1. MissingNoiseIsRecent'
            BY <2>5, <2>3, <1>0 DEF MissingNoiseIsRecent, Answer
        <3>2. ReadersDated'
            BY <2>0, <2>5, <1>c, <1>0, ReaderMoves
        <3> QED  BY <3>1, <3>2, <2>0, <1>0, <1>a DEF NoiseInv
    <2> QED  BY <2>1, <2>2, <2>4, <2>5
<1>5. ASSUME NEW r \in Readers, Probe(r) PROVE NoiseInv'
    <2>1. /\ UNCHANGED <<moment, existence, methods>> /\ Silent /\ reader[r].at = "probing"
          /\ \E s \in {Seen, moment} :
                 reader' = [reader EXCEPT ![r] = [at |-> "probed", for |-> reader[r].for,
                                                  asked |-> reader[r].asked, since |-> s]]
        BY <1>5 DEF Probe
    <2>2. PICK s \in {Seen, moment} :
              reader' = [reader EXCEPT ![r] = [at |-> "probed", for |-> reader[r].for,
                                               asked |-> reader[r].asked, since |-> s]]
        BY <2>1
    <2>3. reader[r].asked \in 0 .. moment
        BY <2>1, <1>0 DEF ReadersDated, ReaderIsDated
    <2>4. ReaderIsDated([at |-> "probed", for |-> reader[r].for, asked |-> reader[r].asked,
                         since |-> s], moment)
        BY <2>3, <1>0 DEF ReaderIsDated
    <2>5. ReadersDated'
        BY <2>1, <2>2, <2>4, <1>0, ReaderMoves
    <2> QED  BY <2>1, <2>5, <1>0, <1>a, <1>b DEF NoiseInv
<1>6. ASSUME NEW r \in Readers, CacheProbe(r) PROVE NoiseInv'
    <2>1. /\ UNCHANGED <<moment, methods>> /\ reader[r].at = "probed"
          /\ existence' = [there |-> reader[r].since = Seen, since |-> reader[r].since,
                           until |-> IF reader[r].since = Seen THEN LastMoment + 1
                                     ELSE reader[r].asked + FalseTtl]
        BY <1>6 DEF CacheProbe, Cached
    <2>2. /\ reader[r].asked \in 0 .. moment
          /\ reader[r].since # Seen => reader[r].since \in reader[r].asked .. moment
        BY <2>1, <1>0 DEF ReadersDated, ReaderIsDated
    <2>3. ExistenceIsDated'
        <3>1. /\ existence'.since = reader[r].since
              /\ existence'.since # Seen => existence'.until = reader[r].asked + FalseTtl
            BY <2>1
        <3>2. existence'.there <=> existence'.since = Seen
            BY <2>1, Zenon
        <3> QED  BY <2>1, <2>2, <3>1, <3>2, <1>0 DEF ExistenceIsDated
    <2>4. CASE reader[r].since = Seen
        <3>1. /\ reader' = [reader EXCEPT ![r] = [at |-> "counting", for |-> reader[r].for,
                                                  asked |-> reader[r].asked]]
              /\ Silent
            BY <1>6, <2>4 DEF CacheProbe
        <3>2. ReaderIsDated([at |-> "counting", for |-> reader[r].for, asked |-> reader[r].asked],
                            moment)
            BY <2>2 DEF ReaderIsDated
        <3>3. ReadersDated'
            BY <2>1, <3>1, <3>2, <1>0, ReaderMoves
        <3> QED  BY <2>1, <2>3, <3>1, <3>3, <1>0, <1>a, <1>b DEF NoiseInv
    <2>5. CASE reader[r].since # Seen
        <3>1. Conclude(r, reader[r].since)
            BY <1>6, <2>5 DEF CacheProbe
        <3>2. ReadersDated' /\ MissingNoiseIsRecent'
            <4>1. PICK since : since = reader[r].since
                OBVIOUS
            <4>2. Conclude(r, since) /\ moment' = moment /\ reader[r].asked \in 0 .. moment
                  /\ (since # Seen => since \in reader[r].asked .. moment)
                BY <2>1, <2>2, <3>1, <4>1
            <4> QED  BY <4>2, Concluded
        <3> QED  BY <2>1, <2>3, <3>2, <1>0, <1>a DEF NoiseInv
    <2> QED  BY <2>4, <2>5
<1>7. ASSUME NEW r \in Readers, CountNoise(r) PROVE NoiseInv'
    <2>1. /\ UNCHANGED <<moment, existence, methods>> /\ reader[r].at = "counting"
          /\ \E s \in {Seen, moment} : Conclude(r, s)
        BY <1>7 DEF CountNoise
    <2>2. PICK s \in {Seen, moment} : Conclude(r, s)
        BY <2>1
    <2>3. reader[r].asked \in 0 .. moment
        BY <2>1, <1>0 DEF ReadersDated, ReaderIsDated
    <2>4. s # Seen => s \in reader[r].asked .. moment
        BY <2>3, <1>0
    <2>5. ReadersDated' /\ MissingNoiseIsRecent'
        BY <2>1, <2>2, <2>3, <2>4, Concluded
    <2> QED  BY <2>1, <2>5, <1>0, <1>a DEF NoiseInv
<1>8. ASSUME NEW r \in Readers, StoreMethods(r) PROVE NoiseInv'
    <2>1. /\ UNCHANGED <<moment, existence>> /\ reader[r].at = "storing"
          /\ methods' = [since |-> reader[r].since, until |-> moment + MethodsTtl,
                         took |-> moment - reader[r].asked]
          /\ answered' = [at |-> moment, since |-> reader[r].since,
                          within |-> FalseTtl + (moment - reader[r].asked)]
          /\ reader' = [reader EXCEPT ![r] = Resting]
        BY <1>8 DEF StoreMethods, Answer
    <2>2. /\ reader[r].asked \in 0 .. moment
          /\ reader[r].since # Seen => /\ reader[r].since \in 0 .. moment
                                       /\ reader[r].asked - reader[r].since < FalseTtl
        BY <2>1, <1>0 DEF ReadersDated, ReaderIsDated
    <2>3. MethodsAreDated'
        BY <2>1, <2>2, <1>0 DEF MethodsAreDated
    <2>4. MissingNoiseIsRecent'
        BY <2>1, <2>2, <1>0 DEF MissingNoiseIsRecent
    <2>5. ReadersDated'
        BY <2>1, <1>0, <1>c, ReaderMoves
    <2> QED  BY <2>1, <2>3, <2>4, <2>5, <1>0, <1>a DEF NoiseInv
<1>9. CASE CreateTable
    <2>1. UNCHANGED <<moment, existence, methods, reader>> /\ Silent
        BY <1>9 DEF CreateTable
    <2> QED  BY <2>1, <1>0, <1>a, <1>b DEF NoiseInv, ReadersDated
<1>10. CASE NoiseTick
    <2>1. /\ moment' = moment + 1 /\ moment' \in 0 .. LastMoment /\ UNCHANGED reader /\ Silent
          /\ existence' \in {existence, NotCached}
          /\ methods' # NotCached => methods' = methods /\ ~ (methods.until <= moment + 1)
        BY <1>10, <1>0 DEF NoiseTick, Kept
    <2>2. ExistenceIsDated'
        BY <2>1, <1>0 DEF ExistenceIsDated
    <2>3. MethodsAreDated'
        BY <2>1, <1>0 DEF MethodsAreDated
    <2>4. ASSUME NEW x \in Readers PROVE ReaderIsDated(reader'[x], moment')
        <3>1. ReaderIsDated(reader[x], moment) /\ reader'[x] = reader[x]
            BY <2>1, <1>0 DEF ReadersDated
        <3> QED  BY <3>1, <2>1, <1>0 DEF ReaderIsDated
    <2>5. ReadersDated'
        BY <2>1, <2>4, <1>0 DEF ReadersDated
    <2> QED  BY <2>1, <2>2, <2>3, <2>5, <1>b DEF NoiseInv
<1> QED
    BY <1>1, <1>2, <1>3, <1>4, <1>5, <1>6, <1>7, <1>8, <1>9, <1>10 DEF NoiseNext

LEMMA NoiseStarts == NoiseInit => NoiseInv
BY NoiseAssumption DEF NoiseInit, NoiseInv, ExistenceIsDated, MethodsAreDated, ReadersDated,
    ReaderIsDated, Resting, MissingNoiseIsRecent, NoAnswer

\* Whatever threads race for the two caches, one of which is filled from the other, an answer
\* without noise rows rests on a look at the database younger than the sum of their lifetimes
\* and of the time the request took (backend/app/services/noise_service.py).
THEOREM MissingNoiseStaysRecent == NoiseSpec => []MissingNoiseIsRecent
<1>1. NoiseInit => NoiseInv
    BY NoiseStarts
<1>2. NoiseInv => MissingNoiseIsRecent
    BY DEF NoiseInv
<1> QED
    BY <1>1, <1>2, NoiseStep, PTL DEF NoiseSpec

-----------------------------------------------------------------------------
(* The lookup of secrets *)

\* A version is current until it is replaced, and the clock shows when.
VersionsAreDated ==
    /\ asmEnabled \in BOOLEAN /\ beat \in Nat /\ current \in 0 .. LastPayload
    /\ currentUntil \in [0 .. LastPayload -> Nat]
    /\ \A v \in 0 .. LastPayload : currentUntil[v] <= beat
    /\ currentUntil[current] = beat

\* What is cached, or held on its way there, was current at most FetchSpan before it is stored.
PayloadsAreDated ==
    /\ cached # Empty =>
           /\ cached.version \in 0 .. LastPayload /\ cached.at \in 0 .. beat
           /\ cached.at - currentUntil[cached.version] <= FetchSpan
    /\ requesting = [a \in SecretUsers |-> requesting[a]]
    /\ \A a \in SecretUsers : requesting[a].at = "storing" =>
           /\ requesting[a].version \in 0 .. LastPayload /\ requesting[a].since \in 0 .. beat
           /\ requesting[a].since <= currentUntil[requesting[a].version]
           /\ beat - requesting[a].since <= FetchSpan

\* The start asks for one name after the other, on a miss; only then do the resolvers ask.
QuestionsInTurn ==
    /\ requesting["main"] # NoQuestion =>
           /\ ~Configured /\ requesting["main"].name = NextName /\ ~CacheHolds
    /\ \A r \in Resolvers : requesting[r] # NoQuestion => Configured
    /\ \A a \in SecretUsers : requesting[a] # NoQuestion => asmEnabled

HeldAlways(name) == \A v \in 0 .. LastPayload : name \in HeldBy[v]

\* An answer is recent, and the environment's only if it had to be.
AnswerStands(name, found, until, asm) ==
    /\ found \in FoundSecret
    /\ found.from = "asm" =>
           /\ found.version \in 0 .. LastPayload
           /\ found.when - until[found.version] <= SecretTtl + FetchSpan - 1
    /\ asm /\ HeldAlways(name) => found.from = "asm" \/ found.failed

SettingAt(i) == Settings[((i - 1) % Len(Settings)) + 1]

AnswersStand ==
    /\ settings \in Seq(FoundSecret)
    /\ \A i \in DOMAIN settings :
           AnswerStands(SettingAt(i), settings[i], currentUntil, asmEnabled) /\ settings[i].when <= beat
    /\ resolved = [r \in Resolvers |-> resolved[r]]
    /\ \A r \in Resolvers : resolved[r] # NoQuestion =>
           AnswerStands(resolved[r].name, resolved[r].found, currentUntil, asmEnabled)

\* The read by which the payload of the i-th answer of s came is so long ago at time t that
\* the cache has let it go.
LetGo(s, i, t) ==
    \E k \in 1 .. i : s[k].version \in {s[i].version, -1} /\ t - s[k].when >= SecretTtl

\* While the start reads, nobody but itself fills the cache.
StartFillsCache ==
    ~Configured =>
        /\ cached # Empty => \E k \in DOMAIN settings :
               settings[k].when = cached.at /\ settings[k].version \in {cached.version, -1}
        /\ \A i \in DOMAIN settings : settings[i].from = "asm" =>
               /\ cached # Empty
               /\ \/ /\ settings[i].version = cached.version
                     /\ \E k \in 1 .. i : settings[k].when = cached.at
                                          /\ settings[k].version \in {cached.version, -1}
                  \/ LetGo(settings, i, cached.at)

SecretInv ==
    /\ VersionsAreDated /\ PayloadsAreDated /\ QuestionsInTurn /\ AnswersStand
    /\ StartFillsCache /\ CredentialsMatch

LEMMA SecretConstants ==
    /\ SecretTtl \in Nat \ {0} /\ FetchSpan \in Nat /\ LastPayload \in Nat
    /\ "main" \notin Resolvers /\ "main" \in SecretUsers /\ Resolvers \subseteq SecretUsers
    /\ \A a \in SecretUsers : a = "main" \/ a \in Resolvers
BY SecretAssumption DEF SecretUsers

\* The answers that get_secret gives are of the right form and time.
LEMMA EnvAnswers ==
    ASSUME NEW name, NEW failed \in BOOLEAN, beat \in Nat, LastPayload \in Nat
    PROVE  /\ FromEnv(name, failed) \in FoundSecret
           /\ FromEnv(name, failed).from # "asm" /\ FromEnv(name, failed).when = beat
           /\ FromEnv(name, failed).failed = failed /\ FromEnv(name, failed).version = -1
BY DEF FromEnv, FoundSecret

LEMMA PayloadAnswers ==
    ASSUME NEW name, NEW v \in 0 .. LastPayload, beat \in Nat, LastPayload \in Nat
    PROVE  /\ FromPayload(name, v) \in FoundSecret
           /\ FromPayload(name, v).when = beat
           /\ FromPayload(name, v).version \in {v, -1}
           /\ FromPayload(name, v).from = "asm" => FromPayload(name, v).version = v
           /\ name \in HeldBy[v] => FromPayload(name, v).from = "asm"
<1>1. CASE name \in HeldBy[v]
    BY <1>1 DEF FromPayload, FoundSecret
<1>2. CASE name \notin HeldBy[v]
    BY <1>2, EnvAnswers DEF FromPayload
<1> QED
    BY <1>1, <1>2

LEMMA FoundIsDated ==
    ASSUME NEW s \in Seq(FoundSecret), NEW i \in DOMAIN s
    PROVE  s[i] \in FoundSecret /\ s[i].when \in Nat
<1>1. s[i] \in FoundSecret
    OBVIOUS
<1> QED
    BY <1>1 DEF FoundSecret

\* One more answer stands beside those there are.
LEMMA ReceivedStands ==
    ASSUME NEW a \in SecretUsers, NEW name, NEW found, AnswersStand, Receives(a, name, found),
           AnswerStands(name, found, currentUntil, asmEnabled), found.when = beat, beat \in Nat,
           a = "main" => name = NextName, UNCHANGED <<currentUntil, asmEnabled, beat>>
    PROVE  AnswersStand'
<1>1. CASE a = "main"
    <2>1. settings' = Append(settings, found) /\ UNCHANGED resolved
        BY <1>1 DEF Receives
    <2>2. settings \in Seq(FoundSecret) /\ found \in FoundSecret
        BY DEF AnswersStand, AnswerStands
    <2>3. /\ settings' \in Seq(FoundSecret) /\ Len(settings') = Len(settings) + 1
          /\ Len(settings) \in Nat /\ DOMAIN settings = 1 .. Len(settings)
          /\ DOMAIN settings' = 1 .. (Len(settings) + 1)
          /\ settings'[Len(settings) + 1] = found
          /\ \A i \in DOMAIN settings : settings'[i] = settings[i]
        BY <2>1, <2>2
    <2>4. name = SettingAt(Len(settings) + 1)
        BY <1>1, <2>3 DEF NextName, SettingAt
    <2>5. ASSUME NEW i \in DOMAIN settings'
          PROVE  AnswerStands(SettingAt(i), settings'[i], currentUntil, asmEnabled)
                 /\ settings'[i].when <= beat
        <3>1. CASE i \in DOMAIN settings
            BY <3>1, <2>3 DEF AnswersStand
        <3>2. CASE i = Len(settings) + 1
            BY <3>2, <2>3, <2>4
        <3> QED  BY <3>1, <3>2, <2>3
    <2> QED  BY <2>1, <2>3, <2>5 DEF AnswersStand
<1>2. CASE a # "main"
    <2>1. /\ resolved' = [resolved EXCEPT ![a] = [at |-> "answered", name |-> name, found |-> found]]
          /\ UNCHANGED settings /\ a \in Resolvers
        BY <1>2, SecretConstants DEF Receives
    <2>2. ASSUME NEW r \in Resolvers, resolved'[r] # NoQuestion
          PROVE  AnswerStands(resolved'[r].name, resolved'[r].found, currentUntil, asmEnabled)
        <3>1. CASE r = a
            BY <2>1, <3>1 DEF AnswersStand
        <3>2. CASE r # a
            BY <2>1, <2>2, <3>2 DEF AnswersStand
        <3> QED  BY <3>1, <3>2
    <2> QED  BY <2>1, <2>2 DEF AnswersStand
<1> QED
    BY <1>1, <1>2

\* As time passes and versions go, answers stand on.
LEMMA LaterStands ==
    ASSUME AnswersStand, VersionsAreDated, UNCHANGED <<settings, resolved, asmEnabled>>,
           beat' \in Nat, beat <= beat', currentUntil' \in [0 .. LastPayload -> Nat],
           \A v \in 0 .. LastPayload : currentUntil[v] <= currentUntil'[v]
    PROVE  AnswersStand'
<1>1. ASSUME NEW name, NEW found, AnswerStands(name, found, currentUntil, asmEnabled)
      PROVE  AnswerStands(name, found, currentUntil', asmEnabled')
    <2>1. ASSUME found.from = "asm"
          PROVE  /\ found.version \in 0 .. LastPayload
                 /\ found.when - currentUntil'[found.version] <= SecretTtl + FetchSpan - 1
        <3>1. /\ found.version \in 0 .. LastPayload /\ found.when \in Nat
              /\ found.when - currentUntil[found.version] <= SecretTtl + FetchSpan - 1
            BY <1>1, <2>1 DEF AnswerStands, FoundSecret
        <3>2. /\ currentUntil[found.version] \in Nat /\ currentUntil'[found.version] \in Nat
              /\ currentUntil[found.version] <= currentUntil'[found.version]
            BY <3>1 DEF VersionsAreDated
        <3> QED  BY <3>1, <3>2, SecretConstants
    <2> QED  BY <1>1, <2>1 DEF AnswerStands
<1>2. /\ settings \in Seq(FoundSecret)
      /\ \A i \in DOMAIN settings : settings[i].when <= beat /\ settings[i].when \in Nat
    BY FoundIsDated DEF AnswersStand
<1>3. \A i \in DOMAIN settings : settings[i].when <= beat'
    BY <1>2 DEF VersionsAreDated
<1> QED
    BY <1>1, <1>2, <1>3 DEF AnswersStand

LEMMA LetGoLater ==
    ASSUME NEW s \in Seq(FoundSecret), NEW i \in DOMAIN s, NEW t \in Nat, NEW u \in Nat, t <= u, LetGo(s, i, t)
    PROVE  LetGo(s, i, u)
<1>1. PICK k \in 1 .. i : s[k].version \in {s[i].version, -1} /\ t - s[k].when >= SecretTtl
    BY DEF LetGo
<1>2. i \in 1 .. Len(s) /\ Len(s) \in Nat /\ k \in DOMAIN s
    <2>1. i \in 1 .. Len(s) /\ Len(s) \in Nat
        OBVIOUS
    <2> QED  BY <2>1
<1>3. s[k].when \in Nat
    BY <1>2, FoundIsDated
<1> QED
    BY <1>1, <1>3, SecretConstants DEF LetGo

LEMMA LetGoAppended ==
    ASSUME NEW s \in Seq(FoundSecret), NEW found \in FoundSecret, NEW i \in DOMAIN s, NEW t, LetGo(s, i, t)
    PROVE  LetGo(Append(s, found), i, t)
<1>1. /\ i \in 1 .. Len(s) /\ Len(s) \in Nat
      /\ \A k \in 1 .. Len(s) : Append(s, found)[k] = s[k]
    OBVIOUS
<1>2. \A k \in 1 .. i : Append(s, found)[k] = s[k]
    BY <1>1
<1> QED
    BY <1>1, <1>2 DEF LetGo

\* The start's next answer: the environment's, or the cached payload's, or that of a payload
\* fetched because the cache had let go of the last.
LEMMA StartReads ==
    ASSUME NEW found, SecretInv, ~Configured, settings' = Append(settings, found),
           found \in FoundSecret, found.when = beat,
           \/ found.from # "asm" /\ UNCHANGED cached
           \/ found.from = "asm" /\ found.version = cached.version /\ cached # Empty /\ UNCHANGED cached
           \/ \E v \in 0 .. LastPayload :
                  /\ cached' = [version |-> v, at |-> beat] /\ found.version \in {v, -1}
                  /\ found.from = "asm" => found.version = v
                  /\ ~CacheHolds
    PROVE  StartFillsCache' /\ CredentialsMatch'
<1> DEFINE n == Len(settings) + 1
<1>1. /\ settings \in Seq(FoundSecret) /\ beat \in Nat
      /\ settings' \in Seq(FoundSecret) /\ Len(settings) \in Nat
      /\ DOMAIN settings = 1 .. Len(settings) /\ DOMAIN settings' = 1 .. n
      /\ settings'[n] = found
      /\ \A i \in DOMAIN settings : settings'[i] = settings[i]
      /\ \A i \in DOMAIN settings : settings[i].when \in Nat /\ settings[i].when <= beat
    <2>1. settings \in Seq(FoundSecret) /\ beat \in Nat
        BY DEF SecretInv, AnswersStand, VersionsAreDated
    <2>2. \A i \in DOMAIN settings : settings[i].when \in Nat /\ settings[i].when <= beat
        BY <2>1, FoundIsDated DEF SecretInv, AnswersStand
    <2> QED  BY <2>1, <2>2
<1> HIDE DEF n
<1>2. n \in Nat /\ n = Len(settings) + 1
    BY <1>1 DEF n
<1>3. /\ cached # Empty => cached.at \in Nat /\ cached.at <= beat
      /\ SecretTtl \in Nat \ {0}
    BY SecretConstants, <1>1 DEF SecretInv, PayloadsAreDated
<1>4. \A i \in DOMAIN settings : \A t : LetGo(settings, i, t) => LetGo(settings', i, t)
    BY <1>1, LetGoAppended
<1>6. ASSUME \A i \in DOMAIN settings :
                 settings[i].from = "asm" /\ found.from = "asm" /\ settings[i].version # found.version
                     => LetGo(settings, i, beat)
      PROVE  CredentialsMatch'
    <2>1. ASSUME NEW i \in DOMAIN settings', NEW j \in DOMAIN settings', i < j,
                 settings'[i].from = "asm", settings'[j].from = "asm",
                 settings'[i].version # settings'[j].version
          PROVE  \E k \in 1 .. i : /\ settings'[k].version \in {settings'[i].version, -1}
                                   /\ settings'[j].when - settings'[k].when >= SecretTtl
        <3>1. i \in DOMAIN settings /\ \A k \in 1 .. i : settings'[k] = settings[k]
            BY <1>1, <1>2, <2>1
        <3>2. CASE j = n
            <4>1. LetGo(settings, i, beat)
                BY <1>6, <1>1, <2>1, <3>1, <3>2
            <4> QED  BY <4>1, <3>1, <3>2, <1>1 DEF LetGo
        <3>3. CASE j \in DOMAIN settings
            <4>1. settings'[j] = settings[j] /\ settings'[i] = settings[i]
                BY <1>1, <3>1, <3>3
            <4>2. \E k \in 1 .. i : /\ settings[k].version \in {settings[i].version, -1}
                                    /\ settings[j].when - settings[k].when >= SecretTtl
                BY <2>1, <3>1, <3>3, <4>1 DEF SecretInv, CredentialsMatch
            <4> QED  BY <3>1, <4>1, <4>2
        <3> QED  BY <1>1, <1>2, <3>2, <3>3
    <2> QED  BY <2>1 DEF CredentialsMatch
\* While it holds, the cache stays as it is.
<1>5. CASE UNCHANGED cached /\ (found.from = "asm" => found.version = cached.version /\ cached # Empty)
    <2>1. ASSUME cached' # Empty
          PROVE  \E k \in DOMAIN settings :
                     settings[k].when = cached.at /\ settings[k].version \in {cached.version, -1}
        BY <1>5, <2>1 DEF SecretInv, StartFillsCache
    <2>2. ASSUME cached' # Empty
          PROVE  \E k \in DOMAIN settings' :
                     settings'[k].when = cached'.at /\ settings'[k].version \in {cached'.version, -1}
        BY <1>1, <1>2, <1>5, <2>1, <2>2
    <2>3. ASSUME NEW i \in DOMAIN settings', settings'[i].from = "asm"
          PROVE  /\ cached' # Empty
                 /\ \/ /\ settings'[i].version = cached'.version
                       /\ \E k \in 1 .. i : settings'[k].when = cached'.at
                                            /\ settings'[k].version \in {cached'.version, -1}
                    \/ LetGo(settings', i, cached'.at)
        <3>1. CASE i = n
            BY <1>1, <1>2, <1>5, <2>1, <2>3, <3>1
        <3>2. CASE i \in DOMAIN settings
            <4>1. /\ cached # Empty
                  /\ \/ /\ settings[i].version = cached.version
                        /\ \E k \in 1 .. i : settings[k].when = cached.at
                                             /\ settings[k].version \in {cached.version, -1}
                     \/ LetGo(settings, i, cached.at)
                BY <1>1, <2>3, <3>2 DEF SecretInv, StartFillsCache
            <4>2. \A k \in 1 .. i : settings'[k] = settings[k]
                BY <1>1, <3>2
            <4> QED  BY <1>1, <1>4, <1>5, <3>2, <4>1, <4>2
        <3> QED  BY <1>1, <1>2, <3>1, <3>2
    <2>4. ASSUME NEW i \in DOMAIN settings, settings[i].from = "asm", found.from = "asm",
                 settings[i].version # found.version
          PROVE  LetGo(settings, i, beat)
        <3>1. LetGo(settings, i, cached.at) /\ cached # Empty
            BY <1>5, <2>4 DEF SecretInv, StartFillsCache
        <3> QED  BY <3>1, <1>1, <1>3, LetGoLater
    <2>5. StartFillsCache'
        BY <2>2, <2>3 DEF StartFillsCache
    <2> QED  BY <2>4, <2>5, <1>6
\* A fetch, which ends what was cached.
<1>7. CASE \E v \in 0 .. LastPayload :
               /\ cached' = [version |-> v, at |-> beat] /\ found.version \in {v, -1}
               /\ found.from = "asm" => found.version = v
               /\ ~CacheHolds
    <2>1. PICK v \in 0 .. LastPayload :
               /\ cached' = [version |-> v, at |-> beat] /\ found.version \in {v, -1}
               /\ found.from = "asm" => found.version = v
               /\ ~CacheHolds
        BY <1>7
    <2>2. cached'.version = v /\ cached'.at = beat
        BY <2>1
    <2>3. ASSUME NEW i \in DOMAIN settings, settings[i].from = "asm" PROVE LetGo(settings, i, beat)
        <3>1. /\ cached # Empty
              /\ \/ /\ settings[i].version = cached.version
                    /\ \E k \in 1 .. i : settings[k].when = cached.at
                                         /\ settings[k].version \in {cached.version, -1}
                 \/ LetGo(settings, i, cached.at)
            BY <2>3 DEF SecretInv, StartFillsCache
        <3>2. beat - cached.at >= SecretTtl
            BY <2>1, <3>1, <1>1, <1>3 DEF CacheHolds
        <3>3. CASE LetGo(settings, i, cached.at)
            BY <3>1, <3>3, <1>1, <1>3, LetGoLater
        <3>4. CASE /\ settings[i].version = cached.version
                   /\ \E k \in 1 .. i : settings[k].when = cached.at
                                        /\ settings[k].version \in {cached.version, -1}
            BY <3>2, <3>4 DEF LetGo
        <3> QED  BY <3>1, <3>3, <3>4
    <2>4. StartFillsCache'
        <3>1. n \in DOMAIN settings' /\ settings'[n].when = cached'.at
              /\ settings'[n].version \in {cached'.version, -1}
            BY <2>1, <2>2, <1>1, <1>2
        <3>2. ASSUME NEW i \in DOMAIN settings', settings'[i].from = "asm"
              PROVE  /\ cached' # Empty
                     /\ \/ /\ settings'[i].version = cached'.version
                           /\ \E k \in 1 .. i : settings'[k].when = cached'.at
                                                /\ settings'[k].version \in {cached'.version, -1}
                        \/ LetGo(settings', i, cached'.at)
            <4>1. cached' # Empty
                BY <2>2 DEF Empty
            <4>2. CASE i = n
                BY <2>1, <2>2, <1>1, <1>2, <3>1, <3>2, <4>1, <4>2
            <4>3. CASE i \in DOMAIN settings
                BY <1>1, <1>4, <2>2, <2>3, <3>2, <4>1, <4>3
            <4> QED  BY <1>1, <1>2, <4>2, <4>3
        <3> QED  BY <3>1, <3>2 DEF StartFillsCache
    <2> QED  BY <2>3, <2>4, <1>6
<1> QED
    BY <1>5, <1>7

\* A resolver's step leaves the start's answers alone, which are all there by then.
LEMMA OthersLeaveMatch ==
    ASSUME SecretInv, UNCHANGED settings, Configured \/ UNCHANGED cached
    PROVE  StartFillsCache' /\ CredentialsMatch'
<1>1. Configured' = Configured
    BY DEF Configured
<1> QED
    BY <1>1 DEF SecretInv, StartFillsCache, CredentialsMatch, LetGo, Configured

\* One asker goes on, and the clock, the versions and the answers stay.
LEMMA QuestionMoves ==
    ASSUME NEW a \in SecretUsers, NEW q, SecretInv, requesting' = [requesting EXCEPT ![a] = q],
           UNCHANGED <<current, currentUntil, beat, settings, asmEnabled>>,
           \/ UNCHANGED cached
           \/ Configured /\ cached'.version \in 0 .. LastPayload /\ cached'.at = beat
              /\ beat - currentUntil[cached'.version] <= FetchSpan,
           q # NoQuestion => /\ asmEnabled
                             /\ IF a = "main" THEN ~Configured /\ q.name = NextName /\ ~CacheHolds
                                              ELSE Configured,
           q.at = "storing" => /\ q.version \in 0 .. LastPayload /\ q.since \in 0 .. beat
                               /\ q.since <= currentUntil[q.version]
                               /\ beat - q.since <= FetchSpan
    PROVE  PayloadsAreDated' /\ QuestionsInTurn'
<1>1. /\ requesting' = [x \in SecretUsers |-> requesting'[x]]
      /\ \A x \in SecretUsers : requesting'[x] = IF x = a THEN q ELSE requesting[x]
    BY DEF SecretInv, PayloadsAreDated
<1>2. Configured' = Configured /\ NextName' = NextName
    BY DEF Configured, NextName
<1>3. beat \in Nat
    BY DEF SecretInv, VersionsAreDated
<1>4. PayloadsAreDated'
    BY <1>1, <1>3 DEF SecretInv, PayloadsAreDated
<1>5. requesting'["main"] # NoQuestion =>
          ~Configured' /\ requesting'["main"].name = NextName' /\ ~CacheHolds'
    BY <1>1, <1>2, SecretConstants DEF SecretInv, QuestionsInTurn, CacheHolds
<1>6. \A r \in Resolvers : requesting'[r] # NoQuestion => Configured'
    BY <1>1, <1>2, SecretConstants DEF SecretInv, QuestionsInTurn
<1>7. \A x \in SecretUsers : requesting'[x] # NoQuestion => asmEnabled'
    BY <1>1 DEF SecretInv, QuestionsInTurn
<1> QED
    BY <1>4, <1>5, <1>6, <1>7 DEF QuestionsInTurn

\* The start's question is answered: nobody asks any more.
LEMMA StartAnswered ==
    ASSUME SecretInv, ~Configured, requesting' = [requesting EXCEPT !["main"] = NoQuestion],
           UNCHANGED <<current, currentUntil, beat, asmEnabled>>,
           \/ UNCHANGED cached
           \/ cached'.version \in 0 .. LastPayload /\ cached'.at = beat
              /\ beat - currentUntil[cached'.version] <= FetchSpan
    PROVE  PayloadsAreDated' /\ QuestionsInTurn'
<1>1. /\ requesting' = [x \in SecretUsers |-> requesting'[x]]
      /\ \A x \in SecretUsers : requesting'[x] = NoQuestion
    BY SecretConstants DEF SecretInv, PayloadsAreDated, QuestionsInTurn
<1>2. NoQuestion.at # "storing"
    BY DEF NoQuestion
<1>3. beat \in Nat
    BY DEF SecretInv, VersionsAreDated
<1>4. PayloadsAreDated'
    BY <1>1, <1>2, <1>3 DEF SecretInv, PayloadsAreDated
<1> QED
    BY <1>1, <1>4, SecretConstants DEF QuestionsInTurn

\* What a payload or the environment answers stands.
LEMMA PayloadStands ==
    ASSUME NEW name, NEW v \in 0 .. LastPayload, SecretInv,
           beat - currentUntil[v] <= SecretTtl + FetchSpan - 1
    PROVE  AnswerStands(name, FromPayload(name, v), currentUntil, asmEnabled)
<1>1. beat \in Nat /\ LastPayload \in Nat
    BY SecretConstants DEF SecretInv, VersionsAreDated
<1> QED
    BY <1>1, PayloadAnswers DEF AnswerStands, HeldAlways

LEMMA EnvStands ==
    ASSUME NEW name, NEW failed \in BOOLEAN, SecretInv, ~asmEnabled \/ failed
    PROVE  AnswerStands(name, FromEnv(name, failed), currentUntil, asmEnabled)
<1>1. beat \in Nat /\ LastPayload \in Nat
    BY SecretConstants DEF SecretInv, VersionsAreDated
<1> QED
    BY <1>1, EnvAnswers DEF AnswerStands

LEMMA SecretStep == SecretInv /\ [SecretNext]_secretVars => SecretInv'
<1> SUFFICES ASSUME SecretInv, [SecretNext]_secretVars PROVE SecretInv'
    OBVIOUS
<1>0. /\ SecretTtl \in Nat \ {0} /\ FetchSpan \in Nat /\ LastPayload \in Nat /\ beat \in Nat
      /\ currentUntil \in [0 .. LastPayload -> Nat] /\ current \in 0 .. LastPayload
    BY SecretConstants DEF SecretInv, VersionsAreDated
<1>a. UNCHANGED <<asmEnabled, beat, current, currentUntil>> => VersionsAreDated'
    BY DEF SecretInv, VersionsAreDated
<1>1. CASE UNCHANGED secretVars
    BY <1>1 DEF secretVars, SecretInv, VersionsAreDated, PayloadsAreDated, QuestionsInTurn,
        AnswersStand, StartFillsCache, CredentialsMatch, LetGo, Configured, NextName, CacheHolds
<1>2. ASSUME NEW a \in SecretUsers, NEW name \in SecretNames, AnswerAtOnce(a, name) PROVE SecretInv'
    <2>0. /\ requesting[a] = NoQuestion
          /\ UNCHANGED <<asmEnabled, current, cached, requesting, currentUntil, beat>>
          /\ IF a = "main" THEN ~Configured /\ name = NextName ELSE Configured
        BY <1>2 DEF AnswerAtOnce, MayAsk
    <2>1. PICK found :
              /\ Receives(a, name, found)
              /\ AnswerStands(name, found, currentUntil, asmEnabled) /\ found.when = beat
              /\ \/ found.from # "asm"
                 \/ found.from = "asm" /\ found.version = cached.version /\ cached # Empty
        <3>1. CASE asmEnabled
            <4>1. cached # Empty /\ beat - cached.at < SecretTtl
                  /\ Receives(a, name, FromPayload(name, cached.version))
                BY <1>2, <3>1 DEF AnswerAtOnce, CacheHolds
            <4>2. /\ cached.version \in 0 .. LastPayload /\ cached.at \in 0 .. beat
                  /\ cached.at - currentUntil[cached.version] <= FetchSpan
                  /\ currentUntil[cached.version] \in Nat
                BY <4>1, <1>0 DEF SecretInv, PayloadsAreDated
            <4>3. beat - currentUntil[cached.version] <= SecretTtl + FetchSpan - 1
                BY <4>1, <4>2, <1>0
            <4> QED  BY <4>1, <4>2, <4>3, <1>0, PayloadStands, PayloadAnswers
        <3>2. CASE ~asmEnabled
            <4>1. Receives(a, name, FromEnv(name, FALSE))
                BY <1>2, <3>2 DEF AnswerAtOnce
            <4> QED  BY <4>1, <3>2, <1>0, EnvStands, EnvAnswers
        <3> QED  BY <3>1, <3>2
    <2>2. AnswersStand'
        BY <2>0, <2>1, <1>0, ReceivedStands DEF SecretInv
    <2>3. CASE a = "main"
        <3>1. settings' = Append(settings, found) /\ found \in FoundSecret
            BY <2>1, <2>3 DEF Receives, AnswerStands
        <3>2. StartFillsCache' /\ CredentialsMatch'
            BY <2>0, <2>1, <2>3, <3>1, StartReads
        <3>3. requesting' = [requesting EXCEPT !["main"] = NoQuestion]
            BY <2>0, <2>3 DEF SecretInv, PayloadsAreDated
        <3>4. PayloadsAreDated' /\ QuestionsInTurn'
            BY <2>0, <2>3, <3>3, StartAnswered
        <3> QED  BY <2>0, <2>2, <3>2, <3>4, <1>a DEF SecretInv
    <2>4. CASE a # "main"
        <3>1. UNCHANGED settings /\ Configured
            BY <2>0, <2>1, <2>4 DEF Receives
        <3>2. PayloadsAreDated' /\ QuestionsInTurn'
            BY <2>0, <3>1 DEF SecretInv, PayloadsAreDated, QuestionsInTurn, Configured, NextName, CacheHolds
        <3> QED  BY <2>0, <2>2, <3>1, <3>2, <1>a, OthersLeaveMatch DEF SecretInv
    <2> QED  BY <2>3, <2>4
<1>3. ASSUME NEW a \in SecretUsers, NEW name \in SecretNames, Miss(a, name) PROVE SecretInv'
    <2> DEFINE q == [at |-> "fetching", name |-> name]
    <2>1. /\ requesting' = [requesting EXCEPT ![a] = q]
          /\ UNCHANGED <<asmEnabled, current, cached, settings, resolved, currentUntil, beat>>
          /\ asmEnabled /\ IF a = "main" THEN ~Configured /\ name = NextName /\ ~CacheHolds ELSE Configured
        BY <1>3 DEF Miss, MayAsk
    <2>2. q.at # "storing" /\ q.name = name
        OBVIOUS
    <2> HIDE DEF q
    <2>3. PayloadsAreDated' /\ QuestionsInTurn'
        BY <2>1, <2>2, QuestionMoves
    <2>4. AnswersStand'
        BY <2>1 DEF SecretInv, AnswersStand
    <2> QED  BY <2>1, <2>3, <2>4, <1>a, OthersLeaveMatch DEF SecretInv
<1>4. ASSUME NEW a \in SecretUsers, FetchPayload(a) PROVE SecretInv'
    <2> DEFINE q == [at |-> "storing", name |-> requesting[a].name, version |-> current, since |-> beat]
    <2>1. /\ requesting' = [requesting EXCEPT ![a] = q] /\ requesting[a].at = "fetching"
          /\ UNCHANGED <<asmEnabled, current, cached, settings, resolved, currentUntil, beat>>
        BY <1>4 DEF FetchPayload
    <2>2. /\ q.at = "storing" /\ q.name = requesting[a].name /\ q.version = current /\ q.since = beat
        OBVIOUS
    <2> HIDE DEF q
    <2>3. requesting[a] # NoQuestion
        BY <2>1 DEF NoQuestion
    <2>4. /\ asmEnabled
          /\ IF a = "main" THEN ~Configured /\ q.name = NextName /\ ~CacheHolds ELSE Configured
        BY <2>2, <2>3, SecretConstants DEF SecretInv, QuestionsInTurn
    <2>5. q.version \in 0 .. LastPayload /\ q.since \in 0 .. beat /\ q.since <= currentUntil[q.version]
          /\ beat - q.since <= FetchSpan
        BY <2>2, <1>0 DEF SecretInv, VersionsAreDated
    <2>6. PayloadsAreDated' /\ QuestionsInTurn'
        BY <2>1, <2>4, <2>5, QuestionMoves
    <2>7. AnswersStand'
        BY <2>1 DEF SecretInv, AnswersStand
    <2> QED  BY <2>1, <2>6, <2>7, <1>a, OthersLeaveMatch DEF SecretInv
<1>5. ASSUME NEW a \in SecretUsers, Store(a) PROVE SecretInv'
    <2>1. PICK name, v : name = requesting[a].name /\ v = requesting[a].version
        OBVIOUS
    <2>2. /\ requesting[a].at = "storing" /\ cached' = [version |-> v, at |-> beat]
          /\ Receives(a, name, FromPayload(name, v))
          /\ requesting' = [requesting EXCEPT ![a] = NoQuestion]
          /\ UNCHANGED <<asmEnabled, current, currentUntil, beat>>
        BY <1>5, <2>1 DEF Store
    <2>3. /\ v \in 0 .. LastPayload /\ beat - currentUntil[v] <= FetchSpan
          /\ beat - currentUntil[v] <= SecretTtl + FetchSpan - 1
        BY <2>1, <2>2, <1>0 DEF SecretInv, PayloadsAreDated
    <2>4. requesting[a] # NoQuestion
        BY <2>2 DEF NoQuestion
    <2>5. IF a = "main" THEN ~Configured /\ name = NextName /\ ~CacheHolds ELSE Configured
        BY <2>1, <2>4, SecretConstants DEF SecretInv, QuestionsInTurn
    <2>6. PICK found : found = FromPayload(name, v)
        OBVIOUS
    <2>7. /\ found \in FoundSecret /\ found.when = beat /\ found.version \in {v, -1}
          /\ found.from = "asm" => found.version = v
          /\ AnswerStands(name, found, currentUntil, asmEnabled)
        BY <2>3, <2>6, <1>0, PayloadAnswers, PayloadStands
    <2>8. AnswersStand'
        BY <2>2, <2>5, <2>6, <2>7, <1>0, ReceivedStands DEF SecretInv
    <2>9. /\ cached'.version \in 0 .. LastPayload /\ cached'.at = beat
          /\ beat - currentUntil[cached'.version] <= FetchSpan
        BY <2>2, <2>3
    <2>10. CASE a = "main"
        <3>1. settings' = Append(settings, found)
            BY <2>2, <2>6, <2>10 DEF Receives
        <3>2. StartFillsCache' /\ CredentialsMatch'
            BY <2>2, <2>3, <2>5, <2>7, <2>10, <3>1, StartReads
        <3>3. PayloadsAreDated' /\ QuestionsInTurn'
            BY <2>2, <2>5, <2>9, <2>10, StartAnswered
        <3> QED  BY <2>2, <2>8, <3>2, <3>3, <1>a DEF SecretInv
    <2>11. CASE a # "main"
        <3>1. UNCHANGED settings /\ Configured
            BY <2>2, <2>5, <2>11 DEF Receives
        <3>2. NoQuestion.at # "storing"
            BY DEF NoQuestion
        <3>3. PayloadsAreDated' /\ QuestionsInTurn'
            BY <2>2, <2>9, <3>1, <3>2, QuestionMoves
        <3> QED  BY <2>2, <2>8, <3>1, <3>3, <1>a, OthersLeaveMatch DEF SecretInv
    <2> QED  BY <2>10, <2>11
<1>6. ASSUME NEW a \in SecretUsers, FetchFails(a) PROVE SecretInv'
    <2>1. PICK name : name = requesting[a].name
        OBVIOUS
    <2>2. /\ requesting[a].at = "fetching" /\ Receives(a, name, FromEnv(name, TRUE))
          /\ requesting' = [requesting EXCEPT ![a] = NoQuestion]
          /\ UNCHANGED <<asmEnabled, current, cached, currentUntil, beat>>
        BY <1>6, <2>1 DEF FetchFails
    <2>4. requesting[a] # NoQuestion
        BY <2>2 DEF NoQuestion
    <2>5. IF a = "main" THEN ~Configured /\ name = NextName /\ ~CacheHolds ELSE Configured
        BY <2>1, <2>4, SecretConstants DEF SecretInv, QuestionsInTurn
    <2>6. PICK found : found = FromEnv(name, TRUE)
        OBVIOUS
    <2>7. /\ found \in FoundSecret /\ found.when = beat /\ found.from # "asm"
          /\ AnswerStands(name, found, currentUntil, asmEnabled)
        BY <2>6, <1>0, EnvAnswers, EnvStands
    <2>8. AnswersStand'
        BY <2>2, <2>5, <2>6, <2>7, <1>0, ReceivedStands DEF SecretInv
    <2>10. CASE a = "main"
        <3>1. settings' = Append(settings, found)
            BY <2>2, <2>6, <2>10 DEF Receives
        <3>2. StartFillsCache' /\ CredentialsMatch'
            BY <2>2, <2>5, <2>7, <2>10, <3>1, StartReads
        <3>3. PayloadsAreDated' /\ QuestionsInTurn'
            BY <2>2, <2>5, <2>10, StartAnswered
        <3> QED  BY <2>2, <2>8, <3>2, <3>3, <1>a DEF SecretInv
    <2>11. CASE a # "main"
        <3>1. UNCHANGED settings /\ Configured
            BY <2>2, <2>5, <2>11 DEF Receives
        <3>2. NoQuestion.at # "storing"
            BY DEF NoQuestion
        <3>3. PayloadsAreDated' /\ QuestionsInTurn'
            BY <2>2, <3>1, <3>2, QuestionMoves
        <3> QED  BY <2>2, <2>8, <3>1, <3>3, <1>a, OthersLeaveMatch DEF SecretInv
    <2> QED  BY <2>10, <2>11
<1>7. CASE Rotate
    <2>1. /\ current' = current + 1 /\ current < LastPayload
          /\ currentUntil' = [currentUntil EXCEPT ![current'] = beat]
          /\ UNCHANGED <<asmEnabled, cached, requesting, settings, resolved, beat>>
        BY <1>7 DEF Rotate
    <2>2. VersionsAreDated' /\ \A v \in 0 .. LastPayload : currentUntil[v] <= currentUntil'[v]
        BY <2>1, <1>0 DEF SecretInv, VersionsAreDated
    <2>3. AnswersStand'
        BY <2>1, <2>2, <1>0, LaterStands DEF SecretInv, VersionsAreDated
    <2>4. \A v \in 0 .. LastPayload : currentUntil'[v] \in Nat /\ currentUntil[v] \in Nat
        BY <1>0, <2>2 DEF VersionsAreDated
    <2>5. PayloadsAreDated'
        BY <2>1, <2>2, <2>4, <1>0 DEF SecretInv, PayloadsAreDated
    <2>6. QuestionsInTurn'
        BY <2>1 DEF SecretInv, QuestionsInTurn, Configured, NextName, CacheHolds
    <2> QED  BY <2>1, <2>2, <2>3, <2>5, <2>6, OthersLeaveMatch DEF SecretInv
<1>8. CASE Beat
    <2>1. /\ beat' = beat + 1 /\ currentUntil' = [currentUntil EXCEPT ![current] = beat']
          /\ \A a \in SecretUsers : requesting[a].at = "storing" => beat - requesting[a].since < FetchSpan
          /\ UNCHANGED <<asmEnabled, current, cached, requesting, settings, resolved>>
        BY <1>8 DEF Beat
    <2>2. VersionsAreDated' /\ \A v \in 0 .. LastPayload : currentUntil[v] <= currentUntil'[v]
        BY <2>1, <1>0 DEF SecretInv, VersionsAreDated
    <2>3. AnswersStand'
        BY <2>1, <2>2, <1>0, LaterStands DEF SecretInv, VersionsAreDated
    <2>4. \A v \in 0 .. LastPayload : currentUntil'[v] \in Nat /\ currentUntil[v] \in Nat
        BY <1>0, <2>2 DEF VersionsAreDated
    <2>5. PayloadsAreDated'
        BY <2>1, <2>2, <2>4, <1>0 DEF SecretInv, PayloadsAreDated
    <2>6. CacheHolds' => CacheHolds
        BY <2>1, <1>0 DEF SecretInv, PayloadsAreDated, CacheHolds
    <2>7. QuestionsInTurn'
        BY <2>1, <2>6 DEF SecretInv, QuestionsInTurn, Configured, NextName
    <2> QED  BY <2>1, <2>2, <2>3, <2>5, <2>7, OthersLeaveMatch DEF SecretInv
<1> QED
    BY <1>1, <1>2, <1>3, <1>4, <1>5, <1>6, <1>7, <1>8 DEF SecretNext

LEMMA SecretsStart == SecretInit => SecretInv
<1> SUFFICES ASSUME SecretInit PROVE SecretInv
    OBVIOUS
<1>1. NoQuestion.at # "storing" /\ settings \in Seq(FoundSecret) /\ DOMAIN settings = {}
    BY DEF SecretInit, NoQuestion
<1>2. VersionsAreDated
    BY SecretConstants DEF SecretInit, VersionsAreDated
<1> QED  BY <1>1, <1>2, SecretConstants DEF SecretInit, SecretInv, PayloadsAreDated, QuestionsInTurn,
        AnswersStand, StartFillsCache, CredentialsMatch

\* Whoever stores what in which order, a payload that answers was current within the cache's
\* lifetime and a fetch, a start's credentials come from two payloads only if reading them
\* took longer than that, and no failure is remembered (src/core/secrets.py).
THEOREM SecretsAlwaysHold == SecretSpec => []SecretsHold
<1>1. SecretInit => SecretInv
    BY SecretsStart
<1>2. SecretInv => SecretsHold
    <2> SUFFICES ASSUME SecretInv PROVE SecretsHold
        OBVIOUS
    <2>1. SecretsAreRecent
        BY DEF SecretInv, AnswersStand, AnswerStands, SecretsAreRecent
    <2>2. FallbackIsEarned
        BY DEF SecretInv, AnswersStand, AnswerStands, FallbackIsEarned, HeldAlways, SettingAt
    <2> QED  BY <2>1, <2>2 DEF SecretInv, SecretsHold
<1> QED
    BY <1>1, <1>2, SecretStep, PTL DEF SecretSpec

-----------------------------------------------------------------------------
(* The status *)

\* What a cache keeps was sampled at most FetchMax before, and no event is newer than the newest.
CachesAreDated ==
    /\ cache = [c \in Caches |-> cache[c]]
    /\ \A c \in Caches : cache[c] # Nobody =>
           /\ cache[c].at \in 0 .. instant /\ cache[c].sampled \in 0 .. cache[c].at
           /\ cache[c].at - cache[c].sampled <= FetchMax
    /\ cache["latest"] # Nobody => cache["latest"].value \in 0 .. newest

\* What a request was given, g, where it is, a, and the cache it asks, w, bound the age of what
\* it will answer with: b is when its fetch began, now the time, high the newest event's.
GivenIsDated(a, w, g, b, now, high) ==
    /\ g = [c \in Caches |-> g[c]] /\ w \in Caches /\ b \in 0 .. now
    /\ \A c \in Caches : g[c].sampled \in 0 .. now
    /\ g["latest"].value \in {-1} \cup 0 .. high
    /\ a \in {"fetch", "keep"} => now - b <= FetchMax
    /\ a = "keep" => g[w].sampled \in b .. now
    /\ a = "keep" /\ w = "latest" => g[w].value \in 0 .. high
    /\ w = "latest" /\ ~g["health"].beside =>
           /\ a = "ask" => now - g["health"].sampled < HealthTtl + FetchMax
           /\ a \in {"fetch", "keep"} => b - g["health"].sampled < HealthTtl + FetchMax
           /\ a = "answer" => now - g["health"].sampled < HealthTtl + 2 * FetchMax
    /\ a = "answer" /\ ~g["latest"].beside => now - g["latest"].sampled <= LatestTtl + FetchMax
    /\ a = "answer" => w = "latest"

GivenAreDated ==
    /\ at = [r \in StatusReaders |-> at[r]] /\ which = [r \in StatusReaders |-> which[r]]
    /\ got = [r \in StatusReaders |-> got[r]] /\ began = [r \in StatusReaders |-> began[r]]
    /\ \A r \in StatusReaders : GivenIsDated(at[r], which[r], got[r], began[r], instant, newest)

StatusInv ==
    /\ instant \in Nat /\ newest \in 0 .. instant
    /\ CachesAreDated /\ GivenAreDated /\ StatusIsJustified

LEMMA StatusConstants ==
    /\ HealthTtl \in Nat \ {0} /\ LatestTtl \in Nat \ {0} /\ FetchMax \in Nat
    /\ HealthyWithin \in Nat /\ StallAfter \in Nat /\ HealthyWithin <= StallAfter
    /\ "health" \in Caches /\ "latest" \in Caches /\ Unsaid("latest") = -1
    /\ \A c \in Caches : c = "health" \/ c = "latest"
BY StatusViewAssumption DEF Caches, Unsaid

\* One request moves, while the time and the newest event stay.
LEMMA RequestMoves ==
    ASSUME NEW r \in StatusReaders, NEW a, NEW w, NEW g, NEW b, GivenAreDated,
           at' = [at EXCEPT ![r] = a], which' = [which EXCEPT ![r] = w],
           got' = [got EXCEPT ![r] = g], began' = [began EXCEPT ![r] = b],
           UNCHANGED <<instant, newest>>, GivenIsDated(a, w, g, b, instant, newest)
    PROVE  GivenAreDated'
<1>1. \A x \in StatusReaders :
          /\ at'[x] = IF x = r THEN a ELSE at[x]
          /\ which'[x] = IF x = r THEN w ELSE which[x]
          /\ got'[x] = IF x = r THEN g ELSE got[x]
          /\ began'[x] = IF x = r THEN b ELSE began[x]
    BY DEF GivenAreDated
<1>2. /\ at' = [x \in StatusReaders |-> at'[x]] /\ which' = [x \in StatusReaders |-> which'[x]]
      /\ got' = [x \in StatusReaders |-> got'[x]] /\ began' = [x \in StatusReaders |-> began'[x]]
    BY DEF GivenAreDated
<1>3. ASSUME NEW x \in StatusReaders
      PROVE  GivenIsDated(at'[x], which'[x], got'[x], began'[x], instant', newest')
    <2>1. CASE x = r
        BY <1>1, <2>1
    <2>2. CASE x # r
        BY <1>1, <2>2 DEF GivenAreDated
    <2> QED  BY <2>1, <2>2
<1> QED
    BY <1>2, <1>3 DEF GivenAreDated

\* What is given of the one cache leaves what was given of the other.
LEMMA GivenFields ==
    ASSUME NEW g, NEW h, NEW c \in Caches, NEW v, NEW s, NEW beside, g = [d \in Caches |-> g[d]],
           h = [g EXCEPT ![c] = Given(v, s, beside)]
    PROVE  /\ h = [d \in Caches |-> h[d]]
           /\ h[c].value = v /\ h[c].sampled = s /\ h[c].beside = beside
           /\ \A d \in Caches : d # c => h[d] = g[d]
<1>1. h[c] = Given(v, s, beside)
    OBVIOUS
<1>2. h[c].value = v /\ h[c].sampled = s /\ h[c].beside = beside
    BY <1>1 DEF Given
<1>3. h = [d \in Caches |-> h[d]] /\ \A d \in Caches : d # c => h[d] = g[d]
    OBVIOUS
<1> QED
    BY <1>2, <1>3

LEMMA LookUpStep ==
    ASSUME NEW r \in StatusReaders, StatusInv, LookUpCache(r)
    PROVE  GivenAreDated' /\ CachesAreDated'
<1> DEFINE c == which[r]
           g == got[r]
<1>0. /\ GivenIsDated("ask", c, g, began[r], instant, newest) /\ at[r] = "ask" /\ c \in Caches
      /\ g = [d \in Caches |-> g[d]] /\ g["latest"].value \in {-1} \cup 0 .. newest
      /\ \A d \in Caches : g[d].sampled \in 0 .. instant
      /\ instant \in Nat /\ newest \in 0 .. instant /\ began[r] \in 0 .. instant
      /\ UNCHANGED <<instant, newest, cache>>
      /\ c = "latest" /\ ~g["health"].beside => instant - g["health"].sampled < HealthTtl + FetchMax
    <2>1. at[r] = "ask" /\ UNCHANGED <<instant, newest, cache>>
        BY DEF LookUpCache, Serve, pipelineVars, statusCacheVars
    <2>2. GivenIsDated("ask", c, g, began[r], instant, newest)
        BY <2>1 DEF StatusInv, GivenAreDated
    <2> QED  BY <2>1, <2>2 DEF StatusInv, GivenIsDated
<1>a. CachesAreDated'
    BY <1>0 DEF StatusInv, CachesAreDated
<1>b. /\ at = [x \in StatusReaders |-> at[x]] /\ which = [x \in StatusReaders |-> which[x]]
      /\ got = [x \in StatusReaders |-> got[x]] /\ began = [x \in StatusReaders |-> began[x]]
    BY DEF StatusInv, GivenAreDated
\* An answer of the cache, or of nothing beside another's fetch
<1>1. ASSUME NEW v, NEW s, NEW beside, s \in 0 .. instant,
             got' = [got EXCEPT ![r][c] = Given(v, s, beside)], Turn(r, c), UNCHANGED began,
             c = "latest" => v \in {-1} \cup 0 .. newest,
             ~beside => instant - s < TtlOf(c) + FetchMax
      PROVE  GivenAreDated'
    <2> DEFINE h == [g EXCEPT ![c] = Given(v, s, beside)]
               a == IF c = "health" THEN "ask" ELSE "answer"
    <2>1. /\ at' = [at EXCEPT ![r] = a] /\ which' = [which EXCEPT ![r] = "latest"]
          /\ got' = [got EXCEPT ![r] = h] /\ began' = [began EXCEPT ![r] = began[r]]
        BY <1>1, <1>b DEF Turn
    <2>2. /\ h = [d \in Caches |-> h[d]]
          /\ h[c].value = v /\ h[c].sampled = s /\ h[c].beside = beside
          /\ \A d \in Caches : d # c => h[d] = g[d]
        BY <1>0, GivenFields
    <2> HIDE DEF h, a, c, g
    <2>3. ASSUME c = "health" PROVE GivenIsDated(a, "latest", h, began[r], instant, newest)
        <3>1. a = "ask" /\ TtlOf(c) = HealthTtl
            BY <2>3 DEF a, TtlOf
        <3>2. h["latest"].value \in {-1} \cup 0 .. newest /\ \A d \in Caches : h[d].sampled \in 0 .. instant
            BY <2>2, <2>3, <1>0, <1>1, StatusConstants
        <3>3. ~h["health"].beside => instant - h["health"].sampled < HealthTtl + FetchMax
            BY <2>2, <2>3, <1>1, <3>1
        <3> QED  BY <3>1, <3>2, <3>3, <2>2, <1>0, StatusConstants DEF GivenIsDated
    <2>4. ASSUME c = "latest" PROVE GivenIsDated(a, "latest", h, began[r], instant, newest)
        <3>1. a = "answer" /\ TtlOf(c) = LatestTtl
            BY <2>4 DEF a, TtlOf
        <3>2. h["latest"].value \in {-1} \cup 0 .. newest /\ \A d \in Caches : h[d].sampled \in 0 .. instant
            BY <2>2, <2>4, <1>0, <1>1, StatusConstants
        <3>3. ~h["latest"].beside => instant - h["latest"].sampled <= LatestTtl + FetchMax
            BY <2>2, <2>4, <1>0, <1>1, <3>1, StatusConstants
        <3>4. ~h["health"].beside => instant - h["health"].sampled < HealthTtl + 2 * FetchMax
            BY <2>2, <2>4, <1>0, StatusConstants
        <3> QED  BY <3>1, <3>2, <3>3, <3>4, <2>2, <1>0, StatusConstants DEF GivenIsDated
    <2>5. GivenIsDated(a, "latest", h, began[r], instant, newest)
        BY <2>3, <2>4, <1>0, StatusConstants
    <2> QED  BY <2>1, <2>5, <1>0, RequestMoves DEF StatusInv
<1>2. ASSUME StillFresh(c), Serve(r, c), Turn(r, c), UNCHANGED <<fetching, began>> PROVE GivenAreDated'
    <2>1. PICK v, s : v = cache[c].value /\ s = cache[c].sampled
        OBVIOUS
    <2>2. got' = [got EXCEPT ![r][c] = Given(v, s, FALSE)]
        BY <1>2, <2>1 DEF Serve
    <2>3. /\ cache[c] # Nobody /\ instant - cache[c].at < TtlOf(c)
        BY <1>2 DEF StillFresh
    <2>4. /\ cache[c].at \in 0 .. instant /\ s \in 0 .. cache[c].at /\ cache[c].at - s <= FetchMax
          /\ c = "latest" => v \in 0 .. newest
        BY <2>1, <2>3, <1>0 DEF StatusInv, CachesAreDated
    <2>5. TtlOf(c) \in Nat
        BY <1>0, StatusConstants DEF TtlOf
    <2>6. s \in 0 .. instant /\ instant - s < TtlOf(c) + FetchMax
        BY <2>3, <2>4, <2>5, <1>0, StatusConstants
    <2>7. c = "latest" => v \in {-1} \cup 0 .. newest
        BY <2>4
    <2>8. PICK beside : beside = FALSE
        OBVIOUS
    <2>9. got' = [got EXCEPT ![r][c] = Given(v, s, beside)]
        BY <2>2, <2>8
    <2> QED  BY <1>2, <2>6, <2>7, <2>9, <1>1
<1>3. ASSUME Turn(r, c), UNCHANGED <<statusCacheVars, began>>,
             got' = [got EXCEPT ![r][c] = IF cache[c] = Nobody THEN Given(Unsaid(c), instant, TRUE)
                                          ELSE Given(cache[c].value, cache[c].sampled, TRUE)]
      PROVE  GivenAreDated'
    <2>1. CASE cache[c] = Nobody
        <3>1. PICK v, s, beside : v = Unsaid(c) /\ s = instant /\ beside = TRUE
            OBVIOUS
        <3>2. got' = [got EXCEPT ![r][c] = Given(v, s, beside)]
            BY <1>3, <2>1, <3>1
        <3>3. s \in 0 .. instant /\ (c = "latest" => v \in {-1} \cup 0 .. newest)
            BY <3>1, <1>0, StatusConstants
        <3> QED  BY <1>3, <3>1, <3>2, <3>3, <1>1
    <2>2. CASE cache[c] # Nobody
        <3>1. PICK v, s : v = cache[c].value /\ s = cache[c].sampled
            OBVIOUS
        <3>2. got' = [got EXCEPT ![r][c] = Given(v, s, TRUE)]
            BY <1>3, <2>2, <3>1
        <3>3. s \in 0 .. instant /\ (c = "latest" => v \in {-1} \cup 0 .. newest)
            BY <2>2, <3>1, <1>0 DEF StatusInv, CachesAreDated
        <3> QED  BY <1>3, <3>2, <3>3, <1>1
    <2> QED  BY <2>1, <2>2
<1>4. ASSUME at' = [at EXCEPT ![r] = "fetch"], began' = [began EXCEPT ![r] = instant],
             UNCHANGED <<cache, which, got>>
      PROVE  GivenAreDated'
    <2>1. which' = [which EXCEPT ![r] = c] /\ got' = [got EXCEPT ![r] = g]
        BY <1>4, <1>b
    <2>2. GivenIsDated("fetch", c, g, instant, instant, newest)
        BY <1>0, StatusConstants DEF GivenIsDated
    <2> QED  BY <1>4, <2>1, <2>2, <1>0, RequestMoves DEF StatusInv
<1>5. GivenAreDated'
    BY <1>2, <1>3, <1>4 DEF LookUpCache
<1> QED
    BY <1>5, <1>a

LEMMA FetchStep ==
    ASSUME NEW r \in StatusReaders, StatusInv, Fetch(r)
    PROVE  GivenAreDated'
<1> DEFINE c == which[r]
           g == got[r]
           b == began[r]
<1>0. /\ GivenIsDated("fetch", c, g, b, instant, newest) /\ c \in Caches
      /\ g = [d \in Caches |-> g[d]] /\ instant \in Nat /\ newest \in 0 .. instant
      /\ UNCHANGED <<instant, newest, which, began>> /\ at' = [at EXCEPT ![r] = "keep"]
      /\ got' = [got EXCEPT ![r][c] = Given(Fetched(c), instant, FALSE)]
    <2>1. at[r] = "fetch" /\ UNCHANGED <<instant, newest, which, began>> /\ at' = [at EXCEPT ![r] = "keep"]
          /\ got' = [got EXCEPT ![r][c] = Given(Fetched(c), instant, FALSE)]
        BY DEF Fetch, pipelineVars
    <2>2. GivenIsDated("fetch", c, g, b, instant, newest)
        BY <2>1 DEF StatusInv, GivenAreDated
    <2> QED  BY <2>1, <2>2 DEF StatusInv, GivenIsDated
<1> DEFINE h == [g EXCEPT ![c] = Given(Fetched(c), instant, FALSE)]
<1>1. /\ h = [d \in Caches |-> h[d]]
      /\ h[c].value = Fetched(c) /\ h[c].sampled = instant /\ h[c].beside = FALSE
      /\ \A d \in Caches : d # c => h[d] = g[d]
    <2>1. PICK v, s, beside : v = Fetched(c) /\ s = instant /\ beside = FALSE
        OBVIOUS
    <2>2. h = [g EXCEPT ![c] = Given(v, s, beside)] /\ c \in Caches /\ g = [d \in Caches |-> g[d]]
        BY <2>1, <1>0
    <2> HIDE DEF h, g, c
    <2> QED  BY <2>1, <2>2, GivenFields
<1>2. /\ which' = [which EXCEPT ![r] = c] /\ began' = [began EXCEPT ![r] = b]
      /\ got' = [got EXCEPT ![r] = h]
    BY <1>0 DEF StatusInv, GivenAreDated
<1>3. c = "latest" => Fetched(c) = newest
    BY DEF Fetched
<1> HIDE DEF h, c, g, b
<1>4. /\ b \in 0 .. instant /\ instant - b <= FetchMax
      /\ g["latest"].value \in {-1} \cup 0 .. newest
      /\ \A d \in Caches : g[d].sampled \in 0 .. instant
      /\ c = "latest" /\ ~g["health"].beside => b - g["health"].sampled < HealthTtl + FetchMax
    BY <1>0 DEF GivenIsDated
<1>5. /\ h["latest"].value \in {-1} \cup 0 .. newest /\ \A d \in Caches : h[d].sampled \in 0 .. instant
      /\ c = "latest" => h[c].value \in 0 .. newest /\ h["health"] = g["health"]
    BY <1>0, <1>1, <1>3, <1>4, StatusConstants
<1>6. GivenIsDated("keep", c, h, b, instant, newest)
    BY <1>0, <1>1, <1>4, <1>5, StatusConstants DEF GivenIsDated
<1>7. PICK a : a = "keep"
    OBVIOUS
<1>8. /\ GivenAreDated /\ UNCHANGED <<instant, newest>>
      /\ at' = [at EXCEPT ![r] = a] /\ which' = [which EXCEPT ![r] = c]
      /\ got' = [got EXCEPT ![r] = h] /\ began' = [began EXCEPT ![r] = b]
      /\ GivenIsDated(a, c, h, b, instant, newest)
    BY <1>0, <1>2, <1>6, <1>7 DEF StatusInv
<1> QED
    BY <1>8, RequestMoves

LEMMA KeepStep ==
    ASSUME NEW r \in StatusReaders, StatusInv, KeepFetched(r)
    PROVE  GivenAreDated' /\ CachesAreDated'
<1> DEFINE c == which[r]
           g == got[r]
           b == began[r]
<1>0. /\ GivenIsDated("keep", c, g, b, instant, newest) /\ c \in Caches
      /\ instant \in Nat /\ newest \in 0 .. instant
      /\ UNCHANGED <<instant, newest, got, began>> /\ Turn(r, c)
      /\ cache' = [cache EXCEPT ![c] = [value |-> g[c].value, at |-> instant, sampled |-> g[c].sampled]]
    <2>1. at[r] = "keep" /\ UNCHANGED <<instant, newest, got, began>> /\ Turn(r, c)
          /\ cache' = [cache EXCEPT ![c] = [value |-> g[c].value, at |-> instant, sampled |-> g[c].sampled]]
        BY DEF KeepFetched, pipelineVars
    <2>2. GivenIsDated("keep", c, g, b, instant, newest)
        BY <2>1 DEF StatusInv, GivenAreDated
    <2> QED  BY <2>1, <2>2 DEF StatusInv, GivenIsDated
<1>1. /\ b \in 0 .. instant /\ instant - b <= FetchMax /\ g[c].sampled \in b .. instant
      /\ c = "latest" => g[c].value \in 0 .. newest
    BY <1>0 DEF GivenIsDated
<1>2. CachesAreDated'
    <2>1. cache'[c] = [value |-> g[c].value, at |-> instant, sampled |-> g[c].sampled]
          /\ \A d \in Caches : d # c => cache'[d] = cache[d]
        BY <1>0 DEF StatusInv, CachesAreDated
    <2>2. cache'[c].value = g[c].value /\ cache'[c].at = instant /\ cache'[c].sampled = g[c].sampled
        BY <2>1
    <2>3. cache' = [d \in Caches |-> cache'[d]]
        BY <1>0 DEF StatusInv, CachesAreDated
    <2>4. g[c].sampled \in 0 .. instant /\ instant - g[c].sampled <= FetchMax
        BY <1>0, <1>1, StatusConstants
    <2>5. ASSUME NEW d \in Caches, cache'[d] # Nobody
          PROVE  /\ cache'[d].at \in 0 .. instant /\ cache'[d].sampled \in 0 .. cache'[d].at
                 /\ cache'[d].at - cache'[d].sampled <= FetchMax
        <3>1. CASE d = c
            BY <2>2, <2>4, <3>1, <1>0
        <3>2. CASE d # c
            BY <2>1, <2>5, <3>2 DEF StatusInv, CachesAreDated
        <3> QED  BY <3>1, <3>2
    <2>6. cache'["latest"] # Nobody => cache'["latest"].value \in 0 .. newest
        BY <2>1, <2>2, <1>1, StatusConstants DEF StatusInv, CachesAreDated
    <2> QED  BY <2>3, <2>5, <2>6, <1>0 DEF CachesAreDated
<1> DEFINE a == IF c = "health" THEN "ask" ELSE "answer"
<1>3. /\ at' = [at EXCEPT ![r] = a] /\ which' = [which EXCEPT ![r] = "latest"]
      /\ got' = [got EXCEPT ![r] = g] /\ began' = [began EXCEPT ![r] = b]
    BY <1>0 DEF Turn, StatusInv, GivenAreDated
<1>4. (c = "health" => a = "ask") /\ (c = "latest" => a = "answer")
    OBVIOUS
<1> HIDE DEF c, g, b, a
<1>5. ASSUME c = "health" PROVE GivenIsDated(a, "latest", g, b, instant, newest)
    <2>1. instant - g["health"].sampled < HealthTtl + FetchMax
        BY <1>0, <1>1, <1>5, StatusConstants
    <2> QED  BY <2>1, <1>0, <1>1, <1>4, <1>5, StatusConstants DEF GivenIsDated
<1>6. ASSUME c = "latest" PROVE GivenIsDated(a, "latest", g, b, instant, newest)
    <2>1. instant - g["latest"].sampled <= LatestTtl + FetchMax
        BY <1>0, <1>1, <1>6, StatusConstants
    <2>2. ~g["health"].beside => instant - g["health"].sampled < HealthTtl + 2 * FetchMax
        <3>1. ~g["health"].beside => b - g["health"].sampled < HealthTtl + FetchMax
            BY <1>0, <1>6 DEF GivenIsDated
        <3>2. g["health"].sampled \in 0 .. instant
            BY <1>0, StatusConstants DEF GivenIsDated
        <3> QED  BY <3>1, <3>2, <1>0, <1>1, StatusConstants
    <2> QED  BY <2>1, <2>2, <1>0, <1>1, <1>4, <1>6, StatusConstants DEF GivenIsDated
<1>7. GivenIsDated(a, "latest", g, b, instant, newest)
    BY <1>0, <1>5, <1>6, StatusConstants
<1> QED
    BY <1>0, <1>2, <1>3, <1>7, RequestMoves DEF StatusInv

\* An answer is given, and the request begins anew with nothing.
LEMMA AnswerStep ==
    ASSUME NEW r \in StatusReaders, StatusInv, AnswerStatus(r)
    PROVE  GivenAreDated' /\ StatusIsJustified'
<1> DEFINE g == got[r]
           none == [d \in Caches |-> Given(Unsaid(d), 0, FALSE)]
           said == g["health"]
           latest == g["latest"]
           behind == instant - latest.value
<1>0. /\ GivenIsDated("answer", which[r], g, began[r], instant, newest)
      /\ instant \in Nat /\ newest \in 0 .. instant
      /\ UNCHANGED <<instant, newest, which>> /\ at' = [at EXCEPT ![r] = "idle"]
      /\ got' = [got EXCEPT ![r] = none] /\ began' = [began EXCEPT ![r] = 0]
    <2>1. /\ at[r] = "answer" /\ UNCHANGED <<instant, newest, which>> /\ at' = [at EXCEPT ![r] = "idle"]
          /\ got' = [got EXCEPT ![r] = none] /\ began' = [began EXCEPT ![r] = 0]
        BY DEF AnswerStatus, pipelineVars
    <2>2. GivenIsDated("answer", which[r], g, began[r], instant, newest)
        BY <2>1 DEF StatusInv, GivenAreDated
    <2> QED  BY <2>1, <2>2 DEF StatusInv
<1>1. /\ shown'.status = IF ~said.value.ok THEN "unknown"
                         ELSE IF ~ (latest.value # -1) THEN "stalled" ELSE Classified(behind, said.value.lag)
      /\ shown'.behind = instant - newest
      /\ shown'.was = latest.sampled - latest.value
      /\ shown'.age = instant - said.sampled
    BY DEF AnswerStatus, Behind, Unsaid
<1>2. /\ shown'.replay => latest.value # -1 /\ behind > StallAfter
      /\ ~shown'.beside => ~said.beside /\ ~latest.beside
    BY Zenon DEF AnswerStatus, Behind, Unsaid
<1>3. GivenAreDated'
    <2>1. which' = [which EXCEPT ![r] = which[r]]
        BY <1>0 DEF StatusInv, GivenAreDated
    <2>2. /\ none = [d \in Caches |-> none[d]]
          /\ \A d \in Caches : none[d].sampled = 0
          /\ none["latest"].value = -1
        BY StatusConstants DEF Given
    <2>3. which[r] \in Caches
        BY <1>0 DEF GivenIsDated
    <2> HIDE DEF none
    <2>4. PICK a, b : a = "idle" /\ b = 0
        OBVIOUS
    <2>5. GivenIsDated(a, which[r], none, b, instant, newest)
        BY <2>2, <2>3, <2>4, <1>0 DEF GivenIsDated
    <2>6. /\ GivenAreDated /\ UNCHANGED <<instant, newest>>
          /\ at' = [at EXCEPT ![r] = a] /\ which' = [which EXCEPT ![r] = which[r]]
          /\ got' = [got EXCEPT ![r] = none] /\ began' = [began EXCEPT ![r] = b]
        BY <1>0, <2>1, <2>4 DEF StatusInv
    <2> QED  BY <2>5, <2>6, RequestMoves
<1>4. /\ latest.value \in {-1} \cup 0 .. newest /\ latest.sampled \in 0 .. instant
      /\ said.sampled \in 0 .. instant
      /\ ~said.beside => instant - said.sampled < HealthTtl + 2 * FetchMax
      /\ ~latest.beside => instant - latest.sampled <= LatestTtl + FetchMax
    BY <1>0, StatusConstants DEF GivenIsDated
<1> HIDE DEF said, latest
<1>5. shown'.status = "healthy" => shown'.behind < HealthyWithin
    <2>1. shown'.status = "healthy" => latest.value # -1 /\ behind < HealthyWithin
        BY <1>1 DEF Classified
    <2> QED  BY <2>1, <1>0, <1>1, <1>4, StatusConstants
<1>6. ~shown'.beside => shown'.age < HealthTtl + 2 * FetchMax
    BY <1>1, <1>2, <1>4
<1>7. shown'.replay /\ ~shown'.beside => shown'.was > StallAfter - (LatestTtl + FetchMax)
    BY <1>0, <1>1, <1>2, <1>4, StatusConstants
<1> QED
    BY <1>3, <1>5, <1>6, <1>7 DEF StatusIsJustified

LEMMA StatusStep == StatusInv /\ [StatusNext]_statusViewVars => StatusInv'
<1> SUFFICES ASSUME StatusInv, [StatusNext]_statusViewVars PROVE StatusInv'
    OBVIOUS
<1>0. instant \in Nat /\ newest \in 0 .. instant
    BY DEF StatusInv
<1>a. /\ UNCHANGED <<instant, newest, cache>> => CachesAreDated'
      /\ UNCHANGED shown => StatusIsJustified'
    BY DEF StatusInv, CachesAreDated, StatusIsJustified
<1>1. CASE UNCHANGED statusViewVars
    BY <1>1, <1>a DEF statusViewVars, pipelineVars, statusCacheVars, requestVars, StatusInv, GivenAreDated
<1>2. CASE ForwarderChanges
    BY <1>2, <1>a DEF ForwarderChanges, statusCacheVars, requestVars, StatusInv, GivenAreDated
<1>3. CASE NewerEvent
    <2>1. /\ newest' = instant /\ newest < instant
          /\ UNCHANGED <<instant, cache, at, which, got, began, shown>>
        BY <1>3 DEF NewerEvent, statusCacheVars, requestVars
    <2>2. CachesAreDated'
        BY <2>1, <1>0 DEF StatusInv, CachesAreDated
    <2>3. ASSUME NEW a, NEW w, NEW g, NEW b, GivenIsDated(a, w, g, b, instant, newest)
          PROVE  GivenIsDated(a, w, g, b, instant, instant)
        BY <2>1, <2>3, <1>0 DEF GivenIsDated
    <2>4. GivenAreDated'
        BY <2>1, <2>3 DEF StatusInv, GivenAreDated
    <2> QED  BY <2>1, <2>2, <2>4, <1>0, <1>a DEF StatusInv
<1>4. CASE InstantPasses
    <2>1. /\ instant' = instant + 1 /\ \A r \in StatusReaders : at[r] # "idle" => InTime(r)
          /\ UNCHANGED <<newest, cache, at, which, got, began, shown>>
        BY <1>4 DEF InstantPasses, pipelineVars, statusCacheVars, requestVars
    <2>2. CachesAreDated'
        BY <2>1, <1>0 DEF StatusInv, CachesAreDated
    <2>3. ASSUME NEW r \in StatusReaders
          PROVE  GivenIsDated(at'[r], which'[r], got'[r], began'[r], instant', newest')
        <3>1. GivenIsDated(at[r], which[r], got[r], began[r], instant, newest)
            BY DEF StatusInv, GivenAreDated
        <3>2. /\ at[r] \in {"fetch", "keep"} => instant - began[r] < FetchMax
              /\ at[r] \notin {"ask", "answer"}
            BY <2>1 DEF InTime
        <3>3. GivenIsDated(at[r], which[r], got[r], began[r], instant + 1, newest)
            BY <3>1, <3>2, <1>0, StatusConstants DEF GivenIsDated
        <3> QED  BY <2>1, <3>3
    <2>4. GivenAreDated'
        BY <2>1, <2>3 DEF StatusInv, GivenAreDated
    <2> QED  BY <2>1, <2>2, <2>4, <1>0, <1>a DEF StatusInv
<1>5. ASSUME NEW r \in StatusReaders, AskStatus(r) PROVE StatusInv'
    <2>1. /\ at[r] = "idle" /\ at' = [at EXCEPT ![r] = "ask"] /\ which' = [which EXCEPT ![r] = "health"]
          /\ shown' = NoStatus /\ UNCHANGED <<instant, newest, cache, got, began>>
        BY <1>5 DEF AskStatus, pipelineVars, statusCacheVars
    <2>2. GivenIsDated("ask", "health", got[r], began[r], instant, newest)
        <3>1. GivenIsDated(at[r], which[r], got[r], began[r], instant, newest)
            BY DEF StatusInv, GivenAreDated
        <3> QED  BY <3>1, <2>1, StatusConstants DEF GivenIsDated
    <2>3. PICK a, w, g, b : a = "ask" /\ w = "health" /\ g = got[r] /\ b = began[r]
        OBVIOUS
    <2>4. /\ GivenAreDated /\ UNCHANGED <<instant, newest>>
          /\ at' = [at EXCEPT ![r] = a] /\ which' = [which EXCEPT ![r] = w]
          /\ got' = [got EXCEPT ![r] = g] /\ began' = [began EXCEPT ![r] = b]
          /\ GivenIsDated(a, w, g, b, instant, newest)
        BY <2>1, <2>2, <2>3 DEF StatusInv, GivenAreDated
    <2>5. GivenAreDated'
        BY <2>4, RequestMoves
    <2>6. StatusIsJustified'
        BY <2>1, StatusConstants DEF StatusIsJustified, NoStatus
    <2> QED  BY <2>1, <2>5, <2>6, <1>0, <1>a DEF StatusInv
<1>6. ASSUME NEW r \in StatusReaders, LookUpCache(r) PROVE StatusInv'
    BY <1>6, <1>0, <1>a, LookUpStep DEF LookUpCache, pipelineVars, StatusInv
<1>7. ASSUME NEW r \in StatusReaders, Fetch(r) PROVE StatusInv'
    BY <1>7, <1>0, <1>a, FetchStep DEF Fetch, pipelineVars, StatusInv
<1>8. ASSUME NEW r \in StatusReaders, KeepFetched(r) PROVE StatusInv'
    BY <1>8, <1>0, <1>a, KeepStep DEF KeepFetched, pipelineVars, StatusInv
<1>9. ASSUME NEW r \in StatusReaders, AnswerStatus(r) PROVE StatusInv'
    BY <1>9, <1>0, <1>a, AnswerStep DEF AnswerStatus, pipelineVars, statusCacheVars, StatusInv
<1> QED
    BY <1>1, <1>2, <1>3, <1>4, <1>5, <1>6, <1>7, <1>8, <1>9 DEF StatusNext

LEMMA StatusStarts == StatusInit => StatusInv
<1> SUFFICES ASSUME StatusInit PROVE StatusInv
    OBVIOUS
<1>1. CachesAreDated
    BY StatusConstants DEF StatusInit, CachesAreDated
<1>2. StatusIsJustified
    BY StatusConstants DEF StatusInit, StatusIsJustified, NoStatus
<1>3. ASSUME NEW r \in StatusReaders
      PROVE  GivenIsDated(at[r], which[r], got[r], began[r], instant, newest)
    <2>1. /\ at[r] = "idle" /\ which[r] = "health" /\ began[r] = 0 /\ instant = 0 /\ newest = 0
          /\ got[r] = [c \in Caches |-> Given(Unsaid(c), 0, FALSE)]
        BY DEF StatusInit
    <2>2. /\ got[r] = [c \in Caches |-> got[r][c]]
          /\ \A d \in Caches : got[r][d].sampled = 0
          /\ got[r]["latest"].value = -1
        BY <2>1, StatusConstants DEF Given
    <2>3. PICK a, w, g : a = "idle" /\ w = "health" /\ g = got[r]
        OBVIOUS
    <2>4. GivenIsDated(a, w, g, 0, 0, 0)
        <3>1. /\ a = "idle" /\ w = "health" /\ g = [c \in Caches |-> g[c]]
              /\ \A d \in Caches : g[d].sampled = 0
              /\ g["latest"].value = -1
            BY <2>2, <2>3
        <3>2. 0 - 0 <= FetchMax /\ 0 \in 0 .. 0
            BY StatusConstants
        <3>3. /\ a \notin {"ask", "fetch", "keep", "answer"} /\ w # "latest"
            BY <3>1
        <3> QED  BY <3>1, <3>2, <3>3, StatusConstants DEF GivenIsDated
    <2> QED  BY <2>1, <2>3, <2>4
<1>4. GivenAreDated
    BY <1>3 DEF StatusInit, GivenAreDated
<1> QED  BY <1>1, <1>2, <1>4 DEF StatusInit, StatusInv

\* "healthy" is never said of a database that is behind, whatever the two caches of the status
\* hold; an answer not given beside another's fetch is as recent as the caches and the fetches
\* promise, and recommends a replay only of what was behind (system_service.py).
THEOREM StatusStaysJustified == StatusSpec => []StatusIsJustified
<1>1. StatusInit => StatusInv
    BY StatusStarts
<1>2. StatusInv => StatusIsJustified
    BY DEF StatusInv
<1> QED
    BY <1>1, <1>2, StatusStep, PTL DEF StatusSpec

-----------------------------------------------------------------------------
(* The names of actors *)

\* How old the enricher's maps may be at most when their next refresh is due.
Staleness(failed) == RefreshEvery * (1 + failed)

\* A name was the principal's at most that long before a moment.
NameHeld(p, n, time, true, failed) ==
    n \in IamNames => time - true[p][n] <= Staleness(failed)

\* The sources: each principal has its present name, which it has now, and no mapping is such a name.
SourcesAreSound ==
    /\ iamName = [p \in Principals |-> iamName[p]] /\ mapping = [p \in Principals |-> mapping[p]]
    /\ lastTrue = [p \in Principals |-> lastTrue[p]]
    /\ renamings \in 0 .. MaxRenamings /\ lastEdit \in 0 .. clock
    /\ \A p \in Principals :
           /\ iamName[p] \in IamNames /\ mapping[p] \notin IamNames
           /\ lastTrue[p] \in [IamNames -> 0 .. clock] /\ lastTrue[p][iamName[p]] = clock

\* What the enricher holds was true RefreshEvery, or a failed refresh or more, before it is due.
EnricherIsRecent ==
    /\ maps = [p \in Principals |-> maps[p]]
    /\ identityCache = [p \in Principals |-> identityCache[p]]
    /\ refreshDue \in Nat /\ clock \in Nat /\ clock <= refreshDue /\ clock <= LastTime
    /\ failedRefreshes \in Nat
    /\ \A p \in Principals :
           /\ NameHeld(p, maps[p], refreshDue, lastTrue, failedRefreshes)
           /\ NameHeld(p, identityCache[p].name, refreshDue, lastTrue, failedRefreshes)
           /\ ~loaded => maps[p] \notin IamNames /\ identityCache[p].name \notin IamNames
           /\ fetchedMaps # Idle /\ fetchedMaps.names[p] \in IamNames =>
                  lastTrue[p][fetchedMaps.names[p]] = clock
    /\ fetchedMaps # Idle =>
           fetchedMaps.names = [p \in Principals |-> fetchedMaps.names[p]]

\* A name found after the last edit is the mapping's, where there is one.
Heeds(p, n, time, edit, closed, mapped) ==
    closed /\ mapped[p] # Raw /\ time > edit => n = mapped[p]

EntryIsSound(p, e, now, true, failed, edit, closed, mapped) ==
    \/ e = NoEntry
    \/ /\ e.at \in 0 .. now
       /\ NameHeld(p, e.name, e.at, true, failed)
       /\ e.by = "prefetch" \/ Heeds(p, e.name, e.at, edit, closed, mapped)

LookupIsSound(l, now, true, failed, edit, closed, mapped) ==
    \/ l = Idle
    \/ /\ l.of \in Principals
       /\ NameHeld(l.of, l.name, now, true, failed)
       /\ Heeds(l.of, l.name, now, edit, closed, mapped)

CacheIsSound ==
    /\ actorCache = [p \in Principals |-> actorCache[p]]
    /\ \A p \in Principals :
           EntryIsSound(p, actorCache[p], clock, lastTrue, failedRefreshes, lastEdit, written, mapping)

LookupsAreSound ==
    /\ lookup = [t \in Lookups |-> lookup[t]]
    /\ \A t \in Lookups :
           LookupIsSound(lookup[t], clock, lastTrue, failedRefreshes, lastEdit, written, mapping)

PrefetchIsRecent ==
    prefetched # Idle =>
        /\ prefetched.at = clock
        /\ \A p \in Principals :
               prefetched.names[p] \in IamNames => lastTrue[p][prefetched.names[p]] = clock

NamesInv ==
    /\ SourcesAreSound /\ EnricherIsRecent /\ CacheIsSound /\ LookupsAreSound /\ PrefetchIsRecent

LEMMA NamesConstants ==
    /\ ActorTtl \in Nat \ {0} /\ IdentityTtl \in Nat \ {0} /\ RefreshEvery \in Nat \ {0}
    /\ LastTime \in Nat /\ MaxRenamings \in Nat /\ MaxEdits \in Nat
BY ActorNamesAssumption

\* A failed refresh makes the maps a refresh interval older, and no more.
LEMMA StalenessGrows ==
    ASSUME NEW f \in Nat
    PROVE  /\ Staleness(f) \in Nat /\ Staleness(f + 1) = Staleness(f) + RefreshEvery
           /\ Staleness(f) >= RefreshEvery
<1>1. RefreshEvery \in Nat
    BY NamesConstants
<1>2. Staleness(f) = RefreshEvery + RefreshEvery * f
    BY <1>1 DEF Staleness
<1>3. RefreshEvery * f \in Nat
    BY <1>1
<1>4. Staleness(f + 1) = RefreshEvery + RefreshEvery * f + RefreshEvery
    BY <1>1 DEF Staleness
<1> QED
    BY <1>1, <1>2, <1>3, <1>4

LEMMA NamesDiffer ==
    /\ Raw \notin IamNames /\ \A n : <<"file", n>> \notin IamNames
    /\ \A n \in 0 .. MaxRenamings : <<"iam", n>> \in IamNames
    /\ <<"iam", 0>> \in IamNames /\ NoEntry.name = Raw
<1>1. 0 \in 0 .. MaxRenamings
    BY NamesConstants
<1> QED
    BY <1>1 DEF IamNames, Raw, NoEntry

\* Names stay known: what was a name's last time only moves on.
TrueMovesOn(true, later) ==
    \A p \in Principals : \A n \in IamNames :
        true[p][n] \in Nat /\ later[p][n] \in Nat /\ true[p][n] <= later[p][n]

\* What was held before a moment is held before an earlier one, and when failed grow.
LEMMA HeldLonger ==
    ASSUME NEW p \in Principals, NEW n, NEW m \in Nat,
           NEW f \in Nat, NEW g, g = f \/ g = f + 1, NEW true, NEW later, TrueMovesOn(true, later),
           NameHeld(p, n, m, true, f)
    PROVE  NameHeld(p, n, m, later, g)
<1> SUFFICES ASSUME n \in IamNames
             PROVE  m - later[p][n] <= Staleness(g)
    BY DEF NameHeld
<1>1. m - true[p][n] <= Staleness(f)
    BY DEF NameHeld
<1>2. Staleness(f) \in Nat /\ Staleness(g) \in Nat /\ Staleness(f) <= Staleness(g)
    BY StalenessGrows, NamesConstants
<1>3. PICK x, y : x = true[p][n] /\ y = later[p][n] /\ x \in Nat /\ y \in Nat /\ x <= y
    BY DEF TrueMovesOn
<1> QED
    BY <1>1, <1>2, <1>3

\* What follows the edits moves: nothing, or the file is open, or it was just written.
EditMoves(now, edit, closed, mapped, edit2, closed2, mapped2) ==
    \/ edit2 = edit /\ closed2 = closed /\ mapped2 = mapped
    \/ ~closed2
    \/ edit2 = now

LEMMA EntryStays ==
    ASSUME NEW p \in Principals, NEW e, NEW now \in Nat, NEW now2 \in Nat, now <= now2,
           NEW f \in Nat, NEW f2, f2 = f \/ f2 = f + 1, NEW true, NEW later, TrueMovesOn(true, later),
           NEW edit, NEW closed, NEW mapped, NEW edit2 \in Nat, NEW closed2, NEW mapped2,
           EditMoves(now, edit, closed, mapped, edit2, closed2, mapped2),
           EntryIsSound(p, e, now, true, f, edit, closed, mapped)
    PROVE  EntryIsSound(p, e, now2, later, f2, edit2, closed2, mapped2)
<1>1. CASE e = NoEntry
    BY <1>1 DEF EntryIsSound
<1>2. CASE e # NoEntry
    <2>1. /\ e.at \in 0 .. now /\ NameHeld(p, e.name, e.at, true, f)
          /\ e.by = "prefetch" \/ Heeds(p, e.name, e.at, edit, closed, mapped)
        BY <1>2 DEF EntryIsSound
    <2>2. e.at \in 0 .. now2 /\ e.at \in Nat
        BY <2>1
    <2>3. NameHeld(p, e.name, e.at, later, f2)
        <3>1. PICK n, m : n = e.name /\ m = e.at
            OBVIOUS
        <3>2. m \in Nat /\ NameHeld(p, n, m, true, f)
            BY <2>1, <2>2, <3>1
        <3>3. NameHeld(p, n, m, later, f2)
            BY <3>2, HeldLonger
        <3> QED  BY <3>1, <3>3
    <2>4. e.by = "prefetch" \/ Heeds(p, e.name, e.at, edit2, closed2, mapped2)
        <3>1. CASE edit2 = edit /\ closed2 = closed /\ mapped2 = mapped
            BY <2>1, <3>1
        <3>2. CASE ~closed2
            BY <3>2 DEF Heeds
        <3>3. CASE edit2 = now
            <4>1. ~(e.at > edit2)
                BY <2>1, <3>3
            <4> QED  BY <4>1 DEF Heeds
        <3> QED  BY <3>1, <3>2, <3>3 DEF EditMoves
    <2> QED  BY <2>2, <2>3, <2>4 DEF EntryIsSound
<1> QED
    BY <1>1, <1>2

LEMMA LookupStays ==
    ASSUME NEW l, NEW now \in Nat,
           NEW f \in Nat, NEW f2, f2 = f \/ f2 = f + 1, NEW true, NEW later, TrueMovesOn(true, later),
           NEW edit, NEW closed, NEW mapped, NEW edit2 \in Nat, NEW closed2, NEW mapped2,
           EditMoves(now, edit, closed, mapped, edit2, closed2, mapped2),
           LookupIsSound(l, now, true, f, edit, closed, mapped)
    PROVE  LookupIsSound(l, now, later, f2, edit2, closed2, mapped2)
<1>1. CASE l = Idle
    BY <1>1 DEF LookupIsSound
<1>2. CASE l # Idle
    <2>1. /\ l.of \in Principals /\ NameHeld(l.of, l.name, now, true, f)
          /\ Heeds(l.of, l.name, now, edit, closed, mapped)
        BY <1>2 DEF LookupIsSound
    <2>2. NameHeld(l.of, l.name, now, later, f2)
        <3>1. PICK p, n : n = l.name /\ p = l.of
            OBVIOUS
        <3>2. p \in Principals /\ NameHeld(p, n, now, true, f)
            BY <2>1, <3>1
        <3>3. NameHeld(p, n, now, later, f2)
            BY <3>2, HeldLonger
        <3> QED  BY <3>1, <3>3
    <2>3. Heeds(l.of, l.name, now, edit2, closed2, mapped2)
        <3>1. CASE edit2 = edit /\ closed2 = closed /\ mapped2 = mapped
            BY <2>1, <3>1
        <3>2. CASE ~closed2
            BY <3>2 DEF Heeds
        <3>3. CASE edit2 = now
            <4>1. ~(now > edit2)
                BY <3>3
            <4> QED  BY <4>1 DEF Heeds
        <3> QED  BY <3>1, <3>2, <3>3 DEF EditMoves
    <2> QED  BY <2>1, <2>2, <2>3 DEF LookupIsSound
<1> QED
    BY <1>1, <1>2

\* What the caches and lookups hold stays sound when they are left alone.
LEMMA CachesStay ==
    ASSUME NamesInv, clock' \in Nat, clock <= clock', lastEdit' \in Nat,
           failedRefreshes' = failedRefreshes \/ failedRefreshes' = failedRefreshes + 1,
           TrueMovesOn(lastTrue, lastTrue'),
           EditMoves(clock, lastEdit, written, mapping, lastEdit', written', mapping')
    PROVE  /\ actorCache' = actorCache => CacheIsSound'
           /\ lookup' = lookup /\ clock' = clock => LookupsAreSound'
<1>0. clock \in Nat /\ failedRefreshes \in Nat
    BY DEF NamesInv, EnricherIsRecent
<1>a. PICK now, later, f, edit, closed, mapped :
          /\ now = clock' /\ later = lastTrue' /\ f = failedRefreshes' /\ edit = lastEdit'
          /\ closed = written' /\ mapped = mapping'
    OBVIOUS
<1>b. /\ now \in Nat /\ clock <= now /\ (f = failedRefreshes \/ f = failedRefreshes + 1) /\ edit \in Nat
      /\ TrueMovesOn(lastTrue, later)
      /\ EditMoves(clock, lastEdit, written, mapping, edit, closed, mapped)
    BY <1>a
<1>1. ASSUME actorCache' = actorCache PROVE CacheIsSound'
    <2>1. ASSUME NEW p \in Principals
          PROVE  EntryIsSound(p, actorCache[p], now, later, f, edit, closed, mapped)
        <3>1. EntryIsSound(p, actorCache[p], clock, lastTrue, failedRefreshes, lastEdit, written, mapping)
            BY DEF NamesInv, CacheIsSound
        <3> QED  BY <1>b, <1>0, <3>1, EntryStays
    <2> QED  BY <1>1, <2>1, <1>a DEF NamesInv, CacheIsSound
<1>2. ASSUME lookup' = lookup, clock' = clock PROVE LookupsAreSound'
    <2>1. ASSUME NEW t \in Lookups
          PROVE  LookupIsSound(lookup[t], clock, later, f, edit, closed, mapped)
        <3>1. LookupIsSound(lookup[t], clock, lastTrue, failedRefreshes, lastEdit, written, mapping)
            BY DEF NamesInv, LookupsAreSound
        <3> QED  BY <1>b, <1>0, <3>1, LookupStays
    <2> QED  BY <1>2, <2>1, <1>a DEF NamesInv, LookupsAreSound
<1> QED
    BY <1>1, <1>2

\* Sources, time and edits stay in most steps.
LEMMA SourcesStay ==
    ASSUME NamesInv, UNCHANGED <<sourceVars, clock>>
    PROVE  /\ SourcesAreSound' /\ TrueMovesOn(lastTrue, lastTrue')
           /\ EditMoves(clock, lastEdit, written, mapping, lastEdit', written', mapping')
           /\ clock' \in Nat /\ clock <= clock' /\ lastEdit' \in Nat /\ lastTrue' = lastTrue
<1>1. SourcesAreSound'
    BY DEF NamesInv, SourcesAreSound, sourceVars
<1>2. TrueMovesOn(lastTrue, lastTrue')
    <2>1. ASSUME NEW p \in Principals, NEW n \in IamNames
          PROVE  lastTrue[p][n] \in Nat /\ lastTrue'[p][n] = lastTrue[p][n]
        <3>1. lastTrue[p] \in [IamNames -> 0 .. clock] /\ clock \in Nat
            BY DEF NamesInv, SourcesAreSound, EnricherIsRecent
        <3> QED  BY <3>1 DEF sourceVars
    <2> QED  BY <2>1 DEF TrueMovesOn
<1>3. EditMoves(clock, lastEdit, written, mapping, lastEdit', written', mapping')
    BY DEF EditMoves, sourceVars
<1> QED
    BY <1>1, <1>2, <1>3 DEF NamesInv, SourcesAreSound, EnricherIsRecent, sourceVars

\* What the enricher and a prefetch hold stays recent when they do nothing.
LEMMA EnricherStays ==
    ASSUME NamesInv, UNCHANGED clock, SourcesAreSound', TrueMovesOn(lastTrue, lastTrue')
    PROVE  /\ UNCHANGED enricherVars => EnricherIsRecent'
           /\ UNCHANGED prefetched => PrefetchIsRecent'
<1>0. /\ clock \in Nat /\ failedRefreshes \in Nat /\ refreshDue \in Nat
      /\ \A p \in Principals : \A n \in IamNames :
             lastTrue[p][n] = clock => lastTrue'[p][n] = clock
    <2>1. clock \in Nat /\ failedRefreshes \in Nat /\ refreshDue \in Nat
        BY DEF NamesInv, EnricherIsRecent
    <2>2. ASSUME NEW p \in Principals, NEW n \in IamNames, lastTrue[p][n] = clock
          PROVE  lastTrue'[p][n] = clock
        <3>1. lastTrue'[p] \in [IamNames -> 0 .. clock]
            BY DEF SourcesAreSound
        <3>2. lastTrue'[p][n] \in 0 .. clock
            BY <3>1
        <3>3. lastTrue[p][n] \in Nat /\ lastTrue'[p][n] \in Nat /\ lastTrue[p][n] <= lastTrue'[p][n]
            BY DEF TrueMovesOn
        <3> QED  BY <2>1, <2>2, <3>2, <3>3
    <2> QED  BY <2>1, <2>2
<1>1. ASSUME UNCHANGED enricherVars PROVE EnricherIsRecent'
    <2>0. UNCHANGED <<maps, identityCache, fetchedMaps, loaded, refreshDue, failedRefreshes>>
        BY <1>1 DEF enricherVars
    <2>a. PICK later : later = lastTrue'
        OBVIOUS
    <2>1. ASSUME NEW p \in Principals
          PROVE  /\ NameHeld(p, maps[p], refreshDue, later, failedRefreshes)
                 /\ NameHeld(p, identityCache[p].name, refreshDue, later, failedRefreshes)
                 /\ fetchedMaps # Idle /\ fetchedMaps.names[p] \in IamNames =>
                        later[p][fetchedMaps.names[p]] = clock
        <3>1. /\ NameHeld(p, maps[p], refreshDue, lastTrue, failedRefreshes)
              /\ NameHeld(p, identityCache[p].name, refreshDue, lastTrue, failedRefreshes)
              /\ fetchedMaps # Idle /\ fetchedMaps.names[p] \in IamNames =>
                        lastTrue[p][fetchedMaps.names[p]] = clock
            BY DEF NamesInv, EnricherIsRecent
        <3>2. PICK m, i : m = maps[p] /\ i = identityCache[p].name
            OBVIOUS
        <3>3. /\ NameHeld(p, m, refreshDue, lastTrue, failedRefreshes)
              /\ NameHeld(p, i, refreshDue, lastTrue, failedRefreshes)
              /\ TrueMovesOn(lastTrue, later) /\ refreshDue \in Nat /\ failedRefreshes \in Nat
            BY <3>1, <3>2, <1>0, <2>a
        <3>4. NameHeld(p, m, refreshDue, later, failedRefreshes)
            BY <3>3, HeldLonger
        <3>5. NameHeld(p, i, refreshDue, later, failedRefreshes)
            BY <3>3, HeldLonger
        <3> QED  BY <3>1, <3>2, <3>4, <3>5, <1>0, <2>a
    <2> QED  BY <2>0, <2>1, <2>a DEF NamesInv, EnricherIsRecent
<1>2. ASSUME UNCHANGED prefetched PROVE PrefetchIsRecent'
    BY <1>2, <1>0 DEF NamesInv, PrefetchIsRecent
<1> QED
    BY <1>1, <1>2

LEMMA RenameStep ==
    ASSUME NamesInv, NEW p \in Principals, Rename(p)
    PROVE  NamesInv'
<1>0. /\ renamings \in 0 .. MaxRenamings /\ renamings < MaxRenamings /\ renamings' = renamings + 1
      /\ iamName' = [iamName EXCEPT ![p] = <<"iam", renamings'>>]
      /\ lastTrue' = [lastTrue EXCEPT ![p][iamName'[p]] = clock]
      /\ UNCHANGED <<mapping, written, lastEdit, edits, maps, identityCache, fetchedMaps, loaded,
                     refreshDue, failedRefreshes, actorCache, lookup, prefetched, prefetches, clock>>
    BY DEF Rename, NamesInv, SourcesAreSound, enricherVars, actorNameVars
<1>1. renamings' \in 0 .. MaxRenamings /\ <<"iam", renamings'>> \in IamNames
    <2>1. renamings' \in 0 .. MaxRenamings
        BY <1>0, NamesConstants
    <2> QED  BY <2>1, NamesDiffer
<1>2. PICK n \in IamNames : /\ iamName' = [iamName EXCEPT ![p] = n]
                            /\ lastTrue' = [lastTrue EXCEPT ![p] = [lastTrue[p] EXCEPT ![n] = clock]]
    <2>1. iamName'[p] = <<"iam", renamings'>>
        BY <1>0 DEF NamesInv, SourcesAreSound
    <2> QED  BY <1>0, <1>1, <2>1
<1>3. /\ clock \in Nat /\ lastEdit \in 0 .. clock
      /\ \A q \in Principals : lastTrue[q] \in [IamNames -> 0 .. clock] /\ lastTrue[q][iamName[q]] = clock
      /\ iamName = [q \in Principals |-> iamName[q]] /\ lastTrue = [q \in Principals |-> lastTrue[q]]
      /\ \A q \in Principals : iamName[q] \in IamNames
    BY DEF NamesInv, SourcesAreSound, EnricherIsRecent
<1>4. ASSUME NEW q \in Principals
      PROVE  /\ lastTrue'[q] \in [IamNames -> 0 .. clock] /\ lastTrue'[q][iamName'[q]] = clock
             /\ iamName'[q] \in IamNames
             /\ \A m \in IamNames : lastTrue[q][m] <= lastTrue'[q][m]
    <2>1. CASE q = p
        <3>1. lastTrue'[q] = [lastTrue[q] EXCEPT ![n] = clock] /\ iamName'[q] = n
            BY <1>2, <1>3, <2>1
        <3>2. lastTrue[q] \in [IamNames -> 0 .. clock] /\ clock \in 0 .. clock
            BY <1>3
        <3>3. lastTrue'[q] \in [IamNames -> 0 .. clock] /\ lastTrue'[q][n] = clock
            BY <3>1, <3>2
        <3>4. ASSUME NEW m \in IamNames PROVE lastTrue[q][m] <= lastTrue'[q][m]
            <4>1. lastTrue[q][m] \in 0 .. clock /\ (lastTrue'[q][m] = lastTrue[q][m] \/ lastTrue'[q][m] = clock)
                BY <3>1, <3>2
            <4> QED  BY <4>1, <1>3
        <3> QED  BY <3>1, <3>3, <3>4
    <2>2. CASE q # p
        <3>1. lastTrue'[q] = lastTrue[q] /\ iamName'[q] = iamName[q]
            BY <1>2, <1>3, <2>2
        <3>2. ASSUME NEW m \in IamNames PROVE lastTrue[q][m] \in 0 .. clock
            BY <1>3
        <3>3. ASSUME NEW m \in IamNames PROVE lastTrue[q][m] <= lastTrue[q][m]
            BY <1>3, <3>2
        <3> QED  BY <3>1, <3>3, <1>3
    <2> QED  BY <2>1, <2>2
<1>5. SourcesAreSound'
    <2>1. /\ iamName' = [q \in Principals |-> iamName'[q]] /\ mapping' = [q \in Principals |-> mapping'[q]]
          /\ lastTrue' = [q \in Principals |-> lastTrue'[q]]
        BY <1>0, <1>2, <1>3 DEF NamesInv, SourcesAreSound
    <2>2. \A q \in Principals : mapping'[q] \notin IamNames
        BY <1>0 DEF NamesInv, SourcesAreSound
    <2> QED  BY <2>1, <2>2, <1>0, <1>1, <1>3, <1>4 DEF SourcesAreSound
<1>6. TrueMovesOn(lastTrue, lastTrue')
    <2>1. ASSUME NEW q \in Principals, NEW m \in IamNames
          PROVE  lastTrue[q][m] \in Nat /\ lastTrue'[q][m] \in Nat
        <3>1. lastTrue[q][m] \in 0 .. clock /\ lastTrue'[q][m] \in 0 .. clock
            BY <1>3, <1>4
        <3> QED  BY <3>1, <1>3
    <2> QED  BY <2>1, <1>4 DEF TrueMovesOn
<1>7. EditMoves(clock, lastEdit, written, mapping, lastEdit', written', mapping')
    BY <1>0 DEF EditMoves
<1>8. EnricherIsRecent' /\ PrefetchIsRecent'
    BY <1>0, <1>5, <1>6, EnricherStays DEF enricherVars
<1>9. CacheIsSound' /\ LookupsAreSound'
    <2>1. clock' \in Nat /\ clock <= clock' /\ lastEdit' \in Nat
        BY <1>0, <1>3
    <2>2. failedRefreshes' = failedRefreshes /\ actorCache' = actorCache /\ lookup' = lookup /\ clock' = clock
        BY <1>0
    <2> QED  BY <2>1, <2>2, <1>6, <1>7, CachesStay
<1> QED
    BY <1>5, <1>8, <1>9 DEF NamesInv

LEMMA OpenStep ==
    ASSUME NamesInv, OpenMapping
    PROVE  NamesInv'
<1>0. /\ written' = FALSE
      /\ UNCHANGED <<iamName, mapping, lastTrue, lastEdit, renamings, maps, identityCache, fetchedMaps, loaded,
                     refreshDue, failedRefreshes, actorCache, lookup, prefetched, prefetches, clock>>
    BY DEF OpenMapping, enricherVars, actorNameVars
<1>1. SourcesAreSound'
    BY <1>0 DEF NamesInv, SourcesAreSound
<1>2. TrueMovesOn(lastTrue, lastTrue') /\ clock \in Nat /\ lastEdit \in Nat
    <2>1. ASSUME NEW q \in Principals, NEW m \in IamNames
          PROVE  lastTrue[q][m] \in Nat /\ lastTrue[q][m] <= lastTrue[q][m]
        <3>1. lastTrue[q] \in [IamNames -> 0 .. clock] /\ clock \in Nat
            BY DEF NamesInv, SourcesAreSound, EnricherIsRecent
        <3>2. lastTrue[q][m] \in 0 .. clock
            BY <3>1
        <3> QED  BY <3>1, <3>2
    <2> QED  BY <2>1, <1>0 DEF TrueMovesOn, NamesInv, SourcesAreSound, EnricherIsRecent
<1>3. EditMoves(clock, lastEdit, written, mapping, lastEdit', written', mapping')
    BY <1>0 DEF EditMoves
<1>4. EnricherIsRecent' /\ PrefetchIsRecent'
    BY <1>0, <1>1, <1>2, EnricherStays DEF enricherVars
<1>5. CacheIsSound' /\ LookupsAreSound'
    <2>1. clock' \in Nat /\ clock <= clock' /\ lastEdit' \in Nat
        BY <1>0, <1>2
    <2>2. failedRefreshes' = failedRefreshes /\ actorCache' = actorCache /\ lookup' = lookup /\ clock' = clock
        BY <1>0
    <2> QED  BY <2>1, <2>2, <1>2, <1>3, CachesStay
<1> QED
    BY <1>1, <1>4, <1>5 DEF NamesInv

LEMMA DumpStep ==
    ASSUME NamesInv, NEW p \in Principals, DumpMapping(p)
    PROVE  NamesInv'
<1>0. /\ lastEdit' = clock /\ mapping' = [mapping EXCEPT ![p] = <<"file", edits>>]
      /\ UNCHANGED <<iamName, lastTrue, renamings, maps, identityCache, fetchedMaps, loaded,
                     refreshDue, failedRefreshes, actorCache, lookup, prefetched, prefetches, clock>>
    BY DEF DumpMapping, enricherVars, actorNameVars
<1>1. SourcesAreSound'
    <2>1. mapping' = [q \in Principals |-> mapping'[q]] /\ \A q \in Principals : mapping'[q] \notin IamNames
        BY <1>0, NamesDiffer DEF NamesInv, SourcesAreSound
    <2>2. clock \in Nat /\ clock \in 0 .. clock
        BY DEF NamesInv, EnricherIsRecent
    <2> QED  BY <1>0, <2>1, <2>2 DEF NamesInv, SourcesAreSound
<1>2. TrueMovesOn(lastTrue, lastTrue') /\ clock \in Nat
    <2>1. ASSUME NEW q \in Principals, NEW m \in IamNames
          PROVE  lastTrue[q][m] \in Nat /\ lastTrue[q][m] <= lastTrue[q][m]
        <3>1. lastTrue[q] \in [IamNames -> 0 .. clock] /\ clock \in Nat
            BY DEF NamesInv, SourcesAreSound, EnricherIsRecent
        <3>2. lastTrue[q][m] \in 0 .. clock
            BY <3>1
        <3> QED  BY <3>1, <3>2
    <2> QED  BY <2>1, <1>0 DEF TrueMovesOn, NamesInv, SourcesAreSound, EnricherIsRecent
<1>3. EditMoves(clock, lastEdit, written, mapping, lastEdit', written', mapping')
    BY <1>0 DEF EditMoves
<1>4. EnricherIsRecent' /\ PrefetchIsRecent'
    BY <1>0, <1>1, <1>2, EnricherStays DEF enricherVars
<1>5. CacheIsSound' /\ LookupsAreSound'
    <2>1. clock' \in Nat /\ clock <= clock' /\ lastEdit' \in Nat
        BY <1>0, <1>2
    <2>2. failedRefreshes' = failedRefreshes /\ actorCache' = actorCache /\ lookup' = lookup /\ clock' = clock
        BY <1>0
    <2> QED  BY <2>1, <2>2, <1>2, <1>3, CachesStay
<1> QED
    BY <1>1, <1>4, <1>5 DEF NamesInv

LEMMA FetchIdentitiesStep ==
    ASSUME NamesInv, FetchIdentities
    PROVE  NamesInv'
<1>0. /\ failedRefreshes' = failedRefreshes \/ failedRefreshes' = failedRefreshes + 1
      /\ fetchedMaps'.names = [p \in Principals |-> fetchedMaps'.names[p]]
      /\ \A p \in Principals : fetchedMaps'.names[p] = iamName[p] \/ fetchedMaps'.names[p] = Raw
      /\ UNCHANGED <<sourceVars, clock>> /\ UNCHANGED <<maps, identityCache, loaded, refreshDue>>
      /\ UNCHANGED actorNameVars
    <2>1. UNCHANGED <<sourceVars, clock>> /\ UNCHANGED <<maps, identityCache, loaded, refreshDue>> /\ UNCHANGED actorNameVars
        BY DEF FetchIdentities
    <2>2. CASE fetchedMaps' = [of |-> "all", names |-> iamName] /\ UNCHANGED failedRefreshes
        BY <2>1, <2>2 DEF NamesInv, SourcesAreSound
    <2>3. CASE /\ failedRefreshes' = failedRefreshes + 1
               /\ \E some \in SUBSET Principals :
                      fetchedMaps' = [of |-> "some",
                            names |-> [p \in Principals |-> IF p \in some THEN iamName[p] ELSE Raw]]
        BY <2>1, <2>3
    <2> QED  BY <2>1, <2>2, <2>3 DEF FetchIdentities
<1>1. /\ SourcesAreSound' /\ TrueMovesOn(lastTrue, lastTrue') /\ lastTrue' = lastTrue
      /\ EditMoves(clock, lastEdit, written, mapping, lastEdit', written', mapping')
      /\ clock' \in Nat /\ clock <= clock' /\ lastEdit' \in Nat
    BY <1>0, SourcesStay
<1>2. PrefetchIsRecent'
    BY <1>0, <1>1, EnricherStays DEF actorNameVars
<1>3. CacheIsSound' /\ LookupsAreSound'
    BY <1>0, <1>1, CachesStay DEF actorNameVars
<1>4. EnricherIsRecent'
    <2>0. clock' = clock /\ refreshDue \in Nat /\ failedRefreshes \in Nat
        BY <1>0 DEF NamesInv, EnricherIsRecent
    <2>a. PICK f : f = failedRefreshes'
        OBVIOUS
    <2>1. ASSUME NEW p \in Principals
          PROVE  /\ NameHeld(p, maps[p], refreshDue, lastTrue, f)
                 /\ NameHeld(p, identityCache[p].name, refreshDue, lastTrue, f)
                 /\ fetchedMaps'.names[p] \in IamNames => lastTrue[p][fetchedMaps'.names[p]] = clock
        <3>1. /\ NameHeld(p, maps[p], refreshDue, lastTrue, failedRefreshes)
              /\ NameHeld(p, identityCache[p].name, refreshDue, lastTrue, failedRefreshes)
            BY DEF NamesInv, EnricherIsRecent
        <3>2. PICK m, i : m = maps[p] /\ i = identityCache[p].name
            OBVIOUS
        <3>3. /\ NameHeld(p, m, refreshDue, lastTrue, failedRefreshes)
              /\ NameHeld(p, i, refreshDue, lastTrue, failedRefreshes)
              /\ TrueMovesOn(lastTrue, lastTrue) /\ refreshDue \in Nat /\ failedRefreshes \in Nat
              /\ f = failedRefreshes \/ f = failedRefreshes + 1
            BY <3>1, <3>2, <2>0, <2>a, <1>0, <1>1
        <3>4. NameHeld(p, m, refreshDue, lastTrue, f)
            BY <3>3, HeldLonger
        <3>5. NameHeld(p, i, refreshDue, lastTrue, f)
            BY <3>3, HeldLonger
        <3>6. fetchedMaps'.names[p] \in IamNames => lastTrue[p][fetchedMaps'.names[p]] = clock
            BY <1>0, NamesDiffer DEF NamesInv, SourcesAreSound
        <3> QED  BY <3>2, <3>4, <3>5, <3>6
    <2>2. failedRefreshes' \in Nat
        BY <1>0, <2>0
    <2> QED  BY <1>0, <1>1, <2>0, <2>1, <2>2, <2>a DEF NamesInv, EnricherIsRecent
<1> QED
    BY <1>1, <1>2, <1>3, <1>4 DEF NamesInv

LEMMA SwapStep ==
    ASSUME NamesInv, SwapIdentities
    PROVE  NamesInv'
<1>0. /\ fetchedMaps # Idle /\ maps' = fetchedMaps.names /\ fetchedMaps' = Idle /\ loaded' = TRUE
      /\ identityCache' = IF loaded THEN [p \in Principals |-> NoEntry] ELSE identityCache
      /\ refreshDue' = clock + RefreshEvery
      /\ UNCHANGED <<sourceVars, clock>> /\ UNCHANGED failedRefreshes /\ UNCHANGED actorNameVars
    BY DEF SwapIdentities
<1>1. /\ SourcesAreSound' /\ TrueMovesOn(lastTrue, lastTrue') /\ lastTrue' = lastTrue
      /\ EditMoves(clock, lastEdit, written, mapping, lastEdit', written', mapping')
      /\ clock' \in Nat /\ clock <= clock' /\ lastEdit' \in Nat
    BY <1>0, SourcesStay
<1>2. PrefetchIsRecent'
    BY <1>0, <1>1, EnricherStays DEF actorNameVars
<1>3. CacheIsSound' /\ LookupsAreSound'
    BY <1>0, <1>1, CachesStay DEF actorNameVars
<1>4. EnricherIsRecent'
    <2>0. /\ clock \in Nat /\ clock <= LastTime /\ failedRefreshes \in Nat /\ refreshDue' \in Nat /\ clock <= refreshDue'
          /\ refreshDue' - clock = RefreshEvery /\ RefreshEvery <= Staleness(failedRefreshes)
        <3>1. clock \in Nat /\ clock <= LastTime /\ failedRefreshes \in Nat
            BY DEF NamesInv, EnricherIsRecent
        <3>2. RefreshEvery <= Staleness(failedRefreshes)
            BY <3>1, StalenessGrows
        <3> QED  BY <3>1, <3>2, <1>0, NamesConstants
    <2>1. ASSUME NEW p \in Principals
          PROVE  /\ NameHeld(p, fetchedMaps.names[p], refreshDue', lastTrue, failedRefreshes)
                 /\ identityCache'[p].name \notin IamNames
        <3>1. fetchedMaps.names[p] \in IamNames => lastTrue[p][fetchedMaps.names[p]] = clock
            BY <1>0 DEF NamesInv, EnricherIsRecent
        <3>2. NameHeld(p, fetchedMaps.names[p], refreshDue', lastTrue, failedRefreshes)
            BY <3>1, <2>0 DEF NameHeld
        <3>3. CASE loaded
            BY <3>2, <3>3, <1>0, NamesDiffer
        <3>4. CASE ~loaded
            BY <3>2, <3>4, <1>0 DEF NamesInv, EnricherIsRecent
        <3> QED  BY <3>3, <3>4
    <2>2. /\ maps' = [p \in Principals |-> maps'[p]]
          /\ identityCache' = [p \in Principals |-> identityCache'[p]]
        BY <1>0 DEF NamesInv, EnricherIsRecent
    <2>3. ASSUME NEW p \in Principals
          PROVE  NameHeld(p, maps'[p], refreshDue', lastTrue, failedRefreshes)
        BY <2>1, <1>0
    <2>4. ASSUME NEW p \in Principals
          PROVE  NameHeld(p, identityCache'[p].name, refreshDue', lastTrue, failedRefreshes)
        BY <2>1 DEF NameHeld
    <2> QED  BY <1>0, <1>1, <2>0, <2>2, <2>3, <2>4 DEF EnricherIsRecent
<1> QED
    BY <1>1, <1>2, <1>3, <1>4 DEF NamesInv

LEMMA RefreshFailsStep ==
    ASSUME NamesInv, RefreshFails
    PROVE  NamesInv'
<1>0. /\ refreshDue <= clock /\ fetchedMaps = Idle /\ failedRefreshes' = failedRefreshes + 1 /\ loaded' = TRUE
      /\ refreshDue' = clock + RefreshEvery
      /\ UNCHANGED <<sourceVars, clock>> /\ UNCHANGED <<maps, identityCache, fetchedMaps>> /\ UNCHANGED actorNameVars
    <2>1. clock >= refreshDue /\ clock \in Nat /\ refreshDue \in Nat
        BY DEF RefreshFails, NamesInv, EnricherIsRecent
    <2> QED  BY <2>1 DEF RefreshFails
<1>1. /\ SourcesAreSound' /\ TrueMovesOn(lastTrue, lastTrue') /\ lastTrue' = lastTrue
      /\ EditMoves(clock, lastEdit, written, mapping, lastEdit', written', mapping')
      /\ clock' \in Nat /\ clock <= clock' /\ lastEdit' \in Nat
    BY <1>0, SourcesStay
<1>2. PrefetchIsRecent'
    BY <1>0, <1>1, EnricherStays DEF actorNameVars
<1>3. CacheIsSound' /\ LookupsAreSound'
    BY <1>0, <1>1, CachesStay DEF actorNameVars
<1>4. EnricherIsRecent'
    <2>0. /\ clock \in Nat /\ clock <= LastTime /\ failedRefreshes \in Nat /\ refreshDue' \in Nat /\ clock <= refreshDue'
          /\ refreshDue = clock /\ refreshDue' - refreshDue = RefreshEvery
          /\ Staleness(failedRefreshes') = Staleness(failedRefreshes) + RefreshEvery
          /\ Staleness(failedRefreshes) \in Nat /\ failedRefreshes' \in Nat
        <3>1. clock \in Nat /\ clock <= LastTime /\ failedRefreshes \in Nat /\ refreshDue = clock
            BY <1>0 DEF NamesInv, EnricherIsRecent
        <3>2. Staleness(failedRefreshes + 1) = Staleness(failedRefreshes) + RefreshEvery /\ Staleness(failedRefreshes) \in Nat
            BY <3>1, StalenessGrows
        <3> QED  BY <3>1, <3>2, <1>0, NamesConstants
    <2>1. ASSUME NEW p \in Principals, NEW n, NameHeld(p, n, refreshDue, lastTrue, failedRefreshes)
          PROVE  NameHeld(p, n, refreshDue', lastTrue, failedRefreshes')
        <3> SUFFICES ASSUME n \in IamNames
                     PROVE  refreshDue' - lastTrue[p][n] <= Staleness(failedRefreshes')
            BY DEF NameHeld
        <3>1. lastTrue[p][n] \in Nat
            BY <1>1 DEF TrueMovesOn
        <3>2. refreshDue - lastTrue[p][n] <= Staleness(failedRefreshes)
            BY <2>1 DEF NameHeld
        <3> QED  BY <3>1, <3>2, <2>0, <1>0, NamesConstants
    <2>2. ASSUME NEW p \in Principals
          PROVE  /\ NameHeld(p, maps[p], refreshDue', lastTrue, failedRefreshes')
                 /\ NameHeld(p, identityCache[p].name, refreshDue', lastTrue, failedRefreshes')
        <3>1. /\ NameHeld(p, maps[p], refreshDue, lastTrue, failedRefreshes)
              /\ NameHeld(p, identityCache[p].name, refreshDue, lastTrue, failedRefreshes)
            BY DEF NamesInv, EnricherIsRecent
        <3> QED  BY <3>1, <2>1
    <2> QED  BY <1>0, <1>1, <2>0, <2>2 DEF NamesInv, EnricherIsRecent
<1> QED
    BY <1>1, <1>2, <1>3, <1>4 DEF NamesInv

\* A lookup, and what the enricher caches for it, is as recent as the maps.
LEMMA LookUpNameStep ==
    ASSUME NamesInv, NEW t \in Lookups, NEW p \in Principals, LookUp(t, p)
    PROVE  NamesInv'
<1>0. /\ lookup' = [lookup EXCEPT ![t] = [of |-> p, name |-> NameFor(p)]]
      /\ \/ identityCache' = identityCache
         \/ identityCache' = [identityCache EXCEPT ![p] = [name |-> maps[p], at |-> clock]]
      /\ UNCHANGED <<sourceVars, clock>> /\ UNCHANGED <<maps, fetchedMaps, loaded, refreshDue, failedRefreshes>>
      /\ UNCHANGED actorCache /\ UNCHANGED prefetched
    BY DEF LookUp
<1>1. /\ SourcesAreSound' /\ TrueMovesOn(lastTrue, lastTrue') /\ lastTrue' = lastTrue
      /\ EditMoves(clock, lastEdit, written, mapping, lastEdit', written', mapping')
      /\ clock' \in Nat /\ clock <= clock' /\ lastEdit' \in Nat
    BY <1>0, SourcesStay
<1>2. PrefetchIsRecent'
    BY <1>0, <1>1, EnricherStays
<1>3. CacheIsSound'
    BY <1>0, <1>1, CachesStay
<1>4. EnricherIsRecent'
    <2>1. ASSUME NEW q \in Principals
          PROVE  /\ NameHeld(q, identityCache'[q].name, refreshDue, lastTrue, failedRefreshes)
                 /\ ~loaded => identityCache'[q].name \notin IamNames
        <3>1. identityCache'[q].name = identityCache[q].name \/ identityCache'[q].name = maps[q]
            BY <1>0 DEF NamesInv, EnricherIsRecent
        <3> QED  BY <3>1 DEF NamesInv, EnricherIsRecent
    <2>2. identityCache' = [q \in Principals |-> identityCache'[q]]
        BY <1>0 DEF NamesInv, EnricherIsRecent
    <2> QED  BY <1>0, <1>1, <2>1, <2>2 DEF NamesInv, EnricherIsRecent
<1>5. LookupsAreSound'
    <2>1. NameHeld(p, NameFor(p), clock, lastTrue, failedRefreshes)
        <3>1. CASE NameFor(p) = Resolved(p)
            <4>1. /\ NameHeld(p, maps[p], refreshDue, lastTrue, failedRefreshes)
                  /\ NameHeld(p, identityCache[p].name, refreshDue, lastTrue, failedRefreshes)
                BY DEF NamesInv, EnricherIsRecent
            <4>2. NameHeld(p, NameFor(p), refreshDue, lastTrue, failedRefreshes)
                BY <3>1, <4>1 DEF Resolved
            <4>3. PICK n : n = NameFor(p)
                OBVIOUS
            <4>4. /\ clock \in Nat /\ refreshDue \in Nat /\ clock <= refreshDue /\ Staleness(failedRefreshes) \in Nat
                  /\ n \in IamNames => lastTrue[p][n] \in Nat /\ refreshDue - lastTrue[p][n] <= Staleness(failedRefreshes)
                BY <4>2, <4>3, <1>1, StalenessGrows DEF NameHeld, TrueMovesOn, NamesInv, EnricherIsRecent
            <4>5. NameHeld(p, n, clock, lastTrue, failedRefreshes)
                BY <4>4 DEF NameHeld
            <4> QED  BY <4>3, <4>5
        <3>2. CASE NameFor(p) = Override(p)
            <4>1. NameFor(p) \notin IamNames
                BY <3>2, NamesDiffer DEF Override, NamesInv, SourcesAreSound
            <4> QED  BY <4>1 DEF NameHeld
        <3> QED  BY <3>1, <3>2 DEF NameFor
    <2>2. Heeds(p, NameFor(p), clock, lastEdit, written, mapping)
        BY DEF Heeds, NameFor, Override
    <2>3. PICK l : l = [of |-> p, name |-> NameFor(p)]
        OBVIOUS
    <2>4. LookupIsSound(l, clock, lastTrue, failedRefreshes, lastEdit, written, mapping)
        <3>1. l.of = p /\ l.name = NameFor(p)
            BY <2>3
        <3> QED  BY <3>1, <2>1, <2>2 DEF LookupIsSound
    <2>5. lookup' = [lookup EXCEPT ![t] = l]
        BY <1>0, <2>3
    <2>6. UNCHANGED <<clock, lastTrue, failedRefreshes, lastEdit, written, mapping>>
        BY <1>0 DEF sourceVars
    <2>7. /\ lookup = [x \in Lookups |-> lookup[x]]
          /\ \A x \in Lookups :
                 LookupIsSound(lookup[x], clock, lastTrue, failedRefreshes, lastEdit, written, mapping)
        BY DEF NamesInv, LookupsAreSound
    <2> QED  BY <2>4, <2>5, <2>6, <2>7 DEF LookupsAreSound
<1> QED
    BY <1>1, <1>2, <1>3, <1>4, <1>5 DEF NamesInv

LEMMA CacheNameStep ==
    ASSUME NamesInv, NEW t \in Lookups, CacheName(t)
    PROVE  NamesInv'
<1> DEFINE p == lookup[t].of
<1>0. /\ lookup[t] # Idle
      /\ \/ actorCache' = actorCache
         \/ actorCache' = [actorCache EXCEPT ![p] = [name |-> lookup[t].name, at |-> clock, by |-> "lookup"]]
      /\ lookup' = [lookup EXCEPT ![t] = Idle]
      /\ UNCHANGED <<sourceVars, clock>> /\ UNCHANGED enricherVars /\ UNCHANGED prefetched
    BY DEF CacheName
<1>1. /\ SourcesAreSound' /\ TrueMovesOn(lastTrue, lastTrue') /\ lastTrue' = lastTrue
      /\ EditMoves(clock, lastEdit, written, mapping, lastEdit', written', mapping')
      /\ clock' \in Nat /\ clock <= clock' /\ lastEdit' \in Nat
    BY <1>0, SourcesStay
<1>2. PrefetchIsRecent' /\ EnricherIsRecent'
    BY <1>0, <1>1, EnricherStays
<1>a. UNCHANGED <<clock, lastTrue, failedRefreshes, lastEdit, written, mapping>>
    BY <1>0 DEF sourceVars, enricherVars
<1>3. LookupsAreSound'
    <2>1. /\ lookup = [x \in Lookups |-> lookup[x]]
          /\ \A x \in Lookups :
                 LookupIsSound(lookup[x], clock, lastTrue, failedRefreshes, lastEdit, written, mapping)
        BY DEF NamesInv, LookupsAreSound
    <2>2. LookupIsSound(Idle, clock, lastTrue, failedRefreshes, lastEdit, written, mapping)
        BY DEF LookupIsSound
    <2> QED  BY <1>0, <1>a, <2>1, <2>2 DEF LookupsAreSound
<1>4. CacheIsSound'
    <2>1. PICK l : l = lookup[t]
        OBVIOUS
    <2>2. /\ l.of \in Principals /\ NameHeld(l.of, l.name, clock, lastTrue, failedRefreshes)
          /\ Heeds(l.of, l.name, clock, lastEdit, written, mapping)
        BY <1>0, <2>1 DEF NamesInv, LookupsAreSound, LookupIsSound
    <2>3. PICK q, e : q = l.of /\ e = [name |-> l.name, at |-> clock, by |-> "lookup"]
        OBVIOUS
    <2>4. e.name = l.name /\ e.at = clock /\ clock \in 0 .. clock
        BY <2>3 DEF NamesInv, EnricherIsRecent
    <2>5. EntryIsSound(q, e, clock, lastTrue, failedRefreshes, lastEdit, written, mapping)
        BY <2>2, <2>3, <2>4 DEF EntryIsSound
    <2>6. /\ actorCache = [x \in Principals |-> actorCache[x]]
          /\ \A x \in Principals :
                 EntryIsSound(x, actorCache[x], clock, lastTrue, failedRefreshes, lastEdit, written, mapping)
        BY DEF NamesInv, CacheIsSound
    <2>7. actorCache' = actorCache \/ actorCache' = [actorCache EXCEPT ![q] = e]
        BY <1>0, <2>1, <2>3
    <2>8. ASSUME NEW x \in Principals
          PROVE  EntryIsSound(x, actorCache'[x], clock, lastTrue, failedRefreshes, lastEdit, written, mapping)
        <3>1. actorCache'[x] = actorCache[x] \/ (x = q /\ actorCache'[x] = e)
            BY <2>6, <2>7
        <3> QED  BY <3>1, <2>5, <2>6
    <2>9. actorCache' = [x \in Principals |-> actorCache'[x]]
        BY <2>6, <2>7
    <2> QED  BY <2>8, <2>9, <1>a DEF CacheIsSound
<1> QED
    BY <1>1, <1>2, <1>3, <1>4 DEF NamesInv

LEMMA PrefetchStep ==
    ASSUME NamesInv, Prefetch
    PROVE  NamesInv'
<1>0. UNCHANGED <<sourceVars, clock>> /\ UNCHANGED enricherVars /\ UNCHANGED <<actorCache, lookup>>
    BY DEF Prefetch
<1>1. /\ SourcesAreSound' /\ TrueMovesOn(lastTrue, lastTrue') /\ lastTrue' = lastTrue
      /\ EditMoves(clock, lastEdit, written, mapping, lastEdit', written', mapping')
      /\ clock' \in Nat /\ clock <= clock' /\ lastEdit' \in Nat
    BY <1>0, SourcesStay
<1>2. EnricherIsRecent'
    BY <1>0, <1>1, EnricherStays
<1>3. CacheIsSound' /\ LookupsAreSound'
    BY <1>0, <1>1, CachesStay DEF enricherVars
<1>4. PrefetchIsRecent'
    <2>1. PICK some \in SUBSET Principals :
              prefetched' = [of |-> "some", at |-> clock,
                             names |-> [p \in Principals |-> IF p \in some THEN iamName[p] ELSE Raw]]
        BY DEF Prefetch
    <2>2. prefetched'.at = clock
        BY <2>1
    <2>3. ASSUME NEW p \in Principals, prefetched'.names[p] \in IamNames
          PROVE  lastTrue[p][prefetched'.names[p]] = clock
        <3>1. prefetched'.names[p] = iamName[p]
            BY <2>1, <2>3, NamesDiffer
        <3> QED  BY <3>1 DEF NamesInv, SourcesAreSound
    <2> QED  BY <2>2, <2>3, <1>0, <1>1 DEF PrefetchIsRecent
<1> QED
    BY <1>1, <1>2, <1>3, <1>4 DEF NamesInv

LEMMA StorePrefetchedStep ==
    ASSUME NamesInv, StorePrefetched
    PROVE  NamesInv'
<1>0. /\ prefetched # Idle /\ prefetched' = Idle
      /\ UNCHANGED <<sourceVars, clock>> /\ UNCHANGED enricherVars /\ UNCHANGED lookup
    BY DEF StorePrefetched
<1>1. /\ SourcesAreSound' /\ TrueMovesOn(lastTrue, lastTrue') /\ lastTrue' = lastTrue
      /\ EditMoves(clock, lastEdit, written, mapping, lastEdit', written', mapping')
      /\ clock' \in Nat /\ clock <= clock' /\ lastEdit' \in Nat
    BY <1>0, SourcesStay
<1>2. EnricherIsRecent'
    BY <1>0, <1>1, EnricherStays
<1>3. LookupsAreSound'
    BY <1>0, <1>1, CachesStay DEF enricherVars
<1>4. PrefetchIsRecent'
    BY <1>0 DEF PrefetchIsRecent
<1>5. CacheIsSound'
    <2>a. UNCHANGED <<clock, lastTrue, failedRefreshes, lastEdit, written, mapping>>
        BY <1>0 DEF sourceVars, enricherVars
    <2>1. ASSUME NEW p \in Principals
          PROVE  EntryIsSound(p, actorCache'[p], clock, lastTrue, failedRefreshes, lastEdit, written, mapping)
        <3>1. PICK n, e : n = prefetched.names[p] /\ e = [name |-> n, at |-> prefetched.at, by |-> "prefetch"]
            OBVIOUS
        <3>2. actorCache'[p] = actorCache[p] \/ actorCache'[p] = e
            BY <3>1 DEF StorePrefetched
        <3>3. EntryIsSound(p, actorCache[p], clock, lastTrue, failedRefreshes, lastEdit, written, mapping)
            BY DEF NamesInv, CacheIsSound
        <3>4. EntryIsSound(p, e, clock, lastTrue, failedRefreshes, lastEdit, written, mapping)
            <4>1. /\ prefetched.at = clock /\ clock \in Nat /\ failedRefreshes \in Nat
                  /\ n \in IamNames => lastTrue[p][n] = clock
                BY <1>0, <3>1 DEF NamesInv, PrefetchIsRecent, EnricherIsRecent
            <4>2. e.name = n /\ e.at = clock /\ e.by = "prefetch"
                BY <3>1, <4>1
            <4>3. NameHeld(p, n, clock, lastTrue, failedRefreshes)
                <5>1. Staleness(failedRefreshes) \in Nat
                    BY <4>1, StalenessGrows
                <5> QED  BY <4>1, <5>1 DEF NameHeld
            <4> QED  BY <4>1, <4>2, <4>3 DEF EntryIsSound
        <3> QED  BY <3>2, <3>3, <3>4
    <2>2. actorCache' = [p \in Principals |-> actorCache'[p]]
        BY DEF StorePrefetched
    <2> QED  BY <2>a, <2>1, <2>2 DEF CacheIsSound
<1> QED
    BY <1>1, <1>2, <1>3, <1>4, <1>5 DEF NamesInv

\* Time passes while the maps are not overdue and nobody is at work.
LEMMA NamesTickStep ==
    ASSUME NamesInv, NamesTick
    PROVE  NamesInv'
<1>0. /\ clock < LastTime /\ clock < refreshDue /\ fetchedMaps = Idle /\ prefetched = Idle
      /\ \A t \in Lookups : lookup[t] = Idle
      /\ clock' = clock + 1
      /\ lastTrue' = [p \in Principals |->
            [n \in IamNames |-> IF n = iamName[p] THEN clock' ELSE lastTrue[p][n]]]
      /\ identityCache' = [p \in Principals |->
            IF clock' - identityCache[p].at >= IdentityTtl THEN NoEntry ELSE identityCache[p]]
      /\ actorCache' = [p \in Principals |->
            IF clock' - actorCache[p].at >= ActorTtl THEN NoEntry ELSE actorCache[p]]
      /\ UNCHANGED <<iamName, mapping, written, lastEdit, renamings, edits, maps, fetchedMaps, loaded,
                     refreshDue, failedRefreshes, lookup, prefetched, prefetches>>
    BY DEF NamesTick
<1>a. /\ clock \in Nat /\ refreshDue \in Nat /\ failedRefreshes \in Nat /\ lastEdit \in 0 .. clock
      /\ clock' \in Nat /\ clock <= clock' /\ clock' <= refreshDue /\ clock' <= LastTime /\ clock' \in 0 .. clock'
      /\ lastEdit' \in Nat /\ lastEdit' \in 0 .. clock'
    <2>1. clock \in Nat /\ refreshDue \in Nat /\ failedRefreshes \in Nat /\ lastEdit \in 0 .. clock
        BY DEF NamesInv, SourcesAreSound, EnricherIsRecent
    <2> QED  BY <2>1, <1>0, NamesConstants
<1>b. ASSUME NEW p \in Principals, NEW n \in IamNames
      PROVE  /\ lastTrue[p][n] \in Nat /\ lastTrue[p][n] \in 0 .. clock /\ lastTrue'[p][n] \in 0 .. clock'
             /\ lastTrue'[p][n] \in Nat /\ lastTrue[p][n] <= lastTrue'[p][n]
    <2>1. lastTrue[p] \in [IamNames -> 0 .. clock]
        BY DEF NamesInv, SourcesAreSound
    <2>2. lastTrue[p][n] \in 0 .. clock
        BY <2>1
    <2>3. lastTrue'[p][n] = clock' \/ lastTrue'[p][n] = lastTrue[p][n]
        BY <1>0
    <2> QED  BY <2>2, <2>3, <1>a
<1>1. SourcesAreSound'
    <2>1. ASSUME NEW p \in Principals
          PROVE  lastTrue'[p] \in [IamNames -> 0 .. clock'] /\ lastTrue'[p][iamName[p]] = clock'
        <3>1. iamName[p] \in IamNames
            BY DEF NamesInv, SourcesAreSound
        <3>2. lastTrue'[p] = [n \in IamNames |-> lastTrue'[p][n]]
            BY <1>0
        <3>3. lastTrue'[p] \in [IamNames -> 0 .. clock']
            BY <3>2, <1>b
        <3> QED  BY <1>0, <3>1, <3>3
    <2>2. lastTrue' = [p \in Principals |-> lastTrue'[p]]
        BY <1>0
    <2> QED  BY <1>0, <1>a, <2>1, <2>2 DEF NamesInv, SourcesAreSound
<1>2. TrueMovesOn(lastTrue, lastTrue')
    BY <1>b DEF TrueMovesOn
<1>3. PICK later : later = lastTrue' /\ TrueMovesOn(lastTrue, later)
    BY <1>2
<1>4. EnricherIsRecent'
    <2>1. ASSUME NEW p \in Principals
          PROVE  /\ NameHeld(p, maps[p], refreshDue, later, failedRefreshes)
                 /\ NameHeld(p, identityCache'[p].name, refreshDue, later, failedRefreshes)
                 /\ ~loaded => identityCache'[p].name \notin IamNames
        <3>1. /\ NameHeld(p, maps[p], refreshDue, lastTrue, failedRefreshes)
              /\ NameHeld(p, identityCache[p].name, refreshDue, lastTrue, failedRefreshes)
              /\ ~loaded => identityCache[p].name \notin IamNames
            BY DEF NamesInv, EnricherIsRecent
        <3>2. PICK m, i : m = maps[p] /\ i = identityCache[p].name
            OBVIOUS
        <3>3. /\ NameHeld(p, m, refreshDue, lastTrue, failedRefreshes)
              /\ NameHeld(p, i, refreshDue, lastTrue, failedRefreshes)
              /\ TrueMovesOn(lastTrue, later) /\ refreshDue \in Nat /\ failedRefreshes \in Nat
            BY <3>1, <3>2, <1>3, <1>a
        <3>4. NameHeld(p, m, refreshDue, later, failedRefreshes)
            BY <3>3, HeldLonger
        <3>5. NameHeld(p, i, refreshDue, later, failedRefreshes)
            BY <3>3, HeldLonger
        <3>6. identityCache'[p].name = identityCache[p].name \/ identityCache'[p].name \notin IamNames
            BY <1>0, NamesDiffer
        <3>7. NameHeld(p, identityCache'[p].name, refreshDue, later, failedRefreshes)
            <4>1. CASE identityCache'[p].name = identityCache[p].name
                BY <4>1, <3>2, <3>5
            <4>2. CASE identityCache'[p].name \notin IamNames
                BY <4>2 DEF NameHeld
            <4> QED  BY <3>6, <4>1, <4>2
        <3> QED  BY <3>1, <3>2, <3>4, <3>6, <3>7
    <2>2. identityCache' = [p \in Principals |-> identityCache'[p]]
        BY <1>0
    <2> QED  BY <1>0, <1>a, <1>3, <2>1, <2>2 DEF NamesInv, EnricherIsRecent
<1>5. CacheIsSound'
    <2>1. ASSUME NEW p \in Principals
          PROVE  EntryIsSound(p, actorCache'[p], clock', later, failedRefreshes, lastEdit, written, mapping)
        <3>1. PICK e, now : e = actorCache[p] /\ now = clock'
            OBVIOUS
        <3>2. EntryIsSound(p, e, clock, lastTrue, failedRefreshes, lastEdit, written, mapping)
            BY <3>1 DEF NamesInv, CacheIsSound
        <3>3. EditMoves(clock, lastEdit, written, mapping, lastEdit, written, mapping)
            BY DEF EditMoves
        <3>4. /\ clock \in Nat /\ now \in Nat /\ clock <= now /\ failedRefreshes \in Nat /\ lastEdit \in Nat
              /\ TrueMovesOn(lastTrue, later)
            BY <3>1, <1>a, <1>3
        <3>5. EntryIsSound(p, e, now, later, failedRefreshes, lastEdit, written, mapping)
            BY <3>2, <3>3, <3>4, EntryStays
        <3>6. actorCache'[p] = e \/ actorCache'[p] = NoEntry
            BY <1>0, <3>1
        <3>7. EntryIsSound(p, NoEntry, now, later, failedRefreshes, lastEdit, written, mapping)
            BY DEF EntryIsSound
        <3> QED  BY <3>1, <3>5, <3>6, <3>7
    <2>2. actorCache' = [p \in Principals |-> actorCache'[p]]
        BY <1>0
    <2> QED  BY <1>0, <1>3, <2>1, <2>2 DEF CacheIsSound
<1>6. LookupsAreSound'
    BY <1>0 DEF NamesInv, LookupsAreSound, LookupIsSound
<1>7. PrefetchIsRecent'
    BY <1>0 DEF PrefetchIsRecent
<1> QED
    BY <1>1, <1>4, <1>5, <1>6, <1>7 DEF NamesInv

LEMMA NamesStep ==
    ASSUME NamesInv, [NamesNext]_namesVars
    PROVE  NamesInv'
<1>1. ASSUME UNCHANGED namesVars PROVE NamesInv'
    BY <1>1 DEF namesVars, NamesInv, SourcesAreSound, EnricherIsRecent, CacheIsSound, LookupsAreSound,
                PrefetchIsRecent
<1>2. ASSUME NEW p \in Principals, Rename(p) PROVE NamesInv'
    BY <1>2, RenameStep
<1>3. ASSUME NEW p \in Principals, DumpMapping(p) PROVE NamesInv'
    BY <1>3, DumpStep
<1>4. ASSUME NEW t \in Lookups, CacheName(t) PROVE NamesInv'
    BY <1>4, CacheNameStep
<1>5. ASSUME NEW t \in Lookups, NEW p \in Principals, LookUp(t, p) PROVE NamesInv'
    BY <1>5, LookUpNameStep
<1> QED
    BY <1>1, <1>2, <1>3, <1>4, <1>5, OpenStep, FetchIdentitiesStep, SwapStep, RefreshFailsStep,
       PrefetchStep, StorePrefetchedStep, NamesTickStep DEF NamesNext

\* What is served is an entry of the cache, held for less than ActorTtl.
LEMMA NamesFollow ==
    ASSUME NamesInv
    PROVE  ActorNamesCurrent
<1>0. ASSUME NEW p \in Principals, Fresh(actorCache[p], ActorTtl)
      PROVE  LET e == actorCache[p]
             IN  /\ e.at \in 0 .. clock /\ clock - e.at < ActorTtl /\ clock \in Nat
                 /\ NameHeld(p, e.name, e.at, lastTrue, failedRefreshes)
                 /\ e.by = "prefetch" \/ Heeds(p, e.name, e.at, lastEdit, written, mapping)
    <2>1. /\ actorCache[p].at <= clock /\ clock - actorCache[p].at < ActorTtl
        BY <1>0 DEF Fresh
    <2>2. clock \in Nat /\ clock <= LastTime
        BY DEF NamesInv, EnricherIsRecent
    <2>3. actorCache[p] # NoEntry
        BY <2>1, <2>2, NamesConstants DEF NoEntry
    <2>4. EntryIsSound(p, actorCache[p], clock, lastTrue, failedRefreshes, lastEdit, written, mapping)
        BY DEF NamesInv, CacheIsSound
    <2> QED  BY <2>1, <2>2, <2>3, <2>4 DEF EntryIsSound
<1>1. NamesAreRecent
    <2> SUFFICES ASSUME NEW p \in Principals, NEW n \in Served(p) \cap IamNames
                 PROVE  clock - lastTrue[p][n] < ActorTtl + RefreshEvery * (1 + failedRefreshes)
        BY DEF NamesAreRecent
    <2>1. Fresh(actorCache[p], ActorTtl) /\ n = actorCache[p].name /\ n \in IamNames
        BY DEF Served
    <2>2. PICK m : m = actorCache[p].at
        OBVIOUS
    <2>3. /\ m \in 0 .. clock /\ clock - m < ActorTtl /\ clock \in Nat
          /\ m - lastTrue[p][n] <= Staleness(failedRefreshes)
        BY <1>0, <2>1, <2>2 DEF NameHeld
    <2>4. lastTrue[p][n] \in Nat /\ Staleness(failedRefreshes) \in Nat
        <3>1. lastTrue[p] \in [IamNames -> 0 .. clock] /\ failedRefreshes \in Nat
            BY DEF NamesInv, SourcesAreSound, EnricherIsRecent
        <3>2. lastTrue[p][n] \in 0 .. clock
            BY <3>1, <2>1
        <3> QED  BY <3>1, <3>2, <2>3, StalenessGrows
    <2>5. clock - lastTrue[p][n] < ActorTtl + Staleness(failedRefreshes)
        BY <2>3, <2>4, NamesConstants
    <2> QED  BY <2>5 DEF Staleness
<1>2. EditsAreHeeded
    <2> SUFFICES ASSUME NEW p \in Principals, Fresh(actorCache[p], ActorTtl), mapping[p] # Raw,
                        clock - lastEdit >= ActorTtl, written
                 PROVE  actorCache[p].by = "prefetch" \/ actorCache[p].name = mapping[p]
        BY DEF EditsAreHeeded
    <2>1. PICK m : m = actorCache[p].at
        OBVIOUS
    <2>2. m \in 0 .. clock /\ clock - m < ActorTtl /\ clock \in Nat /\ lastEdit \in 0 .. clock
        BY <1>0, <2>1 DEF NamesInv, SourcesAreSound
    <2>3. m > lastEdit
        BY <2>2, NamesConstants
    <2> QED  BY <1>0, <2>1, <2>3 DEF Heeds
<1> QED
    BY <1>1, <1>2 DEF ActorNamesCurrent

LEMMA NamesStart == NamesInit => NamesInv
<1> SUFFICES ASSUME NamesInit PROVE NamesInv
    OBVIOUS
<1>1. SourcesAreSound
    <2>1. 0 \in 0 .. 0 /\ 0 \in 0 .. MaxRenamings
        BY NamesConstants
    <2>2. \A p \in Principals :
              /\ iamName[p] = <<"iam", 0>> /\ iamName[p] \in IamNames /\ mapping[p] \notin IamNames
              /\ lastTrue[p] \in [IamNames -> 0 .. 0] /\ lastTrue[p][iamName[p]] = 0
        BY <2>1, NamesDiffer DEF NamesInit
    <2> QED  BY <2>1, <2>2 DEF NamesInit, SourcesAreSound
<1>2. EnricherIsRecent
    <2>1. \A p \in Principals : maps[p] \notin IamNames /\ identityCache[p].name \notin IamNames
        BY NamesDiffer DEF NamesInit
    <2> QED  BY <2>1, NamesConstants DEF NamesInit, EnricherIsRecent, NameHeld
<1>3. CacheIsSound /\ LookupsAreSound /\ PrefetchIsRecent
    BY DEF NamesInit, CacheIsSound, LookupsAreSound, PrefetchIsRecent, EntryIsSound, LookupIsSound
<1> QED  BY <1>1, <1>2, <1>3 DEF NamesInv

\* However old what the enricher, its cache, a prefetch and enrich_actor's cache hold, and
\* in whatever order lookups, refreshes and edits of the mapping come, a name that is served
\* was the principal's within the bound, and an edit of the mapping is heeded by all but a
\* prefetch (src/identity/enricher.py, src/product/actor_enrichment.py).
THEOREM NamesStayCurrent == NamesSpec => []ActorNamesCurrent
<1>1. NamesInit => NamesInv
    BY NamesStart
<1>2. NamesInv => ActorNamesCurrent
    BY NamesFollow
<1> QED
    BY <1>1, <1>2, NamesStep, PTL DEF NamesSpec

-----------------------------------------------------------------------------
(* The events page *)

ListRecords == [filters : Filters, page : 0 .. LastPage, n : Nat, read : BOOLEAN,
                marks : [Rows -> Marks \cup {"open"}]]

\* A list that is still to be answered is what the controls say, and so is the last, once
\* none is.
ListIsCurrent ==
    /\ filters \in Filters /\ page \in 0 .. LastPage /\ acts \in Nat
    /\ triage \in [Rows -> Marks \cup {"open"}]
    /\ \A c \in triageCalls : c.id \in Rows /\ c.mark \in Marks
    /\ drawer \in Rows \cup {Unanswered}
    /\ \A c \in detailCalls : c.id \in Rows
    /\ listCalls \subseteq ListRecords /\ list \subseteq ListRecords
    /\ \A c \in listCalls : c.filters = filters /\ c.page = page
    /\ listCalls = {} => pageError = TRUE \/ \E l \in list : l.filters = filters /\ l.page = page

SummaryIsCurrent ==
    /\ \A c \in summaryCalls : c.filters = filters
    /\ summaryCalls = {} => summaryError = TRUE \/ summary = filters

PanelIsCurrent ==
    /\ \A c \in panelCalls : c.actor = actor
    /\ panel = actor \/ panel = Unanswered

HeartbeatIsCurrent ==
    /\ \A n \in statusCalls : n = polls
    /\ statusCalls = {} => statusError = TRUE \/ health = polls

\* The youngest call for a detail is the expanded row's, or it was answered: all that are
\* still to be answered are older, and no answer came out of turn.
DetailFollows ==
    overtaken = TRUE \/ expandedError = TRUE \/ expanded = Unanswered
    \/ (\E c \in detailCalls :
           c.id = expanded /\ c.n > arrived /\ \A d \in detailCalls \ {c} : d.n < c.n)
    \/ (detail = expanded /\ \A d \in detailCalls : d.n < arrived)

DetailIsCurrent ==
    /\ acts \in Nat /\ arrived \in 0 .. acts /\ IsFiniteSet(detailCalls)
    /\ \A c \in detailCalls : c.n \in 0 .. acts
    /\ DetailFollows

ViewInv ==
    ListIsCurrent /\ SummaryIsCurrent /\ PanelIsCurrent /\ HeartbeatIsCurrent /\ DetailIsCurrent

LEMMA ViewConstants ==
    LastPage \in Nat /\ MaxActs \in Nat /\ CallFaults \in Nat /\ 0 \in 0 .. LastPage
BY EventsViewAssumption

-----------------------------------------------------------------------------

LEMMA NewList ==
    ASSUME NEW f \in Filters, NEW p \in 0 .. LastPage, NEW n \in Nat
    PROVE  /\ ListCall(f, p, n) \in ListRecords
           /\ ListCall(f, p, n).filters = f /\ ListCall(f, p, n).page = p
<1>1. [e \in Rows |-> "open"] \in [Rows -> Marks \cup {"open"}]
    OBVIOUS
<1> QED
    BY <1>1 DEF ListCall, ListRecords

LEMMA MarkedList ==
    ASSUME NEW l \in ListRecords, NEW newMarks \in [Rows -> Marks \cup {"open"}], NEW k,
           k = [l EXCEPT !.marks = newMarks]
    PROVE  k \in ListRecords /\ k.filters = l.filters /\ k.page = l.page
BY DEF ListRecords

LEMMA ReadList ==
    ASSUME NEW l \in ListRecords, NEW newMarks \in [Rows -> Marks \cup {"open"}], NEW k,
           k = [l EXCEPT !.read = TRUE, !.marks = newMarks]
    PROVE  k \in ListRecords /\ k.filters = l.filters /\ k.page = l.page
<1>1. k = [[l EXCEPT !.read = TRUE] EXCEPT !.marks = newMarks]
    OBVIOUS
<1>2. PICK m : m = [l EXCEPT !.read = TRUE]
    OBVIOUS
<1>3. m \in ListRecords /\ m.filters = l.filters /\ m.page = l.page
    BY <1>2 DEF ListRecords
<1> QED
    BY <1>1, <1>2, <1>3, MarkedList

LEMMA ListFrame ==
    ASSUME ListIsCurrent, acts' \in Nat, pageError' = pageError \/ pageError' = TRUE,
           UNCHANGED <<filters, page, listCalls, list, triage>>,
           \A c \in triageCalls' : c \in triageCalls \/ (c.id \in Rows /\ c.mark \in Marks),
           drawer' \in Rows \cup {Unanswered}, \A c \in detailCalls' : c.id \in Rows
    PROVE  ListIsCurrent'
BY DEF ListIsCurrent

\* Only these touch the list, its controls, the triage or what it may mark.
LEMMA ListStep ==
    ASSUME ViewInv, ViewNext
    PROVE  ListIsCurrent'
<1>0. /\ ListIsCurrent /\ acts \in Nat /\ filters \in Filters /\ page \in 0 .. LastPage
    BY DEF ViewInv, ListIsCurrent
<1>1. CASE ChangeFilters
    <2>1. PICK f \in Filters :
              filters' = f /\ listCalls' = {} \cup {ListCall(f, 0, acts')}
        BY <1>1 DEF ChangeFilters, Abort
    <2>2. page' = 0 /\ acts' \in Nat /\ UNCHANGED <<list, triage, triageCalls, drawer, detailCalls>>
        BY <1>1, <1>0 DEF ChangeFilters, Acts, Spends, triageVars
    <2>3. listCalls' # {} /\ listCalls' \subseteq ListRecords /\ \A c \in listCalls' : c.filters = f /\ c.page = 0
        BY <2>1, <2>2, NewList, ViewConstants
    <2> QED  BY <1>0, <2>1, <2>2, <2>3, ViewConstants DEF ListIsCurrent
<1>2. CASE TurnPage
    <2>1. PICK p \in 0 .. LastPage : page' = p /\ listCalls' = {} \cup {ListCall(filters, p, acts')}
        BY <1>2 DEF TurnPage, Abort
    <2>2. acts' \in Nat /\ UNCHANGED <<filters, list, triage, triageCalls, drawer, detailCalls>>
        BY <1>2, <1>0 DEF TurnPage, Acts, Spends, triageVars, detailVars
    <2>3. listCalls' # {} /\ listCalls' \subseteq ListRecords /\ \A c \in listCalls' : c.filters = filters /\ c.page = p
        BY <1>0, <2>1, <2>2, NewList
    <2> QED  BY <1>0, <2>1, <2>2, <2>3 DEF ListIsCurrent
<1>3. ASSUME NEW c \in listCalls, ServeList(c) PROVE ListIsCurrent'
    <2>1. PICK k : k = [c EXCEPT !.read = TRUE, !.marks = triage]
        OBVIOUS
    <2>2. listCalls' = (listCalls \ {c}) \cup {k}
        BY <1>3, <2>1 DEF ServeList
    <2>3. UNCHANGED <<filters, page, list, triage, triageCalls, drawer, detailCalls, acts>>
        BY <1>3 DEF ServeList, triageVars, detailVars
    <2>4. k \in ListRecords /\ k.filters = c.filters /\ k.page = c.page
        BY <1>0, <2>1, ReadList DEF ListIsCurrent
    <2> QED  BY <1>0, <2>2, <2>3, <2>4 DEF ListIsCurrent
<1>4. ASSUME NEW c \in listCalls, ListArrives(c) PROVE ListIsCurrent'
    <2>1. list' = {c} /\ listCalls' = listCalls \ {c}
          /\ UNCHANGED <<filters, page, triage, triageCalls, drawer, detailCalls, acts>>
        BY <1>4 DEF ListArrives, triageVars, detailVars
    <2> QED  BY <1>0, <2>1 DEF ListIsCurrent
<1>5. ASSUME NEW c \in listCalls, ListFails(c) PROVE ListIsCurrent'
    <2>1. listCalls' = listCalls \ {c} /\ pageError' = TRUE
          /\ UNCHANGED <<filters, page, list, triage, triageCalls, drawer, detailCalls, acts>>
        BY <1>5 DEF ListFails, BreakPage, triageVars, detailVars
    <2> QED  BY <1>0, <2>1 DEF ListIsCurrent
<1>6. ASSUME NEW c \in triageCalls, SaveTriage(c) PROVE ListIsCurrent'
    <2>1. PICK k : k = [c EXCEPT !.saved = TRUE]
        OBVIOUS
    <2>2. triage' = [triage EXCEPT ![c.id] = c.mark] /\ triageCalls' = (triageCalls \ {c}) \cup {k}
          /\ UNCHANGED <<filters, page, listCalls, list, pageError, drawer, detailCalls, acts>>
        BY <1>6, <2>1 DEF SaveTriage, listVars, errorVars, detailVars
    <2>3. k.id = c.id /\ k.mark = c.mark
        BY <2>1, <1>0 DEF ListIsCurrent
    <2>4. c.id \in Rows /\ c.mark \in Marks
        BY <1>0 DEF ListIsCurrent
    <2>5. triage' \in [Rows -> Marks \cup {"open"}]
        BY <1>0, <2>2, <2>4 DEF ListIsCurrent
    <2> QED  BY <1>0, <2>2, <2>3, <2>4, <2>5 DEF ListIsCurrent
<1>7. ASSUME NEW c \in triageCalls, TriageArrives(c) PROVE ListIsCurrent'
    <2>1. triageCalls' = triageCalls \ {c} /\ drawer' = c.id
          /\ list' = {[l EXCEPT !.marks[c.id] = c.mark] : l \in list}
          /\ UNCHANGED <<filters, page, listCalls, triage, pageError, detailCalls, acts>>
        BY <1>7 DEF TriageArrives, errorVars
    <2>2. c.id \in Rows /\ c.mark \in Marks
        BY <1>0 DEF ListIsCurrent
    <2>3. ASSUME NEW l \in list
          PROVE  LET k == [l EXCEPT !.marks[c.id] = c.mark]
                 IN  k \in ListRecords /\ k.filters = l.filters /\ k.page = l.page
        <3>1. l \in ListRecords /\ l.marks \in [Rows -> Marks \cup {"open"}]
            BY <1>0 DEF ListIsCurrent, ListRecords
        <3>2. PICK m : m = [l.marks EXCEPT ![c.id] = c.mark]
            OBVIOUS
        <3>3. m \in [Rows -> Marks \cup {"open"}]
            BY <2>2, <3>1, <3>2
        <3>4. PICK k : k = [l EXCEPT !.marks = m]
            OBVIOUS
        <3>5. k \in ListRecords /\ k.filters = l.filters /\ k.page = l.page
            BY <3>1, <3>3, <3>4, MarkedList
        <3>6. k = [l EXCEPT !.marks[c.id] = c.mark]
            BY <3>2, <3>4
        <3> QED  BY <3>5, <3>6
    <2>4. list' \subseteq ListRecords
        BY <2>1, <2>3
    <2>5. ASSUME NEW l \in list PROVE \E k \in list' : k.filters = l.filters /\ k.page = l.page
        <3>1. PICK k : k = [l EXCEPT !.marks[c.id] = c.mark]
            OBVIOUS
        <3>2. k \in list'
            BY <2>1, <3>1
        <3> QED  BY <2>3, <3>1, <3>2
    <2> QED  BY <1>0, <2>1, <2>2, <2>4, <2>5 DEF ListIsCurrent
<1>8. ASSUME NEW c \in triageCalls, TriageFails(c) PROVE ListIsCurrent'
    <2>1. triageCalls' = triageCalls \ {c}
          /\ UNCHANGED <<filters, page, listCalls, list, triage, pageError, drawer, detailCalls, acts>>
        BY <1>8 DEF TriageFails, listVars, errorVars, detailVars
    <2> QED  BY <1>0, <2>1 DEF ListIsCurrent
<1>9. CASE Triage
    <2>1. PICK m \in Marks :
              triageCalls' = triageCalls \cup {[id |-> drawer, mark |-> m, n |-> acts', saved |-> FALSE]}
        BY <1>9 DEF Triage
    <2>2. acts' \in Nat /\ drawer # Unanswered
          /\ UNCHANGED <<filters, page, listCalls, list, triage, pageError, drawer, detailCalls>>
        BY <1>9, <1>0 DEF Triage, Acts, Spends, listVars, errorVars, detailVars
    <2>3. drawer \in Rows
        BY <1>0, <2>2 DEF ListIsCurrent
    <2>4. \A c \in triageCalls' : c \in triageCalls \/ (c.id \in Rows /\ c.mark \in Marks)
        BY <2>1, <2>3
    <2> QED  BY <1>0, <2>2, <2>3, <2>4 DEF ListIsCurrent
<1>10. CASE ToggleExpand
    <2>1. PICK e \in Rows :
              \/ drawer' = Unanswered /\ detailCalls' = detailCalls
              \/ drawer' = e /\ detailCalls' = detailCalls \cup {[id |-> e, n |-> acts']}
        BY <1>10 DEF ToggleExpand
    <2>2. acts' \in Nat /\ UNCHANGED <<filters, page, listCalls, list, triage, triageCalls, pageError>>
        BY <1>10, <1>0 DEF ToggleExpand, Acts, Spends, listVars, errorVars, triageVars
    <2>3. \A c \in detailCalls' : c.id \in Rows
        BY <1>0, <2>1 DEF ListIsCurrent
    <2> QED  BY <1>0, <2>1, <2>2, <2>3 DEF ListIsCurrent
<1>11. ASSUME NEW c \in detailCalls, DetailArrives(c) PROVE ListIsCurrent'
    <2>1. detailCalls' = detailCalls \ {c} /\ drawer' = c.id
          /\ UNCHANGED <<filters, page, listCalls, list, triage, triageCalls, pageError, acts>>
        BY <1>11 DEF DetailArrives, listVars, errorVars, triageVars
    <2> QED  BY <1>0, <2>1 DEF ListIsCurrent
<1>12. ASSUME NEW c \in detailCalls, DetailFails(c) PROVE ListIsCurrent'
    <2>1. detailCalls' = detailCalls \ {c}
          /\ UNCHANGED <<filters, page, listCalls, list, triage, triageCalls, pageError, drawer, acts>>
        BY <1>12 DEF DetailFails, listVars, errorVars, triageVars
    <2> QED  BY <1>0, <2>1 DEF ListIsCurrent
<1>13. CASE CloseDrawer
    <2>1. drawer' = Unanswered /\ acts' \in Nat
          /\ UNCHANGED <<filters, page, listCalls, list, triage, triageCalls, pageError, detailCalls>>
        BY <1>13, <1>0 DEF CloseDrawer, Acts, Spends, listVars, errorVars, triageVars
    <2> QED  BY <1>0, <2>1 DEF ListIsCurrent
<1>14. CASE OptionsEnd
    <2>1. (pageError' = pageError \/ pageError' = TRUE)
          /\ UNCHANGED <<filters, page, listCalls, list, triage, triageCalls, drawer, detailCalls, acts>>
        BY <1>14 DEF OptionsEnd, BreakPage, listVars, triageVars, detailVars
    <2> QED  BY <1>0, <2>1 DEF ListIsCurrent
<1>15. ASSUME \/ \E c \in summaryCalls : SummaryEnds(c)
              \/ \E c \in panelCalls : PanelEnds(c)
              \/ \E n \in statusCalls : PollEnds(n)
       PROVE  ListIsCurrent'
    <2>1. UNCHANGED <<filters, page, listCalls, list, triage, triageCalls, drawer, detailCalls, pageError, acts>>
        BY <1>15 DEF SummaryEnds, PanelEnds, PollEnds, listVars, triageVars, detailVars, errorVars
    <2> QED  BY <1>0, <2>1 DEF ListIsCurrent
<1>16. CASE ShowActor \/ PollStatus
    <2>1. acts' \in Nat /\ UNCHANGED <<filters, page, listCalls, list, triage, triageCalls, drawer, detailCalls, pageError>>
        BY <1>16, <1>0 DEF ShowActor, PollStatus, Acts, Spends, listVars, triageVars, detailVars, errorVars
    <2> QED  BY <1>0, <2>1 DEF ListIsCurrent
<1> QED
    BY <1>1, <1>2, <1>3, <1>4, <1>5, <1>6, <1>7, <1>8, <1>9, <1>10, <1>11, <1>12, <1>13, <1>14, <1>15,
       <1>16 DEF ViewNext

LEMMA FigureStep ==
    ASSUME ViewInv, ViewNext
    PROVE  SummaryIsCurrent'
<1>0. SummaryIsCurrent
    BY DEF ViewInv
<1>1. CASE ChangeFilters
    <2>1. PICK f \in Filters : filters' = f /\ summaryCalls' = {} \cup {[filters |-> f, n |-> acts']}
        BY <1>1 DEF ChangeFilters, Abort
    <2>2. summaryCalls' # {} /\ \A c \in summaryCalls' : c.filters = filters'
        BY <2>1
    <2> QED  BY <2>2 DEF SummaryIsCurrent
<1>2. ASSUME NEW c \in summaryCalls, SummaryEnds(c) PROVE SummaryIsCurrent'
    <2>1. /\ summaryCalls' = summaryCalls \ {c} /\ filters' = filters
          /\ summary' = c.filters \/ summaryError' = TRUE
        BY <1>2 DEF SummaryEnds, listVars
    <2> QED  BY <1>0, <2>1 DEF SummaryIsCurrent
<1>3. ASSUME UNCHANGED <<filters, summaryVars>> PROVE SummaryIsCurrent'
    BY <1>0, <1>3 DEF SummaryIsCurrent, summaryVars
<1>4. CASE \/ TurnPage \/ OptionsEnd \/ ShowActor \/ ToggleExpand \/ CloseDrawer \/ Triage \/ PollStatus
    BY <1>3, <1>4 DEF TurnPage, OptionsEnd, ShowActor, ToggleExpand, CloseDrawer, Triage, PollStatus, listVars
<1>5. CASE \E c \in listCalls : ServeList(c) \/ ListArrives(c) \/ ListFails(c)
    BY <1>3, <1>5 DEF ServeList, ListArrives, ListFails
<1>6. CASE \/ \E c \in panelCalls : PanelEnds(c)
           \/ \E c \in detailCalls : DetailArrives(c) \/ DetailFails(c)
           \/ \E n \in statusCalls : PollEnds(n)
    BY <1>3, <1>6 DEF PanelEnds, DetailArrives, DetailFails, PollEnds, listVars
<1>7. CASE \E c \in triageCalls : SaveTriage(c) \/ TriageArrives(c) \/ TriageFails(c)
    BY <1>3, <1>7 DEF SaveTriage, TriageArrives, TriageFails, listVars
<1> QED
    BY <1>1, <1>2, <1>4, <1>5, <1>6, <1>7 DEF ViewNext

LEMMA PanelStep ==
    ASSUME ViewInv, ViewNext
    PROVE  PanelIsCurrent'
<1>0. PanelIsCurrent
    BY DEF ViewInv
<1>1. CASE ShowActor
    <2>1. PICK a : /\ actor' = a
                   /\ panelCalls' = {} \cup (IF a = Unanswered THEN {} ELSE {[actor |-> a, n |-> acts']})
                   /\ panel' = Unanswered
        BY <1>1 DEF ShowActor, Abort
    <2> QED  BY <2>1 DEF PanelIsCurrent
<1>2. ASSUME NEW c \in panelCalls, PanelEnds(c) PROVE PanelIsCurrent'
    <2>1. /\ panelCalls' = panelCalls \ {c} /\ actor' = actor
          /\ panel' = c.actor \/ panel' = panel
        BY <1>2 DEF PanelEnds
    <2> QED  BY <1>0, <2>1 DEF PanelIsCurrent
<1>3. ASSUME UNCHANGED panelVars PROVE PanelIsCurrent'
    BY <1>0, <1>3 DEF PanelIsCurrent, panelVars
<1>4. ASSUME BreakPage, UNCHANGED actor PROVE PanelIsCurrent'
    BY <1>4 DEF BreakPage, Abort, PanelIsCurrent
<1>5. CASE \/ ChangeFilters \/ TurnPage \/ ToggleExpand \/ CloseDrawer \/ Triage \/ PollStatus
    BY <1>3, <1>5 DEF ChangeFilters, TurnPage, ToggleExpand, CloseDrawer, Triage, PollStatus
<1>6. CASE OptionsEnd
    BY <1>3, <1>4, <1>6 DEF OptionsEnd
<1>7. CASE \E c \in listCalls : ServeList(c) \/ ListArrives(c) \/ ListFails(c)
    BY <1>3, <1>4, <1>7 DEF ServeList, ListArrives, ListFails
<1>8. CASE \/ \E c \in summaryCalls : SummaryEnds(c)
           \/ \E c \in detailCalls : DetailArrives(c) \/ DetailFails(c)
           \/ \E n \in statusCalls : PollEnds(n)
    BY <1>3, <1>8 DEF SummaryEnds, DetailArrives, DetailFails, PollEnds
<1>9. CASE \E c \in triageCalls : SaveTriage(c) \/ TriageArrives(c) \/ TriageFails(c)
    BY <1>3, <1>9 DEF SaveTriage, TriageArrives, TriageFails
<1> QED
    BY <1>1, <1>2, <1>5, <1>6, <1>7, <1>8, <1>9 DEF ViewNext

LEMMA HeartbeatStep ==
    ASSUME ViewInv, ViewNext
    PROVE  HeartbeatIsCurrent'
<1>0. HeartbeatIsCurrent
    BY DEF ViewInv
<1>1. CASE PollStatus
    <2>1. statusCalls' = {} \cup {polls'}
        BY <1>1 DEF PollStatus, Abort
    <2> QED  BY <2>1 DEF HeartbeatIsCurrent
<1>2. ASSUME NEW n \in statusCalls, PollEnds(n) PROVE HeartbeatIsCurrent'
    <2>1. /\ statusCalls' = statusCalls \ {n} /\ polls' = polls
          /\ health' = n \/ statusError' = TRUE
        BY <1>2 DEF PollEnds
    <2> QED  BY <1>0, <2>1 DEF HeartbeatIsCurrent
<1>3. ASSUME UNCHANGED statusVars PROVE HeartbeatIsCurrent'
    BY <1>0, <1>3 DEF HeartbeatIsCurrent, statusVars
<1>4. CASE \/ ChangeFilters \/ TurnPage \/ ToggleExpand \/ CloseDrawer \/ Triage \/ ShowActor \/ OptionsEnd
    BY <1>3, <1>4 DEF ChangeFilters, TurnPage, ToggleExpand, CloseDrawer, Triage, ShowActor, OptionsEnd
<1>5. CASE \E c \in listCalls : ServeList(c) \/ ListArrives(c) \/ ListFails(c)
    BY <1>3, <1>5 DEF ServeList, ListArrives, ListFails
<1>6. CASE \/ \E c \in summaryCalls : SummaryEnds(c)
           \/ \E c \in panelCalls : PanelEnds(c)
           \/ \E c \in detailCalls : DetailArrives(c) \/ DetailFails(c)
    BY <1>3, <1>6 DEF SummaryEnds, PanelEnds, DetailArrives, DetailFails
<1>7. CASE \E c \in triageCalls : SaveTriage(c) \/ TriageArrives(c) \/ TriageFails(c)
    BY <1>3, <1>7 DEF SaveTriage, TriageArrives, TriageFails
<1> QED
    BY <1>1, <1>2, <1>4, <1>5, <1>6, <1>7 DEF ViewNext

LEMMA DetailFrame ==
    ASSUME DetailIsCurrent, acts' = acts \/ acts' = acts + 1,
           UNCHANGED <<detailCalls, arrived, overtaken>>,
           expanded' = Unanswered \/ UNCHANGED <<expanded, detail, expandedError>>
    PROVE  DetailIsCurrent'
<1>1. acts \in Nat /\ acts' \in Nat /\ acts <= acts'
    BY DEF DetailIsCurrent
<1>2. arrived' \in 0 .. acts' /\ \A c \in detailCalls' : c.n \in 0 .. acts'
    BY <1>1 DEF DetailIsCurrent
<1>3. DetailFollows'
    BY DEF DetailIsCurrent, DetailFollows
<1> QED
    BY <1>1, <1>2, <1>3 DEF DetailIsCurrent

\* The call of a row that is opened is the youngest.
LEMMA ToggleStep ==
    ASSUME ViewInv, ToggleExpand
    PROVE  DetailIsCurrent'
<1>0. DetailIsCurrent
    BY DEF ViewInv
<1>1. PICK e \in Rows :
          \/ expanded' = Unanswered /\ detailCalls' = detailCalls
          \/ expanded' = e /\ detailCalls' = detailCalls \cup {[id |-> e, n |-> acts']}
    BY DEF ToggleExpand
<1>2. acts' = acts + 1 /\ UNCHANGED <<arrived, overtaken>>
    BY DEF ToggleExpand, Acts, Spends
<1>3. acts \in Nat /\ acts' \in Nat /\ arrived \in 0 .. acts /\ arrived' \in 0 .. acts' /\ acts' \in 0 .. acts'
    BY <1>0, <1>2 DEF DetailIsCurrent
<1>4. CASE expanded' = Unanswered /\ detailCalls' = detailCalls
    <2>1. \A c \in detailCalls : c.n \in 0 .. acts'
        BY <1>0, <1>2, <1>3 DEF DetailIsCurrent
    <2> QED  BY <1>0, <1>3, <1>4, <2>1 DEF DetailIsCurrent, DetailFollows
<1>5. CASE expanded' = e /\ detailCalls' = detailCalls \cup {[id |-> e, n |-> acts']}
    <2>1. PICK k : k = [id |-> e, n |-> acts']
        OBVIOUS
    <2>2. detailCalls' = detailCalls \cup {k} /\ k.id = e /\ k.n = acts'
        BY <1>5, <2>1
    <2>3. IsFiniteSet(detailCalls')
        BY <1>0, <2>2, FS_AddElement DEF DetailIsCurrent
    <2>4. \A c \in detailCalls : c.n \in 0 .. acts /\ c.n \in 0 .. acts' /\ c.n < acts'
        BY <1>0, <1>2, <1>3 DEF DetailIsCurrent
    <2>5. k.n > arrived' /\ \A d \in detailCalls' \ {k} : d.n < k.n
        BY <1>2, <1>3, <2>2, <2>4
    <2>6. DetailFollows'
        BY <1>5, <2>2, <2>5 DEF DetailFollows
    <2> QED  BY <1>3, <2>2, <2>3, <2>4, <2>6 DEF DetailIsCurrent
<1> QED
    BY <1>1, <1>4, <1>5

LEMMA DetailArrivesStep ==
    ASSUME ViewInv, NEW c \in detailCalls, DetailArrives(c)
    PROVE  DetailIsCurrent'
<1>0. /\ DetailIsCurrent /\ acts \in Nat /\ arrived \in 0 .. acts /\ c.n \in 0 .. acts
      /\ detailCalls' = detailCalls \ {c} /\ detail' = c.id /\ acts' = acts
      /\ arrived' = IF c.n > arrived THEN c.n ELSE arrived
      /\ c.n # 0 => expanded' = expanded
      /\ c.n = 0 => expanded' = c.id
    BY DEF ViewInv, DetailIsCurrent, DetailArrives
<1>1. c.n # 0 => expandedError' = expandedError
    BY DEF DetailArrives
<1>2. arrived' \in 0 .. acts' /\ IsFiniteSet(detailCalls') /\ \A d \in detailCalls' : d.n \in 0 .. acts'
    BY <1>0, FS_RemoveElement DEF DetailIsCurrent
<1>3. \/ overtaken' = TRUE
      \/ overtaken # TRUE /\ ~(c.n < arrived) /\ ~(c.n = 0 /\ Cardinality(detailCalls) > 1)
    BY DEF DetailArrives
<1>4. ASSUME overtaken # TRUE, ~(c.n < arrived), ~(c.n = 0 /\ Cardinality(detailCalls) > 1)
      PROVE  DetailFollows'
    <2>1. CASE c.n = 0
        <3>1. IsFiniteSet(detailCalls) /\ Cardinality(detailCalls) \in Nat /\ Cardinality(detailCalls) <= 1
            BY <1>0, <1>4, <2>1, FS_CardinalityType DEF DetailIsCurrent
        <3>2. Cardinality(detailCalls \ {c}) = Cardinality(detailCalls) - 1
            BY <3>1, FS_RemoveElement
        <3>3. IsFiniteSet(detailCalls \ {c}) /\ Cardinality(detailCalls \ {c}) \in Nat
            BY <3>1, FS_RemoveElement, FS_CardinalityType
        <3>4. Cardinality(detailCalls \ {c}) = 0
            BY <3>1, <3>2, <3>3
        <3>5. detailCalls' = {}
            BY <1>0, <3>3, <3>4, FS_EmptySet
        <3> QED  BY <1>0, <2>1, <3>5 DEF DetailFollows
    <2>2. CASE c.n # 0
        <3>1. expanded' = expanded /\ expandedError' = expandedError /\ arrived' = c.n
            BY <1>0, <1>1, <1>4, <2>2
        <3>2. CASE expandedError = TRUE \/ expanded = Unanswered
            BY <3>1, <3>2 DEF DetailFollows
        <3>3. CASE \E k \in detailCalls :
                      k.id = expanded /\ k.n > arrived /\ \A d \in detailCalls \ {k} : d.n < k.n
            <4>1. PICK k \in detailCalls :
                      k.id = expanded /\ k.n > arrived /\ \A d \in detailCalls \ {k} : d.n < k.n
                BY <3>3
            <4>2. CASE k = c
                <5>1. detail' = expanded' /\ \A d \in detailCalls' : d.n < arrived'
                    BY <1>0, <3>1, <4>1, <4>2
                <5> QED  BY <5>1 DEF DetailFollows
            <4>3. CASE k # c
                <5>1. k \in detailCalls' /\ c.n < k.n /\ k.n \in 0 .. acts
                    BY <1>0, <4>1, <4>3 DEF DetailIsCurrent
                <5>2. k.id = expanded' /\ k.n > arrived' /\ \A d \in detailCalls' \ {k} : d.n < k.n
                    BY <1>0, <3>1, <4>1, <5>1
                <5> QED  BY <5>1, <5>2 DEF DetailFollows
            <4> QED  BY <4>2, <4>3
        <3>4. CASE detail = expanded /\ \A d \in detailCalls : d.n < arrived
            BY <1>4, <3>4
        <3> QED  BY <1>0, <1>4, <3>2, <3>3, <3>4 DEF DetailIsCurrent, DetailFollows
    <2> QED  BY <2>1, <2>2
<1>5. DetailFollows'
    BY <1>3, <1>4 DEF DetailFollows
<1> QED
    BY <1>0, <1>2, <1>5 DEF DetailIsCurrent

LEMMA DetailFailsStep ==
    ASSUME ViewInv, NEW c \in detailCalls, DetailFails(c)
    PROVE  DetailIsCurrent'
<1>0. DetailIsCurrent /\ detailCalls' = detailCalls \ {c} /\ expandedError' = TRUE /\ UNCHANGED <<acts, arrived>>
    BY DEF ViewInv, DetailFails
<1>1. IsFiniteSet(detailCalls')
    BY <1>0, FS_RemoveElement DEF DetailIsCurrent
<1> QED
    BY <1>0, <1>1 DEF DetailIsCurrent, DetailFollows

LEMMA DetailStep ==
    ASSUME ViewInv, ViewNext
    PROVE  DetailIsCurrent'
<1>0. DetailIsCurrent
    BY DEF ViewInv
<1>1. ASSUME UNCHANGED detailVars, acts' = acts \/ acts' = acts + 1 PROVE DetailIsCurrent'
    BY <1>0, <1>1, DetailFrame DEF detailVars
<1>2. CASE ChangeFilters \/ CloseDrawer
    <2>1. acts' = acts + 1 /\ UNCHANGED <<detailCalls, arrived, overtaken>> /\ expanded' = Unanswered
        BY <1>2 DEF ChangeFilters, CloseDrawer, Acts, Spends
    <2> QED  BY <1>0, <2>1, DetailFrame
<1>3. CASE TurnPage \/ ShowActor \/ Triage \/ PollStatus
    <2>1. acts' = acts + 1 /\ UNCHANGED detailVars
        BY <1>3 DEF TurnPage, ShowActor, Triage, PollStatus, Acts, Spends
    <2> QED  BY <1>1, <2>1
<1>4. CASE OptionsEnd
    <2>1. acts' = acts /\ UNCHANGED detailVars
        BY <1>4 DEF OptionsEnd
    <2> QED  BY <1>1, <2>1
<1>5. CASE \E c \in listCalls : ServeList(c) \/ ListArrives(c) \/ ListFails(c)
    <2>1. acts' = acts /\ UNCHANGED detailVars
        BY <1>5 DEF ServeList, ListArrives, ListFails
    <2> QED  BY <1>1, <2>1
<1>6. CASE \/ \E c \in summaryCalls : SummaryEnds(c)
           \/ \E c \in panelCalls : PanelEnds(c)
           \/ \E n \in statusCalls : PollEnds(n)
    <2>1. acts' = acts /\ UNCHANGED detailVars
        BY <1>6 DEF SummaryEnds, PanelEnds, PollEnds
    <2> QED  BY <1>1, <2>1
<1>7. CASE \E c \in triageCalls : SaveTriage(c) \/ TriageArrives(c) \/ TriageFails(c)
    <2>1. acts' = acts /\ UNCHANGED <<expanded, detail, expandedError, detailCalls, arrived, overtaken>>
        BY <1>7 DEF SaveTriage, TriageArrives, TriageFails, detailVars
    <2> QED  BY <1>0, <2>1, DetailFrame
<1>8. CASE \E c \in detailCalls : DetailArrives(c) \/ DetailFails(c)
    BY <1>8, DetailArrivesStep, DetailFailsStep
<1> QED
    BY <1>2, <1>3, <1>4, <1>5, <1>6, <1>7, <1>8, ToggleStep DEF ViewNext

LEMMA ViewStep ==
    ASSUME ViewInv, [ViewNext]_viewVars
    PROVE  ViewInv'
<1>1. CASE UNCHANGED viewVars
    <2>1. UNCHANGED <<listVars, triageVars, errorVars, drawer, detailCalls, acts>>
          /\ UNCHANGED <<listVars, summaryVars>> /\ UNCHANGED panelVars /\ UNCHANGED statusVars
          /\ UNCHANGED <<detailVars, acts>>
        BY <1>1 DEF viewVars, detailVars
    <2>2. ListIsCurrent'
        BY <2>1 DEF ViewInv, ListIsCurrent, listVars, triageVars, errorVars
    <2>3. SummaryIsCurrent'
        BY <2>1 DEF ViewInv, SummaryIsCurrent, listVars, summaryVars
    <2>4. PanelIsCurrent'
        BY <2>1 DEF ViewInv, PanelIsCurrent, panelVars
    <2>5. HeartbeatIsCurrent'
        BY <2>1 DEF ViewInv, HeartbeatIsCurrent, statusVars
    <2>6. DetailIsCurrent'
        BY <2>1 DEF ViewInv, DetailIsCurrent, DetailFollows, detailVars
    <2> QED  BY <2>2, <2>3, <2>4, <2>5, <2>6 DEF ViewInv
<1>2. CASE ViewNext
    BY <1>2, ListStep, FigureStep, PanelStep, HeartbeatStep, DetailStep DEF ViewInv
<1> QED
    BY <1>1, <1>2

LEMMA ViewStarts == ViewInit => ViewInv
<1> SUFFICES ASSUME ViewInit PROVE ViewInv
    OBVIOUS
<1>1. PICK linked \in SUBSET Rows :
          Cardinality(linked) <= 1 /\ detailCalls = {[id |-> e, n |-> 0] : e \in linked}
    BY DEF ViewInit
<1>2. ListIsCurrent
    <2>1. /\ \A c \in detailCalls : c.id \in Rows
          /\ triage \in [Rows -> Marks \cup {"open"}]
        BY <1>1 DEF ViewInit
    <2>2. listCalls # {} /\ listCalls \subseteq ListRecords /\ \A c \in listCalls : c.filters = filters /\ c.page = 0
        BY NewList, ViewConstants DEF ViewInit
    <2> QED  BY <2>1, <2>2, ViewConstants DEF ViewInit, ListIsCurrent
<1>3. SummaryIsCurrent /\ PanelIsCurrent /\ HeartbeatIsCurrent
    <2>a. summaryCalls = {[filters |-> filters, n |-> 0]}
        BY DEF ViewInit
    <2>b. summaryCalls # {} /\ \A c \in summaryCalls : c.filters = filters
        BY <2>a
    <2>1. SummaryIsCurrent
        BY <2>b DEF SummaryIsCurrent
    <2>2. PanelIsCurrent
        BY DEF ViewInit, PanelIsCurrent
    <2>3. HeartbeatIsCurrent
        BY DEF ViewInit, HeartbeatIsCurrent
    <2> QED  BY <2>1, <2>2, <2>3
<1>4. DetailIsCurrent
    <2>1. IsFiniteSet(linked)
        BY EventsViewAssumption, FS_Subset
    <2>2. Cardinality(linked) = 0 \/ Cardinality(linked) = 1
        BY <1>1, <2>1, FS_CardinalityType
    <2>a. detailCalls = {} \/ \E k : detailCalls = {k}
        <3>1. linked = {} \/ \E e : linked = {e}
            BY <2>1, <2>2, FS_EmptySet, FS_Singleton
        <3>2. ASSUME NEW e, linked = {e} PROVE detailCalls = {[id |-> e, n |-> 0]}
            BY <1>1, <3>2
        <3> QED  BY <1>1, <3>1, <3>2
    <2>4. IsFiniteSet(detailCalls)
        BY <2>a, FS_EmptySet, FS_Singleton
    <2>3. \A c \in detailCalls : c.n \in 0 .. 0
        BY <1>1
    <2> QED  BY <2>4, <2>3 DEF ViewInit, DetailIsCurrent, DetailFollows
<1> QED  BY <1>2, <1>3, <1>4 DEF ViewInv

\* Whatever the operator does while answers are under way, what the page shows once they are
\* in is what its controls say, and the detail under the expanded row is that row's.
THEOREM ViewStaysCurrent == ViewSpec => []ViewIsCurrent
<1>1. ViewInit => ViewInv
    BY ViewStarts
<1>2. ViewInv => ViewIsCurrent
    <2> SUFFICES ASSUME ViewInv PROVE ViewIsCurrent
        OBVIOUS
    <2>1. AnswersAreCurrent
        BY DEF ViewInv, ListIsCurrent, SummaryIsCurrent, PanelIsCurrent, HeartbeatIsCurrent, AnswersAreCurrent
    <2>2. DetailIsOfItsRow
        BY DEF ViewInv, DetailIsCurrent, DetailFollows, DetailIsOfItsRow
    <2> QED  BY <2>1, <2>2 DEF ViewIsCurrent
<1> QED
    BY <1>1, <1>2, ViewStep, PTL DEF ViewSpec

-----------------------------------------------------------------------------
(* Summaries *)

\* What is read at one time, of a table that grows at one end and shrinks at the other.
SeenWhole(seen, from, first, last) ==
    \E a \in Nat \ {0}, h \in Nat :
        /\ seen = a .. h /\ from <= h /\ h <= last
        /\ first <= h => a <= h

Failed(S, kinds) == {e \in S : kinds[e].failed}

\* A request, a, what it counted, n, and what it went through, seen: nothing else was there.
AskIsSound(a, n, seen, quiet, kinds, first) ==
    /\ a = [stage |-> a.stage, filter |-> a.filter, ai |-> a.ai, from |-> a.from]
    /\ a.from \in 0 .. Len(kinds) /\ a.filter \in {Signals, {"action_required"}}
    /\ a.stage = "scanning" /\ quiet = TRUE =>
           /\ n.total = Cardinality(first .. Len(kinds))
           /\ a.filter = Signals => n.failures = Cardinality(Failed(first .. Len(kinds), kinds))
    /\ a.stage \in {"claude", "answered"} =>
           /\ SeenWhole(seen, a.from, first, Len(kinds))
           /\ quiet = TRUE /\ n.total <= ScanLimit =>
                  /\ a.filter = Signals => /\ n.total = Cardinality(seen)
                                           /\ n.failures = Cardinality(Failed(seen, kinds))
                  /\ \A e \in first .. Len(kinds) : e <= a.from => e \in seen

AsksAreSound ==
    /\ ask = [c \in Askers |-> ask[c]] /\ count = [c \in Askers |-> count[c]]
    /\ scanFound = [c \in Askers |-> scanFound[c]] /\ still = [c \in Askers |-> still[c]]
    /\ \A c \in Askers : AskIsSound(ask[c], count[c], scanFound[c], still[c], kindOf, oldest)

NarrativeIsSound ==
    narrative.made = TRUE =>
        narrative.from \in Nat /\ SeenWhole(narrative.about, narrative.from, oldest, Len(kindOf))

SummaryInv ==
    /\ kindOf \in Seq(EventKinds) /\ oldest \in 1 .. Len(kindOf) + 1
    /\ AsksAreSound /\ NarrativeIsSound

LEMMA SummaryConstants ==
    /\ ScanLimit \in Nat \ {0} /\ {"action_required"} # Signals
    /\ \A k \in EventKinds : k.signal \in Signals
<1>1. "attention" \in Signals /\ "attention" \notin {"action_required"}
    BY DEF Signals
<1> QED
    BY <1>1, SummariesAssumption DEF Signals

\* The rows of a window are finitely many.
LEMMA WindowFinite ==
    ASSUME NEW a \in Int, NEW b \in Int, NEW S \in SUBSET (a .. b)
    PROVE  IsFiniteSet(S) /\ Cardinality(S) \in Nat
<1>1. IsFiniteSet(a .. b)
    BY FS_Interval
<1> QED
    BY <1>1, FS_Subset, FS_CardinalityType

\* The newest of a table, and what of it they may be.
LEMMA NewestAreSeen ==
    ASSUME NEW first \in Nat \ {0}, NEW last \in Nat, first <= last + 1, NEW from \in 0 .. last,
           NEW seen, seen = {e \in first .. last : e > last - ScanLimit}
    PROVE  /\ SeenWhole(seen, from, first, last)
           /\ Cardinality(first .. last) <= ScanLimit => seen = first .. last
<1> DEFINE low == IF last - ScanLimit + 1 > first THEN last - ScanLimit + 1 ELSE first
<1>0. ScanLimit \in Nat /\ ScanLimit >= 1
    BY SummaryConstants
<1>1. low \in Nat \ {0} /\ seen = low .. last /\ (first <= last => low <= last)
    BY <1>0
<1>2. SeenWhole(seen, from, first, last)
    BY <1>1 DEF SeenWhole
<1>3. ASSUME Cardinality(first .. last) <= ScanLimit PROVE seen = first .. last
    <2>1. Cardinality(first .. last) = IF first > last THEN 0 ELSE last - first + 1
        BY FS_Interval
    <2> QED  BY <2>1, <1>0, <1>3
<1> QED
    BY <1>2, <1>3

\* What was seen stays whole when an event is stored or the oldest removed.
LEMMA SeenStays ==
    ASSUME NEW seen, NEW from \in Nat, NEW first \in Nat, NEW first2 \in Nat, first <= first2,
           NEW last \in Nat, NEW last2 \in Nat, last <= last2, SeenWhole(seen, from, first, last)
    PROVE  SeenWhole(seen, from, first2, last2) /\ \A e \in seen : e \in 1 .. last
<1>1. PICK a \in Nat \ {0}, h \in Nat : seen = a .. h /\ from <= h /\ h <= last /\ (first <= h => a <= h)
    BY DEF SeenWhole
<1>2. h <= last2 /\ (first2 <= h => a <= h) /\ \A e \in a .. h : e \in 1 .. last
    BY <1>1
<1> QED
    BY <1>1, <1>2 DEF SeenWhole

LEMMA FailedStay ==
    ASSUME NEW S, NEW kinds, NEW kinds2, \A e \in S : kinds2[e] = kinds[e]
    PROVE  Failed(S, kinds2) = Failed(S, kinds)
BY DEF Failed

\* What a request has so far stays sound when an event is stored or the oldest is removed.
LEMMA AskStays ==
    ASSUME NEW a, NEW n, NEW seen, NEW quiet, NEW quiet2, NEW kinds, NEW kinds2,
           NEW first \in Nat \ {0}, NEW first2 \in Nat, first <= first2,
           Len(kinds) \in Nat, Len(kinds2) \in Nat, Len(kinds) <= Len(kinds2),
           \A e \in 1 .. Len(kinds) : kinds2[e] = kinds[e],
           quiet2 = TRUE => quiet = TRUE /\ a.stage # "scanning",
           AskIsSound(a, n, seen, quiet, kinds, first)
    PROVE  AskIsSound(a, n, seen, quiet2, kinds2, first2)
<1>1. /\ a = [stage |-> a.stage, filter |-> a.filter, ai |-> a.ai, from |-> a.from]
      /\ a.from \in 0 .. Len(kinds) /\ a.from \in 0 .. Len(kinds2) /\ a.filter \in {Signals, {"action_required"}}
    BY DEF AskIsSound
<1>2. ASSUME a.stage \in {"claude", "answered"}
      PROVE  /\ SeenWhole(seen, a.from, first2, Len(kinds2))
             /\ quiet2 = TRUE /\ n.total <= ScanLimit =>
                    /\ a.filter = Signals => /\ n.total = Cardinality(seen)
                                             /\ n.failures = Cardinality(Failed(seen, kinds2))
                    /\ \A e \in first2 .. Len(kinds2) : e <= a.from => e \in seen
    <2>1. PICK f, l, m : f = a.from /\ l = Len(kinds) /\ m = Len(kinds2)
        OBVIOUS
    <2>2. /\ f \in Nat /\ first \in Nat /\ first2 \in Nat /\ first <= first2 /\ l \in Nat /\ m \in Nat /\ l <= m
          /\ SeenWhole(seen, f, first, l)
        BY <1>1, <1>2, <2>1 DEF AskIsSound
    <2>3. SeenWhole(seen, f, first2, m) /\ \A e \in seen : e \in 1 .. l
        BY <2>2, SeenStays
    <2>4. Failed(seen, kinds2) = Failed(seen, kinds)
        BY <2>1, <2>3, FailedStay
    <2>5. ASSUME quiet2 = TRUE, n.total <= ScanLimit
          PROVE  /\ a.filter = Signals => /\ n.total = Cardinality(seen)
                                          /\ n.failures = Cardinality(Failed(seen, kinds2))
                 /\ \A e \in first2 .. Len(kinds2) : e <= a.from => e \in seen
        <3>1. /\ a.filter = Signals => /\ n.total = Cardinality(seen)
                                       /\ n.failures = Cardinality(Failed(seen, kinds))
              /\ \A e \in first .. Len(kinds) : e <= a.from => e \in seen
            BY <1>2, <2>5 DEF AskIsSound
        <3>2. \A e \in first2 .. Len(kinds2) : e <= a.from => e \in first .. Len(kinds)
            BY <1>1
        <3> QED  BY <2>4, <3>1, <3>2
    <2> QED  BY <2>1, <2>3, <2>5
<1> QED
    BY <1>1, <1>2 DEF AskIsSound

\* One request moves, while the table stays.
LEMMA OneAskMoves ==
    ASSUME AsksAreSound, NEW c \in Askers, NEW a, NEW n, NEW seen, NEW quiet,
           ask' = [ask EXCEPT ![c] = a], count' = [count EXCEPT ![c] = n],
           scanFound' = [scanFound EXCEPT ![c] = seen], still' = [still EXCEPT ![c] = quiet],
           UNCHANGED <<kindOf, oldest>>, AskIsSound(a, n, seen, quiet, kindOf, oldest)
    PROVE  AsksAreSound'
<1>1. /\ ask = [x \in Askers |-> ask[x]] /\ count = [x \in Askers |-> count[x]]
      /\ scanFound = [x \in Askers |-> scanFound[x]] /\ still = [x \in Askers |-> still[x]]
      /\ \A x \in Askers : AskIsSound(ask[x], count[x], scanFound[x], still[x], kindOf, oldest)
    BY DEF AsksAreSound
<1>2. ASSUME NEW x \in Askers
      PROVE  AskIsSound(ask'[x], count'[x], scanFound'[x], still'[x], kindOf, oldest)
    <2>1. CASE x = c
        <3>1. ask'[x] = a /\ count'[x] = n /\ scanFound'[x] = seen /\ still'[x] = quiet
            BY <1>1, <2>1
        <3> QED  BY <3>1
    <2>2. CASE x # c
        <3>1. ask'[x] = ask[x] /\ count'[x] = count[x] /\ scanFound'[x] = scanFound[x] /\ still'[x] = still[x]
            BY <1>1, <2>2
        <3> QED  BY <1>1, <3>1
    <2> QED  BY <2>1, <2>2
<1>3. /\ ask' = [x \in Askers |-> ask'[x]] /\ count' = [x \in Askers |-> count'[x]]
      /\ scanFound' = [x \in Askers |-> scanFound'[x]] /\ still' = [x \in Askers |-> still'[x]]
    BY <1>1
<1> QED
    BY <1>2, <1>3 DEF AsksAreSound

LEMMA AskSummaryStep ==
    ASSUME SummaryInv, NEW c \in Askers, NEW filter \in {Signals, {"action_required"}}, NEW ai,
           AskSummary(c, filter, ai)
    PROVE  AsksAreSound' /\ UNCHANGED <<kindOf, oldest, narrative>>
<1>1. PICK a : a = [stage |-> "counting", filter |-> filter, ai |-> ai, from |-> Len(kindOf)]
    OBVIOUS
<1>2. /\ a = [stage |-> a.stage, filter |-> a.filter, ai |-> a.ai, from |-> a.from]
      /\ a.stage = "counting" /\ a.filter = filter /\ a.from = Len(kindOf) /\ Len(kindOf) \in Nat
    BY <1>1 DEF SummaryInv
<1>3. AskIsSound(a, NoCount, {}, TRUE, kindOf, oldest)
    BY <1>2 DEF AskIsSound
<1>4. /\ ask' = [ask EXCEPT ![c] = a] /\ count' = [count EXCEPT ![c] = NoCount]
      /\ scanFound' = [scanFound EXCEPT ![c] = {}] /\ still' = [still EXCEPT ![c] = TRUE]
      /\ UNCHANGED <<kindOf, oldest>> /\ UNCHANGED narrative
    BY <1>1 DEF AskSummary, summaryTable
<1> QED
    BY <1>3, <1>4, OneAskMoves DEF SummaryInv

\* A request that only goes on, and finds nothing new, or nothing at all.
LEMMA StageStep ==
    ASSUME SummaryInv, NEW c \in Askers, NEW stage, ask' = [ask EXCEPT ![c].stage = stage],
           stage = "idle" \/ (stage = "answered" /\ ask[c].stage = "claude"),
           UNCHANGED <<kindOf, oldest, count, scanFound, still>>
    PROVE  AsksAreSound'
<1>1. PICK a, n, seen, quiet :
          /\ a = [ask[c] EXCEPT !.stage = stage] /\ n = count[c] /\ seen = scanFound[c] /\ quiet = still[c]
    OBVIOUS
<1>2. AskIsSound(ask[c], n, seen, quiet, kindOf, oldest) /\ AsksAreSound
    BY <1>1 DEF SummaryInv, AsksAreSound
<1>3. ask[c] = [stage |-> ask[c].stage, filter |-> ask[c].filter, ai |-> ask[c].ai, from |-> ask[c].from]
    BY <1>2 DEF AskIsSound
<1>4. /\ a = [stage |-> a.stage, filter |-> a.filter, ai |-> a.ai, from |-> a.from]
      /\ a.from = ask[c].from /\ a.filter = ask[c].filter /\ a.stage = stage
    BY <1>1, <1>3
<1>5. AskIsSound(a, n, seen, quiet, kindOf, oldest)
    BY <1>2, <1>4 DEF AskIsSound
<1>6. ask' = [ask EXCEPT ![c] = a] /\ ask = [x \in Askers |-> ask[x]]
    BY <1>1, <1>2 DEF AsksAreSound
<1>7. ASSUME NEW x \in Askers
      PROVE  AskIsSound(ask'[x], count[x], scanFound[x], still[x], kindOf, oldest)
    <2>1. ask'[x] = IF x = c THEN a ELSE ask[x]
        BY <1>6
    <2>2. AskIsSound(ask[x], count[x], scanFound[x], still[x], kindOf, oldest)
        BY <1>2 DEF AsksAreSound
    <2> QED  BY <1>1, <1>5, <2>1, <2>2
<1>8. ask' = [x \in Askers |-> ask'[x]]
    BY <1>6
<1> QED
    BY <1>2, <1>7, <1>8 DEF AsksAreSound

LEMMA CountEventsStep ==
    ASSUME SummaryInv, NEW c \in Askers, CountEvents(c)
    PROVE  AsksAreSound' /\ UNCHANGED <<kindOf, oldest, narrative>>
<1>0. /\ ask[c].stage = "counting" /\ ask' = [ask EXCEPT ![c].stage = "scanning"]
      /\ UNCHANGED <<kindOf, oldest>> /\ UNCHANGED <<scanFound, still, narrative>>
    BY DEF CountEvents, At, Moves, summaryTable
<1>1. PICK a, n : /\ a = [ask[c] EXCEPT !.stage = "scanning"]
                  /\ n = [total |-> Cardinality(InTable),
                          failures |-> IF Filtered(c) THEN 0
                                       ELSE Cardinality({e \in InTable : kindOf[e].failed})]
    OBVIOUS
<1>2. /\ count' = [count EXCEPT ![c] = n] /\ n.total = Cardinality(oldest .. Len(kindOf))
      /\ ask[c].filter = Signals => n.failures = Cardinality(Failed(oldest .. Len(kindOf), kindOf))
    BY <1>1 DEF CountEvents, Filtered, InTable, Failed
<1>3. /\ \A x \in Askers : AskIsSound(ask[x], count[x], scanFound[x], still[x], kindOf, oldest)
      /\ ask = [x \in Askers |-> ask[x]] /\ count = [x \in Askers |-> count[x]]
      /\ scanFound = [x \in Askers |-> scanFound[x]] /\ still = [x \in Askers |-> still[x]]
    BY DEF SummaryInv, AsksAreSound
<1>4. /\ a = [stage |-> a.stage, filter |-> a.filter, ai |-> a.ai, from |-> a.from]
      /\ a.from = ask[c].from /\ a.filter = ask[c].filter /\ a.stage = "scanning"
    <2>1. ask[c] = [stage |-> ask[c].stage, filter |-> ask[c].filter, ai |-> ask[c].ai, from |-> ask[c].from]
        BY <1>3 DEF AskIsSound
    <2> QED  BY <1>1, <2>1
<1>5. AskIsSound(a, n, scanFound[c], still[c], kindOf, oldest)
    BY <1>2, <1>3, <1>4 DEF AskIsSound
<1>6. ASSUME NEW x \in Askers
      PROVE  AskIsSound(ask'[x], count'[x], scanFound[x], still[x], kindOf, oldest)
    <2>1. ask' = [ask EXCEPT ![c] = a]
        BY <1>0, <1>1
    <2>2. ask'[x] = (IF x = c THEN a ELSE ask[x]) /\ count'[x] = IF x = c THEN n ELSE count[x]
        BY <2>1, <1>2, <1>3
    <2> QED  BY <1>3, <1>5, <2>2
<1>7. ask' = [x \in Askers |-> ask'[x]] /\ count' = [x \in Askers |-> count'[x]]
    BY <1>0, <1>2, <1>3
<1> QED
    BY <1>0, <1>3, <1>6, <1>7 DEF AsksAreSound

LEMMA ScanEventsStep ==
    ASSUME SummaryInv, NEW c \in Askers, ScanEvents(c)
    PROVE  AsksAreSound' /\ UNCHANGED <<kindOf, oldest, narrative>>
<1>0. /\ ask[c].stage = "scanning" /\ UNCHANGED <<kindOf, oldest>> /\ UNCHANGED <<count, still, narrative>>
    BY DEF ScanEvents, At, summaryTable
<1>1. PICK a, seen : /\ a = [ask[c] EXCEPT !.stage = IF ask[c].ai THEN "claude" ELSE "answered"]
                     /\ seen = {e \in oldest .. Len(kindOf) : e > Len(kindOf) - ScanLimit}
    OBVIOUS
<1>2. /\ ask' = [ask EXCEPT ![c] = a] /\ scanFound' = [scanFound EXCEPT ![c] = seen]
    BY <1>1 DEF ScanEvents, Moves, ScanTaken, NewestEvents, InTable
<1>3. /\ \A x \in Askers : AskIsSound(ask[x], count[x], scanFound[x], still[x], kindOf, oldest)
      /\ ask = [x \in Askers |-> ask[x]] /\ count = [x \in Askers |-> count[x]]
      /\ scanFound = [x \in Askers |-> scanFound[x]] /\ still = [x \in Askers |-> still[x]]
    BY DEF SummaryInv, AsksAreSound
<1>4. /\ a = [stage |-> a.stage, filter |-> a.filter, ai |-> a.ai, from |-> a.from]
      /\ a.from = ask[c].from /\ a.filter = ask[c].filter /\ a.stage # "scanning"
    <2>1. ask[c] = [stage |-> ask[c].stage, filter |-> ask[c].filter, ai |-> ask[c].ai, from |-> ask[c].from]
        BY <1>3 DEF AskIsSound
    <2>2. PICK s : s = IF ask[c].ai THEN "claude" ELSE "answered"
        OBVIOUS
    <2>3. a = [ask[c] EXCEPT !.stage = s] /\ s # "scanning"
        BY <1>1, <2>2
    <2> QED  BY <2>1, <2>3
<1>5. /\ SeenWhole(seen, a.from, oldest, Len(kindOf))
      /\ Cardinality(oldest .. Len(kindOf)) <= ScanLimit => seen = oldest .. Len(kindOf)
    <2>1. PICK f, l : f = a.from /\ l = Len(kindOf)
        OBVIOUS
    <2>2. ask[c].from \in 0 .. Len(kindOf) /\ Len(kindOf) \in Nat /\ oldest \in 1 .. Len(kindOf) + 1
        BY <1>3 DEF AskIsSound, SummaryInv
    <2>3. /\ oldest \in Nat \ {0} /\ l \in Nat /\ oldest <= l + 1 /\ f \in 0 .. l
          /\ seen = {e \in oldest .. l : e > l - ScanLimit}
        BY <2>1, <2>2, <1>1, <1>4
    <2>4. SeenWhole(seen, f, oldest, l) /\ (Cardinality(oldest .. l) <= ScanLimit => seen = oldest .. l)
        BY <2>3, NewestAreSeen
    <2> QED  BY <2>1, <2>4
<1>6. ASSUME still[c] = TRUE, count[c].total <= ScanLimit
      PROVE  /\ a.filter = Signals => /\ count[c].total = Cardinality(seen)
                                      /\ count[c].failures = Cardinality(Failed(seen, kindOf))
             /\ \A e \in oldest .. Len(kindOf) : e <= a.from => e \in seen
    <2>1. /\ count[c].total = Cardinality(oldest .. Len(kindOf))
          /\ ask[c].filter = Signals => count[c].failures = Cardinality(Failed(oldest .. Len(kindOf), kindOf))
        BY <1>0, <1>3, <1>6 DEF AskIsSound
    <2>2. seen = oldest .. Len(kindOf)
        BY <1>5, <1>6, <2>1
    <2> QED  BY <1>4, <2>1, <2>2
<1>7. AskIsSound(a, count[c], seen, still[c], kindOf, oldest)
    <2>1. a.from \in 0 .. Len(kindOf) /\ a.filter \in {Signals, {"action_required"}}
        BY <1>3, <1>4 DEF AskIsSound
    <2> QED  BY <2>1, <1>4, <1>5, <1>6 DEF AskIsSound
<1>8. ASSUME NEW x \in Askers
      PROVE  AskIsSound(ask'[x], count[x], scanFound'[x], still[x], kindOf, oldest)
    <2>1. ask'[x] = (IF x = c THEN a ELSE ask[x]) /\ scanFound'[x] = IF x = c THEN seen ELSE scanFound[x]
        BY <1>2, <1>3
    <2> QED  BY <1>3, <1>7, <2>1
<1>9. ask' = [x \in Askers |-> ask'[x]] /\ scanFound' = [x \in Askers |-> scanFound'[x]]
    BY <1>2, <1>3
<1> QED
    BY <1>0, <1>3, <1>8, <1>9 DEF AsksAreSound

\* An event is stored, or the oldest is removed.
LEMMA TableStep ==
    ASSUME SummaryInv, (\E kind \in EventKinds : StoreNewEvent(kind)) \/ RemoveOldest
    PROVE  SummaryInv'
<1>0. kindOf \in Seq(EventKinds) /\ Len(kindOf) \in Nat /\ oldest \in 1 .. Len(kindOf) + 1 /\ oldest \in Nat \ {0}
    BY DEF SummaryInv
<1>1. /\ kindOf' \in Seq(EventKinds) /\ oldest' \in 1 .. Len(kindOf') + 1 /\ oldest' \in Nat /\ oldest <= oldest'
      /\ Len(kindOf') \in Nat /\ Len(kindOf) <= Len(kindOf')
      /\ \A e \in 1 .. Len(kindOf) : kindOf'[e] = kindOf[e]
      /\ still' = BetweenStatements /\ UNCHANGED <<ask, count, scanFound, narrative>>
    <2>1. ASSUME NEW kind \in EventKinds, StoreNewEvent(kind)
          PROVE  /\ kindOf' \in Seq(EventKinds) /\ oldest' = oldest /\ Len(kindOf') = Len(kindOf) + 1
                 /\ \A e \in 1 .. Len(kindOf) : kindOf'[e] = kindOf[e]
                 /\ still' = BetweenStatements /\ UNCHANGED <<ask, count, scanFound, narrative>>
        BY <1>0, <2>1 DEF StoreNewEvent
    <2>2. ASSUME RemoveOldest
          PROVE  /\ kindOf' = kindOf /\ oldest' = oldest + 1 /\ oldest <= Len(kindOf)
                 /\ still' = BetweenStatements /\ UNCHANGED <<ask, count, scanFound, narrative>>
        BY <1>0, <2>2 DEF RemoveOldest, InTable
    <2>3. CASE \E kind \in EventKinds : StoreNewEvent(kind)
        BY <1>0, <2>1, <2>3
    <2>4. CASE RemoveOldest
        BY <1>0, <2>2, <2>4
    <2> QED  BY <2>3, <2>4
<1>2. /\ \A x \in Askers : AskIsSound(ask[x], count[x], scanFound[x], still[x], kindOf, oldest)
      /\ ask = [x \in Askers |-> ask[x]] /\ count = [x \in Askers |-> count[x]]
      /\ scanFound = [x \in Askers |-> scanFound[x]] /\ still = [x \in Askers |-> still[x]]
    BY DEF SummaryInv, AsksAreSound
<1>3. still' = [x \in Askers |-> still'[x]]
    BY <1>1 DEF BetweenStatements
<1>4. ASSUME NEW x \in Askers, still'[x] = TRUE PROVE still[x] = TRUE /\ ask[x].stage # "scanning"
    <2>1. still'[x] = (still[x] /\ ~(ask[x].stage = "scanning"))
        BY <1>1 DEF BetweenStatements, At
    <2> QED  BY <2>1, <1>4
<1>5. PICK kinds, first : kinds = kindOf' /\ first = oldest'
    OBVIOUS
<1>6. ASSUME NEW x \in Askers
      PROVE  AskIsSound(ask[x], count[x], scanFound[x], still'[x], kinds, first)
    <2>1. PICK a, n, seen, quiet, quiet2 :
              /\ a = ask[x] /\ n = count[x] /\ seen = scanFound[x] /\ quiet = still[x] /\ quiet2 = still'[x]
        OBVIOUS
    <2>2. /\ oldest \in Nat \ {0} /\ first \in Nat /\ oldest <= first
          /\ Len(kindOf) \in Nat /\ Len(kinds) \in Nat /\ Len(kindOf) <= Len(kinds)
          /\ \A e \in 1 .. Len(kindOf) : kinds[e] = kindOf[e]
          /\ quiet2 = TRUE => quiet = TRUE /\ a.stage # "scanning"
          /\ AskIsSound(a, n, seen, quiet, kindOf, oldest)
        BY <1>0, <1>1, <1>2, <1>4, <1>5, <2>1
    <2>3. AskIsSound(a, n, seen, quiet2, kinds, first)
        BY <2>2, AskStays
    <2> QED  BY <2>1, <2>3
<1>7. AsksAreSound'
    BY <1>1, <1>2, <1>3, <1>5, <1>6 DEF AsksAreSound
<1>8. NarrativeIsSound'
    <2> SUFFICES ASSUME narrative.made = TRUE
                 PROVE  SeenWhole(narrative.about, narrative.from, first, Len(kinds))
        BY <1>1, <1>5 DEF NarrativeIsSound, SummaryInv
    <2>1. PICK s, f, l, m : s = narrative.about /\ f = narrative.from /\ l = Len(kindOf) /\ m = Len(kinds)
        OBVIOUS
    <2>2. SeenWhole(s, f, oldest, l)
        BY <2>1 DEF SummaryInv, NarrativeIsSound
    <2>3. PICK a \in Nat \ {0}, h \in Nat : s = a .. h /\ f <= h /\ h <= l /\ (oldest <= h => a <= h)
        BY <2>2 DEF SeenWhole
    <2>4. h <= m /\ (first <= h => a <= h)
        BY <1>0, <1>1, <1>5, <2>1, <2>3
    <2>5. SeenWhole(s, f, first, m)
        BY <2>3, <2>4 DEF SeenWhole
    <2> QED  BY <2>1, <2>5
<1> QED
    BY <1>1, <1>7, <1>8 DEF SummaryInv

LEMMA SummaryStep ==
    ASSUME SummaryInv, [SummariesNext]_summariesVars
    PROVE  SummaryInv'
<1>1. CASE UNCHANGED summariesVars
    BY <1>1 DEF summariesVars, summaryTable, askVars, SummaryInv, AsksAreSound, NarrativeIsSound
<1>2. ASSUME AsksAreSound', UNCHANGED <<kindOf, oldest, narrative>> PROVE SummaryInv'
    BY <1>2 DEF SummaryInv, NarrativeIsSound
<1>3. ASSUME NEW c \in Askers, NEW filter \in {Signals, {"action_required"}}, AskSummary(c, filter, FALSE)
      PROVE  SummaryInv'
    BY <1>2, <1>3, AskSummaryStep
<1>4. ASSUME NEW c \in Askers, CountEvents(c) \/ ScanEvents(c) PROVE SummaryInv'
    BY <1>2, <1>4, CountEventsStep, ScanEventsStep
<1>5. ASSUME NEW c \in Askers, ServeNarrative(c) PROVE SummaryInv'
    <2>1. /\ ask' = [ask EXCEPT ![c].stage = "idle"]
          /\ UNCHANGED <<kindOf, oldest, count, scanFound, still>> /\ UNCHANGED narrative
        BY <1>5 DEF ServeNarrative, summaryTable
    <2>2. AsksAreSound'
        BY <2>1, StageStep
    <2> QED  BY <1>2, <2>1, <2>2
<1>6. ASSUME NEW c \in Askers, AskNarrative(c) PROVE SummaryInv'
    BY <1>2, <1>6, AskSummaryStep DEF AskNarrative
<1>7. ASSUME NEW c \in Askers, ClaudeFails(c) PROVE SummaryInv'
    <2>1. /\ ask' = [ask EXCEPT ![c].stage = "idle"]
          /\ UNCHANGED <<kindOf, oldest, count, scanFound, still>> /\ UNCHANGED narrative
        BY <1>7 DEF ClaudeFails, Moves, summaryTable
    <2>2. AsksAreSound'
        BY <2>1, StageStep
    <2> QED  BY <1>2, <2>1, <2>2
<1>8. ASSUME NEW c \in Askers, ClaudeAnswers(c) PROVE SummaryInv'
    <2>1. /\ ask' = [ask EXCEPT ![c].stage = "answered"] /\ ask[c].stage = "claude"
          /\ UNCHANGED <<kindOf, oldest, count, scanFound, still>>
          /\ narrative' = [made |-> TRUE, about |-> scanFound[c], from |-> ask[c].from, putAt |-> hour]
        BY <1>8 DEF ClaudeAnswers, At, Moves, summaryTable
    <2>2. AsksAreSound'
        BY <2>1, StageStep
    <2>3. SeenWhole(scanFound[c], ask[c].from, oldest, Len(kindOf)) /\ ask[c].from \in Nat
        BY <2>1 DEF SummaryInv, AsksAreSound, AskIsSound
    <2>4. NarrativeIsSound'
        BY <2>1, <2>3 DEF NarrativeIsSound
    <2> QED  BY <2>1, <2>2, <2>4 DEF SummaryInv
<1>9. CASE HourPasses
    <2>1. UNCHANGED <<kindOf, oldest, ask, count, scanFound, still, narrative>>
        BY <1>9 DEF HourPasses, summaryTable, askVars
    <2>2. AsksAreSound'
        BY <2>1 DEF SummaryInv, AsksAreSound
    <2> QED  BY <1>2, <2>1, <2>2
<1>10. CASE (\E kind \in EventKinds : StoreNewEvent(kind)) \/ RemoveOldest
    BY <1>10, TableStep
<1> QED
    BY <1>1, <1>3, <1>4, <1>5, <1>6, <1>7, <1>8, <1>9, <1>10 DEF SummariesNext

\* What was seen whole leaves out older events only.
LEMMA WholeCovers ==
    ASSUME NEW seen, NEW from \in Nat, SeenWhole(seen, from, oldest, Len(kindOf)), SummaryInv
    PROVE  Covers(seen, from)
<1>1. PICK a \in Nat \ {0}, h \in Nat : seen = a .. h /\ from <= h /\ h <= Len(kindOf) /\ (oldest <= h => a <= h)
    BY DEF SeenWhole
<1>2. oldest \in Nat /\ Len(kindOf) \in Nat
    BY DEF SummaryInv
<1>3. ASSUME NEW e \in oldest .. Len(kindOf), e <= from PROVE h \in seen
    BY <1>1, <1>2, <1>3
<1>4. ASSUME NEW e \in seen, NEW other \in oldest .. Len(kindOf), other <= from, other > e PROVE other \in seen
    BY <1>1, <1>2, <1>4
<1> QED
    BY <1>3, <1>4 DEF Covers, InTable

\* Two parts of a set, and one of three.
LEMMA ThreeParts ==
    ASSUME NEW S, IsFiniteSet(S), NEW A, NEW B, NEW C, S = A \cup B \cup C,
           A \cap B = {}, A \cap C = {}, B \cap C = {}
    PROVE  Cardinality(S) = Cardinality(A) + Cardinality(B) + Cardinality(C)
<1>1. IsFiniteSet(A) /\ IsFiniteSet(B) /\ IsFiniteSet(C)
    BY FS_Subset
<1>2. Cardinality(A) \in Nat /\ Cardinality(B) \in Nat /\ Cardinality(C) \in Nat
    BY <1>1, FS_CardinalityType
<1>3. A \cap B = {} /\ (A \cup B) \cap C = {} /\ S = (A \cup B) \cup C
    OBVIOUS
<1>4. PICK two : two = A \cup B
    OBVIOUS
<1>5. IsFiniteSet(two) /\ Cardinality(two) = Cardinality(A) + Cardinality(B) - Cardinality(A \cap B)
    BY <1>1, <1>4, FS_Union
<1>6. Cardinality({}) = 0
    BY FS_EmptySet
<1>7. Cardinality(two) = Cardinality(A) + Cardinality(B)
    <2>1. Cardinality(A \cap B) = 0
        BY <1>3, <1>6, Zenon
    <2> QED  BY <1>2, <1>5, <2>1
<1>8. Cardinality(S) = Cardinality(two) + Cardinality(C) - Cardinality(two \cap C)
    BY <1>1, <1>3, <1>4, <1>5, FS_Union
<1>9. two \cap C = {}
    BY <1>3, <1>4
<1>10. Cardinality(S) = Cardinality(two) + Cardinality(C)
    <2>1. Cardinality(two) \in Nat
        BY <1>5, FS_CardinalityType
    <2>2. Cardinality(two \cap C) = 0
        BY <1>6, <1>9, Zenon
    <2> QED  BY <1>2, <1>8, <2>1, <2>2
<1> QED
    BY <1>2, <1>7, <1>10

LEMMA SummaryFollows ==
    ASSUME SummaryInv
    PROVE  SummaryAddsUp
<1>1. ASSUME NEW c \in Askers, ask[c].stage = "answered"
      PROVE  /\ Covers(scanFound[c], ask[c].from)
             /\ still[c] /\ Scope(c) = "complete" =>
                   /\ Total(c) = BySignal(c)["action_required"] + BySignal(c)["attention"] + BySignal(c)["noise"]
                   /\ Failures(c) = Cardinality({e \in Matching(c) : kindOf[e].failed})
                   /\ \A e \in InTable : e <= ask[c].from /\ kindOf[e].signal = "action_required" =>
                          Status(c) = "action_required"
    <2>0. AskIsSound(ask[c], count[c], scanFound[c], still[c], kindOf, oldest)
        BY DEF SummaryInv, AsksAreSound
    <2>1. /\ SeenWhole(scanFound[c], ask[c].from, oldest, Len(kindOf))
          /\ ask[c].from \in Nat /\ ask[c].filter \in {Signals, {"action_required"}}
          /\ Len(kindOf) \in Nat /\ oldest \in Nat /\ kindOf \in Seq(EventKinds)
        BY <1>1, <2>0 DEF AskIsSound, SummaryInv
    <2>2. Covers(scanFound[c], ask[c].from)
        BY <2>1, WholeCovers
    <2>3. ASSUME still[c], Scope(c) = "complete"
          PROVE  /\ Total(c) = BySignal(c)["action_required"] + BySignal(c)["attention"] + BySignal(c)["noise"]
                 /\ Failures(c) = Cardinality({e \in Matching(c) : kindOf[e].failed})
                 /\ \A e \in InTable : e <= ask[c].from /\ kindOf[e].signal = "action_required" =>
                        Status(c) = "action_required"
        <3>1. still[c] = TRUE
            BY <2>3, <2>0 DEF AskIsSound
        <3>2. count[c].total <= ScanLimit
            BY <2>3 DEF Scope
        <3>3. /\ ask[c].filter = Signals => /\ count[c].total = Cardinality(scanFound[c])
                                            /\ count[c].failures = Cardinality(Failed(scanFound[c], kindOf))
              /\ \A e \in oldest .. Len(kindOf) : e <= ask[c].from => e \in scanFound[c]
            BY <1>1, <2>0, <3>1, <3>2 DEF AskIsSound
        <3>4. \A e \in scanFound[c] : e \in 1 .. Len(kindOf)
            BY <2>1 DEF SeenWhole
        <3>5. \A e \in scanFound[c] : kindOf[e].signal \in Signals
            BY <2>1, <3>4, SummaryConstants
        <3>6. IsFiniteSet(Matching(c))
            <4>1. PICK M, l : M = Matching(c) /\ l = Len(kindOf)
                OBVIOUS
            <4>2. M \in SUBSET (1 .. l) /\ 1 \in Int /\ l \in Int
                BY <2>1, <3>4, <4>1 DEF Matching
            <4>3. IsFiniteSet(M)
                BY <4>2, WindowFinite
            <4> QED  BY <4>1, <4>3
        <3>7. ask[c].filter = Signals => Matching(c) = scanFound[c]
            BY <3>5 DEF Matching
        <3>8. Total(c) = Cardinality(Matching(c))
            BY <3>3, <3>7 DEF Total, Filtered
        <3>9. Failures(c) = Cardinality({e \in Matching(c) : kindOf[e].failed})
            BY <3>3, <3>7 DEF Failures, Filtered, Failed
        <3> DEFINE Of(s) == {e \in Matching(c) : kindOf[e].signal = s}
        <3>10. /\ BySignal(c)["action_required"] = Cardinality(Of("action_required"))
               /\ BySignal(c)["attention"] = Cardinality(Of("attention"))
               /\ BySignal(c)["noise"] = Cardinality(Of("noise"))
            BY DEF BySignal, Signals
        <3>11. Matching(c) = Of("action_required") \cup Of("attention") \cup Of("noise")
            BY <3>5 DEF Matching, Signals
        <3>12. PICK A, B, C : A = Of("action_required") /\ B = Of("attention") /\ C = Of("noise")
            OBVIOUS
        <3>13. A \cap B = {} /\ A \cap C = {} /\ B \cap C = {}
            BY <3>12
        <3>14. Cardinality(Matching(c)) = Cardinality(A) + Cardinality(B) + Cardinality(C)
            BY <3>6, <3>11, <3>12, <3>13, ThreeParts
        <3>15. ASSUME NEW e \in InTable, e <= ask[c].from, kindOf[e].signal = "action_required"
               PROVE  Status(c) = "action_required"
            <4>1. e \in scanFound[c]
                BY <3>3, <3>15 DEF InTable
            <4>2. "action_required" \in ask[c].filter
                BY <2>1 DEF Signals
            <4>3. e \in A
                BY <4>1, <4>2, <3>12, <3>15 DEF Matching
            <4>4. IsFiniteSet(A) /\ A # {}
                BY <4>3, <3>6, <3>12, FS_Subset
            <4>5. Cardinality(A) \in Nat /\ Cardinality(A) # 0
                BY <4>4, FS_CardinalityType, FS_EmptySet
            <4> QED  BY <4>5, <3>10, <3>12 DEF Status
        <3> QED  BY <3>8, <3>9, <3>10, <3>12, <3>14, <3>15
    <2> QED  BY <2>2, <2>3
<1>2. ASSUME narrative.made PROVE Covers(narrative.about, narrative.from)
    <2>1. SeenWhole(narrative.about, narrative.from, oldest, Len(kindOf))
        BY <1>2 DEF SummaryInv, NarrativeIsSound
    <2>2. narrative.from \in Nat
        BY <1>2 DEF SummaryInv, NarrativeIsSound
    <2> QED  BY <2>1, <2>2, WholeCovers
<1> QED
    BY <1>1, <1>2 DEF SummaryAddsUp, Answered, At

LEMMA SummaryStarts == SummariesInit => SummaryInv
<1> SUFFICES ASSUME SummariesInit PROVE SummaryInv
    OBVIOUS
<1>1. kindOf \in Seq(EventKinds) /\ Len(kindOf) = 0 /\ oldest \in 1 .. Len(kindOf) + 1
    BY DEF SummariesInit
<1>2. /\ ask = [c \in Askers |-> ask[c]] /\ count = [c \in Askers |-> count[c]]
      /\ scanFound = [c \in Askers |-> scanFound[c]] /\ still = [c \in Askers |-> still[c]]
    BY DEF SummariesInit
<1>3. ASSUME NEW c \in Askers
      PROVE  AskIsSound(ask[c], count[c], scanFound[c], still[c], kindOf, oldest)
    <2>1. ask[c] = NotAsked
        BY DEF SummariesInit
    <2> QED  BY <1>1, <2>1 DEF AskIsSound, NotAsked
<1>4. NarrativeIsSound
    BY DEF SummariesInit, NarrativeIsSound, NoNarrative
<1> QED  BY <1>1, <1>2, <1>3, <1>4 DEF SummaryInv, AsksAreSound

\* A summary adds up, whatever is stored and removed meanwhile.  It and the kept narrative leave
\* out older events only; one that is complete, with nothing in between its statements, gives
\* signals that add up to its total, counts the failures among them, and is not all-clear while
\* an event it should have seen needs action (get_summary, summary_service.py).
THEOREM SummariesStayWhole == SummariesSpec => []SummaryAddsUp
<1>1. SummariesInit => SummaryInv
    BY SummaryStarts
<1>2. SummaryInv /\ [SummariesNext]_summariesVars => SummaryInv'
    BY SummaryStep
<1>3. SummaryInv => SummaryAddsUp
    BY SummaryFollows
<1> QED
    BY <1>1, <1>2, <1>3, PTL DEF SummariesSpec

-----------------------------------------------------------------------------
(* The types of what is shown or looked up *)

\* Whatever is counted was marked, and the marks are bounded.
HealthKinds ==
    /\ tick \in 0 .. LastSecondOfHealth /\ marks \in 0 .. MaxMarks
    /\ consumer \in {"starting", "retrying", "connected", "backoff", "degraded"}
    /\ retries <= marks /\ errorTotal <= marks /\ processed <= marks /\ writeErrors <= marks
    /\ dropped <= marks /\ troubles <= marks

\* A step keeps the counts of the health within its marks.
LEMMA HealthTypesKeep ==
    ASSUME HealthKinds, HealthInv, [ForwarderHealthNext]_forwarderHealthVars
    PROVE  HealthKinds'
<1> USE DEF HealthKinds, HealthInv, MarksAreDated
<1>0. MaxMarks \in Nat /\ LastSecondOfHealth \in Nat
    BY ForwarderHealthAssumption
<1>1. CASE ConnectivityChecked
    BY <1>0, <1>1 DEF ConnectivityChecked, writerVars
<1>2. CASE ConnectivityFails
    BY <1>0, <1>2 DEF ConnectivityFails, Mark, RecordRetry, writerVars
<1>3. CASE ConsumeFails
    BY <1>0, <1>3 DEF ConsumeFails, Mark, RecordRetry, writerVars
<1>4. CASE PollRecords
    BY <1>0, <1>4 DEF PollRecords, Mark, writerVars
<1>5. CASE LagReported
    BY <1>0, <1>5 DEF LagReported, Mark, writerVars
<1>6. CASE WriteSucceeds
    BY <1>0, <1>6 DEF WriteSucceeds, Mark, consumerVars
<1>7. CASE WriteFails
    BY <1>0, <1>7 DEF WriteFails, Mark
<1>8. CASE DropEvent
    BY <1>0, <1>8 DEF DropEvent, Mark, consumerVars
<1>9. CASE TickPasses
    BY <1>0, <1>9 DEF TickPasses, consumerVars, writerVars
<1>10. CASE UNCHANGED forwarderHealthVars
    BY <1>0, <1>10 DEF forwarderHealthVars, consumerVars, writerVars
<1> QED
    BY <1>1, <1>2, <1>3, <1>4, <1>5, <1>6, <1>7, <1>8, <1>9, <1>10 DEF ForwarderHealthNext

\* The health counts no more than was marked, in the states the monitor knows.
LEMMA HealthKeepsTypes == ForwarderHealthSpec => []ForwarderHealthTypeOK
<1>1. ForwarderHealthInit => HealthInv /\ HealthKinds
    BY ForwarderHealthAssumption
        DEF ForwarderHealthInit, HealthInv, HealthKinds, MarksAreDated, Started, Never
<1>2. HealthInv /\ HealthKinds => ForwarderHealthTypeOK
    <2> SUFFICES ASSUME HealthInv, HealthKinds PROVE ForwarderHealthTypeOK
        OBVIOUS
    <2>1. MaxMarks \in Nat /\ marks \in Nat /\ marks <= MaxMarks
        BY ForwarderHealthAssumption DEF HealthKinds
    <2>2. {retries, errorTotal, processed, writeErrors, dropped, troubles} \subseteq 0 .. MaxMarks
        BY <2>1 DEF HealthKinds, HealthInv, MarksAreDated
    <2> QED  BY <2>2 DEF HealthKinds, HealthInv, MarksAreDated, ForwarderHealthTypeOK
<1> QED
    BY <1>1, <1>2, HealthStep, HealthTypesKeep, PTL DEF ForwarderHealthSpec

\* Beyond the invariant: what is bounded, and the sleeps end after the beginning of time.
DirectoryRest ==
    /\ ticks <= LastTick
    /\ \A k \in Keys : listings[k].pages \subseteq 1 .. PageCount
    /\ \A a \in Threads : asking[a].wake >= 0

\* A reader has read a beginning of the listing, and what comes next is a page of it.
LEMMA PagesReadAreKnown ==
    ASSUME DirectoryInv, NEW a \in Threads
    PROVE  asking[a].got \subseteq 1 .. PageCount /\ NextPages(a) \subseteq 1 .. PageCount
<1>1. PICK n \in 0 .. PageCount - 1 : asking[a].got = 1 .. n
    BY DEF DirectoryInv
<1>2. PageCount \in Nat /\ n \in Nat /\ n + 1 <= PageCount
    BY DirectoryAssumption
<1>3. NextPages(a) = 1 .. (n + 1)
    BY <1>1, <1>2, NextPageFollows
<1> QED  BY <1>1, <1>2, <1>3

\* A sleep ends at a time after the beginning.
LEMMA SleepsEnd ==
    ASSUME DirectoryInv, DirectoryRest, NEW a \in Threads,
           ReturnListing(a) \/ \E w \in Keys, k \in Keys : StartReading(a, w, k)
    PROVE  \A b \in Threads : asking'[b].wake >= 0
<1>1. CASE ReturnListing(a)
    BY <1>1 DEF ReturnListing, NotAsking, DirectoryInv, DirectoryRest
<1>2. ASSUME NEW w \in Keys, NEW k \in Keys, StartReading(a, w, k)
      PROVE  \A b \in Threads : asking'[b].wake >= 0
    <2> DEFINE until == IF k \in CloudKeys /\ ticks < limitedUntil THEN WaitForRateLimit ELSE 0
    <2>1. until >= 0
        BY DirectoryAssumption DEF WaitForRateLimit, Least, DirectoryInv
    <2>2. \A b \in Threads : asking'[b].wake = IF b = a THEN until ELSE asking[b].wake
        BY <1>2 DEF StartReading, DirectoryInv
    <2> HIDE DEF until
    <2> QED  BY <2>1, <2>2 DEF DirectoryRest
<1> QED  BY <1>1, <1>2

\* What is put in the cache is a part of the listing.
LEMMA PutIsKnown ==
    ASSUME DirectoryInv, DirectoryRest, NEW k \in Keys, NEW pages \in SUBSET (1 .. PageCount),
           SetCached(k, pages)
    PROVE  \A j \in Keys : listings'[j].pages \subseteq 1 .. PageCount
<1>1. \A j \in Keys : listings'[j].pages = IF j = k THEN pages ELSE listings[j].pages
    BY DEF SetCached, DirectoryInv
<1> QED  BY <1>1 DEF DirectoryRest

\* A step keeps the bounds of the listings.
LEMMA DirectoryTypesKeep ==
    ASSUME DirectoryInv, DirectoryRest, [DirectoryNext]_directoryVars
    PROVE  DirectoryRest'
<1>1. CASE UNCHANGED directoryVars
    BY <1>1 DEF directoryVars, DirectoryRest
<1>2. ASSUME NEW a \in Threads,
             \/ ListEnvironments(a) \/ ListClusters(a)
             \/ \E given \in BOOLEAN : ListTopics(a, given) \/ ListAcls(a, given)
      PROVE  DirectoryRest'
    <2>1. /\ UNCHANGED <<ticks, listings, limitedUntil>>
          /\ \E w \in Keys, k \in Keys : StartReading(a, w, k)
        BY <1>2 DEF ListEnvironments, ListClusters, ListTopics, ListAcls, Keys, CloudKeys, ClusterKeys
    <2> QED  BY <2>1, SleepsEnd DEF DirectoryRest
<1>3. ASSUME NEW a \in Threads, Woken(a) PROVE DirectoryRest'
    <2>1. /\ \A b \in Threads : asking'[b].wake \in {asking[b].wake, 0}
          /\ UNCHANGED <<ticks, listings>>
        BY <1>3 DEF Woken, DirectoryInv, Calls
    <2> QED  BY <2>1 DEF DirectoryRest
<1>4. ASSUME NEW a \in Threads, ReadEnvironments(a) \/ ReadClusters(a) PROVE DirectoryRest'
    <2>1. CASE PageCount \notin NextPages(a)
        <3>1. /\ \A b \in Threads : asking'[b].wake = asking[b].wake
              /\ UNCHANGED <<ticks, listings>>
            <4>1. asking' = [asking EXCEPT ![a].got = NextPages(a)] /\ UNCHANGED <<ticks, listings>>
                BY <1>4, <2>1 DEF ReadEnvironments, ReadClusters
            <4>2. asking \in [Threads -> Calls]
                BY DEF DirectoryInv
            <4> QED  BY <4>1, <4>2 DEF Calls
        <3> QED  BY <3>1 DEF DirectoryRest
    <2>2. CASE PageCount \in NextPages(a)
        <3>1. PICK k \in CloudKeys :
                  /\ SetCached(k, NextPages(a)) /\ UNCHANGED ticks
                  /\ ReturnListing(a) \/ WithClusters(a, NextPages(a))
            BY <1>4, <2>2 DEF ReadEnvironments, ReadClusters, CloudKeys
        <3>2. ReturnListing(a) \/ \E w \in Keys, j \in Keys : StartReading(a, w, j)
            BY <3>1 DEF WithClusters, DirectoryInv, Calls
        <3>3. PICK pages \in SUBSET (1 .. PageCount) : pages = NextPages(a)
            BY PagesReadAreKnown
        <3>4. k \in Keys /\ SetCached(k, pages)
            BY <3>1, <3>3 DEF Keys
        <3>5. \A j \in Keys : listings'[j].pages \subseteq 1 .. PageCount
            BY <3>4, PutIsKnown
        <3>6. \A b \in Threads : asking'[b].wake >= 0
            BY <3>2, SleepsEnd
        <3> QED  BY <3>1, <3>5, <3>6 DEF DirectoryRest
    <2> QED  BY <2>1, <2>2
<1>5. ASSUME NEW a \in Threads, ReadTopics(a) \/ ReadAcls(a) PROVE DirectoryRest'
    <2>1. PICK k \in ClusterKeys : SetCached(k, {1}) /\ ReturnListing(a) /\ UNCHANGED ticks
        BY <1>5 DEF ReadTopics, ReadAcls, ClusterKeys
    <2>2. PICK pages \in SUBSET (1 .. PageCount) : pages = {1}
        <3>1. 1 \in 1 .. PageCount
            BY DirectoryAssumption
        <3>2. {1} \in SUBSET (1 .. PageCount)
            BY <3>1
        <3> QED  BY <3>2
    <2>3. k \in Keys /\ SetCached(k, pages)
        BY <2>1, <2>2 DEF Keys
    <2>4. \A j \in Keys : listings'[j].pages \subseteq 1 .. PageCount
        BY <2>3, PutIsKnown
    <2>5. \A b \in Threads : asking'[b].wake >= 0
        BY <2>1, SleepsEnd
    <2> QED  BY <2>1, <2>4, <2>5 DEF DirectoryRest
<1>6. ASSUME NEW a \in Threads, NEW wait \in RetryAfters, RateLimited(a, wait) PROVE DirectoryRest'
    <2>1. PICK k \in CloudKeys :
              /\ SetCached(k, asking[a].got) /\ UNCHANGED ticks
              /\ ReturnListing(a) \/ WithClusters(a, asking[a].got)
        BY <1>6 DEF RateLimited
    <2>2. PICK pages \in SUBSET (1 .. PageCount) : pages = asking[a].got
        BY PagesReadAreKnown
    <2>3. k \in Keys /\ SetCached(k, pages)
        BY <2>1, <2>2 DEF Keys
    <2>4. \A j \in Keys : listings'[j].pages \subseteq 1 .. PageCount
        BY <2>3, PutIsKnown
    <2>5. ReturnListing(a) \/ \E w \in Keys, j \in Keys : StartReading(a, w, j)
        BY <2>1 DEF WithClusters, DirectoryInv, Calls
    <2>6. \A b \in Threads : asking'[b].wake >= 0
        BY <2>5, SleepsEnd
    <2> QED  BY <2>1, <2>4, <2>6 DEF DirectoryRest
<1>7. ASSUME NEW a \in Threads, ListingFails(a) PROVE DirectoryRest'
    <2>1. ReturnListing(a) /\ UNCHANGED <<ticks, listings>>
        BY <1>7 DEF ListingFails, KeptOnError
    <2>2. \A b \in Threads : asking'[b].wake >= 0
        BY <2>1, SleepsEnd
    <2> QED  BY <2>1, <2>2 DEF DirectoryRest
<1>8. CASE RefreshCache
    BY <1>8 DEF RefreshCache, NoListing, DirectoryRest
<1>9. CASE TickClock
    <2>1. /\ ticks' <= LastTick /\ UNCHANGED asking
          /\ \A k \in Keys : listings'[k] \in {listings[k], NoListing}
        BY <1>9, DirectoryAssumption DEF TickClock, DirectoryInv
    <2>2. NoListing.pages = {}
        BY DEF NoListing
    <2> QED  BY <2>1, <2>2 DEF DirectoryRest
<1> QED
    BY <1>1, <1>2, <1>3, <1>4, <1>5, <1>6, <1>7, <1>8, <1>9 DEF DirectoryNext

\* Listings and the calls that make them are made of pages of the service.
LEMMA DirectoryKeepsTypes == DirectorySpec => []DirectoryTypeOK
<1>1. DirectoryInit => DirectoryInv /\ DirectoryRest
    <2> SUFFICES ASSUME DirectoryInit PROVE DirectoryInv /\ DirectoryRest
        OBVIOUS
    <2>1. DirectoryInv
        BY DirectoryStarts
    <2>2. DirectoryRest
        BY DirectoryAssumption DEF DirectoryInit, DirectoryRest, NoListing, NotAsking
    <2> QED  BY <2>1, <2>2
<1>2. DirectoryInv /\ DirectoryRest => DirectoryTypeOK
    <2> SUFFICES ASSUME DirectoryInv, DirectoryRest PROVE DirectoryTypeOK
        OBVIOUS
    <2>1. ticks \in 0 .. LastTick /\ limitedUntil \in Nat /\ LastTick \in Nat
        BY DirectoryAssumption DEF DirectoryInv, DirectoryRest
    <2>2. \A k \in Keys : listings[k] \in [pages : SUBSET (1 .. PageCount), at : -1 .. LastTick]
        <3> TAKE k \in Keys
        <3>1. listings[k] \in [pages : SUBSET Nat, at : {-1} \cup 0 .. ticks]
            BY DEF DirectoryInv
        <3>2. listings[k].at \in -1 .. LastTick
            BY <2>1, <3>1
        <3>3. listings[k].pages \subseteq 1 .. PageCount
            BY DEF DirectoryRest
        <3> QED  BY <3>1, <3>2, <3>3
    <2>3. \A a \in Threads :
              asking[a] \in [step : {"idle", "sleeping", "reading"}, want : Keys, key : Keys,
                             wake : Nat, got : SUBSET (1 .. PageCount)]
        <3> TAKE a \in Threads
        <3>1. asking[a] \in Calls
            BY DEF DirectoryInv
        <3>2. asking[a].wake \in Nat
            BY <3>1 DEF Calls, DirectoryRest
        <3>3. asking[a].got \subseteq 1 .. PageCount
            BY PagesReadAreKnown
        <3> QED  BY <3>1, <3>2, <3>3 DEF Calls
    <2> QED  BY <2>1, <2>2, <2>3 DEF DirectoryTypeOK, DirectoryInv
<1> QED  BY <1>1, <1>2, DirectoryStep, DirectoryTypesKeep, PTL DEF DirectorySpec

\* Where a request for the distribution can be.
ProbeStages == {"resting", "noise", "probing", "probed", "counting", "storing"}

\* Beyond the invariant: what is bounded, a kept distribution is still good, and an answer's
\* evidence is a time or Seen.
NoiseRest ==
    /\ tableThere \in BOOLEAN
    /\ methods # NotCached => methods.until > moment
    /\ \A r \in Readers : reader[r].at \in ProbeStages
    /\ queryFaultsLeft \in 0 .. QueryFaults
    /\ answered.since \in Evidence

\* Evidence stays evidence as time passes.
LEMMA EvidenceKept ==
    ASSUME NoiseInv
    PROVE  /\ Seen \in Evidence /\ moment \in Evidence
           /\ existence # NotCached => existence.since \in Evidence
           /\ methods # NotCached => methods.since \in Evidence
           /\ \A r \in Readers : reader[r].at \in {"probed", "storing"} => reader[r].since \in Evidence
<1>1. LastMoment \in Nat /\ moment \in 0 .. LastMoment
    BY NoiseAssumption DEF NoiseInv
<1>2. Seen \in Evidence /\ 0 .. moment \subseteq Evidence /\ moment \in Evidence
    BY <1>1 DEF Seen, Evidence, Moments
<1>3. existence # NotCached => existence.since \in Evidence
    BY <1>2 DEF NoiseInv, ExistenceIsDated
<1>4. methods # NotCached => methods.since \in Evidence
    BY <1>2 DEF NoiseInv, MethodsAreDated
<1>5. ASSUME NEW r \in Readers, reader[r].at \in {"probed", "storing"} PROVE reader[r].since \in Evidence
    <2>1. ReaderIsDated(reader[r], moment)
        BY DEF NoiseInv, ReadersDated
    <2>2. CASE reader[r].since = Seen
        BY <2>2, <1>2
    <2>3. CASE reader[r].since # Seen
        <3>1. reader[r].since \in 0 .. moment
            BY <1>1, <1>5, <2>1, <2>3 DEF ReaderIsDated
        <3> QED  BY <3>1, <1>2
    <2> QED  BY <2>2, <2>3
<1> QED  BY <1>2, <1>3, <1>4, <1>5

\* One request moves, an answer is given or none.
LEMMA StagesStay ==
    ASSUME NoiseInv, NoiseRest, NEW r \in Readers, NEW q, reader' = [reader EXCEPT ![r] = q], q.at \in ProbeStages
    PROVE  \A x \in Readers : reader'[x].at \in ProbeStages
<1>1. \A x \in Readers : reader'[x] = IF x = r THEN q ELSE reader[x]
    BY DEF NoiseInv, ReadersDated
<1> QED  BY <1>1 DEF NoiseRest

\* An answer rests on evidence.
LEMMA AnswerIsEvidence ==
    ASSUME NoiseInv, Silent \/ \E since \in Evidence : \E within : Answer(since, within)
    PROVE  answered'.since \in Evidence
BY EvidenceKept DEF Silent, Answer, NoAnswer

\* What a request concludes leaves the readers and the evidence typed.
LEMMA ConcludeIsKnown ==
    ASSUME NoiseInv, NoiseRest, NEW r \in Readers, NEW since \in Evidence, Conclude(r, since)
    PROVE  (\A x \in Readers : reader'[x].at \in ProbeStages) /\ answered'.since \in Evidence
<1>1. CASE reader[r].for = "methods"
    <2>1. PICK q : q.at = "storing" /\ reader' = [reader EXCEPT ![r] = q]
        BY <1>1 DEF Conclude
    <2>2. Silent
        BY <1>1 DEF Conclude
    <2>3. q.at \in ProbeStages
        BY <2>1 DEF ProbeStages
    <2> QED  BY <2>1, <2>2, <2>3, StagesStay, AnswerIsEvidence
<1>2. CASE reader[r].for # "methods"
    <2>1. /\ reader' = [reader EXCEPT ![r] = Resting]
          /\ Answer(since, FalseTtl + (moment - reader[r].asked))
        BY <1>2 DEF Conclude
    <2>2. Resting.at \in ProbeStages
        BY DEF Resting, ProbeStages
    <2> QED  BY <2>1, <2>2, StagesStay, AnswerIsEvidence
<1> QED  BY <1>1, <1>2

\* A step keeps the readers of the noise table typed.
LEMMA NoiseTypesKeep ==
    ASSUME NoiseInv, NoiseRest, [NoiseNext]_noiseVars
    PROVE  NoiseRest'
<1>0. QueryFaults \in Nat /\ MethodsTtl \in Nat \ {0} /\ moment \in Nat
    BY NoiseAssumption DEF NoiseInv
<1>a. Fault \/ UNCHANGED queryFaultsLeft => queryFaultsLeft' \in 0 .. QueryFaults
    BY <1>0 DEF Fault, NoiseRest
<1>b. Resting.at \in ProbeStages
    BY DEF Resting, ProbeStages
<1>1. CASE UNCHANGED noiseVars
    BY <1>1 DEF noiseVars, NoiseRest
<1>2. ASSUME NEW r \in Readers, AskMethods(r) PROVE NoiseRest'
    <2>1. UNCHANGED <<moment, tableThere, methods, queryFaultsLeft>>
        BY <1>2 DEF AskMethods
    <2>2. CASE methods # NotCached
        BY <1>2, <2>1, <2>2, EvidenceKept, AnswerIsEvidence DEF AskMethods, NoiseRest
    <2>3. CASE methods = NotCached
        <3>1. PICK q : q.at \in ProbeStages /\ reader' = [reader EXCEPT ![r] = q] /\ Silent
            BY <1>2, <2>3 DEF AskMethods, ProbeStages
        <3> QED  BY <2>1, <3>1, StagesStay, AnswerIsEvidence DEF NoiseRest
    <2> QED  BY <2>2, <2>3
<1>3. ASSUME NEW r \in Readers, AskNoise(r) PROVE NoiseRest'
    <2>1. UNCHANGED <<moment, tableThere, methods, queryFaultsLeft>> /\ Silent
        BY <1>3 DEF AskNoise
    <2>2. PICK q : q.at \in ProbeStages /\ reader' = [reader EXCEPT ![r] = q]
        <3> DEFINE begun == [at |-> "noise", for |-> "noise"]
        <3>1. begun.at \in ProbeStages /\ reader' = [reader EXCEPT ![r] = begun]
            BY <1>3 DEF AskNoise, ProbeStages
        <3> QED  BY <3>1
    <2> QED  BY <2>1, <2>2, StagesStay, AnswerIsEvidence DEF NoiseRest
<1>4. ASSUME NEW r \in Readers, CheckCache(r) PROVE NoiseRest'
    <2>1. UNCHANGED <<moment, tableThere, methods, queryFaultsLeft>>
        BY <1>4 DEF CheckCache
    <2>2. \E q : q.at \in ProbeStages /\ reader' = [reader EXCEPT ![r] = q]
        BY <1>4, <1>b DEF CheckCache, ProbeStages
    <2>3. Silent \/ (existence # NotCached /\ Answer(existence.since, FalseTtl))
        BY <1>4 DEF CheckCache
    <2> QED  BY <2>1, <2>2, <2>3, StagesStay, EvidenceKept, AnswerIsEvidence DEF NoiseRest
<1>5. ASSUME NEW r \in Readers, Probe(r) PROVE NoiseRest'
    <2>1. UNCHANGED <<moment, tableThere, methods>> /\ Silent /\ (Fault \/ UNCHANGED queryFaultsLeft)
        BY <1>5 DEF Probe
    <2>2. \E q : q.at \in ProbeStages /\ reader' = [reader EXCEPT ![r] = q]
        BY <1>5 DEF Probe, ProbeStages
    <2> QED  BY <2>1, <2>2, <1>a, StagesStay, AnswerIsEvidence DEF NoiseRest
<1>6. ASSUME NEW r \in Readers, CacheProbe(r) PROVE NoiseRest'
    <2>1. UNCHANGED <<moment, tableThere, methods, queryFaultsLeft>> /\ reader[r].at = "probed"
        BY <1>6 DEF CacheProbe
    <2>2. CASE reader[r].since = Seen
        <3>1. Silent /\ \E q : q.at \in ProbeStages /\ reader' = [reader EXCEPT ![r] = q]
            BY <1>6, <2>2 DEF CacheProbe, ProbeStages
        <3> QED  BY <2>1, <3>1, StagesStay, AnswerIsEvidence DEF NoiseRest
    <2>3. CASE reader[r].since # Seen
        <3>1. Conclude(r, reader[r].since) /\ reader[r].since \in Evidence
            BY <1>6, <2>1, <2>3, EvidenceKept DEF CacheProbe
        <3> QED  BY <2>1, <3>1, ConcludeIsKnown DEF NoiseRest
    <2> QED  BY <2>2, <2>3
<1>7. ASSUME NEW r \in Readers, CountNoise(r) PROVE NoiseRest'
    <2>1. UNCHANGED <<moment, tableThere, methods>> /\ (Fault \/ UNCHANGED queryFaultsLeft)
        BY <1>7 DEF CountNoise
    <2>2. \E since \in Evidence : Conclude(r, since)
        BY <1>7, EvidenceKept DEF CountNoise
    <2> QED  BY <2>1, <2>2, <1>a, ConcludeIsKnown DEF NoiseRest
<1>8. ASSUME NEW r \in Readers, StoreMethods(r) PROVE NoiseRest'
    <2>1. /\ UNCHANGED <<moment, tableThere, queryFaultsLeft>> /\ reader' = [reader EXCEPT ![r] = Resting]
          /\ methods'.until = moment + MethodsTtl
          /\ \E within : Answer(reader[r].since, within)
          /\ reader[r].since \in Evidence
        BY <1>8, EvidenceKept DEF StoreMethods
    <2>2. methods'.until > moment'
        BY <1>0, <2>1
    <2> QED  BY <2>1, <2>2, <1>b, StagesStay, AnswerIsEvidence DEF NoiseRest
<1>9. CASE CreateTable
    BY <1>9, AnswerIsEvidence DEF CreateTable, NoiseRest
<1>10. CASE NoiseTick
    <2>1. /\ moment' = moment + 1 /\ methods' = Kept(methods) /\ UNCHANGED <<tableThere, reader, queryFaultsLeft>>
          /\ Silent
        BY <1>10 DEF NoiseTick
    <2>2. ASSUME methods' # NotCached PROVE methods'.until > moment'
        <3>1. methods # NotCached /\ methods' = methods /\ ~ (methods.until <= moment + 1)
            BY <2>1, <2>2 DEF Kept
        <3>2. methods.until \in Nat
            BY <3>1 DEF NoiseInv, MethodsAreDated
        <3> QED  BY <1>0, <2>1, <3>1, <3>2
    <2> QED  BY <2>1, <2>2, AnswerIsEvidence DEF NoiseRest
<1> QED
    BY <1>1, <1>2, <1>3, <1>4, <1>5, <1>6, <1>7, <1>8, <1>9, <1>10 DEF NoiseNext

\* Requests, the cached distribution and the answers stay typed.
LEMMA NoiseKeepsTypes == NoiseSpec => []NoiseTypeOK
<1>1. NoiseInit => NoiseRest
    BY NoiseAssumption DEF NoiseInit, NoiseRest, Resting, NoAnswer, ProbeStages, Evidence, Seen
<1>2. NoiseInv /\ NoiseRest => NoiseTypeOK
    BY EvidenceKept DEF NoiseInv, NoiseRest, NoiseTypeOK, ProbeStages, Moments
<1> QED
    BY <1>1, <1>2, NoiseStarts, NoiseStep, NoiseTypesKeep, PTL DEF NoiseSpec

\* Beyond the invariant: what is bounded, and no payload is newer than the current one.
SecretRest ==
    /\ beat <= LastBeat /\ outages \in 0 .. Outages
    /\ cached = Empty \/ cached.version <= current
    /\ \A a \in SecretUsers : requesting[a].at = "storing" => requesting[a].version <= current
    /\ Len(settings) <= 2 * Len(Settings)

\* The start's last answer is the last there is room for.
LEMMA ReceivedFits ==
    ASSUME SecretInv, SecretRest, NEW a \in SecretUsers, NEW name, NEW found \in FoundSecret,
           Receives(a, name, found), a = "main" => ~Configured
    PROVE  Len(settings') <= 2 * Len(Settings)
<1>1. settings \in Seq(FoundSecret) /\ Len(settings) \in Nat /\ Len(Settings) \in Nat
    BY SecretAssumption DEF SecretInv, AnswersStand
<1>2. CASE a = "main"
    <2>1. settings' = Append(settings, found) /\ Len(settings) # 2 * Len(Settings)
        BY <1>2 DEF Receives, Configured
    <2>2. Len(settings') = Len(settings) + 1
        BY <1>1, <2>1
    <2>3. PICK l, m : l = Len(settings) /\ m = Len(Settings)
        OBVIOUS
    <2>4. l \in Nat /\ m \in Nat /\ l <= 2 * m /\ l # 2 * m => l + 1 <= 2 * m
        OBVIOUS
    <2> QED  BY <1>1, <2>1, <2>2, <2>3, <2>4 DEF SecretRest
<1>3. CASE a # "main"
    BY <1>3 DEF Receives, SecretRest
<1> QED  BY <1>2, <1>3

\* The main thread looks a secret up only before it is configured.
LEMMA AskerHasRoom ==
    ASSUME SecretInv, NEW a \in SecretUsers, requesting[a] # NoQuestion
    PROVE  a = "main" => ~Configured
BY DEF SecretInv, QuestionsInTurn

\* A step keeps the lookup of secrets typed.
LEMMA SecretTypesKeep ==
    ASSUME SecretInv, SecretRest, [SecretNext]_secretVars
    PROVE  SecretRest'
<1>0. /\ LastPayload \in Nat /\ beat \in Nat /\ current \in Nat /\ Outages \in Nat /\ LastBeat \in Nat
      /\ requesting = [a \in SecretUsers |-> requesting[a]]
    BY SecretAssumption, SecretConstants DEF SecretInv, VersionsAreDated, PayloadsAreDated
<1>1. CASE UNCHANGED secretVars
    BY <1>1 DEF secretVars, SecretRest
<1>2. ASSUME NEW a \in SecretUsers, NEW name \in SecretNames, AnswerAtOnce(a, name) PROVE SecretRest'
    <2>1. /\ UNCHANGED <<current, cached, requesting, beat, outages>>
          /\ a = "main" => ~Configured
        BY <1>2 DEF AnswerAtOnce, MayAsk
    <2>2. \E found \in FoundSecret : Receives(a, name, found)
        <3>1. CASE asmEnabled
            <4>1. cached # Empty /\ Receives(a, name, FromPayload(name, cached.version))
                BY <1>2, <3>1 DEF AnswerAtOnce, CacheHolds
            <4>2. cached.version \in 0 .. LastPayload
                BY <4>1 DEF SecretInv, PayloadsAreDated
            <4>3. FromPayload(name, cached.version) \in FoundSecret
                BY <4>2, <1>0, PayloadAnswers
            <4> QED  BY <4>1, <4>3
        <3>2. CASE ~asmEnabled
            <4>1. Receives(a, name, FromEnv(name, FALSE)) /\ FromEnv(name, FALSE) \in FoundSecret
                BY <1>2, <3>2, <1>0, EnvAnswers DEF AnswerAtOnce
            <4> QED  BY <4>1
        <3> QED  BY <3>1, <3>2
    <2>3. Len(settings') <= 2 * Len(Settings)
        BY <2>1, <2>2, ReceivedFits
    <2> QED  BY <2>1, <2>3 DEF SecretRest
<1>3. ASSUME NEW a \in SecretUsers, NEW name \in SecretNames, Miss(a, name) PROVE SecretRest'
    <2>1. /\ UNCHANGED <<current, cached, settings, beat, outages>>
          /\ \A b \in SecretUsers : requesting'[b] = requesting[b] \/ requesting'[b].at = "fetching"
        BY <1>0, <1>3 DEF Miss
    <2> QED  BY <2>1 DEF SecretRest
<1>4. ASSUME NEW a \in SecretUsers, FetchPayload(a) PROVE SecretRest'
    <2>1. /\ UNCHANGED <<current, cached, settings, beat, outages>>
          /\ \A b \in SecretUsers : requesting'[b] = requesting[b] \/ requesting'[b].version = current
        BY <1>0, <1>4 DEF FetchPayload
    <2> QED  BY <1>0, <2>1 DEF SecretRest
<1>5. ASSUME NEW a \in SecretUsers, Store(a) PROVE SecretRest'
    <2>1. PICK name, v : name = requesting[a].name /\ v = requesting[a].version
        OBVIOUS
    <2>2. /\ requesting[a].at = "storing" /\ cached'.version = v
          /\ Receives(a, name, FromPayload(name, v))
          /\ \A b \in SecretUsers : requesting'[b] = requesting[b] \/ requesting'[b] = NoQuestion
          /\ UNCHANGED <<current, beat, outages>>
        BY <1>0, <1>5, <2>1 DEF Store
    <2>3. v \in 0 .. LastPayload /\ v <= current
        BY <2>1, <2>2 DEF SecretInv, PayloadsAreDated, SecretRest
    <2>4. FromPayload(name, v) \in FoundSecret
        BY <1>0, <2>3, PayloadAnswers
    <2>5. requesting[a] # NoQuestion /\ NoQuestion.at # "storing"
        BY <2>2 DEF NoQuestion
    <2>6. Len(settings') <= 2 * Len(Settings)
        BY <2>2, <2>4, <2>5, AskerHasRoom, ReceivedFits
    <2> QED  BY <2>2, <2>3, <2>5, <2>6 DEF SecretRest
<1>6. ASSUME NEW a \in SecretUsers, FetchFails(a) PROVE SecretRest'
    <2>1. PICK name : name = requesting[a].name
        OBVIOUS
    <2>2. /\ requesting[a].at = "fetching"
          /\ Receives(a, name, FromEnv(name, TRUE))
          /\ \A b \in SecretUsers : requesting'[b] = requesting[b] \/ requesting'[b] = NoQuestion
          /\ UNCHANGED <<current, cached, beat>>
        BY <1>0, <1>6, <2>1 DEF FetchFails
    <2>3. outages' \in 0 .. Outages
        BY <1>0, <1>6 DEF FetchFails, SecretRest
    <2>4. FromEnv(name, TRUE) \in FoundSecret
        BY <1>0, EnvAnswers
    <2>5. requesting[a] # NoQuestion /\ NoQuestion.at # "storing"
        BY <2>2 DEF NoQuestion
    <2>6. Len(settings') <= 2 * Len(Settings)
        BY <2>2, <2>4, <2>5, AskerHasRoom, ReceivedFits
    <2> QED  BY <2>2, <2>3, <2>5, <2>6 DEF SecretRest
<1>7. CASE Rotate
    <2>1. current' = current + 1 /\ UNCHANGED <<cached, requesting, settings, beat, outages>>
        BY <1>7 DEF Rotate
    <2>2. cached # Empty => cached.version \in Nat
        BY <1>0 DEF SecretInv, PayloadsAreDated
    <2>3. \A a \in SecretUsers : requesting[a].at = "storing" => requesting[a].version \in Nat
        BY <1>0 DEF SecretInv, PayloadsAreDated
    <2> QED  BY <1>0, <2>1, <2>2, <2>3 DEF SecretRest
<1>8. CASE Beat
    <2>1. beat' <= LastBeat /\ UNCHANGED <<current, cached, requesting, settings, outages>>
        BY <1>0, <1>8 DEF Beat
    <2> QED  BY <2>1 DEF SecretRest
<1> QED
    BY <1>1, <1>2, <1>3, <1>4, <1>5, <1>6, <1>7, <1>8 DEF SecretNext

\* The lookups of secrets stay typed, whatever the stores answer.
LEMMA SecretsKeepTypes == SecretSpec => []SecretTypeOK
<1>1. SecretInit => SecretRest
    <2> SUFFICES ASSUME SecretInit PROVE SecretRest
        OBVIOUS
    <2>1. Len(settings) = 0 /\ Len(Settings) \in Nat
        BY SecretAssumption DEF SecretInit
    <2>2. Len(settings) <= 2 * Len(Settings)
        BY <2>1
    <2> QED  BY <2>2, SecretAssumption DEF SecretInit, SecretRest, NoQuestion
<1>2. SecretInv /\ SecretRest => SecretTypeOK
    <2> SUFFICES ASSUME SecretInv, SecretRest PROVE SecretTypeOK
        OBVIOUS
    <2>1. cached.version \in -1 .. current
        <3>1. current \in Nat /\ LastPayload \in Nat
            BY SecretConstants DEF SecretInv, VersionsAreDated
        <3>2. CASE cached = Empty
            BY <3>1, <3>2 DEF Empty
        <3>3. CASE cached # Empty
            BY <3>1, <3>3 DEF SecretInv, PayloadsAreDated, SecretRest
        <3> QED  BY <3>2, <3>3
    <2>2. \A i \in DOMAIN settings : settings[i] \in FoundSecret
        BY DEF SecretInv, AnswersStand
    <2> QED  BY <2>1, <2>2, SecretAssumption DEF SecretInv, VersionsAreDated, SecretRest, SecretTypeOK
<1> QED
    BY <1>1, <1>2, SecretsStart, SecretStep, SecretTypesKeep, PTL DEF SecretSpec

\* Beyond the invariant: what is bounded, what the maps and a refresh hold are names, and an
\* open mapping is an edit.
NamesRest ==
    /\ mapping \in [Principals -> FileNames \cup {Raw}]
    /\ maps \in [Principals -> IamNames \cup {Raw}]
    /\ fetchedMaps # Idle => fetchedMaps.names \in [Principals -> IamNames \cup {Raw}]
    /\ failedRefreshes \in 0 .. IamFaults
    /\ edits \in 0 .. MaxEdits /\ (~written => edits > 0)

\* A step keeps the names and the cached maps typed.
LEMMA NamesTypesKeep ==
    ASSUME NamesInv, NamesRest, [NamesNext]_namesVars
    PROVE  NamesRest'
<1>0. IamFaults \in Nat /\ MaxEdits \in Nat
    BY ActorNamesAssumption
<1>1. CASE UNCHANGED namesVars
    BY <1>1 DEF namesVars, NamesRest
<1>2. ASSUME NEW p \in Principals, Rename(p) PROVE NamesRest'
    BY <1>2 DEF Rename, enricherVars, NamesRest
<1>3. ASSUME NEW p \in Principals, DumpMapping(p) PROVE NamesRest'
    <2>1. /\ ~written /\ written' = TRUE /\ mapping' = [mapping EXCEPT ![p] = <<"file", edits>>]
          /\ UNCHANGED <<edits, maps, fetchedMaps, failedRefreshes>>
        BY <1>3 DEF DumpMapping, enricherVars
    <2>2. <<"file", edits>> \in FileNames
        <3>1. edits \in 1 .. MaxEdits
            BY <1>0, <2>1 DEF NamesRest
        <3> QED  BY <3>1 DEF FileNames
    <2>3. mapping' \in [Principals -> FileNames \cup {Raw}]
        <3>1. PICK n \in FileNames : n = <<"file", edits>>
            BY <2>2
        <3>2. mapping' = [mapping EXCEPT ![p] = n]
            BY <2>1, <3>1
        <3> QED  BY <3>2 DEF NamesRest
    <2> QED  BY <2>1, <2>3 DEF NamesRest
<1>4. CASE OpenMapping
    BY <1>0, <1>4 DEF OpenMapping, enricherVars, NamesRest
<1>5. CASE FetchIdentities
    <2>1. UNCHANGED <<mapping, written, edits, maps>>
        BY <1>5 DEF FetchIdentities, sourceVars
    <2>2. failedRefreshes' \in 0 .. IamFaults
        BY <1>0, <1>5 DEF FetchIdentities, NamesRest
    <2>3. iamName \in [Principals -> IamNames]
        BY DEF NamesInv, SourcesAreSound
    <2>4. fetchedMaps'.names \in [Principals -> IamNames \cup {Raw}]
        BY <1>5, <2>3 DEF FetchIdentities
    <2> QED  BY <2>1, <2>2, <2>4 DEF NamesRest
<1>6. CASE SwapIdentities
    BY <1>6 DEF SwapIdentities, sourceVars, NamesRest
<1>7. CASE RefreshFails
    BY <1>0, <1>7 DEF RefreshFails, sourceVars, NamesRest
<1>8. ASSUME NEW t \in Lookups, CacheName(t) PROVE NamesRest'
    BY <1>8 DEF CacheName, sourceVars, enricherVars, NamesRest
<1>9. ASSUME NEW t \in Lookups, NEW p \in Principals, LookUp(t, p) PROVE NamesRest'
    BY <1>9 DEF LookUp, sourceVars, NamesRest
<1>10. CASE Prefetch \/ StorePrefetched
    BY <1>10 DEF Prefetch, StorePrefetched, sourceVars, enricherVars, NamesRest
<1>11. CASE NamesTick
    BY <1>11 DEF NamesTick, NamesRest
<1> QED
    BY <1>1, <1>2, <1>3, <1>4, <1>5, <1>6, <1>7, <1>8, <1>9, <1>10, <1>11 DEF NamesNext

\* The names of actors and the clocks of their refresh stay typed.
LEMMA NamesKeepTypes == NamesSpec => []NamesTypeOK
<1>1. NamesInit => NamesRest
    BY ActorNamesAssumption DEF NamesInit, NamesRest
<1>2. NamesInv /\ NamesRest => NamesTypeOK
    BY NamesConstants DEF NamesInv, SourcesAreSound, EnricherIsRecent, NamesRest, NamesTypeOK
<1> QED
    BY <1>1, <1>2, NamesStart, NamesStep, NamesTypesKeep, PTL DEF NamesSpec

\* Where a request for the status can be.
StatusPlaces == {"idle", "ask", "fetch", "keep", "answer"}

\* Beyond the invariant: what is bounded, where a request is, and what is answered.
StatusRest ==
    /\ instant <= LastInstant /\ verdict \in Healths
    /\ fetching \in [Caches -> BOOLEAN]
    /\ \A r \in StatusReaders : at[r] \in StatusPlaces
    /\ shown.status \in {"none", "unknown", "healthy", "degraded", "stalled"}
    /\ changes \in 0 .. MaxChanges /\ asks \in 0 .. MaxAsks

\* A step keeps the requests for the status typed.
LEMMA StatusTypesKeep ==
    ASSUME StatusInv, StatusRest, [StatusNext]_statusViewVars
    PROVE  StatusRest'
<1>0. /\ LastInstant \in Nat /\ MaxChanges \in Nat /\ MaxAsks \in Nat /\ instant \in Nat
      /\ at = [r \in StatusReaders |-> at[r]]
      /\ \A r \in StatusReaders : which[r] \in Caches
    BY StatusViewAssumption DEF StatusInv, GivenAreDated, GivenIsDated
<1>1. CASE UNCHANGED statusViewVars
    BY <1>1 DEF statusViewVars, pipelineVars, statusCacheVars, requestVars, StatusRest
<1>2. CASE ForwarderChanges \/ NewerEvent
    <2>1. /\ UNCHANGED <<instant, fetching, at, shown, asks>>
          /\ verdict' \in Healths \cup {verdict} /\ changes < MaxChanges /\ changes' = changes + 1
        BY <1>2 DEF ForwarderChanges, NewerEvent, PipelineAlters, statusCacheVars, requestVars
    <2>2. changes' \in 0 .. MaxChanges
        BY <1>0, <2>1 DEF StatusRest
    <2>3. verdict' \in Healths
        BY <2>1 DEF StatusRest
    <2> QED  BY <2>1, <2>2, <2>3 DEF StatusRest
<1>3. CASE InstantPasses
    <2>1. /\ UNCHANGED <<verdict, fetching, at, shown, changes, asks>>
          /\ instant < LastInstant /\ instant' = instant + 1
        BY <1>3 DEF InstantPasses, pipelineVars, statusCacheVars, requestVars
    <2>2. instant' <= LastInstant
        BY <1>0, <2>1
    <2> QED  BY <2>1, <2>2 DEF StatusRest
<1>4. ASSUME NEW r \in StatusReaders, AskStatus(r) PROVE StatusRest'
    <2>1. /\ UNCHANGED <<instant, verdict, fetching, changes>>
          /\ at' = [at EXCEPT ![r] = "ask"] /\ shown' = NoStatus /\ asks < MaxAsks /\ asks' = asks + 1
        BY <1>4 DEF AskStatus, pipelineVars, statusCacheVars
    <2>2. asks' \in 0 .. MaxAsks
        BY <1>0, <2>1 DEF StatusRest
    <2>3. \A x \in StatusReaders : at'[x] \in StatusPlaces
        BY <1>0, <2>1 DEF StatusRest, StatusPlaces
    <2>4. shown'.status = "none"
        BY <2>1 DEF NoStatus
    <2> QED  BY <2>1, <2>2, <2>3, <2>4 DEF StatusRest
<1>5. ASSUME NEW r \in StatusReaders, LookUpCache(r) PROVE StatusRest'
    <2>1. UNCHANGED <<instant, verdict, shown, changes, asks>>
        BY <1>5 DEF LookUpCache, pipelineVars
    <2>2. \E a \in StatusPlaces : at' = [at EXCEPT ![r] = a]
        <3>1. \E a : a \in StatusPlaces /\ at' = [at EXCEPT ![r] = a]
            BY <1>5 DEF LookUpCache, Turn, StatusPlaces
        <3> QED  BY <3>1
    <2>3. \A x \in StatusReaders : at'[x] \in StatusPlaces
        BY <1>0, <2>2 DEF StatusRest
    <2>4. fetching' = fetching \/ fetching' = [fetching EXCEPT ![which[r]] = TRUE]
        BY <1>5 DEF LookUpCache, statusCacheVars
    <2>5. fetching' \in [Caches -> BOOLEAN]
        BY <1>0, <2>4 DEF StatusRest
    <2> QED  BY <2>1, <2>3, <2>5 DEF StatusRest
<1>6. ASSUME NEW r \in StatusReaders, Fetch(r) PROVE StatusRest'
    <2>1. /\ UNCHANGED <<instant, verdict, shown, changes, asks>>
          /\ at' = [at EXCEPT ![r] = "keep"] /\ fetching' = [fetching EXCEPT ![which[r]] = FALSE]
        BY <1>6 DEF Fetch, pipelineVars
    <2>2. \A x \in StatusReaders : at'[x] \in StatusPlaces
        BY <1>0, <2>1 DEF StatusRest, StatusPlaces
    <2>3. fetching' \in [Caches -> BOOLEAN]
        BY <1>0, <2>1 DEF StatusRest
    <2> QED  BY <2>1, <2>2, <2>3 DEF StatusRest
<1>7. ASSUME NEW r \in StatusReaders, KeepFetched(r) PROVE StatusRest'
    <2>1. /\ UNCHANGED <<instant, verdict, fetching, shown, changes, asks>>
          /\ at' = [at EXCEPT ![r] = IF which[r] = "health" THEN "ask" ELSE "answer"]
        BY <1>7 DEF KeepFetched, Turn, pipelineVars
    <2>2. (IF which[r] = "health" THEN "ask" ELSE "answer") \in StatusPlaces
        BY DEF StatusPlaces
    <2>3. \A x \in StatusReaders : at'[x] \in StatusPlaces
        BY <1>0, <2>1, <2>2 DEF StatusRest
    <2> QED  BY <2>1, <2>3 DEF StatusRest
<1>8. ASSUME NEW r \in StatusReaders, AnswerStatus(r) PROVE StatusRest'
    <2>1. UNCHANGED <<instant, verdict, fetching, changes, asks>> /\ at' = [at EXCEPT ![r] = "idle"]
        BY <1>8 DEF AnswerStatus, pipelineVars, statusCacheVars
    <2>2. \A x \in StatusReaders : at'[x] \in StatusPlaces
        BY <1>0, <2>1 DEF StatusRest, StatusPlaces
    <2>3. \A b, l : Classified(b, l) \in {"stalled", "healthy", "degraded"}
        BY DEF Classified
    <2>4. \E b, l : shown'.status \in {"unknown", "stalled", Classified(b, l)}
        BY <1>8, Zenon DEF AnswerStatus
    <2>5. shown'.status \in {"none", "unknown", "healthy", "degraded", "stalled"}
        BY <2>3, <2>4
    <2> QED  BY <2>1, <2>2, <2>5 DEF StatusRest
<1> QED
    BY <1>1, <1>2, <1>3, <1>4, <1>5, <1>6, <1>7, <1>8 DEF StatusNext

\* The requests for the status and its two caches stay typed.
LEMMA StatusKeepsTypes == StatusSpec => []StatusTypeOK
<1>1. StatusInit => StatusRest
    BY StatusViewAssumption DEF StatusInit, StatusRest, StatusPlaces, Healths, NoStatus
<1>2. StatusInv /\ StatusRest => StatusTypeOK
    <2> SUFFICES ASSUME StatusInv, StatusRest PROVE StatusTypeOK
        OBVIOUS
    <2>1. instant \in 0 .. LastInstant
        BY StatusViewAssumption DEF StatusInv, StatusRest
    <2>2. at \in [StatusReaders -> StatusPlaces] /\ which \in [StatusReaders -> Caches]
        BY DEF StatusInv, GivenAreDated, GivenIsDated, StatusRest
    <2> QED  BY <2>1, <2>2 DEF StatusInv, StatusRest, StatusTypeOK, StatusPlaces
<1> QED
    BY <1>1, <1>2, StatusStarts, StatusStep, StatusTypesKeep, PTL DEF StatusSpec

\* Beyond the invariant, one part for each part of the page.
SpendingIsBounded ==
    acts \in Nat /\ faults \in Nat /\ acts + faults <= MaxActs /\ faults <= CallFaults

\* The polls of the status, and below the lists, the figures, the actor and the rows.
PollsAreNumbered ==
    polls \in Nat /\ 1 <= polls /\ polls <= acts + 1 /\ health \in Nat /\ health <= polls

PollsAreCounted == PollsAreNumbered /\ statusError \in BOOLEAN

ListsWereRead ==
    pageError \in BOOLEAN /\ optionsAsked \in BOOLEAN /\ \A l \in list : l.read = TRUE

FiguresAreKnown == summary \in Filters \cup {Unanswered} /\ summaryError \in BOOLEAN

ActorIsKnown == actor \in Actors \cup {Unanswered}

RowsAreKnown ==
    {expanded, detail} \subseteq Rows \cup {Unanswered} /\ expandedError \in BOOLEAN

\* A step spends requests within their bounds.
LEMMA SpendingStep ==
    ASSUME SpendingIsBounded, ViewNext
    PROVE  SpendingIsBounded' /\ acts <= acts'
<1> USE EventsViewAssumption DEF SpendingIsBounded
<1>1. ASSUME Spends, UNCHANGED faults PROVE SpendingIsBounded' /\ acts <= acts'
    BY <1>1 DEF Spends
<1>2. ASSUME Fails, UNCHANGED acts PROVE SpendingIsBounded' /\ acts <= acts'
    BY <1>2 DEF Fails
<1>3. ASSUME UNCHANGED <<acts, faults>> PROVE SpendingIsBounded' /\ acts <= acts'
    BY <1>3
<1>4. CASE \/ ChangeFilters \/ TurnPage \/ ShowActor \/ ToggleExpand \/ CloseDrawer \/ Triage \/ PollStatus
    BY <1>1, <1>4 DEF ChangeFilters, TurnPage, ShowActor, ToggleExpand, CloseDrawer, Triage, PollStatus, Acts
<1>5. CASE OptionsEnd
    BY <1>2, <1>3, <1>5 DEF OptionsEnd
<1>6. CASE \E c \in listCalls : ServeList(c) \/ ListArrives(c) \/ ListFails(c)
    BY <1>2, <1>3, <1>6 DEF ServeList, ListArrives, ListFails
<1>7. CASE \/ \E c \in summaryCalls : SummaryEnds(c)
           \/ \E n \in statusCalls : PollEnds(n)
    BY <1>2, <1>3, <1>7 DEF SummaryEnds, PollEnds
<1>8. CASE \E c \in panelCalls : PanelEnds(c)
    BY <1>2, <1>3, <1>8 DEF PanelEnds
<1>9. CASE \E c \in detailCalls : DetailArrives(c) \/ DetailFails(c)
    BY <1>2, <1>3, <1>9 DEF DetailArrives, DetailFails
<1>10. CASE \E c \in triageCalls : SaveTriage(c) \/ TriageArrives(c) \/ TriageFails(c)
    BY <1>2, <1>3, <1>10 DEF SaveTriage, TriageArrives, TriageFails
<1> QED
    BY <1>4, <1>5, <1>6, <1>7, <1>8, <1>9, <1>10 DEF ViewNext

\* A count that is at most one ahead stays so.
LEMMA StillAfterThem ==
    ASSUME NEW p \in Nat, NEW a \in Nat, NEW b \in Nat, p <= a + 1, a <= b
    PROVE  p <= b + 1
OBVIOUS

\* A step keeps the polls numbered.
LEMMA PollsStep ==
    ASSUME ViewInv, SpendingIsBounded, PollsAreCounted, ViewNext
    PROVE  PollsAreCounted'
<1>0. acts \in Nat /\ acts' \in Nat /\ acts <= acts' /\ PollsAreNumbered
    BY SpendingStep DEF SpendingIsBounded, PollsAreCounted
<1>p. polls <= acts' + 1
    BY <1>0, StillAfterThem DEF PollsAreNumbered
<1>1. CASE PollStatus
    <2>1. polls' = polls + 1 /\ acts' = acts + 1 /\ UNCHANGED <<health, statusError>>
        BY <1>1 DEF PollStatus, Spends
    <2>2. PollsAreNumbered'
        BY <1>0, <2>1 DEF PollsAreNumbered
    <2> QED  BY <2>1, <2>2 DEF PollsAreCounted
<1>2. ASSUME NEW n \in statusCalls, PollEnds(n) PROVE PollsAreCounted'
    <2>1. n = polls
        BY DEF ViewInv, HeartbeatIsCurrent
    <2>2. polls' = polls /\ (health' = polls \/ health' = health)
        BY <1>2, <2>1 DEF PollEnds
    <2>3. statusError' \in {statusError, TRUE, FALSE}
        BY <1>2 DEF PollEnds
    <2>4. PollsAreNumbered'
        <3>1. polls \in Nat /\ 1 <= polls /\ health \in Nat /\ health <= polls
            BY <1>0 DEF PollsAreNumbered
        <3>2. health' \in Nat /\ health' <= polls'
            BY <3>1, <2>2
        <3> QED  BY <1>p, <2>2, <3>1, <3>2 DEF PollsAreNumbered
    <2> QED  BY <2>3, <2>4 DEF PollsAreCounted
<1>3. ASSUME UNCHANGED statusVars PROVE PollsAreCounted'
    <2>1. PollsAreNumbered'
        BY <1>0, <1>p, <1>3 DEF PollsAreNumbered, statusVars
    <2> QED  BY <1>3, <2>1 DEF PollsAreCounted, statusVars
<1>4. CASE \/ ChangeFilters \/ TurnPage \/ ToggleExpand \/ CloseDrawer \/ Triage \/ ShowActor \/ OptionsEnd
    BY <1>3, <1>4 DEF ChangeFilters, TurnPage, ToggleExpand, CloseDrawer, Triage, ShowActor, OptionsEnd
<1>5. CASE \E c \in listCalls : ServeList(c) \/ ListArrives(c) \/ ListFails(c)
    BY <1>3, <1>5 DEF ServeList, ListArrives, ListFails
<1>6. CASE \/ \E c \in summaryCalls : SummaryEnds(c)
           \/ \E c \in panelCalls : PanelEnds(c)
           \/ \E c \in detailCalls : DetailArrives(c) \/ DetailFails(c)
    BY <1>3, <1>6 DEF SummaryEnds, PanelEnds, DetailArrives, DetailFails
<1>7. CASE \E c \in triageCalls : SaveTriage(c) \/ TriageArrives(c) \/ TriageFails(c)
    BY <1>3, <1>7 DEF SaveTriage, TriageArrives, TriageFails
<1> QED
    BY <1>1, <1>2, <1>4, <1>5, <1>6, <1>7 DEF ViewNext

\* A step keeps the lists to those that were read.
LEMMA ReadStep ==
    ASSUME ViewInv, ListsWereRead, ViewNext
    PROVE  ListsWereRead'
<1>1. ASSUME UNCHANGED <<list, errorVars>> PROVE ListsWereRead'
    BY <1>1 DEF ListsWereRead, errorVars
<1>2. CASE \/ ChangeFilters \/ TurnPage \/ ToggleExpand \/ CloseDrawer \/ Triage \/ ShowActor \/ PollStatus
    BY <1>1, <1>2 DEF ChangeFilters, TurnPage, ToggleExpand, CloseDrawer, Triage, ShowActor, PollStatus, listVars
<1>3. CASE OptionsEnd
    <2>1. list' = list /\ optionsAsked' = FALSE /\ pageError' \in {pageError, TRUE}
        BY <1>3 DEF OptionsEnd, BreakPage, listVars
    <2> QED  BY <2>1 DEF ListsWereRead
<1>4. ASSUME NEW c \in listCalls, ListArrives(c) PROVE ListsWereRead'
    <2>1. c.read = TRUE
        BY <1>4 DEF ListArrives, ViewInv, ListIsCurrent, ListRecords
    <2> QED  BY <1>4, <2>1 DEF ListArrives, ListsWereRead, errorVars
<1>5. ASSUME NEW c \in listCalls, ServeList(c) \/ ListFails(c) PROVE ListsWereRead'
    BY <1>5 DEF ServeList, ListFails, BreakPage, ListsWereRead, errorVars
<1>6. CASE \/ \E c \in summaryCalls : SummaryEnds(c)
           \/ \E c \in panelCalls : PanelEnds(c)
           \/ \E c \in detailCalls : DetailArrives(c) \/ DetailFails(c)
           \/ \E n \in statusCalls : PollEnds(n)
    BY <1>1, <1>6 DEF SummaryEnds, PanelEnds, DetailArrives, DetailFails, PollEnds, listVars
<1>7. ASSUME NEW c \in triageCalls, TriageArrives(c) PROVE ListsWereRead'
    <2>1. list' = {[l EXCEPT !.marks[c.id] = c.mark] : l \in list} /\ UNCHANGED errorVars
        BY <1>7 DEF TriageArrives
    <2>2. \A l \in list : [l EXCEPT !.marks[c.id] = c.mark].read = l.read
        BY DEF ViewInv, ListIsCurrent, ListRecords
    <2> QED  BY <2>1, <2>2 DEF ListsWereRead, errorVars
<1>8. ASSUME NEW c \in triageCalls, SaveTriage(c) \/ TriageFails(c) PROVE ListsWereRead'
    BY <1>1, <1>8 DEF SaveTriage, TriageFails, listVars
<1> QED
    BY <1>2, <1>3, <1>4, <1>5, <1>6, <1>7, <1>8 DEF ViewNext

\* A step keeps the figures of a known filter.
LEMMA FiguresStep ==
    ASSUME ViewInv, FiguresAreKnown, ViewNext
    PROVE  FiguresAreKnown'
<1>1. CASE ChangeFilters
    BY <1>1 DEF ChangeFilters, FiguresAreKnown
<1>2. ASSUME NEW c \in summaryCalls, SummaryEnds(c) PROVE FiguresAreKnown'
    <2>1. c.filters \in Filters
        BY DEF ViewInv, SummaryIsCurrent, ListIsCurrent
    <2>2. summary' \in {c.filters, summary} /\ summaryError' \in {summaryError, TRUE}
        BY <1>2 DEF SummaryEnds
    <2> QED  BY <2>1, <2>2 DEF FiguresAreKnown
<1>3. ASSUME UNCHANGED summaryVars PROVE FiguresAreKnown'
    BY <1>3 DEF FiguresAreKnown, summaryVars
<1>4. CASE \/ TurnPage \/ OptionsEnd \/ ShowActor \/ ToggleExpand \/ CloseDrawer \/ Triage \/ PollStatus
    BY <1>3, <1>4 DEF TurnPage, OptionsEnd, ShowActor, ToggleExpand, CloseDrawer, Triage, PollStatus
<1>5. CASE \E c \in listCalls : ServeList(c) \/ ListArrives(c) \/ ListFails(c)
    BY <1>3, <1>5 DEF ServeList, ListArrives, ListFails
<1>6. CASE \/ \E c \in panelCalls : PanelEnds(c)
           \/ \E c \in detailCalls : DetailArrives(c) \/ DetailFails(c)
           \/ \E n \in statusCalls : PollEnds(n)
    BY <1>3, <1>6 DEF PanelEnds, DetailArrives, DetailFails, PollEnds
<1>7. CASE \E c \in triageCalls : SaveTriage(c) \/ TriageArrives(c) \/ TriageFails(c)
    BY <1>3, <1>7 DEF SaveTriage, TriageArrives, TriageFails
<1> QED
    BY <1>1, <1>2, <1>4, <1>5, <1>6, <1>7 DEF ViewNext

\* A step keeps the actor of the panel known.
LEMMA ActorStays ==
    ASSUME ActorIsKnown, ViewNext
    PROVE  ActorIsKnown'
<1>1. CASE ShowActor
    BY <1>1 DEF ShowActor, ActorIsKnown
<1>2. ASSUME UNCHANGED actor PROVE ActorIsKnown'
    BY <1>2 DEF ActorIsKnown
<1>3. CASE \/ ChangeFilters \/ TurnPage \/ ToggleExpand \/ CloseDrawer \/ Triage \/ PollStatus \/ OptionsEnd
    BY <1>2, <1>3 DEF ChangeFilters, TurnPage, ToggleExpand, CloseDrawer, Triage, PollStatus, OptionsEnd, panelVars
<1>4. CASE \E c \in listCalls : ServeList(c) \/ ListArrives(c) \/ ListFails(c)
    BY <1>2, <1>4 DEF ServeList, ListArrives, ListFails, panelVars
<1>5. CASE \/ \E c \in summaryCalls : SummaryEnds(c)
           \/ \E c \in panelCalls : PanelEnds(c)
           \/ \E c \in detailCalls : DetailArrives(c) \/ DetailFails(c)
           \/ \E n \in statusCalls : PollEnds(n)
    BY <1>2, <1>5 DEF SummaryEnds, PanelEnds, DetailArrives, DetailFails, PollEnds, panelVars
<1>6. CASE \E c \in triageCalls : SaveTriage(c) \/ TriageArrives(c) \/ TriageFails(c)
    BY <1>2, <1>6 DEF SaveTriage, TriageArrives, TriageFails, panelVars
<1> QED
    BY <1>1, <1>3, <1>4, <1>5, <1>6 DEF ViewNext

\* A step keeps the rows of a known filter.
LEMMA RowsStep ==
    ASSUME ViewInv, RowsAreKnown, ViewNext
    PROVE  RowsAreKnown'
<1>1. CASE ChangeFilters
    BY <1>1 DEF ChangeFilters, RowsAreKnown
<1>2. CASE ToggleExpand \/ CloseDrawer
    BY <1>2 DEF ToggleExpand, CloseDrawer, RowsAreKnown
<1>3. ASSUME NEW c \in detailCalls, DetailArrives(c) \/ DetailFails(c) PROVE RowsAreKnown'
    <2>1. c.id \in Rows
        BY DEF ViewInv, ListIsCurrent
    <2>2. /\ expanded' \in {c.id, expanded} /\ detail' \in {c.id, detail}
          /\ expandedError' \in {expandedError, TRUE, FALSE}
        BY <1>3 DEF DetailArrives, DetailFails
    <2> QED  BY <2>1, <2>2 DEF RowsAreKnown
<1>4. ASSUME UNCHANGED <<expanded, detail, expandedError>> PROVE RowsAreKnown'
    BY <1>4 DEF RowsAreKnown
<1>5. CASE \/ TurnPage \/ Triage \/ PollStatus \/ OptionsEnd \/ ShowActor
    BY <1>4, <1>5 DEF TurnPage, Triage, PollStatus, OptionsEnd, ShowActor, detailVars
<1>6. CASE \E c \in listCalls : ServeList(c) \/ ListArrives(c) \/ ListFails(c)
    BY <1>4, <1>6 DEF ServeList, ListArrives, ListFails, detailVars
<1>7. CASE \/ \E c \in summaryCalls : SummaryEnds(c)
           \/ \E c \in panelCalls : PanelEnds(c)
           \/ \E n \in statusCalls : PollEnds(n)
    BY <1>4, <1>7 DEF SummaryEnds, PanelEnds, PollEnds, detailVars
<1>8. CASE \E c \in triageCalls : SaveTriage(c) \/ TriageArrives(c) \/ TriageFails(c)
    BY <1>4, <1>8 DEF SaveTriage, TriageArrives, TriageFails, detailVars
<1> QED
    BY <1>1, <1>2, <1>3, <1>5, <1>6, <1>7, <1>8 DEF ViewNext

ViewRest ==
    /\ SpendingIsBounded /\ PollsAreCounted /\ ListsWereRead
    /\ FiguresAreKnown /\ ActorIsKnown /\ RowsAreKnown

\* A step keeps all of the page typed.
LEMMA ViewTypesKeep ==
    ASSUME ViewInv, ViewRest, [ViewNext]_viewVars
    PROVE  ViewRest'
<1>1. CASE ViewNext
    BY <1>1, SpendingStep, PollsStep, ReadStep, FiguresStep, ActorStays, RowsStep DEF ViewRest
<1>2. CASE UNCHANGED viewVars
    BY <1>2 DEF viewVars, listVars, summaryVars, detailVars, panelVars, statusVars, errorVars,
       ViewRest, SpendingIsBounded, PollsAreCounted, PollsAreNumbered, ListsWereRead, FiguresAreKnown, ActorIsKnown,
       RowsAreKnown
<1> QED  BY <1>1, <1>2

\* What the events page shows and awaits stays typed, in whatever order answers come.
LEMMA ViewKeepsTypes == ViewSpec => []ViewTypeOK
<1>1. ViewInit => ViewRest
    <2> SUFFICES ASSUME ViewInit PROVE ViewRest
        OBVIOUS
    <2>1. SpendingIsBounded
        BY EventsViewAssumption DEF ViewInit, SpendingIsBounded
    <2>3. PollsAreNumbered
        BY DEF ViewInit, PollsAreNumbered
    <2>4. statusError \in BOOLEAN
        BY DEF ViewInit
    <2>2. ListsWereRead /\ FiguresAreKnown /\ ActorIsKnown /\ RowsAreKnown
        BY DEF ViewInit, ListsWereRead, FiguresAreKnown, ActorIsKnown, RowsAreKnown
    <2> QED  BY <2>1, <2>2, <2>3, <2>4 DEF ViewRest, PollsAreCounted
<1>2. ViewInv /\ ViewRest => ViewTypeOK
    <2> SUFFICES ASSUME ViewInv, ViewRest PROVE ViewTypeOK
        OBVIOUS
    <2>1. acts \in 0 .. MaxActs /\ faults \in 0 .. CallFaults
        BY EventsViewAssumption DEF ViewRest, SpendingIsBounded
    <2>2. polls \in 1 .. MaxActs + 1 /\ health \in 0 .. MaxActs + 1
        BY <2>1, EventsViewAssumption DEF ViewRest, PollsAreCounted, PollsAreNumbered
    <2>3. statusCalls \subseteq 1 .. (MaxActs + 1)
        BY <2>2 DEF ViewInv, HeartbeatIsCurrent
    <2>4. /\ filters \in Filters /\ page \in 0 .. LastPage
          /\ \A c \in listCalls : c.filters \in Filters /\ c.page \in 0 .. LastPage
          /\ \A l \in list : l.filters \in Filters /\ l.read
          /\ \A c \in detailCalls \cup triageCalls : c.id \in Rows
          /\ triage \in [Rows -> Marks \cup {"open"}]
        BY DEF ViewInv, ListIsCurrent, ListRecords, ViewRest, ListsWereRead
    <2>5. /\ summary \in Filters \cup {Unanswered}
          /\ {expanded, detail, drawer} \subseteq Rows \cup {Unanswered}
          /\ {actor, panel} \subseteq Actors \cup {Unanswered}
        BY DEF ViewInv, ListIsCurrent, PanelIsCurrent, ViewRest, FiguresAreKnown, ActorIsKnown,
           RowsAreKnown
    <2>6. {pageError, optionsAsked, summaryError, statusError, expandedError} \subseteq BOOLEAN
        BY DEF ViewRest, ListsWereRead, FiguresAreKnown, PollsAreCounted, RowsAreKnown
    <2> QED  BY <2>1, <2>2, <2>3, <2>4, <2>5, <2>6 DEF ViewTypeOK
<1> QED  BY <1>1, <1>2, ViewStarts, ViewStep, ViewTypesKeep, PTL DEF ViewSpec

\* Beyond the invariant: what is bounded, what a request is, has counted and has read, and
\* what the narrative kept is.
SummariesBounded ==
    Len(kindOf) <= MaxEvents /\ hour \in 0 .. LastHour /\ asked \in 0 .. MaxAsked

\* Where a summary can be, and the parts of the state of the askers.
SummaryStages == {"idle", "counting", "scanning", "claude", "answered"}
Figures == [total : 0 .. MaxEvents, failures : 0 .. MaxEvents]

StagesAreKnown == \A c \in Askers : ask[c].stage \in SummaryStages
NarrativesAsked == \A c \in Askers : ask[c].ai \in BOOLEAN
FiguresAreBounded == \A c \in Askers : count[c] \in Figures
EventsReadAreStored == \A c \in Askers : scanFound[c] \subseteq 1 .. Len(kindOf)
QuietIsKnown == \A c \in Askers : still[c] \in BOOLEAN

NarrativeIsTyped ==
    /\ narrative = [made |-> narrative.made, about |-> narrative.about, from |-> narrative.from,
                    putAt |-> narrative.putAt]
    /\ narrative.made \in BOOLEAN /\ narrative.about \subseteq 1 .. Len(kindOf)
    /\ narrative.from \in 0 .. MaxEvents /\ narrative.putAt \in 0 .. hour

SummariesRest ==
    /\ SummariesBounded /\ StagesAreKnown /\ NarrativesAsked /\ FiguresAreBounded
    /\ EventsReadAreStored /\ QuietIsKnown /\ NarrativeIsTyped

\* The table of events stays within its bound.
LEMMA TableIsBounded ==
    ASSUME SummaryInv, SummariesBounded
    PROVE  /\ Len(kindOf) \in Nat /\ oldest \in Nat \ {0} /\ MaxEvents \in Nat
           /\ Cardinality(InTable) \in 0 .. MaxEvents
           /\ \A S \in SUBSET InTable : Cardinality(S) \in 0 .. MaxEvents /\ S \subseteq 1 .. Len(kindOf)
<1>1. /\ Len(kindOf) \in Nat /\ oldest \in 1 .. Len(kindOf) + 1 /\ MaxEvents \in Nat
      /\ Len(kindOf) <= MaxEvents
    BY SummariesAssumption DEF SummaryInv, SummariesBounded
<1>2. /\ IsFiniteSet(InTable)
      /\ Cardinality(InTable) = IF oldest > Len(kindOf) THEN 0 ELSE Len(kindOf) - oldest + 1
    <2>1. PICK last \in Int : last = Len(kindOf)
        BY <1>1
    <2>2. oldest \in Int
        BY <1>1
    <2> QED  BY <2>1, <2>2, FS_Interval DEF InTable
<1>3. Cardinality(InTable) \in 0 .. MaxEvents
    BY <1>1, <1>2
<1>4. ASSUME NEW S \in SUBSET InTable
      PROVE  Cardinality(S) \in 0 .. MaxEvents /\ S \subseteq 1 .. Len(kindOf)
    <2>1. Cardinality(S) \in Nat /\ Cardinality(S) <= Cardinality(InTable)
        BY <1>2, FS_Subset, FS_CardinalityType
    <2>2. S \subseteq 1 .. Len(kindOf)
        BY <1>1 DEF InTable
    <2> QED  BY <1>1, <1>3, <2>1, <2>2
<1> QED  BY <1>1, <1>3, <1>4

\* An asker that begins leaves the summaries typed.
LEMMA AskTypes ==
    ASSUME SummaryInv, SummariesRest, NEW c \in Askers, NEW filter, NEW ai \in BOOLEAN,
           AskSummary(c, filter, ai)
    PROVE  SummariesRest'
<1>1. /\ \A x \in Askers :
            /\ ask'[x].stage \in {ask[x].stage, "counting"} /\ ask'[x].ai \in {ask[x].ai, ai}
            /\ count'[x] \in {count[x], NoCount} /\ scanFound'[x] \in {scanFound[x], {}}
            /\ still'[x] \in {still[x], TRUE}
      /\ UNCHANGED <<kindOf, oldest, narrative, hour>>
    BY DEF AskSummary, SummaryInv, AsksAreSound, summaryTable
<1>2. NoCount \in Figures
    BY SummariesAssumption DEF NoCount, Figures
<1>3. asked' \in 0 .. MaxAsked
    BY SummariesAssumption DEF AskSummary, SummariesRest, SummariesBounded
<1>4. SummariesBounded' /\ NarrativeIsTyped'
    BY <1>1, <1>3 DEF SummariesRest, SummariesBounded, NarrativeIsTyped
<1>5. StagesAreKnown' /\ NarrativesAsked' /\ FiguresAreBounded' /\ EventsReadAreStored' /\ QuietIsKnown'
    BY <1>1, <1>2 DEF SummariesRest, StagesAreKnown, NarrativesAsked, FiguresAreBounded,
       EventsReadAreStored, QuietIsKnown, SummaryStages
<1> QED  BY <1>4, <1>5 DEF SummariesRest

\* A request that only goes on.
LEMMA StageMoves ==
    ASSUME SummaryInv, NEW c \in Askers, NEW stage, ask' = [ask EXCEPT ![c].stage = stage]
    PROVE  \A x \in Askers : ask'[x].stage \in {ask[x].stage, stage} /\ ask'[x].ai = ask[x].ai
<1>1. ask = [x \in Askers |-> ask[x]]
    BY DEF SummaryInv, AsksAreSound
<1>2. ask[c] = [stage |-> ask[c].stage, filter |-> ask[c].filter, ai |-> ask[c].ai, from |-> ask[c].from]
    BY DEF SummaryInv, AsksAreSound, AskIsSound
<1> QED  BY <1>1, <1>2

\* An asker that goes on leaves them typed when its findings are.
LEMMA MoveTypes ==
    ASSUME SummaryInv, SummariesRest, NEW c \in Askers, NEW stage \in SummaryStages,
           ask' = [ask EXCEPT ![c].stage = stage], UNCHANGED <<kindOf, hour>>,
           asked' \in 0 .. MaxAsked, UNCHANGED still,
           FiguresAreBounded', EventsReadAreStored', NarrativeIsTyped'
    PROVE  SummariesRest'
<1>1. StagesAreKnown' /\ NarrativesAsked'
    BY StageMoves DEF SummariesRest, StagesAreKnown, NarrativesAsked
<1>2. SummariesBounded' /\ QuietIsKnown'
    BY DEF SummariesRest, SummariesBounded, QuietIsKnown
<1> QED  BY <1>1, <1>2 DEF SummariesRest

\* A step keeps the summaries typed.
LEMMA SummariesTypesKeep ==
    ASSUME SummaryInv, SummariesRest, [SummariesNext]_summariesVars
    PROVE  SummariesRest'
<1> USE DEF SummariesRest
<1>a. asked \in 0 .. MaxAsked /\ hour \in 0 .. LastHour /\ LastHour \in Nat /\ Len(kindOf) <= MaxEvents
    BY SummariesAssumption DEF SummariesBounded
<1>1. ASSUME NEW c \in Askers, NEW filter \in {Signals, {"action_required"}},
             AskSummary(c, filter, FALSE)
      PROVE  SummariesRest'
    BY <1>1, AskTypes
<1>2. ASSUME NEW c \in Askers, CountEvents(c) PROVE SummariesRest'
    <2> DEFINE n == [total |-> Cardinality(InTable),
                     failures |-> IF Filtered(c) THEN 0
                                  ELSE Cardinality({e \in InTable : kindOf[e].failed})]
    <2>1. /\ ask' = [ask EXCEPT ![c].stage = "scanning"] /\ count' = [count EXCEPT ![c] = n]
          /\ UNCHANGED <<kindOf, scanFound, still, narrative, hour, asked>>
        BY <1>2 DEF CountEvents, Moves, summaryTable
    <2>2. Cardinality({e \in InTable : kindOf[e].failed}) \in 0 .. MaxEvents
        BY TableIsBounded
    <2>3. n \in Figures
        BY <2>2, TableIsBounded DEF Figures
    <2> HIDE DEF n
    <2>4. FiguresAreBounded'
        BY <2>1, <2>3 DEF FiguresAreBounded, SummaryInv, AsksAreSound
    <2>5. EventsReadAreStored' /\ NarrativeIsTyped' /\ "scanning" \in SummaryStages
        BY <2>1 DEF EventsReadAreStored, NarrativeIsTyped, SummaryStages
    <2> QED  BY <1>a, <2>1, <2>4, <2>5, MoveTypes
<1>3. ASSUME NEW c \in Askers, ScanEvents(c) PROVE SummariesRest'
    <2>1. PICK stage \in SummaryStages : ask' = [ask EXCEPT ![c].stage = stage]
        BY <1>3 DEF ScanEvents, Moves, SummaryStages
    <2>2. /\ scanFound' = [scanFound EXCEPT ![c] = NewestEvents(ScanLimit)]
          /\ UNCHANGED <<kindOf, count, still, narrative, hour, asked>>
        BY <1>3 DEF ScanEvents, ScanTaken, summaryTable
    <2>3. NewestEvents(ScanLimit) \subseteq 1 .. Len(kindOf)
        BY TableIsBounded DEF NewestEvents
    <2>4. EventsReadAreStored'
        BY <2>2, <2>3 DEF EventsReadAreStored, SummaryInv, AsksAreSound
    <2>5. FiguresAreBounded' /\ NarrativeIsTyped'
        BY <2>2 DEF FiguresAreBounded, NarrativeIsTyped
    <2> QED  BY <1>a, <2>1, <2>2, <2>4, <2>5, MoveTypes
<1>4. ASSUME NEW c \in Askers, ServeNarrative(c) PROVE SummariesRest'
    <2>1. /\ ask' = [ask EXCEPT ![c].stage = "idle"]
          /\ asked < MaxAsked /\ asked' = asked + 1
          /\ UNCHANGED <<kindOf, count, scanFound, still, narrative, hour>>
        BY <1>4 DEF ServeNarrative, summaryTable
    <2>2. asked' \in 0 .. MaxAsked
        BY <1>a, <2>1, SummariesAssumption
    <2>3. FiguresAreBounded' /\ EventsReadAreStored' /\ NarrativeIsTyped' /\ "idle" \in SummaryStages
        BY <2>1 DEF FiguresAreBounded, EventsReadAreStored, NarrativeIsTyped, SummaryStages
    <2> QED  BY <2>1, <2>2, <2>3, MoveTypes
<1>5. ASSUME NEW c \in Askers, AskNarrative(c) PROVE SummariesRest'
    BY <1>5, AskTypes DEF AskNarrative
<1>6. ASSUME NEW c \in Askers, ClaudeAnswers(c) PROVE SummariesRest'
    <2>1. /\ ask' = [ask EXCEPT ![c].stage = "answered"]
          /\ UNCHANGED <<kindOf, count, scanFound, still, hour, asked>>
          /\ narrative' = [made |-> TRUE, about |-> scanFound[c], from |-> ask[c].from, putAt |-> hour]
        BY <1>6 DEF ClaudeAnswers, Moves, summaryTable
    <2>2. ask[c].from \in 0 .. MaxEvents
        <3>1. ask[c].from \in 0 .. Len(kindOf) /\ Len(kindOf) \in Nat /\ MaxEvents \in Nat
            BY SummariesAssumption DEF SummaryInv, AsksAreSound, AskIsSound
        <3> QED  BY <1>a, <3>1
    <2>3. NarrativeIsTyped'
        BY <1>a, <2>1, <2>2 DEF NarrativeIsTyped, EventsReadAreStored
    <2>4. FiguresAreBounded' /\ EventsReadAreStored' /\ "answered" \in SummaryStages
        BY <2>1 DEF FiguresAreBounded, EventsReadAreStored, SummaryStages
    <2> QED  BY <1>a, <2>1, <2>3, <2>4, MoveTypes
<1>7. ASSUME NEW c \in Askers, ClaudeFails(c) PROVE SummariesRest'
    <2>1. /\ ask' = [ask EXCEPT ![c].stage = "idle"]
          /\ UNCHANGED <<kindOf, count, scanFound, still, narrative, hour, asked>>
        BY <1>7 DEF ClaudeFails, Moves, summaryTable
    <2>2. FiguresAreBounded' /\ EventsReadAreStored' /\ NarrativeIsTyped' /\ "idle" \in SummaryStages
        BY <2>1 DEF FiguresAreBounded, EventsReadAreStored, NarrativeIsTyped, SummaryStages
    <2> QED  BY <1>a, <2>1, <2>2, MoveTypes
<1>8. ASSUME (\E kind \in EventKinds : StoreNewEvent(kind)) \/ RemoveOldest
      PROVE  SummariesRest'
    <2>1. /\ UNCHANGED <<ask, count, scanFound, narrative, hour, asked>>
          /\ still' = [c \in Askers |-> still[c] /\ ~ At(c, "scanning")]
        BY <1>8 DEF StoreNewEvent, RemoveOldest, BetweenStatements
    <2>2. /\ Len(kindOf) \in Nat /\ Len(kindOf') \in Nat /\ Len(kindOf) <= Len(kindOf')
          /\ Len(kindOf') <= MaxEvents
        <3>1. CASE RemoveOldest
            BY <1>a, <3>1, TableIsBounded DEF RemoveOldest
        <3>2. ASSUME NEW kind \in EventKinds, StoreNewEvent(kind)
              PROVE  /\ Len(kindOf) \in Nat /\ Len(kindOf') \in Nat /\ Len(kindOf) <= Len(kindOf')
                     /\ Len(kindOf') <= MaxEvents
            BY <3>2, SummariesAssumption DEF StoreNewEvent, SummaryInv
        <3> QED  BY <1>8, <3>1, <3>2
    <2>3. 1 .. Len(kindOf) \subseteq 1 .. Len(kindOf')
        BY <2>2
    <2>4. SummariesBounded' /\ StagesAreKnown' /\ NarrativesAsked' /\ FiguresAreBounded'
        BY <2>1, <2>2 DEF SummariesBounded, StagesAreKnown, NarrativesAsked, FiguresAreBounded
    <2>5. EventsReadAreStored' /\ NarrativeIsTyped'
        BY <2>1, <2>3 DEF EventsReadAreStored, NarrativeIsTyped
    <2>6. QuietIsKnown'
        BY <2>1 DEF QuietIsKnown
    <2> QED  BY <2>4, <2>5, <2>6
<1>9. ASSUME HourPasses PROVE SummariesRest'
    <2>1. /\ UNCHANGED <<kindOf, oldest, ask, count, scanFound, still, narrative, asked>>
          /\ hour' = hour + 1 /\ hour < LastHour
        BY <1>9 DEF HourPasses, summaryTable, askVars
    <2>2. hour' \in 0 .. LastHour /\ 0 .. hour \subseteq 0 .. hour'
        BY <1>a, <2>1
    <2>3. SummariesBounded' /\ StagesAreKnown' /\ NarrativesAsked' /\ FiguresAreBounded'
        BY <2>1, <2>2 DEF SummariesBounded, StagesAreKnown, NarrativesAsked, FiguresAreBounded
    <2>4. EventsReadAreStored' /\ NarrativeIsTyped' /\ QuietIsKnown'
        BY <2>1, <2>2 DEF EventsReadAreStored, NarrativeIsTyped, QuietIsKnown
    <2> QED  BY <2>3, <2>4
<1>10. ASSUME UNCHANGED summariesVars PROVE SummariesRest'
    BY <1>10 DEF summariesVars, summaryTable, askVars, SummariesBounded, StagesAreKnown,
       NarrativesAsked, FiguresAreBounded, EventsReadAreStored, QuietIsKnown, NarrativeIsTyped
<1> QED
    BY <1>1, <1>2, <1>3, <1>4, <1>5, <1>6, <1>7, <1>8, <1>9, <1>10 DEF SummariesNext

\* The summaries, and the narrative kept between them, stay typed.
LEMMA SummariesKeepTypes == SummariesSpec => []SummariesTypeOK
<1>1. SummariesInit => SummariesRest
    <2> SUFFICES ASSUME SummariesInit PROVE SummariesRest
        OBVIOUS
    <2>1. SummariesBounded
        BY SummariesAssumption DEF SummariesInit, SummariesBounded
    <2>2. StagesAreKnown /\ NarrativesAsked /\ EventsReadAreStored /\ QuietIsKnown
        BY DEF SummariesInit, StagesAreKnown, NarrativesAsked, EventsReadAreStored, QuietIsKnown,
           SummaryStages, NotAsked
    <2>3. FiguresAreBounded
        BY SummariesAssumption DEF SummariesInit, FiguresAreBounded, NoCount, Figures
    <2>4. NarrativeIsTyped
        BY SummariesAssumption DEF SummariesInit, NarrativeIsTyped, NoNarrative
    <2> QED  BY <2>1, <2>2, <2>3, <2>4 DEF SummariesRest
<1>2. SummaryInv /\ SummariesRest => SummariesTypeOK
    <2> SUFFICES ASSUME SummaryInv, SummariesRest PROVE SummariesTypeOK
        OBVIOUS
    <2>0. Len(kindOf) \in Nat /\ MaxEvents \in Nat /\ Len(kindOf) <= MaxEvents
        BY SummariesAssumption DEF SummaryInv, SummariesRest, SummariesBounded
    <2>1. ASSUME NEW c \in Askers
          PROVE  ask[c] \in [stage : {"idle", "counting", "scanning", "claude", "answered"},
                             filter : SUBSET Signals, ai : BOOLEAN, from : 0 .. MaxEvents]
        <3>1. /\ ask[c] = [stage |-> ask[c].stage, filter |-> ask[c].filter, ai |-> ask[c].ai,
                           from |-> ask[c].from]
              /\ ask[c].from \in 0 .. Len(kindOf) /\ ask[c].filter \in {Signals, {"action_required"}}
            BY DEF SummaryInv, AsksAreSound, AskIsSound
        <3>2. ask[c].from \in 0 .. MaxEvents
            BY <2>0, <3>1
        <3>3. ask[c].filter \in SUBSET Signals
            BY <3>1 DEF Signals
        <3>4. ask[c].stage \in {"idle", "counting", "scanning", "claude", "answered"} /\ ask[c].ai \in BOOLEAN
            BY DEF SummariesRest, StagesAreKnown, NarrativesAsked, SummaryStages
        <3> QED  BY <3>1, <3>2, <3>3, <3>4
    <2>2. /\ ask \in [Askers -> [stage : {"idle", "counting", "scanning", "claude", "answered"},
                                 filter : SUBSET Signals, ai : BOOLEAN, from : 0 .. MaxEvents]]
          /\ count \in [Askers -> [total : 0 .. MaxEvents, failures : 0 .. MaxEvents]]
          /\ scanFound \in [Askers -> SUBSET (1 .. Len(kindOf))] /\ still \in [Askers -> BOOLEAN]
        BY <2>1 DEF SummaryInv, AsksAreSound, SummariesRest, FiguresAreBounded, EventsReadAreStored,
           QuietIsKnown, Figures
    <2>3. narrative \in [made : BOOLEAN, about : SUBSET (1 .. Len(kindOf)), from : 0 .. MaxEvents,
                         putAt : 0 .. hour]
        BY DEF SummariesRest, NarrativeIsTyped
    <2> QED  BY <2>2, <2>3 DEF SummaryInv, SummariesRest, SummariesBounded, SummariesTypeOK
<1> QED  BY <1>1, <1>2, SummaryStarts, SummaryStep, SummariesTypesKeep, PTL DEF SummariesSpec

\* Beyond the invariants: the versions of the file there are, read whole; what a call can be
\* and be answered; what the deques may hold; what is consumed.
VersionsAreWhole ==
    /\ grantFile <= LastVersion /\ tokens.mtime <= LastVersion
    /\ tokens.read <= LastVersion /\ tokens.read % 2 = 0
    /\ \A r \in ApiRequests :
          /\ call[r].stage \in {"reading", "setting"} => call[r].mtime <= LastVersion
          /\ call[r].stage = "setting" => call[r].read <= LastVersion /\ call[r].read % 2 = 0

\* Where a call of the API can be, and the parts of the API's state.
CallStages == {"idle", "reading", "setting", "matching", "querying", "answered", "dead"}

CallsAreKnown ==
    \A r \in ApiRequests :
        call[r].stage \in CallStages /\ call[r].kind \in Kinds /\ call[r].window \in Windows

RepliesAreKnown == \A r \in ApiRequests : reply[r].status \in {0, 200, 401, 403, 500, 503}

DequesAreBounded == Len(recentEvents) <= BufferMax /\ Len(recentRisky) <= BufferMax

FeedIsBounded == consumed <= Len(OrgOf) /\ eventInHand \in {"none", "kept"}

ApiRest ==
    VersionsAreWhole /\ CallsAreKnown /\ RepliesAreKnown /\ DequesAreBounded /\ FeedIsBounded

\* A call moves alone.
LEMMA OneCallMoves ==
    ASSUME AccessInv, NEW r \in ApiRequests, NEW c, call' = [call EXCEPT ![r] = c]
    PROVE  \A x \in ApiRequests : call'[x] = IF x = r THEN c ELSE call[x]
BY DEF AccessInv

\* A call that changes its stage changes nothing else.
LEMMA OneStageMoves ==
    ASSUME AccessInv, NEW r \in ApiRequests, NEW stage, call' = [call EXCEPT ![r].stage = stage]
    PROVE  \A x \in ApiRequests :
               /\ call'[x].stage = IF x = r THEN stage ELSE call[x].stage
               /\ call'[x].kind = call[x].kind /\ call'[x].window = call[x].window
               /\ call'[x].mtime = call[x].mtime /\ call'[x].read = call[x].read
<1>1. /\ call = [x \in ApiRequests |-> call[x]]
      /\ call[r] = [stage |-> call[r].stage, kind |-> call[r].kind, window |-> call[r].window,
                    mtime |-> call[r].mtime, read |-> call[r].read, since |-> call[r].since,
                    grant |-> call[r].grant]
    BY DEF AccessInv, CallIsOrdered
<1> QED  BY <1>1

\* A push leaves no more than there is room for.
LEMMA PushIsBounded ==
    ASSUME NEW item \in Nat, NEW deque \in Seq(Nat), Len(deque) <= BufferMax
    PROVE  Len(Push(item, deque)) <= BufferMax
<1> DEFINE m == IF Len(deque) < BufferMax THEN Len(deque) + 1 ELSE BufferMax
<1>1. BufferMax \in Nat /\ BufferMax >= 1 /\ Len(deque) \in Nat
    BY ForwarderApiAssumption
<1>2. <<item>> \o deque \in Seq(Nat) /\ Len(<<item>> \o deque) = Len(deque) + 1
    OBVIOUS
<1>3. m \in 1 .. Len(deque) + 1 /\ m <= BufferMax
    BY <1>1
<1> HIDE DEF m
<1>4. Len(SubSeq(<<item>> \o deque, 1, m)) = m
    BY <1>1, <1>2, <1>3
<1> QED  BY <1>3, <1>4 DEF Push, m

\* A call is let go on, or is answered.
LEMMA StageTypes ==
    ASSUME AccessInv, ApiRest, NEW r \in ApiRequests, NEW stage \in CallStages,
           call' = [call EXCEPT ![r].stage = stage], stage \notin {"reading", "setting"},
           grantFile' = grantFile,
           tokens' = tokens \/ (tokens'.mtime <= LastVersion /\ tokens'.read <= LastVersion
                                /\ tokens'.read % 2 = 0),
           RepliesAreKnown', UNCHANGED feedVars
    PROVE  ApiRest'
<1>1. \A x \in ApiRequests :
          /\ call'[x].stage = IF x = r THEN stage ELSE call[x].stage
          /\ call'[x].kind = call[x].kind /\ call'[x].window = call[x].window
          /\ call'[x].mtime = call[x].mtime /\ call'[x].read = call[x].read
    BY OneStageMoves
<1>2. VersionsAreWhole'
    BY <1>1 DEF ApiRest, VersionsAreWhole
<1>3. CallsAreKnown'
    BY <1>1 DEF ApiRest, CallsAreKnown
<1>4. DequesAreBounded' /\ FeedIsBounded'
    BY DEF ApiRest, DequesAreBounded, FeedIsBounded, feedVars
<1> QED  BY <1>2, <1>3, <1>4 DEF ApiRest

\* A call begins, or goes on with more than its stage.
LEMMA CallTypes ==
    ASSUME AccessInv, ApiRest, NEW r \in ApiRequests, NEW c, call' = [call EXCEPT ![r] = c],
           c.stage \in CallStages, c.kind \in Kinds, c.window \in Windows,
           c.stage \in {"reading", "setting"} => c.mtime <= LastVersion,
           c.stage = "setting" => c.read <= LastVersion /\ c.read % 2 = 0,
           UNCHANGED <<grantFile, tokens, reply>>, UNCHANGED feedVars
    PROVE  ApiRest'
<1>1. \A x \in ApiRequests : call'[x] = IF x = r THEN c ELSE call[x]
    BY OneCallMoves
<1>2. VersionsAreWhole'
    BY <1>1 DEF ApiRest, VersionsAreWhole
<1>3. CallsAreKnown' /\ RepliesAreKnown'
    BY <1>1 DEF ApiRest, CallsAreKnown, RepliesAreKnown
<1>4. DequesAreBounded' /\ FeedIsBounded'
    BY DEF ApiRest, DequesAreBounded, FeedIsBounded, feedVars
<1> QED  BY <1>2, <1>3, <1>4 DEF ApiRest

\* A reply has one of the statuses the handlers send.
LEMMA ReplyTypes ==
    ASSUME AccessInv, AnswersInv, ApiRest, NEW r \in ApiRequests,
           NEW status \in {200, 401, 403, 500, 503}, NEW rows, NEW source, NEW owed,
           Replies(r, status, rows, source, owed), UNCHANGED <<grantFile, tokens>>,
           UNCHANGED feedVars
    PROVE  ApiRest'
<1>1. call' = [call EXCEPT ![r].stage = "answered"] /\ "answered" \in CallStages
    BY DEF Replies, CallStages
<1>2. \A x \in ApiRequests : reply'[x].status \in {reply[x].status, status}
    BY DEF Replies, AnswersInv
<1>3. RepliesAreKnown'
    BY <1>2 DEF ApiRest, RepliesAreKnown
<1>a. PICK stage : stage = "answered" /\ call' = [call EXCEPT ![r].stage = stage]
    BY <1>1
<1>4. \A x \in ApiRequests :
          /\ call'[x].stage = IF x = r THEN stage ELSE call[x].stage
          /\ call'[x].kind = call[x].kind /\ call'[x].window = call[x].window
          /\ call'[x].mtime = call[x].mtime /\ call'[x].read = call[x].read
    <2>1. /\ call = [x \in ApiRequests |-> call[x]]
          /\ call[r] = [stage |-> call[r].stage, kind |-> call[r].kind, window |-> call[r].window,
                        mtime |-> call[r].mtime, read |-> call[r].read, since |-> call[r].since,
                        grant |-> call[r].grant]
        BY DEF AccessInv, CallIsOrdered
    <2> QED  BY <1>a, <2>1
<1>5. VersionsAreWhole'
    BY <1>a, <1>4 DEF ApiRest, VersionsAreWhole
<1>6. CallsAreKnown'
    BY <1>1, <1>a, <1>4 DEF ApiRest, CallsAreKnown
<1>7. DequesAreBounded' /\ FeedIsBounded'
    BY DEF ApiRest, DequesAreBounded, FeedIsBounded, feedVars
<1> QED  BY <1>3, <1>5, <1>6, <1>7 DEF ApiRest

\* A step keeps the API typed.
LEMMA ApiTypesKeep ==
    ASSUME AccessInv, AnswersInv, ApiRest, [ForwarderApiNext]_apiVars
    PROVE  ApiRest'
<1> USE DEF ApiRest
<1>a. /\ grantFile \in Nat /\ grantFile <= LastVersion /\ LastVersion \in Nat
      /\ consumed \in Nat /\ Len(OrgOf) \in Nat
    BY ForwarderApiAssumption DEF AccessInv, AnswersInv, VersionsAreWhole
<1>1. ASSUME UNCHANGED <<grantFile, tokens, call, reply>>, DequesAreBounded', FeedIsBounded'
      PROVE  ApiRest'
    BY <1>1 DEF VersionsAreWhole, CallsAreKnown, RepliesAreKnown
<1>2. CASE KeepEvent
    <2>1. /\ UNCHANGED <<grantFile, tokens, call, reply, recentEvents, recentRisky>>
          /\ consumed < Len(OrgOf) /\ consumed' = consumed + 1 /\ eventInHand' = "kept"
        BY <1>2 DEF KeepEvent, tokenVars, apiRequestVars
    <2>2. consumed' <= Len(OrgOf)
        BY <1>a, <2>1
    <2> QED  BY <1>1, <2>1, <2>2 DEF DequesAreBounded, FeedIsBounded
<1>3. CASE ShowEvent
    <2>1. /\ UNCHANGED <<grantFile, tokens, call, reply, consumed>> /\ eventInHand' = "none"
          /\ recentEvents' = Push(consumed, recentEvents)
          /\ recentRisky' = Push(consumed, recentRisky) \/ recentRisky' = recentRisky
        BY <1>3 DEF ShowEvent, tokenVars, apiRequestVars
    <2>2. recentEvents \in Seq(Nat) /\ recentRisky \in Seq(Nat)
        BY DEF AnswersInv
    <2>3. DequesAreBounded'
        BY <1>a, <2>1, <2>2, PushIsBounded DEF DequesAreBounded
    <2> QED  BY <1>1, <2>1, <2>3 DEF FeedIsBounded
<1>4. CASE SpoilEvent \/ MonitorStorage
    BY <1>1, <1>4 DEF SpoilEvent, MonitorStorage, tokenVars, apiRequestVars, DequesAreBounded,
       FeedIsBounded
<1>5. CASE RewriteTokens
    <2>1. /\ grantFile < LastVersion /\ grantFile' = grantFile + 1
          /\ UNCHANGED <<tokens, call, reply>> /\ UNCHANGED feedVars
        BY <1>5 DEF RewriteTokens, apiRequestVars
    <2>2. grantFile' <= LastVersion
        BY <1>a, <2>1
    <2>3. VersionsAreWhole'
        BY <2>1, <2>2 DEF VersionsAreWhole
    <2> QED  BY <2>1, <2>3 DEF CallsAreKnown, RepliesAreKnown, DequesAreBounded, FeedIsBounded, feedVars
<1>6. ASSUME NEW r \in ApiRequests, NEW kind \in Kinds, NEW window \in Windows, StartCall(r, kind, window)
      PROVE  ApiRest'
    <2>1. PICK stage \in {"reading", "matching"} :
              call' = [call EXCEPT ![r] =
                  [stage |-> stage, kind |-> kind, window |-> window, mtime |-> grantFile,
                   read |-> 0, since |-> consumed, grant |-> NoGrant]]
        BY <1>6 DEF StartCall
    <2>2. PICK c : /\ c = [stage |-> stage, kind |-> kind, window |-> window, mtime |-> grantFile,
                           read |-> 0, since |-> consumed, grant |-> NoGrant]
                   /\ call' = [call EXCEPT ![r] = c]
        BY <2>1
    <2>3. /\ c.stage \in CallStages /\ c.stage # "setting" /\ c.kind \in Kinds
          /\ c.window \in Windows /\ c.mtime <= LastVersion
        BY <1>a, <2>2 DEF CallStages
    <2>4. UNCHANGED <<grantFile, tokens, reply>> /\ UNCHANGED feedVars
        BY <1>6 DEF StartCall, tokenVars
    <2> QED  BY <2>2, <2>3, <2>4, CallTypes
<1>7. ASSUME NEW r \in ApiRequests, ReadTokens(r) PROVE ApiRest'
    <2>1. PICK stage : stage = IF grantFile % 2 = 1 THEN "dead" ELSE "setting"
        OBVIOUS
    <2>2. PICK c : /\ c = [call[r] EXCEPT !.stage = stage, !.read = grantFile]
                   /\ call' = [call EXCEPT ![r] = c]
        BY <1>7, <2>1 DEF ReadTokens
    <2>3. /\ call[r] = [stage |-> call[r].stage, kind |-> call[r].kind,
                        window |-> call[r].window, mtime |-> call[r].mtime,
                        read |-> call[r].read, since |-> call[r].since, grant |-> call[r].grant]
          /\ call[r].stage = "reading"
        BY <1>7 DEF AccessInv, CallIsOrdered, ReadTokens, CallAt
    <2>4. PICK to : to = [call[r] EXCEPT !.stage = stage]
        OBVIOUS
    <2>5. /\ to = [stage |-> stage, kind |-> call[r].kind, window |-> call[r].window,
                   mtime |-> call[r].mtime, read |-> call[r].read, since |-> call[r].since,
                   grant |-> call[r].grant]
          /\ c = [to EXCEPT !.read = grantFile]
        BY <2>2, <2>3, <2>4
    <2>6. /\ c.stage = stage /\ c.kind = call[r].kind /\ c.window = call[r].window
          /\ c.mtime = call[r].mtime /\ c.read = grantFile
        BY <2>5
    <2>7. stage \in CallStages /\ (stage = "setting" => grantFile % 2 = 0)
        BY <1>a, <2>1 DEF CallStages
    <2>8. call[r].kind \in Kinds /\ call[r].window \in Windows /\ call[r].mtime <= LastVersion
        BY <2>3 DEF CallsAreKnown, VersionsAreWhole
    <2>9. UNCHANGED <<grantFile, tokens, reply>> /\ UNCHANGED feedVars
        BY <1>7 DEF ReadTokens, tokenVars
    <2> QED  BY <1>a, <2>2, <2>6, <2>7, <2>8, <2>9, CallTypes
<1>8. ASSUME NEW r \in ApiRequests, SetTokens(r) PROVE ApiRest'
    <2>1. /\ call' = [call EXCEPT ![r].stage = "matching"] /\ UNCHANGED <<grantFile, reply>>
          /\ tokens' = [mtime |-> call[r].mtime, read |-> call[r].read]
          /\ call[r].stage = "setting" /\ UNCHANGED feedVars
        BY <1>8 DEF SetTokens, CallAt
    <2>2. tokens'.mtime <= LastVersion /\ tokens'.read <= LastVersion /\ tokens'.read % 2 = 0
        BY <2>1 DEF VersionsAreWhole
    <2>3. RepliesAreKnown' /\ "matching" \in CallStages
        BY <2>1 DEF RepliesAreKnown, CallStages
    <2> QED  BY <2>1, <2>2, <2>3, StageTypes
<1>9. ASSUME NEW r \in ApiRequests, Refuse(r) PROVE ApiRest'
    <2>1. PICK status \in {200, 401, 403, 500, 503} : Replies(r, status, <<>>, "none", {})
        BY <1>9 DEF Refuse
    <2>2. UNCHANGED <<grantFile, tokens>> /\ UNCHANGED feedVars
        BY <1>9 DEF Refuse, tokenVars
    <2> QED  BY <2>1, <2>2, ReplyTypes
<1>10. ASSUME NEW r \in ApiRequests, Admit(r) PROVE ApiRest'
    <2>1. PICK c : /\ c = [call[r] EXCEPT !.stage = "querying", !.grant = GrantNow]
                   /\ call' = [call EXCEPT ![r] = c]
        BY <1>10 DEF Admit
    <2>2. call[r] = [stage |-> call[r].stage, kind |-> call[r].kind,
                     window |-> call[r].window, mtime |-> call[r].mtime,
                     read |-> call[r].read, since |-> call[r].since, grant |-> call[r].grant]
        BY DEF AccessInv, CallIsOrdered
    <2>3. PICK to, g : to = [call[r] EXCEPT !.stage = "querying"] /\ g = GrantNow
        OBVIOUS
    <2>4. /\ to = [stage |-> "querying", kind |-> call[r].kind, window |-> call[r].window,
                   mtime |-> call[r].mtime, read |-> call[r].read, since |-> call[r].since,
                   grant |-> call[r].grant]
          /\ c = [to EXCEPT !.grant = g]
        BY <2>1, <2>2, <2>3
    <2>5. c.stage = "querying" /\ c.kind = call[r].kind /\ c.window = call[r].window
        BY <2>4
    <2>6. call[r].kind \in Kinds /\ call[r].window \in Windows /\ "querying" \in CallStages
        BY DEF CallsAreKnown, CallStages
    <2>7. UNCHANGED <<grantFile, tokens, reply>> /\ UNCHANGED feedVars
        BY <1>10 DEF Admit, tokenVars
    <2> QED  BY <2>1, <2>5, <2>6, <2>7, CallTypes
<1>11. ASSUME NEW r \in ApiRequests, AnswerSearch(r) PROVE ApiRest'
    <2>1. \E rows, source, owed : Replies(r, 200, rows, source, owed)
        BY <1>11 DEF AnswerSearch
    <2>2. UNCHANGED <<grantFile, tokens>> /\ UNCHANGED feedVars
        BY <1>11 DEF AnswerSearch, tokenVars
    <2> QED  BY <2>1, <2>2, ReplyTypes
<1>12. ASSUME NEW r \in ApiRequests, AnswerHighRisk(r) PROVE ApiRest'
    <2>1. UNCHANGED <<grantFile, tokens>> /\ UNCHANGED feedVars
        BY <1>12 DEF AnswerHighRisk, tokenVars
    <2>2. CASE FromCache
        <3>1. call' = [call EXCEPT ![r].stage = "dead"] /\ UNCHANGED reply
            BY <1>12, <2>2 DEF AnswerHighRisk
        <3>2. RepliesAreKnown' /\ "dead" \in CallStages
            BY <3>1 DEF RepliesAreKnown, CallStages
        <3> QED  BY <2>1, <3>1, <3>2, StageTypes
    <2>3. CASE ~ FromCache
        <3>1. \E rows : Replies(r, 200, rows, "memory", {})
            BY <1>12, <2>3 DEF AnswerHighRisk
        <3> QED  BY <2>1, <3>1, ReplyTypes
    <2> QED  BY <2>2, <2>3
<1>13. ASSUME NEW r \in ApiRequests, AnswerVacuum(r) PROVE ApiRest'
    <2>1. PICK status \in {200, 401, 403, 500, 503} : Replies(r, status, <<>>, "none", {})
        BY <1>13 DEF AnswerVacuum
    <2>2. UNCHANGED <<grantFile, tokens>> /\ UNCHANGED feedVars
        BY <1>13 DEF AnswerVacuum, tokenVars
    <2> QED  BY <2>1, <2>2, ReplyTypes
<1>14. CASE UNCHANGED apiVars
    BY <1>1, <1>14 DEF apiVars, tokenVars, apiRequestVars, feedVars, DequesAreBounded, FeedIsBounded
<1> QED
    BY <1>2, <1>3, <1>4, <1>5, <1>6, <1>7, <1>8, <1>9, <1>10, <1>11, <1>12, <1>13, <1>14
    DEF ForwarderApiNext

\* Calls, replies, tokens and the two deques of the forwarder's API stay typed.
LEMMA ApiKeepsTypes == ForwarderApiSpec => []ForwarderApiTypeOK
<1>1. ForwarderApiInit => AccessInv /\ AnswersInv /\ ApiRest
    <2> SUFFICES ASSUME ForwarderApiInit PROVE AccessInv /\ AnswersInv /\ ApiRest
        OBVIOUS
    <2>1. AccessInv /\ AnswersInv
        BY AccessStarts, AnswersStart
    <2>2. /\ grantFile \in 0 .. LastVersion /\ tokens.mtime = grantFile /\ tokens.read = 0
          /\ \A r \in ApiRequests : call[r] = NoCall /\ reply[r] = NoReply
          /\ recentEvents = <<>> /\ recentRisky = <<>> /\ consumed = 0 /\ eventInHand = "none"
        BY DEF ForwarderApiInit
    <2>3. VersionsAreWhole
        BY <2>2, ForwarderApiAssumption DEF VersionsAreWhole, NoCall
    <2>4. CallsAreKnown /\ RepliesAreKnown
        BY <2>2 DEF CallsAreKnown, RepliesAreKnown, NoCall, NoReply, CallStages, Kinds, Windows
    <2>5. DequesAreBounded /\ FeedIsBounded
        BY <2>2, ForwarderApiAssumption DEF DequesAreBounded, FeedIsBounded
    <2> QED  BY <2>1, <2>3, <2>4, <2>5 DEF ApiRest
<1>2. AccessInv /\ AnswersInv /\ ApiRest => ForwarderApiTypeOK
    <2> SUFFICES ASSUME AccessInv, AnswersInv, ApiRest PROVE ForwarderApiTypeOK
        OBVIOUS
    <2>1. /\ grantFile \in 0 .. LastVersion /\ tokens.mtime \in 0 .. LastVersion
          /\ tokens.read \in 0 .. LastVersion /\ consumed \in 0 .. Len(OrgOf)
        BY ForwarderApiAssumption DEF AccessInv, AnswersInv, ApiRest, VersionsAreWhole, FeedIsBounded
    <2>2. tokens.read % 2 = 0
        BY DEF ApiRest, VersionsAreWhole
    <2>3. /\ \A r \in ApiRequests :
                /\ call[r].stage \in {"idle", "reading", "setting", "matching", "querying", "answered", "dead"}
                /\ call[r].kind \in Kinds /\ call[r].window \in Windows
                /\ reply[r].status \in {0, 200, 401, 403, 500, 503}
          /\ eventInHand \in {"none", "kept"}
        BY DEF ApiRest, CallsAreKnown, RepliesAreKnown, CallStages, FeedIsBounded
    <2>4. /\ cachedEvents \subseteq 1 .. consumed
          /\ Len(recentEvents) <= BufferMax /\ Len(recentRisky) <= BufferMax
        BY DEF AnswersInv, ApiRest, DequesAreBounded
    <2> QED  BY <2>1, <2>2, <2>3, <2>4 DEF ForwarderApiTypeOK
<1>3. AccessInv /\ AnswersInv /\ ApiRest /\ [ForwarderApiNext]_apiVars => (AccessInv /\ AnswersInv /\ ApiRest)'
    BY AccessStep, AnswersStep, ApiTypesKeep
<1> QED  BY <1>1, <1>2, <1>3, PTL DEF ForwarderApiSpec
=============================================================================
