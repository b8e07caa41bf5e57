# AuditLens: specifications and proofs

TLA+ specifications of AuditLens (`audit_forwarder.py`, `src/`, `backend/`,
`frontend/`, the installer and the schema watcher), the TLC configurations that
check them on small instances, and TLAPS proofs. Line numbers refer to the files
of this repository.

AuditLens reads the Confluent audit log topic, classifies every record,
publishes it on its own topics and writes it to Postgres. The one promise the
documents repeat is *at-least-once*: "Offsets are committed only after: required
persistence writes succeed, Kafka producer flush completes, no new delivery
errors are observed for the batch" (`docs/OPERATIONS_MODEL.md:8-11`). Keeping
that promise is spread over five threads, two callbacks and four queues, and
that is what this project is about first. Around the pipeline stand the
components that watch and alert, the jobs and caches of the API, and the tools
that install and run it.

## 1. Inventory

| Component | State it keeps | Operations | Hard because | Correct when |
|---|---|---|---|---|
| Delivery pipeline, `audit_forwarder.py` | `record_queue`, three lanes, `_processed_offsets`, `_revoked_partitions`, the two persisted-offset maps, `delivery_errors`, the consumer's position | fetch and split, put, process, route, publish, flush, two barriers, commit, writer loops, requeue or DLQ, `on_assign`, `on_revoke` | five threads, callbacks inside polls, timeouts on every wait, crash | no offset is committed past a record with no durable home; a wait always ends |
| Writer-queue backpressure, `:2930-3004` | `paused`, `writer_pressure_paused` | pause, resume, poll(0) | two causes of one pause, partitions assigned meanwhile | paused only while a cause lasts |
| Startup and shutdown, `main()` | parts that came up, `_shutdown_requested`, the sentinel, the database writer | open, repair; joins with deadlines, final flush, argument-less `commit()` | everybody reads one flag at a different moment; several threads open one writer | nothing committed that was not finished; one writer per opener |
| Postgres writer, `src/product/db_writer.py` | tables, lanes, catalog queue | `write_batch`, retention, requeue or DLQ | failure after effect, a batch that fails as a whole | every event stored once, or booked |
| Notifier, `src/notifications/notifier.py` | rate windows, dedup map, digest buffers | `notify`, retry threads, window roll, digest, reload | caller, timers and senders in threads | limit per minute kept; no event forgotten |
| Denial aggregator, `src/aggregation/denial_aggregator.py` | buckets | `add_event`, timer flush, shutdown | timer against hot path; two produces per alert | every denial in exactly one alert; a HIGH alert on both topics |
| Circuit breaker, `src/resilience/circuit_breaker.py` | state, counters, failure times | `call`, record success or failure | results of calls begun in another state | opens at the threshold, closes after enough successes |
| Detectors, `src/anomaly`, `src/product/*_detector.py`, `ip_baseline_tracker.py` | windows, cooldowns, known addresses, bounded queues | `track_event`, `record`, cleanup | windows against clocks, lossy queues, restart | an excess is alerted once per cooldown |
| Watchdog, `audit_forwarder.py:1923` | `alerted` | poll `MAX(timestamp)` | failing queries, late events | one alert and one recovery per silence |
| Webhook sender, `src/alerting/webhook_sender.py` | minute counters, last alert times | test, send, count | test and count apart, two threads | a bounded number per minute |
| Classification and criticality | rule tables | short circuit, flatten, enrich, normalise, replay | one verdict reached in five places | they agree |
| Backfill jobs and the classification script | saved cursor, job status | page through a table and update, resume | a cursor saved between transactions; failing pages; the jobs change what they select by | what is reported done is done |
| Replay control, `src/forwarder/health_server.py:1167` | `ReplayState` | post, run, finish | test in one thread, set in another | one replay at a time |
| Cold storage, `cold_storage_service.py`, `event_service.py` | archived days | archive, delete | failing uploads, two cleaners, late rows | no row that was due is deleted unarchived |
| Collector and sinks, `src/collector.py`, `src/sinks` | buffers, auto-committed offsets | consume, flush, write to sinks, DLQ | offsets run ahead of the buffer; late failures | nothing committed only buffered |
| Topic router, `src/routing/topic_router.py` | counts | two produces, delivery reports, create topics | full buffer between the two | on every topic or in the DLQ |
| Hot cache and investigation API of the forwarder | SQLite file, deques, tokens | write, clean, rotate, search, export | a rotation of six file operations; a file rewritten while read | no row lost by a failed rotation; no answer beyond the token's grant |
| Health, `health_server.py` and `system_service.py` | metrics, two caches | mark, judge, fetch, keep | marks of many threads, stale snapshots | unhealthy for a reason; nothing healthy that is behind |
| Identity and actor enrichment | three layers of caches | look up, refresh, prefetch, edit | refresh against lookup | as recent as the caches' lifetimes |
| Event list, noise view, summaries, patterns, triage (API) | caches, cursors, decisions | page, scan, probe, narrate, decide | a table that changes between statements | complete, as fresh as promised, decisions stand |
| Web console | lists, drawer, calls under way | filter, page, open, triage, poll | answers after the question changed | the screen shows what was asked for |
| Schema Registry registration, Confluent admin client, secrets | schemas, cached listings and payloads | register, list, look up | several registrars; rate limits; rotation | what is reported registered is usable |
| Installer, schema watcher | `.env`, token files, checkpoint; data file, versions, snapshots | phases, moves, writes, repair; check | killed between two files | files agree whenever it runs |

How they interact: the consumer thread hands envelopes to the processor thread
through `record_queue` and short-circuited noise to the bulk writer through its
lane; the processor hands events to the writers through three lanes and messages
to the producer; the writers report persisted offsets to the processor through
two maps under condition variables; delivery callbacks run inside the
processor's producer calls and report through one counter; rebalance callbacks
run inside the consumer's polls and read the processor's offsets. The
aggregator, the notifier and the detectors hang off the processor's per-event
path and never decide about offsets. The API and the console meet the pipeline
in Postgres, in `/health` and in the replay endpoint only. `PROJECT.json` lists
every component and every hazard at its line.

## 2. Plan

*Done:* the pipeline with its contract, loop and shutdown; the alerting
components; the storage, service, installation and view components; proofs of
every invariant and action property of the pipeline and of the alerting and
service components, their types included (section 6).

*Left:* `AUTO_OFFSET_RESET=latest`, a second group coordinator, is left to whoever
needs it (section 7).

## 3. Modules

**`DeliveryContract`**: three variables. Records become `durable`, some are
`waived`, and `committed` passes over no other record. Offsets may move back (a
record is then delivered again).

**`Forwarder`**: the pipeline. One action per step of a thread at which another
thread, a callback or a fault can interfere.

| Code | Actions |
|---|---|
| `_consume_thread`, `_split_noise`, `_try_short_circuit_noise` | `Fetch`, `FetchError`, `HeartbeatPoll`, `FinishSplit`, `PutEnvelope`, `PauseOnFull`, `ResumeAfterDrain` |
| `on_assign`, `on_revoke` | `OnAssign`, `OnRevoke`, enabled only where the consumer polls |
| `_process_thread`, per message | `TakeEnvelope`, `SkipRevoked`, `ProcessPoison`, `StartEvent`, `RouteAndPublish` |
| `_process_thread`, end of batch | `FlushAndEvaluate`, `AwaitNoise`, `AwaitSignal`, `CommitBatch`, `CommitRaises`, `DeclineBatch` |
| `delivery_callback`, `_dlq_delivery_callback`, brokers | `Deliver`, `DeliveryFails`, `DlqDeliver`, `DlqDeliveryFails` |
| `_writer_loop`, `_requeue_or_dlq` | `WriterGet`, `WriterWrite`, `WriteFails`, `RequeueOrDlq` |
| process death and restart | `Crash` |

A record is a pair of partition and offset, and `kind` (chosen once, in `Init`)
says what the code would make of it: bulk `noise`, a `critical`, `normal` or
`bulk` event, or `poison`. What is abstracted:

- The several messages of an event (raw, enriched, normalized, signal)
  are one entry of `outbox`: `topics` holds the record when all of them are
  acknowledged. The messages of the topic router, which is built without a
  delivery callback (`:2410`) and counts failures by itself, are none of them:
  no commit waits for one, and `TopicRouting` models them. A failed delivery reaches `delivery_callback` while the processor
  drives the producer for a message (`safe_produce` polls), so it is enabled in
  the per-message phases; one that arrives later is a flush that leaves something
  unsent.
- `poison` stands for a record that does not parse and for one whose shape
  raises; the code treats both alike (`:3441-3506`).
- Noise that takes the full path because the short circuit is off or the bulk
  lane is full goes to the bulk lane. One bulk-noise method,
  `ScheduledJwksRefresh`, would go to the normal lane there.
- A group without a committed offset starts at the beginning of the log
  (`AUTO_OFFSET_RESET=earliest`, the installer's default, `INSTALL.md:164`).
- `HeartbeatPoll` is the idle `poll(0)`, and the second put of an envelope
  succeeds at once; the pauses and the shutdown that make both more interesting
  are in `Lifecycle`.
- Statistics, logging, aggregators, notifiers and detectors.

The ghost variable `excused` books each record the process lets go of, by cause
(section 5 lists them). It never enables or disables anything. It makes two kinds of
statement possible: what is passed over is durable *or booked* (which holds, and
says that the causes listed are the only ones), and what is passed over is
durable (which the documents say, and which each cause refutes).

**`Lifecycle`** extends `Forwarder`: the same handlers, guarded by the state that
decides whether a thread still runs them.

| Code | Actions |
|---|---|
| `_consume_thread`, top of the loop (`:2957-3003`) | `PauseForPressure`, `RelievePressure`, `EnterConsume`, `ConsumeNothing`, `PollDiscards` |
| `_consume_thread`, batch and envelope (`:3005-3060`) | `ConsumeNext`, `SplitDone`, `PutFirst`, `PauseForRoom`, `LeaveDrainWait`, `PutAgain` |
| leaving the loops (`:3061`, `:3071`, `:2841`) | `ConsumerLeaves`, `ProcessorLeaves`, `WriterLeaves` |
| signal handler, `main()`'s `finally` (`:3824-3884`) | `RequestShutdown`, `JoinConsumer`, `JoinProcessor`, `JoinWriters`, `FinalFlush`, `FinalCommit`, `CloseConsumer` |

`entered` separates the tests at the top of the loop from the `consume()` they
lead to, because the flag may be set in between: the consumer then fetches one
more batch. `fetchPaused` and `stored` belong to librdkafka: the partitions it
does not fetch from, and the offset store that `commit()` without arguments
commits (`enable.auto.offset.store` keeps its default, `:936-963`). All lanes
have one capacity, of at least two, as `int(maxsize * 0.8)` is zero for one.
Revocations during the life of the process, and the faults of brokers and
Postgres, stay in `Forwarder`; here partitions leave when the consumer is closed,
which calls `on_revoke`. `pause()` and `resume()` do not raise. The shutdown of
the denial aggregator and of the metrics server, between the joins and the flush,
is left out.

**Alerting** (`Ages` holds the two operators on windows of ages that several of
them use). Time is kept as ages throughout: no model has an absolute clock that
would have to be bounded.

| Module | Code | Actions |
|---|---|---|
| `CircuitBreaker` | `_check_state`, `_record_*`, `_transition_to`, force | `AdmitCall`, `CallReturns` (two lock sections with the call between), `ForceTo`, `ServiceTick` |
| `Notifier` | `notify`, `_flush_rate_window`, the digest timer, delivery threads | `Notify`, `FlushExpiredWindow`, `SendDigest`, `Delivered`, `AttemptFails`, ticks; a configuration reload in `Notify` |
| `DenialAggregator` | `add_event`, the timer thread, `shutdown` | `AddDenial`, `TimerFlush`, `FlusherNext` (one step per produce), `BeginShutdown`, `ShutdownNext` |
| `Detectors` | `rate_tracker.py`, `burst_detector.py`, `pattern_detector.py`: three machines | `TrackEvent`, `FlushSummary`; `RecordFailure`; `RecordOccurrence`, `TakePattern`, `UpsertPattern`; ticks |
| `IpBaseline` | the tracker, its writer thread, the alert | `RecordPair`, `TakePair`, `UpsertPair`, `Restart` |
| `Watchdog` | `_pipeline_watchdog_loop` | `Look`, `EventStored`, `DatabaseChanges`, stop |
| `WebhookSender` | `send_alert` from two threads | `ReadClock`, `Decide`, `PostSucceeds`, `PostFails`, `ClockTick` |
| `EventVerdict` | short circuit, `flatten_audit`, `build_enriched_event`, `normalize_event`, the two replays | `ShortCircuit`, `Process`, `WriteRow`, `ReplayRaw`, `ReplayEnriched` |

**Storage and services**

| Module | Code | Actions |
|---|---|---|
| `EventStore` | `flush_db_writer_batch`, `_requeue_or_dlq`, `write_batch`, `upsert_catalog`, retention | `RouteEvent`, `TakeWriteBatch`, `InsertRows`, `SweepOldRows`, `QueueCatalogRows`, `BatchFails`, `UpsertCatalog`, crash |
| `Backfill` | source fields, actor names, resources (`backfill_service.py`), `scripts/backfill_classification.py`: four machines | start, select, write, commit, save the cursor, next pass, die; rows that come, go and change meanwhile |
| `ColdArchive` | `cleanup_retention`, `archive_events_before` | `BeginCleanup`, `UploadDay`, `UploadFails`, `EndArchive`, `DeleteRows`; the writer's own sweep |
| `Collector` | `AuditLogCollector` | `Poll`, `TakeIn`, `AutoCommit`, `Flush`, `Killed`, `RestartCollector` |
| `Sinks` | sink manager, bucket and Kafka sinks, DLQ sink | `Write`, `WriteKafka`, `WriteBucket`, `Gather`, `Delivery`, `FlushAll`, crash |
| `TopicRouting` | `route_event`, delivery reports, topic creation | `ProduceOwn`, `ProduceAll`, `RouteNowhere`, `DeliverRouted`, `Verify`, `CreateTopics` |
| `HotCache` | `SQLiteProductStore`: write, clean, rotate | one `RotationStep` per file operation, `EnforceBounds`, `CleanUp`, `RestartCache` |
| `ReplayControl` | `POST /api/v1/replay`, `ReplayState`, `replay_events` | `Post`, `StartReplay`, `SetUp`, `ReadRecord`, `Finish`, `BookCompletion`, the raises |
| `Health` | `Metrics` and `/health`; `system_service.py`: two machines | the marks of each thread; `LookUpCache`, `Fetch`, `KeepFetched`, `AnswerStatus` |
| `NoiseView`, `EventPaging`, `Summaries` | `noise_service.py`, `event_service.py`, `summary_service.py` with the summarizer | one action per statement or locked section, and the table changing in between |
| `PatternReview` | `patterns.py`, `pattern_service.py`, the admin log | decisions loaded and written apart, expiry, upserts, roles |
| `EventsView` | `events/page.tsx`, `api.ts`, `triage_service.py` | one action per user act, served call and answer |
| `ActorNames` | `enricher.py`, `actor_enrichment.py`, the mapping editor | `LookUp`, `CacheName`, `FetchIdentities`, `SwapIdentities`, `Prefetch`, edits |
| `AdminDirectory`, `SecretLookup` | `admin_client.py`, `core/secrets.py` with `forwarder/config.py` | look into the cache, fetch, keep, fail; time |
| `ForwarderApi` | the investigation endpoints, tokens, exports | `ReadTokens`, `SetTokens`, `Admit`, `AnswerSearch`; the file rewritten meanwhile |
| `ForwarderStartup` | `main()` before the loop, the repair thread | stages, `Open` by any thread, `RepairRows` against locks |
| `SchemaRegistration` | settings page, command line, Tableflow page, the serializer | `Inspect`, `Register`, `Reread`, `SetCompatibility`, `Serialize` |
| `Installer` | `bootstrap_auditlens.py`, `product/bootstrap.py`, `make repair` | one action per phase and file operation, kills, repair |
| `SchemaWatcher` | `watcher.py` | one action per file it writes, kills |

Each header says what its module leaves out. What is external (libraries,
brokers, Postgres, the cloud API, time) appears as actions that return any of
the results the code handles.

**`MCForwarder`**, **`MCLifecycle`** hold the fault budgets of their runs.
**`MCAlerting`** and **`MCServices`** let each behaviour run one component
(`machine`) while the others rest: the state spaces add up and do not multiply.
The components they compose share no state in the code either, or none that
their properties depend on, so nothing is lost by it. The composed properties
say `machine = "x" => ...` for each component.

**Proof modules**: `ForwarderProofs` (pipeline and lifecycle) and `DeliveryProofs`;
`AlertingProofs`; `StorageProofs` (store, archive, collector, cache, sinks),
`JobProofs` (the four backfills, the replay slot, the pages of the event list),
`ServiceProofs` (installer,
watcher, registry, startup, routing, reviews), `AnswerProofs` (what is shown or
looked up) and `ServiceGroupProofs`, which puts the services together (section 6).

## 4. Properties

| Property | Kind | Says |
|---|---|---|
| `TypeOK`, `LifecycleTypeOK` | invariants | types; marks and stored offsets within the log; a paused partition is assigned |
| `LossAccounted` | invariant | every record below a committed offset is durable or booked |
| `AtLeastOnce` | invariant | every record below a committed offset is durable |
| `CommitCoversBatch` | invariant | once the verdict is "commit", every message of the batch is durable or booked |
| `NoiseBarrierFed` | invariant | the noise barrier waits only for records that are acknowledged, carried or given up |
| `NoSilentPgLoss` | invariant | while the process lives, a committed event has its row, or a lane or writer carries it, or it is booked |
| `StrictLossAccounted` | invariant | with `SIGNAL_COMMIT_REQUIRES_PG` and one lane, a signal event below the committed offset has its row or was booked (declined batch, full queue) |
| `PgBeforeCommit` | invariant | what the comment promises of that setting: no signal event is committed before its row |
| `PausedOnlyWhileFlagged` | invariant | no partition is paused while the flag the resume paths test is down |
| `CommitNeverRegresses` | action | without rebalances, and through crashes, committed offsets never move back |
| `RefinesContract` | refinement | `Forwarder` implements `DeliveryContract` |
| `EventuallySettled` | liveness | every record ends up durable or booked |
| `CaughtUp` | liveness | the group's offset reaches the end of the log for good |
| `HoldsEnd` | liveness | pressure ends, and a requested shutdown completes |
| `KeepsFetching` | liveness | unless told to stop, the process fetches the whole log |
| `ClosedBelowThreshold` | invariant | a closed circuit is never one that should be open, whatever late calls report |
| `CircuitRecovers` | liveness | once the service is up again the circuit closes |
| `NotTooOften` | invariant | a stretch as long as the rate window sees at most twice the limit; no fingerprint twice within the duplicate window |
| `NothingForgotten` | liveness | an accepted event is sent, summarised, in a digest, or has failed for good |
| `DenialsAccounted` | invariant | no denial is lost, counted twice or told to half of its readers; a shutdown leaves only what it gave up on |
| `DenialsReported` | liveness | a denial in a bucket is reported while the process lives |
| `SpikeReportedOnce` | action | a spike is reported in time, and two reports about one person are a cooldown apart |
| `BurstCaught` | invariant | a threshold of failures within the window has been alerted about within it |
| `PatternKept` | invariant | a pattern above the threshold is in the table, on its way or booked as lost |
| `NewIpOnce` | invariant | an address is announced a second time only after its record was lost |
| `SilenceNoticed` | invariant | after a whole interval of answers and of one verdict, the flag tells the truth |
| `WebhookBounded` | invariant | one minute sees at most `T * max + T(T+1)/2` posts of T threads |
| `VerdictsAgree` | invariant | a refused access always surfaces; the row is never calmer than the published event, and the two differ only by the words, marks and tables listed; short circuit and replays differ only by the statuses listed |
| `JobsAreHonest` | invariant | what a job, a replay or a script reports as done is done; one replay at a time |
| `StoredIsKept` | invariant | what is deleted, committed, moved, routed or decided is kept where the code says |
| `ShownIsCurrent` | invariant | what is shown or looked up is as recent as its caches promise, and what was asked for |
| `AnswersAreComplete` | invariant | a walk through the pages and a search have every event they should, once, within scope and window |
| `SetupConsistent` | invariant | files, versions and registrations written one after the other agree after kills and races |
| `StoreConsistent` | invariant | no failed write loses an event unseen, stores one twice or runs ahead in the catalog |
| `AlertingTypeOK`, `ServicesTypeOK` | invariants | the components' types |

These service properties are conjunctions over their components:
`JobsAreHonest` of `CompleteMeansDone`, `CleanRunComplete`, `ReplaySlotExact`,
`ReportedPassIsDone`, `RerunIsHonest`; `StoredIsKept` of
`UploadedBeforeDeleted`, `CommittedIsCollected`, `RotationRecovers`,
`FailuresAreKept`, `RoutedIsAccounted`, `ReviewsStand`; `ShownIsCurrent` of
`MissingNoiseIsRecent`, `ActorNamesCurrent`, `ViewIsCurrent`,
`StatusIsJustified`, `HealthIsEarned`, `SummaryAddsUp`, `AccessHolds`,
`CutByTheLimitOnly`, `SecretsHold`; `AnswersAreComplete` of `PagesComplete`,
`AnswersAreWhole`; `SetupConsistent` of `InstallConsistent`,
`BookedIsRecorded`, `RegisteredIsUsable`, `StartupIsSound`. Each is stated in
words where it is defined. Many are conditional, because the code is: the
condition names exactly the situation in which the code breaks the plain
statement, and section 8 lists those.

## 5. Runs

The pipeline's runs use one partition unless stated, logs of 2 to 4 records, of
kinds TLC chooses (in `Lifecycle`: that `MCLifecycleInit` gives), batches of 1 or 2, queues and lanes of 1 or 2, and one
requeue (`MaxRetries = 1`; the code's default is larger, and the second attempt
is where its behaviour changes). A bound is small but never keeps the
interesting case out: a lane of 1 is full after one event, a `record_queue` of 1
makes the consumer pause, two records make one overtake the other, three make a
full lane meet a requeue, four let a batch be declined and passed over after
that (`Strict`). In `Lifecycle` a queue of 2 has a half to fall below, and with
two partitions one is paused while the other is assigned; both pauses meet there.
Its processes start where an earlier one left the group, with one record of the
second partition, or all of it, committed (`MCStart`). `FaultBudgets` is a set of budgets, each saying how
often each fault may occur; TLC starts from every one of them, so a run covers
several ways of failing without paying for their product. `MayTimeOut` lets every
bounded wait expire at any moment; where it is FALSE, waits last until they
succeed.

| Run | Bounds and faults | Shows |
|---|---|---|
| `Reliable` | noise, normal and poison; a crash; no timeouts; fairness | `TypeOK`, `AtLeastOnce`, `CaughtUp`, `CommitNeverRegresses`: the protocol itself is right |
| `Faults` | noise, critical and poison; timeouts; four budgets: two failing INSERTs and a lost DLQ message; a revocation, a discarded poll and a failing commit; an error message, a delivery failure and a full producer buffer; a revocation with a delivery failure | `LossAccounted`, `CommitCoversBatch`, `NoiseBarrierFed`, `NoSilentPgLoss`, `RefinesContract` |
| `Options` | two partitions with one record each; DLQ and short circuit off; timeouts; a revocation, or a failing INSERT | `LossAccounted`: marks are per partition |
| `Strict` | strict mode, four critical events, lane of 2; a crash, timeouts | `StrictLossAccounted` where one lane is used: the lane fills, a batch is declined, and a later one that is written passes it; `PgBeforeCommit` fails here |
| `Settles` | three records, noise and critical; a failing INSERT, timeouts; fairness | `EventuallySettled` |
| `Lifecycle` | two partitions, queue of 2, lanes of 2; timeouts; three noise records with a discarded poll, or two normal ones on one partition with a join that expires; fairness | `LifecycleTypeOK`, `LossAccounted`, `PausedOnlyWhileFlagged`, `HoldsEnd` |
| `Alerting` | ten components, one per behaviour; fairness | the alerting properties of section 4 |
| `Services` | 26 components, one per behaviour | the six service properties and `ServicesTypeOK` |

*Bounds of `Alerting`.* Breaker: two callers, threshold 2 in a window of 2, so a
late failure can meet a circuit that has changed twice. Notifier: three
fingerprints, one event per window of 1, duplicate window 3, pruning every 2,
two attempts, digests of one: each of the three limits bites, and a duplicate
can fall in, at and after the edge of its window. Aggregator: two buckets, HIGH
at 2, three denials, two produce faults: an alert meets the buffer full before,
between and after its two produces. Detectors: thresholds of 1 and 2 in spans of
2 and 3, a queue of 1. Baseline: two pairs, a queue of 1, two lives. Watchdog: a
look every 2, threshold 3. Webhook: two threads, a limit of 1, a minute of 3
ticks: both threads can be late for the same minute, which is the worst case.
Verdict: 27 methods, among them each table and, for every list of marker words, a
method that says one of them, with the combinations that make two passes differ
(`revoke` and `unbind` in listed methods, `drop` and `secret` in unlisted ones);
every type, five of the nine statuses, every mark alone and three pairs. The theorem has no such
choice.

*Bounds of `Services`* (`MCServices.cfg`). They follow one rule: two of each
party whose races matter, one fault or kill of each kind (two where the code treats a
second one differently), tables of two to four rows with batches of one or two,
so that there is a full batch, a short one and one in between changes; caches
whose lifetimes of 1 to 3 time units are shorter than the run (the clocks of the
status and of the noise table run at least as far as the lifetimes and fetches that
their bounds on an age add up, so that each could be exceeded); queues and
buffers of one or two. `MCStored`, `MCAnswers`, `MCEmissions` and the like pick
inputs one of each kind the code distinguishes. The run checks no deadlock:
each machine is finite work between bounds (so many jobs, faults, ticks), and a
behaviour ends when they are used up.

The remaining runs expect a violation. Each checks a statement of the
repository's own documents or comments:

| Run | Fault | Statement refuted |
|---|---|---|
| `LateFailure` | a delivery failure | "restart will replay everything in this batch" (`audit_forwarder.py:3587`): the next batch of the same process commits past it |
| `StrictShared` | none | "full PG-before-commit durability" (`:3531`): both lanes share one mark, so the row of a later event in one lane satisfies the wait for an earlier event in the other |
| `GracefulStop` | none, no deadline missed | "shutdown commit is purely defensive" (`:3861`): the processor may leave before the consumer's last batch arrives, and the final `commit()` covers it |
| `Stall` | none | "Resume once the queues drain below 80% AND record_queue is also OK" (`:2962`): the resume that is skipped is never tried again |

*The causes that are booked.* `LossAccounted` says these are all there are. Each
can be seen by checking `AtLeastOnce` with the budget named:

| Cause | Where | Budget and kinds | What the repository says |
|---|---|---|---|
| `declined` | `:3584` | `delivery` | `LateFailure` above |
| `abandoned` | `:3872` | none | `GracefulStop` above |
| `handover` | `:1171` | `rebalance` | "At-least-once semantics are preserved: anything we don't commit gets replayed by the new owner" (`:1148`): what is committed includes records in flight |
| `revoked` | `:3144` | `rebalance`, partition reassigned | the skipped records "belong to the new owner" (`:3139`): they are passed over if that is the same process |
| `requeued` | `:337` | `db`, noise, lane of 2, writer batch of 1 | the noise barrier (`:184`): the mark is a maximum and requeued rows come late |
| `unpublished` | `:1016`, `:1076` | `dlq` with poison, or `buffer` with normal | poison has "ALREADY been delivered" (`:1533`); produce failures block the commit (`:3477`) |
| `dropped` | `:2758`, `:2652`, `:3055` | `db` and a full lane | "critical NEVER drops" (`tests/test_productization.py:182`): a requeued critical event does |
| `discarded` | `:3019`, `:3001` | `poll` | the idle `poll(0)` "drives heartbeats": a record it returns is lost |

`CommitNeverRegresses` fails with a `rebalance`: `on_revoke` commits
`_processed_offsets`, which knows nothing of short-circuited noise, so the new
owner does not start from "the higher of" the two offsets (`:1144`).

*Fairness.* `FairSpec` asks weak fairness of each thread's steps taken together
(the threads run loops and are never starved by the scheduler), of the brokers'
acknowledgements, and of the coordinator handing out unowned partitions.
`FairLifecycle` adds `main()` once it has been told to stop. Faults,
timeouts, rebalances away and the stop signal are never owed. Weak fairness is
enough because a thread's next step, once enabled, stays enabled until it is
taken. A join that may expire could hide a thread that hangs; the second budget
of `Lifecycle` has none, so there `HoldsEnd` says that the threads do leave.

`AlertingSpec`: callers keep calling and, once the service is up, a call that is
made again and again comes back well (strong, because each call may find the
circuit open); the notifier's window timer, its senders and both clocks run
(weak), and its digest timer is not passed over for ever (strong, because a
change of mode disables it for a while); the aggregator's timer, flushers and
shutdown get to work. Nothing makes events happen. `Services` states no fairness
and checks no liveness: what those components promise is safety.

Deadlock checking is on everywhere but in `Services`. The only steps that stutter
are `Quiescent` (the log is drained and every thread waits for work), `Stopped`
(the process has ended), and in `Alerting` the ends of the two machines that
really end: `AggregatorOrEnd` (its process has exited) and `VerdictOrEnd` (the
event is stored as bulk noise and goes no further).

## 6. Proofs

All theorems hold for every number of partitions, threads and keys, and for
every log length, capacity, threshold, window and fault budget that the module's
named assumption allows; the assumptions ask for positive sizes, and of the
budgets that they count the faults. `MayTimeOut`, `EnableDlq` and the other
settings are free unless a theorem says otherwise.

### The pipeline

| Theorem | Proves | Rests on |
|---|---|---|
| `TypeCorrect` | `Spec => []TypeOK` | the marks stay within the log because `IsRaised` and `Raise` only pick offsets of it; an item's retries stay within `MaxRetries` |
| `BatchCovered` | `Spec => []CommitCoversBatch` | `BatchInv` |
| `LossIsAccounted` | `Spec => []LossAccounted` | `DeliveryInv` |
| `ImplementsContract` | `Spec => RefinesContract` | `LossIsAccounted`, step by step |
| `BarrierIsFed` | `Spec => []NoiseBarrierFed` | `NoiseFed` |
| `NoEventSlipsAway` | without crashes, `Spec => []NoSilentPgLoss` | `HomedInv` |
| `DeliversAtLeastOnce` | without timeouts, with the DLQ, and with crashes and failing commits as the only faults, `Spec => []AtLeastOnce` | `CalmInv`, `LossIsAccounted` |
| `CommitsAdvance` | without rebalances, `Spec => CommitNeverRegresses` | `AscendInv` |
| `StrictIsDurable` | where one lane has all the records the strict mode speaks of, and without failing writes, a committed one has its row or is booked | `StrictInv` |
| `StrictHolds` | under that and the hypotheses of `DeliversAtLeastOnce`, `Spec => []PgBeforeCommit`: no wait expires, so nothing is declined | both |
| `LifecycleTypeCorrect`, `PauseFlagged` | the types and `PausedOnlyWhileFlagged` of `LifecycleSpec` | each other |

*`BatchInv`.* `CommitCoversBatch` says nothing about a batch before its verdict.
`BatchInv` adds what holds earlier: while messages are processed, *as long as no
delivery error was counted since the batch began*, every message taken is still
to do, in the producer's hands, durable or booked. A failure removes a message
from the producer's hands and moves the counter in one step; a verdict of
"commit" needs an unmoved counter and an empty producer.

*`DeliveryInv`.* A commit may pass over records of other batches, so the
invariant ranges over the whole pipeline. `Pipe` is the sequence of envelopes:
in the processor's hand, queued, being split. Four facts are kept at once. (1)
The pipe is in the order of the log: every record below an envelope's maximum is
covered (durable or booked), or in that envelope or an earlier one, and every
record below the consumer's position is covered or in the pipe. (2) The bulk
lane followed back through its writer's batch, `Line`, holds the short-circuited
records in that order too, except the requeued ones, which are booked; so
whatever lies at or below the noise mark is covered. (3) The batch's marks
(`BatchMarks`) are the maxima of the envelope it came from. (4) Once the noise
barrier has passed, the envelope's noise is covered. Then a commit of the oldest
envelope's maximum passes over covered records only.

*Refinement.* `durable` maps to what has reached its topics, its row or the DLQ,
`waived` to what is booked. Both only grow; a step that moves offsets forward is
a step of the contract by `LossAccounted'`; all others, the crash included, let
records become durable or waived, move offsets back, or stutter.

*`HomedInv`* repeats the pipe argument with a stronger notion of home (a lane, a
writer, a row, or booked) and needs no crash, because only strict mode makes a
commit wait for Postgres: what a crash finds in a lane is gone once its offset
was committed. *`AscendInv`* keeps the pipe's records above the committed offsets
of the partitions still assigned, and in ascending order through the pipe; a
rebalance breaks it (section 5). *`CalmInv`* says that with the faults excluded
the code never enters a branch that books a record. *`StrictInv`* has the
argument of the noise line for a signal lane, where records enter the lane one
by one from the processor: the lane and its writer's batch follow each other in
log order, and the mark of the writer speaks for every signal record below it;
what the processor has not routed yet is above.

*Why the hypotheses are there.* Each excludes a situation in which the run named
in section 5 violates the property, not one in which a proof was hard:
rebalances make commits regress, crashes empty the lanes, timeouts and faults
are the causes that `LossAccounted` books, two signal lanes share one mark
(`StrictShared`), and with retries a failed item goes to the lane's end while
the mark passes it. All are satisfied by configurations the code runs with.

### Alerting

`AlertingProofs` proves each component's specification (`BreakerSpec`,
`BaselineSpec`, ..., without the fairness) to satisfy its property, and then the
group to keep its types:

| Theorem | Property | Inductive invariant |
|---|---|---|
| `ClosedIsBelow` | `ClosedBelowThreshold` | `BreakerInv`: the failures kept are ages within the window, oldest first, and a circuit that closed forgot the earlier ones |
| `NewIsNewOnce` | `NewIpOnce` | `BaselineInv`: a pair announced is in memory, and on its way to the table, in it, or booked as lost |
| `SilenceIsNoticed` | `SilenceNoticed` | `WatchdogInv` relates how long the verdict has stood and the database has answered to the next look |
| `BurstsAreCaught` | `BurstCaught` | `BurstInv`: what is counted is the tail of all failures since the last burst (`Tracks`) |
| `PatternsAreKept` | `PatternKept` | `PatternInv`: once the count has passed the threshold the pattern was handled, and stays so while it is above |
| `LimitsHold` | `NotTooOften` | `NotifierInv`: a stretch as long as the window meets at most two of the fixed windows, each of which took at most the limit (`Paced`); a dispatch within the duplicate window is still in the duplicate map, however it was pruned (`Recorded`) |
| `MinutesAreBounded` | `WebhookBounded` | `WebhookInv`: see below |
| `SpikesAreReported` | `SpikeReportedOnce` (invariant and action) | `TrackerInv`: a remembered alert and its age agree while either is below the cooldown (`Coupled`), so what the tracker forgets is old enough to be reported again |
| `VerdictsAlwaysAgree` | `VerdictsAgree` | `VerdictInv`: what was published, stored and replayed is what the code's cascades answer for the event |
| `DenialsAreAccounted` | `DenialsAccounted` | every denial is in exactly one place (bucket, alert of a flusher, reported, lost at exit), and an alert's place says whom it was told |
| `AlertingTypesHold` (of `AlertingSpec`) | `AlertingTypeOK` | `AlertingTypes`: the ten components' types, with those of the invariants above that they rest on; a step of the group is a step of one component (`EachSteps`) |

*The webhook bound.* A thread reads the clock, decides, posts and counts later;
one that read the clock before the minute turned resets the new minute's counts.
`WebhookInv` keeps a budget per minute: what was sent, plus what threads in
flight may still send, is at most the limit for each reset that happened or can
still happen. With j threads still to be late the remaining budget is
`j * max + j(j+1)/2`. For three threads this is one more than twice the number
of threads would suggest, and TLC shows that case to be reachable.

*The verdicts.* A cascade of rules is a list whose first rule that applies answers.
That there is a first one, when any applies, is the least element of a set of
positions; from it follows what each of the cascades answers for an event of which
only some marks are known (`FirstRuleApplies`), and the comparison of the five
places that judge it. A method is any combination of the tables that list it, the
marker words in its name and how it begins, so the methods of the code are among
them; the only thing assumed of the tables is that bulk noise says nothing but
reads, writes and checks. That the row is never calmer goes cascade by cascade:
`ChangeType` does not depend on the pass, the second pass only makes more of the
rules apply that call for more (`CoreRises`), and the overrides keep that order
except for registrations and for internal topics named by a CRN (`RowRises`).

### Services

`StorageProofs`, `JobProofs`, `ServiceProofs` and `AnswerProofs` prove each
component by itself.
`ServiceGroupProofs` composes: a step of the group is a step of one component and
leaves the others alone (`StepOfOne`), so `ServicesSpec` implies every component's
specification (`GroupRunsEach`), and what holds of each holds of the group.

| Theorem | Property | Of |
|---|---|---|
| `StoreIsConsistent` | `StoreConsistent` | `EventStore` |
| `SetupStaysConsistent` | `SetupConsistent` | the group: `InstallationStaysConsistent`, `BookedStaysRecorded`, `RegisteredStaysUsable`, `StartStaysSound` |
| `StoredStaysKept` | `StoredIsKept` | the group: `UploadComesFirst`, `CommittedStaysCollected`, `RotationsRecover`, `FailuresStayKept`, `RoutingStaysAccounted`, `ReviewsAlwaysStand` |
| `JobsStayHonest` | `JobsAreHonest` | the group: `CompleteStaysDone`, `CleanRunsComplete`, `SlotStaysExact`, `PassesStayDone`, `RerunsStayHonest` |
| `ShownStaysCurrent` | `ShownIsCurrent` | the group: `HealthStaysEarned`, `AccessAlwaysHolds`, `CutsStayTheLimits`, `MissingNoiseStaysRecent`, `SecretsAlwaysHold`, `StatusStaysJustified`, `NamesStayCurrent`, `ViewStaysCurrent`, `SummariesStayWhole` |
| `AnswersStayComplete` | `AnswersAreComplete` | the group: `PagesStayComplete` (in `JobProofs`), `AnswersStayWhole` |
| `ServiceTypesHold` | `ServicesTypeOK` | the group: the 26 lemmas that each component keeps its types (`StoredKeepsTypes`, `ViewKeepsTypes`, ...) |

*`StoreInv`.* Every event taken in is in exactly one of the places the code moves
it between, or booked. A writer past its INSERT, and the catalog's queue after
it, hold only events whose fingerprint the table has or had, so that the catalog
never runs ahead. That a batch stores the first of its events with a new
fingerprint, and only that one, needs the least of a set of positions, which
exists because the positions are numbers (`WellFoundedInduction`).

*The setup invariants.* `InstallInv` follows the phases of an installation: how
far the files are written at each (`FilesWritten`), that the answers on disk are
the ones shown (`AnswersKept`), and where the password of the volume is: in the
secret file or, on an upgraded host, in `.env` until a backup has it
(`VolumeKept`); the last check is only reached with an API that opens it
(`LastCheckKeeps`). `WatcherInv`: past the data file's turn, a check works with
methods that are in that file. `RegistryInv`: what a registrar has reported of a
subject is so whatever step it is at (`Truthful`), and no event is refused.
`StartupInv`: each fix of the repair leaves alone what an earlier one made
(`RepairDone`); the callers inside the engine's constructor are main alone, then
writers alone, and nobody comes in once somebody has (`EnginesBounded`); what
main has checked before a stage holds from then on (`PartsReady`).

*The storage invariants.* `ArchiveInv`: what a cleanup that archives finds is
uploaded, late, or on a day still on its list (`TakenBy`), and it deletes with an
empty list only. `CollectorInv`: the position and the committed offset pass over
collected messages only. `CacheInv`: where the files are at each step of a
rotation (`FilesInPlace`). `SinksInv`: a sink whose task has run has settled the
call's events before the call returns. `RoutingInv`: the producer has of each
event what its place in the routing says (`QueuedOnce`, `TakenInTurn`), and the
counts are the cardinalities of what was taken. `ReviewInv`: a decision once made
is never undone, and somebody who may decide has asked for it (`OnRecord`).

*The job invariants.* All four backfills walk a table that changes under them, and
their invariants say of each row on which side of the job it is. `FieldInv`: a row
that is due is filled or in front of the saved cursor (`FilledBehind`), also while
a batch is written and after a death. `ActorInv`: what is to be renamed has been,
or is still in front of the pass under way or of a later one (`InFront`), unless a
failure is booked. `PassInv`: resource rows in front of the cursor are still
selected; those behind have their columns, or get them with the commit under way,
and are listed in the catalog or about to be, or a failure is booked. `RerunInv`:
rows up to the last id are settled, and the batch in hand has exactly what lies
between the two positions. That "the first n" of a selection leave nothing smaller
behind rests on the least and greatest of a finite set of numbers, and is proved
for every listing order a job uses. `SlotInv` relates the slot of the replay to the
run that believes it holds it and to what was booked of it.

*The invariants of what is shown.* Most date what a cache or a call under way
holds, and bound the way from the source to the answer by the sum of its stations.
`NamesInv`: a name in the enricher's maps was true no longer before the next refresh
than the refreshes that have failed allow (`NameHeld`), what a lookup or a prefetch
carries was so when it began, and an entry found after the last edit is the
mapping's (`Heeds`). `NoiseInv`: an "absent" is dated by the look it rests on, also
in the hands of a thread that has yet to store it. `StatusInv`: what is kept was
sampled at most one fetch before, and no stored event is newer than the newest.
`SecretInv`: what is stored was current within a fetch of when it is stored, and a
read whose payload a later answer no longer shares is already a lifetime old
(`LetGo`). `DirectoryInv`: a call has read the pages from the first on and not the
last. `HealthInv`: retries are among the troubles since records came. `ViewInv`: the
calls for a part of the page that may still be answered ask for what the controls
say, the others being aborted, and once there are none, so does what is shown. `SummaryInv`: what a scan saw
is a stretch of the table's numbers that reaches past the question and starts at the
oldest row or is full (`SeenWhole`); storing and removing keep it so, and three
disjoint parts of a finite set add up. `AccessInv`: a call that is to replace the
tokens has read no older a file than the mtime it carries, and the exports under way
are those admitted and unanswered.

*The invariants of what is answered.* `ORDER BY` gives some enumeration of the rows
in the order it asks for, each of them once; the models say so (`Newest`,
`LatestFirst`), and leave open, as SQL does, how equal ones come. `PagingInv`
rests on one fact about such an enumeration: the place of a row is one more than
the number of the rows that are newer (`NewerBefore`, by a bijection). For a walk
by cursor (`WalkInv`) what was there when it began and retention spares is listed
or lies below the cursor, and all that is listed does not. For a scan (`ScanInv`) a
row it owes is collected, or at least as many rows are newer as the offset counts:
storing a row and deleting an older one can only add to the rows that are newer than
one that is spared, so an offset in a table that changes may give a row twice and
skips none. `AnswersInv`: what was consumed is in the hot cache or among what it
lost, a request knows of nothing consumed after it came, and the cut of an ordering
at the limit leaves out nothing when it is shorter (`CappedRows`).

*The types of the services.* Each of the 26 components has its own lemma
(`StoredKeepsTypes`, `ViewKeepsTypes` and so on): what its invariant above says of
kinds, and beside it the bounds that `TypeOK` adds (`FieldBounds`, `ViewRest`,
`ApiRest`, ...), which are inductive only together. A counter stays below its limit
because a guard stands before the step that raises it; a batch is no larger than
its size because the last of "the first n" has fewer than n before it (`FewBefore`);
a table that is the numbers from the oldest to the newest has no more rows than
events were stored. A behaviour of the group is one of each component
(`GroupRunsEach`), which makes the 26 one theorem.

*What the proofs corrected.* `CredentialsMatch` named as witness only a payload of
the version answered first; the first setting may itself have been answered by the
environment after a read whose payload lacks it, and a lifetime then runs from that
read. The statement covers that now. Lifetimes (`FalseTtl`, `MethodsTtl`, `HealthTtl`,
`LatestTtl`) and `ScanLimit` are assumed positive, as they are in the code (a lifetime
of zero would make an answer as old as its bound, which is strict), and rows and
requests finite.

### What is not proved

- *Liveness* and whatever needs `ENABLED`: `EventuallySettled`, `CaughtUp`,
  `HoldsEnd`, `KeepsFetching`, `CircuitRecovers`, `NothingForgotten`,
  `DenialsReported`. TLC checks them under the fairness of section 5.
- *Induction over data.* Of it only "a set of numbers has a least element" is
  available. `SelectSeq`, folds, `SetToSortSeq` and recursive sums have no usable
  induction principle here; the models avoid them where a theorem needs their
  result, by saying what the result is.

## 7. Not modelled

- `AUTO_OFFSET_RESET=latest`: the models resume at the beginning of the log where
  a group has no offset. Under `latest` a crash before the first commit skips
  what was produced meanwhile, by the configuration's own meaning.
- The mode without priority queues, and the plain `write_noise_batch` path's
  acknowledgement of rows it skips (`db_writer.py:494`).
- The DLQ sink's own count of produce calls (`dlq_sink.py:191`); a lost DLQ
  message is a fault of the `Faults` run.
- Rule tables of classification, formats, SQL text, HTML: data that no property
  tells apart. `EventVerdict` keeps of a method its tables and its marker words.
- The MCP server, the CLI and the remaining API routes read only, in one
  transaction per request; migrations run before the threads start; deployment
  files are configuration.

`PROJECT.json` gives the reason for each component without a module and says,
for those modelled in part, which operations are left out.

## 8. What the models say that the documents do not

The findings of the four violation runs are in section 5. The following follow
from the code as modelled; no run is spent on them, because the properties above
state what *does* hold, under the condition that each of these makes necessary.

*Pipeline.* With `SIGNAL_COMMIT_REQUIRES_PG` a critical record that its lane
refused declines its batch, but a later batch's commit passes over it (four
records suffice: two fill the lane and their barrier expires, the third is
refused, the fourth is written and committed); `StrictLossAccounted` and
`StrictIsDurable` therefore say "row or booked". An event whose level is LOW or
disabled never reaches the all-events topic (`topic_router.py:42`); when the
second produce fails the event goes to the DLQ although its own topic has it.

*Verdicts.* `flatten_audit` rates an event before it sets `resultStatus`, so the
first rule for security failures cannot fire there, and a replay of the enriched
topic rates such events differently. The docstring of `build_enriched_event` says
that the published message "carries the same fields the DB row holds", `signal_*`
among them (`:505-512`). But the writer derives them again from the published
event, which now has an `action` and the name of the topic without its CRN, and the
rules that read those two cannot fire before. So a `RevokeRoleResourcesForPrincipal`,
an `UnbindAllRolesForPrincipal` or any method that says `drop` is published as
attention or informational and stored as action required
(`event_signals.py:493`); a deletion told by an authorization event is published as
noise and stored as action required; the platform-automation rule demotes deletions
and grants that the row calls for action on; registrations and
`BindRoleForPrincipal` differ. In one case the row is calmer: what happens to an
internal topic named by its CRN is published as the method says and stored as noise.
The short circuit ignores `PERMISSION_DENIED` and `NOT_FOUND` (`:366-372`). The fingerprint of management-plane events leaves out
the result although its comment lists it (`db_writer.py:853-883`).

*Store.* One event that cannot be stored takes its batch mates to the DLQ once
the retries are used up; the docstring of `_requeue_or_dlq` says "DLQ
immediately" where a full lane drops. A retention sweep that fails after the
commit fails the batch. Catalog rows are lost when their queue is full.

*Alerting.* A half-open breaker admits any number of callers, and late successes
count as its trials. The notifier consumes a rate slot before it looks for
duplicates (`:664-671`) and records a duplicate before delivery (`:575`); its
"60-second sliding window" (`:117`) is a fixed one, hence twice the limit in
`NotTooOften`; a change of mode strands a buffered digest. A pattern whose count
jumps over threshold + 1 is not reported at that moment (`:166-169`), and a full
queue loses it. An address seen while no destination was configured is never
announced; a failed seed makes all addresses new. The watchdog marks a silence
as alerted whoever took the alert, and no property follows the alert further. Rate counters are kept by spelling, cooldowns
by person.

*Jobs.* The source-field cursor is deleted at a limit (`:595-597`), left behind a
full last batch, and shared by runs of different orders and scopes. In the actor
job a page whose commit fails is passed over when it is short and repeated for
ever when it is full; `updated` counts rolled-back rows. The resource job reports
resources of unknown type as upserted, and a row deleted under it ends the run
without a report. Rows without a usable payload, and rows that remain "Other",
are selected by every run of the classification script.

*Replay.* Two POSTs may both be accepted; statements between `start()` (`:1738`)
and the `try` may raise, which holds the slot until a restart; metadata that
fails to be written after the end frees another replay's slot. A replay cut by a
shutdown or by empty polls is still "completed".

*Cold storage and collector.* Unreadable settings, an unknown provider or a
missing bucket mean deletion without archive, against `event_service.py:800-803`;
rows that arrive after their day was uploaded, and rows the forwarder's own
cleanup meets first, are deleted unarchived. The collector's client commits what
is only buffered, and a file of the same second and count is overwritten.

*Hot cache and investigation API.* A failed second `os.replace` leaves the cache
closed until a restart; `degraded` is never cleared while the size stays under
the limit (`:897`). `/api/v1/events/high-risk` selects columns that its table
lacks, so it fails whenever the cache is healthy, against `docs/API_V1.md:42`.
Answers from memory ignore the time window; "partial_data" is false although an
emergency drops low-priority rows; a token file read half written makes requests
fail without an answer.

*Sinks.* `flush_all` and `close_all` ignore results, so a failed flush loses its
events; a bucket sink answers success for what it buffers; the Kafka sink asks
for no delivery report.

*Health.* A forwarder answering 503 is "unknown" to the API; a cached snapshot of
any age is served beside a fetch; an older fetch may overwrite a newer one. A
transient error before a quiet time makes the forwarder unhealthy after five
minutes, as connectivity errors are counted until records come. A forwarder
started without destinations never rereads `notifications.yml`
(`README.md:98`).

*Caches and views.* A 429 ends a listing of the admin client, whose part is then
cached as the whole, against the docstring of `_handle_rate_limit` (`:156`). A
failed query's empty answer is cached by the noise view. Bulk-prefetched names
precede `actor_mappings.yml`; a refresh cut by a 429 replaces the map by its
part, against `enricher.py:172-180`. The derived path of the event list ignores
cursors. A summary above its scan limit mixes full totals with sample counts.
Credentials are constants read once, although the secrets' docstring
(`secrets.py:267-269`) relies on a 15-minute lifetime for rotation; key and
secret are looked up one after the other, so a rotation in between mixes them.
On the console, a failed first call leaves the error page until a reload, and a
late answer to a triage opens its event. An expired pattern that recurs stays
expired.

*Installation.* Resuming an "existing token" installation past phase 4 ends in an
error (against `:1426-1428`); installing on a host whose volume exists but whose
secret file does not writes a new password beside the old volume (against
`:1512-1515`). The schema watcher's snapshots are sets, which its serialiser
refuses: after the first recorded version it finds nothing new (against its
docstring, `:5-14`). The registration page and the command line may register
different schema files; a forwarder that does not find its schema sends events to
the DLQ where the comment (`:2470-2475`) says it falls back to JSON.
