# A formal model of Halolake

Halolake is an LLM gateway in two processes. The **control plane**
(`apps/control-api`, Tokio and axum) owns users, tokens, channels, options,
quotas and usage logs. The **data plane** (`apps/gateway-monoio`, one Monoio
runtime per core) authenticates requests against a snapshot of that state,
relays them to upstream providers, and reports what they used. This directory
models both and the traffic between them in TLA+, checks it with TLC and proves
part of it with TLAPS. Paths below are relative to the repository.

## Parts

| part | state | what is hard about it | module |
|---|---|---|---|
| report queue (gateway `control.rs`) | `pending`, `active_workers`, tasks | several workers drain one queue, failed batches come back | `ReportQueue` |
| usage ingestion (`api_system.rs`, storage `usage.rs`) | rows by request id | retries, lost responses, cut-off handlers, partial failure | `UsageIngest` |
| both together | | a charge per request, end to end | `UsagePipeline`, `Billing` |
| quota accounting (`management.rs` of two crates) | users, tokens, channels, version | database first and memory second, saturation, lost updates | `Settlement` |
| PostgreSQL replicas (storage `management.rs`) | shared tables, one copy per process | stale copies, refresh table by table | `ReplicatedManagement`, `VersionedStore` |
| snapshot publication (`snapshot_publish.rs`, `memory.rs`, gateway `gateway.rs`) | version, three stores, bus, worker snapshots | unversioned stores, publications out of order, restarts | `SnapshotSync` |
| request lifecycle (gateway `services.rs`) | requests, reports, feedback | many ways out of the attempt loop, snapshots swapped during awaits | `GatewayRequest` |
| routing (`router-core`) | none | weights, exclusions, cumulative sums | `Routing` |
| affinity cache (`router-core`) | sharded map, counter | a counter under no lock, lock order, eviction | `AffinityCache` |
| proxy circuit breaker (`upstream_proxy.rs`) | breaker per proxy | one probe at a time, late and dropped calls | `ProxyCircuit` |
| channel credentials and feedback (`channel_feedback.rs`, `channel_special.rs`) | key, status | rotation against feedback, refresh tokens that work once | `ChannelCredential` |
| redemption, top-up, check-in (`billing.rs`, `checkin.rs`) | codes, records, credits | two stores and one credit, unlocked saves | `Credits` |
| system tasks (`system_task.rs`, `channel_task.rs`) | tasks in memory and in a table | late upserts, several runners | `SystemTask` |

The rest (protocol conversion, sessions, probes, catalog, import, transport,
telemetry, web) is not modelled; see the end. `PROJECT.json` lists every part
with its status, and the hazards at their lines.

## Modules

Every action models a handler, or the segment of it between two awaits (control
plane, gateway requests), between two critical sections (affinity cache), or
between two database statements where another process can come in between
(replicas, system tasks). Control-plane handlers can be dropped at an await when
their client closes the connection; the gateway does not drop its handlers.

* `ReportQueue`: one action per segment of `run_usage_report_queue`;
  `ReportEvent` is `UsageReporter::report` with the spawn.
  `run_channel_feedback_queue` is the same loop over the same queue type.
* `UsageIngest`: one action per await of `gateway_usage`, several handlers at
  once. The gateway is two sets, `queued` and `acked`. Each fault is a member of
  `Faults`.
* `UsagePipeline` puts `ReportQueue` in the place of the two sets; `serving` says
  which handler works for which task. `Billing` is the promise, not taken from
  code: a request is charged once and forgotten only after that.
* `Settlement`: take `write_lock`, compute from memory (a plan per event, or a
  whole candidate), commit, publish in memory. `update_token` is two steps, its
  read and its write.
* `ReplicatedManagement`: each process plans from its copy, commits if the
  version row is still the one it knows, and otherwise refreshes its copy, the
  version first and then one table after the other. A row is the set of writes
  applied to it. `VersionedStore` is what it implements: one store, whose writes
  apply whole and to the latest content.
* `SnapshotSync`: the content of a store is the number of its changes;
  publication reads the three stores in three steps.
* `Routing`: group order, exclusions, the cumulative weights and the slot
  `seed % total`, beside `SharesByWeight` and `RoutesInOrder`, which define what
  the result should be without them. `RoutingCases` holds the snapshots that the
  runs evaluate them on.
* `GatewayRequest` is composed with `ProxyCircuit` and uses `Routing`: reserve,
  route, call through the breaker, blame and retry, pin the session, report. The
  environment swaps the snapshot at any time. The chat, image, Claude and raw OpenAI
  services run the same loop; the Gemini service makes one attempt, which is
  `MaxUpstreamAttempts = 1`. The exit of the raw OpenAI service for a body that
  cannot be serialized (`services.rs:781-789`) is left out: the body was parsed from
  JSON, and serializing it again does not fail.
* `AffinityCache`: a block that changes a map and then the atomic counter is two
  steps, because others read the counter without the lock of the shard. `get` and
  `record` read the time before they wait for a lock, so a call goes by any time up
  to the clock. A thread does not panic under a lock: poisoning is left out. The
  code's loads are `Relaxed`; a late value can only be larger than the present one
  for the thread under `insertion_lock`, which costs an extra eviction.
* `ProxyCircuit`: a permit is acquired, and ends in a success, a failure, a
  neutral result or a drop. `streak` counts real failures in a row, for the
  property.
* `ChannelCredential`: feedback handlers, the manual refresh, edits and imports
  of one channel with one key; the provider's view of refresh tokens is external.
  `auto_ban` may be off, and then feedback disables nothing. The gateway sends the
  fingerprint of the key with every feedback (`services.rs:1204`), so the branch for
  feedback without one (`management.rs:2468`) is not met.
* `Credits`: redeem with its rollback, top-up, check-in, the save of the whole
  copy after the lock was given back, restarts. A credit may fail before or after it
  was committed (`CreditFails`, `CreditInDoubt`); the handler rolls back either way.
  Disabling a code stands for every edit that makes it unusable, a status of used
  set by hand included.
* `SystemTask`: start, join, claim, progress, finish, each followed by an upsert
  outside the lock; the UNIQUE `active_key` may refuse it.

`MC*` modules give constants their values. `MCGateway`, `MCControl`, `MCSync` and
`MCExchange` hold several parts side by side: a behaviour is of one of them, named
by a variable that never changes, and the others stand still. Definitions introduced
as *Variant of X* are faulty versions of X, which show that a property notices
the fault.

Left out of the data: an event is its request id in the reporting modules; a price
stands for `usage_event_quota`'s arithmetic; `accessed_time`, names and texts do
not appear; delays are steps that may happen at any time.

## Runs

| run | shows |
|---|---|
| `usage_ingest` | under every fault: one charge per row, and uncharged rows are owned |
| `pipeline_ingest` | the queue is a gateway as `UsageIngest` assumes (refinement) |
| `pipeline_live` | every report is charged despite lost requests and responses |
| `exchange` | reports on their way up: queue and ingestion implement `Billing` when responses arrive, so store failures alone neither lose nor repeat a charge (refinement); snapshots on their way down: bus and workers hold the last announced change and never go back |
| `sync_live` | workers converge once changes stop; replicas implement one versioned store and catch up; a task whose row was written ends |
| `control` | quota is conserved and never overdrawn, memory and database agree; one runner works, the table is never ahead of it; a refresh token is sent twice only after a loss, only rejected keys disable a channel; a credit is given once and a used code is paid |
| `gateway` | a reservation is reported once, blame and charge fall on the channel that was called, retries go elsewhere, a session is pinned only to a channel that answered it; selection is fair; the queue neither loses events nor lacks a worker |
| `gateway_live` | the breaker never loses its probe, opens only when earned and recovers; the cache counts exactly, keeps its bound, drops only expired entries and never waits for itself; reservations come back |

Four runs expect a violation, where the code does something other than a
comment or document says (`findings` in `PROJECT.json` has the quotes):

* `retry_swallowed`: the retry is acknowledged as a duplicate of a batch whose
  settlement then fails, so the usage is never charged.
* `exhaustion`: `apply_quotas` fails and the exhausted token is not published.
* `status_only`: an update of the status writes back an older remaining quota.
* `switch_affinity`: `switch_on_success`, on by default, is never read by the
  gateway. A retry selects its route without affinity, so its success moves no pin
  and the session stays with the channel that failed; the settings page says that it
  moves. `PinsAreEarned` is the half that does hold: wherever a session is pinned,
  that channel has answered it.

Some properties state an exception in so many words, where the code has one and
nothing in the repository promises otherwise:

* `SettledOncePerRow`: log cleanup deletes the rows that deduplication relies on,
  so a retry after the cleanup of its row is charged again.
* `ReservationReportedOnce`: a reservation whose response is lost is never
  reported, because the gateway refuses the request.
* `BusIsCurrent`: changes that no handler announces, such as a reservation that
  exhausts a token, wait for the next publication.
* `ReuseOnlyAfterLoss`: a rotation that was not stored, or that a concurrent edit
  of the whole record undid, leaves a refresh token that the provider has used up.
* `GivenOnce`: an older copy of the codes saved last makes a used code unused
  after a restart, and so does the rollback of a redemption whose credit was
  committed although its call failed.
* `TaskEnds`: it speaks of tasks that memory and table agree on. A task ends in
  memory before its row does; a start in between creates a task whose row
  `active_key` refuses, no runner is spawned, and the task stays pending until
  another start joins it. A channel test that joins it earlier may claim it and
  give up when the row of the claim is refused; memory then says running for good.
  A late upsert of a start may also leave the row of a finished task active.

### Bounds

* `usage_ingest`: three handlers are a report and two of its retries at once; two
  events make batches that overlap in part. `MaxCleanups` bounds cleanups per
  event.
* Pipelines: two tasks and two handlers. `exchange` has three events in
  batches of two, so two workers hold batches of different size; `pipeline_live`
  has batches of one, so two workers compete for two events; `pipeline_ingest` has
  two events in batches of up to two, under every fault that ends a request early.
* Snapshots in `exchange`: two handlers (`Publishers`) publish at once; three
  changes reach all stores; one change that is not published (`MaxQuotaOnly`)
  separates version from content. Polling workers do not interact, so one is enough.
* `sync_live`: two changes; two processes over two tables with two writes
  (`MaxWrites`) and two faults (`MaxFaults`), so that a refresh can be overtaken
  and fail; two tasks of a type one after the other, two starters, three runners.
* `control`: two handlers in each service. Quotas of -4..4 stand for i64, so
  saturation is met in a few writes; batches cover a charge above its reservation,
  a refund, a missing usage record, an explicit quota and an unknown user;
  `MaxVersion` allows a reservation, its settlement and one interfering write.
  Two generations of a key (`MaxGeneration`) allow a rotation against a stale one.
  One code, top-up and day for two users make them compete. `MaxDoubts` lets a
  credit be in doubt once per item. One restart.
* `gateway`: two requests of one session; two channels, one behind a proxy and
  with two keys, the other in another group; two snapshots that differ in status
  and in `skip_retry_on_failure`; threshold 1. Routing is evaluated on every
  snapshot of two channels with weights 0..2, four lists of mappings, every set of
  exclusions and seeds 0..6, which covers every slot. The queue has four events
  in batches of two (two full ones, or a full one and two remainders) and one task
  more than may run; its invariants are proved for any number. The requests are
  symmetric.
* `gateway_live`: three calls with thresholds 0..2; two threads, three keys in two
  shards and limits 1 and 2, so that a lowered limit is met; one request.

`CHECK_DEADLOCK FALSE` is set where the system stops once its bounds are used up.

### Fairness

* The runtimes run what is ready: weak fairness of tasks, handlers and requests.
* A request to the control plane ends. For plain http this is its timeouts; over
  https the code sets none on the response, so there it is an assumption, as it
  is for a stream of an upstream without a read timeout.
* Strong fairness of an acknowledgement, a record, a settlement and an update of
  a worker: what is retried forever does not fail forever. The retry loop of the
  queue and the polling loop have no limit of attempts, so nothing weaker gives
  delivery. A batch that fails goes back to the front of the queue, so one that
  never succeeds keeps the events behind it waiting.
* A lock that is released again and again is granted to every thread that waits
  (strong fairness of the steps of the affinity cache).
* The initial load of a worker gives up after thirty attempts (`gateway.rs:258-301`)
  and the worker ends; convergence is stated for workers one of whose attempts
  succeeds.
* The circuit recovers when clients keep asking for the route, and a replica
  catches up when gateways keep reporting usage to it: both need traffic.
* Only the part that moves is fair in `MCSync` and `MCGateway`; fairness of a part
  that stands still would allow no behaviour at all. Restarts are off in the
  liveness runs.

## Proofs

Eight `*Proofs` modules prove the components for every value of the constants
that the named `ASSUME` of the component allows: finiteness of the sets that are
counted, natural bounds, and that distinct kinds of names are distinct. TLC
evaluates these assumptions on every run. Each proof goes through an inductive
invariant that is stronger than the property: it says what is in flight between
the two pieces of state that the property compares.

* `SettlementProofs`, for any users, tokens, channels, batches, writers and range
  of the integers: `MemoryFollowsDatabase` (`MemoryMatchesDatabase`),
  `SettlementConserves` (`QuotaConserved`), `AdmissionsWithinQuota`
  (`AdmissionWithinQuota`) and `ChangesAreVersioned` (`VersionedChanges`). The
  invariant `SettlementInv` says what a plan under `write_lock` is (`Plan`): made
  from the rows in memory and one version ahead of them, equal to them outside its
  scope, and with quota and use that add up once its own grants and its spending
  are counted. Conservation stops where a balance saturates (`clamped`), as in the
  code; the bound on admissions does not.
* `ServiceProofs`, credits, for any handlers, users, codes, top-ups and days:
  `QuotaIsGivenOnce` (`GivenOnce`) and `UsedCodesArePaid` (`UsedCodeIsPaid`). The
  invariant is a ledger per item: credits given, handlers that may still give one,
  and the item itself while it can still be used, are together within its limit. It
  is stated for items that were not reverted; a credit in doubt reverts its code and
  leaves the other items as they were.
* `ServiceProofs`, credentials, for any handlers, editors and generations of the
  key: `RefreshTokensSentOnce` (`ReuseOnlyAfterLoss`) and
  `FeedbackDisablesRejected` (`DisablesRejectedOnly`). `CredentialInv` follows a key
  through the handlers: who sends or stores holds the refresh lock; a key about to
  be sent that the provider has used up is one whose successor was lost, and so is
  one in the channel unless a handler is about to replace it; a new key on its way
  to the channel is unused; and the key that feedback observed was rejected.
* `ServiceProofs`, system tasks, for any slots, starters and runners:
  `OneTaskIsActive` (`OneActiveTask`), `RunnerIsAlone` (`OneRunnerWorks`) and
  `TableFollows` (`RowsNeverAhead`). A task in memory only advances from absent to
  pending, running and finished, so every clone of it on its way to the table lags
  behind it; `active_key` keeps the active row unique whichever clone lands last.
  `RunnersAlwaysAdvance` (`RunnersAdvance`) counts the steps a runner has left
  (`StepsAt`): two for each report of progress that is still to come, and one more
  try after a failed save. It rests on `EndedLetGo`: a runner that has finished its
  task in memory never holds it again, so `finish_failed` after a failed save of the
  end finds nothing to finish.
* `ControlProofs`: `ControlRunsServices` shows that a behaviour of `MCControl` is one
  of each of the four services, so `ControlIsTyped` (`ControlTypeOK`) and
  `ControlKeepsPromises` follow from their invariants for every value of the
  constants.
* `GatewayProofs`, routing, for every snapshot, list of groups, seed and set of
  excluded channels: `RoutingInOrder` and `RoutingByWeight`, the two reference
  definitions that `RoutingIsFair` evaluates on small snapshots, and
  `RoutingAlwaysFair` (`RoutingIsFair`), their instance. What the running
  totals compute is shown by a least counterexample (`LeastNat`): < is well founded
  on the naturals, so a set of positions that is not empty has a first one. The
  number of slots of a channel is then counted position by position. The sums are
  not bounded; the code adds u32 weights in a u64, which more than 2^32 mappings
  would be needed to saturate.
* `GatewayProofs`, requests, for any requests, sessions, channels and snapshots:
  `ReservationsReportedOnce` (`ReservationReportedOnce`), `FeedbackIsExact`
  (`BlameIsExact`), `RetriesGoElsewhere` (`RetryGoesElsewhere`), `PinsEarned`
  (`PinsAreEarned`: who is pinned was answered there). `RequestInv` says for each
  stage of the handler what it has reserved, reported, tried and blamed
  (`Accounted`, `Looping`, `Elsewhere`, `Exact`); a retry uses `RoutingInOrder`,
  which says that a route is found whenever a channel is left. `RequestsUseCircuit`
  is a refinement: the request path drives the breaker by steps of `ProxyCircuit`
  only, so that `RequestsKeepProbe` carries the next two results over.
  `PermitsAlwaysFollow` (`PermitsFollowRequests`) says whose permit is out: exactly
  the requests whose call through a proxy is, each for the channel it is on.
  `RequestsAlwaysAdvance` (`RequestsAdvance`) counts the steps to the end of the
  handler (`StepsToEnd`), which every retry makes fewer because the number of
  attempts is limited, whatever the snapshot becomes.
* `GatewayProofs`, breaker, for any routes, calls and threshold: `ProbeIsNeverLost`
  (`HalfOpenHasProbe`) and `OpeningIsEarned` (`OpenIsEarned`). The invariant adds
  that a breaker with threshold zero hands out no permit that counts, since there
  the first failure would open the circuit.
* `UsageIngestProofs`, for every set of events, finite set of handlers, choice of
  faults and number of cleanups. `SettledOnce` (`SettledOncePerRow`) is not
  inductive: a handler that has recorded an event and not settled it yet is not
  counted. `ChargesCovered` adds those handlers (`Owners`): settlements done plus
  handlers that may still settle are at most the rows removed plus the row in the
  store. `Record` adds an owner only together with a new row, `Settle` turns an
  owner into a settlement, `Discard` removes a row together with its only owner,
  `Cleanup` moves a row into the count of removed ones. `SettledRowStays` follows
  from it; `RowsAreOwned` (`RowSettledOrOwned`) and `TypeCorrect` are inductive.
  `AckedIsAccounted` (`AckedAccounted`): when no settlement fails, an acknowledged
  event was charged, or a handler will charge it, or its handler was cut off.
  `NothingIsSwallowed` (`RetryNotSwallowed`): when no handler is cut off either,
  acknowledged usage is never lost. So the faults that `retry_swallowed` needs are
  among a failing settlement, a dropped handler and a restart.
* `PipelineProofs`, queue, for any events, tasks, batch size and limit:
  `WorkersAreEnough` (`WorkersSuffice`) and `EventsAreConserved`
  (`EventsConserved`). Both are inductive with the types, which say that exactly the
  tasks with a request in flight have a batch; the work is in lemmas on what
  concatenating, appending and splitting do to the elements of a sequence without
  repetition.
* `PipelineProofs`, refinements: `PipelineImplementsIngest` (`ImplementsIngest`) for
  any events, tasks, handlers and faults, and `PipelineImplementsBilling`
  (`ImplementsBilling`) when `OnlyStoresFail`: recording, settling and applying may
  fail, and nothing is lost, dropped, restarted or cleaned up. Every step of the
  composition is shown to be a step of the abstract specification or a stutter.
  `Connected` says that a task and the handler that works for it have the same
  batch; `Charged` says what a handler at each of its stages knows about the rows and
  charges of its batch. `PipelineChargesOnce` carries `SettledOncePerRow` and
  `RowSettledOrOwned` of the protocol over to the pipeline, and
  `PipelineLosesNothing` does the same with `AckedAccounted`.
* `AffinityCacheProofs`, for any threads, keys, shards and limits: `CounterIsExact`
  (`CountIsExact`), `CacheIsBounded` (`CapacityBounded`), `CounterNeverWraps` and
  `GetKeepsLive` (`GetKeepsLiveEntries`). The invariant adds who holds which lock,
  that only the holder of `insertion_lock` inserts, that `evict_one` leaves only empty
  shards behind it, that between admission and insertion there is room for one more
  entry, and that the time `get` goes by is not after the clock. `CacheNeverDeadlocks`
  (`WaitsEnd`) adds that every lock is held by a thread at a place where the code
  holds it: who holds the lock of a shard waits for nothing, and who holds
  `insertion_lock` waits for such a thread at most. `CallsAlwaysAdvance`
  (`CallsAdvance`) counts the steps of a call (`StepsLeft`); the walk of `evict_one`
  visits each shard once.
* `SyncProofs`, replicas, for any processes, tables, order of reading and writes:
  `CopiesAreVersioned` (`CopyIsVersioned`), and `ReplicasImplementStore`, that every
  step is a write of `VersionedStore` or a stutter. The invariant adds what a
  refresh has read so far: it agrees with the database table by table while the
  version it read first is still current.
* `SyncProofs`, snapshots, for any publishing handlers, workers, changes and faults:
  `BusEndsCurrent` (`BusIsCurrent`), `WorkersEndCurrent` (`WorkerIsCurrent`) and
  `VersionsNeverGoBack` (`NeverOlder`). The bus compares versions while the
  properties are about contents, so the invariant relates the two: for the last
  change of each store, either it is unannounced, or its handler has still to bump
  the version, or there is a version from which on every snapshot, also one still
  being put together, shows it, and that version is on the bus or a handler carries
  it there. A draft that the bus refuses is older than the bus, so nothing is lost
  with it. Proxies and options may go back on the bus in between, when a draft of
  the same version overtakes another; the handler whose change is then hidden has its bump
  still before it.

Only model-checked: liveness under fairness (`pipeline_live`, `sync_live`,
`gateway_live`), which is out of the prover's reach, as is `ENABLED`. Where it rests
on a measure that decreases or on the order of locks, that half is proved:
`CallsAlwaysAdvance` and `CacheNeverDeadlocks` for the calls of the cache,
`RequestsAlwaysAdvance` for the return of reservations, `RunnersAlwaysAdvance` for
the end of tasks, `ProbeIsNeverLost` for the recovery of a circuit,
`WorkersAreEnough` and `EventsAreConserved` for delivery. What remains is that a step
which can be taken is taken. Every other property of a passing run is proved.

## Not modelled

* The memory backend (a restart loses everything, versions included; a failed
  closure of `mutate` keeps its partial change), the memory copies that serve usage
  queries, cancellation inside a database commit. A commit whose outcome the
  process does not learn is in `ReplicatedManagement` and `Credits`; in `Settlement`
  a commit that fails has not happened.
* Time: token expiry takes effect at the next publication; a code that expires is
  refused like a disabled one.
* Channels with several keys in the control plane, whose management is an unlocked
  read and write of the whole record, like `update_channel`, which is modelled.
  `delete_proxy` checks for users of the proxy and deletes it in a later step.
* The MySQL and PostgreSQL tables of system tasks, and what tasks do. A restart
  leaves running tasks running; `docs/NEW_API_BACKEND_PORT_CN.md:449-450` names the
  missing recovery as future work.
* Authentication, IP rules and the matching of affinity rules in the gateway, and
  the content of bodies. The task that copies a stream does not wait for its client;
  the buffers belong to the HTTP library.
* The queue of reports is in memory and is lost when a gateway stops; the code says
  so and no property can demand more.
* Protocol conversion, import, catalog, probes, sessions, transport, telemetry and
  the frontend: sequential functions of their input, cryptography, or single-store
  writes, without interleavings to check.

## Plan

1. Compose `GatewayRequest` with `Settlement`: what is reserved is settled or
   refunded across the two processes.
2. The memory backend as a parameter of `SnapshotSync`; several keys in
   `ChannelCredential`.
3. The stream converters as functions over event sequences.
4. Proofs: that polling workers and replicas converge, should a prover for
   fairness become available.
