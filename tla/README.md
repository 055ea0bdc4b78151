# Verification of llm-pricing-api

TLA+ models of the service that collects, confirms and serves LLM prices:

* how a price becomes the true one: scrape → diff → reconcile → publish, the
  two-fetch gate with its Redis mirror, the price tables, the review queue;
* how it reaches clients: the event stream, the registration of webhooks, the
  cached read API, its trust metadata and its paging;
* how capability scores follow the benchmark evidence, and what is recommended
  from them;
* who may ask: magic links, API keys, the key cache;
* the lives of the two processes under the platform's restart policy.

## The system

| Part | State | Operations | Hard behaviour |
|---|---|---|---|
| Scrape tasks (`internal/worker`, `cmd/worker`) | asynq queue, one task per source | `runPipeline`: fetch, `EnsureModels`, diff, `Reconcile`, `MarkVerified` | several worker goroutines; retries; a startup task beside the cron task; restarts |
| Diff engine (`internal/diff`) | none | `Diff` | epsilon 1e-12 against columns of ten decimals; zero and missing prices |
| Reconciler (`internal/reconciler`) | `pending` map under a mutex, `pendingLoaded`, Redis hash `reconciler:pending` with a rolling TTL | `Reconcile`, `processSingleSource`, `processMultiSource`, `publish`, `sweepStalePending`, load/persist/delete of pending entries | lock held for the map only; every database and Redis call outside it; errors are logged and skipped |
| Price tables (`migrations`, `reconciler/store.go`) | `prices`, `price_history`, `review_queue` | `PublishPrice`, `FlagDiscrepancy` | two tables that must agree; append-only log; partial unique index |
| Review queue (`internal/review`) | open `Approve` transactions | `Approve`, `Reject` | operators race each other and the worker; the price row is read unlocked |
| Event stream (`reconciler/event.go`, `api/handlers/sse.go`) | Redis sequence, channel, replay buffer, connection counters | `publishEvent`, `StreamChanges` | publish and store without a lock; replay-then-subscribe gap; drifting counters |
| Webhooks (`api/handlers/webhooks.go`) | `webhooks` | create, delete; a fan-out and a delivery task that no binary reaches | cap under an advisory lock |
| Read API (`api/handlers`, `middleware/cache.go`, `timeout.go`, `api/trust.go`) | response cache | models, one model, compare, changes | several queries without a transaction; cached answers; paging while rows arrive |
| Capability scores (`internal/intelligence`, benchmark scrapers, `ingest_benchmark`) | `model_benchmark_scores`, `model_capability_scores` | upsert of evidence, recompute, recommend | overlapping recomputations under an advisory lock; withdrawn evidence; failure between evidence and recompute |
| Sign-in (`internal/auth`, `internal/signup`, `internal/mailer`) | identities, tokens, cooldowns and counters in Redis | request link, verify | two openings of one link; expiry during a lock wait; cooldown taken before the work |
| API keys (`internal/auth`, `internal/signup`, `middleware/auth.go`) | registry, Unkey, key cache | issue, regenerate, verify a key | two stores without a common transaction; staleness after revocation; failures of Unkey that look like refusals |
| Processes (`cmd/api`, `cmd/worker`, `internal/health`, samplers, `railway.json`) | exit codes, pool, sampler goroutines, watchdog | start, probe, drain, close | a shutdown with a budget; a pool that cannot be closed; who restarts whom |
| Rate limits, price scrapers, other read-only handlers, observability, configuration, frontend, MCP server | none that other parts depend on | | not modelled, see below |

What makes each modelled part correct: a price enters the tables only by one
of four rules (first price of a row, confirmed by the gate, agreed by sources,
approved by an operator); the gate never confirms on one sighting, also when it
resumes from its mirror; a write for one column keeps the other; `prices` and `price_history` agree; disagreement
between sources reaches an operator once; a committed change is announced.
A client that reconnects misses an event only for one of a few known reasons; a
key has no more streams and webhooks than its cap; an answer is stale by a
bounded time, its metadata fits its prices, and a walk through the pages is
complete. Scores follow the evidence and never go back to older evidence. A link
opens one session, in its term. An identity has one active key, that key works,
no step of a rotation leaves its holder without one, and a deleted key is refused
once its cache entry is gone, as is the refusal of a key that works. A process that
leaves comes back.

## Modules

| Module | Models |
|---|---|
| `PriceStore` | the tables and the statements on them; rounding of `NUMERIC(20,10)`; the partial unique index |
| `MultiSource` | what `processMultiSource` decides for a group: worst pair, consensus, verdict |
| `Reconciler` | the worker: one action per round trip or critical section, `pc` per worker |
| `ReviewQueue` | `Approve` as an open transaction, `Reject` |
| `Pipeline` | worker and operators over the same tables; all properties |
| `ConsecutiveFetches` | `Pipeline` with a log of what every fetch reported |
| `EventStream` | `publishEvent` call by call, `StreamChanges`, a client that reconnects, the connection slots |
| `Webhooks` | concurrent registrations under their lock, rollback, deletion |
| `PriceViews` | what the read handlers compute from the tables: shown price, trust metadata, change feed, both kinds of paging, as operators |
| `Serving` | writers, four endpoints with each query a step, `RequestTimeout`, the response cache, a client that pages |
| `Capability` | leaderboard scrapes, ingestion, active evidence, aggregation, recomputation under its lock |
| `Recommend` | `GET /v1/recommend` as operators over the table of `Capability` |
| `OneTimeLink` | abstract: what a magic link promises |
| `MagicLink` | request-link and verify, each round trip a step; implements `OneTimeLink` |
| `ApiKeys` | issue-key, regenerate-key, Unkey, `api_keys_registry` and the Auth middleware's cache |
| `Lifecycle` | both processes from start to exit, the watchdog, the platform |
| `MCPipeline`, `MCConsecutive`, `MCStream`, `MCWebhooks`, `MCServing`, `MCCapability`, `MCMagicLink`, `MCApiKeys`, `MCLifecycle` | values for the constants |
| `PipelineProofs` | theorems about `Pipeline`: types; the gate, the tables, the review queue; what the schedule adds |
| `KeyProofs`, `LinkProofs`, `WebhookProofs`, `StreamProofs`, `CapabilityProofs`, `ServingProofs`, `LifecycleProofs` | theorems about `ApiKeys`, `MagicLink`, `Webhooks`, `EventStream`, `Capability`, `Serving`, `Lifecycle` |

`Pipeline` composes `Reconciler` and `ReviewQueue` over `PriceStore`; `Serving`
reads the log that `Pipeline` writes, with the writers reduced to stamp and
commit; `Recommend` reads what `Capability` writes. The others meet only where
one's output is the other's input: a commit of `Pipeline` is an event of
`EventStream`; the session of `MagicLink` lets a request
into `ApiKeys`.

### State and actions against the code

A price is a natural number of the code's epsilon (0 = no price). `prices`,
`history` and `review` are the tables; a snapshot also carries `via` and
`field`, history variables that say which rule wrote it and for which column.
`pending` and `mirror` are the map and its Redis copy, keyed by model, column
and *effective provider* as in the code. `expires` is when Redis drops the
hash: 72 h after the last EXPIRE, which follows every HSET, and with the hash all its
entries. `sightings` and `confirms` count, for the properties only, what the gate saw
and confirmed; `lapsed` notes the keys whose entry was still within its own lifetime when
the hash went, because the EXPIRE after its HSET had not come.

A worker walks through `pc`:

| `pc` | Action | Code |
|---|---|---|
| idle | `Scrape` | `runPipeline` up to `Reconcile`; an error before that changes no price state and the retry is another `Scrape` |
| load, merge | `ReadMirror`, `MergeMirror` | `loadPendingFromRedis`: HGETALL without the lock, merge under it |
| sweep, evict | `Sweep`, `EvictMirror` | `sweepStalePending` under the lock, HDEL after it |
| resolve | `ResolveSources` | `LookupSourceID`; a source that fails is dropped |
| group | `SkipGroup`, `LookupExisting`, `DecideMulti` | the loop over groups, in any order (a Go map) |
| gate | `Gate` | the critical section of `processSingleSource` |
| hset, expire, hdel | `PersistPending`, `RefreshTTL`, `DeletePending` | the mirror, written after the unlock: HSET, EXPIRE of the whole hash, HDEL |
| read, write | `ReadCurrent`, `PublishPrice` | `publish`: unlocked read, completion, zero guard, transaction |
| event | `PublishEvent` | `publishEvent`, as one step; `EventStream` has its separate calls |
| verify | `MarkVerified` | the stamp at the end of `runPipeline` |

`Fault` marks a round trip that fails: the code logs and carries on, and so does
the action; a failed HSET and a failed transaction of `PublishPrice` may have been
carried out all the same, their answer lost. `Tick` lets time pass and, past the
deadline, the hash with it. `Restart` loses `pc`, the locals, `pending` and `loaded`. An
`Approve` is `BeginApprove` (lock the entry, read the price row without a lock)
and `CommitApprove` or `RollbackApprove`: PostgreSQL's READ COMMITTED lets other
commits fall in between.

Abstractions: one row per model in a scrape (a source that lists a slug twice is
covered only as one of the two; both are of one provider, so that they stay a
single-source group); at most one source of a batch fails to resolve at a time; a
stored price differs from a scraped one when the two numbers do, the epsilon being the
unit; `confirmed_at` and `delta_pct` are not kept here
(`Serving` keeps `confirmed_at`, which is taken before the transaction, so that its
order differs from the commit order).

In `ApiKeys` a handler walks through `pc`; a request that changes nothing (an
existing key, a cooldown in force, a failed check) is no step:

| `pc` | Action | Code |
|---|---|---|
| idle | `StartIssue`, `StartRegenerate` | `IssueKey` up to `CreateKey`; `RegenerateKey` up to the cooldown's SET NX, which fails open |
| lookup | `Lookup` | identity check and `GetActiveKey` of `RegenerateKey` |
| create | `CreateKey` | keys.createKey at Unkey |
| insert | `InsertKey` | `InsertKey`, or `RevokeAndInsertKey` as the one transaction it is; the unique index may refuse it |
| undo | `UndoCreate` | best-effort `RevokeKey` of the new key after a failed insert |
| retire | `RetireOld` | best-effort `RevokeKey` of the old key, then the answer with the plaintext |

A caller is `CacheHit`, or `VerifyKey` followed by `CacheAnswer`. `Fault` is a
call that fails without an effect, `Lost` one that takes effect and whose answer
is lost, `Crash` the death of the API process (it counts as a fault). A failed
verification is answered 401 and not cached when it shows (no answer, no JSON, an
`error` object). The code does not look at the HTTP status, so any other failure
decodes as `valid = false` and goes on to `CacheAnswer` like a refusal; `misread`
notes, for the property only, when that happened to a key. Unkey is external: it hands
out fresh ids and refuses a deleted key at once.

The other modules:

| Module | Action | Code |
|---|---|---|
| `EventStream` | `NumberEvent`, `PublishEvent`, `StoreEvent` | `publishEvent`: INCR, PUBLISH, ZADD with trim and TTL |
| | `Connect`, `RefreshOnConnect`, `Reject` | INCR of `sse:conn:{key}`, EXPIRE, the 429 with its DECR |
| | `Replay`, `Write`, `Subscribe`, `Heartbeat` | the stream writer: read the buffer, write, subscribe, the ticker |
| | `WriteFails`, `Disconnect`, `Crash` | the deferred DECR; the client goes; no deferred call runs |
| `Webhooks` | `LockKey`, `Insert`, `CommitHook`, `Rollback`, `DeleteWebhook` | `CreateWebhook`'s transaction with `pg_advisory_xact_lock`; `DeleteWebhook` |
| `Serving` | `StampPrice`, `CommitPrice`, `MarkVerified` | `PublishPrice`'s `confirmed_at`, its commit, the verification stamp |
| | `ReadPriceRows`, `ReadHistory`, `ReadList` | the queries of `/v1/models/:id`, `/v1/compare`; the one of `/v1/changes` and `/v1/models` |
| | `CacheHit`, `StoreAndAnswer`, `HandlerFails` | `Cache`, and a deadline of `RequestTimeout` |
| `Capability` | `Fetch`, `Upsert`, `Ingest`, `Withdraw` | a scrape's selection, each `UpsertBenchmarkScore`, the tool, an operator's deletion |
| | `List`, `Lock`, `Read`, `Commit`, `Fail` | `computeAllCapabilityScores` and the transaction per model |
| `MagicLink` | `StartRequest`, `CheckCooldown`, `UpsertIdentity`, `InsertToken`, `SendMagicLink` | `RequestLink` with `CheckRequestLink` |
| | `StartVerify`, `SelectForUpdate`, `MarkUsed`, `CommitToken`, `MarkEmailVerified`, `SetSessionCookie` | `Verify` with `ConsumeToken` |
| `Lifecycle` | `Start`, `Sigterm`, `Sigkill`, `Connect`, `StartupFails` | the platform; `ConnectWithRetry` |
| | `WorkerActivity`, `WorkerShutdown`, `HealthListenerFails`, `WorkerCloses` | samplers, tasks and pings; `run()` from the signal to its defers |
| | `Probe`, `TripExits`, `ListenFails`, `ApiStops`, `ApiCloses` | `runWatchdog`, `main`'s select, the deferred `db.Close` |

Abstractions. `EventStream` follows one API key and one client; an event is its id.
In `Serving` answers of one endpoint do not influence those of another, so each
behaviour asks for one (`asked`); `/v1/models` reads the metadata of its rows in a
second query that paging does not look at. In `Capability` a leaderboard is a set of
boards it may publish; confidence and dates are small numbers; `rev` and `basis` are
history variables. `Recommend` takes the pool as one query may answer it, scores in
units of `1 / Grain`, and leaves out warnings, rationales and citations. A benchmark
entry whose model lookup fails is skipped by the scrape, and is here an entry that the
board does not list. In `Lifecycle` a sampler's sample, a task and a ping
are one activity each.

Operators whose comment begins with "Mutant:" are plausible bugs, each placed
before the definition it would replace. No specification uses them: replacing
the definition by the mutant makes TLC refute the property it belongs to.

## Runs

| Run | Instance | What it shows |
|---|---|---|
| `pipeline` | 2 workers, openai and openrouter (same provider), tasks of one source may overlap, 3 fetches; 1.8 M states | the gate pays two sightings per confirmation |
| `schedule` | the same without overlap, weakly fair workers, both columns move; 155 k states | a single scrape overwrites nothing; the unchanged column survives; commits are announced, in order |
| `restart` | 1 worker, 4 fetches, 1 restart, 1 fault, clock past the TTL, a source that sometimes has no output price; 3.9 M states | no zero price; `GateInv`, and so every confirmed price was sighted twice; two sightings per confirmation but for one per load; between tasks the mirror is the map, but for what is stale |
| `mirror` | 2 workers, openai and litellm (keys of their own), no overlap, 3 fetches, 1 restart, clock past the TTL, no faults; 0.9 M states | the hash outlives its entries; the mirror keeps no sighting that the gate has used up |
| `review` | 3 independent sources in one batch, 2 fetches, operators; 0.8 M states | disagreement is flagged whichever pair it is between; an entry is decided once; `prices` shows the latest snapshot |
| `stream` | 2 publishers, 2 events, 2 connections of a key with a cap of 1, buffer and channel of 1, 1 fault or crash | nothing twice on a connection; exactly which events a reconnecting client may miss; the cap |
| `webhooks` | 2 keys with a cap of 2, 3 requests, 4 ids, 2 faults; 1107 states | the cap |
| `serving` | 2 models, 2 sources, 2 price pairs, 2 writers, 1 walker and 1 other client, pages of 1 | bounded staleness; metadata not older than the prices; "medium" is fresh; both walks complete |
| `capability` | 1 model, 2 leaderboards and the tool, 3 dimensions, 2 tasks at once, 1 change, 1 fault; 198 k states | scores are what their evidence supports; no return to older evidence; evidence reaches the scores; sound recommendations |
| `signup` | 2 addresses, one of them disposable, 2 request-link and 2 verify calls at once, 2 tokens, 1 failure | the one-time link is implemented; no link is burnt; a suppressed mail was sent; mails are spaced |
| `api_keys` | 1 identity, 2 concurrent requests, 3 keys, 1 caller, 1 fault or crash, 1 lost answer, clock to 3; 3.2 M states | one active key; it works; no key live behind the registry's back; a rotation never leaves the holder without a key; the staleness of the cache is bounded, and so is the refusal of a working key |
| `lifecycle` | both processes, 2 connection attempts, threshold 2, 1 retry, 1 deployment, 2 faults | the worker comes back; a leaked pool is cured; a sampler that runs when the pool closes means a spent budget or an error exit |

Configurations that reproduce a counterexample and belong to the findings in
`PROJECT.json` (`tlc -config <cfg> <module>`):

| Configuration | Module | Violated | Shows |
|---|---|---|---|
| `MCConsecutive.cfg` | `MCConsecutive` | `ConfirmedByConsecutiveFetches` | X, stored value, X confirms X |
| `MCLookupFault.cfg` | `MCPipeline` | `SingleScrapeCannotOverwrite` | a failed read in `publish` lets one scrape overwrite the other column |
| `MCUnreviewed.cfg` | `MCPipeline` | `StoredDisagreementReviewed` | with one task per source, as deployed, disagreement is never flagged |
| `MCApproveZero.cfg` | `MCPipeline` | `NoZeroPrice` | approving a source without a row writes a zero |
| `MCApproveRace.cfg` | `MCPipeline` | `UnchangedColumnPreserved` | concurrent approvals lose a column |
| `MCRounding.cfg` | `MCPipeline` | `WritesChangeTheColumn` | a price finer than the column is confirmed again and again |
| `MCLockout.cfg` | `MCStream` | `LeakIsTemporary` | a leaked slot is refreshed by the very connections it refuses |
| `MCStaleMirror.cfg` | `MCPipeline` | `StaleEntriesSwept` | a stale entry that a restart finds in the mirror only is never swept |
| `MCChanges.cfg` | `MCServing` | `EveryChangeListed` | the first change of a model inside the window of `/v1/changes` is not listed |

### Bounds

Price pipeline. `MaxFetches`: a confirmation takes a first price and two sightings,
so three fetches reach it and the fourth (`restart`) adds a contradiction or an
expiry in between. `MaxClock = PendingTTL + 1` lets an entry just expire. One model
is enough for the gate: keys of different models never meet. Two workers are enough
for a race on one key; three sources are the fewest for which the worst pair is not
the only one. Deadlock is not checked: the fetches are bounded and a worker may
simply wait for the next task. `review` gives `Reconcile` a joint batch, as its unit
tests do; the deployed worker never does (`MCUnreviewed.cfg`), so that no review
entries are opened and what is shown of `Approve` and `Reject` waits for a caller.
In `mirror` the two sources share no key: with three fetches one task can persist,
evict or confirm a key between any two calls of the other, and the restart reads what
they left. States are told apart by what the mirror depends on (`MirrorView`): the log, the
events and the history variables are written only, and nothing checked there reads them. `restart` has a single worker, so that `MirrorMatchesPending` speaks of the
moments between tasks.

`Overlap = FALSE` is an assumption about the schedule, not something the code
enforces: the cron entries of a source are at least six hours apart and the
startup task is unique for a day, but a retry, or the startup task, may run
beside a cron task. `SingleScrapeCannotOverwrite`, `UnchangedColumnPreserved` and
`AnnouncedInCommitOrder` rest on it; TLC refutes them with overlap. The gate's
own properties do not.

`stream`: two events are the fewest that can be stored in the other order or push
each other out of a buffer of one; two connections are the client's old and new one;
`ConnTTL = 2` with a beat of at most one tick keeps the key alive, as five minutes and the heartbeat do.
`MaxBeat < ConnTTL` is an assumption about the time a heartbeat and a blocked write
take together.

`webhooks`: a cap of two is exceeded by a third request, after a deletion or a rollback
as well. `serving`: two models are two pages; `MaxRows` of 3 or 4 leaves two commits
to fall between the pages or the queries; `MaxClock` reaches past `TTL + Timeout` where
prices are asked for, and gives the feed two stamps, for two changes on two pages.
`StaleAfter = 0` stands for 24 hours against which a tick is long, the harder case.

`capability`: the lock and the recomputation are per model, so one model is enough;
its evidence comes from three sources over a matrix of weights in which dimensions
share benchmarks. One change and one fault suffice for evidence that moves between a
read and its commit; `MaxActive = 2` is the race. The recommended models are chosen so
that each rule decides somewhere: one dearer and no better, one cheaper with another
strength, one without scores.

`signup`: `Hour = 3` and two requests per hour reach the limit; `MagicLinkTTL = 2`
lets a verify call wait for the row past the expiry. `MaxDelay` bounds a request-link
call, as the mail client's timeout does.

In `api_keys` three keys are an issue, a rotation and a second request that loses
the race; two requests are the fewest that race. `UnkeyTTL = 2` is the least for
which renewing an entry differs from keeping it, and `MaxClock = 3` reaches the
end of an entry that was cached one tick late. Identities share no state, and are
interchangeable, so one is enough. `MaxDelay` bounds the time between Unkey's
answer and its caching: the code has no such limit of its own, but the HTTP client
times out after 8 s and Redis calls time out as well. The bound of
`StaleAcceptanceBounded` and `LockoutBounded` is therefore `UnkeyTTL` plus that delay,
not 30 s sharp.

`lifecycle`: a threshold of two tells consecutive failures from a single one, and two
faults combine an outage with a leak or a failed listener. Deadlock is not checked
there: a process that used up its retries stays down.

### Fairness

* `Pipeline!FairSpec` makes each worker weakly fair: asynq runs a task it has started
  to its end, and the deadline on the task's context turns a stuck call into a failed
  one, after which the code carries on. Nothing is assumed about new scrapes or
  operators. `CommitsAnnounced` is checked without crashes or failed Redis calls:
  either loses an event in the code.
* `Capability`: a task that runs goes on (weak); the daily recompute is queued again
  and again by its cron entry, and PostgreSQL queues the waiters of an advisory lock,
  so that it gets its turn among other tasks that keep taking the lock (strong).
  Scrapes, ingestion and withdrawals need never happen.
* `Lifecycle`: starts, connection attempts, timers, probes and kills are weakly fair
  (they are timers or the platform's), and samples, tasks and pings end (a timeout, a
  cancelled context, or TCP's own). Nothing is assumed of faults, deployments or the
  database, so an outage may last for ever; `ComesBack` then ends in used-up retries.
* `EventStream!FairSpec` is used by `MCLockout.cfg` only: the steps of a handler, time,
  a client that keeps trying, and (strong) TCP giving up on a peer that is gone.

### Refinement

`MagicLink` defines `Link == INSTANCE OneTimeLink WITH ...`: a link is a token, its
owner the address of its row, spent when `used_at` is set, late when that is not before
`expires_at`, opened by the cookies handed out for it. `LinkIsOneTime` is
`Link!LinkSpec`: whatever requests interleave, fail, lose an answer or wait for the
row lock, a token is spent once, in its term, and opens at most one session, of its
own address.

### What the properties leave out, because the code does

`LiveKeysAccounted`, `LinkNotBurnt`, `SuppressedWasMailed` and `MailsSpaced` are
claimed while no call has failed, `ActiveKeyLive` and `HolderKeepsAKey` while no answer
was lost: a failure in the wrong place really leaves a key nobody owns, burns a link or
suppresses a mail that was not sent. `LockoutBounded` does not say that a working key is
never refused, as one failed call of Unkey may have the cache refuse it for a while.
`MirrorMatchesPending`, `MirrorKeepsNoGhost` and `HashOutlivesItsEntries` are claimed
while no call fails, the last in one life of the worker: a crash between HSET and EXPIRE
leaves the new entry under the old deadline. `MirrorKeepsNoGhost` leaves out keys that
two sources share, whose tasks write the mirror in either order; an entry that comes back
that way costs at most the one sighting per restart that `TwoSightingsPerConfirmation`
allows. None of them says that an expired entry does not confirm: the code looks at the age
of an entry in the sweep only, so that one expiring between a task's sweep and its gate
does. `SingleScrapeCannotOverwrite` and `UnchangedColumnPreserved` leave out overlapping
tasks and failed reads (`MCLookupFault.cfg`). `PoolClosesQuiet` leaves out the samplers
after an error exit, where nothing waits for them. `OnlyExcusedMissed` lists the events the stream
loses by design. `CursorWalkComplete` excludes changes that share a `confirmed_at`;
`OffsetWalkComplete` excludes cached pages and stamps that go backward. `CapHolds`
excludes a key that expires before a stream's first heartbeat. `WedgeIsCured`
excludes a listener that failed: the API then leaves with exit code 0 and stays down.
`RecommendationSound` compares models known by the same dimensions only.

## Proofs

All theorems are about the specification the runs check, for every value of the
constants: any number of workers, sources, models, clients, keys, requests, faults
and restarts; those about the schedule name a hypothesis as well. Assumed of the constants, and evaluated by TLC in every run:

| Assumption | Says |
|---|---|
| `StoreAssumption`, `ReconcilerAssumption` | models and sources exist, prices and bounds are natural numbers, `Scale > 0`; finitely many sources, whose names are unique and sorted by `Rank` |
| `KeysAssumption`, `WebhooksAssumption` | natural bounds and lifetimes, at least one identity, finitely many webhooks |
| `LinkAssumption` | natural bounds and lifetimes; a request-link call takes no longer than the resend cooldown (10 s of timeouts against 60 s) |
| `CapabilityAssumption` | the ingested rows are of known models; `None` is no task |
| `StreamAssumption` | natural bounds, `MaxBeat < ConnTTL` (above) |
| `ServingAssumption` | finitely many models, numbered without ties by `Rank`; natural lifetimes and bounds |
| `LifecycleAssumption` | natural bounds; at least one connection attempt and a positive threshold |

Each safety theorem follows the same plan: an invariant that is inductive, one lemma
per action, and the property as a consequence. What the invariants add to the
properties is the point of the proofs:

**The gate** (`PipelineProofs`). `TypeCorrect` gives the types, restarts included.

* `OnlySightedHeld`: `SpecRestart => []GateInv`. That a confirmed price was sighted twice,
  a conjunct of `GateInv`, is not inductive: a worker about to write says nothing about
  the past. `GateInv` adds what carries it: whatever holds an entry (map, mirror, a
  worker's copy of either) holds a value that was sighted; a worker past the gate with
  a confirmed value carries one sighted twice into the row it will write. Sightings
  never decrease, so each part survives the steps of the others. A stale mirror entry
  that comes back after a restart is covered: it was sighted.
* `SightingsCountedOnce`: `SpecRestart => []TwoSightingsPerConfirmation`, with failed calls
  and restarts. The account of a key (`AccountInv`) is in balance but for the `Credit`
  that loads have drawn: an entry stands for one sighting that is paid for and not used, a
  load puts back at most one entry per key, and there is one load per life. The first life
  has nothing to load unless a call failed before (`LoadInv`: until then map, mirror and the workers' snapshots of it are empty), and what a later life has
  not drawn yet is still `Owed`.
* `RowsShowTheLog`: `WritePrice` is the only statement on either table; a write shows its
  own snapshot and leaves the rows of others alone.
* `RollingTTL`: `SpecRestart => []HashOutlivesItsEntries`. Every entry of the hash was
  written no later than now (`SeenInv`), so each EXPIRE, whichever task sends it, covers
  all of them.
* `EntriesDecidedOnce`: the lock of an open `Approve` keeps its entry pending and the
  partial unique index keeps one entry open per column (`OneOpenPerColumn`).
* `DisagreementIsFlagged`: `Spec => DisagreementFlagged`. A group has one diff per source
  (`DiffsInv`), so it is finite, and the pair with the fewest wider pairs has none: a
  widest pair exists (`WidestExists`, `WorstExists`) without an induction over the group.
  Comparing fractions by cross multiplication is transitive (`Fractions`), so the widest
  pair exceeds 5% whenever any pair does (`DisagreementFlags`). The theorem is about one
  life of the worker: a restart abandons the groups of its tasks.

**The schedule** (`PipelineProofs`). Some properties hold because of how the worker is
deployed and not for every value of the constants, and their theorems name the
hypothesis they need:

| Hypothesis | Says | Where it comes from | Without it |
|---|---|---|---|
| `TasksApart` | no two running tasks share a source | cron entries hours apart | two tasks read one row and overwrite each other's column; announcements swap; HSET and HDEL of a key swap |
| `OneSourceTasks` | a batch has one source | `runPipeline` calls `Reconcile` with its own source | flagged pairs, and approvals that write a zero (`MCApproveZero.cfg`) or lose a column (`MCApproveRace.cfg`) |
| `PricesKeepDigits` | no quoted price is rounded to zero by its column | prices are far above 5e-11 | the zero guard runs before `NUMERIC(20,10)` rounds, so that a zero is stored |

All three are satisfied by instances that TLC runs: `schedule` is one of all three,
`mirror` of the first.

* `InCommitOrder`: `TasksApart => (SpecRestart => []AnnouncedInCommitOrder)`. `EventInv`
  says of a task that has committed and not announced yet that its snapshot is newer than
  any announced one of the row; another task cannot commit to the row in between, as it
  would have to list the source (`TaskInv`: a diff and the row being written are of a
  listed pair; `ApartInv`: running tasks list no common source).
* `NoZeroWritten` (`OneSourceTasks`, `PricesKeepDigits`): `PositiveInv` follows a price
  from the row it was read from to the row it is written to. Rounding is idempotent
  (`StoredTwice`), so that the column that `publish` completes from the table is written
  back as it was. With one source in a batch nothing is flagged and no approval is open
  (`QueueStaysEmpty`).
* `OtherColumnKept`, `NoiseKeptOut` (the first three hypotheses, and while no round trip
  has failed, as `MCLookupFault.cfg` shows what a failed read does): `ColumnInv` says that
  the row a task has read without a lock is still the row of the table when it writes it,
  and that a "first price" is one of a pair that still has no row; `LogInv` carries both
  over to the log.
* `MirrorWithoutGhosts`: `TasksApart => (SpecRestart => []MirrorKeepsNoGhost)`. Tasks that
  share no source share no key that has one source only (`OneDecides`), so that between
  a task's decision and its HSET or HDEL no other decides about the key. `GhostFree` adds that
  the entry to be written is still the one in the map, unless it has become stale, and
  that before the first merge the map is empty and a snapshot on its way into it shows
  what is live in the mirror. An entry that goes stale drops out of the claim, so that
  sweeps and the expiry of the hash can only help.

**Keys** (`KeyProofs`). `ActiveKeyLive` is not inductive: a request that is about to
delete a key must be known not to hold an active one. `RequestsOwnTheirKeys` says so: a
key to be inserted is live, unregistered and held by one request, a key to be undone is
unregistered, a key to be retired is revoked, and the old key of a request is a
registered key of its owner. With a lost answer of the insert the code itself breaks
`ActiveKeyLive` (the handler deletes the key it has just registered), so the property
says `lost = 0`. `KeysSafe`, `SingleActiveKey`, `NoStrayKey` and `RotationKeepsAKey`
follow. `CacheInvariant` adds the callers: an answer on its way into the cache was true
when Unkey gave it, no longer than `MaxDelay` ago, and an entry expires within its
lifetime of being stored; hence `RevokedKeysRefused`. The same
bound from the other side: an entry that calls a live key invalid goes back to a failed
call that was taken for a refusal, and no hit renews it (`LockoutEnds`).

**Links** (`LinkProofs`). `LinkRefinement` is the refinement `Spec => Link!LinkSpec`,
action by action: most steps stutter, the commit of `ConsumeToken` spends the link,
`SetSessionCookie` opens it. It needs `LinkInv`: a row that is being updated is locked by
one verify call, a call past the commit is the only one that spent its token, and it has
not opened the session yet. `NoLinkBurnt` reads the same invariant the other way round.
`CooldownInvariant` is about time, while no call has failed: a request that took the
cooldown of its address finds no mail nearer than the property allows (`HolderInv`), two
requests hold it at once only if a call may outlast it (`RivalInv`), it outlasts the last
mail (`OutlastInv`), and it was taken for one (`TakenInv`). `MailsStaySpaced` and
`SuppressionIsHonest` follow.

**Webhooks** (`WebhookProofs`). The cap is not inductive, as an INSERT counts committed
rows only. `CapInv` adds that an open transaction holds the lock of its key and that the
room it found is still there: another transaction of the key cannot be open, other keys'
commits and deletions only shrink the set that is counted (`CapSafe`).

**Stream** (`StreamProofs`). `StreamInvariant` relates what a connection was sent, its
queue, the buffer and the numbers handed out: ids are numbered before they are published
and published before they are stored, so an event that a subscribed connection still has
to receive over the channel is not in the list it replayed (`NoDuplicates`). `MissedInv`
follows each published event until it is seen, queued or excused (`NothingElseMissed`).
For the slots the counter is compared with the streams that hold one, and `BeatInv`
bounds the time since the last EXPIRE, so that a held counter does not run out
(`SlotsNotOversold`).

**Scores** (`CapabilityProofs`). `AggregatorInv`: a task that has read holds the lock of
its model, and nobody else's commit lies between its read and its own; what it computed
is what the evidence supported at the revision it carries. Hence `ScoresExact` and
`NeverStale`.

**Answers** (`ServingProofs`). `AnswerInvariant`: the log only grows and stamps only move
forward, so the rows and stamps a handler holds between its queries stay true of the
tables; the metadata read later covers every row read earlier. A request is younger than
`RequestTimeout`, an entry is within its lifetime, and that lifetime began within the
timeout of the request that stored it. `AnswersNotStale`, `MetaCoversPrices` and
`MediumMeansFresh` are arithmetic on that.

**Walks** (`ServingProofs`). A page may have been read long before the walker takes it, as
it may come from the cache; `WalksFollowLog` says that it is one that the log could have
been answered with when it had the page's `base` rows, and the log of that time is a prefix
of the present one. `PageFacts` is about one page of the feed: all candidates, or a full
page and a cursor that nothing left out is confirmed after.

* `CursorWalkMissesNone`: `Spec => []CursorWalkComplete`. `FeedWalkInv` is the property
  for the part of the feed behind the cursor, whether the walk is over or not: what the
  walk holds lies there (hence nothing twice), and everything stable and untied that lies
  there is held. The walk's `base`, the oldest of its pages, only moves back; that makes
  fewer changes stable and more of them recent, so that neither a commit nor an old page
  breaks it. The property first asked for uniqueness of the stamp among the changes listed
  at the end, and its proof failed for a reason: a late commit can delist a change with the
  same stamp after a page was cut between the two. It now asks for uniqueness among all
  that were listed since `base`.
* `OffsetWalkMissesNone`: `Spec => []OffsetWalkComplete`. A model that the walk has not met
  and that was not published again has at least `(page - 1) * PageSize` models before it
  (`PageWalkInv`), in the present list and in the one that the page in flight was read
  from. A commit that is not stamped before its predecessor only moves its own model up
  (`AboveGrows`), and a model that is not on the page must then stand behind it.

**Processes** (`LifecycleProofs`). `LifecycleTypes`, and `ShutdownQuiet`: `QuietInv` says
which samplers are stopped in each phase of the worker's shutdown, and that nothing of a
stopped sampler runs; on every way to `db.Close` the stop functions were called or
deferred, and only the graceful way within its budget has waited for the samplers
(`PoolClosesQuiet`).

Every invariant and every safety property of a step that a run checks is proved, but for
two. Model-checked only, the first two because the prover does not reach them:

* liveness under fairness (`CommitsAnnounced`, `EvidenceReflected`, `ComesBack`,
  `WedgeIsCured`);
* `RecommendationSound`: the composite score is a sum over a set, a recursive definition,
  and that a sum of larger terms is larger takes an induction over that set;
* `MirrorMatchesPending`: with several tasks at once, as deployed, the map and the mirror
  differ in more ways than it allows; `MirrorWithoutGhosts` is what is proved instead.

## Not modelled, and the plan

Not modelled, and why:

* rate limits: a daily counter per key against a limit of a million and a library
  limiter per IP, which share no state with anything else (the sign-up limit is in
  `MagicLink`);
* price scrapers: stateless parsing of third-party pages; their output is `Quotes`;
* `ask`, `context`, `discovery`, `history`, `providers`, `aliases`: keyword matching,
  text and static documents over single queries;
* metrics, tracing, logging, configuration, the Redis client; frontend, MCP server,
  monitoring;
* the fan-out to webhooks and the delivery task: no binary of this commit calls
  `SetAsynqClient`, so neither is reached;
* inside the modelled parts: text filters, JSON, rationales, cookie and webhook
  signatures, encryption of webhook secrets.

Next: the separate calls of `publishEvent` and the asynq retries of a failed scrape inside
`Pipeline`; change velocity and age in the trust metadata; a second endpoint in one
behaviour of `Serving`.
