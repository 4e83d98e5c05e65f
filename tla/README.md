# Verification of the distributed API gateway

TLA+ models of the gateway, TLC runs on small instances, and TLAPS proofs. The
models are translated from the Go code, the Lua script and the SQL in this
repository; `PROJECT.json` maps each definition to its lines.

    cd tla
    tlc -workers 4 -config UsagePipeline.cfg MCUsagePipeline
    tlapm UsagePipelineProofs.tla

## The system

| part | state | operations | interacts with |
|---|---|---|---|
| handler chain, `internal/gateway/handler.go` | per request: response writer, recorded status, captured principal | requestID, instrument, recoverPanic, authenticate, rateLimit, route, proxy | PostgreSQL, Redis, upstreams, metrics, usage pipeline |
| rate limiter, `internal/ratelimit/redis.go` | one Redis hash with an expiry per key and route | Allow (Lua script) | Redis clock, handler |
| usage pipeline, `internal/usage/pipeline.go` | bounded channel, closed flag, worker's batch, timer, attempt | Enqueue, Close, run, persist | `internal/store/usage.go`, metrics, main |
| process, `cmd/gateway/main.go` | stage of main, server, contexts | start, serve, signal, Shutdown, Close, exit | all of the above |
| readiness, `handler.ready` | per probe: dependencies asked so far | GET /health/ready | PostgreSQL, Redis, the server's shutdown |
| configuration, `internal/config/config.go` and the env helpers of gateway-admin | none | Load, env, envInt, envDuration | every constructor |
| metrics, `internal/metrics/metrics.go` | counters and gauges | Begin and its closing function, Record*, scrape | handler, pipeline |
| migrations, `internal/store/postgres.go` | `schema_migrations`, the schema, an advisory lock | Migrate, applyMigration | several gateway-admin processes |
| policy store, `internal/store/postgres.go` | plans, clients, keys, route quotas | lookups and upserts | handler, gateway-admin |
| gateway-admin, `cmd/gateway-admin` | progress of a bootstrap | seven commands | policy store, migrations |
| load generator, `cmd/loadgen`, `internal/benchmark` | workers, samples, its own clock | warm-up, measurement, verify, statistics | gateways and, through them, one bucket |
| mock services, C++ client, benchreport, scripts | little or none | | not modelled, see below |

What is hard to test in it: Enqueue against Close against the worker's select;
commits whose answer is lost and the retries that follow; deadlines that cancel
storage; key expiry against refill and a clock that goes back; responses whose
header is written twice; scrapes and revocations in the middle of requests;
migrators and bootstraps that run side by side or die between statements; a
policy or a pepper that changes under a live bucket or key; a verdict on the
limiter from outside, by another clock. The full list, with lines, is under `hazards` in `PROJECT.json`.

## Modules

| module | models | main properties |
|---|---|---|
| `UsageLedger` | what the pipeline promises: each event offered is pending, kept or dropped | (abstract) |
| `UsagePipeline` | Enqueue, Close, run, persist, PersistUsage, PersistUsageDeadLetters, usage metrics | NoSendOnClosed, EveryEventCountedOnce, NoSilentLoss, HourlyMatchesEvents, AcknowledgedIsStored, StoppedGaugeIsZero, ImplementsLedger, three liveness properties |
| `RateLimiter` | the Lua bucket under changing policies, Redis expiry and clock, the Retry-After header | WithinQuota, RetryIsExact, RetryAfterIsEnough, ResetIsExact |
| `LoadGenerator` | run, request and verify of the load generator, composed with `RateLimiter` (by EXTENDS) | BoundIsSound, VerdictIsSound, RunEnds |
| `LatencySummary` | sorting and the percentiles of a finished run | PercentilesAreNearestRank |
| `RequestLife` | what the handler chain promises: a request offers at most one usage event, before its handler returns | (abstract) |
| `GatewayHandler` | the middleware chain for concurrent requests, statusRecorder, request metrics | ProxiedOnlyIfGranted, RevocationIsImmediate, UsageIsExact, CountersAgree, ScrapeIsConsistent, FailureStatuses, HeadersMatchDecision, RecordedStatusIsSent |
| `GatewayProcess` | main composed with `UsageLedger` and `RequestLife` (by INSTANCE) | NoLateEvent, ClosedExitSettles, ShutdownEnds |
| `Settings` | how the two programs read their environment, what each constructor accepts, retryDelay (operators only) | |
| `GatewayServer` | `GatewayProcess` with its start component by component and the readiness endpoint | ConstructorsAgree, RetryDelayIsCapped, ReadyIsWitnessed, ProbeEnds |
| `Migrations` | Migrate run by several processes | AppliedOnceInOrder, DoneMeansMigrated, MigrateEnds |
| `KeyStore` | policy tables and the admin commands, with the peppers of gateway and gateway-admin | PolicyIsDefined, BootstrapGivesQuota, BootstrapGivesKey, RevocationLasts |
| `*Proofs` | theorems about the module they are named after | |
| `MC*` | constants and symmetry sets for TLC | |

Definitions ending in `_Bug` are wrong variants of the definition below them:
putting one in its place makes the property named in `PROJECT.json` fail.

### State and steps

`UsagePipeline` takes a step wherever another goroutine could see a difference: a
lock, a channel operation, an atomic load or store, a call to the store. `pc[e]`
is the position of the Enqueue call for event `e`, `closer[c]` that of a Close
call, `worker` that of run and persist. Reading `len(p.queue)` and storing it in
the gauge are two steps. A store call succeeds, fails, or is applied and fails to
say so. `stored`, `hourly` and `dead` are the three tables.

`RateLimiter` runs the script in one step, as Redis does, in integer microtokens.
`Tick` and `StepBack` move the Redis clock; `OpenWindow` resets the counters of
an observer, so that a property of "the window" is one of every window. `AllowUnder`
is a script under another policy, for a request that was authenticated before an
override changed or after; it ends the window, since a quota is one policy's.

`LoadGenerator` has one entry of `sample` per request, from "queued" to what the
worker recorded. Its clock has `Grain` units in a millisecond of Redis, so that the
measured window may begin and end between two ticks. `Stray` runs a script whose
reply nobody uses. The bound holds for rates of which a millisecond refills at most
what 0.999999 rounds up (`RateAssumption`: 1000 requests a second in the code's
units); above that, verify could fail a correct bucket.

`GatewayHandler` gives every request its own program counter and writer.
`WriteHeader` is statusRecorder's, `NetWriteHeader` the one of net/http below it.
`trail` records what happened to a request; `barred` holds the requests whose key
was revoked when they began and has not been restored since. The code nests
recoverPanic inside instrument (handler.go:99-104), and so does the model; the
comment at handler.go:62 and docs/architecture.md list the two the other way round.
A key header is a key of the store, another text, or blank; `ServiceAuthenticate`
asks the store only for the first two. `Validate` is the part of Event.Validate that
the handler's own data decides.

`GatewayProcess` sees the pipeline only as a ledger and the handler chain only as the
life of each request. That this is sound are the theorems `PipelineImplementsLedger`
and `HandlerImplementsLife`. `SkipUsage` is a request for which no event ID could be
drawn. http.Server.Shutdown is modelled from its
use: it closes the listeners, looks for active requests, then waits for them or
for its context. `GatewayServer` replaces its one-step start by Load, Open,
NewService, NewPipeline and NewHandler on an environment chosen from
`Environments`, and turns some requests into readiness probes, which the server
accepts and Shutdown waits for like any other. `seenUp` is a history variable.

`Migrations` has a transaction's writes appear at its commit, and a commit whose
answer is lost may or may not have happened. `KeyStore` has one step per SQL
statement; bootstrap is the only command of several. A digest is the pepper it was
made with; `Rotate` is an operator who changes API_KEY_PEPPER between commands and
restarts the gateway.

## Runs

| run | instance | shows |
|---|---|---|
| `UsagePipeline` | 3 valid and 1 invalid event, queue 2, batch 2, 2 attempts, 1 closer | safety and refinement; a full queue, a retried, a dead-lettered and a cancelled batch all occur |
| `UsagePipelineLive` | 2 events, 2 closers, queue 2, batch 2, 2 attempts | CloseReturns, EnqueueReturns, EventsAreFlushed |
| `RateLimiter` | rate 2, burst 2, two other policies, 6 units a token, 3 ms a second, clock to 14 | the clock passes the time to live (9 ms) of a key, so expiry, refill, denial and a change of policy on a live bucket all occur |
| `LoadGenerator` | 1 warm-up and 3 measured requests, 2 workers, rate 1, burst 1, a clock of half milliseconds; latency lists of 1 to 5 samples with ties and of 1 to 101 distinct ones | all its properties; grants before, across and after a tick, denials, lost replies and transport errors occur, and the lists pass every point up to 101 where p95 and p99 move to another sample |
| `GatewayHandler` | 2 requests, 1 key and the two other headers, 3 paths, statuses 200 and 404 | all handler properties |
| `GatewayServer` | 3 API requests and 1 probe, ledger limit 2, batch 2, environments with a value on each side of every check | the properties of `GatewayProcess` and `GatewayServer`, with more requests than the ledger holds |
| `Migrations` | 3 migrators, 3 files | safety and MigrateEnds; one migrator may stop at each of two files while a third goes on |
| `KeyStore` | 2 bootstraps, 1 other key, 2 clients, 2 prefixes, 3 peppers | other commands and changes of pepper interleave with repeated and concurrent bootstraps |

Three events are enough to have one in the queue, one in a batch and one being
sent; two concurrent requests are enough for the pairwise races of the handler,
which shares only counters and keys. Symmetry is used only where no liveness is checked.

Four runs are expected to fail. They state what a document or comment says and
show how the code departs from it:

- `UsagePipelineGauge`: the queue-depth gauge can keep a stale value while idle.
- `GatewayHandlerInterim`: statusRecorder takes a forwarded 1xx for the final
  status, so the upstream's real status reaches neither client nor metrics.
- `GatewayProcessTimeout`: main exits on a Shutdown timeout without Close, leaving
  accepted events neither stored nor counted.
- `KeyStorePrefix`: overrides longer than the normalized route never apply.

BootstrapGivesQuota has a condition worth knowing: there is a single development
client. EnsureClient looks before it inserts, so two bootstraps at once can create
two; if the first then stops after storing the key, the second leaves the key
where it is and sets the quota on its own client.

Two more departures are described here and excluded or allowed by the properties:

- An event stored by a commit whose answer was lost can be reported as dropped when
  Close's deadline cancels the retry; the comment at pipeline.go:116 speaks of the
  "unpersisted event count". NoSilentLoss only says that no loss goes uncounted.
- The gateway trims API_KEY_PEPPER (config.go:101), gateway-admin does not
  (gateway-admin/main.go:190), though docs/api-key-operations.md:3 says it uses the
  same one. With blanks around the value every key that gateway-admin stores is
  refused by the gateway. BootstrapGivesKey therefore asks for a value without them.

### Fairness

`UsagePipeline!Fairness` asks that a runnable goroutine is scheduled, that select
passes over no ready case for ever (Go chooses at random), that the timer fires
and deadlines pass, and that a store call returns once its context is cancelled
(pgx does). It asks neither that the store answers otherwise nor that requests
arrive: EventsAreFlushed and EnqueueReturns state these as hypotheses of their
own. `GatewayProcess` asks that main runs, which includes the expiry of
its two timeouts, and that a cancelled worker stops; not that requests or
storage finish. `GatewayServer` asks the same, and that the start and each probe
go on, since store.Open and every ping have a timeout. `LoadGenerator` asks that
workers run and that a request ends by its timeout (http.Client honours the context);
nothing of the gateways. `Migrations` asks strong fairness of each migrator's steps, since
PostgreSQL grants the advisory lock in the order of arrival.

## Proofs

The theorems of the eight proof modules hold for every value of the constants that
satisfies the named assumptions: those of `NewPipeline` and `config.Load` (positive capacity,
batch and attempts, batch no larger than capacity), positive policies, `Second`
dividing `MicroToken`, the options parseOptions accepts, finite sets of events and
requests, environments whose numbers are integers, unset or malformed, natural numbers
as latencies, a development key that is not among the other keys, upstream statuses up
to 599 (Validate refuses the event of a greater one).
The type invariants (TypeOK of every module, LoadTypeOK, which also bounds the
outstanding requests) are proved here and left out of the runs.

- `UsagePipelineProofs`. `ControlInv` adds to the types who may be where: a call
  past the closed check holds the read lock and the queue is open (`AdmissionInv`),
  cancellation and the worker's exit come only after the queue is closed
  (`ShutdownInv`), and where the batch may be empty or full (`BatchInv`). TypeOK and
  NoSendOnClosed follow. EveryEventCountedOnce is proved step by step: each action moves an event
  between "pending" and one counter. HourlyMatchesEvents needs that a statement
  adds exactly the rows that were new. NoSilentLoss rests on `LossCounted`: a step
  loses at most what it counts. AcknowledgedIsStored is not inductive; `DistinctInv`
  (no event is twice in the pipeline) and `AcknowledgedInv` (the counters are covered
  by rows of events that have left it) make it so. StoppedGaugeIsZero and the
  refinement `PipelineImplementsLedger` use ControlInv again. `CloseInv` follows the
  callers of Close through closeOnce, the lock and the two waits: the queue is closed
  once (ClosesOnce), a waiting caller has whom to wait for (CloseWaitsForSomeone), and
  after a Close has returned nothing reaches the database (QuietAfterClose).
- `RateLimiterProofs`. WithinQuota is not inductive; `QuotaInv` adds what could
  still be granted now: granted + refilled tokens <= capacity + refill over the
  window. Expiry keeps it because a key lives at least as long as an empty bucket
  takes to fill (`TtlFillsBucket`). `ReplyInv` ties the latest reply to the bucket,
  from which RetryIsExact, RetryAfterIsEnough and ResetIsExact follow by the
  rounding lemma `CeilDivIsExact`.
- `LoadGeneratorProofs`. `ImplementsRateLimiter` makes every step one of the bucket,
  so that `BucketInv` holds. `ClockInv` ties the generator's clock to the milliseconds
  of the window, `AcceptInv` counts each accepted request against a grant of the
  window, `WarmupInv` keeps warm-up and measurement apart. With `QuotaInv` they give
  BoundIsSound by arithmetic on the two clocks, and VerdictIsSound by counting the
  samples, all written by then (SamplesAreComplete). `BusyInv` bounds the outstanding
  requests. For the percentiles, `EveryPositionTaken` shows that the ranks of the
  samples are the positions of the list, each once (an injection of a finite set into
  itself); hence the k-th sorted sample is the least one with k samples up to it
  (`SortedIsOrderStatistic`), and the code's rank is the least that the quantile admits
  (`CeilWithinList`). SummaryIsExact is about every list of integers, of any length.
- `GatewayHandlerProofs`. `HandlerInv` says of every request alone (`Good`) which notes
  its position admits (`Path`), what its response looks like as long as no interim one
  was sent (`Response`) and which refusal it stands for (`Verdict`); of all together,
  that the events are those of the recorded requests (`UsageInv`), that barred requests
  have inactive keys (`BarredInv`) and that the counters agree (`CounterInv`). Lemmas
  on `WriteHeader`, `Write` and `writeJSON` carry the writers through. ScrapeIsConsistent
  needs that the sum over all statuses is the number of counted requests
  (`TotalCounts`), hence never above the number of requests (`FewerResponses`), which
  only grows; `ScrapeInv` says so of the half-read scrape. `HandlerImplementsLife` maps
  the positions of a request to the four of `RequestLife`.
- `GatewayProcessProofs`. `ControlInv` (the pipeline is closed only on the way out),
  `QuietInv` (no request is under way once main has got to Close) and `CountInv`
  (the ledger adds up to the events offered) give TypeOK, NoLateEvent and
  ClosedExitSettles.
- `GatewayServerProofs`. `ServerImplementsProcess` carries those theorems over.
  `StartInv` (a configuration in use passed Load, hence the constructors' checks)
  gives ConstructorsAgree, `ProbeInv` (every dependency counted in `checked` was seen
  up) ReadyIsWitnessed. RetryDelayIsCapped needs that the recursive function of the
  delays exists for every number of attempts and solves its equation (`DelayExists`),
  and that no delay leaves the range in which the loop's early exits amount to capping.
- `KeyStoreProofs`. `TablesInv` is what the constraints of the tables say, `BootInv`
  that a bootstrap holds a client from the key on, `StoredInv` that the development
  key is stored under the current pepper once a bootstrap got past it. `DeveloperInv`
  adds that bootstraps and the development key stay with clients of the development
  name and that one of these has the override, so that a single such client has both.
  They give TypeOK, BootstrapGivesQuota, BootstrapGivesKey, RevocationLasts and, by
  the well-ordering of prefix lengths, PolicyIsDefined and LongestRoutePrefixApplies.
- `MigrationsProofs`. AppliedOnceInOrder is not inductive: a commit could append any
  file. `LockInv` (one transaction at a time is past the lock), `FileInv` (a
  migrator runs a file only if it is the next one) and `WroteInv` (a transaction
  commits a file with its row, or nothing) make it so, and give TypeOK,
  DoneMeansMigrated, SchemaOnlyGrows and WaitsForTransaction.

Two things recur. Facts about every attempt of retryDelay and every partial sum of a
scrape are shown to have no least counterexample (`SetInduction`): the library's
induction theorems take an operator, which no installed prover instantiates, but a set
of numbers does as well. And where a run refutes what a document says, a theorem says
how far it does hold: StoppedGaugeIsZero, RecordedStatusIsSent, ClosedExitSettles and
LongestRoutePrefixApplies.

Stated only by theorems, and not by a run: ClosesOnce, CloseWaitsForSomeone,
QuietAfterClose, SchemaOnlyGrows, WaitsForTransaction, LongestRoutePrefixApplies,
ImplementsLife, SamplesAreComplete and the type invariants.

Only model-checked: CloseReturns, EnqueueReturns, EventsAreFlushed, RunEnds,
ShutdownEnds, ProbeEnds and MigrateEnds. They are liveness properties; fairness is
defined by ENABLED, about which this version of the proof system cannot reason. Every
invariant and action property of the passing runs is proved.

## Not modelled

- `cmd/benchreport`: reads finished JSON files and writes a table, a text and a
  drawing, once, in one goroutine. Worth knowing when reading it: writeMarkdown and
  writeSVG ignore write errors, unlike writeCSV.
- The load generator's flags, upstream counts and JSON output, and the rate-limit
  headers it looks for (HeadersMatchDecision says that the gateway sends them); the
  throughput and error rate of NewResult. A response with a status of 400 or more
  whose body breaks off counts as a transport and as an HTTP error there.
- HMAC and the text of generated keys and UUIDs: a model would assume what it shows.
- Mock services: stateless; the handler model admits any upstream answer.
- The C++ client: measures, verifies nothing.
- Deployment scripts and compose files: I/O.
- Durations, byte counts, log lines, text formats.
- The contents of SQL migrations, LIKE wildcards in prefixes, row locks, and the 65535
  parameters of a statement, which a batch above 6553 events would exceed.
- What a client sees of a response whose body fails half way: recoverPanic swallows
  http.ErrAbortHandler, and no document says what should happen.

## Order of the work

From the inside out: usage pipeline and ledger, rate limiter, handler chain, process,
migrations, policy store; then the load generator over the rate limiter, the server
over the process, and the proofs of handler and store. What could follow: several
buckets behind one Redis, and a bootstrap under a unique constraint on client names.
