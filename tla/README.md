# Verification of sports-analytics-local

TLA+ modules, TLC runs and TLAPS proofs for the core of `sports_analytics`, the
local sports-analytics application in `src/src/sports_analytics`. Paths below
are relative to that package unless they start with `docs/`.

## 1. The system

One machine runs a supervisor, a worker, a Streamlit UI and, when bookmakers
are configured, a bookmaker scheduler. They share one SQLite database
(WAL, every write in a `BEGIN IMMEDIATE` transaction) and a storage tree of
immutable directories and JSON files. There is no server: all coordination is
through rows, file renames, signals and exit codes.

| Component | State | Operations | Talks to |
|---|---|---|---|
| Durable job queue (`data/repositories/jobs.py`, `job_queue.py`, `jobs/service.py`, `jobs/backoff.py`) | `jobs` (status, attempts, version, availability, lease), `job_events` | create, claim, renew, complete, fail, recover expired leases, cancel, retry | worker, scheduler, UI, automatic market data |
| Worker registry (`data/repositories/workers.py`) | `worker_instances` (status, heartbeat, current job) | register, heartbeat, transitions, reconcile stale | worker |
| Worker runtime (`jobs/runner.py`, `context.py`) | thread memory: claim, stop event, lease-lost event, heartbeat thread | the loop of `LocalWorker.run`, `_execute_claim`, the heartbeat thread | queue, registry, handlers |
| Local supervisor (`local/supervisor.py`) | child processes, stop event, first exit code | start, poll, graceful stop, kill, clean up after exceptions | worker, UI, scheduler processes |
| Snapshot publication (`snapshots/service.py`, `data/repositories/snapshots.py`) | `snapshots` rows, snapshot directories, audit events | reuse, recover BUILDING, adopt orphan, publish, fail | ingestion handlers, bookmaker ingestion |
| Bookmaker cycle (`bookmakers/orchestration.py`, `service.py`, `fallback.py`, `admission.py`, `handlers.py`) | acquisition runs, attempts, provider status, registrations, fallback decisions | one handler execution: eligibility, replay, acquisition, five persistence transactions, decision | queue, browser, snapshots |
| Bookmaker scheduler (`bookmakers/scheduler.py`, `scheduler_ops.py`) | anchors, cycles | tick over the sports: anchor, due time, atomic enqueue | queue, provider status |
| Automatic market data (`mvp/automatic_market_data.py`) | `config.json`, secret, `state.json`, raw artifacts, a chain of jobs | enable, replace key, pause, resume, run now, start-up, the job handler | queue, The Odds API, UI |
| Model governance (`governance/`), champion preparation and resolution (`mvp/champion_preparation.py`, `champion_resolution.py`) | registry of models with versions, decisions, transitions, one champion per scope | register, evaluate, record, promote, initial promotion, roll back, prepare | artifacts, UI, command line |
| Closed loop: results, settlement, learning, monitoring (`results/`, `settlement/`, `learning/`, `monitoring/`) | registered results, settlement runs and events, reports, history of champions | register, settle, publish, persist, monitor | queue, artifacts |
| Migrations and database access (`data/migrations.py`, `database.py`) | `schema_migrations`, the schema | check package, check history, apply one migration per transaction | every process at its start |
| Backup and restore (`release/backup.py`) | an archive and the storage roots | copy, verify, stage, rename, roll back | everything persistent |
| HTTP download and raw store (`sources/http.py`, `raw_store.py`) | content-addressed files, pacing | request, redirect, retry, stream, store | ingestion |
| Analytical artifacts (`artifacts.py`, `artifact_schemas.py`) | immutable directories of documents and typed datasets | publish by temporary directory and rename, verify, load | all product services |
| Browser capture (`sources/browser/`) | queues between callbacks and program, captures, byte budgets | navigate, observe, drain, stream, inspect scripts | bookmaker cycle |
| Pure algorithms: acquisition window, reconciliation, normalization, quote selection and multiples, operator quotes, folds, features, value and opportunities, combinations, backtests | none | functions of validated records | product services |
| Numerics, parsers, UI pages, settings, logging, command lines | none of their own | - | - |

`PROJECT.json` lists every component with its sources, including the ones that
are not modelled and why.

### What is hard about it

* A lease-holding process can be paused for any time and come back with an old
  claim and an old clock reading (queue, worker, bookmaker cycle).
* Main thread and heartbeat thread share a lease; stop requests, lease loss,
  handler results and database errors arrive in any order (worker).
* Children may exit between any two polls, and exceptions may hit starting,
  polling and shutting down (supervisor).
* A rename and a commit cannot be one step; crashes fall between them, and
  lookups run outside the transaction that acts on them (snapshots).
* The state read before a browser session of minutes is written after it
  (bookmaker cycle); the UI and the worker rewrite the same JSON files without
  a lock (automatic market data).
* Worker, UI and scheduler may all meet an unmigrated database, and a newer and
  an older release may start on one (migrations); two publishers and a crash may
  meet on one directory (artifacts, raw store), a restore may die between any
  two of its renames (backup).
* A decision to promote is applied long after its evidence, by another process,
  among promotions and rollbacks in any order (governance); a result may change
  after a bet was settled with it, while another job settles (closed loop).
* Browser callbacks fill bounded queues while the program awaits something else
  (capture).
* Long pipelines of validated records, each step with its own checks: what one
  step accepts the next one must accept as well, or a finished computation
  cannot be stored (algorithms).
* Several things must go on for ever: the chain of automatic jobs, the
  cadence of cycles; or must come to an end: a stopped worker, supervision.

The list of these places with their lines is `hazards` in `PROJECT.json`; the
properties below are aimed at it.

## 2. Modules

Modules with processes (state, actions, interleavings):

| Module | Models | Form |
|---|---|---|
| `JobLifecycle` | what the queue promises: a job is waiting, held by one worker under one attempt, or over | abstract specification over status, holder and attempts |
| `JobQueue` | queue and registry tables; one action per repository operation | transactions are atomic, callers are not: `at` may lag the clock by `MaxLag`, and `claims` keeps every claim ever handed out, so any of them can be presented at any later time; implements `JobLifecycle` |
| `WorkerRuntime` | worker processes and heartbeat threads | extends `JobQueue`; every database call is a `JobQueue` action with a sampled time; crashes and database errors anywhere |
| `Supervisor` | `LocalSupervisor.run` | program counter; every poll and wait is a step, children exit in between |
| `BookmakerScheduler` | scheduler processes | each tick's three database accesses per sport are separate steps |
| `SnapshotPublication` | `publish_or_reuse` by concurrent writers | rows and directories separately; the publishing transaction is split at its rename |
| `Migrations` | processes of several releases starting on one database; the splitter of SQL scripts | one write lock, one statement a step, an automatic commit where SQLite makes one |
| `BackupRestore` | backup beside a publisher, restore with staging, renames and recovery | each copy and rename is a step that may fail or be the last of the process |
| `RawStore` | `HttpClient.download` into the content-addressed store | requests, redirects, retries, pacing, chunks, rename; concurrent downloads of one content |
| `ArtifactPublication` | publication and loading of documents, typed datasets, features, models | temporary directory, files one by one, rename; crashes and later damage |
| `BookmakerAcquisition` | the autonomous-cycle handler and its tables | executions with a program counter; a lease may be lost while its execution goes on |
| `AutomaticMarketData` | configuration, secret and state files, handler, operator's controls | each file access and transaction is a step |
| `Governance`, `ChampionPreparation` | registry of models with decisions and transitions; the UI's preparation of champions and their resolution | one action per repository transaction, decisions kept and applied at any later time |
| `ClosedLoop`, `Monitoring` | results, settlement, reports, champion history, monitoring reports | settlement jobs read, publish and persist in separate steps while results arrive and change |
| `BrowserSession`, `CdpStreaming`, `ClientSchema`, `BrowserContracts` | the capture of a provider's pages: queues of callbacks, drains, bodies; the passive stream observer with its wire formats; the script inspector; the checks of every record | callbacks are actions that fall between the program's awaits |

Modules of functions, evaluated on every input of a small set:

| Module | Models |
|---|---|
| `AcquisitionWindow` | horizon, its payload, admission of events with exact counts |
| `EventReconciliation`, `QuoteNormalization` | from a parsed bundle to the datasets of a bookmaker snapshot and back through the strict loader |
| `QuoteSelection` | comparison of two bookmakers' prices, of single bets and multiples |
| `OperatorQuotes` | quotes entered by hand: import, admission, complete markets, stored batch, reader |
| `PrematchFeatures` | rolling-origin folds as built and as rebuilt by the loader; team features |
| `Opportunities`, `Combinations` | prediction and quote contracts, value at the decision time, filters, ranking; dependency classes, manual validation, bounded builder |
| `Backtesting`, `ArtifactDatasets` | settlement of folds, bets, metrics, identities, the closing benchmark; the rows of analysis and backtest artifacts with their validation |
| `Sorting` | sorting a set by a strict order |

`JobQueueProofs`, `RuntimeProofs`, `ProcessProofs`, `StorageProofs`,
`AcquisitionProofs`, `LearningProofs` and `BrowserProofs` hold the proofs. `MC*` modules give
constants their values. `MCProcesses`, `MCStorage`, `MCAcquisition`,
`MCLearning` and `MCBrowser` put components that do not share state into one
run: a variable `part`, chosen at the start, says which of them moves, and every
fairness condition is restricted to the behaviours of its own part.
`MCAlgorithms` picks an algorithm and an input, then computes in one step.

Definitions preceded by "faulty variant" or "Mutant" are what a plausible bug
would make of the definition they stand beside. They are used by no
specification; each shows that a property of a run can fail.

How state and actions correspond to the code is recorded definition by
definition in `PROJECT.json` under `map`. The main abstractions:

* **Queue.** A row keeps the columns that decide something. Payloads, results,
  texts are left out. A rejected operation rolls back: it is a disabled action.
  The worker row's version is left out because it is read and compared in one
  transaction; the job row's version is kept, since it is the fence.
* **Worker.** What a handler does is its outcome (ok, retryable, permanent,
  shutdown, lease lost). A worker id is one process run.
* **Supervisor.** An exit status is zero, non-zero or killed. Grace periods are
  nondeterministic waits.
* **Snapshots, artifacts, backup.** Verification of a file is one verdict;
  content is its own checksum; a writer is identified with the fresh UUID it
  prepared under.
* **Migrations.** A script is a sequence of a few tokens, enough to tell
  statements, comments and transaction control apart.
* **Bookmaker cycle.** A browser session returns an error, a block or a bundle
  reduced to the facts admission reads. Crash recovery by the queue is the
  requeueing of the job, as proved for `JobQueue`.
* **Scheduler.** The acquisition window is represented by the time it starts at.
* **Automatic market data.** One competition, as configured in the code;
  reconciliation, analysis and ranking are one nondeterministic result; time is
  "due" or "not yet due".
* **Governance, preparation.** Metrics are integers; what a tournament concludes
  is chosen when its artifact is first published.
* **Closed loop.** Odds, stakes and scores are small integers; a report is the
  set of its settlements.
* **Browser.** Bytes are counted, a body is the sequence of its chunks (data,
  trailer, end); page text is left out. Data events are taken to differ in their
  timestamps, so that the observer's set of seen signatures never drops one
  (`cdp_streaming.py:566-580`).
* **Algorithms.** Odds, probabilities and expected values are integers in a
  fixed unit or pairs of integers; ratings are kept as the terms that compute
  them; an identity (a digest in the code) is the tuple of what is hashed.

## 3. Runs

Twelve TLC runs; eight pass and four show a disagreement between the code and
what the repository says of it.

| Run | Instance | Properties |
|---|---|---|
| `queue` | 2 jobs (1 and 2 attempts), 2 workers, lease 1, lag 1, clock to 2 | `LeaseIntegrity`, `PendingIsClaimable`, `EventChain`, `FinishedByItsClaim`, `LeaseHonoured`, `RefinesLifecycle` |
| `worker` | 2 processes, 1 job with 2 attempts, lease 1, clock to 2 | `RuntimeConsistent`, `LeaseLossFence` |
| `processes` | 1 worker process with lease 2 (renewals) and clock to 3; worker, UI and scheduler under the supervisor; 1 or 2 scheduler processes, 2 sports, interval 2, clock to 2, 1 failure; all fair | `ChildrenStopped`, `CyclesMatchCadence`, `RefinesQueue`, `ExitsWhenTold`, `SupervisionEnds`, `SchedulerStartsSports` |
| `storage` | 4 snapshot writers, 2 source versions, 1 left-over, 2 crashes; 4 starting processes with packages of 2 and 3 migrations, a forked and a broken one; 4 files in 2 roles, 2 restores; 2 downloads, 3 bodies, limit 2, 1 retry, 1 redirect; 2 publishers of each kind of artifact, 2 damages | `PublishedSnapshots`, `SchemaMatchesHistory`, `RowsFindFiles`, `StoredIsLoadable`, `ArtifactsIntact`, `FailedRestoreLeavesNothing`, `StoreDownloadsEnd` |
| `acquisition` | 2 executions, 1 cycle, 2 providers, 2 attempts, clock to 1; 2 keys, 2 quota values, 2 configuration generations of controls between jobs or 3 of controls that overlap with them, 1 fault, fair | `TablesAgree`, `OneJobChain`, `CyclesSettle`, `KeysRespected`, `KeepsAcquiring` |
| `learning` | 2 candidates of one competition and 2 models of the command line, 3 decisions, 4 transitions; 2 events, 3 positions, 2 settlement jobs | `GovernedRegistry`, `NoStalePromotion`, `SettledFromEvidence`, `HistoryIsWhole`, `FinalIsFinal` |
| `browser` | 2 streams cut into frames in two ways, 4 responses of 2 providers, of which 2 come with an observer and 3 without, 2 routes, queues of 2, limits 2 and 3, 1 poll, 4 scripts | `PassivelyObserved`, `BodiesRetained`, `EveryResponseAccounted` |
| `algorithms` | 14 algorithms, 10^5 inputs and more (`MCAlgorithms` lists them) | `AcquiredIsLoadable`, `SelectedIsComparable`, `EvidenceLooksBack`, `ReloadsAsComputed`, `BuilderIsExhaustive`, `BacktestReproducible` |
| `bookmaker_partial_replay` | 1 execution | `SelectedIsComplete` (violated) |
| `automatic_resume_lost` | controls overlap a running job | `StaysScheduled` (violated) |
| `governance_served` | the instance of `learning` with 2 competitions, 1 decision, 2 transitions, 1 settlement job | `EveryCompetitionServed` (violated) |
| `benchmark_publishes` | closing benchmarks over 5 to 7 dates | `BenchmarkPublishes` (violated) |

### What the properties say

Queue and processes:

* `LeaseIntegrity`: a lease exists exactly on a running job, and a worker's
  current job is one whose lease it holds; no operation on either table breaks
  the pair. `PendingIsClaimable`: no pending job has used up its attempts.
  `EventChain`: the audit history is gapless. `FinishedByItsClaim`: an attempt
  is finished under the claim that started it, however late claims are
  presented. `LeaseHonoured`: a live lease ends only by its own claim's
  finalization, whatever stale clock recovery and reconciliation use.
  `RefinesLifecycle`: the tables implement `JobLifecycle`; a worker never has
  two jobs and a job never two workers, also when leases expire and a worker
  that was written off still owns one.
* `RuntimeConsistent`: the typed state of tables and threads; a normal return
  leaves the row terminal, no current job and no thread (`CleanReturn`);
  reconciliation, which judges by heartbeat, never fails a worker with a live
  lease (`HeartbeatCoversLease`). `LeaseLossFence`: after a process has seen
  its lease lost (or the heartbeat thread did not end in time) it finishes
  nothing and claims nothing. `RefinesQueue`: the worker processes use the
  queue only as `JobQueue` describes its callers, so the queue's results hold
  of the running system. `ExitsWhenTold`: liveness.
* `ChildrenStopped`: no child survives `run()` (`NoOrphan`) and each is asked
  once and before it is killed (`GracefulStopOnce`). `SupervisionEnds`: a
  signal or an exit ends supervision.
* `CyclesMatchCadence`: every job belongs to a cycle of its sport and slot, for
  any interleaving of processes (`JobsMatchCycles`); cycles of one process keep
  their distance (`CyclesApart`). `SchedulerStartsSports`: every sport's cycles
  start, also when another sport fails.

Storage:

* `PublishedSnapshots`: one building or ready snapshot a source version (`OneActive`), READY
  means a complete directory (`ReadyIsComplete`), rows, directories and the
  answers writers got agree (`Agreement`).
* `SchemaMatchesHistory`: every statement of every recorded migration has run
  once, in order, and nothing else; a process that reports ready has its package
  applied.
* `RowsFindFiles`: a restored database names no file the backup lacks.
  `FailedRestoreLeavesNothing`: a restore that fails and recovers leaves the
  roots as they were. `StoredIsLoadable`: what a download returned is in the
  store, whole. `StoreDownloadsEnd`: retries and pacing are kept and every download
  ends. `ArtifactsIntact`: a visible artifact is whole (`VisibleIsWhole`), what
  loads is what was published whatever was damaged since (`LoadedAsPublished`),
  and one publisher wins a path (`OnePublisherPerPath`).

Acquisition:

* `TablesAgree`: the last valid snapshot of a provider is one that was admitted
  (`LastValidAdmitted`) and a registration belongs to the run that made it
  (`RegistrationMatchesRun`), also for overlapping executions. `CyclesSettle`:
  a succeeded run stays, every sub-cycle ends settled or skipped, a blocked
  provider cools down; claimed only while executions have not overlapped
  (history variable `alone`), which is as much as the code gives.
* Whether the operator's controls may act while a job runs is chosen at the
  start of a behaviour (`overlap`). `OneJobChain`: never more than the running
  job and its successor (`DuplicatesSuppressed`), always; and, while controls act
  between jobs, an enabled operation has one (`StaysScheduled`).
  `KeysRespected`, in both kinds of behaviour: a key whose failure was persisted
  outside a control is not sent again, and the operation is blocked only when
  the stored key is refused, or when it was stored while the handler worked with
  another. The last case is the stale write-back at
  `automatic_market_data.py:688`: the new key is blocked for the old one's
  failure, and the property does not call that right, it says that nothing else
  blocks a good key. `KeepsAcquiring`: the chain goes on, as liveness, while
  controls act between jobs.

Learning:

* `GovernedRegistry`: replaying the audit trail gives the registry
  (`AuditExplainsRegistry`), and a champion a product run resolves was crowned
  by an audited transition between its competition's candidates
  (`ResolvedIsGoverned`). `NoStalePromotion`: a decision is applied only to the
  registry it was made of.
* `SettledFromEvidence`: a settlement has a status its registered results give,
  whatever order legs and results come in, and returns more than the stake
  exactly when it is a win. `HistoryIsWhole`: reports are stored
  whole or not at all, and monitoring only counts what is stored.
  `FinalIsFinal`: a final settlement
  stays, and an open one only moves forward in time.

Browser:

* `PassivelyObserved`: a streamed body is stored as it was sent, also when
  storing fails or base64 is invalid, and every script that was seen is
  inspected, rejected or queued, within the limits.
* `BodiesRetained`: the bodies of the finite readers stay within the budget of
  the cycle, whatever arrives together (`FiniteWithinBudget`), and a body is
  retained by one of the two paths only (`RetainedOnce`). The second holds for a
  response that the observer's own CDP session reports before the page's, during
  one visit. Nothing in the code enforces that order: `_consume_response`
  (`cdp_streaming.py:460-511`) streams what it is told of, whatever the finite
  reader has retained. The model lets the two sessions report in both orders, and
  lets a report be carried over to the next route; those responses (`heard` is
  `"late"` or `"carried"`) are outside the property, and without the exemption
  TLC finds a body that is retained twice.
* `EveryResponseAccounted`: a response the page reported is in the queue, in the
  batch being worked off, among the pending ones, or has ended, in exactly one of
  these and once (`PlacedOnce`, in every state). A complete or blocked result
  without a cleanup warning leaves nothing pending, and what was left to a
  stream has the outcome of that stream (`ResultAccounts`). The property does not
  say that every response has a record. Three ends are silent in the code and in
  the model: what is still queued when the acquisition returns, what is worked on
  after the deadline (`playwright_runtime.py:1008-1009`), and what an observation
  error hits (`:1318`).

Algorithms:

* `AcquiredIsLoadable`: the record of a response passes its own checks; the
  window admits the earliest events, exactly counted and independent of their
  order; what normalization publishes passes the strict loader.
* `SelectedIsComparable`: events are matched only between providers, for one
  competition, the same clubs, within the tolerance; the chosen quote is fresh
  and the best. `EvidenceLooksBack`: no feature and no accepted opportunity
  depends on what came after.
* `ReloadsAsComputed`: stored folds are the folds the loader rebuilds; datasets
  of analyses and one-fold benchmarks pass the artifact's checks; a batch of
  operator quotes does not depend on the order of its file.
* `BuilderIsExhaustive`: pruning loses no combination that manual validation
  accepts, unless the result says it was truncated. `BacktestReproducible`: a
  result does not depend on the order of folds and candidates, and its drawdown
  is the deepest loss over consecutive bets.

### Why the bounds are enough for what is claimed

Leases of one tick with a clock of two give expiry, recovery, backoff and a
second claim, with every old claim replayable; two workers give the rival. The
worker process of `processes` has leases of two ticks so that renewals move the
deadline. Four snapshot writers with two crashes reach an orphan, its adopter, a
rival that looked up earlier, and a bystander of another version. Two
executions and two attempts give a stale execution and its replacement; further
ones repeat these roles. An interval of two ticks over a clock of two gives an
early and a late second slot. Four packages give two releases of one line, a
fork and a script that would end its own transaction. Two restores give one
after a crash. Two publishers and two damages give a race, and damage of a file
and of its checksum. Two keys and two configuration generations give "replaced"
and "not replaced" after a block. The overlapping behaviours of `acquisition`
need a third generation (save, then a control during the request, then another);
to keep them small the run leaves out, in them alone, restarts and crashes,
revoked last keys, quotas at the reserve and two kinds of answer that are handled
like the others (`Bounded` in `MCAcquisition`). Four
transitions give promotion, rollback, a second promotion and its rollback.
Three responses without an observer fill a queue of two and exceed limits of two
and three bytes; with an observer two responses are enough for one that waits
while the other is streamed under its URL, and the two gRPC responses are
interchangeable (`SYMMETRY`, sound for invariants). `MCBrowser` bounds how much
goes wrong in one behaviour (`CalmStreams`, `CalmSession`): streams fail in one
step, or the rest of the page is noisy; the deadline passes on the first route
before anything else has failed, and the second route fails only after its page
was read. The run has 3 million states; with at most two responses per behaviour
and none of the other bounds it was 8.5 million, with the same result. In
`acquisition` keys and executions are alike, so the first key and the order in
which executions begin are fixed, and executions that have overlapped acquire no
drifted bundle any more. The inputs of the algorithms lie on both sides of every
comparison that a definition makes.

`CHECK_DEADLOCK` is off because bounded clocks, finished writers and stopped
processes may rest.

### Fairness

* `WorkerRuntime`: weak fairness of each thread. Threads are scheduled by the
  operating system; a handler returns or reaches a checkpoint, joins are
  bounded by the grace period.
* `Supervisor`: weak fairness of the supervisor's own statements; children and
  signals have none.
* `BookmakerScheduler`: time passes and some process goes on; failures are
  finite in number (`MaxFailures`), not fair.
* `AutomaticMarketData`: the worker polls, handlers and controls run to their
  end, jobs come due and leases expire. Outcomes of requests are unconstrained.
* `RawStore`: a request is answered or times out, a body ends or fails (both
  have a timeout). Redirects, crashes and outcomes are unconstrained.
* `ChampionPreparation`: a call of the UI that started runs to its end; used
  where a violation must not come from a call that just stops.

## 4. What the violations show

1. `bookmaker_partial_replay` - a partial capture is an unsuccessful outcome
   when made and becomes the selected one when its cycle is replayed.
2. `automatic_resume_lost` - run-now or resume at the end of a run cancels the
   successor and leaves an enabled operation without a job.
3. `governance_served` - the preparation of a second competition is refused
   because the first one has a champion of the same market.
4. `benchmark_publishes` - a closing benchmark that bets in two folds is
   computed and then refused by the artifact writer, because ranks start again
   in every fold.

Behaviours met while modelling that no run records, but that bound what is
claimed:

Queue, supervisor, scheduler:

* `reconcile_stale_workers` ignores a worker that died while `starting`.
* The supervisor returns 0 when a child exits with an error between
  `_first_exited_child` and the `alive` poll (`local/supervisor.py:261-262`;
  the docstring at `:170` and `docs/worker.md:308` say otherwise). An interrupt
  between two child starts leaves the first child running (`NoOrphan` excludes
  it).
* Two scheduler processes may schedule the same late slot at two times.

Storage:

* A FAILED snapshot row whose directory is still in place blocks every
  replacement (`snapshots/service.py:424`; `docs/snapshots.md:162` says failed snapshots
  release the key so a replacement can proceed). A writer that looked up before a rival committed
  may take the rival's directory for a second orphan and fail permanently.
* A process that ends between two renames of a restore leaves a mixture that a
  second restore refuses; a failing staging directory is left behind although
  `release/backup.py:257` reports "without retained partial state".
* A network error while a body is read is permanent, not retried, and the
  declared length is never compared; `text/html` is an accepted content type.
* A second rename onto an existing artifact directory raises `OSError`, not
  `ArtifactError`; a crashed publisher's temporary directory is never removed;
  the `published_at` file of a feature artifact is covered by no digest.

Bookmakers and automatic market data:

* An execution that outlived its lease overwrites the succeeded run of its
  successor, and may clear a block another execution has just persisted.
* Bundles are reconciled one at a time (`bookmakers/service.py:282`), so the
  kickoff tolerance of `reconciliation.py` never applies between providers.
* Two open markets of one event that are the same bet are published, but the
  strict loader refuses the snapshot; identical responses give duplicate paths
  in the capture manifest, which its parser rejects.
* Pause or resume overlapping the handler's blocking write removes the block; a
  failure of the old key blocks a key that was replaced meanwhile.
* The quota of a response whose analysis fails is lost, so one request may be
  sent below the reserve; the same content with another quota is refused as a
  conflicting artifact; enabling again does not enqueue an immediate job.

Governance and learning:

* Rollbacks out of order are allowed: the roles are checked, not the order of
  transitions. A champion promoted by the command line makes the resolution of
  every competition fail. Evidence of the command line has no calibration, so
  the default policy always holds it.
* The ages the retraining trigger compares are always zero, so only the number
  of matches can fire it; that at most one cycle of a scope is active
  (`docs/closed-loop-learning.md:31`) is checked against running jobs only.
* A second settlement run at the same time breaks a UNIQUE constraint and is not
  audited. A monitoring report over no evidence is refused by its own reload,
  its summary can never be "healthy", and two completed results of one event
  block monitoring.

Browser:

* A queue overflow while the streamed content is fetched leaves a gap in a
  stream that counts as complete (`cdp_streaming.py:234`, against
  `docs/worker.md:467`). Streamed bytes are added to the captured total
  unchecked, so the 16 MiB of `docs/worker.md:440` can be exceeded.
* What is queued when an acquisition returns, worked on after its deadline or hit
  by an observation error leaves no record; a response that the observer's session
  reports after the page's may be retained by both readers, although
  `docs/worker.md:448` calls the two paths mutually exclusive; an error in the
  cleanup of a page leaves its pending responses out, with a warning. A
  `requestfinished` that arrives while a body of the same drain is read is
  discarded before its response is processed; late responses are attributed to
  the next route; a stream open at close yields two records; a first chunk that
  begins with everything buffered so far is cut as a repetition, also when the
  server did send those bytes again (`cdp_streaming.py:584`).

Algorithms:

* Folds advance by dates (`evaluation/temporal.py:158-163`), one more than
  `step_rows` asks for, so some events are never tested; `run_backtest` raises
  when the last fold overlaps the one before.
* Manual validation accepts closing legs that the builder refuses;
  `allow_unknown_dependencies` is never read; equal combinations keep their
  input order, so truncation depends on it. Averages are float sums in input
  order and enter the result's identity.
* An analysis that prices one prediction with two bookmakers, or that has no
  opportunity at all, cannot be published; a low-quality prediction made after
  the start is accepted by its contract and refused at publication.
* Operator quotes that differ by scope, participant or time only tie in the sort
  key, so their batch id depends on the order of the file
  (`docs/data-contracts.md:5`). A blocked pair of events removes the second
  event's key, which makes the first one "exact".

## 5. Proofs

Seven modules hold the proofs. Each extends the modules of the components it is
about, so that assumptions on constants are the ones named there.

| Module | Components | Theorems |
|---|---|---|
| `JobQueueProofs` | `JobQueue`, `JobLifecycle` | the queue and its refinement |
| `RuntimeProofs` | `WorkerRuntime` | the worker processes, refining the queue |
| `ProcessProofs` | `BookmakerScheduler`, `Supervisor` | the other two processes |
| `StorageProofs` | `SnapshotPublication`, `ArtifactPublication`, `RawStore`, `BackupRestore`, `Migrations` | what is on disk |
| `AcquisitionProofs` | `BookmakerAcquisition`, `AutomaticMarketData`; instances of `EventReconciliation` and `QuoteSelection` | the two acquisition chains, and two algorithms on what they acquire |
| `LearningProofs` | `Governance`, `ChampionPreparation`, `ClosedLoop` | champions and settlements |
| `BrowserProofs` | `CdpStreaming`, `BrowserSession`, `ClientSchema`, composed by `MCBrowser` | the observers of a browser |

A theorem holds for every value of its constants: every number of processes,
jobs, writers, files, models or positions, every limit and interval that
satisfies the named assumptions. The proofs share one layout. An inductive
invariant is a conjunction of named parts; each action has a lemma that it
preserves the invariant; a `...Next` lemma has one case per action; the theorem
combines them by temporal logic. TLC checked each inductive invariant on the
instance of the component's run before it was proved.

### The queue and its workers

| Theorem | Statement |
|---|---|
| `QueueTypes` | `Spec => []TypeOK` |
| `QueueLeaseIntegrity` | `Spec => []LeaseIntegrity` |
| `QueuePendingIsClaimable` | `Spec => []PendingIsClaimable` |
| `QueueEventChain` | `Spec => []EventChain` |
| `QueueFencing` | `Spec => []FinishedByItsClaim` |
| `QueueLeaseHonoured` | `Spec => LeaseHonoured` |
| `QueueTerminalIsFinal` | `Spec => TerminalIsFinal` |
| `QueueRefinesLifecycle` | `Spec => RefinesLifecycle`: the initial tables are an initial state of `JobLifecycle`, and every operation is one of its steps or a stutter |
| `RuntimeRefinesQueue` | `RuntimeSpec => RefinesQueue`: every database call of a worker process is an operation of `JobQueue` |
| `RuntimeRefinesLifecycle` | `RuntimeSpec => RefinesLifecycle` |
| `RuntimeIsConsistent` | `RuntimeSpec => []RuntimeConsistent` |
| `RuntimeLeaseLossFence` | `RuntimeSpec => LeaseLossFence` |

Assumptions of `JobQueue`: job ids are numbers, `NULL` is none of the values,
every job has at least one attempt, lease and backoff base are positive,
`BackoffMax >= BackoffBase`. These are what the column constraints and the
settings validate.

None of the queue's invariants is inductive alone: that an attempt was finished
by its own claim depends on what the history says *before* the finishing event.
The inductive invariant is

    IInv == TypeOK /\ JobInv /\ WorkerInv

where `JobInv` gives every row its lease form, its attempt bound, its event
chain and `ClaimedOK`: the last event of a running job is the claim by the
current lease owner. A finalization compares owner and version with the row, so
with `ClaimedOK` the event it appends follows the claim event it belongs to.
`WorkerInv` ties a worker's current job to the lease. `RowStep` and
`OneJobStep` show once what a transition of one row under one new event does.
`MovedJob` lists how a row can change at all; the two action theorems follow.

The refinement of `JobLifecycle` needs more. There a worker takes a job only
when it has none, but `ClaimNextJob` looks at the worker's row, not at the
leases. The strengthening is

    OwnerInv == a lease owner works on that job, or its worker row has ended

so that a worker free to claim owns no lease, although reconciliation may have
ended a worker whose expired lease is still in the table. A claim is then mapped
to taking a job, a renewal to a stutter, a finalization or a recovered lease to
giving the job back or ending it, heartbeats and registrations to stutters.

The processes have an invariant of their own, `RInv`. `ClockInv`: a time that
was read before a call is within `MaxLag` when the call is made, which is what
the queue asks of its callers. `MemoryInv`: a process that executes, or whose
heartbeat thread is alive, holds a claim that was given to it. `TableInv`: a
process that looks for a job has none in its row, the row is terminal once
`run()` has returned, and the lease never outlasts the heartbeat by more than
its duration, because `renew_lease` writes both and nothing renews a lease
alone. With the refinement every theorem about the queue is a theorem about any
number of running processes, crashes, database errors and stop requests.

### The supervisor and the scheduler

| Theorem | Statement |
|---|---|
| `ChildrenAreStopped` | `SupervisorSpec => []ChildrenStopped` |
| `CadenceIsKept` | `SchedulerSpec => []CyclesMatchCadence` |

Assumptions: a plan is a non-empty sequence of distinct names, as `build_plan`
makes it; intervals are positive, delays and cooldowns are numbers.

`SupervisorInv`: whoever runs was started, and while `_stop_all` walks over the
children each one still running lies ahead of the loop's index (`StopsReach`);
while exits are polled it is in the old list ahead of the index or already in
the new one (`PollsReach`). An exception raised at any statement therefore
finds every child that runs in the list the cleanup walks over.

`SchedulerInv`: the jobs are exactly those that the cycles name, a slot has one
cycle and every sport has a last one. `DueApart` is about what a process
remembers between reading the tables and writing: while one process runs, the
slot it is about to enqueue lies an interval after every slot there is. The
anchor cannot change in between and only this process adds cycles. With two
processes `DueApart` fails and the distance is not claimed; that each cycle
keeps its own job and none is early holds for any number of them.

### Files

| Theorem | Statement |
|---|---|
| `SnapshotsPublished` | `Spec => []PublishedSnapshots` |
| `ReadySnapshotsStay` | a READY row stays READY and its directory in place |
| `ArtifactsStayIntact` | `PublishingSpec => []ArtifactsIntact` |
| `StoredArtifactsLoad` | `RawSpec => []StoredIsLoadable` |
| `BackupRowsFindFiles` | `BackupSpec => []RowsFindFiles` |
| `FailedRestoreIsUndone` | `BackupSpec => FailedRestoreLeavesNothing` |
| `MigrationsMatchHistory` | `MigrationsSpec => []SchemaMatchesHistory` |

Assumptions: new and legacy snapshot ids differ and no id is an error's name
(`DisjointAssumption`, `OutcomeAssumption`); requests for one artifact path are
of one kind, since every kind has a directory tree of its own
(`PublishingAssumption`); a digest is not the mark of a missing value
(`DigestAssumption`); bodies are sequences of chunks (`RawAssumption`); every
artifact has a role and the database is not one (`BackupAssumption`); a package
is a sequence of migrations (`PackageAssumption`).

* Snapshots: `LockInv`, a writer is inside its transaction exactly between
  BEGIN IMMEDIATE and its end, nobody's row of that source version is active
  meanwhile, and what it commits it has renamed. `SeenInv`, an id read before
  waiting belongs to the reader's version and was verified before it is made
  READY.
* Artifacts: `PublishingInv`, the checksum a publisher holds is that of its
  request from the manifest on, and a directory is whole when it lands at the
  path; what is whole is neither missing nor empty, so later publishers give up.
* Raw store: `RawInv`, a temporary file is a beginning of what its call
  receives, until the whole of it is at its path.
* Backup: `CopyInv`, the rows were copied first, so every directory copied later
  holds their files. `RestoreInv`, a restore has changed exactly the parts it
  has published, the database last.
* Migrations: `WorkInv`, the uncommitted work extends the history by migrations
  of the writer's own package and the schema by the statements run so far.
  `StarterInv`, a process is ready only if its whole package is recorded.

### Acquisition

| Theorem | Statement | Hypotheses |
|---|---|---|
| `TablesTellOneStory` | `Spec => []TablesAgree` | |
| `RetriesAreIdempotent` | `Spec => CyclesSettle` | |
| `JobsAreNotDuplicated` | `AutomaticSpec => [](AutomaticTypeOK /\ DuplicatesSuppressed)` | |
| `ChainIsKept` | `AutomaticSpec => []OneJobChain` | `MaxFaults < MaxAttempts` |
| `RefusedKeysRest` | `AutomaticSpec => KeysRespected` | |

Assumptions: a bundle with verified markets has events, and with prices has
markets (`BundlesAssumption`: what the extractors can return); limits and times
are numbers.

`CyclesInv` adds three parts to the agreement of the tables. What an execution
has still to do covers every provider that is unsettled, so a cycle is decided
only when nothing is left to retry; `BlockKept`, a block that is not over is the
one in the provider's status; `OneUnderWay`, while no lease has been lost one
execution works. The last two are what `CyclesSettle` needs and are claimed
only while they hold in the code: once a lease is lost, two executions may work
on one cycle and `TablesTellOneStory` alone remains.

`AutoInv` is about memory that is older than the files: what a handler and a UI
operation read, at each program counter, and what of it can still have changed.
`ChainOK` says where the chain of jobs is while nobody waits for one: with the
job that runs, with the operation that is about to create it, or stopped by the
reserve; it is claimed where no control overlaps with a job, since otherwise the
chain can break (the run `automatic_resume_lost`). What is remembered of keys is
claimed with overlap: the key a handler is about to send has not failed
(`HandlerOK`), nor has the one a control writes beside an unblocked
configuration (`OperationOK`), nor the stored one while the configuration is not
blocked (`KeysOK`).

`MaxFaults < MaxAttempts` is a real hypothesis: each claim that does not end its
job costs a fault (`JobsOK`: attempts are at most faults, plus one for the job in
hand). With more faults on one job than `MAXIMUM_ATTEMPTS` the queue ends it, and
the code has nobody else to continue the chain.

### Matching events and choosing quotes

Two theorems are about functions, for inputs of any size:

| Theorem | Statement |
|---|---|
| `ExactEventsAreCompatible` | whatever the candidates, two source events that the guard and `reconcile_candidates` match exactly come from different providers, name one competition and start within the tolerance |
| `BestFreshQuoteIsSelected` | what `select_quote_pair` chooses is an open, active and fresh entry of its own provider's catalogue; two quotes that it compares are one bet; in the modes that look for the better price neither provider has such a quote that pays more, and a tie goes to Betano |

Their one hypothesis is that the value for Python's `None` (`Absent`) is none of
the reasons, quotes and prices. The first is about the functions: the service
reconciles one provider's bundle at a time, so that today its guard has no pair
to compare.

### Champions and settlements

| Theorem | Statement |
|---|---|
| `NoPromotionIsStale` | `PreparationSpec => []NoStalePromotion` |
| `RegistryIsGoverned` | `PreparationSpec => []GovernedRegistry` |
| `HistoryIsKept` | `CLSpec => []HistoryIsWhole` |
| `FinalStaysFinal` | `CLSpec => FinalIsFinal` |
| `FinalEndsTheSeries` | once a position of an analysis is final, no later report of that analysis is stored |
| `SettlementsFollowEvidence` | `CLSpec => []SettledFromEvidence` |

Assumptions: a competition has two candidates of its own, none of them a model
of the command line (`PreparationAssumption`: entries are published under the
competition's scope); positions and legs are finitely many, odds are
numbers above one, in a fixed unit (`ClosedLoopAssumption`: `opportunity` and
`combination` validate this).

`GovInv` keeps the trail of each scope as a chain: every transition but the
first replaces the model that the one before crowned (`Explained`), at versions
that were current (`Fresh`), a champion was crowned by some transition, and of
the transitions that crowned a model there is a last one (`LastCrowning`),
which the version counters make comparable. `PrepInv` says what a preparation
remembers at each stage between its transactions: a competition in hand and,
once the candidates are published, the winner of that competition's own
tournament.

`ClosedInv` has four parts: a report and its settlements are stored together
(`RunsInv`); the current settlement of a position is its latest, and a final one
stays current (`CurrentInv`); what monitoring has counted is at most what was
final by its time (`MonitoredInv`); what a job holds between its steps is
founded on snapshots that are registered (`SoundJob`). What a settlement returns
is a product of odds over its legs, a fold: an induction over the number of legs
shows that it exceeds one when there is a leg to win, and every other status
returns the stake or nothing. A conflict that a job has
seen is still one when the operator's audit is written, because the transitions
a settlement may make only narrow.

`FinalEndsTheSeries` is a consequence worth knowing: `persist_report` compares
the whole report, so after one final position the positions of the same analysis
that are still open can no longer be settled by a later report.

### The browser

| Theorem | Statement | Hypotheses |
|---|---|---|
| `FramesStayAsSent` | `StreamsSpec => []RetainedAsSent` | `TrailersLast`, `NoChunkRepeats` |
| `ObservedPassively` | `BrowserSpec => []PassivelyObserved`, the property of the run | `TrailersLast`, `NoChunkRepeats` |
| `BodiesStayRetained` | `SessionSpec => []BodiesRetained` | |
| `ResponsesStayAccounted` | `SessionSpec => []EveryResponseAccounted` | |
| `ScriptsStayAccounted` | `ScriptsSpec => []ScriptsAccounted` | |

Assumptions: the pages cause finitely many requests and responses, bodies are
sequences of chunks of bytes, sizes and limits are numbers, a queue of the
session has room for one item (`StreamsAssumption`, `SessionAssumption`,
`ScriptsAssumption`). The two hypotheses are about servers, and the code
needs them:

* `TrailersLast`: a trailer frame ends its response, as gRPC-Web prescribes. A
  stream whose trailer was seen is complete when the page is closed, although
  the browser has not said that loading ended.
* `NoChunkRepeats`: no chunk begins with everything that was sent before it. The
  first data event after the streaming command may repeat what the command
  already returned, and the code tells this by comparing
  (`cdp_streaming.py:584`); a server that really sends the same bytes again
  loses them, so without the hypothesis the statement is false.

TLC evaluates both for the bodies of the `browser` run (`RegularResponses`).

`StreamsInv` relates four places: the network, the queue, the consumer and the
decoder. `Fed`: a stream has decoded exactly what the server sent up to some
chunk, its buffer being the rest of an incomplete frame. `Pending`: unless an
observation of the request was dropped, the data observations in the queue are
the chunks from there on, each once and in order, and no more. `SendingInv`: while
the streaming command is under way nothing has been fed, and the answer brings
the chunks up to the moment the browser took the command. `OutcomesInv` and
`CountInv` say the same of finished streams and bound their number. That feeding
chunk by chunk equals feeding the whole body (`FramesOf`) rests on laws of
`FlattenSeq` and of cutting a sequence into frames.

These laws are proved by induction over data, which the library states with an
operator as a parameter and the provers cannot instantiate. `NaturalInduction`
states it for a set instead: a set that holds zero, and the successor of each of
its naturals, holds all of `Nat`. It follows from the well-foundedness of `<`,
whose statement has no such parameter, and is applied to the set of the numbers
with a property. `LearningProofs` proves the product of odds of a combination
with the same lemma.

`SessionInv` follows a response from the browser to its end. `PlaceInv`: once
reported it is in the queue, in the batch, among the pending ones or has ended,
and in one of them only; `OnceInv`: none of the three holds it twice. `KeptInv`
keeps the two readers apart: what a finite reader retains has ended, and for a
response whose reports came in the order the code relies on (`InTurn`), what the
observer has still to drain is in no batch and not pending, because it drains its
queue before the page's queue is taken; so what it streams the finite reader finds
owned by its URL, or still has not seen. What was streamed is owned until it has
ended, which makes `BodiesRetained` true when a new route replaces the observer.
`StageInv` says where a drain leads and that a closed observer has recorded what
it owned, `StreamedInv` that what was left to a stream has one. `BudgetInv` counts
the retained bytes as a set, a response with a position in its body, so that a
body adds its size and no sum over responses is needed.

### Only model-checked

* Liveness (`ExitsWhenTold`, `SupervisionEnds`, `SchedulerStartsSports`,
  `KeepsAcquiring`, `StoreDownloadsEnd`): the prover does not reason about
  fairness.
* The properties of `MCAlgorithms`. They are statements about what whole
  pipelines of recursive functions, folds and sorts compute on an input; the
  inductions they would need were not carried out. The two theorems on matching
  and choosing say, for inputs of any size, what two of the steps promise.

## 6. What is left

Proofs: the rest of the algorithms, beginning with the temporal folds and
multiples.

Models: the operator's single-provider job and the drift findings of the bookmaker
cycle; signal handling and bootstrap of the scheduler process; the
comparison of prices inside automatic market data; the selection rules of a
tournament.

Operators that translate code but are evaluated by no run yet: the retraining
trigger, the eligibility ledger and the champion history of `ClosedLoop`
(`EligibilityState`, `RetrainingDue`, `PromoteChallenger`,
`RollbackChampion`); in `Monitoring` the aggregation of verified backtests and
the validation of inputs and policies; in `BrowserContracts` the contracts of
navigation, frames, pages and schema summaries.

## 7. Not modelled

* Floating-point models, calibration and metrics (`models/`, `evaluation/
  metrics.py`), proposals, policies and economics: numerical, out of TLC's reach.
* Parsers and mapping tables (`sources/betano`, `sources/betclic`,
  `canonical_mapping.py`), ingestion of football history, participant
  registries: sequential functions of text, covered by tests on captured pages
  and files. What they produce is the input of the modelled parts, and their
  snapshots are published as `SnapshotPublication` describes.
* Product services, product orchestration and operator input pages: sequential
  pipelines over immutable artifacts; what they write goes through
  `ArtifactPublication`.
* Power loss: files are taken to reach the disk; the code does not fsync
  snapshot files before READY is committed.
* Wall clocks that run backwards, and SQLite's own guarantees.
* UI pages that only read, settings, logging and command lines.
