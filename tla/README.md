# ExpiryManager: TLA+ models, checks and proofs

ExpiryManager downloads market history through one broker account. The account allows 200
requests a minute and blocks the day after three violations, its token dies every night, and a
backfill is thousands of requests that must survive kills, refusals and a user who cancels. What
comes back is kept in two databases, numbered, versioned, exported and charted. The code is one
asyncio process over SQLite tables and a DuckDB file with a single writer, and it is what these
modules model.

## The system

Paths are under `src/backend/expirymanager/`.

| Component | State | Operations | Talks to |
|---|---|---|---|
| Task and job tables, `pipeline/queue.py` | rows: state, attempt, owner, expiry; job status, cancel flag | lease, ack, three nacks, release, reclaim, cancel_pending, aggregate | everybody, through SQL in threads |
| Dispatcher, `pipeline/dispatcher.py` | buffer, `_resumed`, the refill coroutine | refill, pause, drain, resume | claims from the tables, feeds the workers |
| Workers, `pipeline/worker.py` | the task in hand and its token generation | take, check gates, run the handler, answer | the tables, the supervisor |
| Supervisor, `pipeline/supervisor.py` | the two gates, `_park_lock`, `_last_mode` | on_auth_failure, on_rate_limited, cancel_job, settle, mode loop, reclaim loop, start, stop | all of the above, the governor, the broker |
| Job service, `pipeline/jobs.py` | none of its own | commit, pause, resume, cancel, retry_failed, defer, recovery | the job table |
| Planner and coverage, `pipeline/planner.py`, `db/queries/coverage.py` | none | sheets to chunks, windows missing | the ledger, the calendar |
| Candle handlers, `pipeline/handlers/candle_chunk.py`, `spot_chunk.py` | none | ingest, ledger row, next older chunk, seal | the tables, the writer |
| Discovery, `pipeline/handlers/*_discovery.py`, `db/ids.py`, `db/writes.py` | identifier blocks, contracts, expiries | assign, renumber, roll up, enqueue chunks | the writer, the tables |
| Underlyings, `api/v1/underlyings.py`, `db/catalog_sync.py` | registry row, mirror row, root registry | create, patch, delete, mirror at start | both databases |
| Token broker, `brokers/fyers/tokens.py` | token row and cache, generation, parked generation | store_login, on_auth_error, clear, expiry | the governor's mode |
| Scheduler, `scheduler/*.py` | schedule table, triggers in memory | edit, install, fire, catch up | broker, governor, job service |
| Governor, `brokers/fyers/throttle.py` | semaphore, two windows, mode, budget row | acquire, release, note_rate_limited, set_mode, resume, refresh_day | the HTTP client; the `api_budget` table |
| Login and credentials, `api/v1/broker.py`, `brokers/fyers/auth.py` | credential row, authorize states | save, connect, callback, disconnect | token broker, job table |
| Symbol master, `brokers/fyers/symbol_master.py` | snapshots, versions, roots | download, guard, merge, rebuild | the writer, files |
| DuckDB writer, store, maintenance, `db/writer.py`, `db/duck.py`, `db/maintenance.py` | a queue, a task, a connection, three files | start, stop, submit, open, close, optimise, backup | handlers, API, dispatcher |
| Exports, `db/exports.py`, `pipeline/handlers/export.py` | file, sidecar, manifest, row, job | run, settle, delete | both databases, disk |
| Event bus and progress, `pipeline/events.py`, `progress.py` | ring, subscribers' queues, dirty marks | publish, subscribe, flush, close | supervisor, browser |
| Local account, `api/v1/auth.py`, `security/sessions.py` | one user row, sessions | setup, login, change, slide, revoke | SQLite |
| Keys, `security/keys.py`, `kek.py` | key file, `crypto_key` rows, cache | provision, rotate, sweep, rewrap, retire | SQLite, disk |
| Settings, `settings_store.py` | table, cache | set_many, read | everybody |
| Start-up, `lifespan.py`, `db/migrate.py` | what runs, schema, ledger | start, unwind, stop, migrate | all of the above |
| Read API, `api/v1/*.py`, `db/queries/*.py` | a cursor in the client | listings by page, charts by window | both databases |

How they interact: the coroutines share memory and lose the event loop only at an `await`; SQL
runs in threads, one writing transaction at a time; a coroutine cancelled while its thread runs
does not stop the thread. The governor has no callback, so the supervisor polls its mode. SQLite
and DuckDB share no transaction, so whatever lives in both is written twice.

What is hard here: claims that outlive the coroutine that asked for them; parking, login, mode
loop and cancel running into each other between awaits; a verdict read in one transaction and
written in another; kills between two transactions, two statements or two renames; budgets checked
before a wait and charged after it; a database closed under the objects that use it; identifiers
that move while writes on them are queued; one fact kept in a file, two databases and a cache.
`PROJECT.json` lists each hazard at its line with the properties that cover it.

## The modules

| Module | What it is |
|---|---|
| `TaskLedger` | abstract specification of the durable table: rows open, are charged, get one outcome, are cancelled only on request |
| `LeaseQueue` | the two tables, one action per SQL statement or transaction; implements `TaskLedger` |
| `Pipeline` | dispatcher, workers, supervisor, routes and login over `LeaseQueue`'s actions; one action per stretch between two awaits |
| `Governor` | the limiter, its callers, its mode machine and its durable budget |
| `CandleWalk` | planner, coverage ledger, candle transaction, backward walk, seal |
| `Catalogue` | underlyings, expiries, contracts, identifier blocks, bars under them |
| `SymbolMaster` | daily files, versions of instruments, roots |
| `Automation` | schedules, triggers, fires; the token from login to expiry; deferred jobs and the sweep |
| `BrokerLogin` | credentials, authorize states, callback, stored token |
| `MarketStore` | the DuckDB writer, the store and the two operations that close the file under it |
| `Exports`, `Streams` | one export through its five places; frames, ring, queues and progress |
| `Access`, `KeyRing`, `Settings`, `Lifecycle` | account and sessions; two levels of keys; settings and cache; start, stop and migrations |
| `Listings`, `ChartReads` | paged reads and chart windows while rows come and go |
| `MCLeaseQueue`, `MCPipeline`, `MCGovernor`, `MCCandleWalk`, `MCAutomation`, `MCCatalogue` | small instances for TLC |
| `Registry` | `Catalogue` with instances of `SymbolMaster`, `Access`, `BrokerLogin`, `KeyRing`, `Settings`, `Listings`, `ChartReads`: their constants and variables under names of their own, and one property or two for each |
| `Console` | the same of `MarketStore`, `Exports`, `Streams`, `Lifecycle` |
| `MCRegistry`, `MCConsole` | values for `Registry` and `Console`, one component moving in each behaviour |
| `LeaseQueueProofs`, `PipelineProofs`, `GovernorProofs`, `CandleWalkProofs`, `AutomationProofs`, `CatalogueProofs`, `RegistryProofs`, `ConsoleProofs` | theorems |

**LeaseQueue.** `task[t]` and `job[j]` are the rows. Timestamps become the answers the WHERE
clauses ask for (`backoff`, `lapsed`); priority order is the numbering of the tasks; `nack_auth`
and `nack_rate` differ only in the columns left out and are one action, `Park`. `Spec` lets any
owner issue any statement at any moment, except that a sweep needs the cancel flag, which both of
its callers raise first. `Pipeline` is checked and proved
to keep to that (`ImplementsQueue`).

**Pipeline.** `proc[p].pc` is the await a coroutine stands at: a worker's task (`prepare` ..
`sent`, `walked`), its reaction (`authfail`, `ratefail`, `lock`, `publish`), the pause that parking, the mode
loop and a cancel route share (`drain`, `release`, `park`/`sweep`), settling (`settle`, `finish`),
the login callback (`lift`, `requeue`). `disp` is the refill coroutine, `strays` the claims whose
coroutine was cancelled. A handler is what every handler does: fetch a token, wait for the
governor, send, and meet any answer class of `errors.py`. After data the candle handler may write
the next older row of its job (`PlanOlder`), after an empty window skip the older ones (`EndWalk`),
both before the ack; which of the two and when the walk stops is left open. Of the governor only the mode is kept,
and of the modes `running`, `paused_auth` and `paused_rate`: the others reach the supervisor
through the same mode loop and park no job. The generation a worker reports is the one it saw when
it took the task, the token it sends is the one current when it prepared the request, as in the
code. Environment events are named in `Faults` and limited to `MaxFaults` in a behaviour; logins
to `MaxLogins`.

**Governor.** `at[c]` is the wait a caller stands at inside `acquire`. Windows are sequences of
grant ages in ticks; FIFO order is the lock's. Every section under `_state_lock` is one action,
with the day roll it begins with. `Restart` reloads the row. A caller may be cancelled at each of
the waits.

**MarketStore.** Database files, writer objects, writer tasks and connections are numbered by
creation, because the code compares none of them: a rename moves a file between the three paths
of `path`, an open connection keeps its file, and a coroutine keeps the writer object it picked up
(`held`) however often the store makes another. A file holds the set of writes committed to it.
`work[m].step` is where a maintenance operation stands, one step per statement of
`_compact_sync` that the others can observe. `Commit` is the transaction: it succeeds only on a
cursor of the open connection, and may fail at any time (`Rollback`). `DuckWriter.stop` is
`Quiesce` up to its await and `Drained` after it. `Crash` keeps the three paths and starts again on
whatever is at `market.duckdb`, a new empty file if nothing is.

**CandleWalk.** Days are numbers, an expiry is `LastDay`, and a contract's life is a choice of
`Births` with the closed days left out. `Plan` is a sheet through the planner: held windows, missing
windows, chunks from the calendar, `force` or not. A chunk is claimed, received, stored with its
ledger row in one transaction (`Stored`), and then, in transactions of their own, followed by the next
older row (`InsertFollowup`), by the skip of the older ones, or by the two reads of the seal. A kill or
a failed request may come between any two of them.

**Catalogue.** `registry` is SQLite, `mirror`, `expiries`, `contracts` and `bars` are DuckDB. A create,
a patch or a delete is a sequence of steps of a caller (`call[a].op`), a discovery one of the worker
(`work`). `ReserveBlock`, `Assign` and `Remap` are `db/ids.py` and the renumbering in `db/writes.py`;
a bar carries whose it is, so that a renumbering that loses the thread shows.

**SymbolMaster.** A run takes the files in order: download to a part file, guard, merge, snapshot. The
merge's four statements are four operators over the set of versions (`Amend`, `CloseChanged`,
`CloseGone`, open new). Two runs may overlap.

**Automation.** Time is half days of India, so that 00:01, 03:00, and the change of the date in UTC
fall apart. `schedules` is the table, the installed triggers are `fire`. A fire reads, waits for the
lock, acts and records; a route edits the table and installs again in steps. `rows` and `broker` are
the token in the table and in memory.

**BrokerLogin.** A state is minted, the user is away, the callback consumes, exchanges and stores;
saving credentials may come between any two of the steps.

**Exports.** `run[e]` is where the background task stands, `disk`, `row`, `manifest`, `job` and `frames`
the five places; a deletion is four steps of its own.

**Streams.** Frames are numbers, the ring and the queues are sequences of them; a flush is read, then
awaited, then compared and published. `flush["loop"]` is the loop's, `flush[j]` that of the settling of
job j, which flushes every job that is marked.

**Access**, **KeyRing**, **Settings**, **Lifecycle.** One action per statement or critical section. A
lockout is a row and a clock, a key is a number with the provider that wraps it, a cache is what was
read and when, a start is the sequence of `lifespan.py` walked forwards and back.

**Listings**, **ChartReads.** A page is one read with what the last one left in the cursor; a chart is
two or three reads with the writer in between.

`Freedoms` is a constant of most modules: each is something the code does not rule out and its
documents assume away, or that another layer is trusted with. The passing runs leave them out (`{}`)
and say so; the table under "Freedoms" names the property each of them breaks. They are the
assumptions under which the promises hold.

## What the runs check

| Run | Specification and bounds | Shows |
|---|---|---|
| `queue` | `LeaseQueue!Spec`; 2 tasks of 2 jobs, 2 owners, 2 attempts | `LeaseInv` (types, lease shape, attempt budget), `ImplementsLedger`, `ClaimsInOrder` under every order of statements |
| `pipeline_faults` | 1 job, 2 tasks, 2 workers, buffer 2; any 2 of 11 faults | `ImplementsQueue`, `FinishedMeansDone`, `HonestVerdict`, `RowsInOneHand` |
| `pipeline_parking` | same; 2 of rejection, rate limit, disconnect, re-login; 1 login | `OnePromptPerGeneration`, `ParkingIsFree` |
| `pipeline_progress` | same with fairness; 2 of transient, fatal, late lease, crash | `EveryJobEnds`, `EveryLeaseEnds` |
| `governor` | 3 callers, 2 slots, 2 a second, 1 a minute, a minute of 2 ticks, budget 2, 1 violation, flush 2, 2 days | `GovernorInv` (slots, overshoot, durable budget), `RateKept`, `BlockedDaySpendsNothing` |
| `walk` | 5 days, 1 contract and its spot, 2 workers, 2 jobs, 1 fault, chunks of 2 days | `LedgerSound`, `WalksApart`, `PlannerExact`, `WalkEnds` |
| `automation` | 4 half days, 1 own schedule, 1 job, 2 events, 1 editing route | `TriggersMirrorTable`, `TokensSound`, `TokenLeavesForAReason`, `HeldBackMovesOn` |
| `registry` | `Catalogue` with 2 underlyings, 2 dates, 3 strikes, blocks of 2, 3 calls, 2 answers, 1 kill; `SymbolMaster` with 2 overlapping runs, 3 in all, 3 days, 1 fault; login, keys, settings, account, listings, chart with the bounds in `MCRegistry` | `CatalogueSound`, `IdentityKept`, `VersionsSound`, `HistoryKept`, `LoginSound`, `KeysSound`, `SettingsSound`, `AccountSound`, `PagesSound`, `ChartSound` |
| `console` | `MarketStore` with 2 writers of 2 writes, 1 operation, 1 failing step, 1 kill; 1 export, 1 kill; 2 jobs of 2 tasks without readers, 1 such job with 2 readers, ring and queues of 2, 1 restart; 2 migrations, 2 starts | `StoreSound`, `StoreGoesOn`, `ExportsSound`, `EveryExportEnds`, `StreamsSound`, `StreamsCatchUp`, `ProcessSound`, `StartsOrStops` |
| `login_reanchored`, `contract_displaced`, `paging_skips` | 1 or 2 faults or the freedom of the kind named | the divergences below |

Most of these are conjunctions of named promises, each defined and explained in its component's
module: `CatalogueSound`, for one, is `BlocksDisjoint`, `IdsInBlock`, `BarsBelong`, `RollupsMatch`,
`RegistryMirrored`, `RowsHaveOwners` and `FollowUpsOnce` with the types. The definition in the
component, or in `Registry` and `Console` for the components instantiated there, names the parts.

Why the bounds are enough. Two tasks are the least that can be split between two workers, between
buffer and worker, and between a claim and a return; one job is enough for the pipeline because
parking and draining treat all jobs alike, and `queue` covers two. Two faults allow every ordered
pair (a park during a cancel, a crash during a park, a rate limit behind a rejection). Two
attempts reach both branches of a charge. The governor's third caller is the one that finds no
slot; a minute of two ticks separates a grant from a send that comes later; each bound in
`SendsPerMinute` and `OvershootBounded` is reached, so neither is slack. Lapses are left out of
`pipeline_faults` because `ClaimsHeldOnce` assumes leases that hold; they are in
`pipeline_progress`.

Five days with chunks of two are three chunks, the least with a first, a middle and a last; lives begin
inside, at the edge of and after the window; the second job finds what the first left. Blocks of two
outgrown by a third strike, a second expiry in the next block, and an underlying deleted under a
discovery are the renumberings there are. Three runs of the symbol master are two that overlap and one
that sees what they left; a file of three instruments loses one, two or all of them. Three half
days after a login are the expiry, the logout and the day after. Pages of two over four rows make
three pages with one row joined twice; a chart of three seconds has an edge on both sides.

Two writers of two writes each give one write committed before an operation and one queued during
it, on a handle picked up before or after. The queue never fills: `StoreAssumption` has fewer
submitters than places, which the code's 256 places against a handful of workers and routes
justify. One operation is the bound on purpose (see below). `DispatcherResumes` makes one exception, a
rename that failed after the close: the writer's start then raises and the dispatcher stays paused. A
ring and a queue of two overflow with the third frame.

`registry` and `console` put components side by side that share no variable. Only one of them moves in
a behaviour, so the state space is the sum of theirs and not the product, and each is explored as if
alone; their fairness conditions are conjoined and a component that never moves has none of its
actions enabled.

Deadlock is checked for `queue` and `governor`. The others may stop: when every job is final, every
page read, every write done and the budgets are used there is nothing to do.

Fairness is weak everywhere, and only on what the program or time does by itself. In `Pipeline`: the
loop resumes a ready coroutine, a thread ends, the reclaim and mode loops poll, a killed process is
started again, back-offs end, a lease nobody holds runs out. `EveryJobEnds` is stated for the
run the job was committed in: after a restart a running job is paused for the user. In `MarketStore`
the writer tasks and the maintenance operations go on when they can. In `CandleWalk` a worker takes and
finishes what is there. In `Automation` time passes, fires fire and finish. In `Exports` the background
task goes on; in `Streams` the flush loop runs, and a reader that is on reads; in `Lifecycle` a start
and a shutdown go on. Nothing a user or the broker does is fair: requests, logins, edits, deletions,
connections, submissions.

## Divergences found

With a run each:

1. **Login during parking** (`login_reanchored`). `_publish_mode` re-anchors `_last_mode` after the
   parking section; if the login returned the governor to running meanwhile, the mode loop sees no
   change and the dispatcher stays paused. `docs/PIPELINE.md` promises that the callback resumes
   the backfill. Even the weaker claim that the auth gate is open fails: `on_auth_failure` clears
   the gate before it compares generations, so a report of an old token closes it after the login.
2. **A contract displaced** (`contract_displaced`). When a block overflows, every contract of the answer
   is renumbered; if the next answer is short, its contracts are numbered among themselves, and a
   contract the answer does not mention can lose its identifier, and its row, to another. The docstring
   of `ContractBatchWrite` says a contract the response does not mention is left alone.
3. **Pages that skip** (`paging_skips`). `list_contracts` orders by the column asked for and cuts by
   `contract_id` alone. Where the two do not ascend together, contracts never show, although nothing
   is written meanwhile. The docstring calls this what makes paging correct.

### Stated in the modules, not kept as runs

Each of these is a formula of the module, does not hold, and has no run of its own:

| Formula | What happens |
|---|---|
| `Pipeline!CancelLeavesNothingPending` | a chunk in flight during the sweep writes its older neighbour as pending afterwards; nothing claims or cancels it and the job never ends (supervisor.py:404, candle_chunk.py:837) |
| `Pipeline!NoOpenTaskMeansFinal` | a kill between the last ack and the verdict leaves a job without open rows that nothing settles |
| `Pipeline!FencedCompletion` | the owner string names the process, so it does not fence a completion from an earlier lease of the same process |
| `Pipeline!RateStopWaitsForUser` | `paused_auth` overwrites `paused_rate`, and the login lifts it (PIPELINE.md:172) |
| `MarketStore!QuietDuringRewrite` with `MaxRuns = 2` | optimise and backup do not exclude each other; the second operation closes or copies the file while the first still drains the writer |
| `CandleWalk!SealedMeansHeld` | the seal goes by the sheet's left edge, not by the contract's life (PIPELINE.md:112) |
| `SymbolMaster!GoneMeansClosed` | an instrument added and lost again on one day is not closed by the later file (rows of the same day are left alone), and the unchanged files of the following days are skipped, so it stays current |
| `Automation!ReserveKept`, `DeferredWaits` | a sweep may spend more than its reserve (PIPELINE.md:183); a job held for tomorrow is released by a restart of the same day |
| `Exports!LedgersNeverDisagree`, `PartialsAreCleaned` | an export killed under way stays running; a partial file of one export is not cleaned by the next |
| `Streams!ReconnectGetsRing` | a reader that comes back with an id of the last process gets only the newer part of the ring when the id is small enough |
| `BrokerLogin!ReplacedIsRefused` | credentials replaced before the callback arrives are not compared with those of the login: the old code is exchanged under the new app |

### Freedoms

| Module | Freedom | Breaks |
|---|---|---|
| `Catalogue` | `short_response`; `fires_any_time`; `edits_unmirrored`; `behind_strays` | `KnownStaysKnown` and, when the others move to a larger block, `IdsInBlock`; `RowsHaveOwners`; `TypeOK` (two contracts under one identifier: a new underlying is given the spot number of one without a mirror row); `BarsBelong`, from three answers on (see below) |
| `SymbolMaster` | `published_meanwhile`; `midnight_meanwhile` | `ListedIsAnswered`; `PastIsFixed` |
| `Automation` | `edits_overlap` (two routes); `edits_at_the_hour`, `sleeps`; `login_during_logout` | `TriggersMirrorTable`; `DeferredIsReleased`, `ExpiredIsParked`; `TokenLeavesForAReason` |
| `Exports` | `delete_early`, `killed_after_landing` | `DeletedStaysDeleted` |
| `Streams` | `flushes_overlap`, `stop_midway`; `gone_before_start` | `FramesConverge`; `SlotsMatchStreams` |
| `Access` | `logins_overlap`; `login_during_change` | `WrongPerWindow`; `OneAccountOnePasscode` |
| `BrokerLogin` | `replaced_during_login` | `TokenFitsCredential` |
| `KeyRing` | `killed_midway`, `restart_after_rewrap`; `stored_late` | `NeverRefused`; `EveryFieldReads` |
| `Settings` | `writes_overlap`, `read_fails` | `CacheAgrees` |
| `Lifecycle` | `half_started`, `stop_raises` | `NeedsRun`, `AllTornDown` |
| `Listings` | `ids_disagree` | `NothingSkipped` |
| `ChartReads` | `written_between` | `AnswerFits` |

### Read in the code, without a run

Walk: a forced refresh clears no seal (PIPELINE.md:116) and never reaches `request_params`
(planner.py:631); a holiday the calendar does not know at a chunk's left edge ends the walk and seals;
two resolutions that end together seal nothing (candle_chunk.py:919); a re-discovery writes `sealed_at`
back to NULL. Catalogue: a delete without purge followed by a registration gives the old spot number
out again; two creates take the same number (underlyings.py:604, 707); a renumbering does not touch
the chunk rows of SQLite, so a chunk that runs after its expiry's block moved stores its bars under an
identifier no contract has; no purge finds them, and when the underlying is gone and the sequence is
behind, as a restored file leaves it (ids.py:151), the identifier is given to another contract. Symbol master: overlapping runs share one `.part` file; the guard compares
only with the previous snapshot. Scheduler: a user's schedule that created a job cannot be deleted
(0002_pipeline.sql:62). Exports: a delete while the work runs is overwritten by the final `ready`
(API.md:481). Streams: nobody calls `EventBus.close`; a late `running` frame can follow `job_finished`
(supervisor.py:366-379), and the flush of one job's settling can read another job while the loop does,
so that the older count is published last (progress.py:163-180). Access: nobody calls `SessionManager.rotate`. Listings: jobs page by
`created_at` alone, so two of the same instant can split. Keys: rotate, rewrap, retire and re-encrypt
have no caller but the tests. Settings: any DatabaseError is taken for a table that is not there.
Lifecycle: `supervisor.stop` may raise before the dispatcher is stopped. Store: after a kill between
the renames the start creates an empty database, and the next optimise removes `.compact` and
`.before-compaction`, the files that hold the data; an overlapping operation that fails early starts a
second writer task. Pipeline: no operation of the API resumes a pause on a rate limit.

## What is proved

`LeaseQueueProofs`, from the four assumptions of `LeaseQueue` (tasks are a finite set of numbers, each has a
job, the retry budget is positive, NULL is no owner), for every number of tasks, jobs, owners and
attempts:

- `LeaseInvInductive`, `TypeCorrect`, `LeaseShapeAlways`, `AttemptBudgetAlways`. The inductive
  invariant is `LeaseInv == TypeOK /\ LeaseShape /\ AttemptBudget /\ AbsentIsFresh`.
  `AttemptBudget` alone is not inductive: a commit opens rows, so rows not yet written must carry
  no attempts. Lemmas say field by field what `SetState`, `SetJobs` and `Lease` write; each statement
  is argued from the fields.
- `TablesImplementLedger`: each statement is a step of `TaskLedger` or leaves it unchanged.
- `ClaimsInOrderAlways`: the rows a claim takes are a prefix of the runnable rows sorted as the claim's
  query sorts them, all of live jobs; no other statement leases a row.

`PipelineProofs`, from those and `PipelineAssumption` (a positive buffer, one owner for the first run
and for every restart the fault budget pays for, coroutines with distinct names), for every number of
workers, tasks, jobs, logins and faults and every buffer size:

- `PipelineInvAlways` and `PipelineImplementsQueue`: each step of the pipeline is one statement of
  `LeaseQueue` or none. `LeaseQueue` asks that a sweep finds the flag raised, that updated jobs
  exist, that verdicts are final and owners known; a step can only be shown to keep to it with
  facts about where the coroutines stand. `PipeInv` is those facts: what `ProcOK` says of each
  coroutine, types of buffer, refill and broker, `RunsCounted` (there is an owner for every run) and
  `ResumingKnown`. They survive other coroutines' steps because no statement deletes a job or lowers
  a cancel flag (`StatementsGrow`). One lemma per group of actions; `OneMoves` and `NobodyMoves`
  carry the facts of those that stand still.
- `PipelineKeepsPromises`: so the running pipeline has `LeaseShape`, `AttemptBudget`,
  `ImplementsLedger` and `ClaimsInOrder`.

`GovernorProofs`, from `GovernorAssumption` (the limits and bounds are positive, the callers finitely
many), for every number of callers, every limit and every number of days:

- `GovernorInvAlways`: `GovernorInv` is inductive. Besides `SlotsConserved` it says what the named
  properties leave open. `Booked`: the newest row on disk is the one in memory short of exactly
  `unflushed` requests, and no row lies in the future, so a new day is one nobody has used.
  `Provided`: the requests used and the callers past the gate but not counted stay together under the
  budget plus the callers; `OvershootBounded` alone would let a counted request break it.
  `BlockedHolds`: a blocked day has nothing unflushed (or a restart would give requests back), and if
  the mode is running, as it is after a restart, nobody is past the gate. Callers are counted by where
  they stand; `Moves` says what one move does to a count.
- `SlotsConservedAlways`, `OvershootBoundedAlways`, `DurableBudgetAlways` follow from the invariant;
  `BlockedDaySpendsNothingAlways` from it and the step, since each action's lemma also shows `Spends`.
- `RateKeptAlways`: the windows hold no more grants than their limits, and a minute sees no more
  requests than the limit and the callers between grant and send (`Slack`). `GovernorInv` does not
  imply it: a window is cut by the age of grants, a minute by the age of sends, and a send comes later
  than its grant. `WindowInv` matches all but `Slack` of the last minute's sends with grants no older,
  the newest with the newest, so that what a tick drops from the window has no younger send behind it.

`PipelineProofs`, on top of `PipelineInv`, for the same constants:

- `ParkingIsFreeAlways`, `OnePromptPerGenerationAlways`, `PipelineTypeCorrect`, `PausedBufferIsEmpty`,
  for any faults. One prompt needs two facts: what the coroutines in a parking section hold is not
  above the generation parked for (`PromptInv`), and no two parking sections report one generation.
  That the buffer never overflows, although a refill measures its room before it claims, needs the
  count of claims under way (`DispatchInv`).
- `RowsInOneHandAlways`, `FinishedMeansDoneAlways`, `HonestVerdictAlways`, without `lapse` among the
  faults: a lease given back under a working holder puts the row in two hands. `HandsInv` says that
  the rows in the buffer, in a claim under way, with a worker and in a drain are leased to this run
  and all different; `VerdictInv`, that a verdict a coroutine has read and not yet written fits the
  rows, since no worker holds a row of that job and nobody can plan one.

`CandleWalkProofs`, from `WalkAssumption` and finitely many contracts and resolutions, for every
calendar, every set of sheets, workers, jobs and failures and every width of a request:

- `WalksApartAlways`: `WalkInv` puts every row on a grid, the n-th window back from its sheet's
  right edge, the oldest cut at the left edge. The planner cuts that grid; the walk takes its next
  window from the left edge and the width of the chunk it holds, and stays on it because a chunk that
  was cut has nothing before it. Rows at different distances share no day, and a job has no two at one.
- `LedgerSoundAlways`: a ledger row and the bars it speaks of are written in one transaction. The
  response for a window is the series' life cut to it, so a replay, or another job's overlapping
  window, writes what is there already. That a total counts its job's rows goes with the grid: a new
  row is inserted only for a window the job has none for, so rows and total grow together.
- `PlanningExactAlways`: the gaps `MissingWindows` returns are exactly the days no ledger row covers,
  and a contract that misses a day of its life is planned again. `MergeRanges` folds over a sequence of
  any length, so this is induction: over the finite sets of windows not yet taken, or of positions not
  yet folded, with a set of good sets where a theorem of the library would take a predicate
  (`SetsBySteps`, `FoldExists`). `Folded` is its invariant: what is merged so far is in order, nothing
  touches, and it covers the days the windows cover. No hole is missed, since a chunk at or after it
  that was recorded empty would span an open day (`WalkAssumption`) on which the contract traded.
- `PlannerExactAlways`, where the calendar knows every shut day (`Closed = Holidays`): a settled walk
  has left nothing out. `SettledMeansHeld` says nothing of a walk under way. `HoldInv` does, row by
  row: every day after a planned row is held (`Newer`); a row that ended well has its own days held
  (`Own`), and before it the life is held, or an older row of the job is there, or a planning step was
  lost (`Older`); a skipped row lies before the birth (`Unborn`). The oldest row of a settled walk has
  no older one to refer to. TLC has checked `HoldInv` on the instance of `walk`. The hypothesis is
  needed: with `Holidays = {}` TLC finds a walk that stops at a chunk whose left edge is a holiday the
  calendar does not know, since its first bar then looks like the first of the life.
- `NothingLostAlways`: no step gives up a covered day or a stored bar. The transaction deletes its
  window before it inserts the answer; by `LedgerHonest` each bar deleted is of a day the series
  lived, so the answer has it again. No run checks it, it is stated for the proof alone.

`AutomationProofs`, from `AutomationAssumption` (numbers are numbers, a created schedule does not have
a builtin's id), for every set of schedules and routes and any number of logins, refusals and restarts:

- `TokensSoundAlways`, all freedoms included. The last login has a generation `g`, the greatest of the
  table, and only its row can be used; what the broker remembers is older or says the same. So a
  loaded broker is always `g` and the usable rows (`LoadedIs`), and every step that asks it a question
  gets that answer.
- `TokenLeavesAlways`, without `login_during_logout`: a logout that has parked the pipeline finds
  nothing more to destroy (`LogoutInv`), so its second step takes no login away.
- `TriggersMirrorTableAlways`, without `edits_overlap`: at most one change is under way, and what it
  has listed is the table. Without the freedom excluded two changes could list two tables and add both.

`RegistryProofs`, for every number of browsers, sessions, settings, fields, bars, files, instruments
and steps, one inductive invariant for each component (`AccountInv`, `LoginInv`, `SettingsInv`,
`KeysInv`, `ChartInv`, `MasterInv`, `PagesInv`):

- `AccountSoundAlways`, without `logins_overlap` and `login_during_change`. The windows of a session
  follow from its start and its last write; the failures since the last lock are counted or the lock
  outlasts them.
- `LoginSoundAlways`, without `replaced_during_login`: a callback under way presents the credentials
  that are stored.
- `SettingsSoundAlways`, without `writes_overlap` and `read_fails`: the cache is the table but where a
  write is under way, and two writes under way are of different settings.
- `KeysSoundAlways`, without `killed_midway`, `restart_after_rewrap` and `stored_late`: which rows each
  key wraps at each step of a rotation and of a rewrap, and so what a start may find.
- `ChartSoundAlways`, without `written_between`: the bounds a request carries from its count to its read
  hold of the bars as they still are (`BoundsHold`), and what is on the chart is a page that ends where
  the last one began.
- `VersionsSoundAlways`, without `published_meanwhile` and `midnight_meanwhile`. `MasterInv`: two
  versions of an instrument follow one another and none begins after today; every snapshot is answered
  by the versions for its day, and the last one of a file by the current versions; a run is of today,
  and what it read and what stands at the paths it shares with others is what the broker serves. So
  two runs that overlap merge the same content, and the second merge changes nothing. The operators of
  the merge (`Amend`, `CloseChanged`, `CloseGone`, `OpenNew`) are put together row by row (`Settled`),
  which is where most of the lemmas are.
- `PastIsFixedAlways`, from the same invariant: no step changes what an earlier day is answered, and a
  rebuilt registry knows every root that the last snapshots know of.
- `HistoryKeptAlways` adds `NoMassClosing`, for files of which the guard can tell a cut one
  (`FilesAreCut`): `_guard_against_shrinkage` compares the number of rows, so a file of the same length
  that listed other instruments would pass it and close most of the versions.
- `PagesSoundAlways`, without `ids_disagree`. `PagesInv`: what lies behind the cursor is what was shown
  and nothing else that is there to stay. That a page is cut at a row at all takes a counting argument:
  of more rows than a page holds, one has exactly `PageSize - 1` of them before it (`PlaceExists`).

`CatalogueProofs`, from `CatalogueAssumption`, for every number of underlyings, expiries, strikes and
tasks, all sizes of blocks and all bounds:

- `BlocksDisjointAlways`, `OneEachAlways`, `FollowUpsOnceAlways`, all freedoms of `Catalogue` included
  and for any number of requests at once. `CatalogueInv` says that a block is whole units of the
  sequence, begins past the underlyings' numbers and meets no other; that each contract of a chain has
  one identifier to itself; and that a job has one chunk of an identifier. A reserved block lies past
  the recorded ones wherever the sequence stands (`ReservedBeyond`); the names of a batch and the free
  identifiers of its block are matched by rank, by counting (`Ranked`, `AssignFits`).
- `IdsInBlockAlways`, `KnownStaysKnownAlways`, without `short_response`: the batch then names every
  contract of its expiry, so none stays behind in an old block and none is displaced. That the write
  takes no row of another expiry is `BlocksDisjoint` and `IdsInBlock` together.
- `CatalogueSoundAlways` and `IdentityKeptAlways`, whole, under `SoleAssumption`: one request at a time,
  deletes that purge and none of the four freedoms, which is the regime the run `registry` explores. (Of
  requests that overlap, two creates take the same number.) The
  nightly discovery, the discovery handlers, the chunks and the kills still come between any two writes of
  a request. `SoleInv` says besides what the property says: a number, a symbol and a series are of one
  underlying, the same in both databases (`KeysApart`); what a request or the worker has read and carries
  to its next write still holds (`RequestFits`, `WorkFits`), so a removed underlying has no live row when
  its rows go and nothing is filed under a number that is about to be given again; and every bar, and
  every chunk that is still to be stored, is of the contract that has its identifier, or of none, and then
  no block holds that identifier and the sequence is past it (`Fits`, `Passed`). `BarsBelong` alone is not
  inductive: a chunk queued before its chain was renumbered stores its bars under an identifier that
  nobody has, and only the position of the sequence keeps it from being handed out again. What a
  renumbering does to bars and chunks is `FitMoves`; the counts are sums over a finite set, which
  `CountsAddUp` compares with the number of rows below them.

`ConsoleProofs`, for every number of migrations, starts, exports, writers, failing steps, kills, jobs,
readers and slots:

- `ProcessSoundAlways`, without `half_started` and `stop_raises`: what runs is the first k steps of
  the start, what is applied the first files of the installed ones.
- `ExportsSoundAlways`, without `delete_early` and `killed_after_landing`: what each place of the
  background task and of a deletion leaves in the five places, one export at a time.
- `StoreSoundOneByOne` and, from it, `StoreSoundAlways` for the first operation. `StoreInv` has three
  parts. `WriterInv`: a task that has not ended is the last one started, a writer object that runs is
  the one handed out and that task's owner, nobody stands in a queue twice and the sentinel stands
  last, so the queue never overflows (`QueueShort`). `FilesInv`: which path holds what was
  acknowledged at each step of the copy and the renames. `WorkInv`: one operation at a time. That an
  operation is asked for when none is under way and none left `market.duckdb.compact` behind
  (`OneByOne`) is a hypothesis, since the code does not see to it: a second operation removes, as a
  left-over, the file a cut swap left the rows in, and one that overlaps closes the file the first
  is copying. `StoreSoundAlways` needs no hypothesis but `MaxRuns <= 1`, as in the run `console`.
- `StreamsSoundAlways`, without the three freedoms of `Streams`, from two invariants that do not need
  each other. `FramesInv`: a stream's replay and queue are frames that follow one another, the queue
  ends with the last frame there is, and first frame, delivered, waiting and dropped add up to it.
  `ProgressInv`: at most one flush is at a job (`OneFlush`); a flush that has read a job whose mark was
  not set again has read what the row says (`ReadIsCurrent`); the base of the differences was shown,
  but for a verdict announced since (`LastIsShown`); a settling's flush has its own job's mark to take
  before the base is dropped (`MarkIsTaken`).
- `ResumesAlways`, from `FramesInv`: a stream that comes back to the same process begins with the frame
  after the one its client saw last, or with the first of the ring.

Each freedom a theorem excludes is one that the table above shows to break the property; the theorem
says that it is the only kind of step that does.

`LeaseInv` and `GovernorInv` are defined beside their components, so that the runs `queue` and
`governor` check them as they are proved. The other inductive invariants stand in the proof modules,
where nothing but the proofs uses them. A theorem about one conjunct of a checked property
(`ResumesAlways`, `BlocksDisjointAlways` and their like) says of which.

Only model-checked:

- the eight liveness properties, since the proof system has no rule for fairness with `ENABLED`. Every
  other property of a passing run is stated by a theorem, under the hypotheses named above;
- `StoreSound` beyond one operation at a time, which the code does not promise;

## What is not modelled, and the plan

Data without control (parsing, symbology, filters and SQL of read queries, schemas, formatting),
cryptography, the chain snapshot (one request, one appended row) and the frontend stay out. So do the
estimates and confirmations of jobs, the search and status routes, notifications, `run_maintenance`,
the fixed rate limits of the routes, and `on_login` of the supervisor, which only tests call. `MarketStore`
keeps one flag of the dispatcher in place of `Pipeline`'s, has no readers, and no submitter cancelled
while it waits.

`Streams!Merge` is a client that adds up the fields of a job's frames, which is what `_diff` is for. The
one in the repository does not: `fromProgress` (`useEventStream.ts`) reads every field out of every
progress frame, those it does not carry too, and the coalescer keeps only the newest frame of a job,
"an older progress frame for the same job is strictly stale". What that client shows is not modelled.

What is left, in order:

1. `Pipeline` with maintenance on the shared dispatcher, the scheduled logout and the stored mode over
   restarts; `Automation`'s token in place of the broker's flag there.
2. Abstract specifications: the coverage ledger as a map from days to whether they are held, implemented
   by `CandleWalk`; the dimension as a map from days to attributes, implemented by `SymbolMaster`.
