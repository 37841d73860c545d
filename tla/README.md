# Formal models of the PocketBase fork (pocketless)

This directory holds TLA+ specifications of the stateful parts of the repository, the TLC
configurations that check them on small instances, and proofs of their main invariants that TLAPS
checks for every value of the constants. Every definition is written from the source; the file and
lines it stands for are in `PROJECT.json` under `map`.

Contents: 1 inventory · 2 modules and their correspondence to the code · 3 runs and bounds ·
4 fairness · 5 assumptions about the environment · 6 proofs · 7 disagreements between code and
documentation · 8 what is not modelled · 9 plan

## 1. Inventory of the system

The repository is a fork of PocketBase: a Go server (`core`, `apis`, `forms`, `mails`, `tools`),
Go plugins (`plugins/*`), and a TypeScript port of the same server for Bun (`pocketless`). The server
works on SQLite or, in this fork, on Postgres, and on Postgres several instances may share a
database.

### Modelled

| Component | State it keeps | Operations | Interacts with | Hard behaviour | What makes it correct |
|---|---|---|---|---|---|
| Job queue, `plugins/jobs` | the `_jobs` table (status, run_at, locked_until, retries, max_retries); per process a dispatcher, a poll loop, a pool of workers and the registered handlers | enqueue, delete, requeue, register, start, stop, poll and claim, execute, succeed, fail | other instances, through the table only; handlers are application code | leases without fencing, several pollers, results that arrive late, crashes, failed statements, shutdown while working | one worker per job, retried exactly as often as allowed, ends completed or failed, none forgotten; nothing runs after Stop |
| Process manager, `plugins/processman` | per id a state record (status, PID), supervisor goroutines, the plugin's context, the operating system's processes | launch, wait, back off, give up; HTTP stop, start, restart; file watcher; shutdown | HTTP handlers and the watcher act on the record and on PIDs; supervisors write the same record | check and act under separate locks, PIDs read and signalled later, exit racing with stop and shutdown | every process has its supervisor, the record names a PID only from its launch to the record of its exit, retries and delays are as configured, crashes are answered; a shutdown leaves nothing, if the program lives to see it |
| API gateway, `plugins/gateway` | the `_proxies` table, the installed table of proxies, a limiter and a circuit breaker per proxy, requests in progress | match, admit, acquire, forward, record, release; reload | record hooks reload the table; the HTTP server runs requests | reloads under requests that hold the old objects, late results in another breaker state, panics of the proxy, failed loads | slots never leak, a breaker opens in time and recovers, the configuration saved is the one installed |
| KV store, `plugins/kv` | the `_kv` table; per process an LRU cache with expiries | get, set, setex, delete, expire, increments, hashes, bulk forms, cleanup | several processes share the table, each has its own cache and no one tells it of others' writes | read, fill and invalidate are separate steps; expiry in two places; eviction | a cache is never older than its time to live allows; alone, it agrees with the table |
| KV locks, `plugins/kv` | a row per lock, an owner identifier per process | lock, unlock, cleanup | the same table and cron job | two statements, whole-second timestamps, expiry, restarts under another identifier | mutual exclusion for the ttl; only the holder releases |

| Realtime client, `jssdk` `RealtimeService.ts` | the listeners of each topic, one EventSource, the client id, what was last submitted, two timers, the calls that wait for the connection | subscribe, the unsubscribe family, PB_CONNECT and the promises chained to it, error and timeout handler, reconnect | opens a stream to the endpoints and submits topics to them; requests with the same key abort one another | promises outlive their stream, aborted requests count as successes, timers race answers | nobody waits for ever, no listener is left on the stream, what was acknowledged is delivered |
| Realtime endpoints, `pocketless` `apis/realtime.ts`, `tools/subscriptions` | broker, per client topics and identity | GET: hook, register, PB_CONNECT, idle timer, unregister; POST: validate, clear, hook, set | the client above; hooks of the application | other handlers run while one awaits a hook or a write | the last submission wins, a closed stream is forgotten |
| Job queue of the port, `pocketless` `plugins/jobs` | the rows (table or Map), dispatcher and its count of active workers | enqueue, delete, requeue, select, lock, execute, succeed, fail, start, stop, restart | other processes through the database | statements of one method are not a transaction; stop forgets the handlers that run | the same promise as the Go queue |
| Batches and transactions of the port, `pocketless` `apis/batch.ts`, `core/base.ts`, `core/db.ts` | one connection, the transaction that is open on it, the requests | BEGIN IMMEDIATE, find, hooks, write, COMMIT or ROLLBACK, timeout | every write of every request goes through the same connection | others write inside the open transaction; the answer races the work | all or nothing, and answered so; every batch that got past the hooks of its request is answered |
| Session of the SDK, `jssdk` `AsyncAuthStore`, `refresh.ts`, `Client.ts` | token and user, a queue of saves, a registered refresh, requests that wait | sign in, sign out, refresh before a request, save, load | requests abort others with the same key; the storage of the device | others sign in and out while a request waits for its refresh; saves wait behind a load that may fail | a request is sent as who asked for it; the storage follows the store |

### Not modelled, or not yet

| Component | State, operations | Hard behaviour | Why not |
|---|---|---|---|
| Cron ticker, `tools/cron` | start timer, ticker, `tickerDone`, jobs, one RWMutex | Stop sends on an unbuffered channel while it holds the lock its receiver needs | planned (section 9) |
| Realtime of the Go server, `apis/realtime.go`, `tools/subscriptions` | broker, clients with a channel each, dry caches of deletes | a goroutine per message; Discard closes the channel under a Send | the TypeScript endpoints are modelled first, because the SDK's client meets the same protocol; planned |
| Transactions, after-hooks and batches of the Go server, `core/db*.go`, `apis/batch.go` | the transaction of an app, functions to run after it, a goroutine per batch | hooks delayed to the outermost end; timeout against the goroutine that writes | the port's are modelled, where one connection makes them harder; planned |
| Migrations runner, `core/migrations_runner.go` | `_migrations` and two database files | one migration, a transaction per file | once at start |
| Rate limiter, `apis/middlewares_rate_limit.go` | windows per client and rule | limiters replaced while requests hold them | one lock |
| Application life cycle, backup and restore, `core/base*.go` | app store, data directory | renames of directories | one process, files |
| Log batches, `tools/logger` | a queue of log records | a failed write loses a batch, by design | accepted by the program |
| Publish/subscribe, cache invalidation, distributed hooks and cron, advisory locks, WAL consumer, `core/db_*.go` | connections, channels, statistics | - | library code that nothing in the server calls |
| Analytics, trace and metrics, `plugins/*` | buffers and samples | - | analytics' buffer and flusher and trace's ring are made by no one but tests; metrics has one lock |
| Secrets, TOF authentication, JS VM, migrate command, self update | one row per secret; a pool of interpreters; files | - | sequential per request |
| Collections, fields, records, API rules, filters, row-level security, authentication, CRUD | rows of the database | - | a question of data and SQL, not of interleavings |
| Router, file systems, mailer, security, archives, hooks, store | none, or one lock per operation | - | pure functions and atomic steps |
| The rest of `pocketless` | the same components as in Go | - | validation, SQL and HTTP; its KV store, gateway and process manager follow the Go ones |
| The rest of `jssdk`, user interfaces, Python SDK, examples, benchmarks, specifications | - | - | each call is one request; presentation; texts |

## 2. Modules

| Module | Extends | What it is |
|---|---|---|
| `JobLifecycle` | - | abstract: what the queue promises for one job; no leases, nodes or polls |
| `Jobs` | - | the table, the dispatchers and workers of several processes; instantiates `JobLifecycle` |
| `Processman` | - | supervisors, record, requests and processes of one id |
| `Gateway` | - | requests to one proxy, its limiter and breaker, reloads |
| `L1Ops` | - | operators: what each operation of `l1_cache.go` does to the map and the list |
| `KVStore` | `L1Ops` | table, caches and operations of several processes |
| `KVLock` | - | Lock and Unlock of one key by several processes |
| `RealtimeNet` | - | what client and endpoints share: streams and requests on the network |
| `RealtimeClient`, `RealtimeServer` | `RealtimeNet` | the SDK's client; the port's endpoints |
| `Realtime` | both | their composition, fairness, and the properties |
| `AtomicBatch` | - | abstract: what the batch API promises to whoever posts a batch; no connection, transactions or hooks |
| `PocketlessJobs` | - | the port's queue; instantiates `JobLifecycle`, the abstract specification of the Go queue |
| `Batch` | - | batches and single writes on the port's one connection; instantiates `AtomicBatch` |
| `AuthSession` | - | the SDK's session: store, refresh, sign-in, cancellation |
| `MCPocketless` | the last three | one run of the three, each by itself: a behaviour is about one of them |
| `MCJobs`, `MCProcessman`, `MCGateway`, `MCKV`, `MCKVLock` | each its module | constants and symmetry for TLC |
| `JobsProofs`, `ProcessmanProofs`, `GatewayProofs`, `KVStoreProofs`, `KVLockProofs`, `RealtimeProofs`, `PocketlessJobsProofs` | each its module and `TLAPS` | lemmas and theorems |
| `PocketlessProofs` | `MCPocketless`, `PocketlessJobsProofs`, `TLAPS` | lemmas and theorems about `Batch`, `AuthSession` and the three parts together |

An operator introduced by the comment "Mutant" is a definition with a plausible bug; `PROJECT.json`
pairs each with the property that must then fail. Nothing else uses it.

### Jobs

`row` is the `_jobs` table, `disp`, `poll` and `att` the dispatcher, its `pollLoop` goroutine and
its `executeJob` goroutines. A row's times are kept relative to the clock and counted down by `Tick`
(not below `Floor`, where no comparison tells two values apart), so the clock needs no bound. One
tick is one minute of `handleFailure`'s schedule `retryCount² minutes`.

| Action | Code |
|---|---|
| `Enqueue`, `Delete`, `Requeue`, `Register` | the methods of `JobStore`; a failed call changes nothing and is no step |
| `PollBegin`, `Claim`, `PollEnd`, `PollFail` | `fetchAndExecute`, one UPDATE … RETURNING per claim with the `now` of the poll's begin (`poll.age`), and the break on an error, which still dispatches what it has |
| `Execute`, `Abandon` | `executeJob`: a slot of `workerPool`, or the cancelled context |
| `Succeed`, `Fail`, `ResultLost` | the handler's result and the UPDATE by id; `handleFailure` uses the copy of retries made at the claim |
| `Start`, `Stop`, `PollExit`, `StopReturn` | the dispatcher's life; Stop returns when poll loop and workers have |
| `Crash` | the process ends anywhere; the table stays |

The SQLite claim is modelled. The one of Postgres selects the same rows (`FOR UPDATE SKIP LOCKED`) and
takes the whole batch in one statement, which is a run of `Claim`s with nothing between them.

### Processman

One action is one critical section of `pm.mu` or one call of the operating system. `sup[s].pc` is
the place in `supervise`'s loop; `failCount` is a local variable of the loop and so is per supervisor.
`proc` is the system's process table: a process is `alive`, `terminating` after SIGTERM, `dead` until
`cmd.Wait` reaps it, then `free`: taken by any later launch.

| Action | Code |
|---|---|
| `Check`, `Announce` | the top of the loop; "starting" |
| `StartCmd`, `Launch`, `LaunchFails` | `cmd.Start`, which looks at the context first and forks later, so that a launch may follow a shutdown |
| `Record` | `updateState("running", pid)` |
| `Reap`, `Exited` | `cmd.Wait` returns; then uptime, count and `updateState("crashed", 0)`. In between the record names a PID that is free |
| `GiveUp`, `Backoff`, `Wake`, `WakeCancelled` | the retries, the delay |
| `StopRequest`, `RestartRequest`, `ReadPid`, `Send`, `StartRequest`, `Spawn` | the HTTP handlers and the watcher; `killProcess` reads the PID under the lock and signals without |
| `Shutdown`, `Halt` | the plugin's Stop in `OnTerminate`, and the exit of the program after it (`pocketbase.go:245-256`), which waits for no supervisor |
| `Exit` | a process ends, by itself, by a signal, or killed by `exec.CommandContext` |

`RecordedPidOwned` bounds the time in which a request can read a PID that is no longer its process's; it does not
say that the request signals it in time (section 7).

### Gateway

`cfg`, `inUse` and `brk` are indexed by instance: an instance is the pair of limiter and breaker one
`SetProxies` makes. A request stores the instance of its limiter and the one of its breaker, which it reads under
two locks and which may differ. `wrapHandler`'s deferred calls are the step `Release`. `Abort` is a panic in
`ReverseProxy`: the result is not recorded, the deferred calls run. `Failure` covers 5xx, a timeout and an
unreachable upstream. The time since `lastFailureTime` is kept as an age that stops counting once it
exceeds `Recovery`.

### KVStore and L1Ops

A read is `Lookup` (L1), `Query` (row), `QueryTTL` (only Get asks), `Fill` (L1); a write is the
statement and then `Invalidate`. Nothing is locked between them. A value stands for one write
of it, so that the history `ended` can say when the table stopped saying a value: `MGet` and `MSet` are their
parts for one key, and the operations that change a value in place (`IncrBy`, `HSet`, `HIncrBy`,
`HDel`) write a fresh one. `L1Enabled` is TRUE (without it there is nothing to check). `Postgres` is a
constant: `TTL` cannot parse the expiry Postgres returns, and `HDel` of no row is an error on SQLite only.

### KVLock

Lock's two statements are two steps, and the error of the first is ignored as in the code. `expire_at` is
written in whole seconds (`Seconds`), of which `Grain` ticks make one; NOW() of Postgres has ticks,
datetime('now') of SQLite has seconds. `Restart` gives a store a new identifier.

### Realtime

The client is one thread, so an action of `RealtimeClient` is one task: a call of the application, a timer, an event of
the stream, an answer. Promise continuations run before the next event (`Quiet`); those chained to
PB_CONNECT are `chain[c]`, because they are the ones that survive their stream: `sent` while the submission is awaited,
`loop` in the loop that submits again, `finish` and `failed` at the end. `pending` and `call` are the promises that
`subscribe` returned. A stream and a request are names that are reused when nothing refers to them.

| Action | Code |
|---|---|
| `Subscribe`, `Unsubscribe`, `UnsubscribeByPrefix`, `UnsubscribeListener` | the methods of `RealtimeService`; what they have in common is told apart by the subscriptions they leave (`Remove`) |
| `Send` | `submitSubscriptions`, with the abort of the request that has the same key; who awaited that one goes on as after a success (`isAbort`) |
| `Greet`, `ChainRetry`, `ChainLeave`, `ChainFinish`, `ChainFail` | the listener of PB_CONNECT and its promise chain |
| `ConnError`, `ConnectTimeout`, `RetryFires` | `connectErrorHandler` from the stream or the timer of 15 s, and the reconnect timer |
| `Register`, `Refuse`, `Hang`, `Listen`, `ConnectFails`, `Discard`, `Unregister` | GET /api/realtime, cut at its awaits |
| `Begin`, `Finish`, `HookThrows` | POST /api/realtime, before and after the subscribe hook |
| `Lose`, `LinkFails`, `Restart` | the network and the server's process |

`ahead` keeps the order of sending: with `Ordered` the handlers begin in that order.

### PocketlessJobs

JavaScript runs a method to its end, so within one process a method is atomic; another process's statements come
between. `sync[p]` is the method a process is in the middle of: `lock` between the SELECT and the UPDATEs of
`fetchAndLock`, `fail` between the read and the write of `handleFailure`, `delete` and `requeue` between check
and write. `Execute` starts as many of the locked jobs as there are free workers and leaves the others locked, as the code does.
`Stop` forgets the dispatcher with its count (`counted`), not the handlers. `Boot` is `_recoverStuckJobs`.
`MemoryJobsStore` is the same with one process and no restart (`store`).

### Batch

`work` is what the one connection sees, `disk` what is committed; outside of a transaction they are equal.
`open` is the batch whose BEGIN IMMEDIATE succeeded. A batch goes from `request`, the hooks of `onBatchRequest`, which run
before the timer is armed, to `begin`, then `find`, `write`, `after`, and so on to `commit`, and by COMMIT to
`committed`, from where `Respond` gives the answer; at each of these it awaits, and others run. A write by a request that is not the batch goes into the open
transaction like any other, which is what SQLite does with one connection. `pending` and `durable` are history: whose writes
are in the transaction, and whose have reached the file. `Timeout` settles the response and nothing
else, and not after COMMIT: no timer runs between the continuations of a promise. The process may die there (`Restart`).
`Atomic` is `AtomicBatch` with the file for what is committed, the sizes of the programs, and the answer as
whoever posted the batch sees it: COMMIT is the abstract step `Land`, the answer is `Confirm`, and a crash between the two leaves
a batch that has landed and is never answered, which `AtomicBatch` allows; what it excludes is an answer with results that have not
landed, a failure answered after they have, and a batch that lands in parts or twice.

### AuthSession

`queue` is `AsyncAuthStore.queue`, of which the first runs; `Load` is `_loadInitial`, first of all: saves of the application may wait
behind it (`Quick` counts saves only), and when it fails, which is swallowed, the storage keeps what the store does not have
(`kept`). `auto` is the user whose
`beforeSend` is registered. `refresh` and `signIn` are the requests that have a cancellation key each: a second one
takes the place of the first, and the call that awaited it goes on to sign in again (refresh) or fails
(sign-in). A request of the application is `idle`, `refreshing`, `refused` (the catch), `signing`, `sent`. What follows an
answer up to the next request or timer is one step.

## 3. Runs

A run takes from a second to about three minutes on two workers.

| Run | Instance | Question |
|---|---|---|
| `jobs_timely` | 2 nodes × 2 slots, 2 jobs, 1 worker, batch 2, lease 2, limit 2 tries, 1 fault | While no attempt outlives its lease (`TimelySpec`): does each attempt own its row (`LeaseOwned`), are leases exclusive, are handlers called as often as `max_retries` allows (`ExecutionBudget`), do completed jobs stay completed, and does the queue implement `JobLifecycle`? |
| `jobs_live` | 1 node, 1 job, 2 topics, lease 1, attempts of any length, 1 fault | With attempts that may outlive their leases: does nothing survive Stop, is every job settled, does Stop return? |
| `processman_safe` | 2 supervisors, 2 PIDs, 2 requests, MaxRetries 1, backoff 16 s | All properties of the process manager, with two supervisors of one id, as two start requests can make, and shutdown with the program living on or exiting |
| `gateway_safe` | 2 requests, 1 writer, 2 instances, 3 configurations, 1 failed load | `SlotsAccounted`, `ClosedBelowThreshold`, `ReloadCurrent` with reloads at any point of a request |
| `gateway_live` | 3 requests, one configuration | Every request ends; the breaker closes once the upstream works |
| `kv_safe` | SQLite, 2 processes with a client each, 2 keys, 2 values, caches of 1 entry | How old may a cached value be; do map and list of a cache agree? |
| `kv_lock` | SQLite, 2 processes with a caller each, 2 ticks a second, ttls 1–3, 4 identifiers | Mutual exclusion for the whole ttl |
| `realtime` | 2 topics, 2 listeners, 2 streams, 2 requests, 1 user or a guest, 1 retry, requests in order, 1 fault | Is a listener ever attached that is not subscribed, has whoever waits for an answer a request that will bring it (`Attended`), does a call that waits have something that ends it, does the server deliver what it acknowledged, does every connecting call return, is every closed stream unregistered? |
| `port` | queue: 2 jobs, 1 process, table and Map, 1 worker, batch 2, lease 2, limit 2 tries, 2 events. Batches: 2, and 1 single write, on 1 record, by upsert or by update and delete, 1 fault. Session: 2 users, 2 requests, 1 loss | Is a job run once at a time and settled, does the queue keep the Go queue's life cycle? Are batches all or nothing, do they implement `AtomicBatch` (`BatchesLand`: land at once, results answered only after), and do they end once past the hooks of `onBatchRequest`? Are requests sent as who asked, do saves keep their order, also behind the load, do requests end? |
| `processman_stop`, `realtime_reconnect`, `port_timeout` | smallest instances that show it | violations: see section 7 |

No run lists a `TypeOK`: the type invariant of every module is proved (`TypeCorrect` of each proof module, `PortTypeCorrect`
and its parts).

Why the bounds are enough to be interesting:

- *jobs*: two nodes with two goroutines each on two jobs give every pair of poll and result on the same and on
  different rows. A lease of two ticks and polls of up to one make claims with an old `now` meet
  expiries. A limit of two tries gives one retry and one dead letter. `MaxRuns` only stops the history counter above
  the largest budget the run can reach. One fault, a crash or a lost statement, can hit every step.
  `jobs_live` has one node, because its properties are about one dispatcher and another could only help
  a job to be settled.
- *processman*: two supervisors are what two racing starts make; a third adds only copies. MaxRetries
  1 and MaxFails 2 let the counter pass every branch of `calculateBackoff` with 16 s: none, 16, and the cap; one retry gives
  a launch after a failure and a supervisor that gives up. Two PIDs are the fewest with which one is reaped and another launched.
- *gateway*: configurations with limit and threshold 2, with a threshold to be replaced by the default, and with
  neither limiter nor breaker. Two instances let a request hold an old one. A reload waits for an instance nobody
  refers to, so with two of them a second reload waits for the requests of the first; the proofs have no such bound.
- *kv*: `L1TTL` and the one ttl are both 1 and a read may take as long (`MaxCall`): an entry filled a tick after the row was written
  would outlive it. In `kv_safe` each process has a client and a cache of its own, and the second key is what makes a cache of one evict.
- *locks*: `MaxTime` of three seconds covers two leases in a row.

- *realtime*: two listeners give a call that waits behind another's connect, on one topic or two. Two streams are the
  one that ends and the one that replaces it; two requests, one that aborts the other. With one fault, which can be any of
  lost request, broken stream, hook that throws, discard, late timer, another user or restart, each handler is hit at each
  of its awaits. One retry of three: the loop has the same steps for each.
- *port*: a batch of two with one worker leaves a locked job without a handler; a lease of two with handlers of up to two ticks meets its
  end. Two batches meet at BEGIN, and a single write falls inside the transaction of either. `create` is the upsert of a missing
  record, and fails like it when the record has come meanwhile. Two calls and two users let one call's refresh be aborted by the other's,
  with another user signing in between. When the application acts, no save is queued but possibly the load, so that saves of the application, and those
  that answers add, are queued behind it. One process, so that what two do to a row between each other's statements is not
  in this run: `ClaimedByOne` fails with two (section 7).

`CHECK_DEADLOCK FALSE` is set where the system really may stop: for the process manager, whose program may exit; for the gateway's instance without writers, where an idle gateway whose
record is inactive has nothing to do; for `realtime`, where names of streams and requests may run out; for `port`, where all jobs
are settled and all batches answered. Symmetry is used in runs without liveness only.

## 4. Fairness

- `Jobs!FairSpec`: goroutines run, handlers return. Strong fairness where Go gives more than weak: waiters on
  the `workerPool` channel are served in order (`Execute`), and `pollLoop`'s select picks at random between a
  tick and the cancelled context (`PollExit`). `Tick` is strongly fair because only the bound `MaxPoll` makes
  the clock wait for polls.
- `Processman!FairSpec`: while the program runs, goroutines run, and a process is killed once the context is cancelled
  (`exec.CommandContext`). No process is assumed to end otherwise, not even after SIGTERM, and the program is not obliged to exit:
  `StopCleans` says what Stop does if it does not, and nothing if it does.
- `Gateway!FairSpec`: handlers run, the upstream answers or the transport's timeout ends the wait, time goes on.
  `Recovers` assumes in its own statement that requests keep coming and that the upstream works from some time on.
  `gateway_live` has no writers: every reload installs a closed breaker, which would make recovery easy.

- `Realtime!Fairness`: the client's tasks (events, timers, continuations) and, for each stream and request, the handler
  that serves it. A handler that hangs, a hook that throws and an answer that is lost are faults, which are bounded.
- `MCPocketless`: timers fire, methods and handlers end, a process that died is booted again and polls, and a dispatcher that was
  stopped is started again (`JobsFairness`: without that a job is not settled, nor promised to be); inside a transaction hooks return unless they hang,
  and timers fire (`BatchFairness`; the hooks of `onBatchRequest` are not obliged to return); requests are answered or fail, `fetch` rejects
  (`AuthFairness`). Beyond that start of the dispatcher the application is never obliged to act.

## 5. Assumptions about the environment

| Assumption | Where | Why |
|---|---|---|
| Timely: an attempt ends, or its process dies, before the lease does | `Jobs!TimelySpec` | configuration of `LockDuration` against the handlers' time; the code does not enforce it, and section 7 shows what happens without it. `StopQuiescent` and liveness are checked without it |
| one change of the proxies at a time (`OneAtATime`) | `gateway_safe` (1 writer) and `ReloadsTakeEffect`, for `ReloadCurrent` | with two, section 7; the other properties are proved for any number |
| a read fills the cache within `MaxCall` of reading the row | `KVStore!Tick` | the bound of staleness is relative to it |
| one caller per store | `KVLockProofs` | the lock's owner is the store; with two callers, section 7 |
| requests of one client reach the handler in the order they were sent (`Ordered`) | `realtime`, `AnsweredIsDelivered` for `ServerCovers` | one connection in HTTP/2 or one at a time; without it section 7 |
| one process on the port's database (`OneProcess`), whose handlers return before their lease ends (`MaxRun` ≤ `LockDuration`) | `port`, `PortClaimsOnce` and `PortKeepsLifecycle` for `ClaimedOnce`, `SameLifecycle` | SQLite, one server; section 7 for two |
| a process's identifier is new | `KVLock!Restart` | random |
| an absent entry of a cache is not an entry (`NoEntry`), no request is not a request (`None`, `NoRequest`) | `KVStoreAssumption`, `RealtimeNet!RequestAssumption`, `AuthAssumption` | Go's map and `undefined` distinguish the two |
| one client of the store (`OneClient`) | `AloneAgrees` | what remains of the promise of `Invalidate`; section 7 for two clients |
| the program does not exit right after OnTerminate | stated in `StopCleans` | `Execute` exits as soon as OnTerminate returns; section 7 for what then survives |
| listeners of PB_CONNECT that the application adds do not throw | `RealtimeClient!ChainFinish` | application code; one that throws skips what follows it in the listener |
| nothing else runs between the continuations of one answer | `AuthSession` | microtasks come before the next event; another promise of the application that is resolved in the same task could be between them |
| queue and batches of the port do not share a connection | `MCPocketless` | they would, if the jobs plugin is given the server's; its statements would then fall into transactions as single writes do |
| no batch runs into its timeout (`PunctualSpec`) | `OnlyTimeoutsLeaveWrites` | the complement of the disagreement in section 7 |

## 6. Proofs

Checked by `tlapm` for every value of the constants that the `ASSUME` of the module admits.

| Theorem | States | Argument |
|---|---|---|
| `JobsProofs!TypeCorrect` | `Spec => []TypeOK` | one lemma per group of variables (`RowStep`, `AttStep`, `NodeStep`, `CountStep`); no timeliness is needed |
| `JobsProofs!LeaseInvariant` | `TimelySpec => []LeaseInv` | `LeaseInv` = types, `Timely`, `LeaseOwned`, `OneAttempt`. `LeaseOwned` alone is not inductive: two attempts of one job would both own the row until one of them changes it. A claim finds a row whose lock is expired or absent, so by `LeaseOwned` and `Timely` no live attempt is at it (`IdleRow`); every other step leaves the rows of other attempts alone (`OtherRow`) or only ends attempts (`FewerAttempts`) |
| `JobsProofs!RowIsOwned`, `MutualExclusion` | `LeaseOwned`, `LeaseExclusive` under `TimelySpec` | from `LeaseInvariant` |
| `JobsProofs!ImplementsLifecycle`, `CompletedStays` | `TimelySpec => LifecycleSpec`, `CompletedFinal` | invariant `TriesInv`: `LeaseInv`, and a job has been retried less often than it may be, exactly once less when it is failed (`TriesLeft`). `StepMoves` reduces every step to one of two: all rows keep status, retries and limit (`Keeps`), or one job moves along an edge of its life (`Edge`). `LeaseOwned` is needed because results are written by id: a result moves the row of whoever reports it, so it must still be processing, with the retries read at the claim |
| `JobsProofs!CallsWithinBudget` | `ExecutionBudget` under `TimelySpec` | invariant `BudgetInv`: with the attempt that runs or ended the job counted apart (`Spent`), the calls lie between the retries and the retries plus the faults. `ExecutionBudget` bounds them by the limit and is not inductive: it does not say that a call to come is still within it. TLC checked `BudgetInv` on `jobs_timely` first |
| `JobsProofs!StopIsQuiescent` | `Spec => []StopQuiescent` | invariant `StopInv`: what is stopped has exited its poll loop and has no live attempt (`Quiet`), and the running attempts of a node are finite and at most `Workers` (`PoolBounded`; `Slots` may be infinite, where a cardinality alone says nothing). No timeliness is needed |
| `JobsProofs!NothingStranded` | `Spec => []LocksEnd`, attempts of any length | inductive with types, by the statement each step makes (`SetLocks`): processing rows have a lock, and at most `LockDuration` ahead, all others have none. It is the safety half of `Settles`: a row that was processing with no lock would never be `Expired` |
| `ProcessmanProofs!EveryProcessSupervised` | `Supervised` | invariant `Custody`: with types and `Held` (what a supervisor waits for exists) it is inductive; a launch takes a free PID, which by `Held` nobody waits for |
| `ProcessmanProofs!RecordOwned` | `RecordedPidOwned` | inductive with types: who owns the recorded PID leaves that state only by the write that clears the record, and whatever another supervisor writes clears or replaces it (`OwnerKept`) |
| `ProcessmanProofs!RetriesBounded` | `RetryBudget` | inductive with types; only `Backoff` goes on, and not when exhausted |
| `ProcessmanProofs!CrashesAnswered` | `CrashAnswered` | inductive with types: the supervisor that wrote "crashed" is on its way, and whoever else writes the record writes another status. The safety half of `Resurrects` |
| `ProcessmanProofs!DelaysDouble` | `BackoffDelay`, for any number of failures | the loop of `calculateBackoff` is a recursive function and the power is another; that they agree needs induction over the failures. A theorem of the library that takes a predicate cannot be used, but one about a set can: `<` on Nat is well-founded (`NatLessWF`), so the set of numbers at which a formula fails, if not empty, has a least element (`Induction`). The powers of two come from the cardinality of a set of subsets (`PowerDoubles`), the values of the recursive function from the existence of its finite parts (`UpToExists`, `UpToAgree`) |
| `GatewayProofs!TypeCorrect`, `TripsInTime` | `TypeOK`, `ClosedBelowThreshold` | invariant `GatewayInv`, both together: a request's breaker must exist in its instance's configuration (`HeldOK`) for the threshold to mean anything, and an instance is replaced only when no request refers to it |
| `GatewayProofs!SlotsNeverLeak` | `SlotsAccounted` | on top of `GatewayInv`: `Acquire` adds one request to the holders (`AcquireSlot`), `Release` takes one away (`ReleaseSlot`), a reload starts from no holders (`ReloadSlots`), every other step keeps them (`SameHolders`) |
| `GatewayProofs!ReloadsTakeEffect`, `OneWriterReloads` | `ReloadCurrent`, assuming that reloads do not overlap (`[]OneAtATime`), which one writer guarantees | invariant `LoadedCurrent`: a configuration that is loaded and not yet installed is the table's; it breaks as soon as another writer saves in between, which is the disagreement of section 7 |
| `KVStoreProofs!CachesForget` | `StaleBounded` | invariant `StaleInv`: every entry expires at most `L1TTL + MaxCall` after the table stopped saying its value, and a read on its way carries a value that the table said when it was read. A step moves the end of a value only to now or later, or makes it end never again, or concerns a value nobody refers to (`StepEnds`) |
| `KVStoreProofs!AloneAgrees` | `Agrees`, assuming `OneClient` | invariant `AgreeInv`: an entry the row no longer says is one that the client is about to invalidate, in its own cache (`EntryCurrent`); what a read carries to the cache is what the row says (`CarriedCurrent`). Every write is one lemma (`WriteAgrees`). It stops being true with a second client, in the same process or another |
| `KVStoreProofs!ListsMatch` | `ListMatchesMap` | one lemma per operation of `l1_cache.go` (`GetListed`, `InvalidateListed`, `RoomListed`, `SetListed`), from lemmas about a sequence without repetitions: one element removed (`RemovedList`), one put in front (`PushedList`), and its length against a bound (`InjectiveLen`). Inductive with types |
| `KVLockProofs!LocksExclude`, `HoldersKeepRows` | `MutualExclusion`, `HolderKeepsRow`, assuming one caller per store | invariant `LockInv`: a lease's row is there, unchanged, until the database's clock is past its seconds (`LeaseKept`); a lease held now is not past (`RunningLeases`), by monotonicity of rounding to seconds |
| `RealtimeProofs!TypeCorrect` | `Spec => []TypeOK` | a lemma per operation the tasks are made of: abort, send, close, connect, error |
| `RealtimeProofs!WaitingIsGuarded` | `WaitGuarded` | invariant `ChainInv`: a request that a promise chain awaits finds its chain at `sent`, it is the only one (`Unique`), and a stream that has not greeted has no chain yet (`Fresh`). Without it a chain that resolves could be one that has already ended |
| `RealtimeProofs!NobodyLeftBehind` | `Attended` | inductive with types. The steps of the client are made of abort, send, close and connect, and each has a lemma: an abort moves on everybody whose request it cuts off (`AbortWakes`) and spares the requests of others (`AbortSpares`), so that whoever still waits has a request (`CloseAttended`, `SendAttended`); the server settles a request only when nobody awaits it (`ServerAttends`). The safety half of `ConnectSettles` |
| `RealtimeProofs!NothingStaleAttached` | `AttachedSubscribed` | every step that removes subscriptions detaches them, every step that closes the stream detaches all |
| `RealtimeProofs!AnsweredIsDelivered` | `ServerCovers`, assuming `Ordered` | invariant `CoverInv` with `OneWaits` (one awaited request per client): for the last request sent, everything older is off the wire before it begins (`Clear`), so that what the handler clears at its begin is never cleared again, and handlers that finish later only add (`LaterCovers`) |
| `PocketlessProofs!BatchTypeCorrect`, `BatchesAreAtomic` | `BatchSpec => []BatchTypeOK`, `AllOrNothing` | invariant `BatchInv`: a batch between BEGIN and its end is the one that is open (`OneOpen`); what is pending of a batch is of the open one and of its own positions (`OwnWrites`); up to where a batch has got, its writes are pending, and all of them at COMMIT (`Written`); before its COMMIT a batch has nothing in the file, after it everything (`Outcome`). `AllOrNothing` alone is not inductive, since it does not say what COMMIT will find. Steps of a request without a write are one lemma (`QuietMove`), so are ROLLBACK and restart (`NothingOpen`) |
| `PocketlessProofs!BatchesRefine` | `BatchSpec => BatchesLand`, that is `AtomicBatch` | with `BatchInv` on both sides of a step, and that who has not asked has no program and no answer (`Unasked`): `Arrive` asks (`ArriveAsks`), COMMIT lands, because by `Written` all writes of the open batch are pending and by `Outcome` none of them is in the file (`CommitLands`), the answer confirms, because by `Outcome` they are then (`RespondConfirms`), a crash between the two stutters, what ends a batch without COMMIT refuses or is not seen (`FailureRefuses`), all else stutters (`QuietStutters`) |
| `PocketlessProofs!OnlyTimeoutsLeaveWrites` | `PunctualSpec => []FailedLeavesNothing`, the behaviours without `Timeout` | `BatchInv`, and that who was answered with a failure is done and has nothing in the file (`Fails`). The run `port_timeout` refutes the formula of `BatchSpec`, so that the timeout is all there is to that disagreement |
| `PocketlessProofs!NoCallLeftBehind` | `AuthSpec => []CallsAwaited` | inductive with types: a request with a cancellation key takes the place of another, and whoever awaited that one is moved on in the same step (`MovedOn`, `SendAwaited`). The safety half of `CallsEnd` |
| `PocketlessProofs!SessionTypeCorrect`, `CallsKeepOwner` | `AuthTypeOK`, `SentAsOwner` | invariant `AuthInv`: `beforeSend` belongs to whom the store holds or to nobody (`AutoIsUser`), and the refresh or sign-in a call awaits is for the call's user (`Owned`), which survives the aborts |
| `PocketlessProofs!StorageFollows` | `PersistsLatest` | `SavesInOrder`: the load is first in the queue, what was queued last is what the store holds. A load that fails leaves the queue with what was saved meanwhile, or empty with `kept` false |
| `PocketlessJobsProofs!PortJobsTypeCorrect` | `JobsSpec => []JobsTypeOK`, for any number of processes | inductive by itself: every write by id sets status and lease together (`ShapeSet`), and does nothing to a row that is gone |
| `PocketlessJobsProofs!PortClaimsOnce` | `ClaimedOnce`, assuming `OneProcess` and `MaxRun` ≤ `LockDuration` | invariant `QueueInv`. A handler's row is processing and its lease is at least as long as the handler has left (`Leased`), so neither the poll nor a restart takes it for stuck; what a method read before its second statement still holds (`MidMethod`): the rows it is about to lock have no handler, those it has locked have none and a full lease, the row whose failure it writes has its old retries. Neither is inductive without the other, nor is `ClaimedOnce`: after one handler of a job returned, a second would be left without a lease |
| `PocketlessJobsProofs!PortKeepsLifecycle` | `SameLifecycle`, under the same assumptions | `QueueInv` also has the tries left (`TriesOK`); `MidMethod` gives the status from which each write moves its job, `LifeEdge` the step of `JobLifecycle` for each write. The only other step it admits is the restart that takes a job back (`TakenBack`): its lease is over, and by `Leased` nobody runs it |
| `PocketlessProofs!PortTypeCorrect`, `PortIsSafe` | `TypeOK` and all safety properties of the run `port`, of `MCPocketless!Spec` | `PartsRun`: a behaviour of the three parts is one of each, since a step of one leaves the others alone |

`TypeCorrect` is also proved for `Processman`, `KVStore` and `KVLock`.

So every safety property of a passing run is proved, and so are some that no run lists (`NothingStranded`, `NoCallLeftBehind`,
`AloneAgrees`, the type invariants). TLC checked each of them, or its inductive invariant, on a small instance first.

Model-checked only: liveness (`Settles`, `StopReturns`, `Resurrects`, `StopCleans`, `RequestsEnd`,
`Recovers`, `ConnectSettles`, `Unregisters`, `JobsSettle`, `BatchEnds`, `CallsEnd`), which is out of the prover's reach, as is
ENABLED.

## 7. Disagreements between code and documentation

With a run that shows the shortest behaviour:

- `processman_stop` (`StopSticks`): a stop request marks the record of a running process and signals its PID. The process ends, by
  that signal or by itself before it, and the supervisor, which was waiting or had just reaped it, writes "crashed" over
  "stopped" before it looks at the status, and starts the process anew.
- `realtime_reconnect` (`Reconnects`): a stream fails while the submission after PB_CONNECT is pending. The abort of that
  submission counts as a success, and the promise chain of the dead stream then clears the timer of the reconnect: the client
  has subscriptions, no stream, and nothing that will open one.
- `port_timeout` (`FailedLeavesNothing`): a batch that was answered 400 "Batch transaction failed." because of its timeout goes on
  and is committed; the Go server, which the file says it agrees with, returns the timeout from inside the transaction.

The same models show more, which need only other properties or constants:

| Behaviour | Formula that fails | With |
|---|---|---|
| The failure of an attempt that outlived its lease takes a job that another worker completed back to pending: `handleSuccess` and `handleFailure` update by id without looking at the lease | `Jobs!CompletedFinal` | `Jobs!Spec` |
| Every request that arrives while the breaker is half-open is let through; `half_open_requests` is never read | `Gateway!ProbeLimit` | 2 requests |
| A Get that read the row before a Set fills the cache after the Set's Invalidate | `KVStore!Coherent` | 2 clients of a store |
| A realtime client that belongs to a user belongs to nobody, or to another user, after overlapping submissions: the identity is compared before the subscribe hook and set after it (`realtime.ts:188-212`) | `Realtime!IdentityKept` | 1 user |
| A submission that overtakes a later one on the way replaces its topics | `ServerCovers` | `Ordered = FALSE` |
| Two processes on one database select the same rows before either locks them: `fetchAndLock` is not a transaction, although its comment says so (`register.ts:638`) | `PocketlessJobs!ClaimedByOne`, `ClaimedOnce` | 2 processes, `Stores = {"db"}` |
| A request signals a PID that the supervisor has reaped: between `cmd.Wait` and the record of the exit, or after the request read it (`supervisor.go:145-159`) | `Processman!SignalsOwned` | 1 request |
| `StartProcess` refuses only the status "running": a start during backoff makes a second supervisor and two processes of one id (`processman.go:219`) | `Processman!OneProcess` | 2 supervisors |
| PB 退出时清理所有子进程, all child processes are cleaned up when PB exits (`processman.go:88`): Stop waits for nobody, and a process that was launched and not yet recorded is not signalled before the program exits | `Processman!NoneOrphaned` | 1 supervisor, 1 request |
| Two requests that find the token expired abort each other's sign-in, and one fails before it is sent, where the changelog promises reauthentication (`jssdk/CHANGELOG.md:359`) | `AuthSession!NoneAborted` | 2 calls |
| A refresh, or the sign-in of a request, that is pending when the application calls `clear()` signs in again when it is answered | `AuthSession!SignOutSticks` | 1 user, 1 call |
| A late failure frees the row while another worker holds a valid lease, and a third takes it; README.md:243 of `plugins/jobs` says a job changes hands after the lease has expired | `LeaseExclusive` | `Jobs!Spec`, 2 nodes |
| Two change hooks read `_proxies` in one order and install in the other; the older configuration stays (`gateway.go:176`) | `ReloadCurrent` | 2 writers |
| HGet, HGetAll and MGet fill L1 for the whole `L1TTL` without asking for the row's time to live; Get then returns an expired key | `WithinRow` | `Readers = {"get", "bulk"}` |
| `TTL` cannot parse the expiry as Postgres writes it, so Get never caps (`l2_db.go:212`) | `WithinRow` | `Postgres = TRUE` |
| On Postgres a lock taken for a second at a fraction of one can be taken by another up to a second early: the written expiry drops the fraction, NOW() has it (`l2_db.go:660`) | `MutualExclusion` with `Early == 0` | `Postgres = TRUE` |
| Any caller of a process can release a lock that another caller of the process holds (`store_impl.go:303`) | `HolderKeepsRow` | 2 callers of one store |

One follows from the text of a model: `config.go:16` of `plugins/kv` calls `L1MaxSize` bytes where `l1_cache.go` counts entries.

More of the same kind, in the realtime client: a second listener of a topic that is subscribed while the submission after
PB_CONNECT is pending is not given to the stream when that submission already names the topic; the chain of an old
stream resolves calls that wait for the new one; a submission that failed after the connect is not tried again until the next change.
In the batches: the write of another request that was answered with success is lost when the transaction it fell into is rolled back; a
hook that never returns keeps the transaction open for everybody, and a hook of `onBatchRequest` that never returns leaves its batch
without an answer, since it is awaited before the timer is armed (`batch.ts:244`); a crash between COMMIT and the answer
leaves a batch in the file that was never answered; an update writes the whole record it read before its
hooks. In the session: the initial load overwrites a sign-in made before it completes; one that fails leaves a session in the storage that the store does
not have, until the next save; a refresh that is answered
after another user signed in puts the first user back into the store; a callback of `onChange` that removes itself makes the
next one be skipped.

## 8. What the models leave out

- *jobs*: payloads, queries without effect (Get, List, Stats), HTTP routes and their access rules. In the port also
  `pruneCompleted`, which has no caller.
- *processman*: `RestartCount`, `LastError`, logs and their buffer, the watcher's debouncing (its effect is
  `RestartRequest`), configuration parsing.
- *gateway*: metrics, the buffer pool, headers, path matching among several proxies, WebSocket upgrades, which
  are refused before limiter and breaker; `AcquireBlocking`, `AcquireWithTimeout` and `Reset`, which nothing calls.
- *kv*: values and their JSON, numbers of increments, Keys and Exists (they read the table only), HTTP routes.
- *realtime*: options of topics, the data of events and their broadcast (`realtime_broadcast.ts` reads the
  topics), the limits on number and length of topics. `createRouter` does not register the endpoints; they are modelled as
  `registerRealtimeRoutes` defines them.
- *batches*: fields and their modifiers (of a record only whether it exists is kept), files, the limits on a batch, Postgres, where
  the port does not run a batch in its transaction.
- *session*: LocalAuthStore and cookies, which are synchronous; OAuth2, OTP and impersonation, which save a token the same way.
- The components of the second table of section 1. Most lines of the repository are there: user interfaces, generated types, requests
  of the SDK that are one call each, validation and SQL. They keep no state across steps that could be interleaved,
  and a model of them would repeat the code.

## 9. Plan

1. `Cron`: start timer, ticker goroutine, `tickerDone`, the RWMutex with its waiting writer; Start, Stop and jobs
   that call them. Properties: Start and Stop return, at most one ticker runs, no job starts after Stop. Abstract specification:
   a cron that is on or off.
2. The broadcast of record changes on top of `Realtime`: permission at the time of the change, dry cache of deletes, order per
   record; in the Go server a goroutine per message.
3. Nested transactions and after-hooks of the Go server, its batch with timeout and disconnect; an atomic
   transaction as the abstract specification of both batches.
4. `RateLimit`: window, cleanup, reload.
5. Theorems for the modules of 1 to 4, and the safety half of the liveness arguments that have none yet (`Recovers`, `Unregisters`, `BatchEnds`).
