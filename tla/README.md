# Formal model of store-website-bot

TLA+ specifications of the parts of this repository in which several processes,
handlers or messages act on the same state, with the TLC configurations that
check them on small instances and TLAPS proofs of what should hold for every
instance. Every definition is translated from the code; `PROJECT.json` names the
lines behind each one (`map`), the hazards the properties are aimed at
(`hazards`), and for every property a plausible bug in the code that would break
it (`mutants`; the operators named `Bug...` in the modules).

Run a check with `tlc -config MCOrders.cfg MCOrders`, a proof with
`tlapm OrdersProofs.tla`. Paths below are relative to the repository.

## 1. The system

Two programs live in this repository.

* The **store** (`src/`, TypeScript): `scripts/start.ts` spawns an API server, a
  socket server, a Discord bot and an Electron dashboard as separate operating
  system processes; the website is started apart. They share a database behind
  `core/db/dal.ts` and nothing else: every process has its own `TransactionEngine`
  and its own in-memory `MockGateway`.
* The **legacy bot** (`index.js`, `events/`, `slashCommands/`, `Schema/`): one
  Node process over MongoDB that sells stock from buyers' wallets.

Beside them stand services no process of the deployment starts yet: scaling,
distributed state, job workers, reconciliation. The security and monitoring
services are linked into the API server. Neither the API nor the socket server
comes to listen in the repository as it is (`api/index.ts:101` and
`socketServer.ts:30` call methods that do not exist, and nothing calls
`startAPIServer`); the models take them as the code means them to run, and name
what holds today where it differs.

### Inventory

| Component | State | Operations | Interacts with | What is hard | What makes it correct |
|---|---|---|---|---|---|
| Order life: `TransactionEngine`, `MockGateway` | transaction rows; per process payments and auto-confirm timers; events | createOrder, updateState, handleWebhook, cancelTransaction; createPayment, cancelPayment, manualConfirm, timer | DAL (awaits), webhook and cancel routes, bot, website, socket server (events) | check then await then write; three processes with their own gateway; timer against cancel; a driver that writes and reads again | a cancel settles its payment, a paid payment never expires, completion is never cleared and is announced, no order is left pending |
| JSON driver | one file per collection, one lock file | insert, update, upsert, lock-free reads, disconnect | every process over the file system | lock file left by a crash, torn files, reads without the lock, `disconnect` removing a lock another process holds | exclusion, no lost update, every write ends; it implements an atomic store |
| MySQL, MongoDB drivers, DAL | tables, unique indexes, connections | initialize, shutdown, insert, update, upsert, getOrCreate | engine, services | UPDATE then SELECT; find then create; statements executed whose reply is lost; initialize called twice | one row per key where the database keeps one |
| Wallet shop of the legacy bot | Mongo collections list, price, shop, balance, order counter | buy modal, /send, /checkstock, /addstock, /addproduct, /removeproduct, /changetype, /changecode, /setprice, /addbalance, /removebalance, donation logs | Discord, Mongo | every handler is a chain of awaits and they interleave; a loop over the stock that runs dry; failed requests half way | stock is sold once and can be traced, the books balance, who paid is served |
| Registration, list refresh, settings of the legacy bot | single documents, one message | one upsert each, an interval | Mongo, Discord | little: the registration modal shown and the one handled have different ids | last writer wins |
| Health checks and failover | status and counts per service, restart attempts, timers | register, start/stop, poll, check, restart, alert, enable, shutdown | each other (events) | polls that overlap behind slow reports, restarts that wait, a restart's own check beside the poll | a lasting outage stays noticed |
| Autoscaler | instance count, cooldowns | evaluate, scale, set, enable | metrics | the cooldown is read before an await | count within bounds, no burst |
| Cluster | workers, respawn timers | fork, exit, respawn, restart one or all, kill, shutdown | OS processes | replacements that die, timeouts, overlapping restarts | capacity survives a restart |
| Load balancer, worker pool | backends, connection counts; workers, queues, statistics by name | register, select, probe, complete; register, close, pause | servers; BullMQ | requests that outlive a registration; closes that overlap a new one | counts and maps agree |
| Distributed lock | Redis key with a lease; a map per instance | acquire, release, extend, withLock | Redis | leases that run out under their holder, lost replies, commands sent twice, late releases | one holder per lease, nothing left behind |
| State manager | Redis keys; per instance cache, watch set, poll | get, set, delete, mset, increment, compareAndSet, clear, watch, unwatch, poll, close | Redis, listeners | replies, polls and expiry interleave with the cache | caches follow the store, listeners hear of changes |
| Cache, message broker | Redis keys, subscriptions | getOrSet, set, delete, increment, setTTL, clear; publish, subscribe, unsubscribe | Redis | get then compute then set, increment then expire; the map changed before or after the command | nothing stale stays; the map follows Redis |
| Secrets and rotation | secrets in memory, rotation log | load, set, reload, rotate, record, clean up | API routes, environment | memory first, record later; a grace period and a cleanup that reads before it acts | a changed key is on record |
| Sessions, second factor | rows, signing key; TOTP secret, backup codes, encryption key | create, verify, revoke, clean up; enable, verify, regenerate, disable | API routes, DAL | a check that awaits between read and write; a list of codes written back | revoked stays revoked; codes run out |
| Monitoring | gateway histories, latencies, uptime, queue counts, report | check, record, report | adapters, DAL, Redis | answers recorded when they come, not when asked | an outage is shown |
| Reconciliation, payment adapters | running flag, job, reports, configuration, queue | run, list, ask, compare, report; cron, job retries, update | DAL, providers | three callers and one flag; failures in the catch block | a run ends and lets the next one in |
| API, admin, bot, socket server, dashboard, start script | processes, maintenance flag, bot client, window, connection | start, end, clean up; serve, toggle, shut down, forward | each other over processes, HTTP, sockets | every singleton exists once per process | what one process changes reaches the others |
| Roles, audit, logging, utilities, tooling | tables, log lines | one step each | everything | little | permission tables |

`PROJECT.json` lists the same components with their files and status.

## 2. Modules

| Module | Models | Run by | Proofs |
|---|---|---|---|
| `Orders` | order life over several processes and three drivers | `MCOrders` | `OrdersProofs` |
| `AtomicStore` | what "file-based storage with atomic writes" promises | refined by `JsonStore` | (in `JsonStoreProofs`) |
| `JsonStore` | the JSON driver | `MCJsonStore` | `JsonStoreProofs` |
| `Shop` | the wallet shop of the legacy bot | `MCShop` | `ShopProofs` |
| `DistributedLock` | the lease lock | `MCDistributed` | `DistributedProofs` |
| `StateManager` | shared state with caches, polls and events | `MCDistributed` | `DistributedProofs` (types) |
| `Failover` | health checks, restarts, alerts | `MCOperations` | `OperationsProofs` (types) |
| `AutoScaler`, `Cluster` | scaling | `MCOperations` | `OperationsProofs` |
| `LoadBalancer`, `WorkerPool` | scaling | `MCOperations` | `OperationsProofs` |
| `Database` | the DAL over MySQL and MongoDB | `MCOperations` | `DataProofs` |
| `MessageBroker` | publish and subscribe | `MCOperations` | `DataProofs` |
| `DistributedCache` | values computed and kept in Redis | `MCOperations` | `OperationsProofs` (types) |
| `Sessions` | admin sessions | `MCAdministration` | `AdministrationProofs` |
| `Keys`, `TwoFactor` | secrets, second factor | `MCAdministration` | `AdministrationProofs` |
| `Gateways`, `SystemHealth` | monitoring | `MCAdministration` | `AdministrationProofs` (types) |
| `Reconciliation` | engine, reports, cron job, queue | `MCAdministration` | `AdministrationProofs` (types) |
| `ControlPanel` | start script, API, bot, socket server, dashboard | `MCAdministration` | `AdministrationProofs` (types) |
| `MCDistributed`, `MCOperations`, `MCAdministration` | compositions: one part moves, the others wait | themselves | `DistributedProofs`, `OperationsProofs`, `AdministrationProofs` |
| `Counting` | what the proofs need to know of numbers | used by the proofs | itself |

Common conventions. An action is the code between two awaits (or, across
processes, between two file or Redis operations). Validation that throws before
anything is written changes no state and is left out, as are texts, amounts and
logging where no property is about them. Faults (crashes, failed requests, lost
connections) are actions with a bounded counter. A request that fails has been executed
or not: that its answer did not come does not say which.

### Orders

`row[o]` is the transaction row of an order (status, and whether `completedAt` is
set), `pay[o]` and `timer` the payment and the auto-confirm timer in the gateway of
the process `home[o]` that created it, `create[o]` the program counter of
`createOrder` (its catch block included), `req/at/got` those of each webhook or
cancel request, `events` the emitted `TransactionEvent`s. Which processes create
orders, serve requests and listen to events are constants, so that one module is
both the unit tests' single process and the deployment, in which the API process
holds none of the payments. `updateTransaction` returns what it wrote with the
json and mongodb drivers; with mysql it writes and selects again, and another
writer may come between (`reread`). With the two databases a failed insert or update may
have been executed (`CreateOrderFails`, `UpdateUnanswered`, `MarkProcessingFails`,
`MarkFailedFails`); with files it is executed or throws.

### AtomicStore and JsonStore

A record is the set of writes that shaped it, which tells apart every order of
inserts, updates and upserts. In `JsonStore` a write goes through `acquireLock`
(create with `wx`, retry up to `maxAttempts`), read, truncate, fill, release; a
process does not suspend from its read to its release, another process runs
between any two file operations. One collection stands for all of them because
one lock file guards them all. `disconnect` removes the lock file whoever made it.
A process that opens the directory creates the file if it finds none, by a check and a
write that no lock spans (`Look`, `Create`): one that looked early may put an empty
collection in place of a file already in use. `tampered` records that, that a lock was
removed under its holder, or that a write was cut short.
`AtomicStore` applies a write at one instant or not at all; the refinement maps
its store to the file as last completely written, its states to `pc` (`AsState`),
and its `broken` to `tampered`.

### Shop

A call is one interaction with its program counter `at` and what it has read so far
(`type`, `wallet`, `cost`, `num`), the items it holds (`got`) and the turns its loop
has left. Stock is a set of items, each under a product code, not yet stocked, or out.
Amounts count halves, because the buy modal accepts a fractional amount: it charges n
halves and its loop takes n/2 items, rounded up. Script products are
read and not deleted. A failed charge, deletion or order number was executed or not
(`ChargeFails`, `TakeFails`, `NumberFails`); where the code goes on as if nothing had
failed (`PutBackFails`, `WriteFails`) an executed request is the success itself. Buyers are
registered, prices are positive (`setharga.js:34-50` also takes zero and negative numbers)
and the testimonial channel is set; whether maintenance mode is on is left open. Roles,
names and channel texts are left out.

### DistributedLock and StateManager

Both talk to Redis over one connection per instance. Redis executes a command in
one step; the replies to an instance come back in the order of its commands
(`inbox`, `arriving`), and the code after the `await` runs then. When a connection
breaks, ioredis sends the commands without a reply once more, executed or not
(`...Reconnect`), or rejects them (`...Reject`): that is the library's default and
the constructors do not change it. `DistributedLock` has one resource, its key with
an owner and a time to live that `Tick` takes down, the calls of `withLock`, and
each instance's map entry. `lapsed` remembers the calls whose key ran out under them.
`extend` is its script alone: its reply writes `expiresAt`, which nothing reads, and when
it throws the function under the lock throws, as it may at any moment anyway.
`StateManager` has one key, because keys do not touch one another; `heard` is what
the listeners were last told. `get` inside `watch` and inside the poll resumes
its caller one microtask later, hence `resumed`. A poll is not started while the last
one is under way; the `setInterval` of `StateManager.ts:225` does not see to that, it is
assumed of its period.

The two classes share a Redis server but neither keys nor connections. A behaviour
of `MCDistributed` is one of the lock or one of the state manager (`focus`):
interleaving them would only multiply states. `MCOperations` and
`MCAdministration` do the same with the modules below, which call one another only
through the public methods that the modules leave open to anybody.

### Failover, AutoScaler, Cluster, LoadBalancer, WorkerPool

`Failover` follows one watched service through `HealthChecker` and the events
`FailoverManager` hears. `readings` are the polls under way with what each has seen of the
service: nothing keeps a poll from overlapping the next, and they end in any order, also
into the row of a service that was unregistered and registered anew. A poll that hangs or
throws brings no reading: `getSystemHealth` catches what its checks throw, but it waits for
a Redis that does not answer, and for as long as it does nothing is polled to the end. Such
an outage is outside the model (section 3). Restarts that wait (`waiting`) and that settle
before their check (`settling`) are counted. In `AutoScaler` times are ages; `collecting`
counts the evaluations that have passed the global cooldown and await the metrics, which are
any. `Cluster` numbers workers as Node does; a restart leaves its replacement remembered in
`replaces` also after its timeout, because the listener stays attached. `LoadBalancer` keeps
the connection counts of the code (`active`) beside the requests really open (`inFlight`).
`WorkerPool` follows the three maps under one queue name through closes that await twice.

### Database

Calls of one user, order, balance, setting and admin. A row is known by the call that
created it and holds the calls whose fields it carries; unique columns and foreign
keys are the tables' (`Constraints`, `RefersTo`), those of MongoDB only where
`createIndexes` succeeded, because the driver swallows its failure. A broken connection
leaves a statement executed or not and throws either way. `layer` and `opened` tell the
DAL's life: `initialize` is not guarded while it awaits `connect`. It hands out the driver
before that, so a call made meanwhile is sent: MySQL's pool exists at once and opens its
own connection, but a table is there only when `connect` has made it, with its unique
column (`Reachable`).

### MessageBroker, DistributedCache

As the lock and the state manager: commands on a wire, replies in order. A Set of handlers
is known by the call that made it, because a call that awaits SUBSCRIBE keeps the object it
put into the map. Patterns are subscribed by the same code, but nothing listens for
`pmessage`, so their handlers are never called. Cached values are versions of what
`getOrSet`'s factory computes from.

### Keys, Sessions, TwoFactor

Statements over `dal.query` and `dal.execute` are executed or throw, at any time: the
repository's DAL has neither method, so today they always throw, which is one of the
modelled behaviours. `Keys` has the secrets of one process by version, rotations by
stage (asked, saving, recorded, failed), and the cleanup of the previous JWT secret
that reads the log before it deletes; the gateways' keys,
which `rotateGatewayKey` rotates one by one, are one key. `Sessions` has rows, tokens by the key that
signed them, and calls of `verifySession` cut at their awaits. `TwoFactor` has the row
of one admin, sealed with the encryption key of the process that wrote it
(`masterKey` changes with every start when the environment has none), and calls from
the moment they have read it. Enabling stores whatever list of codes the request carries
(`Lists`: any of the codes made, in any mixture, no more of them than a setup gives out);
longer lists are left out, and so is which secret is stored.

### Gateways, SystemHealth, Reconciliation

`Gateways` has the rounds of checks (the timer's, and `Others`: those of administrators,
of `initialize`, and of an interval that a second `initialize` has leaked, any number at a
time), what the servers do, and the history. `SystemHealth` is the report with its readings of
different times. `Reconciliation` is a run with its batches, answers in any order and
the report file per day, asked for by the cron job, the route and a BullMQ job with its
attempts and backoff; the configuration in force and its saving; and the errors of the
payment adapters that `getPaymentStatus` turns into answers. `PUT /config`
(`manualReconcile.ts:102-116`) and the dashboard's IPC handler
(`reconcileIpcHandlers.ts:78`) pass on what they are sent, and `updateConfig` merges it
unchecked: `Sizes` has 0 for every `batchSize` or `maxConcurrency` that does not count up
(zero, negative, null), with which `createBatches` (`reconcileEngine.ts:263-271`) never
returns for a list that is not empty. The phase is then `looping`: the process does nothing
more, the flag stays set, until it dies of memory. A value that is no number at all makes
one empty batch, and is left out. `lookbackDays` and `excludeStatuses` decide which
transactions a run takes, which is left open; of `cronSchedule` only that the job runs.
`DeleteOldReports` may stop half way: any of the old files may be gone.

### ControlPanel

The processes of `scripts/start.ts` in their order, each with an `AdminController` and a
`RealtimeServer` of its own: `botClient` are those whose controller has a Discord
client, `HasIO` those that have a socket server. A button becomes a request to the API;
what the socket server emits is forwarded to the window. `Listeners` are the servers
that would listen. `start.ts:14-18` spawns through a shell with unquoted arguments, and
the lines it makes for the socket server and the bot (`start.ts:87-95`) are syntax errors
in a POSIX shell: today neither runs there, and the model starts them as meant. Its cleanup
(`start.ts:63-65`) signals the shells; that the programs in them end with them is assumed.

## 3. What the runs check

| Run | Instance | States | Shows |
|---|---|---|---|
| `orders` | 1 order, 2 requests (webhooks that say pending or completed, cancels), 2 faults; an all-in-one process and a website; json and mysql; auto-confirm on | 218 000 | a cancel settles its payment; pending orders are explained; completion is announced, true and kept; `createOrder` ends |
| `orders_cancel_race` | as above, one process, no faults | | finding: a completed order becomes cancelled |
| `orders_auto_confirm` | the deployment's processes, no faults | | finding: a confirmed payment never reaches its order |
| `json_store` | 3 writes of any kind in 2 processes, 1 read, 2 lock attempts, 1 fault | 246 000 | exclusion, no lost update, writes end, `AtomicStore` is implemented |
| `json_store_torn_read` | 2 writes, 1 read, no faults | | finding: an acknowledged record is not found |
| `shop` | 2 interactions out of 16 kinds and amounts, 1 buyer, 3 codes, 5 items, 1 fault | 129 000 | stock sold once and traced, books balance, overdraft bounded, who paid is served, shortage explained, loops end |
| `shop_overdraft` | the same | | finding: an account goes negative |
| `distributed` | lock: 3 calls, 2 instances, 1 retry, lease 1, 1 fault; state: 2 calls out of 10 methods, 2 instances, 1 fault | 200 000 | the lock excludes, lists its holder, is given up, and an orphan lapses; caches follow the store, deletions are heard of |
| `state_notifications` | watch and set only, no faults | | finding: a remote set is not announced |
| `operations` | see below | 133 000 | `OutageNoticed`, `BurstBounded`, `RestartsGraceful`, `NoPhantomConnections`, `QueuesHaveStats`, `OneUserEach`, `MapFollowsRedis`, `EverythingLapses` |
| `administration` | see below | 244 000 | `KeysOnRecord`, `RevokedStaysRevoked`, `BackupCodesRunOut`, `OutageShown`, `GuardReleased` |
| `maintenance_silent` | the dashboard and its processes alone | | finding: the dashboard is not told of a maintenance change |

What the properties of the last runs say, in the terms of the code:

* `PendingExplained` (`TransactionEngine.createOrder`): an order stays pending only behind a
  `createOrder` that is still on its way, that a fault ended in a throw or with its process,
  or because a webhook said so; one that returned a link, or got to the end of its catch
  block, has taken its order out of pending, whatever failed.
* `Traced` (the stock loops): at most one item for each failed request or crash has left the
  stock without a call that has it. The deletion whose answer was lost is such a request.
* `OutageNoticed` (`HealthChecker`): a service that stays down while it is watched
  ends up unhealthy and stays so, whatever old readings still arrive. It says nothing of an
  outage that keeps `getSystemHealth` itself from answering.
* `BurstBounded` (`AutoScaler`): evaluations that pile up behind slow metrics scale at
  most once per rule within a rule's cooldown. The global cooldown promises no such
  thing, because it is checked before the metrics are awaited.
* `RestartsGraceful` (`ClusterManager`): until a shutdown, as many workers serve as have
  come to serve without replacing another, but for those that died or were killed.
* `NoPhantomConnections` (`LoadBalancer`), `QueuesHaveStats` (`WorkerPool`): counts and
  maps kept by different calls agree in the direction that matters.
* `OneUserEach` (`dal.users.getOrCreate` on MySQL): calls for one Discord user that return,
  return the same user. MongoDB goes on without its index, so it promises less.
* `MapFollowsRedis` (`MessageBroker`): with all replies in and none rejected, a channel is
  in the map exactly if Redis has the subscription.
* `EverythingLapses` (`DistributedCache`): what a late `getOrSet` puts back after a delete
  lapses, unless a call was cut short between its commands.
* `KeysOnRecord` (`KeyRotationService`): a key that is not the one of the start has its
  rotation on record, waits for it, or was reported as failed.
* `RevokedStaysRevoked` (`SessionManager`): a session is returned to no call begun after
  its row was gone.
* `BackupCodesRunOut` (`TOTPService`): lost updates let codes return, but of n overlapping
  calls over m codes fewer than C(n + m, m) are accepted.
* `OutageShown` (`GatewayHealthService`): a gateway that stays stuck is shown as down, and
  no late answer hides it for good.
* `GuardReleased` (`ReconcileEngine`): whichever step fails, the flag is given back, unless
  the configuration in force has a batch size or a concurrency that does not count up:
  then the run that meets it keeps the flag and the process (`looping`).

`SystemHealth` has its type invariant only: of `getSystemHealth` the code promises
nothing that its chain of reads would not give by itself. The type invariants of
`JsonStore` and `Shop` are proved (section 5) and in no run.

**Bounds.** The hazards are races of two actors, or of one actor with a timer, a
fault, or a lease, so two requests, two interactions or two calls per run show
every pair; the JSON driver and the lock have three, because a third writer can
come between a crash and its successor, and because a late release needs a call
before, a holder, and a competitor elsewhere. Orders do not touch one another, so one
is enough. Two faults let a crash hit a recovery in `Orders`; elsewhere one fault hits
every step. Five items with requests for up to three turns make the stock run dry
before, during and after the loop. `MaxAttempts = 2` and `Retries = 1` reach both
the retry and the giving up; a lease of 1 runs out between any two steps of its
holder, or does not. The other values stored by the state manager are set, counted and
swapped by its calls.
In `operations`: 2 failures in a row make a service unhealthy, 1 attempt, 1 more
outage, 1 poll beside a check; 2 rules that vote apart, 3 evaluations at a time,
cooldowns of 1 and 2 ticks, 1 to 2 instances; 1 worker, 4 forks, 2 commands, 1 death;
2 backends under least-connections, 2 requests each, 1 probe each; 2 jobs, 2 closes,
2 registrations; 2 database calls of which the second is one that meets the first,
2 initializes; 4 broker calls with 2 handlers; 2 cache calls and one change of the
source: each the least at which its property has something to go wrong, as the mutants
show. In `administration`: 2 rotations and 1 reload with a grace of 1 tick; 2 sessions,
2 verifications; 2 callers, 2 codes a batch, 2 starts; 2 providers of which one has an
adapter, 2 rounds besides the timer's, 1 record of history, 1 interval; 2 transactions with
one payment in batches of one, sizes of 0 and 1, 2 attempts, 2 days; 4 processes and the
button toggle (`maintenance_silent`: stop and toggle).
Unbounded data (order number, balances, counters) is bounded by the number of calls.

**Deadlock** checking is off in every run: when all calls have ended and no poll or
timer is left, the system stops. That calls do end is stated as liveness instead.

**Fairness.** Weakly fair are the steps the event loop, the timer queue, MongoDB, Discord or
Redis take by themselves once started: a started `createOrder` or handler goes on, a timer
or an interval fires, a lock attempt is repeated, Redis executes and answers, a lease or a
time to live runs, a poll or a check that was sent is answered or given up, a reconciliation
run goes on (not, of course, one that loops). Nothing is assumed of users (requests need
never come), of webhooks, of faults, of `disconnect`, of keys with a time to live set
through the state manager, or of the function run under a lock, which may never end. Two
assumptions are of the outside: an HTTP answer that has begun ends (`httpClient.ts:69`
clears its timeout before it reads the body), and a database statement or a health report is
answered or throws. The liveness properties are `CreateSettles`, `WritesEnd`, `CallsEnd`,
`OrphanLapses`, `CacheFollows`, `DeletionHeard`, `OutageNoticed`, `EverythingLapses`,
`OutageShown`, `GuardReleased`. Those of caches and outages say "from some point on": a last
change is there to follow.

## 4. What the runs found

1. **A cancel overwrites a completed order** (`TransactionEngine.ts:305`). The guard
   reads the row before `await cancelPayment`; the update afterwards is
   unconditional. A webhook between the two is lost, with `completedAt` still set.
2. **An auto-confirmed payment never reaches its order** (`MockGateway.ts:163`):
   `triggerWebhook` only logs, while the README's transaction flow has it update the
   order.
3. **JSON writes are not atomic for readers** (`jsonDriver.ts:106`): the live file
   is truncated and then filled, reads take no lock and take a torn file for an
   empty one.
4. **A purchase can overdraw the wallet** (`interactionBuyingItem.js:145`): the
   balance is compared two awaits before it is charged.
5. **Remote changes are not announced** (`StateManager.ts:251`): the poll compares what
   it read with a cache that its own read has just updated. Remote deletions are
   announced, because `get` returns before it caches null (`DeletionHeard`).

6. **The dashboard is not told of maintenance changes** (`AdminController.ts:85`):
   the change is made in the API's process and emitted on that process's socket server,
   which it does not have; the socket server's process never hears of it.

Findings 2, 3, 5 and 6 contradict a document or comment, 1 and 4 a guard of the code
itself; `PROJECT.json` quotes them.

Seen while modelling, in the models or beside them, and not given a run because no
document says otherwise or no process reaches the code:

* *Security.* Rotated secrets live in memory: a restart or a reload brings the
  environment's back (`secretManager.ts:102`). A cleanup that read the log before a new
  rotation deletes that rotation's previous secret (`keyRotation.ts:231-247`). Without
  `ENCRYPTION_KEY` in the environment a restart makes stored second factors
  undecryptable. Nothing calls `verifyBackupCode`. Rotating the Midtrans key sets
  `MIDTRANS_API_KEY`, the adapter reads `MIDTRANS_SERVER_KEY`. `rateLimiter.ts:92,134`
  tests for a remainder below zero that never occurs. The routes import
  `api/middleware/rbac`, which does not exist.
* *Monitoring.* The bot registers its uptime in its own process, so the API's report is
  always "down". Midtrans answers turn a refused connection into a fast answer, shown
  as up (`gatewayHealthService.ts:118-148` is not reached). A health report waits for ever
  when Redis is down. A second `initialize` leaks an interval.
* *Reconciliation.* Provider errors are counted as `STATUS_MISMATCH` though
  `mismatchDetector.ts:15` speaks of a missing provider; a saved configuration is
  ignored after a restart; a job that meets a run of the cron job fails its attempts; a
  failed run overwrites the day's report; one request can set a batch size that keeps the
  next run, and its process, in a loop (`engine.test.ts:26` looks at the default only); the
  comment "Process with concurrency limit"
  (`reconcileEngine.ts:255`) stands over batches that start all at once.
* *Control.* The stop, restart and shutdown buttons always fail, because the API's
  `AdminController` never has a client; a cleanup during the start leaves a service that
  starts later without a parent; `client.once('ready')` is registered after the login.
* *Operations.* Two alerts call `sendAlert` with one object; `maxRestartAttempts` limits
  nothing while restarts overlap; disabling the autoscaler does not stop evaluations
  under way; respawns are limited per worker number, which is never used twice; a
  failed SUBSCRIBE leaves an entry that later subscribers join in vain; a second
  `initialize` of the DAL leaks a driver; MongoDB's failure to build an index is
  swallowed; `registerWorker` during a close has its queue deleted; with Redis down the
  health checker's polls wait for an answer, so that this outage goes unnoticed.
* *Storage.* A process that starts beside another may empty a collection the other has just
  written (`jsonDriver.ts:47-52`).

## 5. What is proved

Every safety property, invariant or action property, that a passing run checks is also a
theorem, for any values of the constants that satisfy the named assumption of each
module (`OrdersAssumption`, `JsonAssumption`, `ShopAssumption`, `LockAssumption`, ... one
`ASSUME` per module). These say that the special values are not among the real ones,
that bounds are numbers, and what the constants' types are; besides, that the stock
(`Shop`), the rules (`AutoScaler`) and the callers of the second factor (`TwoFactor`) are
finite, that there is a rule and a provider, and that the first instance count is
within its bounds, as the default configuration's is. TLC evaluates them in the
passing runs. Each proof shows that an inductive invariant holds initially and is kept
by every action, and that it implies the property, which a run checks on its instance.

**OrdersProofs** (`TypeCorrect`, `CancelSettles`, `CancelIsLocal`,
`DeployedCancelNeverWrites`, `CompletedEventsTrue`, `CompletionIsKept`, `PaidIsKept`,
`PendingIsExplained`, `CompletionIsAnnounced`).
That a cancel leaves no timer needs that a payment whose `createOrder` has not begun
does not exist (FreshInv), that a started request has an order and a process
(StartedInv), and that the gateway entry is in the serving process and settled
(CancelInv). That events tell the truth needs the stamp: a status `completed`,
in a row or about to be announced, implies `completedAt` (StampInv, UnansweredInv,
EmitInv), and that a request that has written nothing has no answer yet
(UnansweredInv). `DeployedCancelNeverWrites` is a consequence for the deployment: where no
process both creates orders and serves the API, no cancel ever reaches its row. The two
promises to whoever asked rest on what each call can be at each await (AskInv) and, for
the drivers that return what they wrote, on the answer being what was asked (AnswerInv):
with MySQL the second read may bring another writer's row, which is why
`CompletionAnnounced` excludes it.

**JsonStoreProofs** (`TypeCorrect`, `LockExcludes`, `NothingLost`,
`DriverImplementsAtomicStore`). Until the store is tampered with, a write between
acquireLock and releaseLock implies the lock file (HolderInv) and that no other one is there
(MutualExclusion); what it read is what is in the file (SnapInv), and torn only
while it writes (TornInv); every mark in a record belongs to a write that has
been made (MadeInv, UnmarkedInv), and an acknowledged write's mark is there or
was replaced by an upsert (MarkInv). The refinement maps each step to the
abstract step of the same meaning or to a stutter.

**ShopProofs** (`TypeCorrect`, `StockSoldOnce`, `StockTraced`, `BooksAlwaysBalance`,
`OverdraftIsBounded`, `PaidAlwaysServed`, `ShortIsExplained`). The type a call read decides
whether it deletes what it sends, so it must not change once the call holds items
(EmptyHands); only /checkstock puts items back (Lonely), one at a time (OneInHand); loops
count down from at least one (TurnsLeft). What nobody holds is then counted: a step adds an
item to it only with a fault, and one item, because a failed request or a crash takes at
most one from a call that would have put it back. The money properties sum over the calls,
and a sum is the cardinality of a set of coins, a call's coins being pairs of the call and a
number: that a call which pays adds its own coins to those of the others (CoinsAdd) replaces
the induction over the calls. `ServiceInv` says which kind of call can be at which await,
what it holds, has paid and has sent (StagesInv), that a wallet that was read had been given
and not removed (FundInv) and covers the charge (AffordInv); an overdraft is then no more
than what others took after the reading. A purchase that no other call for the product
interfered with, and no fault, still finds in stock what it has yet to take (PlentyInv), so
whoever is served short can name the other call.

**DistributedProofs** (`LockTypeCorrect`, `LockExcludes`, `LockGivenUp`,
`LockListed`; `DistributedTypeCorrect`, `PartsImplemented`). A granted call already has
the key, before it knows (Held); before
the first fault the owner is on its way to a release (Unbroken). That the map
lists the holder rests on the order of replies: the SET that succeeded was executed
after the DEL of the call before it, so on one connection its reply is read
later (Order), with Queue telling whose replies are under way. The state manager's
types rest on OnInv: a thread with something under way is on an instance, a poll on its
own, so that a reply never meets a thread that does not wait for it.

**DataProofs** (`OneUserForAll`, `MapAgrees`). `getOrCreate` has neither lock nor
transaction: that a statement gets through to MySQL only where the table has its unique
column (Reachable; BeforeInv: nothing is there before a driver is) leaves at most one row
(OneRowInv), whose id no update changes and every call that returned has returned (SameInv).
The broker sends SUBSCRIBE only where its map had no entry and UNSUBSCRIBE only where it had
one; so, until a fault, the commands on the wire lead step by step from what Redis has to
what the map has, and the replies from the list of channels to what Redis has (Path,
OrderInv).

**OperationsProofs** (`ConnectionsNotInvented`, `StatisticsKept`, `BurstIsBounded`,
`RestartsLoseNobody`, `OperationsTypeCorrect`, `PartsImplemented`). The count of a backend is
at most what is open to it because both go up together, a registration starts the count
at zero, and an end stops it there. For the pool: a close that found no queue deletes the
statistics when the worker has ended, so there must be no queue then (ClosingInv); no
queue can come, because a name is not registered again while its worker closes. For the
autoscaler: each scaling within the last cooldown is paid for by a rule whose own
cooldown began with it, and no two by the same rule (Spends, an injection), so there
are no more of them than rules. For the cluster: workers that came to serve without
replacing another, less those that died or were killed, are at most those that serve,
because a worker listens once and an old one goes only when its replacement listens
(GracefulInv, by cardinalities).

**AdministrationProofs** (`RevokedForGood`, `KeysAccountedFor`, `CodesRunOut`,
`AdministrationTypeCorrect`, `PartsImplemented`). A call begun late has a session that was
made and has no row, and no row comes back because every number is given once (MadeInv,
NewNumber); so it never gets beyond the statement that would have to find the row
(LateInv). Each key that has changed has a rotation that gave it that very version and is
saving it, failed to, or is in the log (RecordInv), and what is in the log is over
(LogsInv), so that no later step of a rotation takes it from the record. Backup codes do
return, so the count of codes is no measure. No list is longer than a batch (ListsInv). The
measure is for each v how many calls read, or would
read, at least v codes: a descending profile, which an accepted code moves to one earlier
in the order that compares the highest place first (Reach), whatever a lost update
restores. There are C(n + m, m) profiles of m places up to n (`ChooseProfiles`), all
but the last of which can be used up (SpentInv).

**Counting** has the arithmetic: least and largest members, the equations of `factorial`
and `choose`, Pascal's rule, the number of profiles and their order. Induction here
goes by the least number for which the claim fails, which is a set and not an operator,
so that the library's well-foundedness of < applies (`LeastNumber`).

**Compositions.** `PartsImplemented`, in each of the three modules, shows that every
behaviour of the composition is one of each of its parts that has a specification of its
own: what is proved of a part alone holds beside the others. The type theorems of the
compositions need invariants where a bound is kept by several steps: closes and jobs of the
pool (PoolInv), timers that are being set have room (TimersInv), a job that may be tried has
attempts left and a report that is saved has an end (JobsInv, SavingInv).

`RemoteCancelRefused` and `PaidNeverExpired`, proved in `OrdersProofs`, and the type
invariants of `JsonStore` and `Shop` are checked by no run.

**Only model-checked.** Liveness under fairness and anything about ENABLED is out of
the prover's reach: the ten liveness properties of section 3. So is induction over data
by the library's theorems; where a proof needed it, `Counting` goes another way, and nothing
among the runs' safety properties is left to TLC alone. The disagreements of section 4 are
shown by counterexamples.

## 6. What is not modelled

* Configuration, logging, role tables, the audit log, request validation, migration and
  release scripts, text and layout: no state anything races for. Product and pricing
  services: single reads and writes through the DAL.
* Registration and settings commands of the legacy bot: single upserts; registration
  cannot be completed, because the button shows modal `growid1` and the handler waits for
  `setGrowIDModal`.
* Cryptography and pattern matching: WAF, fingerprints, signatures (taken to be what
  they promise). The rate limiter's and the allow list's single counters.
* Alerts, cron history (it has only readers), metrics, Sentry: counters and outgoing
  calls. Read-only routes of monitoring and security; the dashboard's other pages.
* The mismatch resolver and `mismatchTools` (they read settings nobody writes and call
  DAL methods that do not exist), `detectMissingLocal`, `webhookParser` and
  `idempotency` (nothing calls them), severities, recommended actions and summaries. The
  reconciliation routes are not mounted, `reconcileEngine.initialize` and
  `reconcileQueue.initialize` have no callers, and `registerReconcileIpcHandlers` is never
  called: `Reconciliation` takes them as their code means to be used.
* The job workers: started by no script, their processors call methods the services do
  not have. `scalingRoute` and `clusterRoute` are stubs. `ShardManager` wraps
  discord.js's manager.
* `has`, `mget`, `getAllKeys`, `isLocked`, `getLockInfo` and other pure reads. `oldValue`
  of the state manager's change events and `expiresAt` of the lock's map entries, which
  no code reads. `getActiveLocks` goes on listing a lock whose release came too late.

## 7. Plan

Done, in this order: `Orders` (the store's core), `AtomicStore` and `JsonStore` (what
it stands on), `Shop` (the other program's core), `DistributedLock` and
`StateManager`; then what keeps the system running (`MCOperations`) and what
administrators rely on (`MCAdministration`).

The safety properties of the runs are proved, and the compositions shown to implement
their parts.

Left, in this order:

1. **Refinements**: an abstract lease that `DistributedLock` implements, an abstract
   register with one row per key that `Database` implements on MySQL.
2. **Safety cores of the liveness properties**: what holds in every state in which such a
   property could wait for ever (a run under way always has a step to take, a cached
   value that is wrong has a time to live).
