# Verification of the CDS control plane

The repository is a monorepo around PRD Agent: a C# product backend (`prd-api`), React and Tauri
clients (`prd-admin`, `prd-desktop`), a gateway to model providers (`llmgw`), a Python sidecar, and
CDS (`cds`), the TypeScript service that builds and runs a preview environment for every branch.
This directory verifies the core of CDS. It is the part of the repository with the hard behaviour:
one Node process in which hundreds of asynchronous handlers, timers and background tasks act on the
same branches, containers and records, which restarts itself under its own work, and which promises
its users that deployments are neither lost nor run twice.

Paths below are relative to `cds/src/`.

## 1. Inventory

| Component | State | Operations | What makes it hard |
|---|---|---|---|
| Branch operation coordinator (`services/branch-operation-coordinator.ts`) | active operations by key, one pending deploy and one reserved continuation per branch, generations | `begin`, `complete`, lease checks, reservation expiry | sixteen kinds of operation, six triggers, priorities; work happens between a begin and its complete, which may come after the lease was superseded |
| Branch operation handlers (`routes/branches.ts`, `index.ts`) | their leases | every deploy, stop, delete, force rebuild, automatic restart; replay of merged deploys by a POST to the own process | fences between awaits; a replay is a request like any other |
| Build gate (`services/build-gate.ts`) | slot counter, queue, limit | acquire, release with transfer, abort, lazy cancellation, change of the limit | the gap between a resolved promise and its continuation; a limit that moves under running builds |
| Layered deploy runner (`services/deploy-layer-runner.ts`) | none of its own | services of a layer in parallel, layers in order, siblings aborted | one of several failing |
| Deployment run ledger (`services/deployment-run.ts`, `services/state.ts`) | runs with status, numbered events in a ring, heartbeat | begin, append, transition, heartbeat, fail, cancel, reaping, pruning | three writers that do not know of each other: the handler, the reaper, a restart |
| Run event stream (`routes/deployment-runs.ts`) | a cursor per connection | poll, resume, finish | lost connections, a ring that turns over, a ledger that goes back at a restart |
| Self-update drain (`services/deploy-drain.ts`, `routes/branches.ts`, `server.ts`) | gate with an expiry | close, poll, give up, flush, restart, reopen | a restart that races the deployments it waits for |
| State store (`infra/state-store/mongo-split-store.ts`) | dirty range, queued and current write, generations, flush waiters, a cache of what the database holds | `save`, snapshot of a turn, writer, `flush`, `init` | write-behind of parts of the state, merged while a write is in flight, written in several steps that fail or half fail |
| Warm pool (`services/scheduler.ts`, its callbacks and the boot reconciliation in `index.ts`, the auto-wake and the recovery in `services/proxy.ts`) | heat, last visit and source of the last stop of each branch, next to its status and services | tick, cool, evict, wake and recover by a visitor, pin, touch | overlapping timers; capacity counted before awaits and used after them; users, visitors, docker events and restarts write the same records |
| Reclaim lock (`services/reclaim-lock.ts`) | holder, time taken | acquire, take over when stale, release | a stale holder that is still alive |
| Executors (`scheduler/executor-registry.ts`, `executor/agent.ts`) | nodes, heartbeats, ownership of branches | register, heartbeat, mark offline, collect | restarts on both sides |
| Production releases (`services/release-service.ts`, `release-target-lock.ts`, `release-artifact-retention.ts`) | release runs, executions in flight with their abort handles, requests in their preflight, one lock per target; on the target two links and the directories they point to | start, execute, cancel, roll back, restore after a failed probe, reap, reclaim artifacts | long remote commands that outlive their connection, a cancellation that is recorded before the work stops, an inventory that ages while it is used |

How they interact. A handler of `routes/branches.ts` first asks the deploy gate of the drain (an
Express middleware in `server.ts`), then writes a run to the ledger and awaits its flush, then asks
the coordinator for a lease; under the lease it runs the layers, each service waiting for a slot of
the build gate; every fence asks the coordinator again whether the lease is still current; the
outcome is written to the branch and to the ledger, flushed, reported; `complete()` hands back a
merged deploy, which the handler POSTs to its own process. All shared state is in memory; the state
store copies it to MongoDB behind the program's back. The warm pool, the janitors and the executors
ask the coordinator like everybody else.

What makes each correct, and what a test hardly reaches, is listed as hazards in `PROJECT.json`,
each at its line. The components that are not modelled are listed there too, with the reason.

## 2. Modules

| Module | What it is |
|---|---|
| `BranchLeases` | what the coordinator promises: who owns a branch, what becomes of a merged deploy |
| `BranchOperations` | the coordinator, its callers and the replay of merged deploys, shown to implement `BranchLeases` |
| `BranchOperations_proofs` | its inductive invariant, theorems, the refinement |
| `SlotPool` | what the build gate promises: nobody enters over the limit in force |
| `BuildGate` | the gate, shown to implement `SlotPool` |
| `BuildGate_proofs` | its inductive invariant, the refinement, fairness of the queue |
| `RunBook` | what the ledger promises its readers |
| `DeploymentRuns` | the run ledger, deploy handlers, reaper, write-behind copy, crashes, shown to implement `RunBook` |
| `DeploymentRuns_proofs` | durability before work, immutability of the first verdict, the refinement |
| `RunStream` | a client that follows a run; extends `DeploymentRuns` |
| `RunStream_proofs` | no event twice, none left out without a warning; still a `RunBook` |
| `SelfUpdateDrain` | self-updates around deployments; extends `DeploymentRuns` |
| `SelfUpdateDrain_proofs` | nobody slips in, nobody alive is killed unannounced; still a `RunBook` |
| `DurableStore` | what the store promises: a restart finds nothing older than the last confirmed flush, and nothing made up |
| `StateStore` | the write-behind store under all of them, against a database that may fail |
| `StoreHistory` | the store with a record of the versions saved, shown to implement `DurableStore` |
| `StateStore_proofs` | what is confirmed is durable, nobody who saves or waits is forgotten, the refinement |
| `TargetMutex` | what the busy check of a release target promises: its users take turns |
| `Releases` | releases, rollbacks, restorations and reclaims of one target, shown to implement `TargetMutex` |
| `Releases_proofs` | its inductive invariant, the refinement, verdicts, and what the ledger says of the target |
| `WarmPool` | ticks, cooling, evictions and wakes of preview branches among operations of users |
| `WarmPool_proofs` | its inductive invariant: who is waited for is worked on, users are not disturbed |
| `MC*` | constants for TLC |

One rule decides what is an action: JavaScript runs a function to its next `await` without
interruption. `begin()` and `complete()` of the coordinator, `release()` and `pumpWaiters()` of the
gate, and every operation of the ledger contain no await, so each is one action whatever its length;
a handler is cut into actions exactly at its awaits.

### BranchOperations

`active`, `pending`, `reserved` and `generations` are the coordinator's maps. The entries of
`active` carry `pos`, the insertion order of the JavaScript map, because `begin()` compares a request
with the *first* blocking entry only; an entry whose key is set again keeps its position. `leases`
are the leases whose holder has not called `complete()` yet: a superseded holder goes on until its
next fence, and its entry stays in the map, cancelled. `replays` are merged deploys whose POST is on
its way. `gone` are the branches whose removal has completed.

`Begin(req)` has one disjunct per way `begin()` returns: `StartFree`, `MergeWebhook`, `Supersede`,
`MergeManual`, `Continue`, `OverrideReserved`, `MergeBehindReserved`, `Reject`. `Complete` is the
`finally` block of a handler, with any of the three statuses: the last fence of a handler precedes
its last await, so a superseded one may well report `completed`. Time enters as `Expire`, the five
minutes of a reservation. `LoseReplay` is the POST that fails, which the code logs and forgets.

`BranchLeases` is what the rest of CDS relies on, without keys, priorities, generations and
reservations: who begins takes over from those it conflicts with and from nobody else, for good; a
merged deploy is dispatched when a holder of its branch finishes, unless a later deploy replaces it,
the branch goes, or an operation that begins on the branch withdraws it, as a stop or a removal
must. The refinement takes `owners` from what the coordinator answers a fence (`IsCurrent`), so it
says that the comparison of ids and generations in the map yields exactly this. It implies
`FencedForever` and `RevokedOnlyByConflict`, which are theorems as well.

### BuildGate and SlotPool

`active` is the slot counter, `waiters` the queue, `state` where each caller stands. The state
`granted` is the gap between the resolution of a waiter's promise and the continuation that
registers the holder: the slot is owned, and nothing but the counter says so. `Cancel` moves leases
without telling the gate, as the coordinator does; `Abort` is the signal that does tell it.
`SetLimit` stores and pumps in one turn, as the route does. `SlotPool` knows only who is inside and
the limit; the gate refines it with `inside <- Inside`, the granted and the building.

### DeploymentRuns

A run is its status, the number of its last event, the number of the oldest event still in the ring
and the age of its heartbeat in three steps: fresh, beyond the three minutes of the drain, beyond
the fifteen of the reaper. Payloads are left out. `Appended`, `Ended`, `Advanced`, `Logged`,
`Beaten`, `Pruned` are the ledger's operations; each leaves a final run alone, as the code does in
its guards. `running` is the status of a deployment that has succeeded.

`handler[r]` is where the deploy handler of run `r` stands; the phases are separated by its awaits.
The handler starts at `Begin`, waits for the flush, is refused or granted its lease, works, passes
its last fence, collects its results, waits for the second flush, tells the client, runs the smoke
test, and passes its verdict. Every exit of the source is an action: a failing first flush
(`BeginThrows`), the fence (`Superseded`), any exception (`Throw`), a failing second flush
(`FlushFails`), and `attachVersion()` throwing on a run that the reaper has closed under a live
handler (`AttachThrows`).

`RunBook` is the ledger as its readers may rely on it: of each run a state (open, built, or a
verdict) and the number of the last event, what a restart would find, and whether a handler asks,
works, reports or is gone. Work begins only on what a restart would find; a run says something new
only with a new number, which is why a client can resume by number at all; a verdict is given once,
success only by a handler whose outcome was durable when it was reported; the reaper can only fail a
run; a restart forgets what was not durable and nothing else. The refinement (`Entry`, `Stage`)
hides the progress before `verifying`, the ring, heartbeats and the phases of a handler. It is also
the interface of the two modules that extend this one: the promise outlives clients, drains and
restarts on purpose. `FirstVerdictStands` says of the ledger itself what the book says of verdicts.

`saved` is the copy in the database, run by run, because the store writes document parts one after
the other. `Crash` puts `saved` in the place of `ledger` and ends all handlers. The deploy on the
local executor is modelled; the dispatch to a remote one is not.

### RunStream

The client of `GET /deployment-runs/:id/stream` and both ends of the connection: `afterSeq` is the
server's cursor, `flight` what is sent and not received, `seen` what the client holds. `Connect`
resumes with the number of the last event received; `Poll` is the interval; `Drop` loses what is in
flight. `warned` records that the client was told of a gap, or that the ring turned over between two
polls, for which the code has no flag.

### SelfUpdateDrain

`gate` and `updater` follow a self-update from the closing of the deploy gate to the restart.
`Look` is one poll. `Flush` is the bounded flush whose result nobody heeds. Three ends: `Exit` (the
process is replaced), `SpawnFails` (it lives on and opens the gate), `Abandon` (an exception before
the restart; nobody opens the gate, it expires). The gate's maximal hold time is the patience of the
drain plus a minute, and the way from the end of the drain to the restart takes less than that
minute, so the gate is modelled to expire only when no updater is on its way. Release runs, which
the same loop drains, are not modelled.

### StateStore

`live` is the state that all services share and change in place. `save()` only marks it dirty, with
a hint of what changed or without (`dirtyAll`, `dirtyDocs`); `Tick` is the `setImmediate` callback
that takes the snapshot, unless a `flush()` was faster. A snapshot is an image: of each document its
content, `Absent`, or `Keep` when the hints did not name it. `Keep` is why partial snapshots are
delicate: what an image leaves alone must be in the cache, in the write in flight or in the queued
one. `Merged` lays a partial over a queued partial, `Snapshot` replaces it by a full one when it must.

The writer has one `writing` write and at most one `pendingWrite`. `Proceed` skips the collections
in which nothing differs from `persistedJson`, the cache. Between the server's `Apply` of one
operation and `Acknowledge` the database and the cache differ; `Fail` may come anywhere in between,
also after the last operation (the answer is lost). It rejects all waiters, upgrades what is queued
to a full snapshot, or asks for one. `Persisted` resolves waiters and goes on with the queue.
`Crash` starts over from the database.

Three history variables state the properties: `stamp`, the save that last changed a document;
`flushed`, the highest generation a `flush()` has confirmed; `doubtful`, the documents that a failed
write has changed and no later write has touched. The last is the exception in `PersistedIsDurable`
and in the promise; that the exception is needed is the run `lost_acknowledgement`.

`DurableStore` knows no snapshots, queues or caches: services save versions, the store writes what it
likes of them, a flush confirms one, and of every document that is not in doubt a restart finds the
content of some version between the confirmed one and the latest, document by document. To say
so, `StoreHistory` adds `versions`, the state at each save since the start, which nothing reads; the
refinement then maps `latest`, `confirmed`, `disk` and `unsure` to the generation, `flushed`, the
database and `doubtful`. The promise has two halves: nothing confirmed is lost (`FlushedSurvives`,
a theorem as well) and nothing is made up: no document is ever found as it never was, however
partial snapshots were merged, upgraded and half written.

`DeploymentRuns` uses the store through two operations, a copy that lags behind (`Persist`) and a
flush (`IsSaved`), and relies on `StorePromise`: `saved[r]` is some version of the run, not
older than the last flush its handler has awaited. Failed writes are not composed with the ledger: the
documents they leave in doubt are what `StorePromise` excepts.

### Releases and TargetMutex

One production target; targets share nothing. `target` is what a remote host holds: the links
`current` and `previous` and the release directories, each made by a run for itself or for the
restoration of its predecessor. The strategies are the generated ones, whose scripts build a
directory first and switch the link last (`Built`, `Switched`, `RestoreDone`).

A request may wait in its preflight with the predecessor it has looked up (`request`); everything
after the awaits of a start is one turn (`Admit`): the sweep of orphans, the busy check, the new
record, the execution up to its first command. That the status `queued` becomes `running` within that
turn is why the model has no `queued`. `exec` is where an execution stands, `aborted` those whose
handle was aborted; `Cancel` makes the run final at once while its execution goes on to its next
command, which rejects. `isTargetBusy()` therefore asks for runs *and* executions (`RunsDone`).
`execute()` has three ends: a verdict, `failRun()`, and `failRun()` that throws as well
(`SettleFails`), after which the run is an orphan for the reaper.

`lost` holds commands whose end nobody has seen. A connection that closes without an exit code counts
as success (`EndedUnseen`), and one that is cut off may leave its command running on the host
(`Fates`), where it takes effect at any later time (`StraySwitches`, `StrayDeletes`) or never.

The reclaim takes the target lock, reads the ledger, awaits the inventory, and only then asks
whether somebody is at work (`StartReclaim`, `TakeInventory`, `Decide`, `Delete`). The field `crowded`
is history: an execution was at work while the inventory was taken. `Restart` puts `saved` in the
place of the ledger and runs the first pass of the reaper.

`TargetMutex` knows who writes, which commands were left behind, and the target: users take turns,
and nothing changes in nobody's absence except through what was left behind. The refinement takes
`writers` from the executions and the deleting janitor, not from the ledger, so it says that the
busy check, which reads the ledger, is good enough.

### WarmPool

`branch` holds the fields of `BranchEntry` that the scheduler, the proxy and the boot look at: status,
the status of its one service, heat, source of the last stop, pin, and the age of the last visit in
three steps (`Ages`): none yet, within `idleTTLSeconds`, beyond. `up` is what only docker knows.
`owner` is the branch-wide lease of the coordinator, reduced to what matters here: all operations on
a whole branch share one key, and a user outranks a wake (priority 35), which outranks a cooling
(30); everything else about leases is in `BranchOperations`. Whoever loses its lease goes on until it
asks (`Holds`, `StillAwake`), as there.

`markCold()` and the callback `coolFn` are one turn up to the docker stop (`MarkCold`); on a busy
branch `begin()` throws within it and the heat goes back to hot. Then the stop takes effect or fails
(`CoolStops`; the callback does not tell these apart), returns (`CoolStopped`), and after the logs are
archived status, source and heat are written (`CoolEnds`). That last turn also resumes whoever awaited
it: a pass of `tick()`, the route, or a wake that had to evict. A pass of `tick()` is `TickStart`,
`TickIdle` for each branch that was hot, `TickCount`, and `TickEvict` or `TickDone`; passes overlap,
because `setInterval` does not wait. `WakeBegin`, `WakeStarts` and `WakeEnds` are the auto-wake, cut
at its awaits. `UserBegins`, `UserActs` and `UserEnds` stand for the handlers of stop, restart and
deploy, one per branch at a time.

Whatever takes a container down, docker tells `dockerEventMonitor`, which writes service, status and
source of a service that is running, starting or building, and never asks who holds the lease
(`Died`). `Stops` and `Restarts` say what a docker stop, a docker restart and an `rm -f` with a new
container make of the container *and* of the record; cooling, wake and the operations of users all go
through them, also when they have been superseded meanwhile. `Exits` is a container that ends by
itself.

`RecoverBegin`, `RecoverPosts` and `RecoverEnds` are `setOnRecoverInterrupted`: the visitor of a branch
whose deploy was cut off by a restart of CDS (`message = "cut"`) makes it show `restarting`, a deploy is
posted to the own process and becomes an operation like that of a user or does not, and when its
answer is over a branch that still shows `restarting` is set back to the error (`GivenUp`). It has no
lease. `Thrown` in `owner` marks a lease that was given up because a save or an archive threw (the
catch of the stop handler, `StopThrows`; `coolFn`, `CoolThrows`; the save of the recovery, which comes
before its `try`): nobody holds it, and the status is left as it was. `Dies` is the death of the
process with the reconciliation of the next boot. `asked` is history: what a user last asked of the
branch.

## 3. Runs

| Run | Question | Bounds |
|---|---|---|
| `coordinator` | Are leases exclusive, is the promise of `BranchLeases` kept, are merged deploys never forgotten? | one branch (branches never conflict), two profiles, twelve request classes that the code treats differently, five ids |
| `stop_then_deploy` | violated: no manual deploy is merged behind a stop | four ids; a manual deploy, profile deploy and stop as requests |
| `build_gate` | Is the slot count right, the queue fair, everybody served, the pool refined? | three builds, limits 1 to 3 |
| `deployment_ledger` | Durable before work, the promise of `RunBook`, no orphan, a stream without duplicates or silent gaps? | one run, ring of three, log events up to number four, one crash |
| `resume_after_restart` | violated: a stream can be resumed by number after a restart | as above |
| `self_update_drain` | Does the drain end, the gate reopen, does anybody slip in or die unannounced, is the promise of `RunBook` kept? | one deployment, two updates, one crash |
| `state_store` | Is what counts as persisted durable, is the promise of `DurableStore` kept, is every save written and every flush answered? | two collections, of two documents and one; three saves |
| `lost_acknowledgement` | violated: a failed write leaves the cache equal to the database | as above, two saves, every document stored at the start |
| `releases` | Do the users of a target take turns, do verdicts stand, does the ledger say what serves, is the serving directory safe, does the target become free? | three runs, the first of them over; one request in its preflight, one recent artifact kept, one mishap |
| `stale_restore` | violated: a failed probe restores the latest version that had succeeded | three runs, no mishap |
| `warm_pool` | Is who is waited for worked on, are users undisturbed, are the idle cooled, does the pool return to its size? | two branches, a pool for one, one pass of the tick and one manual cooling at a time; of the branches one is left alone: if it was never deployed, the other sees two operations of users and one mishap, if it is up, one of either |
| `passive_visit` | violated: a visit restarts no branch that a user has stopped | two branches, one operation of a user, no manual cooling, no mishap |

The bounds are enough for the interesting cases: three leases on one branch (one of them superseded
and not yet finished) need five ids with a reservation and a merge; a transfer past a cancelled
waiter needs three builds; a ring of three turns over within the five events of a successful
deployment; a second update can start while the gate is still closed from an abandoned first one.
Runs of a project meet only in the pruning, which `PrunedByOthers` stands for, and the theorems
of section 5 hold for any number of them. In the store a merge needs three saves (one in flight, one
queued, one laid over it), a document that is deleted and another of the same collection; the second
collection gives a write two steps. Saves are counted per process, so crashes are not bounded.
For releases the first run is history, so that there is something to restore, to roll back to and to
reclaim; two further runs are enough for a release against a rollback, and the janitor is the third
user. `MaxMishaps` bounds deaths of the process and directories with a lost command together;
the write-behind copy only moves while a death can still come, since nothing else reads it.
In the warm pool two branches are enough for an eviction, for a victim that is busy, and for a wake
that evicts; one operation of a user is enough to supersede a cooling or a wake, two for what one
leaves to the next (a first deploy and a stop, a stop and a restart), and visits are not bounded. The
two are not combined in full, which would exceed the time of a run: `MCWarmPool` starts with a branch
`Still` to which no operation and no mishap happens but a death of the process. Where it was
never deployed it takes no part, and everything the bounds admit happens to the other one, which may
begin as up, as cut off or as never deployed: two operations and a mishap, in any order, with the
tick, the manual cooling, wakes and recoveries between them. Where it is up it competes for the place in the
pool, with one operation or one mishap on the other. A recovery next to a competing branch, which the second case
leaves out, differs from a deploy of a user by nothing the pool sees. `MaxMishaps` bounds exits
of containers, saves that throw and deaths together. Two overlapping ticks, or both branches in
full, are left to the theorems, which hold for any number of either.

`CHECK_DEADLOCK FALSE` is set where requests are bounded: the models stop when the last one is
served, and so does the program when nobody asks it anything. The store can always crash, and its
runs check for deadlock.

Each property of a passing run is also run against a small defect of the code (a dropped guard, an
entry removed by key instead of by id, a slot counted twice, a cursor taken from the wrong side); the
definitions are marked as mutants in the modules and listed in `PROJECT.json`. TLC finds each of
them.

### What the violations show

1. *Stop, then deploy.* A profile deploy runs and a manual stop supersedes it; the cancelled entry
   stays until its holder completes, and is the first blocking entry. A manual deploy that arrives
   now is merged behind it although the current lease is the stop's: that is where the trace ends.
   When the stop completes, the pending deploy is handed out and the branch starts again. The
   comment above `MANUAL_MERGE_BEHIND_KINDS` says that this must not happen. The run knows these
   three requests only, so that the trace is about a stop.
2. *Resuming after a restart.* The ledger a restart finds may be older than what a client has seen,
   and numbers are given out again: the client that resumes with its last number misses the event
   that closed the run and keeps events the ledger never had, without a warning.
3. *The lost acknowledgement.* A `bulkWrite` that rejects may have been applied, in part or whole.
   The cache does not know. The run starts with every document stored: a save deletes one and its
   write is applied but rejects; the next save has created the document again as it was. The full
   resync compares it with the cache, which never saw the deletion, and writes nothing; `flush()`
   confirms, and the database is without a live document, which the next start has lost. The
   opposite way is in the model as well: a document created by such a write and removed before the
   resync stays in the database.
4. *The stale restoration.* The preflight looks up the predecessor before its probes, the start
   records it after them. A release that succeeds in between is skipped: when the new one fails its
   own probe, the version before the last good one is pushed to production. The other way into a
   start looks the predecessor up again, and its comment says why it must.
5. *The passive visit.* A stop by a user leaves the heat at hot, and `markCold()` asks for the heat,
   not for the status. The tick after the idle time cools the stopped branch once more and writes
   itself down as the source of the stop; from then on the branch counts as cooled, and the next
   visitor of its preview starts what a user had stopped. The comment above `shouldAutoWakeCooled()`
   says that this can never happen.

Other things the models showed, which no run states:

- A delete that supersedes an operation leaves the continuation of an earlier force rebuild alive,
  because `begin()` looks at reservations only when no operation blocks. The test of
  `branch-operation-coordinator.ts` that a manual delete cancels a reserved continuation starts from
  a branch on which nothing runs.
- The drain takes a run for dead after three silent minutes, while one profile command may be silent
  for ten. What `OnlyWrittenOffDie` says is therefore all that can be said: nobody dies whom the drain
  has not seen silent.
- A deploy that was merged behind a continuation which then expires has nobody to pop it: it waits
  until the next `begin()` on the branch finds the expired reservation and drops both. The model keeps
  the reservation in the list until then, as the code does, and `NoOrphanPending` and
  `PendingSettles` count it as a reason to wait although it no longer blocks anybody.
- Three others change what a branch shows while an operation of a user is in flight, always to show
  it down: the exceptions of `UserWorkStands`. A cooling that was superseded writes the service's
  status, status `idle` and source `scheduler` before its last fence (`index.ts:2441-2466`): a branch
  that a user has just restarted shows as stopped, and its next visitor restarts it; the comment at
  `index.ts:2775-2779` forbids this of a wake. The docker restart of a superseded wake kills a
  container whose service is starting or building for a user, and the monitor writes `idle` or `error`
  (`index.ts:2103-2135`). The end of a recovery takes a user's `restarting` for its own and writes
  `error` (`index.ts:2578-2588`). The user's own restart has the second effect on itself.
- A save or an archive that throws leaves a branch in `stopping` or `restarting` with nobody at work:
  under the catch of a stop (`routes/branches.ts:14552-14554`), under a cooling (`index.ts:2429-2484`,
  which the next tick tries again), and at the beginning of a recovery, whose save stands before its
  `try` (`index.ts:2531`); visitors wait until the next operation, tick or restart of CDS comes along.
  This is the exception `owner = Thrown` of `WaitedForIsWorkedOn`.
- A branch whose first deploy is stopped or fails was never given a heat: it is neither hot nor cold, and no
  tick looks at it again (`Unpooled`, excepted in `IdleCools`). Its container may still run, when the
  docker stop failed.
- A docker stop that fails is swallowed (`index.ts:2394`): the branch counts as cooled and its
  container runs on.
- A deploy does not call `markHot()`: a cold branch that is deployed again runs, and the
  scheduler neither counts nor cools it, although the comment above `markHot()` (`services/scheduler.ts:185-189`)
  says that a deploy calls it.
- A process that dies in the middle of a cooling leaves the heat at `cooling` for good; `markCold()`
  then ignores the branch. `IdleCools` is about branches that are hot.
- Visitors who return during a series of superseded coolings, and wakes that start at the same time,
  keep the pool above its size while they last. This is why `IdleCools` excepts visits.

## 4. Fairness

`coordinator`: some holder completes (`WF(CompleteAny)`): every handler calls `complete()` in a
`finally` block and its steps have timeouts. Nothing is assumed of clients or of expiry.
`build_gate`: a resolved promise continues, and a build that owns a slot releases it (`finally`).
`deployment_ledger`: time passes and the reaper's interval fires; nothing is assumed of handlers,
which may hang or die. `self_update_drain`: the updater's polls, its timeout, the bounded flush, the
restart and the expiry of the gate happen; nothing is assumed of deployments. The number of updates
is bounded (`MaxUpdates`): an endless series of abandoned updates, each closing the gate anew, could
keep it closed.
`state_store`: the event loop runs its callbacks (`WF(Tick)`), and the server answers or the driver
gives up (`WF(Write)`). Nothing is assumed of services; a crash ends the wait as well.
`releases`: every SSH command and every probe has a timeout, so an execution and a reclaim go on
(`WF(Execution(r))`, `WF(Reclaiming)`), and the reaper has an interval (`WF(Reap)`). Nothing is
assumed of users, of lost commands, or of how an execution ends: it may always be the exception that
leaves the run to the reaper.
`warm_pool`: the interval of the tick goes on firing (`WF(Ticking(t))`); a cooling, a wake and an
operation of a user that have begun come to their end (`WF(Cooling(c))`, `WF(Working(b))`), since
docker commands and probes have timeouts, and so does a recovery (`WF(Recovery(b))`), whose request the
own process answers until the deploy is over. Nothing is assumed of visitors, users, pins, the age of a
visit, or of how a command ends. The two liveness properties speak of the time after the last mishap
(`Settled`).

## 5. Proofs

TLAPS checks the following for all values of the constants, under the assumptions named in the
modules (finite sets of callers, positive limits, natural bounds, requests of the right type).

*Coordinator.* The inductive invariant `IInv` is `TypeOK`, `OneHolderPerId`, that every entry is held
by a lease (`EntriesHeld`), that uncancelled entries exclude each other (`EntriesExclusive`), that ids
are below the next one and reserved ids unique (`IdsBelow`, `ReservedIdsUnique`), and that a pending
deploy is covered by an entry or a continuation (`PendingCovered`). Exclusion of leases follows from
exclusion of entries only if no two entries share an operation id, and ids stay unique across the
continuation only because the reservation is removed before the deploy that claims it starts.
From it: `CurrentLeasesExclusive`, `IdsUnique`,
`MergedNotForgotten`, `FenceHolds`, `NobodyElseRevokes`, `EndingWithdrawsPending`, and the refinement
`CoordinatorKeepsPromise`. The eight ways through `begin()` are first reduced to three outcomes, a
start, a merge or nothing (`BeginOutcome`); a start then takes over from exactly the current leases it
conflicts with (`StartTakesOver`): that none survives uses that the entry of a current lease carries
its request (`EntriesHeld`), that none falls without a conflict uses that requests with one key
conflict.

*Build gate.* `IInv` is `TypeOK`, `SlotAccounting`, `QueueMatches` and `NoStrandedWaiter`: the counter
can only be compared with the population if the queue and the states agree, and the fast path
overtakes nobody only because a non-empty queue implies that every slot is taken. From it, also
`NoZombieBuilds`, `QueueIsFair` and the refinement `GateImplementsPool`: every action maps to a move
of the pool or a stutter.

*Ledger.* One law carries everything: an operation of the ledger leaves a run that is not in flight
alone (`Respects`). Every action of a handler is shown to be a lawful move (`HandleMoves`), and the
invariant `IInv` (types, no run without a `begin()`, durability before work) follows from that shape
alone. `VerdictsAreFinal` is the action property, between restarts. The refinement
`LedgerKeepsPromise` goes in two layers: what each operation does to the entry of a run (`EndedShows`,
`AdvancedShows`, `LoggedShows`, `FailShows`: it is left alone, carried on with a greater number, or
decided), and what each move of a handler is in the book (`EngageShows`, `WorkShows`, `ReportShows`,
`LeaveShows`), joined action by action in `HandleShows`. Types are all it needs to know about the past.
The lemmas about restarts and writes of the store are stated for any writer, so that the theorems
`StreamKeepsPromise` and `DrainKeepsPromise` only add the actions of their own modules: the pruning by
other runs, the flush before a self-update, and its restart. What a reader may conclude is proved from
the promise alone, once for all three: until a restart equal numbers mean equal entries
(`BookNumbersTell`) and verdicts stand (`BookVerdictsStand`), and always a restart finds every undecided
run that is worked on (`BookWorkIsDurable`). The invariant `BookInv` says that what is in the book has a
number, and that what has not begun is neither there nor durable. That `BookNumbersTell` stops at a
restart is the finding of `resume_after_restart`.

*Drain.* `DrainInv` adds that an updater on its way has closed the gate. Without it neither
`OnlyWrittenOffDie` nor `GateHolds` is inductive: the gate's expiry is the step that would break it.
The lemma `HandleKeeps` reuses the lawful moves of the ledger: no step makes a handler work on a run
in flight that did not before.

*Store.* The invariant follows a document down the pipeline: `Latest(d)` is its content in the queued
image, or else in the image in flight, or else in the cache. `Accounted` says that the latest of every
document that is not dirty is the live one, unless a full snapshot is due, and that the images of
older generations are right about what they cover; `Server` relates images, cache and database in the
middle of a write; `Order` and `Upkeep` order the generations and say who takes care of what is not
written. It is needed because `PersistedIsDurable` speaks of the past: that a write may count as
persisted depends on what every earlier partial snapshot left out. One lemma says what a snapshot
contains (`SnapshotFits`), one that an idle writer passes over nothing that is due (`StartFits`),
and one per action that the invariant is kept. From it: `PersistedMeansDurable`, `WaitersServed`,
`NothingForgotten`, and `FlushedDataSurvives`, the action property across a crash.
The refinement `StoreImplementsPromise` adds `Traced`: every image on its way, merged or not, and the
cache show each document as some recorded version has it, not older than the generation they stand
for. A merge keeps it because the partial laid on top is younger than what it covers; a snapshot,
because the live state is the last version; a write that is applied half, because an operation
writes whole documents of an image. From `Traced` and the invariant of the store, every document of the
database that is not in doubt is faithful (`DiskFaithful`, and so `DiskAlwaysFaithful`), which the
abstract store demands of every write and of every confirmation.

*Stream.* `StreamInv` adds to the ledger's invariant that what is in flight is newer than what was
received (`Ahead`), that nobody follows a run that has not begun (`Unstarted`), and, until a crash or
a warning, that the client holds every number up to its last one (`Whole`). For the last the law
`Respects` of the ledger also says that an operation keeps the ring full (`Trimmed`): the test for a
gap is right only because the oldest event retained is known from the newest. From it:
`StreamTypeCorrect`, `NothingIsSentTwice`, and the action property `NothingIsOmitted`.

*Releases.* The invariant `Access` is `TypeOK`, `OneWriter`, that runs not yet started have left no
trace (`Unstarted`), that what executes is the run started last and has claimed no success, in the
ledger or in the saved copy (`Fresh`), that only executions are aborted (`AbortedExecute`), and that
an inventory taken in peace stays true until the reclaim is over (`InventoryStands`, `PlanSpares`).
`ReclaimSparesServing` is far from inductive without the last two: what serves may only move by an
execution, and that there is none between the inventory and the deletion follows from the lock, from
the start of the inventory on. From it: `WritersExcluded`, `ServingIsSpared`, `VerdictsAreFinal`,
`CancellationHolds`, and the refinement `ReleasesImplementMutex`. `LedgerIsRight` needs `TellsInv`,
which adds what an execution at its probe has switched to (`AtProbe`) and claims the property of the
saved copy as well, and while somebody executes (`Tells`): a restart makes the saved copy the ledger.

*Warm pool.* `IInv` is `TypeOK`, that a pass which awaits the cooling of a surplus branch has counted
one (`SurplusCounted`, or its counter would fall below zero), that a wake cools others only before it
restarts its own services (`EvictsFirst`: a wake about to end is in the middle of no cooling), that
an operation of a user holds its lease (`UserHolds`), and `WaitedForIsWorkedOn`. The last is not
inductive without `UserHolds`, nor is that without the fact that only a cooling is preempted by the
scheduler. Two lemmas say what a call of `markCold()` may do (`MarkColdMarks`) and what such a
call keeps (`MarksKeep`), for its three callers. Two more say that whatever docker makes of a stop
or a restart, its events show a branch down if they show anything (`DockerLowers`), and that a
step which shows a branch down, and takes no worker away, keeps it attended (`KeptUpWhenLower`); with
them every action that goes through docker, whoever sent it and however late, is the same case.
`UsersUndisturbed` splits on who moves: of the steps on a branch under a user's operation all but the
three exceptions are excluded by the lease or by the operation being on its way. From it: `TypeCorrect`, `WaitersAreServed` and the
action property `UsersUndisturbed`.

Some theorems have no run of their own, since a run of a stronger or neighbouring property covers the
same instance: `NoStrandedWaiter` of the gate; `FencedForever`, `RevokedOnlyByConflict` and
`EndingClearsPending` of the coordinator, by `LeasePromise`; `FirstVerdictStands` of the ledger, by
`BookPromise`; `FlushedSurvives` of the store, by `StorePromise`; `WaitersHaveAWriter` of the store, and
the types of the stream and of the drain. Every safety property that a passing run checks is a
theorem.

What stays with TLC: every liveness property (`PendingSettles`, `QueuedServed`, `OrphansSettle`,
`DrainEnds`, `GateReopens`, `FlushSettles`, `TargetFreesUp`, `IdleCools`, `CapacityReturns`),
which needs fairness.

## 6. Not modelled

Outside CDS: everything (other programs, user interfaces). Inside CDS: what containers, git and
remote hosts do, which is external and appears only as duration, silence and failure; parsing and
detection of project files; monitoring and notices; authentication. Within the modelled components:
remote executors, release runs in the drain, the texts and payloads of events; in the store, its
migrations (`forceFullSave`, `seedIfEmpty`, the move of legacy fields) and the switch of backends.
In releases: the strategy `existing-script`, whose script decides itself what it switches; the
checks of the preflight; pruning of old runs; the take-over of a target lock after thirty minutes,
since every command under the lock is cut off after one; the rollback that a scheduled job starts on
its own.
In the warm pool: several services of a branch and its replicas, which are cooled one after the
other; branches on remote executors, which are not woken; settings changed at run time (`setEnabled`,
capacity, idle time); protection other than pins; `wake()`, which only tests call; the loop
that restarts crashed services every thirty seconds; a second operation of a user that supersedes the
first, or a deploy that is merged behind one and replayed, which are the subject of
`BranchOperations`; and the loss of the latest writes of these records
at a restart, which is that of `StateStore`. An event of docker is taken as delivered with the
command that caused it, before that command returns; later delivery, and the repetition of an event
(`kill`, then `die`), are left out. Saves that throw are modelled where they leave a status behind;
those of a restart, a deploy and a wake end in a catch that writes the error. The five seconds in
which `recoveringSlugs` remembers a recovery that is over are left out, so the model recovers more
often.

## 7. Plan

1. `BranchOperations` with proofs, against `BranchLeases`. *Done.*
2. `BuildGate`, `SlotPool` with proofs. *Done.*
3. `DeploymentRuns`, `RunStream`, `SelfUpdateDrain` with proofs, against `RunBook`. *Done.*
4. `StateStore` with proofs, against `DurableStore`. *Done.*
5. `TargetMutex`, `Releases` with proofs. *Done.*
6. `WarmPool` with proofs. *Done.* Left: several services and replicas of a branch, the auto-restart loop.
7. `BranchDeploy`: coordinator, gate and layer runner composed: a superseded deploy leaves no slot
   and no waiter behind; layers start in order.
8. `ReclaimLock`: take-over while the old holder is alive.
9. `ExecutorRegistry`: heartbeats, ownership of branches, restarts on both sides.

Theorems worth adding: an abstract specification of the warm pool; the ledger with a `DurableStore` in the
place of `saved`; the composition of 7 against both its parts.
