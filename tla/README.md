# Verification of the disposable compute platform

TLA+ modules of the platform under `src/`, model-checked with TLC on small
instances and, for the core, proved with TLAPS for every value of the constants.
All paths below are relative to `src/src/` unless they say otherwise.

## 1. The system

The platform hands out short-lived environments. A session asks the scheduler
for room on a node, asks the pod orchestrator for a container or a machine, and
goes away when its user destroys it or when it expires. Everything is Python on
one asyncio event loop: a step is the code between two awaits, and what
interleaves are coroutines. Docker and disk work runs in threads that a coroutine
awaits.

| Component | State it keeps | Operations | Interacts with |
|---|---|---|---|
| Scheduler (`scheduler/scheduler.py`) | nodes, the ledger of each node (available quantities, GPU marks, assignments), scheduled pods, counters | register/unregister node, schedule, unschedule, preempt | calls the orchestrator's `destroy_pod` while preempting; called by the session manager |
| Pod orchestrator and drivers (`orchestrator/orchestrator.py`, `containers/orchestrator.py`) | table of pods, semaphore, containers and machines, the Firecracker socket | create_pod, destroy_pod | docker and libvirt; called by the session manager and the scheduler |
| Session manager (`services/platform.py`) | table of sessions | create_session, deploy_ai_generated_environment, destroy_session, cleanup_expired_sessions | scheduler, orchestrator, network identifiers, entry points `main.py`, `main_v2.py` |
| Distributed lock (`database/redis_integration.py:363`) | a key in Redis, the value a lock object drew | acquire, release | Redis |
| Publish/subscribe (`database/redis_integration.py:242`) | the PubSub object, registered channels, the listening task | subscribe_to_channel, _listen_to_channels | Redis |
| Session store (`database/redis_integration.py`) | keys in Redis, whether there is a connection | set/get/delete session, cache, counter, flush | Redis and its client, which retries |
| PostgreSQL store (`database/db.py`) | tables, the pool of connections, the audit trail | create, update, delete, clean up, log_event | PostgreSQL |
| Session persistence (`database/session_integration.py`) | none (see 5) | persist, recover, cleanup | PostgreSQL store, session manager |
| Authentication (`api/auth.py`, `utils/`) | failed attempts; credential files, deletion tasks, keys | authenticate_user; store, retrieve, delete | database, file system |
| Public addresses (`networking/router.py`) | routes, configuration files | register, unregister, clean up | nginx's directories |
| Streaming (`streaming/`, `networking/network_manager.py`) | sessions, encoders, input queues, sockets; agents, peer connections, ports | start, stop, clean up, websocket handlers; create and remove agents and sessions | ffmpeg, WebRTC peers |
| Storage (`storage/storage_manager.py`) | volumes, snapshots, backups | create, delete, attach, snapshot, restore, background backup | files |
| Load balancer (`networking_advanced/network_manager.py:118`) | backends, their counts and health | add, remove, get, release, health loop | threads that try ports |
| Health and monitoring (`services/health.py`, `monitoring/`, `metrics/`) | the last report; a task per pod; active alerts | check_all, background loop; start and stop monitoring; run_checks, resolve | all dependencies |
| Image registry (`registry/image_registry.py`) | tracked images, cache files, a lock | push, pull, delete, clean up | docker, a remote registry |
| Enhanced containers (`containers/orchestrator_enhanced.py`) | containers and their entries | create with rollback, start, stop, remove, destroy an environment | docker |
| Rate limiter (`api/middleware/rate_limit.py`) | request times and blocks of each client | is_allowed, headers, cleanup | middleware of `main_enhanced.py` |
| Resource optimisation (`optimization/resource_manager.py`) | quotas and what is used of them, scaling policies | set, allocate, release; evaluate_scaling | none |
| Terminals (`services/terminal.py`) | shells, descriptors, readers and writers | create_session | the kernel, websockets |
| Front ends, data types, generators and parsers | see `PROJECT.json` | | |

What is hard here:

* *Interleaving at awaits.* Preemption awaits `destroy_pod` for each victim while
  others schedule, unschedule and replace nodes; `create_session` awaits
  `create_pod` while the session is destroyed or expires; two `destroy_pod` calls
  overlap; subscriptions overlap with a reconnect; logins are checked before the
  database answers and recorded after; agents are removed while their sessions close.
* *Partial failure.* Docker fails after the scheduler granted room, or after
  the container was started; one victim cannot be evicted; a Redis command raises
  although it was applied; a row is committed and its event is not written; docker
  refuses one of several removals.
* *Stale reads.* Node lists, ownership of a lock, "is there an object", a backend's
  probe and a backup's snapshot are read before an await and acted upon after it.
* *Records of one fact in two places.* The scheduler's `scheduled_pods` and the
  nodes' assignments; a session's pod id and the orchestrator's table; docker's
  tags, records and cache files; routes and configuration files; a row and its
  last event.
* *Names that collide.* Alerts by second and hash, addresses by a prefix, credential
  files by a cleaned id, sessions of an agent by second, descriptors by number.
* *Time-outs and restarts.* Commands that are sent twice and executed late; keys
  that expire under their holder; deletion tasks and keys lost with the process.
* *Liveness.* Queued creations, preemption, the health loops, the
  pool of connections, metrics tasks, backups.

`PROJECT.json` lists each of these at its line under `hazards`, with the properties
that would notice it going wrong.

## 2. Modules

| Module | Models | Variables and the code they stand for |
|---|---|---|
| `ResourceSums` | the sums of what pods ask for (a recursive function over a finite set) | none |
| `Allocation` | abstract: what a scheduler promises; room is granted where it fits and taken away, a pod is granted once | `holds` assignments, `granted` pods that were ever placed |
| `Scheduler` | `Scheduler`, `ResourceManager`, `ConstraintValidator`, `PreemptionManager` | `nodes` `Scheduler.nodes`, `node` the fields of each `Node` object, `scheduled_pods`, `status`, `metrics`, and `call`: where the coroutine of a request stands |
| `PodOrchestrator` | `AdvancedOrchestrator` over the container, VM and Firecracker drivers | `pods`, `waiters` the semaphore's queue, `backing` what docker and libvirt run, `socket`, and `creation`, `removal`: where calls stand |
| `SessionManager` | `SessionManager`, composed of `Allocation` (for the scheduler) and `PodOrchestrator` | `sessions` the table, `session` the fields of each Session, `request` where the call that creates it stands |
| `DistributedLock` | `DistributedLock` with one object per client over a Redis that may execute a command late | `key` in Redis, `late` commands that were given up on, `lock_value`, `connected`, `pc`, `resent`, `draws`; history: `lapsed`, `stolen` |
| `RedisPubSub` | `subscribe_to_channel` and `_listen_to_channels` | `pubsub`, `channels`, `listener`, `iteration`, and the external PubSub objects `subscribed`, `created` |
| `RateLimiter` | `RateLimiter` and the middleware, for one client | `requests`, `blocked`, `inflight` requests whose handler runs, `now`; history: `admitted`, `latest`, `promise` |
| `LoadBalancer` | `LoadBalancer`, for one service | `known`, `backends`, `health`, `counts`, `index`, `algorithm`, `checker` where the health loop stands; external: `up`, `open`; history: `stale`, `turns` |
| `Database` | `DatabaseManager` over asyncpg's pool | `users`, `rows` the tables, `inUse` the pool, `logging` the events each operation has yet to log, `reading`, `trail` |
| `RedisStore` | `RedisSessionStore` over a Redis that may execute a command late | `stored`, `counter`, `inRedis` commands on their way, `request`; history: `permitted`, `counted` |
| `Credentials` | `CredentialManager`, `SecureCredentialStore` | `lasting` and `secured` files, `cleanups` tasks, `minute`, `cached`, `key`, `keyFile`, `restarts`; history: `soonest`, `leftover`, `expected` |
| `Logins` | `AuthManager.authenticate_user` | `failures`, `login` the attempts that await the database; history: `judged` |
| `Ingress` | `IngressRouter`, `NginxConfigGenerator` | `routes`, `files` of both directories, `writable` |
| `StreamServer` | `StreamServer`, `StreamEncoder`, `InputHandler`, `StreamingManager` of the GUI | `streams`, `encoding`, `inputs`, `streaming`, `collecting`, `metrics`, `socket`, `client` |
| `StreamingAgents` | `StreamingAgent`, its SFU and manager over `NetworkManager` | `available`, `assigned` ports, `endpoint`, `registered`, `agents`, `sessions`, `connections`, `peers`, and `call`: the removals and closings under way |
| `Storage` | `StorageManager` | `volumes`, `snapshots`, `backups` with where their tasks stand |
| `HealthReports` | `HealthChecker` and its checkers | `run` the checks under way, `loop`, `background`, `report`; external: `dependency` |
| `PodMonitoring` | `ResourceMonitor`, the health checks of `metrics`, `AlertManager` | `monitors`, `monitored`, `stopping`; `checking`, `results`, `overall`, `alerts` |
| `ResourceQuotas` | `QuotaManager`, `AutoScaler` | `limit`, `used`; `policy`, `resources`, `recorded`; history: `held`, `unmetered` |
| `ImageRegistry` | `ImageRegistry`, its lock and cache | `tags` of docker, `remote`, `records`, `cacheFile`, `task` who has the lock, `cleaning` |
| `EnvironmentContainers` | `EnhancedContainerOrchestrator` | `containers`, `networks` in docker, `containerInfo`, `given` |
| `Terminals` | `TerminalManager`, `GhostTerminal` | `listed`, `terminals`, `opened` descriptors, `printed` |
| `PlatformIds` | the parameters the managers share | none |
| `SequenceFilter` | what a list comprehension keeps of a list (`OnlyIn`), as a recursive function, because the provers cannot reason about the library's recursive `SelectSeq` | none |

Composition. `SessionManager` uses the scheduler through `Allocation`. That is
justified by the theorem `Refinement` (Scheduler implements Allocation) and by what
the code does: the platform's requests have priority 50, so they never preempt, so
`schedule()` does not suspend and is one step. `StreamingAgents` contains the
ports it takes from `NetworkManager`, `Database` the pool its operations share with
their events. The managers from `Database` down share no state and call none of each
other: `MCServices` puts them beside each other and lets one of them move (`part`),
which is the same as a run for each. `MCConnections` does so with `RateLimiter`,
`RedisPubSub` and `StreamingAgents`, which has the most states.

`SchedulerProofs`, `SessionManagerProofs`, `DistributedLockProofs`,
`RedisPubSubProofs`, `TrafficProofs`, `StreamProofs`, `StoreProofs` and
`EnvironmentProofs` hold the theorems (section 4). The specification of a manager
carries its name (`RateSpec`, `TerminalSpec`, ...), so that one proof module can
speak of several. An `MC` module gives
the constants of its module small values; definitions whose comment begins "A
variant" are deliberately wrong forms of a definition, which the mutants in
`PROJECT.json` put in its place to show that a property notices.

Abstractions: the score of a node is an arbitrary order (it can only fall under
the cut when something is reserved on the node); pod, session and lock ids are
model values drawn once; messages, labels and specs other than the resources
asked for are left out. History variables record what the code does not (which
requests were admitted, what answers promise, which calls overlapped) and guard
nothing. Where a property excepts what the code cannot promise, a history variable
says exactly when, and the property's comment says what happens then.

## 3. Runs

| Run | Instance | What it shows |
|---|---|---|
| `scheduler_core` | 2 nodes that stay, 4 requests (2 ordinary, 2 that preempt), cpu and VRAM, 1 GPU | GPUs belong to their pods, the two records of a placement agree, preemption ends |
| `scheduler_churn` | 2 node objects that replace each other under one id | no ledger is wronged by calls that hold a replaced node; the scheduler implements `Allocation` |
| `orchestrator` | 3 container pods on 1 permit and a pod of every other type, some with failing drivers, 2 destroyers | listed container and VM pods are up |
| `sessions_core` | 4 sessions (one AI, one without repository), room for 2, 1 permit | no room leaks, running sessions have pods, pods have owners, creations end |
| `lock_core` | 2 clients, 3 tries, 2 late commands, each sent twice at most; keys expire at any time, connections come and go | two hold the lock together only once the key of one went from under it, until then the key is the holder's |
| `connections` | 3 parts, one moving: | |
| &nbsp;&nbsp;requests | a strict endpoint with a narrow window, a generous one with a wide window, 9 half seconds | limits within the narrowest window, and that Retry-After is enough at the most generous endpoint |
| &nbsp;&nbsp;channels | 3 channels, 2 losses | until the first loss every channel is heard; a reconnect that re-subscribes re-subscribes to all; a registered channel gets a listener |
| &nbsp;&nbsp;peers | 2 agents, one after the other, 2 connections, 2 calls, closes that raise | removing an agent forgets all its sessions and closes what can be closed, unless a second call interferes |
| `load_balancer` | 2 backends in up to 3 entries, 2 connections | counts follow the open connections, round-robin is fair, the health status settles |
| `services` | 16 parts, one moving (see below) | the nineteen properties of the table below |

The properties of `services`:

| Property | What it says, and against what |
|---|---|
| `TrailEndsWithStatus` | the last event of a row is its status, whatever events raise; except for overlapping operations on one row |
| `WritersEnd` | operations that log end while there are fewer of them than connections, although readers take the others |
| `AnswersHold` | a write that Redis answered is what is read, an increment counts, with time-outs, retries and late execution |
| `RetrievedAsStored` | a credential is retrieved as stored, across restarts and lost keys, unless a call failed half way or ids share a file |
| `CredentialsLastTheirTime` | no task deletes a timed credential before its own time or that of a task that was waiting when it was stored, and none outlives that time, unless the process ended, its deletion raised, or its store raised while no other task waited |
| `LoginsAreLimited` | wrong passwords within a window are bounded by the limit and the attempts in flight; nobody else is shut out |
| `FilesNameRoutes` | nginx is told the route its address has, although addresses and files are shared |
| `StreamsCanBeStopped`, `MetricsFollowStreams` | encoders, queues and metrics tasks follow the status of a session through every way it starts and ends |
| `QuietSnapshotsRestore`, `BackupsSettle` | a snapshot of a volume left alone restores it; backups end with the verdict of their lookup |
| `ReportsSettle` | once dependencies are quiet the report is right, with hanging checks and doubled loops |
| `RunningMonitorsAreKnown`, `TroubleIsTold` | a running monitor can be stopped; what a check found has an alert under its id |
| `GrantsWithinQuota`, `ScalingFollowsLoad` | what was granted beyond what was released stays within the quota and what that was when the quota was set; scaling never goes against the load |
| `PullsDeliver` | a pull that succeeds leaves an image under the name |
| `ContainersAreAccounted` | entries and containers agree, and nothing of an ended environment is left, unless docker refused |
| `OthersLoseLittle` | a reader left behind takes another terminal's output at most once; no shell or descriptor outlives its terminal |

Runs that end in a violation, each against a sentence of the repository (quoted
under `findings`):

| Run | The sentence | What happens |
|---|---|---|
| `sessions_destroy` | "Destroy a session and its resources" | the pod id asked for does not exist, the container stays up |
| `pubsub_heard` | "Re-subscribe to all existing channels" | a subscription during the wait makes the object and the older channels are lost |
| `database_deadlock` | "Log an event for audit trail" | a create_session and a delete_session on a pool of two hold a connection each and wait for a second one, and neither is ever logged |
| `lock_release` | "Only release if we still own the lock" | the key expires between the GET and the DELETE of a release, another client sets it, and the DELETE takes it |

**Provisos.** Properties that hold only under a condition carry it in the model:
`PlacementsAgree` needs nodes that stay registered (`AllowChurn = FALSE`).
`MutualExclusion` and `HolderOwnsKey` hold of a client until its key expires under it or
a late release takes it: the code neither renews the key nor checks the time, and
`release` compares and deletes in two commands (`redis_integration.py:406`), either of
which may be executed long after the client gave up on it. `lapsed` and `stolen` record
both, so that the properties say that nothing else breaks the lock, and `lock_release`
shows how a key is stolen. They speak of clients that got the lock from Redis: one
without a connection is let in ("No Redis, allow") and not counted.
`CountsFollowConnections` bounds what adding a backend again makes the count forget, which
is made up for only when no connection is open.
`GrantsWithinQuota` takes a release at its word, as `release_resources` does: a caller that
releases twice, or more than it holds, makes room for as much. `CredentialsLastTheirTime`
speaks of the earliest task that waits for a key, which may be that of an earlier store.
`WindowRespected` speaks of endpoints with the narrowest window: a list pruned for a
narrow window undercounts a wide one. `WaitingIsEnough` speaks of the most generous
endpoint: at another the list may hold more than its limit, and one request leaving
the window is not enough. `WritersEnd` needs a pool larger than the number of
operations that log; `database_deadlock` is what happens otherwise.

**Bounds.** Two nodes and four requests are the least at which one call preempts
on one node while another preempts on the other, with an ordinary request between
them. Two objects for one id are enough for a call to hold an object that was
replaced. Three pods on one permit let one wait behind a waiter. Two clients let one
hold the lock while the other tries; a third try lets a late command of the first meet
a later holder, and two late commands are the SET and the DELETE of one client or two
copies of one command. Two losses let a listener fail while it reconnects. The generous
limit is more than three times the strict one, so that blocks happen, and the
clock runs over two wide windows and a block. Three entries for two backends
allow a backend that is listed twice next to another; two connections allow one
from before and one from after a backend was added again. The other two
algorithms of the load balancer differ from those of the run only in which entry
they pick. Two agents, connections and calls let a removal race a closing.

In `services` each part has what its hazard takes and one more where the state
space allows. Two sessions and two pods let a start overwrite one that streams,
next to another pod.
Two writers with a reader on three connections leave none free, and one writer's
events raise. Three commands are a write, its retry and the write of another call; two
calls. Three credentials share two files, over two restarts; three minutes are two
lifetimes, and two tasks may wait for a key and minute. Two background loops and a request give three health checks in flight,
one of which hangs. Three monitors of two pods let one start while two calls stop
another. Three containers of one environment and one of another. Three shells on two
descriptors reuse a number. Two sessions share a subdomain on two domains, with two
ports. Bounds that cut an unbounded behaviour are the constants named `Max...`; ids
are drawn once. Runs stop when ids and tries are used up, so deadlock is not checked
in the orchestrator, pub/sub, connections, database and services runs; the others never stop.

**Fairness.** Only what the event loop, the threads and the servers give: a coroutine
whose await is over is resumed (`ResumeStep`, `CreateStep`, `CallStep`,
`SubscribeStep`, `CheckerStep`, `CheckStep`, `CloseReturns`), a task
that sleeps wakes (`CollectMetrics`, `BackupBegins`, `BackupEnds`, `CleanUp`,
`Check`), docker, Redis, PostgreSQL and port probes end with an answer or an error,
and time passes. Strong fairness is used once, for
`LogEvent`, because asyncpg serves those who wait for a connection in turn. Nobody is obliged to make a request, to
destroy a session or to lose a connection. In `RedisPubSub` a listener that spins
without an await disables every other action, because nothing else runs on its loop.

## 4. Proofs

Every safety invariant that a passing run checks is also a theorem, for every value
of the constants under the named assumptions of the modules (`...Constants`,
`ConstantsOK`, `NoneIsNoPod`), which TLC evaluates in the runs. So are the action
properties `ReconnectsAreComplete`, `OnlyExpiredSessionsVanish`,
`QuietSnapshotsRestore` and `ScalingFollowsLoad`, and the refinement of `Allocation`.
Each inductive invariant was checked with TLC on the run's instance before it was
proved. What it adds to the property is the reason why the property holds:

| Theorem | Property | What the induction needs besides |
|---|---|---|
| `SchedulerProofs` | | |
| `LedgerCorrect` | `LedgerBalanced` | a request whose call has not placed it is assigned nowhere (`Unplaced`), or a second reservation would be charged once |
| `GpusCorrect` | `GpusBelongToAssigned` | the ledger of GPUs, counted by marks |
| `PlacementsCorrect` | `PlacementsAgree` | an id names a node that has it; a call that evicts stands at registered nodes (`PlacementInv`). Hypothesis: `~ AllowChurn` |
| `Refinement` | `ImplementsAllocation` | a preempting call that evicts its last victim and reserves in one resumption is the step that grants and takes away together |
| `SessionManagerProofs` | | |
| `RoomsAreGivenBack`, `RunningHavePods`, `ListedPodsAreOwned`, `VanishedAreDestroyed` | `NoReservationLeaks`, `RunningSessionsHavePods`, `PodsHaveOwners`, `OnlyExpiredSessionsVanish` | where the call of a session stands, related to its room (`RoomInv`) and to its pod (`PodInv`) |
| `ListedAreUp` | `ListedPodsAreUp` | a listed pod's creation has returned, and nobody queues twice for the semaphore, so that waking a waiter resumes its call once |
| `DistributedLockProofs` | | |
| `HolderKeepsKey`, `Exclusion` | `HolderOwnsKey`, `MutualExclusion` | values belong to who drew them, no value is drawn twice (`OwnValues`); a DELETE is sent by who found its own value, so that it takes another's key only once its own is gone |
| `RedisPubSubProofs` | | |
| `HeardSafe`, `ReconnectsSafe` | `HeardUntilFirstLoss`, `ReconnectsAreComplete` | until a loss there is one object and all calls hold it (`OneObject`); objects suffice, since each is given up for a loss or a channel (`ObjectsSuffice`) |
| `TrafficProofs` | | |
| `BalancerCounts`, `BalancerFair` | `CountsFollowConnections`, `RoundsAreFair` | what is listed is counted; the entries that had a turn are those just before the index, round the end (`TurnsInOrder`), which probes and removals restart |
| `WindowsSafe`, `WaitingSafe` | `WindowRespected`, `WaitingIsEnough` | nobody prunes what the narrowest window counts; the list is never longer than the most generous limit; what will be left of it when the client returns leaves room (`PromiseHolds`) |
| `LoginsSafe` | `LoginsAreLimited` | lately failed and lately wrong are the same list; every attempt under way was let in below the limit, so the attempts left and the wrong passwords together are bounded |
| `StreamProofs` | | |
| `StreamsAreStoppable` | `StreamsCanBeStopped` | the three endings of a session are instances of one lemma (`EndingKeeps`) |
| `TerminalsSafe` | `OthersLoseLittle` | a descriptor belongs to the one shell that runs behind it; what is left otherwise is a reader |
| `FilesName` | `FilesNameRoutes` | a file holds a route of its own subdomain (`FilesAreOwn`), only in the directory in use while none was lost (`NothingElsewhere`) |
| `CredentialsKept`, `CredentialsSafe` | the safety half of `CredentialsLastTheirTime` (`NotTooSoon`), `RetrievedAsStored` | no task that waits for a key wakes before the time its file has (`TasksAreInTime`), also when a store raises; what file and memory hold is what is expected, under whatever key |
| `StoreProofs` | | |
| `TrailSafe` | `TrailEndsWithStatus` | a row has one event to be logged at most, and that is its status |
| `AnswersSafe` | `AnswersHold` | what may still be written to a key and who is alone with it (`StoreInv`); every increment begun leaves room for being sent twice (`CounterInv`) |
| `RestoresFaithful` | `QuietSnapshotsRestore` | the volume of a snapshot left alone still holds what the snapshot took |
| `EnvironmentProofs` | | |
| `GrantsStayWithin` | `GrantsWithinQuota` | the count lags behind grants less releases by no more than it did when the quota was set (`CountIsClose`), also when a release is clamped at zero |
| `ScalingSafe` | `ScalingFollowsLoad` | resources are within the bounds of their policy, so that clamping does not undo a step |
| `ContainersSafe` | `ContainersAreAccounted` | what was given to the caller is of the environment and has its entry |
| `MonitorsSafe`, `ChecksSafe` | `RunningMonitorsAreKnown`, `TroubleIsTold` | a call that stops a monitor stops the one its pod has; an alert that replaces another has its id |
| `PullsSafe` | `PullsDeliver` | a file that is being read is there until it is parsed: only the holder of the lock changes files |

`TypeCorrect` is proved of the scheduler, the sessions and the lock; elsewhere the type
invariant is the first conjunct of the inductive one.

Two kinds of lemmas carry the arithmetic and the lists. `SumEmpty`, `SumAdd` and
`SumRemove` say how a sum over a set of pods changes with one pod; `OnlyInAppend`,
`OnlyInTwice` and their companions say what filtering a list keeps. The library's
induction theorems take a predicate as a parameter, which the provers cannot
instantiate, so both are proved by taking the set of the sets, lists or numbers that are
good and looking at a least one outside it.

Model-checked only:

* liveness: `PreemptionReturns`, `RequestsEnd`,
  `RegisteredGetsListener`, `HealthSettles`, `WritersEnd`, `RemovalsCloseSessions`,
  `MetricsFollowStreams`, `BackupsSettle`, `ReportsSettle` and the second half of
  `CredentialsLastTheirTime`. Fairness and ENABLED are out of the prover's reach;
* what depends on them, so all of `StreamingAgents` and `HealthReports`, whose properties
  are about what happens in the end;
* the four violations, which are counterexamples.

## 5. Not modelled

Components and reasons are in `PROJECT.json`. Found while reading, and not stated
as a property:

* *Scheduling.* Nothing in the repository registers nodes or sets `Node.status`
  outside tests, and the session manager is the only caller of `schedule`, with
  priority 50, so preemption does not happen in the platform as wired. `reserve`
  records neither the priority nor the tier of a pod (`scheduler/scheduler.py:384`),
  so the two skip conditions for victims (:456 to :462) compare defaults. Victims are
  taken even if they do not make room (:482), and preemption reserves without
  validating capabilities (:722). `GPUTopologyManager`, `PriorityQueue`,
  `_gpu_compatible` and `_calculate_node_score` have no caller.
* *Sessions.* A session that is destroyed while its pod is created becomes running
  again (`services/platform.py:250`). `main_v2.py:160` runs the cleanup of sessions
  once; `max_concurrent_sessions` (`services/platform.py:40`) is never read;
  `destroy_microvm` removes the one socket all microVMs share. `main_enhanced.py:290`
  and `parsers/devcontainer.py:435` pass parameters `create_session` does not have;
  `main_enhanced.py` and `models/gpu.py` cannot be imported; `GPUManager` is a stub;
  without a docker daemon the container orchestrator returns mock ids. The managers
  of `fork_gui`, `preview` and `run_repo` use attributes their sessions lack.
* *Persistence.* The database layer passes session ids such as "sess-20240101-..." to
  a UUID column (`database/models.py:176`), and the user "anonymous" to another, so
  every statement of `session_integration.py` is refused. `persist_session` and
  `recover_sessions` log that and go on; `destroy_session_with_db` raises after the
  session was destroyed. Nothing is ever persisted, so there is no recovery to model.
* *Redis.* The listener of the pub/sub, when it finds an object without subscriptions,
  goes round without an await (`redis_integration.py:281`) and stops its event loop; the
  model has this state. Flushing replaces the prefix wherever it occurs in a key (:316)
  and so deletes another key than it listed; the model has this too.
* *Limits.* `setup_rate_limiting` configures keys like "POST /sessions" while
  `is_allowed` looks up `request.url.path`, so every endpoint has the default limit;
  with equal limits no client is ever blocked, since refused requests are not counted.
  The time told to a blocked client is truncated (`rate_limit.py:98`), so it may come
  back too early. `RateLimiter.cleanup` has no caller that runs, and nothing
  increments the quota counters.
* *Network.* The connection counts of all services share one table
  (`networking_advanced/network_manager.py:150`): a backend id that two services share
  loses its count when one of them removes it, and the next request for the other
  raises `KeyError`. `AdvancedNetworkManager` never releases backends and passes no
  client address. Policies, mesh and CDN settings are tables that nothing interprets.
  Every session id begins with "sess-20..", so that all sessions of a decade share one
  subdomain.
* *Load balancer.* A backend that is added again counts from zero while its connections
  are open (`networking_advanced/network_manager.py:138`), and releasing those takes from
  the count of the new ones: the least busy backend may be the busiest one.
* *Agents.* A removal that finds a session deleted by another call, such as the handler of
  its failed ICE connection, ends with a `KeyError` that `stop_streaming_server` swallows
  (`streaming/streaming_agent.py:113`): the agent's other connections stay open and the
  agent is forgotten. `RemovalsCloseSessions` excepts this (`raced`).
* *Streaming.* `handle_client_input` gives a coroutine function to a thread
  (`streaming_server.py:361`), which never runs it: queued input stays queued.
* *Credentials.* A task of an earlier store deletes the credential that was stored again
  for longer, since it knows the file only by its path
  (`utils/security_enhanced.py:340`). `store_credential` of the `CredentialManager` needs a running event loop:
  without one it raises after it has written the file, which nothing deletes then
  (`utils/security_enhanced.py:340`); `src/tests/test_enhanced_components.py:111` calls it so.
  The secure store writes the time of expiry into the encrypted data and
  looks for it outside, so nothing expires; `decrypt_password` passes a dictionary to
  `decrypt`.
* *Storage.* A snapshot copies nothing: what is restored is the volume as it is then.
* *Monitoring.* The gauge `pods_total` keeps the counts of states that have no pod any
  more (`utils/monitoring.py`).
* *Terminals.* The idle shell of a client that left goes on until it prints; `waitpid`
  blocks the event loop; a terminal that was overwritten raises `KeyError` when it ends
  (`services/terminal.py:85`).
* Tokens, password hashes, checks of strings, text generation and devcontainer files
  are sequential computations whose result nothing here depends on.

## 6. Plan

Done: all modules of section 2, and proofs of all safety properties (section 4). What
would come next:

1. The safety half of what is only model-checked: a metrics task belongs to a stream that
   encodes or to none, an agent's closed sessions stay closed, a report that is delivered
   contains one answer of every checker.
2. An abstract key/value store that `RedisStore` implements for the keys only one call
   uses, and an abstract lock with leases that `DistributedLock` implements.
3. Two services that share a table of connection counts in `LoadBalancer`; the mock pool
   of the PostgreSQL store and the parents of snapshots.
4. Larger instances of `services`, part by part, once runs may take longer.
