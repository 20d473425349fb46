# AURA AIOSCPU: a verification of the system

AURA AIOSCPU is an "AI-first" virtual operating system in Python: one process
with a kernel (event bus, scheduler, kernel loop, watchdog, permission and
override layers, hardware abstraction), services that run in threads of their
own (job queue, health monitor, storage, logging, build, network, command
channel, web terminal), an assistant (AURA) with its models, a virtual network
of nodes, and a shell. This directory holds TLA+ models of these parts, the TLC
configurations that check them on small instances, and TLAPS proofs of the
central properties, of the runtime core and of the parts around it, for every
value of the constants.

Contents: [the system](#the-system), [hard behaviours](#hard-behaviours),
[the models](#the-models), [the runs](#the-runs), [bounds](#bounds),
[fairness](#fairness), [the proofs](#the-proofs), [where code and documentation
disagree](#where-code-and-documentation-disagree), [seen while
modelling](#seen-while-modelling), [what is not
modelled](#what-is-not-modelled), [the plan](#the-plan).

To repeat the checks: `tlc -workers 2 -config MCJobQueue.cfg MCJobQueue` (a cfg is
named after its module, or has a suffix) and `tlapm JobQueue_proofs.tla`.

## The system

Paths are those of the repository. "Threads" names who executes the code.

| Component | State it keeps | Operations | Threads | What makes it correct |
| --- | --- | --- | --- | --- |
| Event bus, `kernel/event_bus.py` | subscriber lists, a `heapq` of events, the event counter | `subscribe`, `publish`, `drain` | publishers: any; drain: kernel loop | every event delivered once to every subscriber, in priority and publish order; no exception of a subscriber gets out |
| Kernel scheduler, `kernel/scheduler.py` | task heap, job heap | `submit_task`, `schedule_job`, `tick` | kernel loop | tasks run; a periodic job stays scheduled, its interval apart |
| Kernel loop, `kernel/loop.py` | stop flag, tick count, adaptive interval | `run`, `stop`, `tick_once`, `_on_shutdown` | its own; `stop`: any | ends when told to and only then; awake after work, asleep when idle |
| Service manager, `services/__init__.py` | a record per service: state, thread | `discover`, `register`, `start`, `stop`, `_run` | callers: watchdog, kernel loop, shell; one thread per service | the state tells what the service does; nothing stays in between |
| Watchdog, `kernel/watchdog.py` | a health record per service: failures, disabled, time of last failure | `start`, `stop`, `_check_cycle`, two subscriptions | its own; subscriptions: kernel loop | restarts what stopped, respects back-off and limit |
| Job queue, `services/job_queue.py` | heap, active map, history ring, per-job state and attempts | `submit`, `cancel`, `_drain_one`, `start`, `stop`, `status` | submit, cancel: any; drain: kernel loop, as a periodic job | no job lost or run twice, retried as often as asked, verdicts final |
| Health monitor, `services/health_monitor.py` | a circuit breaker per service | `start`, `stop`, `run_check_now`, `_check_all`, `_repair_service` | its own; `run_check_now`: shell; repair: a job, so kernel loop | a circuit opens after enough failures in a row, once an outage, and asks for one repair |
| Kernel, `kernel/__init__.py` | references to all parts | `start`, `shutdown` | main | what it has stopped begins nothing more, wherever an interrupt came; shutdown ends |
| Launch and boot, `launch/` | boot log, pid file | `launcher.main`, `aura_init.main`, `BootChain.run` | main | stages in order; a fatal one ends the boot |
| Permission model, `kernel/permissions.py` | mode, grants, revocations | `set_mode`, `grant`, `revoke`, `reset_grants`, `check` | any | allowed is what modes, grants and revocations so far entitle to |
| Kernel API, `kernel/api.py` | none | a method per request, checked against permissions | shell, plugins | nothing goes through that was not entitled |
| Override layer, `kernel/override.py` | audit log, request number | `request_override` | any | the log tells every request's story before it takes effect |
| Privilege layer, `kernel/privilege.py` | escalations, audit | `request_host_escalation`, `execute_as_virtual_root` | any | no escalation without the operator's yes |
| Modes and mirror, `kernel/modes/*`, `kernel/mirror.py` | consent tokens, activation | `activate`, `project`, `revoke`, `enforce` | main | projection only with consent |
| HAL, `hal/` | devices, bus, projection flag | `register_device`, `project`, `teardown_all`, `start`, `stop` | main | what is projected is torn down |
| Host bridges, `bridge/`, `host_bridge/` | capabilities of the host | `has_capability`, host calls | any | a host grants what it has |
| Storage service, `services/storage_service.py` | partitions and overlay on disk | `start`, `read_file`, `write_file`, `ensure_writable` | any | a file reads back; read-only partitions stay as shipped |
| Build service, `services/build_service.py`; `build.py`; `tools/manifest.py` | snapshots, backup, `dist/`, manifests | `snapshot`, `rollback`, `rebuild_rootfs`, `verify_integrity`; the script | caller, rebuild thread, another process | a rollback never loses the tree; a verified build is a current one |
| Logging service, `services/logging_service.py` | buffer, file | `start`, `stop`, `write`, flush | kernel loop, its own | what was logged is on disk after the stop |
| Network service, `services/network_service.py` | last status | `start`, `stop`, `probe_now`, poll | its own, shell | ends when stopped |
| Web terminal, `services/web_terminal.py` | HTTP server | `start`, `stop`, commands | its own, one | does not hold up the shutdown |
| Shell, `shell/` | flag, commands, history | `run`, `dispatch`, `stop`, prompts | its own; prompts: kernel loop | dispatches to the parts above |
| Command channel, `services/command_channel.py` | HTTP server, references | `start`, `stop`, requests | its own, one | every sync ends |
| Virtual network, `vnet/` | node identity, peers, coordinator, registration | `start`, `stop`, register, heartbeat, `sync_state`, announce | own threads | a dead node is deposed; threads end |
| Model manager, `models/model_manager.py` | registry, active name, engine | `register`, `scan`, `load`, `unload`, `load_ollama`, `load_openai`, `infer` | shell, web terminal | an answer comes from a model that was active |
| AURA, `aura/` | memory window and file | `query`, `save`, `load`, `pulse` | kernel loop, shell, web terminal | answers follow their questions |
| Package manager, `services/package_manager.py` | registry and its file | `install`, `uninstall`, `upgrade` | shell, web terminal | file and registry agree |
| Service registry, `services/registry.py`; module builder; plugin loader | descriptors, load order, instances; files | `discover`, `start_all_autostart`, `start`, `stop`; scaffold; `load_all` | main | dependencies come first |
| Config, device profile, debug shell, other tools | none that lasts | files, texts | main | input and output |

How they interact. The live `Kernel.__init__` (332-479 of `kernel/__init__.py`; the
class is defined twice in that file and the second definition wins) builds the
parts in dependency order, `start` (481-534) starts them and enters the loop,
`JobQueue.start` has the scheduler call the drain every 100 ms. Everything
else talks through the bus (`SERVICE_REGISTERED`, `SERVICE_STARTED`,
`SERVICE_STOPPED`, `JOB_*`, `HEALTH_*`, `NETWORK_STATUS`, `PERMISSION_*`,
`SHUTDOWN`): any thread publishes, and
callbacks run later in the kernel loop's thread. Three callers start and stop
services without knowing of each other: the watchdog's thread, the health
monitor's repair job (in the kernel loop's thread) and the operator (shell,
command channel, API). The shell's commands are dispatched by its own thread
and by the web terminal's, so that models, memory and packages have two users.
Nodes of the virtual network meet over HTTP only.

## Hard behaviours

The code has many threads and few locks (the job queue's, the build service's,
the model manager's, the package registry's). What a test would
hardly reach, and the models are built to reach:

* heap operations of several threads on one Python list: `Event.__lt__` is
  Python code, so the interpreter can switch threads inside `heappush` and
  `heappop`;
* check-then-act on a service's record by up to four threads, with a `join` that
  gives up after five seconds;
* the window between the end of a callable and the bookkeeping in the job queue,
  into which a `cancel` may fall;
* callbacks, tasks and jobs that publish, subscribe, submit, schedule or raise
  while the structure they change is being walked;
* decisions on state read earlier (watchdog, health monitor, repair job,
  `ModelManager.load`, the query that looks at the active model first);
* a person in the loop: confirmations and permission prompts that wait, in the
  kernel loop's own thread, while modes, grants and other requests go on;
* interrupts and exceptions at any step of `start` and `shutdown`, with daemon
  threads going on beside;
* trees and files that are removed or emptied before they are written again,
  with a failure or a crash in between (rollback, packaging, manifests, package
  registry, memory, node identity);
* peers that crash, restart, answer late or wait for each other;
* limits: retries, failures, back-off, the idle interval, equal heap keys, the
  log buffer, the memory window, stale ages.

`PROJECT.json` lists every hazard at its line, with the properties that would
catch it going wrong or the reason why none does.

## The models

Each module says in its header which threads execute the code and where they
can interleave; each definition carries the code's name and each variable says
which attribute it stands for. A step of a model ends where another thread can
observe or change something: at a lock's release, between a test and a write of an
unlocked record, at a call that runs foreign code, between two operations on the
file system that a crash may separate.

| Module | Models | State | Actions |
| --- | --- | --- | --- |
| `JobLifecycle` | what the job queue promises, abstractly | a job's life, tries, quota | Accept, Begin, Succeed, Fail, Cancelled |
| `JobQueue` | `services/job_queue.py` | `_queue`, `_active`, `_history`, `_seq`, the jobs' fields, the drain's position | submit in four steps, cancel in one (it holds the lock), `_drain_one` in eleven, start, stop, the clock |
| `PriorityLanes` | the order the bus promises, abstractly | a queue per priority, as the set of the events in it: a newer event has a larger number | Enqueue, Dispatch |
| `EventBus` | `kernel/event_bus.py` | `_subscribers`, `_queue`, the counter, the heap call each thread is in, the drain's position | subscribe; publish as construct, push, return; drain as pop, pop returns or raises, deliver, end |
| `Scheduler` | `kernel/scheduler.py` | both heaps, the clock, the tick's position and its one clock reading | submit_task, schedule_job; tick as task, task ends, job popped, job ends, tick ends |
| `AdaptiveTick` | class `AdaptiveTick` of `kernel/loop.py` | interval, idle ticks | mark_busy, mark_idle |
| `KernelLoop` | class `KernelLoop`, composing `EventBus`, `Scheduler`, `AdaptiveTick` | the loop's position, `_stopping` | run, begin tick, drain, tick, pulse, sleep, exit, stop; calls from inside callbacks and work; other publishers |
| `ServiceManager` | `services/__init__.py` | the records, each service's threads, each caller's position | register, start in four steps, stop in seven, `_run` in four |
| `Watchdog` | `kernel/watchdog.py`, composed with `ServiceManager` | `_health`, the cycle's position | start, stop, the cycle in eleven steps, the subscription, back-off |
| `HealthMonitor` | `services/health_monitor.py`, composed with `ServiceManager` | circuits, each checker's position, repair jobs, the repair's position | start, stop, the check in six steps, the repair in four |
| `Bridge` | `bridge/`, the host part of `kernel/mirror.py` and `kernel/privilege.py` | none | which host has which capability |
| `Permissions` | `kernel/permissions.py`, the gate of `kernel/api.py` | `_mode`, `_granted`, `_revoked`, a history | set mode, grant, revoke, reset, a gated call |
| `Override` | `kernel/override.py`, `kernel/privilege.py`, composed with `Permissions` and `Bridge` | the request each requester has under way, the log, the audit, escalations, whether the guard has a bridge | ask, decline, approve, execute and its end, an escalation listed, granted and audited, refused, virtual root |
| `Rootfs` | `services/storage_service.py`, `tools/manifest.py` | the tree with its overlay, the manifest | start, write, read, generate and verify the manifest |
| `BuildService` | `services/build_service.py`, `build.py`, composed with `Rootfs` | snapshots, backup, `dist/`, the lock, what each worker is doing | snapshot in two steps, rollback in five, rebuild in five, the script in as many, clean, crash |
| `Hal` | `hal/`, `kernel/modes/` | VCPU, devices, bus, projection, tokens | start, stop, register, activate, issue and revoke a token, project, revoke |
| `Kernel` | `kernel/__init__.py`, `launch/`, logging, network, web terminal, shell, composed with `Hal` | the main thread's phase and step, which parts' flags are up, where their threads are, the services' threads, shell, web server, bus, log, disk | three ways in, the boot stages, `start` and `shutdown` step by step, interrupts, exceptions, loop ticks, prompts, the rounds of the parts' threads, services that start and end, shell commands, web clients |
| `CommandCenter` | `vnet/command_center.py`, `vnet/node_identity.py` | flags, heartbeat threads, the caller of `stop`, identity and its file, the center's list | boot, save, die, start, stop and deregistration, the thread in eight steps |
| `Mesh` | `vnet/mesh.py`, `vnet/peer_registry.py`, the server of `services/command_channel.py` | ages of the peers' records, coordinators, syncs under way, channels and what waits for them | announce and its handling, sync in steps, a sync that raises, a request served, channel start and stop, crash, restart, time |
| `Assistant` | `models/model_manager.py`, `aura/__init__.py`, `aura/memory.py` | registry, active name, engine, each asker's position, the window, its file | register, scan, load in two steps, unload, hosted engines, a query in four, save in two, reboot |
| `PackageManager` | `services/package_manager.py` | registry, file, each client's position | install, uninstall, save in three steps, reload |
| `Extensions` | `services/registry.py`, `services/module_builder.py`, `shell/plugin_loader.py` | descriptors, order, the calls of the search under way, states, instances; plugins | discover; the search for the order as calls of `visit()` and returns; start all, start, stop, scaffold, load plugins |
| `JobQueue_proofs`, `ServiceManager_proofs`, `KernelLoop_proofs`, `HealthMonitor_proofs`, `Kernel_proofs`, `BuildService_proofs`, `Override_proofs` | the proofs about the module in their name; in `ServiceManager_proofs` also those about `Watchdog`, in `KernelLoop_proofs` about `EventBus`, `Scheduler` and `AdaptiveTick`, in `Override_proofs` about `Permissions` | | |
| `Periphery_proofs` | the proofs about `Assistant`, `PackageManager`, `Mesh` and `Extensions` | | |

The `MC` modules instantiate them. `MCPeriphery` puts the last five modules of
models into one instance: they share no state, so a behaviour is one of one of
them, and the instance is their disjoint union rather than their product.

Some choices that a reader should know:

* A heap is the set of its elements with the order of `__lt__`. In `EventBus`
  that is not enough, as overlapping heap calls may leave the list in disorder:
  `ordered` says that its first entry is the least one; when it is false, `heappop`
  may return any entry. `listLen` and `disturbed` reproduce the check of
  CPython's C `heapq` that raises `RuntimeError` when the list changed size
  during a call.
* In `Scheduler` an entry is a list `[next_run, interval_ms, job]`. Python
  compares lists item by item, so two entries with equal numbers are ordered by
  comparing callables, which raises `TypeError`. `Ties` is that comparison,
  `RootTies` and `RestTies` say when a heap of at most three entries makes it.
* `stop()` of the service manager reads `record.thread` three times, and so does the
  model: `StopLooks` tests one thread, `StopWaits` joins whichever is there by then. A
  thread that `start()` has just put there cannot be joined: `RuntimeError` leaves
  `stop()` with the state "stopping", until that thread runs.
* `StartMakes` replaces a thread object another call had put in the record and
  not started yet; `StartGoes` reads the record again, so that two overlapping
  starts may start the same thread (the second gets a `RuntimeError`).
* A service's entry point is abstract: it may end at any time or run for ever.
* Some variables are not in the code and say so ("history"): `record` of
  `Permissions`, `ran` of `Override`, `before` of `BuildService`, `active` of `Hal`,
  `elected` and `silent` of `Mesh`, `met` of a query in `Assistant`, `spoilt` of
  `PackageManager`. No guard reads them but for the bound on the length of `record`.
  From any prefix of `record`, `LawfulAfter` reads off what was allowed after it,
  without looking at the model's own state.
* A tree on disk is a whole one (a version of each file in its partition and in
  the overlay), torn, or absent. A removal or a copy that does not end leaves
  a torn tree.
* A unit of time of `Mesh` is the interval of the sync thread: every node that is
  up has its turn in it. An announcement waits in the receiver's backlog for as long
  as that likes, and is handled also when its sender is dead by then.
* In `Kernel` a part with a thread has a flag (`up`) and a place in its loop (`at`):
  `stop()` clears the flag and waits for no thread (`kernel/watchdog.py:117`,
  `services/network_service.py:154`, `services/health_monitor.py:119`,
  `services/logging_service.py:124`; none of the four joins), so a round that is under
  way goes on during and after it. The services' threads (`units`) are started by the
  watchdog or by somebody who has the kernel object; nothing in `shutdown()` stops them.
  The web terminal's server has one thread, which a client holds from its connection
  to its answer, for as long as it pleases.
* Some modules hold operators whose comment begins with "A fault". They are
  variants of the definition that follows, as a plausible bug would make it; the
  specification does not use them. `PROJECT.json` pairs each with the property
  that TLC finds violated when the variant takes the definition's place: the
  properties are not true by the shape of the models.
* Every module has a type invariant (`TypeOK` or a name that ends so). Those of
  `JobQueue`, `ServiceManager`, `Watchdog`, `EventBus`, `Scheduler`, the kernel
  loop, `BuildService`, `Permissions` and `Override` are proved as theorems, what a
  proof about another module needs of its types is part of its invariant; the
  runs check the properties that say more.

## The runs

Every run is one question. Eight finish without an error; the other four
check one claim of the documentation each, and TLC finds it violated by what the
code does.

| Run | Question | Properties |
| --- | --- | --- |
| `MCJobQueue` | Two jobs, submitted and cancelled from other threads at any step of the drain, of equal or different priority, with no retries or two: is any lost or held twice? Is every queued job settled in the end? Is the queue an implementation of `JobLifecycle`? | `Conserved` `Lifecycle` `EverySettles` |
| `MCEventBus` | Callbacks that publish, subscribe and raise, and two more threads inside `heappush`: is an event dropped, duplicated or kept from a subscriber? Is each handed out, or has the drain died? With the loop's thread alone, is the order that of a queue per priority? | `ExactlyOnce` `AllSubscribersServed` `AllDelivered` `DeliveredInOrder` |
| `MCKernelLoop` | The scheduler by itself, with tasks and jobs that raise, take time, submit and schedule: do jobs stay scheduled and run an interval apart, and does every task get run? The composed loop: does work bring the interval back, is a stop request final, and does `stop()` or a queued `SHUTDOWN` end the loop? | `StaysScheduled` `Spaced` `EveryTaskRuns` `ResponsiveAfterWork` `StopIsFinal` `StopHeeded` |
| `MCWatchdog` | The watchdog and an operator, a service that may outlast `stop()`: is a state ever a lie about what goes on, does every transition end, is a disabled service or one within its back-off ever started, and is any known service left stopped? | `StateHasAgent` `RestartsPatiently` `StoppedIsRestarted` `TransitionsEnd` |
| `MCHealthMonitor` | The periodic check and `run_check_now` overlapping, and repairs: does a circuit open for enough failures in a row only, once an outage, and does a lasting outage open it? | `CircuitFollowsFailures` `OneRepairPerOutage` `OutageOpensCircuit` |
| `MCBuildService` | Writes, manifests, snapshots, rollbacks, rebuilds and the build script, failing or crashing anywhere: do files read back, do read-only partitions stay as they were, is the tree that a rollback replaces ever lost, does a verified build hold older code, is the build lock given back? | `ReadsBack` `OnlyWritableDrifts` `SafetyNet` `VerifiedIsPackaged` `BuildsEnd` |
| `MCKernel` | Launcher, init and boot chain in every mode; interrupts and exceptions anywhere, with the other threads in the middle of their rounds: does `shutdown()` end, is the log on disk then, does a part that it stopped begin anything further, and is a device ever projected after the mode was told to revoke? And any sequence of mode changes, grants, revocations and resets, with two requests for confirmation under way, on different hosts: is allowed what the history entitles to, does the log tell all, and is what AURA escalates to confirmed, granted and audited? | `RevokedTearsDown` `NothingLeftRunning` `LogOnDisk` `ShutdownEnds` `EntitledByHistory` `AuditTellsAll` `EscalationsConfirmed` |
| `MCPeriphery` | Command center client, mesh, assistant, packages, service registry, plugins: is a dead node deposed, do syncs and heartbeat threads end, who answers a query and in which order, does the package file follow, do dependencies come first? | `CrashedDeposed` `SyncsEnd` `HeartbeatsEnd` `AnsweredByActive` `AnswersFollowQuestions` `FileFollowsRegistry` `DependenciesFirst` |
| `MCJobQueueRetries` | "How many times to retry on failure." | `RetriedAsDocumented`: violated |
| `MCKernelLoopTie` | "Runs continuously until stop() is called." | `RunsUntilStopped`: violated |
| `MCHealthMonitorRepair` | "Attempt to restart a failed service." | `RepairRestarts`: violated |
| `MCKernelConsent` | "Cannot operate without a valid consent token." | `ProjectsWithConsent`: violated |

What the properties do not say is as telling.

* That a service has one instance is proved for a sole
  caller whose services end in time (`OneInstanceAlone`): with two callers, or a
  service that outlasts the five seconds, there are two instances at once.
* `DeliveredInOrder` speaks of publishing by one thread: overlapping heap
  calls may leave the list out of order.
* `RestartsPatiently` does not say that a service that crashes each time is
  disabled: it is not (see below).
* `SafetyNet` ends where a new rollback begins: one that is tried again after a
  crash removes the backup first.
* `VerifiedIsPackaged` allows for a `dist/` that is not all there: a failed
  packaging leaves it torn while the older manifest still verifies.
* `NothingLeftRunning` speaks of what `shutdown()` stops: flags, and rounds that are
  not begun any more. A round under way may outlast it. The shell (whose thread may
  only now begin), a web terminal that it then starts and the services' threads run on
  until the process ends.
* `ShutdownEnds` leaves out a web terminal that was told to stop by a request to
  itself, and one with a client that never finishes.
* `RevokedTearsDown` speaks of `HardwareMode.revoke()`. Withdrawal of consent by
  `revoke_consent_token` stops nothing: that is the run `MCKernelConsent`.
* `StateHasAgent` does not say that a stopping service has somebody in `stop()`: the
  agent may be the thread that a start is about to run.
* `StoppedIsRestarted` leaves out a watchdog whose thread has died of its own report.
* `FileFollowsRegistry` leaves out saves that fail or overlap.
* `CrashedDeposed` does not say that nodes agree on a coordinator: each uses its own
  list. It counts from the last announcement of the dead node that was handled, and
  of a sync that was cut short by an exception it says nothing.

`CHECK_DEADLOCK FALSE` stands where the system may come to rest: all jobs
settled, the loop or the drain stopped or dead, the clock or the history at its
bound, the process ended, or a service that runs for ever. `MCPeriphery` checks
for deadlock as well.

## Bounds

* `MCJobQueue`: two jobs, the priorities {1, 5} and retry limits {0, 2}, all
  combinations initially. Two jobs are what a heap order, a retry overtaken
  by another job, and a history ring of one entry need; retry limit 0 is the
  boundary where the first attempt is the only one, 2 allows a retry. `MaxClock`
  stops an idle clock only: `Advance` stays possible while a job waits for its
  back-off, so no behaviour is cut.
* `MCEventBus`: a third event makes the heap long enough for `heappop` to
  compare (it compares only if two entries remain), and a further one
  can be pushed while it compares, which is what makes it raise. Two publishers
  and the loop are the fewest threads of which two can be inside a heap call
  when the third begins one.
* `MCKernelLoop`, the scheduler by itself: three tasks and three entries, but four of
  them together, intervals 1 and 2, two priorities, a clock up to 3: a task submitted by
  a running one, behind a more urgent one and after one that raised; jobs that are late,
  that coincide and that tie. The assumption `MaxEntries <= 3` is part of the model
  (`RootTies`).
* `MCKernelLoop`, the whole loop: the shortest non-trivial parts, for the composition is
  what is checked: two events, one task, one job, one other publisher. `MaxMs` 50 is not
  a multiple of `BaseMs` 16, so that the limit cuts a doubling short; `IdleCap` 5
  leaves two stretched ticks after the grace period. The proofs do not have
  these bounds.
* `MCWatchdog`: the watchdog and one operator, two threads, two failures to the
  limit: below it and at it. One service: health records do not interact. `Room`
  keeps a spare thread for every start under way, so that the bound never blocks a
  start in its middle; a restart that the bound does not leave room for is
  exempt in `StoppedIsRestarted`.
* `MCHealthMonitor`: two checkers, threshold two, one service and
  one thread for it: the monitor reads the service's state only, and one
  thread produces every sequence of states. Two repairs may be queued.
* `MCBuildService`: a file in a read-only and one in a writable partition, the
  latter in `tmp`; a
  worker beside the script, since the lock keeps a second worker out; two
  versions of the sources; one crash, as its effects do not add up. All
  snapshots get the same name, the case in which one is written over.
* `MCKernel`: five settings that do not meet: every way to start with the main thread
  alone; and, started by the launcher, the parts' threads with a service, the shell and
  the web terminal, somebody who drives Hardware Mode; and overrides and escalations
  with no kernel at work. The proofs about `Kernel` and `Override` have no such
  division. A buffer of one and two events, so that entries leave the buffer; two
  interrupts, so that the second falls into the shutdown. A capability that may be
  overridden and escalated, one that may be escalated only, one that may be overridden
  only and a forbidden one; a host that has them and one that lacks some, on
  which permissions are left alone. A history of three, the first mode included: a
  grant and a step down, a revocation and a call or a grant after it. The first mode is
  not the highest, and the guard is without a bridge on one of the hosts only. Two
  requests, one by each requester or in a row.
* `MCJobQueueRetries`: one job, for nothing else bears on how often it is retried.
* `MCKernelConsent`: the third of the settings of `MCKernel`.
* `MCPeriphery`: two heartbeat threads (an old one and a new one) and two
  identities; two nodes whose peers go stale after one unit, in two parts: crashes, restarts and
  announcements with one request a unit, and no announcement and no restart with two, so that
  both servers can be waiting; two askers, two queries and a window of three, so that
  the window cuts a conversation; two clients and two packages; two shipped
  services with any dependencies, cyclic ones and missing ones included, and one that
  is scaffolded.

## Fairness

Weak fairness is assumed only of what the code or its platform does without
being asked:

* A thread inside a call goes on (`CallGoesOn`, `Publish`, `PublishEnds`,
  `DogStep`, `CheckStep`, `BuildStep`, `RunStep`, `SyncStep`, `MainStep`): the
  interpreter schedules runnable threads, and what blocks is a `join` or a
  request with a timeout, or a sleep. `MainStep` does not include the answer to a
  prompt, and is not enabled while the web terminal's server has not ended: that waits
  for its client, of which nothing is assumed.
* The kernel loop calls `drain` and `tick` again and again, and, through the
  scheduler, the drain of the job queue (`DrainStep`, `TickStep`, `LoopStep`): its
  `while` loop. Callbacks, tasks and jobs return; `submit` demands it ("must not
  block indefinitely").
* Time passes (`Advance`, `BackoffEnds`), and published registrations are
  delivered (`OnServiceRegistered`).
* No fairness is assumed of requests (submit, cancel, start, stop, subscribe,
  schedule, commands, answers), nor of the end of a service's entry point, nor of
  a request that the command channel passes to the kernel.
* `EverySettles` speaks of a queue that stays started; `StoppedIsRestarted` of a
  watchdog that watches.

## The proofs

TLAPS proves these for every value of the constants allowed by the
`ASSUME` of the component's module (types and non-emptiness; for `Scheduler` also
the bound on entries, which is part of its model of ties; for `Rootfs` that the
manifest is not one of `Files`, as the model follows it apart from them; for
`BuildService` that the sources have a first version; for
`Mesh` that node numbers are positive, 0 being no node; for `Extensions` that services
are finitely many and numbered as their descriptors sort).

`JobQueue_proofs`. The invariant `Conserved` is not inductive: that a job in the heap
is waiting after `DrainRequeue` depends on what the drain knew since it popped
it. `IInv` adds, for each step of the drain, what it knows of the job it holds
(`HandOK`: for instance, between pop and mark the job is waiting and not in the
heap, and at "requeue" it has attempts left), for every job where it may be
(`JobsOK`: a running job is the one in hand; a waiting one that has been tried has attempts
left), and that the history holds settled jobs (`HistoryOK`). From it follow
`TypeCorrect` and `ConservedAlways`. `SettledForeverAlways`
is about steps: a settled job is in no one's hands that could change it, which is a
consequence of `HandOK` and `JobsOK`. `ImplementsLifecycle` maps every step to a
step of `JobLifecycle` or a stutter; the mapping (`Life`) makes a job "unborn"
until it is pushed. `StutterRefines` covers the ten actions that
change no life, `MoveRefines` the others. `KeptOK` is the lemma about the history
ring: trimming an appended ring keeps a suffix of allowed length.

`ServiceManager_proofs`. For any number of callers and threads,
`StateHasAgentAlways`: the strengthening tells the three agents of "starting" apart
(a caller before it makes the thread, a caller before it starts the thread that *the
record names*, a new thread), which is needed because a second caller may replace
the thread object of the first. That the state is "stopping" has a fourth: such a
start, when the `join` of the thread it put there raised. `OneInstanceAlone` assumes
`Alone` (a sole caller, services that end in time): every thread on its way into or
in the entry point is the one the record names (`ThreadsOK`), and at each step of
its call the caller knows the state and whether such a thread exists (`CallerOK`);
so the set of instances is a subset of a singleton.

The same module has the watchdog, one of the service manager's callers.
`WatchInv` says that from its look at the health record on the service it is about to start is
neither disabled nor waiting, since only its own failures make it so: hence
`RestartsPatientlyAlways`. `WatchdogImplementsManager` maps each of its steps to one of
`start()` or to a stutter, so that `StateHasAgentAlways` and `TypeCorrect` carry over.
`WatchdogTypeCorrect` rests on `DogInv`: a service is disabled exactly when its failures have
reached the limit, and the watchdog turns only to services it knows and has not disabled; so
the count of failures never passes the limit.

`KernelLoop_proofs`. For the composed loop, whatever bus and scheduler do:
`ResponsiveAlways`, `OnlyBusyShortensAlways` and `StopIsFinalAlways`. The argument is that
only `Pulse` touches the ticker (`PulseOnly`), that both ways to mark a tick
keep the limits (`TickerStep`, with the product bounded by `FactorStretches`), and that
neither the event count nor the tick's result changes while the loop sleeps.

For the scheduler, any tasks, jobs, intervals and clock, `SchedInv` says that entries have
distinct numbers up to the last one given, that the entry being run is not in
the heap, and that an entry that has run is due no earlier than an
interval after the reading of the clock it ran at (`QueueOK`, `RunsAlone`). The last is
what makes `SpacedAlways` hold although the interval is counted from a clock that is read once
a tick; the first two make `StaysScheduledAlways` inductive: a job that is put
back gets its own place again, whatever it has scheduled meanwhile.

For the bus, any threads, callbacks and events, `ExactlyOnce` alone is not inductive. `BusInv`
adds that no two threads hold the same event and none the one that `heappop`
holds (`InOnePlace`), that the records of events grow with the counter
(`Records`), and that no callback has seen an event that was not handed out (`Unseen`),
since `AllSubscribersServed` counts from nothing. `ExactlyOnceAlways` and
`AllSubscribersServedAlways` follow, with as many heap calls overlapping as there are
threads. What is lost by that overlap is order and, when `heappop` raises, the
drain: `AloneInOrder` and `AloneNeverDies` take the bus on which the loop's
thread alone publishes, and show that it loses neither. `AloneInv` says that no heap call
meets another and that the list stays a heap; so each event that leaves the
list precedes all that stay. On the same bus `AloneImplementsLanes` states
`DeliveredInOrder` as a refinement: each publication joins the queue of its priority,
each `heappop` takes the oldest event of the most urgent queue, and no other step touches
a queue. It needs `Newest`: an event that is built and not yet in the list is newer
than all that are in it.

`LoopImplementsParts`: every step of the composed loop is one of the bus's or a
stutter, and one of the scheduler's or a stutter, so all of this holds in
the running loop. `OneAtATimeAlways` relates the loop's place to those of its parts; from
it and `AloneNeverDies`, `DiesOnlyOfTies`: a loop on whose bus nobody else publishes
dies only of two jobs that cannot be compared, the case of the run
`MCKernelLoopTie`.

`HealthMonitor_proofs`. For any number of services, overlapping checks and any
threshold. The two properties speak of a check that has counted a failure and is yet
to judge it; `MonitorInv` adds what each check is about, and that the circuit and the number of
openings say the same. The service manager beneath is left free: whatever states
the monitor reads, `CircuitFollowsFailuresAlways` and `OneRepairPerOutageAlways` hold. They
rest on the test and the setting of the circuit being one step:
`record_failure` calls nothing between the two. `MonitorImplementsManager` takes both
together: a check only reads the states, and a repair, which knows its service (`RepairInv`),
is a caller of `stop()` like any other, so that what is proved of the service manager
for any callers holds beside the monitor.

`Kernel_proofs`, for any number of interrupts, events, prompts, services, tokens and
devices. `RevokedTearsDown` is not inductive, because `HAL.project()` looks at the
permission to project and not at what the mode was told; its invariant has both
withdrawn together. For
`NothingLeftRunningAlways`, `StopInv` says that at each step of `shutdown` every part whose
step it is past has its flag down, but for the shell. It needs that each flag that
`start` can raise has its step in `shutdown` (`StopFacts`), and that no thread beside
raises a flag again (`BesideKeepsDown`); then a thread that looks at its flag ends, and
one that is in a round ends when it looks. For `LogOnDiskAlways`, `LogInv` says that
entries are made only while logging is up, and that from the fifth step of `shutdown` on
the buffer is in the file.

`BuildService_proofs`, for any files, workers, snapshots, failures and crashes.
`TreesInv` says of every tree (live, in an archive, unpacked in a
worker's hands) that it is torn, mixed, absent, or whole and with the read-only files as
shipped; with it go `ReadsBackAlways` and `OnlyWritableDriftsAlways`. `DistInv`
says what the holder of the build lock has done so far to `dist/` and gives
`VerifiedIsPackagedAlways`. `LockOwnedAlways` says that a worker has the lock exactly while it
builds: at most one builds at a time and releases no other's lock, which is the
safety half of `BuildsEnd`. `BuildTypeCorrect` adds the bounds of the versions
(`CountsOK`) to these. `SafetyNetAlone` assumes that one worker only rolls
back, as `SafetyNet` is not kept by two at a time: they do not take the lock
and one removes the backup of the other. `SafeInv` says at each place of
the rollback where the tree is that it found. (The run has one worker beside the script.)

`Override_proofs`, for any host, capabilities, requesters' steps and decisions. At
each of the three points after the answer `EscInv` says what is listed, granted and
audited already. It also remembers what was asked before the operator was: that
AURA's request, as it waits, is for a capability that may be asked for, and after
the answer that the approval is in the log. Log and record only grow
(`LongerKeeps`), so what is in them stays.

`EntitledAlways` compares sets that are updated with a reading of the whole history. What the
history says after one entry more is a lemma on its last entry and on what it
said before (`HistoryGrows`); `PermInv` has mode, grants and revocations as those in force
(`FollowsHistory`). `OverrideImplementsPermissions` then takes it to
the composition (`EntitledUnderOverride`): the one way in which the layers above touch the
permission model, an escalation, grants a capability that the model knows, which
`EscInv` remembers. `AuditTellsAllAlways`: a request under way has a
number of its own (`Numbered`), nothing in the trail while the operator is asked and
exactly its approval after that (`Told`); so what it leaves when it ends is one of the
five endings, and an entry of the other requester never disturbs it. `OverrideTypeCorrect` and
`PermTypeCorrect` are corollaries.

`Periphery_proofs`. `AnsweredByActiveAlways`, for any number of threads: a query under
way has met the present name, and the engine is that of the present name or
the stub (`QueryInv`). `AnswersFollowQuestionsAlways`, for windows of every length: the
questions in the window stand in the order of their numbers, so one that is pushed
out leaves only later ones (`Good`); a query under way has its question in the window or
lost so (`Put`); and the window is as good in the file and in the hands of a thread
that saves it (`TalkInv`). `FileFollowsRegistryAlways`, for any number of clients:
until a save is spoilt one client saves at a time, and what it saves is
the registry unless another is yet to begin (`FileInv`).
`CrashedDeposedAlways`, for any number of nodes and any stale age: a record of a
node that is dead is as old as its silence, that is the time since its death or the
handling of the last thing it had announced, less the unit in which that was
(`DownInv`), so a sync in the unit that follows the stale age no longer counts it.
Announcements may be handled at any time after the death; it needs that
nobody announces itself to itself (`NotToSelf`).

`DependenciesFirstAlways`, for any services and dependencies, cyclic and missing ones
included. The depth-first search of the registry is modelled as its calls and returns, so no
induction over the graph is needed: `OrderInv` is inductive over the steps. It says
that what is visited stands in the order once or has a call under way (`VisitedOnce`), that
no registered service is forgotten by the call it was to be made from (`NoneForgotten`),
and that a call depends on those made within it, so that it reaches
them, while what is in the order comes after its dependencies but for
such as depend on it (`WellOrdered`). When the outermost call returns, what remains of this
is the property (`Settled`).

The invariants of `JobQueue_proofs`, `ServiceManager_proofs`, `KernelLoop_proofs` and
`Override_proofs`, `HealthInv`, `RepairInv`, `OrderInv` and `LockOwned` were checked with
TLC before they were proved, on the instances above or on ones with two or three
entries, events or publishers more; of the others TLC checks the property itself.

Only model-checked:

* all liveness (`EverySettles`, `AllDelivered`, `EveryTaskRuns`, `StopHeeded`,
  `TransitionsEnd`, `StoppedIsRestarted`, `OutageOpensCircuit`, `BuildsEnd`,
  `ShutdownEnds`, `HeartbeatsEnd`, `SyncsEnd`), which is beyond TLAPS's support for
  fairness;
* the type invariants of `HealthMonitor`, `Hal`, `Kernel`, `CommandCenter`, `Mesh`,
  `Assistant`, `PackageManager` and `Extensions` as they stand: TLC finds them to hold on the
  instances above, and the invariants of the proofs have the parts that these need.

`DeliveredInOrder` is stated by its run with the variable `alone`, which tells a bus with one
publisher from one with several; the theorem about the former is `AloneImplementsLanes`.
`SafetyNet` is proved where one worker only rolls back.

## Where code and documentation disagree

Four disagreements have a run that shows them, and are listed as findings in
`PROJECT.json`:

1. **Two jobs that tie end the kernel loop** (`kernel/scheduler.py:114`, `:93`).
   Entries with equal times and intervals make `heapq` compare two callables; the
   `TypeError` leaves `tick()`, which nothing up to the thread's top frame
   catches. `kernel/loop.py:75` says that the loop "Runs continuously until stop() is
   called".
2. **A repair never restarts** (`services/health_monitor.py:234`). The repair goes on to
   `start()` if `stop()` returned something true; it returns `None`, or raises for
   a service that is not running, which is the usual case.
3. **A retry less than documented** (`services/job_queue.py:234`). `submit` says of
   `max_retries` "How many times to retry on failure." (`:138`); the test
   `attempts < max_retries` counts the first attempt, so that a limit of two gives one
   retry, and a limit of one gives none.
4. **Hardware Mode outlives its consent** (`kernel/modes/hardware.py:33-35`, `:79-91`).
   "Consent can be revoked at any time", and the mode "cannot operate without a
   valid consent token" (`:10-11`). `revoke_consent_token` takes the token
   from the set of valid ones, which `activate()` alone looks at; the mode that holds it keeps its
   devices and projects more.

Others are plain from the models, or words too loose for a run:

* A crashing service is restarted for ever
  (`kernel/watchdog.py:179`). `start()` returns when the thread has been started;
  only exceptions out of `start()` are counted, so a service that crashes each time
  never reaches `max_failures`, against the life cycle of `kernel/watchdog.py:17-18`.
* `shutdown()` is to "Gracefully stop all subsystems in reverse-start order"
  (`kernel/__init__.py:537`). It does not call the service manager, so services that
  run are cut off by the end of the process; it waits for no thread but the shell's;
  and its order is not the reverse of that of `start`.
* `shutdown()` does not end while a client of the web terminal keeps its connection:
  `WebTerminalService.stop` waits without a timeout (`services/web_terminal.py:556`) for the
  one thread of an `HTTPServer` (`:531`) that reads without one (`:366`, `:413`).
* A node that died is active and may be coordinator again when an announcement it had
  made is handled after its death (`services/command_channel.py:209-224`): "peers that have
  been seen recently" (`vnet/peer_registry.py:169`) are those whose requests were handled
  recently.

## Seen while modelling

Modelled as the code does it:

* Limits of 0 and 1 retries mean the same (`services/job_queue.py:234`). The history
  that the drain trims may lack what a `cancel` has appended meanwhile (`:254-259`).
  Priority comes after the due time in the job heap (`:62`). `cancel` publishes
  nothing, and `JOB_STARTED` may come before `JOB_QUEUED`.
* A thread that pushes while `heappop` compares makes it raise in the kernel
  loop (`kernel/event_bus.py:79`); the loop dies with the event in hand.
  `ExactlyOnce` allows for it. Callbacks that publish in a circle keep the drain
  from returning (`:78`).
* A tick in which every task and job raised counts as idle (`kernel/loop.py:132`).
* `ServiceManager.stop` ends as "stopped" though the thread runs on when the
  `join` times out, and its last write may fall on the "running" of a newer start
  (`services/__init__.py:170-171`).
* `join()` of a thread that a start has put into the record since the test raises
  `RuntimeError` out of `stop` (`services/__init__.py:169-170`).
* A service registered while the watchdog builds its report ends the watchdog's thread: the
  comprehension of `kernel/watchdog.py:126` is over the dictionary that the subscription
  adds to, and nothing catches the `RuntimeError`. `active()` of the peer registry may raise
  the same way, which costs the mesh a sync (`vnet/peer_registry.py:170`).
* The watchdog restarts what an operator stopped (`kernel/watchdog.py:176`). A repair
  that runs late stops a service that has recovered
  (`services/health_monitor.py:233`), and nothing in the monitor starts it again.
* `grant` undoes a revocation made while the operator was being asked, and an
  escalation is audited as executed although the grant raised
  (`kernel/privilege.py:270-279`). Overridable actions that no bridge knows by that name
  never pass the guard.
* A rollback that is tried again after a crash removes the backup before it
  finds that there is no rootfs to save (`services/build_service.py:248-250`).
  Snapshots and rollbacks do not take the build lock.
* `build.py` looks for the packaged files under names they were not copied to, so
  it ends with a failure whatever was built; `--clean` removes the snapshots
  along with `dist/`.
* The manifest tool writes its file into the tree it lists, so that the second
  verification finds it changed.
* `aura_init.py:58` imports a class that `kernel/modes/hardware.py` does not
  define, and `Kernel.start` activates Hardware Mode without the token it needs:
  neither way in reaches the loop in that mode.
* The launcher calls `shutdown()` for an interrupt only; after a `SHUTDOWN`
  event the process ends without the final flush (`launch/launcher.py:147-151`).
* `HAL.stop` keeps the
  registry of devices and the projection flag.
* `web stop` typed in the web terminal makes its only thread wait for itself
  (`services/web_terminal.py:556`), and `shutdown()` after it; `web start` after
  `web stop` finds the port taken.
* The permission prompt waits for input inside the kernel loop's drain
  (`shell/__init__.py:769`). A shell whose thread begins after `Shell.stop` runs on.
* The log's flush writes the whole buffer each time, and a stop and start
  subscribes twice (`services/logging_service.py:114`).
* A stale peer is never asked again, and mesh requests carry no key, so that a
  channel with a key refuses them. Two nodes asked to synchronise at once wait for each
  other until the timeout.
* A crash while `node_identity.json` is written gives the node a new identity;
  the command center keeps the old one.
* `uninstall` drops the record even if pip failed; two saves at a time may
  leave a mixture. A new discovery forgets the state of running services.
  Scaffolded services raise in `start()` with their thread running, and
  scaffolded plugins are never registered.

## What is not modelled

`PROJECT.json` gives the reason for each component. In short: configuration and
device profile are read once; nothing in the running system creates the debug shell;
the tools but the manifest's only print; AURA's personality, introspection and
context, and the wording of every message, do not bear on any property. Of the
components modelled, left out are: reports and status texts; the parsing of unit
files (`discover` of the service manager appears as `register`); the watchdog's
integrity check (it changes no state the model has); shell commands that act on host
files directly; the bridges' calls to the host; operations that have no caller
(`mount_sd_rootfs`, the key-value store of the storage device,
`PeerRegistry.merge_from_cc`, `remove` and `touch`). In `BuildService` nobody writes
to the rootfs while it is rolled back and nobody edits the sources while they are
packaged, though the code keeps neither out: what a copy of a changing tree holds is
any mixture. In `JobQueue` an append of the drain that goes to a list which the trim
of a `cancel` has just replaced is not lost, as it may be in the code. Packaging is
one step with a torn tree as one of its outcomes, though the code goes directory by
directory, for all its properties allow for a torn `dist/`. `PermissionModel` writes
its mode and its grants one after the other without a lock; in `Permissions` a mode
change or a grant is one step, so a grant that falls between the two writes of
`set_mode`, and is dropped by the second, is not seen. The override and privilege
layers are taken as made with a `KernelAPI`, as the system makes them (without one
an escalation is listed and audited and grants nothing). The interpreter's own
atomicity is assumed: a dictionary or attribute access is one step, a `heapq` call
is as many as it makes comparisons.

## The plan

What is left:

1. `Supervision`: watchdog, health monitor and job queue beside one service
   manager; do two supervisors and an operator agree? It composes `Watchdog`,
   `HealthMonitor` and, for the repair jobs, `JobLifecycle`. What is proved of
   the service manager for any callers holds there as well; what two supervisors
   do to each other is the question.
2. The remaining type invariants as theorems.
3. The two writes of `set_mode`, and of `grant`, `revoke` and `reset_grants`, as steps of
   their own, and what `EntitledByHistory` then has to allow.
