-------------------------------- MODULE Kernel --------------------------------
(***************************************************************************)
(* launch/ and Kernel.start(), Kernel.shutdown() of kernel/__init__.py:    *)
(* the order in which the subsystems come up and go down, interrupted or   *)
(* failing anywhere, with the logging and network services, the shell and  *)
(* the web terminal, whose threads go on meanwhile.                        *)
(*                                                                         *)
(* Of a log entry its number is kept.                                      *)
(***************************************************************************)
EXTENDS Hal, Sequences, SequencesExt

CONSTANTS
  BufferSize,    \* maxlen of LoggingService._buffer
  MaxEvents,     \* bound on the network status events
  MaxInterrupts, \* bound on the keyboard interrupts
  Units          \* the services that ServiceManager discovers

ASSUME KernelAssumption ==
  /\ BufferSize \in Nat \ {0} /\ MaxEvents \in Nat /\ MaxInterrupts \in Nat

\* kernel/__init__.py:481-534 and 536-553
StartSteps == <<"hal", "storage", "mode", "aura", "storage_service", "logging", "jobs",
                "health", "watchdog", "network", "shell">>
StopSteps == <<"watchdog", "network", "health", "jobs", "logging", "storage_service",
               "web", "loop", "shell", "join", "storage", "hal">>
Subsystems == ToSet(StartSteps) \cup {"loop"}
Threaded == {"logging", "health", "watchdog", "network"}
Surfaces == {"universal", "internal", "hardware"}

VARIABLES
  surface,    \* the mode's NAME
  phase,      \* what the main thread is doing
  step,       \* how far it has got with that
  up,         \* the subsystems whose _running, _conn or the like is set
  at,         \* the thread of each part that has one: whether it is about to
              \* look at its flag or in a round of its loop
  units,      \* the services' threads
  shellAt,    \* the shell's thread
  web,        \* the web terminal's server: not yet made, serving, held by a
              \* client, told to end while it is, waiting for itself to end,
              \* or ended with its port still taken
  events,     \* network status events waiting on the bus
  halt,       \* whether SHUTDOWN waits there
  published,  \* how many status events there have been
  logged,     \* how many entries the log has had
  disk,       \* the entries that are in the log file
  requested,      \* whether a permission request waits on the bus
  bootlog,    \* stages recorded, and those on disk in boot.log
  pid,        \* whether aura.pid exists
  interrupts  \* how many keyboard interrupts there have been

logVars == <<events, halt, published, logged, disk>>
threadVars == <<at, units>>
kernelVars == <<halVars, surface, phase, step, up, threadVars, shellAt, web, logVars, requested,
                bootlog, pid, interrupts>>
quietVars == <<surface, bootlog, pid, interrupts>>

Buffer == {e \in 1..logged : e > logged - BufferSize}

KernelTypeOK ==
  /\ HalTypeOK /\ surface \in Surfaces /\ up \subseteq Subsystems
  /\ phase \in {"entry", "init", "chain", "start", "loop", "stop", "shut", "exited"}
  /\ at \in [Threaded -> {"none", "look", "round"}]
  /\ units \in [Units -> {"registered", "running", "stopped"}]
  /\ step \in 0..Len(StopSteps) + 1 /\ shellAt \in {"none", "new", "prompt", "blocked", "ended"}
  /\ web \in {"none", "serving", "held", "closing", "stuck", "ended"}
  /\ events \in 0..MaxEvents /\ published \in events..MaxEvents
  /\ logged \in 0..(MaxEvents + 1) /\ disk \subseteq 1..logged
  /\ {halt, requested, pid} \subseteq BOOLEAN

KernelInit ==
  /\ HalInit /\ surface \in Surfaces /\ phase = "entry" /\ step = 0
  /\ up = {"loop"} /\ at = [s \in Threaded |-> "none"]
  /\ units = [n \in Units |-> "registered"] /\ shellAt = "none" /\ web = "none"
  /\ events = 0 /\ halt = FALSE /\ published = 0 /\ logged = 0 /\ disk = {}
  /\ requested = FALSE /\ bootlog = [seen |-> 0, written |-> 0]
  /\ pid = FALSE /\ interrupts = 0

Goes(p, s) == phase' = p /\ step' = s

-----------------------------------------------------------------------------
\* launcher.main(): the mode is detected and the kernel made.
LauncherMain ==
  /\ phase = "entry" /\ Goes("start", 1)
  /\ UNCHANGED <<halVars, up, threadVars, shellAt, web, logVars, requested, quietVars>>

\* mount_rootfs() finds no rootfs, or one without its directories.
LauncherRefuses ==
  /\ phase = "entry" /\ Goes("exited", 0)
  /\ UNCHANGED <<halVars, up, threadVars, shellAt, web, logVars, requested, quietVars>>

\* aura_init.main(): it writes its pid, and _select_mode() imports a mode
\* that kernel/modes/hardware.py does not define.
InitMain ==
  /\ phase = "entry" /\ Goes("init", 0) /\ pid' = TRUE
  /\ UNCHANGED <<halVars, up, threadVars, shellAt, web, logVars, requested, surface, bootlog, interrupts>>

InitFails ==
  /\ phase = "init" /\ Goes("exited", 0) /\ pid' = FALSE
  /\ UNCHANGED <<halVars, up, threadVars, shellAt, web, logVars, requested, surface, bootlog, interrupts>>

\* BootLog.record(), and _write_boot_log() to the rootfs if that can be
\* written.
StageRecorded(s) == bootlog' = [seen |-> s, written |-> 0]
BootLogWritten == bootlog' \in {bootlog, [bootlog EXCEPT !.written = bootlog.seen]}

\* BootChain.run(), which aura_init.main() would come to and others may call,
\* a stage at a time: environment, rootfs and kernel, ...
BootFirst ==
  /\ phase = "entry" \/ (phase = "chain" /\ step < 3)
  /\ Goes("chain", step + 1) /\ StageRecorded(step + 1)

\* ... then three that only record that kernel.start() is to do their work.
BootLater ==
  /\ phase = "chain" /\ step \in 3..5
  /\ Goes("chain", step + 1) /\ StageRecorded(step + 1)

\* The log is written last, before the kernel is started.
BootEnds == phase = "chain" /\ step = 6 /\ Goes("start", 1) /\ BootLogWritten

BootStage ==
  /\ BootFirst \/ BootLater \/ BootEnds
  /\ UNCHANGED <<halVars, up, threadVars, shellAt, web, logVars, requested, surface, pid, interrupts>>

\* BootError of one of the first three: there is no rootfs, say, next to the
\* repository, in the configuration or on a card.
StageRaises ==
  /\ phase = "chain" /\ step \in 1..3 /\ Goes("exited", 0)
  /\ UNCHANGED <<halVars, up, threadVars, shellAt, web, logVars, requested, quietVars>>

-----------------------------------------------------------------------------
\* VStorageDevice.start() opens its database and is registered.
StorageOpens == RegisterDevices({"storage"}) /\ up' = up \cup {"storage"}

\* start() of logging, the health monitor and the watchdog: the flag is up, the
\* subscriptions are made and the thread runs. The network's begins with a
\* check, before it looks at the flag.
FirstPlace(s) == IF s = "network" THEN "round" ELSE "look"
ThreadStarts(s) == up' = up \cup {s} /\ at' = [at EXCEPT ![s] = FirstPlace(s)]

\* What each step of start() does. HardwareMode.activate() needs a token that
\* start() does not pass.
StepDone(s) ==
  CASE s = "hal" -> HalStart /\ up' = up \cup {s} /\ UNCHANGED at
    [] s = "storage" -> StorageOpens /\ UNCHANGED at
    [] s = "mode" -> surface # "hardware" /\ ActivateMode /\ UNCHANGED <<up, at>>
    [] s \in Threaded -> ThreadStarts(s) /\ UNCHANGED halVars
    [] s \in {"aura", "shell"} -> UNCHANGED <<halVars, up, at>>
    [] OTHER -> up' = up \cup {s} /\ UNCHANGED <<halVars, at>>

\* start() takes one step; after the last, in which the units are
\* discovered, the shell's thread made and BOOT_COMPLETE published, it enters
\* the loop.
StartStep ==
  /\ phase = "start" /\ StepDone(StartSteps[step])
  /\ shellAt' = IF StartSteps[step] = "shell" THEN "new" ELSE shellAt
  /\ IF step = Len(StartSteps) THEN Goes("loop", 0) ELSE Goes("start", step + 1)
  /\ UNCHANGED <<units, web, logVars, requested, quietVars>>

\* The database cannot be opened, the partitions cannot be made or the mode
\* wants a token: nobody catches it.
StartRaises ==
  /\ phase = "start"
  /\ \/ StartSteps[step] \in {"storage", "storage_service"}
     \/ StartSteps[step] = "mode" /\ surface = "hardware"
  /\ Goes("exited", 0)
  /\ UNCHANGED <<halVars, up, threadVars, shellAt, web, logVars, requested, quietVars>>

\* Shell._handle_permission_request() has its answer and publishes it.
Answered ==
  /\ step = 1 /\ Goes(phase, 0) /\ requested' = FALSE
  /\ published < MaxEvents /\ published' = published + 1 /\ events' = events + 1

\* KeyboardInterrupt in start(), anywhere in a step, or in the loop: the
\* launcher calls shutdown(). One in shutdown() ends the process; one at the
\* prompt for a permission only answers it.
Interrupt ==
  /\ interrupts < MaxInterrupts /\ interrupts' = interrupts + 1
  /\ \/ /\ phase = "start" /\ Goes("stop", 1)
        /\ \/ UNCHANGED <<up, at>>
           \/ /\ StartSteps[step] \notin {"mode", "aura", "shell"}
              /\ up' = up \cup {StartSteps[step]} /\ UNCHANGED at
           \/ StartSteps[step] \in Threaded /\ ThreadStarts(StartSteps[step])
        /\ UNCHANGED <<events, published, requested>>
     \/ phase = "loop" /\ step = 0 /\ Goes("stop", 1) /\ UNCHANGED <<up, at, events, published, requested>>
     \/ phase = "loop" /\ Answered /\ UNCHANGED <<up, at>>
     \/ phase = "stop" /\ Goes("exited", 0) /\ UNCHANGED <<up, at, events, published, requested>>
  /\ UNCHANGED <<halVars, units, shellAt, web, halt, logged, disk, surface, bootlog, pid>>

\* LoggingService._on_event(): the entries that the events of a tick make.
LogEntries == IF "logging" \in up THEN events + (IF halt THEN 1 ELSE 0) ELSE 0

\* A tick of the kernel loop delivers what is on the bus. SHUTDOWN, if it is
\* among it, ends the loop and with it start(): nobody calls shutdown() then.
LoopTick ==
  /\ phase = "loop" /\ step = 0 /\ (halt \/ events > 0)
  /\ logged' = logged + LogEntries
  /\ events' = 0 /\ halt' = FALSE
  /\ IF halt THEN Goes("exited", 0) ELSE UNCHANGED <<phase, step>>
  /\ UNCHANGED <<halVars, up, threadVars, shellAt, web, published, disk, requested, quietVars>>

\* InternalMode.request_permission() publishes a request, ...
RequestCapability ==
  /\ phase = "loop" /\ surface = "internal" /\ ~ requested /\ requested' = TRUE
  /\ UNCHANGED <<halVars, phase, step, up, threadVars, shellAt, web, logVars, quietVars>>

\* ... whose handler, in the loop's own thread, waits for somebody to type.
Prompts ==
  /\ phase = "loop" /\ step = 0 /\ requested /\ step' = 1
  /\ UNCHANGED <<halVars, phase, up, threadVars, shellAt, web, logVars, requested, quietVars>>

PromptAnswered ==
  /\ phase = "loop" /\ Answered
  /\ UNCHANGED <<halVars, up, threadVars, shellAt, web, halt, logged, disk, quietVars>>

\* A fault: stop() leaves the last flush to the thread.
NoFinalFlush(s) == UNCHANGED disk

\* LoggingService.stop() and _flush_to_disk(): every entry that is still in
\* the buffer is written, those of earlier flushes again.
StopFlushes(s) == disk' = IF s = "logging" /\ s \in up THEN disk \cup Buffer ELSE disk

\* A fault: the shell's thread is joined without a timeout.
JoinsForever == shellAt \in {"none", "ended"}

\* _shell_thread.join(timeout=2.0) returns whatever the thread does.
ShellJoined == TRUE

\* A fault: the network service is forgotten.
SkipsNetwork(s) == IF s = "network" THEN up ELSE up \ {s}

\* stop() of each of them clears the flag that its thread looks at, and waits
\* for no thread. None of the steps of shutdown() is ServiceManager's.
Cleared(s) == up \ {s}

\* WebTerminalService.stop() tells the server to end and waits until it has,
\* without a timeout; the flag stays up till then. The server's one thread
\* looks between two requests.
WebTold == web' = CASE web = "serving" -> "ended" [] web = "held" -> "closing" [] OTHER -> web
WebDown == web \in {"none", "ended"}

\* shutdown() takes one step.
StopStep ==
  /\ phase = "stop"
  /\ LET s == StopSteps[step] IN
       /\ s = "join" => ShellJoined
       /\ s = "web" => WebDown
       /\ up' = Cleared(s)
       /\ StopFlushes(s)
       /\ IF s = "hal" THEN HalStop ELSE UNCHANGED halVars
  /\ IF step = Len(StopSteps) THEN Goes("shut", 0) ELSE Goes("stop", step + 1)
  /\ UNCHANGED <<threadVars, shellAt, web, events, halt, published, logged, requested, quietVars>>

\* When it comes to the web terminal, it tells that to end first.
StopTellsWeb ==
  /\ phase = "stop" /\ StopSteps[step] = "web"
  /\ web \in {"serving", "held"} /\ WebTold
  /\ UNCHANGED <<halVars, phase, step, up, threadVars, shellAt, logVars, requested, quietVars>>

\* main() returns and the process ends, its daemon threads with it.
Exit ==
  /\ phase = "shut" /\ Goes("exited", 0)
  /\ UNCHANGED <<halVars, up, threadVars, shellAt, web, logVars, requested, quietVars>>

-----------------------------------------------------------------------------
(* The other threads, until the process ends.                              *)

Alive == phase \in {"start", "loop", "stop", "shut"}

Moves(s, from, to) == at[s] = from /\ at' = [at EXCEPT ![s] = to]

\* while self._running: the thread begins another round, or ends.
Looks(s) ==
  /\ Alive /\ Moves(s, "look", IF s \in up THEN "round" ELSE "none")
  /\ UNCHANGED <<halVars, phase, step, up, units, shellAt, web, logVars, requested, quietVars>>

\* HealthMonitor._loop(): a round of checks (see HealthMonitor).
HealthRound ==
  /\ Alive /\ Moves("health", "round", "look")
  /\ UNCHANGED <<halVars, phase, step, up, units, shellAt, web, logVars, requested, quietVars>>

\* KernelWatchdog._run(): it sleeps, and restarts services that have stopped
\* (see Watchdog).
WatchdogRound ==
  /\ Alive /\ Moves("watchdog", "round", "look")
  /\ \E ns \in SUBSET {n \in Units : units[n] = "stopped"} :
       units' = [n \in Units |-> IF n \in ns THEN "running" ELSE units[n]]
  /\ UNCHANGED <<halVars, phase, step, up, shellAt, web, logVars, requested, quietVars>>

\* NetworkService._check_once(): a check, which publishes NETWORK_STATUS.
CheckOnce ==
  /\ Alive /\ Moves("network", "round", "look")
  /\ published < MaxEvents /\ published' = published + 1 /\ events' = events + 1
  /\ UNCHANGED <<halVars, phase, step, up, units, shellAt, web, halt, logged, disk, requested,
                 quietVars>>

\* LoggingService._flush_loop(): the last look is after the sleep.
FlushLoop ==
  /\ Alive /\ Moves("logging", "round", "look")
  /\ disk' = disk \cup Buffer
  /\ UNCHANGED <<halVars, phase, step, up, units, shellAt, web, events, halt, published, logged,
                 requested, quietVars>>

Rounds == (\E s \in Threaded : Looks(s)) \/ HealthRound \/ WatchdogRound \/ CheckOnce \/ FlushLoop

\* ServiceManager.start(), by somebody who has the kernel object, and the end of
\* the service's process (see ServiceManager).
UnitMoves(n) ==
  /\ \/ phase = "loop" /\ units[n] # "running" /\ units' = [units EXCEPT ![n] = "running"]
     \/ Alive /\ units[n] = "running" /\ units' = [units EXCEPT ![n] = "stopped"]
  /\ UNCHANGED <<halVars, phase, step, up, at, shellAt, web, logVars, requested, quietVars>>

\* Shell._cmd_net() has a check made at once, also of a service that has been
\* stopped; the status, whatever it is, is published.
ProbeNow ==
  /\ Alive /\ shellAt = "prompt" /\ published < MaxEvents
  /\ published' = published + 1 /\ events' = events + 1
  /\ UNCHANGED <<halVars, phase, step, up, threadVars, shellAt, web, halt, logged, disk, requested, quietVars>>

\* Shell.run() begins, takes a command and looks whether it is to go on.
ShellBegins ==
  /\ Alive /\ shellAt = "new" /\ shellAt' = "prompt" /\ up' = up \cup {"shell"}
  /\ UNCHANGED <<halVars, phase, step, threadVars, web, logVars, requested, quietVars>>

\* Shell._cmd_exit() publishes SHUTDOWN and stops the shell.
CmdExit == halt' = TRUE /\ up' = up \ {"shell"}

\* WebTerminalService.start(). A server that has ended still has its port, so
\* that another cannot be started.
WebStarts == web = "none" /\ web' = "serving"

\* Shell.run() takes a command that matters here and looks whether it is to go
\* on. "web stop" of a server that does not end at once blocks it.
ShellCommand ==
  /\ Alive /\ shellAt = "prompt"
  /\ \/ /\ \/ CmdExit /\ UNCHANGED web
           \/ WebStarts /\ UNCHANGED <<up, halt>>
           \/ web = "serving" /\ WebTold /\ UNCHANGED <<up, halt>>
           \/ up' = up \ {"shell"} /\ UNCHANGED <<halt, web>>  \* the end of the input
        /\ shellAt' = IF "shell" \in up' THEN "prompt" ELSE "ended"
     \/ /\ web \in {"held", "closing", "stuck"} /\ WebTold
        /\ shellAt' = "blocked" /\ UNCHANGED <<up, halt>>
     \/ \* a command raises, which run() does not catch: the thread is gone
        shellAt' = "ended" /\ UNCHANGED <<up, halt, web>>
  /\ UNCHANGED <<halVars, phase, step, threadVars, events, published, logged, disk, requested,
                 quietVars>>

ShellUnblocks ==
  /\ Alive /\ shellAt = "blocked" /\ WebDown
  /\ shellAt' = IF "shell" \in up THEN "prompt" ELSE "ended"
  /\ UNCHANGED <<halVars, phase, step, up, threadVars, web, logVars, requested, quietVars>>

\* The server's thread takes a connection and reads, without a timeout.
WebAccepts ==
  /\ Alive /\ web = "serving" /\ web' = "held"
  /\ UNCHANGED <<halVars, phase, step, up, threadVars, shellAt, logVars, requested, quietVars>>

\* The client, when it pleases, has sent its request or is gone. The request
\* may be a command: "web stop" makes the server's thread wait for itself.
WebAnswers ==
  /\ Alive /\ web \in {"held", "closing"}
  /\ \/ /\ web' = IF web = "held" THEN "serving" ELSE "ended"
        /\ CmdExit \/ UNCHANGED <<up, halt>>
     \/ web' = "stuck" /\ UNCHANGED <<up, halt>>
  /\ UNCHANGED <<halVars, phase, step, threadVars, shellAt, events, published, logged, disk,
                 requested, quietVars>>

\* Somebody who has the kernel object drives Hardware Mode.
Hardware ==
  /\ phase = "loop" /\ HardwareNext
  /\ UNCHANGED <<surface, phase, step, up, threadVars, shellAt, web, logVars, requested, bootlog, pid,
                 interrupts>>

MainStep == \/ StartStep \/ StartRaises \/ LoopTick \/ Prompts
            \/ StopTellsWeb \/ StopStep \/ Exit

Boots == LauncherMain \/ LauncherRefuses \/ InitMain \/ InitFails \/ BootStage \/ StageRaises
Talks == ProbeNow \/ ShellBegins \/ ShellCommand \/ ShellUnblocks \/ WebAccepts \/ WebAnswers

KernelNext ==
  \/ Boots \/ MainStep \/ Interrupt \/ RequestCapability \/ PromptAnswered
  \/ Rounds \/ (\E n \in Units : UnitMoves(n)) \/ Talks \/ Hardware

\* The main thread goes on; whether anybody types is another matter.
KernelSpec == KernelInit /\ [][KernelNext]_kernelVars /\ WF_kernelVars(MainStep)

-----------------------------------------------------------------------------
\* The parts that shutdown() has been through.
StoppedParts ==
  CASE phase = "stop" -> {StopSteps[i] : i \in 1..(step - 1)}
    [] phase = "shut" -> ToSet(StopSteps)
    [] OTHER -> {}

\* Wherever in start() or the loop the interrupt came, a part that shutdown()
\* has been through begins no further round in its thread, which may still be in
\* the one that was under way; and when shutdown() returns, all that had been
\* started has been told to end, but for the shell, whose thread may only now
\* begin, the web terminal that it may then start, and the services' threads,
\* which nothing in shutdown() reaches: kernel/__init__.py:536-553.
NothingLeftRunning ==
  [][/\ \A s \in Threaded : at[s] = "look" /\ at'[s] = "round" => s \notin StoppedParts
     /\ phase' = "shut" => up' \subseteq {"shell"}]_kernelVars

\* Whatever the log holds in its buffer is on disk, if that can be written,
\* when shutdown() returns,
\* although the loop, the flush and the network's thread went on meanwhile:
\* logging_service.py:124-130.
LogOnDisk == phase = "shut" => Buffer \subseteq disk

\* shutdown() ends, also when nobody presses a key in the shell that it
\* joins, unless the web terminal was told to stop by a request to it, or has a
\* client that never finishes: kernel/__init__.py:536-553.
ShutdownEnds ==
  phase = "stop" ~> (phase = "exited" \/ web = "stuck" \/ [](web = "closing"))
=============================================================================
