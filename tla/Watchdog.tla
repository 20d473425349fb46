------------------------------ MODULE Watchdog ------------------------------
(***************************************************************************)
(* kernel/watchdog.py: the thread that restarts stopped services.          *)
(*                                                                         *)
(* It wakes every few seconds, reads the state of every service it has     *)
(* been told of, publishes a report and calls ServiceManager.start() for   *)
(* those it found stopped. The services' own threads and the other callers *)
(* of ServiceManager go on meanwhile. It learns of services from           *)
(* SERVICE_REGISTERED events, which the kernel loop delivers some time     *)
(* after the registration.                                                 *)
(***************************************************************************)
EXTENDS ServiceManager

CONSTANTS
  Dog,          \* the watchdog's thread, one of Callers
  MaxFailures,  \* max_failures
  AutoRestart,  \* auto_restart
  Operations    \* what the other callers do: "start", "stop"

ASSUME WatchdogAssumption ==
  /\ Dog \in Callers /\ MaxFailures \in Nat \ {0}
  /\ AutoRestart \in BOOLEAN
  /\ Operations \subseteq {"start", "stop"}

VARIABLES
  watching,  \* _running
  dog,       \* where the watchdog's thread is
  toRead,    \* services whose state is not read yet in this cycle
  degraded,  \* those it found down, and has not turned to yet
  aim,       \* the service it is restarting
  known,     \* the keys of _health
  failures,  \* ServiceHealth.failure_count
  disabled,  \* ServiceHealth.disabled
  waiting    \* the last failure is less than backoff_ms ago

dogVars == <<watching, dog, toRead, degraded, aim, known, failures, disabled, waiting>>
watchVars == <<vars, dogVars>>

WatchdogTypeOK ==
  /\ TypeOK
  /\ watching \in BOOLEAN
  /\ dog \in {"off", "top", "asleep", "read", "report", "restart", "test", "call", "called",
             "dead"}
  /\ toRead \subseteq Services /\ degraded \subseteq Services
  /\ aim \in Services \cup {NoService}
  /\ known \subseteq Services /\ disabled \subseteq known /\ waiting \subseteq known
  /\ failures \in [Services -> 0..MaxFailures]

WatchdogInit ==
  /\ Init
  /\ watching = FALSE /\ dog = "off"
  /\ toRead = {} /\ degraded = {} /\ aim = NoService
  /\ known = {} /\ disabled = {} /\ waiting = {}
  /\ failures = [n \in Services |-> 0]

\* start(), called once, at boot.
DogStarts ==
  /\ dog = "off" /\ ~ watching
  /\ watching' = TRUE /\ dog' = "top"
  /\ UNCHANGED <<vars, toRead, degraded, aim, known, failures, disabled, waiting>>

\* stop(): the cycle under way is finished.
DogStops ==
  /\ watching /\ watching' = FALSE
  /\ UNCHANGED <<vars, dog, toRead, degraded, aim, known, failures, disabled, waiting>>

\* _on_service_registered, in the kernel loop's thread.
OnServiceRegistered(n) ==
  /\ state[n] # "absent" /\ n \notin known
  /\ known' = known \cup {n}
  /\ UNCHANGED <<vars, watching, dog, toRead, degraded, aim, failures, disabled, waiting>>

DogMoves(from, to) == dog = from /\ dog' = to

\* while self._running
DogLoops ==
  /\ dog = "top" /\ watching
  /\ dog' = "asleep"
  /\ UNCHANGED <<vars, watching, toRead, degraded, aim, known, failures, disabled, waiting>>

\* _check_cycle() begins with a copy of _health's keys.
DogWakes ==
  /\ DogMoves("asleep", "read")
  /\ toRead' = known /\ degraded' = {}
  /\ UNCHANGED <<vars, watching, aim, known, failures, disabled, waiting>>

\* A fault: only a service that is being stopped counts as down.
Down_Stopping(n) == state[n] = "stopping"

Down(n) == state[n] \notin {"running", "registered", "starting"}

DogReads(n) ==
  /\ dog = "read" /\ n \in toRead
  /\ toRead' = toRead \ {n}
  /\ degraded' = IF Down(n) /\ n \notin disabled THEN degraded \cup {n} ELSE degraded
  /\ UNCHANGED <<vars, watching, dog, aim, known, failures, disabled, waiting>>

\* get_health_report() walks over _health ...
DogReports ==
  /\ dog = "read" /\ toRead = {}
  /\ dog' = "report"
  /\ toRead' = known
  /\ UNCHANGED <<vars, watching, degraded, aim, known, failures, disabled, waiting>>

\* ... and HEALTH_CHECK is published. A service the subscription added meanwhile
\* makes the walk raise RuntimeError, which ends the thread.
DogPublishes ==
  /\ dog = "report"
  /\ dog' = CASE known # toRead -> "dead"
             [] known = toRead /\ AutoRestart -> "restart"
             [] known = toRead /\ ~ AutoRestart -> "top"
  /\ toRead' = {}
  /\ UNCHANGED <<vars, watching, degraded, aim, known, failures, disabled, waiting>>

\* A fault: the back-off is not looked at.
Restartable_AtOnce(n) == n \notin disabled

\* is_restartable()
Restartable(n) == n \notin disabled /\ n \notin waiting

\* _attempt_restart(): look at the health record ...
DogTurns(n) ==
  /\ dog = "restart" /\ n \in degraded
  /\ degraded' = degraded \ {n}
  /\ IF Restartable(n) THEN dog' = "test" /\ aim' = n ELSE UNCHANGED <<dog, aim>>
  /\ UNCHANGED <<vars, watching, toRead, known, failures, disabled, waiting>>

\* ... at the state ...
DogTests ==
  /\ dog = "test"
  /\ dog' = IF state[aim] \in {"stopped", "registered"} THEN "call" ELSE "restart"
  /\ aim' = IF dog' = "call" THEN aim ELSE NoService
  /\ UNCHANGED <<vars, watching, toRead, degraded, known, failures, disabled, waiting>>

\* ... and call start().
DogCalls ==
  /\ DogMoves("call", "called")
  /\ StartChecks(Dog, aim)
  /\ UNCHANGED <<watching, toRead, degraded, aim, known, failures, disabled, waiting>>

\* record_failure()
RecordFailure(n) ==
  /\ failures' = [failures EXCEPT ![n] = @ + 1]
  /\ waiting' = waiting \cup {n}
  /\ disabled' = IF failures[n] + 1 >= MaxFailures THEN disabled \cup {n} ELSE disabled

\* start() raises: the state has changed since it was tested.
DogRefused ==
  /\ dog = "call" /\ ~ Startable(aim)
  /\ dog' = "restart" /\ aim' = NoService
  /\ RecordFailure(aim)
  /\ UNCHANGED <<vars, watching, toRead, degraded, known>>

\* start() goes on; its last step returns, or raises when another call has
\* started record.thread.
DogStartGoesOn ==
  /\ dog = "called"
  /\ StartGoesOn(Dog)
  /\ IF op'[Dog] = "idle"
       THEN /\ dog' = "restart" /\ aim' = NoService
            /\ IF life' = life THEN RecordFailure(aim)
                               ELSE UNCHANGED <<failures, waiting, disabled>>
       ELSE UNCHANGED <<dog, aim, failures, waiting, disabled>>
  /\ UNCHANGED <<watching, toRead, degraded, known>>

\* The cycle is over; the periodic integrity check changes nothing here.
DogCycleEnds ==
  /\ dog = "restart" /\ degraded = {}
  /\ dog' = "top"
  /\ UNCHANGED <<vars, watching, toRead, degraded, aim, known, failures, disabled, waiting>>

\* backoff_ms have gone by.
BackoffEnds(n) ==
  /\ n \in waiting
  /\ waiting' = waiting \ {n}
  /\ UNCHANGED <<vars, watching, dog, toRead, degraded, aim, known, failures, disabled>>

DogStep ==
  \/ DogLoops \/ DogWakes \/ (\E n \in Services : DogReads(n) \/ DogTurns(n))
  \/ DogReports \/ DogPublishes \/ DogTests \/ DogCalls \/ DogRefused \/ DogStartGoesOn \/ DogCycleEnds

OperatorCalls(c) ==
  \/ "start" \in Operations /\ \E n \in Services : StartChecks(c, n)
  \/ "stop" \in Operations /\ \E n \in Services : StopChecks(c, n)
  \/ CallGoesOn(c)

\* What the others do: they register services, run them, start and stop them.
Others ==
  /\ \/ \E n \in Services : Register(n)
     \/ \E n \in Services, t \in Threads : Runs(n, t)
     \/ \E c \in Callers \ {Dog} : OperatorCalls(c)
  /\ UNCHANGED dogVars

WatchdogNext ==
  \/ DogStarts \/ DogStops \/ DogStep \/ Others
  \/ \E n \in Services : OnServiceRegistered(n) \/ BackoffEnds(n)

WatchdogSpec == WatchdogInit /\ [][WatchdogNext]_watchVars

\* The watchdog's thread, calls under way and service threads are scheduled,
\* events are delivered and time passes.
WatchdogFairSpec ==
  /\ WatchdogSpec
  /\ WF_watchVars(DogStep)
  /\ \A n \in Services : WF_watchVars(OnServiceRegistered(n)) /\ WF_watchVars(BackoffEnds(n))
  /\ \A c \in Callers \ {Dog} : WF_watchVars(Others /\ CallGoesOn(c))
  /\ \A n \in Services, t \in Threads : WF_watchVars(Others /\ ThreadGoesOn(n, t))

-----------------------------------------------------------------------------
(* Properties.                                                             *)

\* Whatever has happened to a service since the watchdog decided to restart it,
\* start() is not called for one that is disabled, nor before the back-off of
\* its last failed restart has gone by.
RestartsPatiently ==
  [][dog = "call" /\ dog' = "called" => aim \notin waiting \cup disabled]_watchVars

\* A service the watchdog knows of does not stay stopped while it watches: it is
\* restarted, or disabled (or all the threads the bound allows it are taken by
\* runs that do not end), or the watchdog has died of a registration.
StoppedIsRestarted ==
  AutoRestart =>
    \A n \in Services :
      (n \in known /\ dog # "off" /\ state[n] = "stopped") ~>
        (state[n] # "stopped" \/ n \in disabled \/ ~ watching \/ dog = "dead" \/ ~ Room(n))
=============================================================================
