--------------------------- MODULE HealthMonitor ---------------------------
(***************************************************************************)
(* services/health_monitor.py: circuit breakers over the services.         *)
(*                                                                         *)
(* A check walks over the registry, counts consecutive failures of each    *)
(* service and, when a circuit opens, submits a repair to the job queue,   *)
(* which the kernel loop's thread runs later. Checks are made by the       *)
(* monitor's thread and by the shell (run_check_now), with the same health *)
(* records and no lock.                                                    *)
(***************************************************************************)
EXTENDS ServiceManager

CONSTANTS
  Checkers,     \* threads that run _check_all()
  Manual,       \* those of them that do it by run_check_now()
  Repairer,     \* the kernel loop's thread, one of Callers
  MaxFailures,  \* max_consecutive_failures
  MaxRepairs    \* bound: repairs of a service in the job queue

ASSUME HealthMonitorAssumption ==
  /\ Repairer \in Callers /\ Manual \subseteq Checkers
  /\ MaxFailures \in Nat \ {0} /\ MaxRepairs \in Nat \ {0}

VARIABLES
  watching,  \* HealthMonitor._running
  circuit,   \* ServiceHealth.circuit
  failures,  \* consecutive_failures, not counted beyond MaxFailures
  check,     \* where each checker is with the service it looks at
  about,     \* that service
  toCheck,   \* services it has still to look at
  repairs,   \* repair jobs in the queue, for each service
  repair,    \* what the job that is running does, "none" when there is none
  target,    \* the service it repairs
  openings   \* circuits opened since the service was last found healthy

monitorVars == <<watching, circuit, failures, check, about, toCheck, openings>>
repairVars  == <<repair, target>>
healthVars  == <<vars, monitorVars, repairs, repairVars>>

HealthTypeOK ==
  /\ TypeOK /\ watching \in BOOLEAN
  /\ circuit \in [Services -> {"closed", "open", "half_open"}]
  /\ failures \in [Services -> 0..MaxFailures]
  /\ check \in [Checkers -> {"idle", "next", "count", "judge", "alert"}]
  /\ about \in [Checkers -> Services \cup {NoService}]
  /\ toCheck \in [Checkers -> SUBSET Services]
  /\ repairs \in [Services -> 0..MaxRepairs]
  /\ repair \in {"none", "begin", "stop"}
  /\ target \in Services \cup {NoService}
  /\ repair # "none" => target \in Services
  /\ repair = "stop" <=> op[Repairer] # "idle"
  /\ openings \in [Services -> Nat]

HealthInit ==
  /\ Init /\ watching = FALSE
  /\ circuit = [n \in Services |-> "closed"]
  /\ failures = [n \in Services |-> 0]
  /\ check = [k \in Checkers |-> "idle"]
  /\ about = [k \in Checkers |-> NoService]
  /\ toCheck = [k \in Checkers |-> {}]
  /\ repairs = [n \in Services |-> 0]
  /\ repair = "none" /\ target = NoService
  /\ openings = [n \in Services |-> 0]

-----------------------------------------------------------------------------
(* _check_all()                                                            *)

\* start(), stop(). A check under way is finished; a loop that has not noticed
\* the stop when start() is called again goes on beside the new one.
SetWatching(b) ==
  /\ watching # b /\ watching' = b
  /\ UNCHANGED <<vars, circuit, failures, check, about, toCheck, openings, repairs,
                 repairVars>>

\* The registry does not change after boot: discover() has ended.
CheckBegins(k) ==
  /\ check[k] = "idle" /\ (watching \/ k \in Manual)
  /\ \A n \in Services : state[n] # "absent"
  /\ check' = [check EXCEPT ![k] = "next"]
  /\ toCheck' = [toCheck EXCEPT ![k] = Services]
  /\ UNCHANGED <<vars, watching, circuit, failures, about, repairs, repairVars, openings>>

\* A fault: the count survives a healthy check.
RecordHealthy_KeepsCount(n) ==
  /\ circuit' = [circuit EXCEPT ![n] = "closed"]
  /\ openings' = [openings EXCEPT ![n] = 0]
  /\ UNCHANGED failures

\* record_healthy()
RecordHealthy(n) ==
  /\ failures' = [failures EXCEPT ![n] = 0]
  /\ circuit' = [circuit EXCEPT ![n] = "closed"]
  /\ openings' = [openings EXCEPT ![n] = 0]

\* A fault: only a stopped service has failed.
Healthy_NotStopped(n) == state[n] # "stopped"

Healthy(n) == state[n] = "running"

\* Look at a service: a running one is recorded as healthy at once.
CheckLooks(k, n) ==
  /\ check[k] = "next" /\ n \in toCheck[k]
  /\ toCheck' = [toCheck EXCEPT ![k] = @ \ {n}]
  /\ IF Healthy(n)
       THEN RecordHealthy(n) /\ UNCHANGED <<check, about>>
       ELSE /\ check' = [check EXCEPT ![k] = "count"]
            /\ about' = [about EXCEPT ![k] = n]
            /\ UNCHANGED <<circuit, failures, openings>>
  /\ UNCHANGED <<vars, watching, repairs, repairVars>>

\* record_failure(): count the failure ...
CheckCounts(k) ==
  /\ check[k] = "count"
  /\ check' = [check EXCEPT ![k] = "judge"]
  /\ failures' = [failures EXCEPT ![about[k]] = IF @ < MaxFailures THEN @ + 1 ELSE @]
  /\ UNCHANGED <<vars, watching, circuit, about, toCheck, repairs, repairVars, openings>>

\* A fault: an open circuit opens again.
Opens_Again(n) == failures[n] >= MaxFailures

Opens(n) == circuit[n] = "closed" /\ failures[n] >= MaxFailures

\* ... and, after the clock was read, open the circuit when there were enough.
CheckJudges(k) ==
  /\ check[k] = "judge"
  /\ LET n == about[k]
     IN IF Opens(n)
          THEN /\ check' = [check EXCEPT ![k] = "alert"]
               /\ circuit' = [circuit EXCEPT ![n] = "open"]
               /\ openings' = [openings EXCEPT ![n] = @ + 1]
               /\ UNCHANGED about
          ELSE /\ check' = [check EXCEPT ![k] = "next"]
               /\ about' = [about EXCEPT ![k] = NoService]
               /\ UNCHANGED <<circuit, openings>>
  /\ UNCHANGED <<vars, watching, failures, toCheck, repairs, repairVars>>

\* _handle_failure(): INTEGRITY_ALERT, and a repair is submitted.
CheckAlerts(k) ==
  /\ check[k] = "alert"
  /\ check' = [check EXCEPT ![k] = "next"]
  /\ about' = [about EXCEPT ![k] = NoService]
  /\ repairs[about[k]] < MaxRepairs
  /\ repairs' = [repairs EXCEPT ![about[k]] = @ + 1]
  /\ UNCHANGED <<vars, watching, circuit, failures, toCheck, repairVars, openings>>

\* HEALTH_REPORT is published.
CheckReports(k) ==
  /\ check[k] = "next" /\ toCheck[k] = {}
  /\ check' = [check EXCEPT ![k] = "idle"]
  /\ UNCHANGED <<vars, watching, circuit, failures, about, toCheck, repairs, repairVars, openings>>

-----------------------------------------------------------------------------
(* _repair_service(), a job of the queue: in the kernel loop's thread.     *)

RepairBegins(n) ==
  /\ repair = "none" /\ repairs[n] > 0
  /\ repair' = "begin" /\ target' = n
  /\ repairs' = [repairs EXCEPT ![n] = @ - 1]
  /\ UNCHANGED <<vars, monitorVars>>

\* stop() is called of a service that is running by now.
RepairStops ==
  /\ repair = "begin"
  /\ StopChecks(Repairer, target)
  /\ repair' = "stop"
  /\ UNCHANGED <<monitorVars, repairs, target>>

\* stop() refuses a service that is not running; the exception ends the repair.
RepairRefused ==
  /\ repair = "begin" /\ state[target] # "running"
  /\ repair' = "none" /\ target' = NoService
  /\ UNCHANGED <<vars, monitorVars, repairs>>

\* stop() goes on. It returns None, so start() is not called and the circuit
\* stays as it is.
RepairGoesOn ==
  /\ repair = "stop"
  /\ StopGoesOn(Repairer)
  /\ IF op'[Repairer] = "idle" THEN repair' = "none" /\ target' = NoService
                               ELSE UNCHANGED repairVars
  /\ UNCHANGED <<monitorVars, repairs>>

-----------------------------------------------------------------------------
CheckStep(k) ==
  \/ (\E n \in Services : CheckLooks(k, n))
  \/ CheckCounts(k) \/ CheckJudges(k) \/ CheckAlerts(k) \/ CheckReports(k)
RepairStep == (\E n \in Services : RepairBegins(n))
              \/ RepairStops \/ RepairRefused \/ RepairGoesOn

\* Registration, the services' threads, and calls by others.
Others ==
  /\ \/ \E n \in Services : Register(n)
     \/ \E n \in Services, t \in Threads : Runs(n, t)
     \/ \E c \in Callers \ {Repairer} : Calls(c)
  /\ UNCHANGED <<monitorVars, repairs, repairVars>>

HealthNext ==
  \/ \E b \in BOOLEAN : SetWatching(b)
  \/ \E k \in Checkers : CheckBegins(k) \/ CheckStep(k)
  \/ RepairStep \/ Others

HealthSpec == HealthInit /\ [][HealthNext]_healthVars

\* Checks are made over and over, and jobs are run.
HealthFairSpec ==
  /\ HealthSpec
  /\ \A k \in Checkers : WF_healthVars(CheckBegins(k)) /\ WF_healthVars(CheckStep(k))
  /\ WF_healthVars(RepairStep)

-----------------------------------------------------------------------------
(* Properties.                                                             *)

\* A circuit is open only after MaxFailures failures in a row, and stays closed
\* after as many only while the check that counted the last one has not come to
\* judge it, whatever checks overlap.
CircuitFollowsFailures ==
  \A n \in Services :
    /\ circuit[n] = "open" => failures[n] >= MaxFailures
    /\ circuit[n] = "closed" /\ failures[n] >= MaxFailures =>
         \E k \in Checkers : check[k] = "judge" /\ about[k] = n

\* One alert and one repair for each outage, even when two checks see it.
OneRepairPerOutage == \A n \in Services : openings[n] <= 1

\* While the monitor watches, a service that stays down opens its circuit.
OutageOpensCircuit ==
  \A n \in Services :
    <>[](watching /\ state[n] \notin {"absent", "running"}) => <>[](circuit[n] = "open")

-----------------------------------------------------------------------------
(* A claim of the documentation, with a run of its own.                    *)

\* _repair_service's docstring: "Attempt to restart a failed service." A repair
\* that could stop the service goes on to start it.
RepairRestarts ==
  [][repair = "stop" /\ repair' = "none" => state'[target] \in {"starting", "running"}]_healthVars
=============================================================================
