------------------------- MODULE HealthMonitor_proofs -------------------------
(***************************************************************************)
(* What holds of the circuit breakers for any number of services, checkers *)
(* and callers, and any threshold, however the checks overlap.             *)
(***************************************************************************)
EXTENDS HealthMonitor, TLAPS

\* What a check is about, the types that this needs, and what the circuit
\* says of the openings: it is closed when it has not been opened since the
\* service was last found healthy.
MonitorInv ==
  /\ circuit \in [Services -> {"closed", "open"}]
  /\ failures \in [Services -> 0..MaxFailures]
  /\ check \in [Checkers -> {"idle", "next", "count", "judge", "alert"}]
  /\ about \in [Checkers -> Services \cup {NoService}]
  /\ toCheck \in [Checkers -> SUBSET Services]
  /\ \A k \in Checkers : check[k] \in {"count", "judge", "alert"} => about[k] \in Services
  /\ openings = [n \in Services |-> IF circuit[n] = "closed" THEN 0 ELSE 1]

HealthInv == MonitorInv /\ CircuitFollowsFailures

LEMMA HealthInitInv == HealthInit => HealthInv
BY HealthMonitorAssumption DEF HealthInit, HealthInv, MonitorInv, CircuitFollowsFailures

\* A service that is found running is recorded as healthy; the checks that are
\* at another service, or count this one down, stay where they are.
LEMMA LooksKeeps ==
  ASSUME HealthInv, NEW k \in Checkers, NEW n \in Services, CheckLooks(k, n)
  PROVE  HealthInv'
<1>1. CASE Healthy(n)
  <2>1. /\ failures' = [failures EXCEPT ![n] = 0]
        /\ circuit' = [circuit EXCEPT ![n] = "closed"]
        /\ openings' = [openings EXCEPT ![n] = 0]
        /\ toCheck' = [toCheck EXCEPT ![k] = @ \ {n}]
        /\ UNCHANGED <<check, about>>
    BY <1>1 DEF CheckLooks, RecordHealthy
  <2>2. MonitorInv'
    <3>1. circuit' \in [Services -> {"closed", "open"}]  BY <2>1 DEF HealthInv, MonitorInv
    <3>2. failures' \in [Services -> 0..MaxFailures]
      BY <2>1, HealthMonitorAssumption DEF HealthInv, MonitorInv
    <3>3. toCheck' \in [Checkers -> SUBSET Services]  BY <2>1 DEF HealthInv, MonitorInv
    <3>4. openings' = [m \in Services |-> IF circuit'[m] = "closed" THEN 0 ELSE 1]
      BY <2>1 DEF HealthInv, MonitorInv
    <3> QED  BY <2>1, <3>1, <3>2, <3>3, <3>4 DEF HealthInv, MonitorInv
  <2>3. CircuitFollowsFailures'
    BY <2>1, HealthMonitorAssumption DEF HealthInv, MonitorInv, CircuitFollowsFailures
  <2> QED  BY <2>2, <2>3 DEF HealthInv
<1>2. CASE ~ Healthy(n)
  <2>1. /\ check[k] = "next" /\ check' = [check EXCEPT ![k] = "count"]
        /\ about' = [about EXCEPT ![k] = n]
        /\ toCheck' = [toCheck EXCEPT ![k] = @ \ {n}]
        /\ UNCHANGED <<circuit, failures, openings>>
    BY <1>2 DEF CheckLooks
  <2>2. MonitorInv'  BY <2>1 DEF HealthInv, MonitorInv
  <2>3. \A j \in Checkers : check[j] = "judge" => check'[j] = "judge" /\ about'[j] = about[j]
    BY <2>1 DEF HealthInv, MonitorInv
  <2>4. CircuitFollowsFailures'
    BY <2>1, <2>3 DEF HealthInv, CircuitFollowsFailures
  <2> QED  BY <2>2, <2>4 DEF HealthInv
<1> QED  BY <1>1, <1>2

\* The check that counts the last failure is the one that is yet to judge it.
LEMMA CountsKeeps ==
  ASSUME HealthInv, NEW k \in Checkers, CheckCounts(k)
  PROVE  HealthInv'
<1>1. PICK n \in Services : n = about[k]
  BY DEF CheckCounts, HealthInv, MonitorInv
<1>2. /\ check[k] = "count" /\ check' = [check EXCEPT ![k] = "judge"]
      /\ failures' = [failures EXCEPT ![n] = IF failures[n] < MaxFailures THEN failures[n] + 1
                                                                         ELSE failures[n]]
      /\ UNCHANGED <<circuit, about, toCheck, openings>>
  BY <1>1 DEF CheckCounts
<1>3. MonitorInv'
  <2>1. failures' \in [Services -> 0..MaxFailures]
    BY <1>2, HealthMonitorAssumption DEF HealthInv, MonitorInv
  <2> QED  BY <1>2, <2>1 DEF HealthInv, MonitorInv
<1>4. CircuitFollowsFailures'
  <2> SUFFICES ASSUME NEW m \in Services
               PROVE  /\ circuit'[m] = "open" => failures'[m] >= MaxFailures
                      /\ circuit'[m] = "closed" /\ failures'[m] >= MaxFailures =>
                           \E j \in Checkers : check'[j] = "judge" /\ about'[j] = m
    BY DEF CircuitFollowsFailures
  <2>1. CASE m = n
    <3>1. failures'[m] >= failures[m]
      BY <1>2, <2>1, HealthMonitorAssumption DEF HealthInv, MonitorInv
    <3>2. check'[k] = "judge" /\ about'[k] = m
      BY <1>1, <1>2, <2>1 DEF HealthInv, MonitorInv
    <3>3. circuit[m] = "open" => failures[m] >= MaxFailures
      BY DEF HealthInv, CircuitFollowsFailures
    <3>4. failures[m] \in Nat /\ failures'[m] \in Nat /\ MaxFailures \in Nat
      BY <1>3, HealthMonitorAssumption DEF HealthInv, MonitorInv
    <3> QED  BY <1>2, <3>1, <3>2, <3>3, <3>4
  <2>2. CASE m # n
    <3>1. failures'[m] = failures[m] /\ circuit'[m] = circuit[m]
      BY <1>2, <2>2 DEF HealthInv, MonitorInv
    <3>2. \A j \in Checkers : check[j] = "judge" => check'[j] = "judge" /\ about'[j] = about[j]
      BY <1>2 DEF HealthInv, MonitorInv
    <3> QED  BY <3>1, <3>2 DEF HealthInv, CircuitFollowsFailures
  <2> QED  BY <2>1, <2>2
<1> QED  BY <1>3, <1>4 DEF HealthInv

\* Whichever check judges first opens the circuit, once, and settles it for all.
LEMMA JudgesKeeps ==
  ASSUME HealthInv, NEW k \in Checkers, CheckJudges(k)
  PROVE  HealthInv'
<1>1. PICK n \in Services : n = about[k]
  BY DEF CheckJudges, HealthInv, MonitorInv
<1>2. check[k] = "judge" /\ UNCHANGED <<failures, toCheck>>
  BY DEF CheckJudges
<1>3. CASE Opens(n)
  <2>1. /\ check' = [check EXCEPT ![k] = "alert"]
        /\ circuit' = [circuit EXCEPT ![n] = "open"]
        /\ openings' = [openings EXCEPT ![n] = @ + 1]
        /\ about' = about
        /\ circuit[n] = "closed" /\ failures[n] >= MaxFailures
    BY <1>1, <1>3 DEF CheckJudges, Opens
  <2>2. MonitorInv'  BY <1>1, <1>2, <2>1 DEF HealthInv, MonitorInv
  <2>3. \A j \in Checkers : check[j] = "judge" /\ about[j] # n =>
          check'[j] = "judge" /\ about'[j] = about[j]
    BY <1>1, <2>1 DEF HealthInv, MonitorInv
  <2>4. CircuitFollowsFailures'
    BY <1>2, <2>1, <2>3 DEF HealthInv, MonitorInv, CircuitFollowsFailures
  <2> QED  BY <2>2, <2>4 DEF HealthInv
<1>4. CASE ~ Opens(n)
  <2>1. /\ check' = [check EXCEPT ![k] = "next"]
        /\ about' = [about EXCEPT ![k] = NoService]
        /\ UNCHANGED <<circuit, openings>>
        /\ ~ (circuit[n] = "closed" /\ failures[n] >= MaxFailures)
    BY <1>1, <1>4 DEF CheckJudges, Opens
  <2>2. MonitorInv'  BY <1>2, <2>1 DEF HealthInv, MonitorInv
  <2>3. \A j \in Checkers : check[j] = "judge" /\ about[j] # n =>
          check'[j] = "judge" /\ about'[j] = about[j]
    BY <1>1, <2>1 DEF HealthInv, MonitorInv
  <2>4. CircuitFollowsFailures'
    BY <1>2, <2>1, <2>3 DEF HealthInv, MonitorInv, CircuitFollowsFailures
  <2> QED  BY <2>2, <2>4 DEF HealthInv
<1> QED  BY <1>3, <1>4

\* Beginning, alerting and reporting touch neither the circuits nor the counts.
LEMMA RestOfCheckKeeps ==
  ASSUME HealthInv, NEW k \in Checkers, CheckBegins(k) \/ CheckAlerts(k) \/ CheckReports(k)
  PROVE  HealthInv'
<1>1. /\ check[k] # "judge" /\ check' \in {[check EXCEPT ![k] = "next"], [check EXCEPT ![k] = "idle"]}
      /\ about' \in {about, [about EXCEPT ![k] = NoService]}
      /\ toCheck' \in {toCheck, [toCheck EXCEPT ![k] = Services]}
      /\ UNCHANGED <<circuit, failures, openings>>
  BY DEF CheckBegins, CheckAlerts, CheckReports
<1>2. MonitorInv'  BY <1>1 DEF HealthInv, MonitorInv
<1>3. \A j \in Checkers : check[j] = "judge" => check'[j] = "judge" /\ about'[j] = about[j]
  BY <1>1 DEF HealthInv, MonitorInv
<1>4. CircuitFollowsFailures'  BY <1>1, <1>3 DEF HealthInv, CircuitFollowsFailures
<1> QED  BY <1>2, <1>4 DEF HealthInv

LEMMA HealthStep == HealthInv /\ [HealthNext]_healthVars => HealthInv'
<1> SUFFICES ASSUME HealthInv, [HealthNext]_healthVars PROVE HealthInv'
  OBVIOUS
<1>1. CASE UNCHANGED <<circuit, failures, check, about, toCheck, openings>>
  BY <1>1 DEF HealthInv, MonitorInv, CircuitFollowsFailures
<1>2. CASE \E k \in Checkers : CheckBegins(k) \/ CheckStep(k)
  BY <1>2, LooksKeeps, CountsKeeps, JudgesKeeps, RestOfCheckKeeps DEF CheckStep
<1>3. ASSUME (\E b \in BOOLEAN : SetWatching(b)) \/ RepairStep \/ Others \/ UNCHANGED healthVars
      PROVE  UNCHANGED <<circuit, failures, check, about, toCheck, openings>>
  BY <1>3 DEF SetWatching, RepairStep, RepairBegins, RepairStops, RepairRefused, RepairGoesOn,
              Others, monitorVars, healthVars
<1> QED  BY <1>1, <1>2, <1>3 DEF HealthNext

\* A circuit is open only after MaxFailures failures in a row, and stays closed
\* after as many only until the check that counted the last judges it, for any
\* number of overlapping checks: health_monitor.py:54-69.
THEOREM CircuitFollowsFailuresAlways == HealthSpec => []CircuitFollowsFailures
<1>1. HealthInv => CircuitFollowsFailures  BY DEF HealthInv
<1> QED  BY HealthInitInv, HealthStep, <1>1, PTL DEF HealthSpec

\* One alert and one repair for each outage, however many checks see it:
\* health_monitor.py:59-69, 187-225.
THEOREM OneRepairPerOutageAlways == HealthSpec => []OneRepairPerOutage
<1>1. HealthInv => OneRepairPerOutage  BY DEF HealthInv, MonitorInv, OneRepairPerOutage
<1> QED  BY HealthInitInv, HealthStep, <1>1, PTL DEF HealthSpec

-----------------------------------------------------------------------------
(* The composition with the service manager.                               *)

\* What the repair job is about.
RepairInv == repair # "none" => target \in Services

LEMMA RepairInitInv == HealthInit => RepairInv
BY DEF HealthInit, RepairInv

LEMMA RepairInvStep == RepairInv /\ [HealthNext]_healthVars => RepairInv'
<1> SUFFICES ASSUME RepairInv, [HealthNext]_healthVars PROVE RepairInv'
  OBVIOUS
<1>1. CASE UNCHANGED repairVars
  BY <1>1 DEF RepairInv, repairVars
<1>2. CASE RepairStep
  BY <1>2 DEF RepairStep, RepairBegins, RepairStops, RepairRefused, RepairGoesOn, RepairInv,
              repairVars
<1>3. ASSUME \/ \E b \in BOOLEAN : SetWatching(b)
             \/ \E k \in Checkers : CheckBegins(k) \/ CheckStep(k)
             \/ Others \/ UNCHANGED healthVars
      PROVE  UNCHANGED repairVars
  BY <1>3 DEF SetWatching, CheckBegins, CheckStep, CheckLooks, CheckCounts, CheckJudges,
              CheckAlerts, CheckReports, Others, healthVars
<1> QED  BY <1>1, <1>2, <1>3 DEF HealthNext

\* To the service manager a repair is a caller of stop() like any other, and a
\* check only reads the states.
LEMMA RepairIsCaller == RepairInv /\ [HealthNext]_healthVars => [Next]_vars
<1> SUFFICES ASSUME RepairInv, [HealthNext]_healthVars PROVE [Next]_vars
  OBVIOUS
<1> USE HealthMonitorAssumption
<1>1. CASE Others
  <2>1. (\E n \in Services : Register(n)) => Next  BY DEF Next
  <2>2. (\E n \in Services, t \in Threads : Runs(n, t)) => Next  BY DEF Next
  <2>3. (\E c \in Callers \ {Repairer} : Calls(c)) => Next  BY DEF Next
  <2> QED  BY <1>1, <2>1, <2>2, <2>3 DEF Others
<1>2. CASE RepairStops
  BY <1>2 DEF RepairStops, RepairInv, Next, Calls
<1>3. CASE RepairGoesOn
  BY <1>3 DEF RepairGoesOn, Next, Calls, CallGoesOn
<1>4. CASE RepairRefused \/ (\E n \in Services : RepairBegins(n)) \/ UNCHANGED healthVars
           \/ \E b \in BOOLEAN : SetWatching(b)
  BY <1>4 DEF RepairRefused, RepairBegins, SetWatching, healthVars
<1>5. CASE \E k \in Checkers : CheckBegins(k) \/ CheckStep(k)
  BY <1>5 DEF CheckBegins, CheckStep, CheckLooks, CheckCounts, CheckJudges, CheckAlerts,
              CheckReports
<1> QED  BY <1>1, <1>2, <1>3, <1>4, <1>5 DEF HealthNext, RepairStep

\* The composition with the monitor implements the service manager, so what is
\* proved of that for any callers holds under the monitor's repairs:
\* health_monitor.py:175-225 with services/__init__.py:154-176.
THEOREM MonitorImplementsManager == HealthSpec => Spec
<1>1. HealthInit => Init  BY DEF HealthInit
<1> QED  BY <1>1, RepairInitInv, RepairInvStep, RepairIsCaller, PTL DEF HealthSpec, Spec
=============================================================================
