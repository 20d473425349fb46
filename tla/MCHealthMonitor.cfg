CONSTANTS
  Services = {s1}
  Callers = {Loop, c1}
  Threads = {t1}
  TimesOut = FALSE
  NoService = NoService
  NoThread = NoThread
  Checkers = {k1, k2}
  Manual = {k2}
  Repairer = Loop
  MaxFailures = 2
  MaxRepairs = 2
SPECIFICATION HealthFairSpec
INVARIANTS CircuitFollowsFailures OneRepairPerOutage
CHECK_DEADLOCK FALSE
PROPERTY OutageOpensCircuit
