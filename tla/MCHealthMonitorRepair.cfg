CONSTANTS
  Services = {s1}
  Callers = {Loop, c1}
  Threads = {t1, t2}
  TimesOut = FALSE
  NoService = NoService
  NoThread = NoThread
  Checkers = {k1}
  Manual = {}
  Repairer = Loop
  MaxFailures = 2
  MaxRepairs = 2
SPECIFICATION HealthSpec
PROPERTY RepairRestarts
CHECK_DEADLOCK FALSE
