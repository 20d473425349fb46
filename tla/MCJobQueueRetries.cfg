CONSTANTS
  Jobs = {j1}
  Priorities = {1, 5}
  RetryLimits = {0, 2}
  Delays = {0}
  MaxHistory = 1
  MaxClock = 0
  NoJob = NoJob
SPECIFICATION Spec
INVARIANTS RetriedAsDocumented
CHECK_DEADLOCK FALSE
