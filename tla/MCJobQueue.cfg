CONSTANTS
  Jobs = {j1, j2}
  Priorities = {1, 5}
  RetryLimits = {0, 2}
  Delays = {0}
  MaxHistory = 1
  MaxClock = 0
  NoJob = NoJob
SPECIFICATION FairSpec
INVARIANTS Conserved
PROPERTIES Lifecycle EverySettles
CHECK_DEADLOCK FALSE
