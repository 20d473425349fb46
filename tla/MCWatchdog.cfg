CONSTANTS
  Services = {s1}
  Callers = {Dog, c1}
  Threads = {t1, t2}
  TimesOut = TRUE
  NoService = NoService
  NoThread = NoThread
  Dog = Dog
  MaxFailures = 2
  AutoRestart = TRUE
  Operations = {"start", "stop"}
SPECIFICATION WatchdogFairSpec
INVARIANT StateHasAgent
PROPERTIES RestartsPatiently StoppedIsRestarted TransitionsEnd
CHECK_DEADLOCK FALSE
