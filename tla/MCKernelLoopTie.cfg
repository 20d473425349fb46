CONSTANTS
  c1 = c1
  t1 = t1
  Shutdown = Shutdown
  OnShutdown = OnShutdown
  Loop = Loop
  None = None
  Types = {Shutdown, t1}
  Callbacks = {c1, OnShutdown}
  Subscribed <- Wired
  Publishers = {}
  Priorities = {0}
  MaxEvents = 0
  MaxSubs = 2
  Callables = {f, g}
  Intervals = {1}
  TaskPriorities = {5}
  MaxTasks = 0
  MaxEntries = 2
  MaxClock = 4
  Nothing = Nothing
  BaseMs = 16
  MaxMs = 50
  Factor = 2
  IdleCap = 6
  Settings = {FALSE}
  BareWork = 0
  LoopCallables = {f, g}
  LoopIntervals = {1}
  LoopPriorities = {5}
  LoopTasks = 0
  LoopEntries = 2
  LoopClock = 4
SPECIFICATION MCSpec
INVARIANT RunsUntilStopped
CHECK_DEADLOCK FALSE
