CONSTANTS
  c1 = c1
  t1 = t1
  Shutdown = Shutdown
  OnShutdown = OnShutdown
  Loop = Loop
  None = None
  Types = {Shutdown, t1}
  Callbacks = {c1, OnShutdown}
  Subscribed <- Wired
  Publishers = {p1}
  Priorities = {0}
  MaxEvents = 2
  MaxSubs = 2
  Callables = {f, g}
  Intervals = {1, 2}
  TaskPriorities = {1, 5}
  MaxTasks = 3
  MaxEntries = 3
  MaxClock = 3
  Nothing = Nothing
  BaseMs = 16
  MaxMs = 50
  Factor = 2
  IdleCap = 5
  Settings = {TRUE, FALSE}
  BareWork = 4
  LoopCallables = {f}
  LoopIntervals = {1}
  LoopPriorities = {5}
  LoopTasks = 1
  LoopEntries = 1
  LoopClock = 2
SPECIFICATION MCSpec
INVARIANTS ResponsiveAfterWork StaysScheduled
PROPERTIES StopIsFinal StopHeeded Spaced EveryTaskRuns
CHECK_DEADLOCK FALSE
