CONSTANTS
  c1 = c1
  t1 = t1
  t2 = t2
  Loop = Loop
  None = None
  Types = {t1, t2}
  Callbacks = {c1, c2}
  Subscribed <- OneEach
  Publishers = {p1, p2}
  Priorities = {0, 2}
  MaxEvents = 4
  MaxSubs = 2
  AloneEvents = 3
SPECIFICATION MCSpec
INVARIANTS ExactlyOnce AllSubscribersServed
PROPERTIES AllDelivered DeliveredInOrder
CHECK_DEADLOCK FALSE
