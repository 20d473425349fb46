--------------------------- MODULE PriorityLanes ---------------------------
(***************************************************************************)
(* What kernel/event_bus.py promises: "Events are delivered in priority    *)
(* order" and "events with the same priority are delivered in publish      *)
(* order".  One queue per priority; the head of the most urgent queue that *)
(* has one is delivered.  Events bear the numbers in which they were       *)
(* published, so a queue is the set of its events, oldest first.           *)
(***************************************************************************)
EXTENDS Integers

CONSTANTS Priorities,   \* lower is more urgent
          MaxEvents     \* event numbers are 1..MaxEvents

VARIABLE lanes

LaneInit == lanes = [p \in Priorities |-> {}]

\* An event joins its queue behind all that are there.
Enqueue(e, p) ==
  /\ \A f \in lanes[p] : f < e
  /\ lanes' = [lanes EXCEPT ![p] = @ \cup {e}]

Dispatch(p) ==
  /\ \A q \in Priorities : q < p => lanes[q] = {}
  /\ \E e \in lanes[p] : /\ \A f \in lanes[p] \ {e} : e < f
                         /\ lanes' = [lanes EXCEPT ![p] = @ \ {e}]

LaneNext == \E p \in Priorities : \/ \E e \in 1..MaxEvents : Enqueue(e, p)
                                  \/ Dispatch(p)

LaneSpec == LaneInit /\ [][LaneNext]_lanes
=============================================================================
