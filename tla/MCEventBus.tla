----------------------------- MODULE MCEventBus -----------------------------
(* An instance of EventBus for TLC, in two settings: the kernel loop's     *)
(* thread is alone, with events of two types and two priorities, callbacks *)
(* that come and go and publish; or other threads publish, events that are *)
(* all alike.                                                              *)
EXTENDS EventBus, TLC

CONSTANTS c1, t1, t2, AloneEvents

VARIABLE alone

OneEach == t1 :> <<c1>> @@ t2 :> <<>>

MCInit == Init /\ alone \in BOOLEAN

Setting ==
  IF alone THEN counter <= AloneEvents /\ \A t \in Publishers : built[t] = None
           ELSE subs = OneEach /\ \A e \in Events : prio[e] = 2 /\ kind[e] = t1

MCNext == Next /\ UNCHANGED alone /\ Setting'

MCSpec == MCInit /\ [][MCNext]_<<busVars, alone>> /\ Fairness

\* Events are delivered by priority and, within one, in the order in which they
\* were published, callbacks that publish and subscribe included, as long as the
\* kernel loop's is the only thread: event_bus.py:6-13, 72-100.
DeliveredInOrder ==
  [][alone => Lanes!LaneNext \/ UNCHANGED Queues]_<<busVars, alone>>
=============================================================================
