------------------------------ MODULE EventBus ------------------------------
(***************************************************************************)
(* kernel/event_bus.py: the bus through which kernel, services, shell and  *)
(* AURA talk.                                                              *)
(*                                                                         *)
(* publish() is called from any thread and takes no lock; drain() runs in  *)
(* the kernel loop's thread.  The queue is a heapq of Event objects, and   *)
(* Event.__lt__ is Python code, so the interpreter may switch threads at   *)
(* every comparison of a heappush or heappop.  heapq notices that the list *)
(* changed size under it and raises RuntimeError; the entries stay where   *)
(* the interrupted call left them.  Events are numbered by Event._seq.     *)
(***************************************************************************)
EXTENDS Integers, Sequences, FiniteSets

CONSTANTS
  Publishers,   \* threads other than the kernel loop's that publish
  Loop,         \* the kernel loop's thread
  Types,        \* event types in use
  Callbacks,    \* subscriber callbacks
  Subscribed,   \* callbacks subscribed from the start: Types -> sequences
  Priorities,   \* priorities in use (CRITICAL = 0 .. LOW = 3)
  MaxEvents,    \* bound: events constructed
  MaxSubs,      \* bound: callbacks subscribed to one type
  None          \* no event in hand

Threads == Publishers \cup {Loop}

ASSUME EventBusAssumption ==
  /\ Loop \notin Publishers
  /\ Subscribed \in [Types -> Seq(Callbacks)]
  /\ Priorities \subseteq 0..3
  /\ MaxEvents \in Nat /\ MaxSubs \in Nat
  /\ None \notin Nat

VARIABLES
  counter,     \* Event._counter
  prio, kind,  \* Event.priority and Event.event_type, by event number
  subs,        \* EventBus._subscribers
  heap,        \* EventBus._queue, as the set of its events
  ordered,     \* the list is a heap: its first entry precedes the others
  built,       \* the Event each thread has constructed and not yet pushed
  pushing,     \* the heappush each thread is in the middle of, or None
  listLen,     \* len(_queue) when that thread's heap call began
  disturbed,   \* another heap call has begun since
  mode,        \* drain(): out, drain, sift (in heappop), deliver, dead
  cur,         \* the event being popped or delivered
  todo,        \* callbacks that have still to see it
  seen,        \* callbacks that each event has been delivered to, in order
  owed,        \* callbacks subscribed when each event was taken
  taken,       \* events handed out by heappop, in order
  count        \* what the current or last drain() counted

busVars == <<counter, prio, kind, subs, heap, ordered, built, pushing, listLen,
             disturbed, mode, cur, todo, seen, owed, taken, count>>

Events == 1..counter
Modes  == {"out", "drain", "sift", "deliver", "dead"}

TypeOK ==
  /\ counter \in 0..MaxEvents
  /\ prio \in [Events -> Priorities] /\ kind \in [Events -> Types]
  /\ subs \in [Types -> Seq(Callbacks)]
  /\ heap \subseteq Events /\ ordered \in BOOLEAN
  /\ built \in [Threads -> Events \cup {None}]
  /\ pushing \in [Threads -> Events \cup {None}]
  /\ listLen \in [Threads -> Nat] /\ disturbed \in [Threads -> BOOLEAN]
  /\ mode \in Modes /\ cur \in Events \cup {None}
  /\ todo \in Seq(Callbacks)
  /\ seen \in [Events -> Seq(Callbacks)] /\ owed \in [Events -> Seq(Callbacks)]
  /\ taken \in Seq(Events) /\ count \in Nat

-----------------------------------------------------------------------------
\* A fault: the priority is ignored.
Before_SeqOnly(e, f) == e < f

\* Event.__lt__: priority first, then age.
Before(e, f) == prio[e] < prio[f] \/ (prio[e] = prio[f] /\ e < f)

\* What heappop can return: the first entry of a heap (an entry still on its way
\* up is not there yet), anything of a list an interrupted call left in disorder.
Climbing == {pushing[t] : t \in Threads}
Firsts == LET placed == IF heap \subseteq Climbing THEN heap ELSE heap \ Climbing
          IN  IF ordered
                THEN {e \in placed : \A f \in placed \ {e} : Before(e, f)}
                ELSE heap

Size(q) == Cardinality(q)

\* A thread is in the middle of a heap call.
Sifting(t) == pushing[t] # None \/ (t = Loop /\ mode = "sift")
Overlap(t) == \E u \in Threads \ {t} : Sifting(u)

Free(t) == built[t] = None /\ pushing[t] = None

\* Every other thread that is inside a heap call is overtaken by this one.
Disturb(t) == disturbed' =
  [u \in Threads |-> IF u = t THEN FALSE ELSE disturbed[u] \/ Sifting(u)]

\* The list is in order again once it is too short to be out of order.
OrderAfter(q, fine) == fine \/ Size(q) <= 1

Init ==
  /\ counter = 0 /\ prio = <<>> /\ kind = <<>>
  /\ subs = Subscribed
  /\ heap = {} /\ ordered = TRUE
  /\ built = [t \in Threads |-> None]
  /\ pushing = [t \in Threads |-> None]
  /\ listLen = [t \in Threads |-> 0]
  /\ disturbed = [t \in Threads |-> FALSE]
  /\ mode = "out" /\ cur = None /\ todo = <<>>
  /\ seen = <<>> /\ owed = <<>> /\ taken = <<>>
  /\ count = 0

\* subscribe: setdefault(...).append(callback).
Subscribe(ty, c) ==
  /\ Len(subs[ty]) < MaxSubs
  /\ subs' = [subs EXCEPT ![ty] = Append(@, c)]
  /\ UNCHANGED <<counter, prio, kind, heap, ordered, built, pushing, listLen,
                 disturbed, mode, cur, todo, seen, owed, taken, count>>

\* The threads that are free to publish: any other thread at any time, the
\* kernel loop's own between drains and from inside a callback.
MayPublish(t) ==
  /\ Free(t)
  /\ t = Loop => mode = "out" \/ (mode = "deliver" /\ todo # <<>>)

\* Event(...): the event is numbered when it is constructed.
Construct(t, p, ty) ==
  /\ MayPublish(t)
  /\ counter < MaxEvents
  /\ counter' = counter + 1
  /\ prio' = Append(prio, p) /\ kind' = Append(kind, ty)
  /\ seen' = Append(seen, <<>>) /\ owed' = Append(owed, <<>>)
  /\ built' = [built EXCEPT ![t] = counter + 1]
  /\ UNCHANGED <<subs, heap, ordered, pushing, listLen, disturbed, mode, cur,
                 todo, taken, count>>

\* publish: heappush appends the event, then moves it up. Pushing on an empty
\* list compares nothing and is done at once.
Publish(t) ==
  /\ built[t] # None
  /\ built' = [built EXCEPT ![t] = None]
  /\ heap' = heap \cup {built[t]}
  /\ IF heap = {}
       THEN UNCHANGED <<pushing, listLen>>
       ELSE /\ pushing' = [pushing EXCEPT ![t] = built[t]]
            /\ listLen' = [listLen EXCEPT ![t] = Size(heap')]
  /\ Disturb(t)
  /\ ordered' = OrderAfter(heap', ordered /\ ~ Overlap(t))
  /\ UNCHANGED <<counter, prio, kind, subs, mode, cur, todo, seen, owed, taken,
                 count>>

\* A fault: an event whose push was disturbed is taken out again.
PublishEnds_Undone(t) ==
  /\ pushing[t] # None
  /\ pushing' = [pushing EXCEPT ![t] = None]
  /\ disturbed' = [disturbed EXCEPT ![t] = FALSE]
  /\ heap' = IF disturbed[t] THEN heap \ {pushing[t]} ELSE heap
  /\ ordered' = OrderAfter(heap', ordered /\ ~ disturbed[t])
  /\ UNCHANGED <<counter, prio, kind, subs, built, listLen, mode, cur,
                 todo, seen, owed, taken, count>>

\* heappush returns, or raises RuntimeError because the list changed size; the
\* event is in the list either way.
PublishEnds(t) ==
  /\ pushing[t] # None
  /\ pushing' = [pushing EXCEPT ![t] = None]
  /\ disturbed' = [disturbed EXCEPT ![t] = FALSE]
  /\ ordered' = OrderAfter(heap, ordered /\ ~ disturbed[t])
  /\ UNCHANGED <<counter, prio, kind, subs, heap, built, listLen, mode, cur,
                 todo, seen, owed, taken, count>>

-----------------------------------------------------------------------------
(* drain(), in the kernel loop's thread.                                   *)

DrainBegins ==
  /\ mode = "out" /\ Free(Loop)
  /\ mode' = "drain" /\ count' = 0
  /\ UNCHANGED <<counter, prio, kind, subs, heap, ordered, built, pushing, listLen,
                 disturbed, cur, todo, seen, owed, taken>>

\* The event is out of the heap: copy the subscriber list, start delivering.
HandOut(e) ==
  /\ mode' = "deliver"
  /\ cur' = e
  /\ todo' = subs[kind[e]]
  /\ owed' = [owed EXCEPT ![e] = subs[kind[e]]]
  /\ taken' = Append(taken, e)
  /\ count' = count + 1

\* heappop. It compares only if two entries or more remain.
DrainPops ==
  /\ mode = "drain" /\ heap # {}
  /\ \E e \in Firsts :
       /\ heap' = heap \ {e}
       /\ Disturb(Loop)
       /\ ordered' = OrderAfter(heap', ordered /\ ~ Overlap(Loop))
       /\ IF Size(heap') <= 1
            THEN HandOut(e) /\ UNCHANGED listLen
            ELSE /\ mode' = "sift" /\ cur' = e
                 /\ listLen' = [listLen EXCEPT ![Loop] = Size(heap')]
                 /\ UNCHANGED <<todo, owed, taken, count>>
  /\ UNCHANGED <<counter, prio, kind, subs, built, pushing, seen>>

\* heappop returns its event.
PopReturns ==
  /\ mode = "sift"
  /\ disturbed[Loop] => Size(heap) = listLen[Loop]
  /\ HandOut(cur)
  /\ disturbed' = [disturbed EXCEPT ![Loop] = FALSE]
  /\ ordered' = OrderAfter(heap, ordered /\ ~ disturbed[Loop])
  /\ UNCHANGED <<counter, prio, kind, subs, heap, built, pushing, listLen,
                 seen>>

\* heappop raises: its event is gone, and so is the loop, for nothing between
\* here and the thread's top frame catches the exception.
PopRaises ==
  /\ mode = "sift" /\ disturbed[Loop]
  /\ mode' = "dead"
  /\ disturbed' = [disturbed EXCEPT ![Loop] = FALSE]
  /\ ordered' = OrderAfter(heap, FALSE)
  /\ UNCHANGED <<counter, prio, kind, subs, heap, built, pushing, listLen, cur,
                 todo, seen, owed, taken, count>>

\* A fault: a callback that raises ends the delivery of its event.
Remaining_Abandoned(outcome) == IF outcome = "raises" THEN <<>> ELSE Tail(todo)

\* The callbacks left after one has returned or raised: the exception is logged.
Remaining(outcome) == Tail(todo)

\* A callback has returned or raised.
Deliver ==
  /\ mode = "deliver" /\ todo # <<>> /\ Free(Loop)
  /\ seen' = [seen EXCEPT ![cur] = Append(@, Head(todo))]
  /\ \E outcome \in {"returns", "raises"} : todo' = Remaining(outcome)
  /\ UNCHANGED <<counter, prio, kind, subs, heap, ordered, built, pushing, listLen,
                 disturbed, mode, cur, owed, taken, count>>

DeliveryEnds ==
  /\ mode = "deliver" /\ todo = <<>> /\ Free(Loop)
  /\ mode' = "drain" /\ cur' = None
  /\ UNCHANGED <<counter, prio, kind, subs, heap, ordered, built, pushing, listLen,
                 disturbed, todo, seen, owed, taken, count>>

DrainEnds ==
  /\ mode = "drain" /\ heap = {}
  /\ mode' = "out"
  /\ UNCHANGED <<counter, prio, kind, subs, heap, ordered, built, pushing, listLen,
                 disturbed, cur, todo, seen, owed, taken, count>>

-----------------------------------------------------------------------------
DrainStep ==
  DrainPops \/ PopReturns \/ PopRaises \/ Deliver \/ DeliveryEnds \/ DrainEnds
ThreadStep(t) ==
  \/ \E p \in Priorities, ty \in Types : Construct(t, p, ty)
  \/ Publish(t)
  \/ PublishEnds(t)

Next ==
  \/ DrainBegins \/ DrainStep
  \/ \E t \in Threads : ThreadStep(t)
  \/ \E ty \in Types, c \in Callbacks : Subscribe(ty, c)

BusSpec == Init /\ [][Next]_busVars

\* The loop calls drain() every tick and callbacks return; a thread that has
\* begun to publish goes on.
Fairness ==
  /\ WF_busVars(DrainBegins) /\ WF_busVars(DrainStep)
  /\ \A t \in Threads : WF_busVars(Publish(t) \/ PublishEnds(t))

-----------------------------------------------------------------------------
(* Properties.                                                             *)

Given == {taken[i] : i \in DOMAIN taken}

\* No event is dropped and none is delivered twice, whatever the threads do to
\* the list: every event is being published, in the list, in the drain's hands
\* or handed out, in exactly one of them. Only a heappop that raised loses one.
ExactlyOnce ==
  /\ Events = ({built[t] : t \in Threads} \ {None}) \cup heap \cup Given
               \cup (IF mode \in {"sift", "dead"} THEN {cur} ELSE {})
  /\ heap \cap Given = {} /\ Size(Given) = Len(taken)
  /\ mode = "sift" => cur \notin heap \cup Given
  /\ \A t \in Threads : built[t] \notin heap \cup Given

\* "A subscriber error must never crash the bus": each event handed out reaches
\* every callback subscribed at that moment, in the order of subscription,
\* whichever of them raised and whatever they published or subscribed meanwhile.
AllSubscribersServed ==
  \A e \in Given :
    owed[e] = seen[e] \o (IF cur = e /\ mode = "deliver" THEN todo ELSE <<>>)

\* Every event in the list is handed out, unless a heappop raised.
AllDelivered ==
  \A e \in 1..MaxEvents : e \in heap ~> (e \in Given \/ mode = "dead")

\* The list as the queue per priority that the module docstring and the tests
\* of test_event_bus.py promise.
Lane(p) == {e \in heap : prio[e] = p}
Queues == [p \in Priorities |-> Lane(p)]
Lanes == INSTANCE PriorityLanes WITH lanes <- Queues
=============================================================================
