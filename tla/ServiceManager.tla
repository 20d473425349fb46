--------------------------- MODULE ServiceManager ---------------------------
(***************************************************************************)
(* services/__init__.py: the registry of services and their threads.       *)
(*                                                                         *)
(* start() and stop() are called by the watchdog's thread, by the kernel   *)
(* loop's thread (repair jobs) and by whoever uses KernelAPI, and every    *)
(* started service has a thread of its own. Nothing is locked: a record's  *)
(* state is tested in one step and written in another, by the callers and  *)
(* by the services' threads.                                               *)
(***************************************************************************)
EXTENDS Integers, FiniteSets

CONSTANTS
  Services,   \* names of service units
  Callers,    \* threads that call start() and stop()
  Threads,    \* bound: threads a service can have at a time
  TimesOut,   \* whether a service may outlast the five seconds stop() waits
  NoService, NoThread

ASSUME ServiceManagerAssumption ==
  /\ TimesOut \in BOOLEAN
  /\ NoService \notin Services /\ NoThread \notin Threads

VARIABLES
  state,    \* ServiceRecord.state, "absent" before register()
  thread,   \* ServiceRecord.thread
  life,     \* what each thread of a service is doing
  op,       \* what each caller is about to do, "idle" outside start and stop
  subject,  \* the service it does it to
  held,     \* the thread it has made or waits for
  told      \* the last event published about each service

vars == <<state, thread, life, op, subject, held, told>>
callVars == <<op, subject, held>>

States == {"absent", "registered", "starting", "running", "stopping", "stopped"}
Lives  == {"free", "made", "new", "entered", "inside", "ended"}
Ops    == {"idle", "start", "make", "go", "stop", "look", "await", "join",
           "settle", "tell"}
Events == {"none", "SERVICE_REGISTERED", "SERVICE_STARTED", "SERVICE_STOPPED"}

TypeOK ==
  /\ state \in [Services -> States]
  /\ thread \in [Services -> Threads \cup {NoThread}]
  /\ life \in [Services -> [Threads -> Lives]]
  /\ op \in [Callers -> Ops]
  /\ subject \in [Callers -> Services \cup {NoService}]
  /\ held \in [Callers -> Threads \cup {NoThread}]
  /\ \A c \in Callers : /\ op[c] # "idle" => subject[c] \in Services
                        /\ op[c] = "join" => held[c] \in Threads
                        /\ op[c] \in {"go", "await"} => thread[subject[c]] \in Threads
  /\ told \in [Services -> Events]

\* Threads of n that exist: is_alive() is true of a thread that was started and
\* has not returned.
Alive(n, t) == life[n][t] \in {"new", "entered", "inside", "ended"}

\* Threads of n executing its entry point.
Instances(n) == {t \in Threads : life[n][t] \in {"entered", "inside"}}

\* Bound: a thread is there for every start under way, and for one more.
Spare(n) == {t \in Threads : life[n][t] = "free" /\ \A c \in Callers : held[c] # t}
Room(n)  == Cardinality(Spare(n)) >
            Cardinality({c \in Callers : subject[c] = n /\ op[c] \in {"start", "make"}})

Init ==
  /\ state = [n \in Services |-> "absent"]
  /\ thread = [n \in Services |-> NoThread]
  /\ life = [n \in Services |-> [t \in Threads |-> "free"]]
  /\ op = [c \in Callers |-> "idle"]
  /\ subject = [c \in Callers |-> NoService]
  /\ held = [c \in Callers |-> NoThread]
  /\ told = [n \in Services |-> "none"]

\* c begins a call about n.
Begin(c, n, next) ==
  /\ op[c] = "idle"
  /\ op' = [op EXCEPT ![c] = next]
  /\ subject' = [subject EXCEPT ![c] = n]
  /\ UNCHANGED held

\* c goes from one step of its call to another.
Move(c, from, to) ==
  /\ op[c] = from
  /\ op' = [op EXCEPT ![c] = to]

\* c returns.
Return(c, from) ==
  /\ Move(c, from, "idle")
  /\ subject' = [subject EXCEPT ![c] = NoService]
  /\ held' = [held EXCEPT ![c] = NoThread]

Becomes(n, s) == state' = [state EXCEPT ![n] = s]
Tell(n, e)    == told' = [told EXCEPT ![n] = e]

\* register(), out of discover(): once, at boot, before anything is started.
Register(n) ==
  /\ state[n] = "absent"
  /\ Becomes(n, "registered")
  /\ Tell(n, "SERVICE_REGISTERED")
  /\ UNCHANGED <<thread, life, callVars>>

-----------------------------------------------------------------------------
(* start()                                                                 *)

Startable(n) == state[n] \in {"registered", "stopped"}

\* The state is tested ...
StartChecks(c, n) ==
  /\ Startable(n) /\ Room(n)
  /\ Begin(c, n, "start")
  /\ UNCHANGED <<state, thread, life, told>>

\* ... and then written.
StartSets(c) ==
  /\ Move(c, "start", "make")
  /\ Becomes(subject[c], "starting")
  /\ UNCHANGED <<thread, life, subject, held, told>>

\* record.thread = threading.Thread(...). One that another call had put there
\* and not started yet is lost.
StartMakes(c) ==
  /\ Move(c, "make", "go")
  /\ \E t \in Spare(subject[c]) :
       /\ thread' = [thread EXCEPT ![subject[c]] = t]
       /\ life' = [life EXCEPT ![subject[c]] =
                    [u \in Threads |-> IF u = t THEN "made"
                                      ELSE IF @[u] = "made" THEN "free" ELSE @[u]]]
       /\ held' = [held EXCEPT ![c] = t]
  /\ UNCHANGED <<state, subject, told>>

\* record.thread.start(): record.thread is read again, and starting a thread
\* that another call has started raises RuntimeError.
StartGoes(c) ==
  /\ Return(c, "go")
  /\ LET n == subject[c]
         t == thread[n]
     IN life' = IF life[n][t] = "made" THEN [life EXCEPT ![n][t] = "new"] ELSE life
  /\ UNCHANGED <<state, thread, told>>

-----------------------------------------------------------------------------
(* _run(), in the service's thread                                         *)

ThreadMoves(n, t, from, to) ==
  /\ life[n][t] = from
  /\ life' = [life EXCEPT ![n][t] = to]

RunEnters(n, t) ==
  /\ ThreadMoves(n, t, "new", "entered")
  /\ Becomes(n, "running")
  /\ UNCHANGED <<thread, callVars, told>>

RunTellsStarted(n, t) ==
  /\ ThreadMoves(n, t, "entered", "inside")
  /\ Tell(n, "SERVICE_STARTED")
  /\ UNCHANGED <<state, thread, callVars>>

\* A fault: the state is written when the entry point returns, not when it raises.
RunEnds_NoFinally(n, t) ==
  /\ ThreadMoves(n, t, "inside", "ended")
  /\ Becomes(n, "stopped") \/ UNCHANGED state
  /\ UNCHANGED <<thread, callVars, told>>

\* The entry point returns or raises.
RunEnds(n, t) ==
  /\ ThreadMoves(n, t, "inside", "ended")
  /\ Becomes(n, "stopped")
  /\ UNCHANGED <<thread, callVars, told>>

RunTellsStopped(n, t) ==
  /\ ThreadMoves(n, t, "ended", "free")
  /\ Tell(n, "SERVICE_STOPPED")
  /\ UNCHANGED <<state, thread, callVars>>

-----------------------------------------------------------------------------
(* stop()                                                                  *)

StopChecks(c, n) ==
  /\ state[n] = "running"
  /\ Begin(c, n, "stop")
  /\ UNCHANGED <<state, thread, life, told>>

StopSets(c) ==
  /\ Move(c, "stop", "look")
  /\ Becomes(subject[c], "stopping")
  /\ UNCHANGED <<thread, life, subject, held, told>>

\* if record.thread and record.thread.is_alive()
StopLooks(c) ==
  /\ op[c] = "look"
  /\ LET n == subject[c]
     IN IF thread[n] # NoThread /\ Alive(n, thread[n])
          THEN Move(c, "look", "await") ELSE Move(c, "look", "settle")
  /\ UNCHANGED <<state, thread, life, subject, held, told>>

\* record.thread.join(): record.thread is read again. One that start() has put
\* there meanwhile and not started yet cannot be joined: RuntimeError leaves
\* stop(), and the state is what it is.
StopWaits(c) ==
  /\ op[c] = "await"
  /\ LET n == subject[c]
     IN IF life[n][thread[n]] = "made"
          THEN Return(c, "await")
          ELSE /\ Move(c, "await", "join")
               /\ held' = [held EXCEPT ![c] = thread[n]]
               /\ UNCHANGED subject
  /\ UNCHANGED <<state, thread, life, told>>

\* A fault: join() is called without its timeout.
StopJoins_Forever(c) ==
  /\ op[c] = "join" /\ ~ Alive(subject[c], held[c])
  /\ Move(c, "join", "settle")
  /\ UNCHANGED <<state, thread, life, subject, held, told>>

\* join(timeout=5.0). Nothing asks the thread to end.
StopJoins(c) ==
  /\ op[c] = "join" /\ (TimesOut \/ ~ Alive(subject[c], held[c]))
  /\ Move(c, "join", "settle")
  /\ UNCHANGED <<state, thread, life, subject, held, told>>

StopSettles(c) ==
  /\ Move(c, "settle", "tell")
  /\ Becomes(subject[c], "stopped")
  /\ UNCHANGED <<thread, life, subject, held, told>>

StopTells(c) ==
  /\ Return(c, "tell")
  /\ Tell(subject[c], "SERVICE_STOPPED")
  /\ UNCHANGED <<state, thread, life>>

-----------------------------------------------------------------------------
StartGoesOn(c) == StartSets(c) \/ StartMakes(c) \/ StartGoes(c)
StopGoesOn(c)  == \/ StopSets(c) \/ StopLooks(c) \/ StopWaits(c) \/ StopJoins(c)
                  \/ StopSettles(c) \/ StopTells(c)
CallGoesOn(c)  == StartGoesOn(c) \/ StopGoesOn(c)
ThreadGoesOn(n, t) ==
  RunEnters(n, t) \/ RunTellsStarted(n, t) \/ RunTellsStopped(n, t)

Calls(c) == \/ \E n \in Services : StartChecks(c, n) \/ StopChecks(c, n)
            \/ CallGoesOn(c)
Runs(n, t) == ThreadGoesOn(n, t) \/ RunEnds(n, t)

Next ==
  \/ \E n \in Services : Register(n)
  \/ \E c \in Callers : Calls(c)
  \/ \E n \in Services, t \in Threads : Runs(n, t)

Spec == Init /\ [][Next]_vars

\* Callers and threads are scheduled. An entry point may run for ever.
FairSpec ==
  /\ Spec
  /\ \A c \in Callers : WF_vars(CallGoesOn(c))
  /\ \A n \in Services, t \in Threads : WF_vars(ThreadGoesOn(n, t))

-----------------------------------------------------------------------------
(* Properties.                                                             *)

Starting(n) == \/ \E c \in Callers : subject[c] = n /\ op[c] \in {"make", "go"}
               \/ \E t \in Threads : life[n][t] = "new"
Stopping(n) == \E c \in Callers : subject[c] = n /\ op[c] \in {"look", "await", "join", "settle"}

\* However calls and threads interleave, a state that says something is going on
\* is the state of a service with which it does: one that is "running" has a
\* thread in its entry point, one that is "starting" has a caller or a new thread
\* that will take it further, and so has one that is "stopping": when join()
\* raises, it is the start() whose thread could not be joined.
StateHasAgent ==
  \A n \in Services :
    /\ state[n] = "running"  => Instances(n) # {}
    /\ state[n] = "starting" => Starting(n)
    /\ state[n] = "stopping" => Stopping(n) \/ Starting(n)

\* With one caller at a time, and services that end in time, a service runs once
\* at a time, and not at all when it is "stopped".
OneInstance ==
  \A n \in Services : /\ Cardinality(Instances(n)) <= 1
                      /\ state[n] = "stopped" => Instances(n) = {}

\* Starting and stopping come to an end.
TransitionsEnd ==
  \A n \in Services :
    state[n] \in {"starting", "stopping"} ~> state[n] \in {"running", "stopped"}
=============================================================================
