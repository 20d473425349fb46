------------------------ MODULE ServiceManager_proofs -----------------------
(***************************************************************************)
(* Proofs about ServiceManager, for every set of services, callers and     *)
(* threads: the types; that a state which says something is going on has   *)
(* an agent; that a sole caller never has a service running twice; and     *)
(* about the watchdog, which is one of its callers.                        *)
(***************************************************************************)
EXTENDS Watchdog, FiniteSetTheorems, TLAPS

\* A service is "running" only while a thread is in its entry point.
RunningHasInstance == \A n \in Services : state[n] = "running" => Instances(n) # {}

\* n has a caller about to make its thread, a caller about to start the thread
\* that is made, or a thread that was started.
StartAgent(n) ==
  \/ \E c \in Callers : subject[c] = n /\ op[c] = "make"
  \/ \E c \in Callers : subject[c] = n /\ op[c] = "go" /\ life[n][thread[n]] = "made"
  \/ \E t \in Threads : life[n][t] = "new"

StartingHasAgent == \A n \in Services : state[n] = "starting" => StartAgent(n)

\* A "stopping" service has a caller in stop(); or the one it had could not join
\* a thread that is to be started.
StoppingHasAgent ==
  \A n \in Services : state[n] = "stopping" => Stopping(n) \/ StartAgent(n)

\* A thread that is made is the one the record names, and a caller is about to
\* start it.
MadeHasStarter ==
  \A n \in Services : \A t \in Threads : life[n][t] = "made" =>
    /\ thread[n] = t
    /\ \E c \in Callers : subject[c] = n /\ op[c] = "go"

\* The inductive invariant.
IInv ==
  /\ TypeOK /\ RunningHasInstance /\ StartingHasAgent /\ StoppingHasAgent
  /\ MadeHasStarter

LEMMA InitInv == Init => IInv
<1> SUFFICES ASSUME Init PROVE IInv
  OBVIOUS
<1>1. TypeOK
  BY DEF Init, TypeOK, States, Lives, Ops, Events
<1>2. RunningHasInstance /\ StartingHasAgent /\ StoppingHasAgent /\ MadeHasStarter
  BY DEF Init, RunningHasInstance, StartingHasAgent, StoppingHasAgent, MadeHasStarter
<1> QED  BY <1>1, <1>2 DEF IInv

LEMMA StepInv == IInv /\ [Next]_vars => IInv'
<1> SUFFICES ASSUME IInv, [Next]_vars PROVE IInv'
  OBVIOUS
<1> USE DEF IInv
<1>1. ASSUME NEW n \in Services, Register(n) PROVE IInv'
  <2>1. TypeOK'
    BY <1>1
       DEF Register, Becomes, Tell, callVars, TypeOK, States, Lives, Ops,
           Events
  <2>2. RunningHasInstance'
    BY <1>1
       DEF Register, Becomes, Tell, callVars, RunningHasInstance, Instances,
           TypeOK
  <2>3. StartingHasAgent'
    BY <1>1 DEF Register, Becomes, Tell, callVars, StartingHasAgent, StartAgent, TypeOK
  <2>4. StoppingHasAgent'
    BY <1>1
       DEF Register, Becomes, Tell, callVars, StoppingHasAgent, StartAgent, Stopping,
           TypeOK
  <2>5. MadeHasStarter'
    BY <1>1
       DEF Register, Becomes, Tell, callVars, MadeHasStarter,
           TypeOK
  <2> QED  BY <2>1, <2>2, <2>3, <2>4, <2>5
<1>2. ASSUME NEW c \in Callers, NEW n \in Services, StartChecks(c, n) PROVE IInv'
  <2>1. TypeOK'
    BY <1>2
       DEF StartChecks, Startable, Begin, TypeOK, States, Lives, Ops, Events
  <2>2. RunningHasInstance'
    BY <1>2
       DEF StartChecks, Startable, Begin, RunningHasInstance, Instances, TypeOK
  <2>3. StartingHasAgent'
    BY <1>2 DEF StartChecks, Startable, Begin, StartingHasAgent, StartAgent, TypeOK
  <2>4. StoppingHasAgent'
    BY <1>2
       DEF StartChecks, Startable, Begin, StoppingHasAgent, StartAgent, Stopping, TypeOK
  <2>5. MadeHasStarter'
    BY <1>2
       DEF StartChecks, Startable, Begin, MadeHasStarter, TypeOK
  <2> QED  BY <2>1, <2>2, <2>3, <2>4, <2>5
<1>3. ASSUME NEW c \in Callers, NEW n \in Services, StopChecks(c, n) PROVE IInv'
  <2>1. TypeOK'
    BY <1>3 DEF StopChecks, Begin, TypeOK, States, Lives, Ops, Events
  <2>2. RunningHasInstance'
    BY <1>3 DEF StopChecks, Begin, RunningHasInstance, Instances, TypeOK
  <2>3. StartingHasAgent'
    BY <1>3 DEF StopChecks, Begin, StartingHasAgent, StartAgent, TypeOK
  <2>4. StoppingHasAgent'
    BY <1>3 DEF StopChecks, Begin, StoppingHasAgent, StartAgent, Stopping, TypeOK
  <2>5. MadeHasStarter'
    BY <1>3 DEF StopChecks, Begin, MadeHasStarter, TypeOK
  <2> QED  BY <2>1, <2>2, <2>3, <2>4, <2>5
<1>4. ASSUME NEW c \in Callers, StartSets(c) PROVE IInv'
  <2>1. TypeOK'
    BY <1>4 DEF StartSets, Move, Becomes, TypeOK, States, Lives, Ops, Events
  <2>2. RunningHasInstance'
    BY <1>4 DEF StartSets, Move, Becomes, RunningHasInstance, Instances, TypeOK
  <2>3. StartingHasAgent'
    BY <1>4 DEF StartSets, Move, Becomes, StartingHasAgent, StartAgent, TypeOK
  <2>4. StoppingHasAgent'
    BY <1>4 DEF StartSets, Move, Becomes, StoppingHasAgent, StartAgent, Stopping, TypeOK
  <2>5. MadeHasStarter'
    BY <1>4 DEF StartSets, Move, Becomes, MadeHasStarter, TypeOK
  <2> QED  BY <2>1, <2>2, <2>3, <2>4, <2>5
<1>5. ASSUME NEW c \in Callers, StartMakes(c) PROVE IInv'
  <2>1. TypeOK'
    BY <1>5 DEF StartMakes, Move, Spare, TypeOK, States, Lives, Ops, Events
  <2>2. RunningHasInstance'
    <3>1. /\ state' = state
          /\ \A n \in Services, u \in Threads :
               life[n][u] \in {"entered", "inside"} => life'[n][u] = life[n][u]
      BY <1>5 DEF StartMakes, Move, Spare, TypeOK
    <3> QED  BY <3>1 DEF RunningHasInstance, Instances
  <2>3. StartingHasAgent'
    BY <1>5 DEF StartMakes, Move, Spare, StartingHasAgent, StartAgent, TypeOK
  <2>4. StoppingHasAgent'
    BY <1>5 DEF StartMakes, Move, Spare, StoppingHasAgent, StartAgent, Stopping, TypeOK
  <2>5. MadeHasStarter'
    BY <1>5 DEF StartMakes, Move, Spare, MadeHasStarter, TypeOK
  <2> QED  BY <2>1, <2>2, <2>3, <2>4, <2>5
<1>6. ASSUME NEW c \in Callers, StartGoes(c) PROVE IInv'
  <2>1. TypeOK'
    BY <1>6, ServiceManagerAssumption
       DEF StartGoes, Return, Move, TypeOK, States, Lives, Ops, Events
  <2>2. RunningHasInstance'
    BY <1>6, ServiceManagerAssumption
       DEF StartGoes, Return, Move, RunningHasInstance, Instances, TypeOK
  <2>0. ASSUME NEW n \in Services, StartAgent(n) PROVE StartAgent(n)'
    <3>1. /\ state' = state /\ thread' = thread
          /\ op[c] = "go" /\ subject[c] \in Services
          /\ thread[subject[c]] \in Threads
      BY <1>6 DEF StartGoes, Return, Move, TypeOK
    <3>2. \A b \in Callers : b # c => op'[b] = op[b] /\ subject'[b] = subject[b]
      BY <1>6 DEF StartGoes, Return, Move, TypeOK
    <3>3. \A t \in Threads : life[n][t] = "new" => life'[n][t] = "new"
      BY <1>6, <3>1 DEF StartGoes, TypeOK
    <3>4. CASE subject[c] = n /\ life[n][thread[n]] = "made"
      <4>1. life'[n][thread[n]] = "new"
        BY <1>6, <3>1, <3>4 DEF StartGoes, TypeOK
      <4> QED  BY <3>1, <3>4, <4>1 DEF StartAgent
    <3>5. CASE ~ (subject[c] = n /\ life[n][thread[n]] = "made")
      <4>1. life'[n] = life[n]
        BY <1>6, <3>1, <3>5 DEF StartGoes, TypeOK
      <4>2. CASE \E b \in Callers : subject[b] = n /\ op[b] = "make"
        BY <3>1, <3>2, <4>2 DEF StartAgent
      <4>3. CASE \E b \in Callers : /\ subject[b] = n /\ op[b] = "go"
                                    /\ life[n][thread[n]] = "made"
        BY <3>1, <3>2, <3>5, <4>1, <4>3 DEF StartAgent
      <4>4. CASE \E t \in Threads : life[n][t] = "new"
        BY <3>3, <4>4 DEF StartAgent
      <4> QED  BY <2>0, <4>2, <4>3, <4>4 DEF StartAgent
    <3> QED  BY <3>4, <3>5
  <2>3. StartingHasAgent'
    BY <1>6, <2>0 DEF StartGoes, StartingHasAgent
  <2>4. StoppingHasAgent'
    <3>1. state' = state /\ \A n \in Services : Stopping(n) => Stopping(n)'
      BY <1>6 DEF StartGoes, Return, Move, Stopping, TypeOK
    <3> QED  BY <2>0, <3>1 DEF StoppingHasAgent
  <2>5. MadeHasStarter'
    BY <1>6, ServiceManagerAssumption
       DEF StartGoes, Return, Move, MadeHasStarter, TypeOK
  <2> QED  BY <2>1, <2>2, <2>3, <2>4, <2>5
<1>7. ASSUME NEW c \in Callers, StopSets(c) PROVE IInv'
  <2>1. TypeOK'
    BY <1>7 DEF StopSets, Move, Becomes, TypeOK, States, Lives, Ops, Events
  <2>2. RunningHasInstance'
    BY <1>7 DEF StopSets, Move, Becomes, RunningHasInstance, Instances, TypeOK
  <2>3. StartingHasAgent'
    BY <1>7 DEF StopSets, Move, Becomes, StartingHasAgent, StartAgent, TypeOK
  <2>4. StoppingHasAgent'
    BY <1>7 DEF StopSets, Move, Becomes, StoppingHasAgent, StartAgent, Stopping, TypeOK
  <2>5. MadeHasStarter'
    BY <1>7 DEF StopSets, Move, Becomes, MadeHasStarter, TypeOK
  <2> QED  BY <2>1, <2>2, <2>3, <2>4, <2>5
<1>8. ASSUME NEW c \in Callers, StopLooks(c) PROVE IInv'
  <2>1. TypeOK'
    <3>1. subject[c] \in Services /\ subject' = subject
      BY <1>8 DEF StopLooks, TypeOK
    <3>2. \/ op' = [op EXCEPT ![c] = "await"] /\ thread[subject[c]] # NoThread
          \/ op' = [op EXCEPT ![c] = "settle"]
      BY <1>8 DEF StopLooks, Move
    <3>3. thread[subject[c]] \in Threads \cup {NoThread}
      BY <3>1 DEF TypeOK
    <3>4. op' \in [Callers -> Ops]
      BY <3>2 DEF TypeOK, Ops
    <3>5. UNCHANGED <<state, thread, life, held, told>>
      BY <1>8 DEF StopLooks
    <3>6. \A d \in Callers : /\ op'[d] # "idle" => subject[d] \in Services
                             /\ op'[d] = "join" => held[d] \in Threads
                             /\ op'[d] \in {"go", "await"} => thread[subject[d]] \in Threads
      <4> SUFFICES ASSUME NEW d \in Callers
                   PROVE /\ op'[d] # "idle" => subject[d] \in Services
                         /\ op'[d] = "join" => held[d] \in Threads
                         /\ op'[d] \in {"go", "await"} => thread[subject[d]] \in Threads
        OBVIOUS
      <4>1. CASE d = c
        BY <3>1, <3>2, <3>3, <4>1 DEF TypeOK
      <4>2. CASE d # c
        BY <3>2, <4>2 DEF TypeOK
      <4> QED  BY <4>1, <4>2
    <3> QED  BY <3>1, <3>4, <3>5, <3>6 DEF TypeOK
  <2>2. RunningHasInstance'
    BY <1>8 DEF StopLooks, Move, Alive, RunningHasInstance, Instances, TypeOK
  <2>3. StartingHasAgent'
    BY <1>8 DEF StopLooks, Move, Alive, StartingHasAgent, StartAgent, TypeOK
  <2>4. StoppingHasAgent'
    BY <1>8 DEF StopLooks, Move, Alive, StoppingHasAgent, StartAgent, Stopping, TypeOK
  <2>5. MadeHasStarter'
    BY <1>8 DEF StopLooks, Move, Alive, MadeHasStarter, TypeOK
  <2> QED  BY <2>1, <2>2, <2>3, <2>4, <2>5
<1>17. ASSUME NEW c \in Callers, StopWaits(c) PROVE IInv'
  <2>1. /\ subject[c] \in Services /\ op[c] = "await"
        /\ thread[subject[c]] \in Threads
        /\ UNCHANGED <<state, thread, life, told>>
    BY <1>17 DEF StopWaits, TypeOK
  <2>2. \A d \in Callers : d # c => op'[d] = op[d] /\ subject'[d] = subject[d]
    BY <1>17 DEF StopWaits, Return, Move, TypeOK
  <2>3. TypeOK'
    <3>1. CASE life[subject[c]][thread[subject[c]]] = "made"
      <4>1. /\ op' = [op EXCEPT ![c] = "idle"]
            /\ subject' = [subject EXCEPT ![c] = NoService]
            /\ held' = [held EXCEPT ![c] = NoThread]
        BY <1>17, <3>1 DEF StopWaits, Return, Move
      <4>2. /\ op' \in [Callers -> Ops]
            /\ subject' \in [Callers -> Services \cup {NoService}]
            /\ held' \in [Callers -> Threads \cup {NoThread}]
        BY <4>1 DEF TypeOK, Ops
      <4>3. ASSUME NEW d \in Callers
            PROVE  /\ op'[d] # "idle" => subject'[d] \in Services
                   /\ op'[d] = "join" => held'[d] \in Threads
                   /\ op'[d] \in {"go", "await"} => thread[subject'[d]] \in Threads
        <5>1. CASE d = c
          BY <4>1, <5>1 DEF TypeOK
        <5>2. CASE d # c
          BY <4>1, <5>2 DEF TypeOK
        <5> QED  BY <5>1, <5>2
      <4> QED  BY <2>1, <4>2, <4>3 DEF TypeOK
    <3>2. CASE life[subject[c]][thread[subject[c]]] # "made"
      <4>1. /\ op' = [op EXCEPT ![c] = "join"] /\ subject' = subject
            /\ held' = [held EXCEPT ![c] = thread[subject[c]]]
        BY <1>17, <3>2 DEF StopWaits, Move
      <4>2. op' \in [Callers -> Ops] /\ held' \in [Callers -> Threads \cup {NoThread}]
        BY <2>1, <4>1 DEF TypeOK, Ops
      <4>3. ASSUME NEW d \in Callers
            PROVE  /\ op'[d] # "idle" => subject[d] \in Services
                   /\ op'[d] = "join" => held'[d] \in Threads
                   /\ op'[d] \in {"go", "await"} => thread[subject[d]] \in Threads
        <5>1. CASE d = c
          BY <2>1, <4>1, <5>1 DEF TypeOK
        <5>2. CASE d # c
          BY <4>1, <5>2 DEF TypeOK
        <5> QED  BY <5>1, <5>2
      <4> QED  BY <2>1, <4>1, <4>2, <4>3 DEF TypeOK
    <3> QED  BY <3>1, <3>2
  <2>4. RunningHasInstance'
    BY <2>1 DEF RunningHasInstance, Instances
  <2>5. \A n \in Services : StartAgent(n) => StartAgent(n)'
    BY <2>1, <2>2 DEF StartAgent
  <2>6. StartingHasAgent'
    BY <2>1, <2>5 DEF StartingHasAgent
  <2>7. MadeHasStarter'
    BY <2>1, <2>2 DEF MadeHasStarter
  <2>8. StoppingHasAgent'
    <3>1. CASE life[subject[c]][thread[subject[c]]] = "made"
      <4>1. StartAgent(subject[c])
        BY <2>1, <3>1 DEF MadeHasStarter, StartAgent
      <4>2. \A n \in Services : n # subject[c] => (Stopping(n) => Stopping(n)')
        BY <2>1, <2>2 DEF Stopping
      <4> QED  BY <2>1, <2>5, <4>1, <4>2 DEF StoppingHasAgent
    <3>2. CASE life[subject[c]][thread[subject[c]]] # "made"
      <4>1. subject' = subject /\ op' = [op EXCEPT ![c] = "join"]
        BY <1>17, <3>2 DEF StopWaits, Move
      <4>2. \A n \in Services : Stopping(n) => Stopping(n)'
        BY <2>1, <4>1 DEF Stopping, TypeOK
      <4> QED  BY <2>1, <2>5, <4>2 DEF StoppingHasAgent
    <3> QED  BY <3>1, <3>2
  <2> QED  BY <2>3, <2>4, <2>6, <2>7, <2>8
<1>9. ASSUME NEW c \in Callers, StopJoins(c) PROVE IInv'
  <2>1. TypeOK'
    BY <1>9 DEF StopJoins, Move, Alive, TypeOK, States, Lives, Ops, Events
  <2>2. RunningHasInstance'
    BY <1>9 DEF StopJoins, Move, Alive, RunningHasInstance, Instances, TypeOK
  <2>3. StartingHasAgent'
    BY <1>9 DEF StopJoins, Move, Alive, StartingHasAgent, StartAgent, TypeOK
  <2>4. StoppingHasAgent'
    BY <1>9 DEF StopJoins, Move, Alive, StoppingHasAgent, StartAgent, Stopping, TypeOK
  <2>5. MadeHasStarter'
    BY <1>9 DEF StopJoins, Move, Alive, MadeHasStarter, TypeOK
  <2> QED  BY <2>1, <2>2, <2>3, <2>4, <2>5
<1>10. ASSUME NEW c \in Callers, StopSettles(c) PROVE IInv'
  <2>1. TypeOK'
    BY <1>10 DEF StopSettles, Move, Becomes, TypeOK, States, Lives, Ops, Events
  <2>2. RunningHasInstance'
    BY <1>10
       DEF StopSettles, Move, Becomes, RunningHasInstance, Instances, TypeOK
  <2>3. StartingHasAgent'
    BY <1>10 DEF StopSettles, Move, Becomes, StartingHasAgent, StartAgent, TypeOK
  <2>4. StoppingHasAgent'
    BY <1>10 DEF StopSettles, Move, Becomes, StoppingHasAgent, StartAgent, Stopping, TypeOK
  <2>5. MadeHasStarter'
    BY <1>10 DEF StopSettles, Move, Becomes, MadeHasStarter, TypeOK
  <2> QED  BY <2>1, <2>2, <2>3, <2>4, <2>5
<1>11. ASSUME NEW c \in Callers, StopTells(c) PROVE IInv'
  <2>1. TypeOK'
    BY <1>11, ServiceManagerAssumption
       DEF StopTells, Return, Move, Tell, TypeOK, States, Lives, Ops, Events
  <2>2. RunningHasInstance'
    BY <1>11, ServiceManagerAssumption
       DEF StopTells, Return, Move, Tell, RunningHasInstance, Instances, TypeOK
  <2>3. StartingHasAgent'
    BY <1>11, ServiceManagerAssumption
       DEF StopTells, Return, Move, Tell, StartingHasAgent, StartAgent, TypeOK
  <2>4. StoppingHasAgent'
    BY <1>11, ServiceManagerAssumption
       DEF StopTells, Return, Move, Tell, StoppingHasAgent, StartAgent, Stopping, TypeOK
  <2>5. MadeHasStarter'
    BY <1>11, ServiceManagerAssumption
       DEF StopTells, Return, Move, Tell, MadeHasStarter, TypeOK
  <2> QED  BY <2>1, <2>2, <2>3, <2>4, <2>5
<1>12. ASSUME NEW n \in Services, NEW t \in Threads, RunEnters(n, t) PROVE IInv'
  <2>1. TypeOK'
    BY <1>12
       DEF RunEnters, ThreadMoves, Becomes, callVars, TypeOK, States, Lives,
           Ops, Events
  <2>2. RunningHasInstance'
    BY <1>12
       DEF RunEnters, ThreadMoves, Becomes, callVars, RunningHasInstance,
           Instances, TypeOK
  <2>3. StartingHasAgent'
    BY <1>12
       DEF RunEnters, ThreadMoves, Becomes, callVars, StartingHasAgent, StartAgent, TypeOK
  <2>4. StoppingHasAgent'
    BY <1>12
       DEF RunEnters, ThreadMoves, Becomes, callVars, StoppingHasAgent,
           StartAgent, Stopping, TypeOK
  <2>5. MadeHasStarter'
    BY <1>12
       DEF RunEnters, ThreadMoves, Becomes, callVars, MadeHasStarter, TypeOK
  <2> QED  BY <2>1, <2>2, <2>3, <2>4, <2>5
<1>13. ASSUME NEW n \in Services, NEW t \in Threads, RunTellsStarted(n, t) PROVE IInv'
  <2>1. TypeOK'
    BY <1>13
       DEF RunTellsStarted, ThreadMoves, Tell, callVars, TypeOK, States, Lives,
           Ops, Events
  <2>2. RunningHasInstance'
    BY <1>13
       DEF RunTellsStarted, ThreadMoves, Tell, callVars, RunningHasInstance,
           Instances, TypeOK
  <2>3. StartingHasAgent'
    BY <1>13
       DEF RunTellsStarted, ThreadMoves, Tell, callVars, StartingHasAgent,
           StartAgent, TypeOK
  <2>4. StoppingHasAgent'
    BY <1>13
       DEF RunTellsStarted, ThreadMoves, Tell, callVars, StoppingHasAgent,
           StartAgent, Stopping, TypeOK
  <2>5. MadeHasStarter'
    BY <1>13
       DEF RunTellsStarted, ThreadMoves, Tell, callVars, MadeHasStarter, TypeOK
  <2> QED  BY <2>1, <2>2, <2>3, <2>4, <2>5
<1>14. ASSUME NEW n \in Services, NEW t \in Threads, RunEnds(n, t) PROVE IInv'
  <2>1. TypeOK'
    BY <1>14
       DEF RunEnds, ThreadMoves, Becomes, callVars, TypeOK, States, Lives, Ops,
           Events
  <2>2. RunningHasInstance'
    BY <1>14
       DEF RunEnds, ThreadMoves, Becomes, callVars, RunningHasInstance,
           Instances, TypeOK
  <2>3. StartingHasAgent'
    BY <1>14
       DEF RunEnds, ThreadMoves, Becomes, callVars, StartingHasAgent, StartAgent, TypeOK
  <2>4. StoppingHasAgent'
    BY <1>14
       DEF RunEnds, ThreadMoves, Becomes, callVars, StoppingHasAgent, StartAgent, Stopping,
           TypeOK
  <2>5. MadeHasStarter'
    BY <1>14
       DEF RunEnds, ThreadMoves, Becomes, callVars, MadeHasStarter,
           TypeOK
  <2> QED  BY <2>1, <2>2, <2>3, <2>4, <2>5
<1>15. ASSUME NEW n \in Services, NEW t \in Threads, RunTellsStopped(n, t) PROVE IInv'
  <2>1. TypeOK'
    BY <1>15
       DEF RunTellsStopped, ThreadMoves, Tell, callVars, TypeOK, States, Lives,
           Ops, Events
  <2>2. RunningHasInstance'
    BY <1>15
       DEF RunTellsStopped, ThreadMoves, Tell, callVars, RunningHasInstance,
           Instances, TypeOK
  <2>3. StartingHasAgent'
    BY <1>15
       DEF RunTellsStopped, ThreadMoves, Tell, callVars, StartingHasAgent,
           StartAgent, TypeOK
  <2>4. StoppingHasAgent'
    BY <1>15
       DEF RunTellsStopped, ThreadMoves, Tell, callVars, StoppingHasAgent,
           StartAgent, Stopping, TypeOK
  <2>5. MadeHasStarter'
    BY <1>15
       DEF RunTellsStopped, ThreadMoves, Tell, callVars, MadeHasStarter, TypeOK
  <2> QED  BY <2>1, <2>2, <2>3, <2>4, <2>5
<1>16. CASE UNCHANGED vars
  BY <1>16 DEF vars, TypeOK, RunningHasInstance, StartingHasAgent, StartAgent,
               StoppingHasAgent, MadeHasStarter, Instances, Stopping
<1> QED
  BY <1>1, <1>2, <1>3, <1>4, <1>5, <1>6, <1>7, <1>8, <1>9, <1>10, <1>11,
     <1>12, <1>13, <1>14, <1>15, <1>16, <1>17
     DEF Next, Calls, CallGoesOn, StartGoesOn, StopGoesOn, Runs, ThreadGoesOn

THEOREM InvariantHolds == Spec => []IInv
BY InitInv, StepInv, PTL DEF Spec

\* Whatever the callers and the services' threads do, every variable keeps its
\* type, a caller that waits has a thread to wait for, and a caller that starts
\* a thread has one to start.
THEOREM TypeCorrect == Spec => []TypeOK
<1>1. IInv => TypeOK
  BY DEF IInv
<1> QED  BY <1>1, InvariantHolds, PTL

\* No service is left "running" with no thread in its entry point, nor "starting"
\* or "stopping" with nobody to take it further, however start(), stop() and
\* _run() interleave on the record they do not lock: when stop() dies of a thread
\* that start() has not started yet, that start() goes on.
THEOREM StateHasAgentAlways == Spec => []StateHasAgent
<1>1. IInv => StateHasAgent
  BY DEF IInv, StateHasAgent, RunningHasInstance, StartingHasAgent, StartAgent,
         StoppingHasAgent, Starting
<1> QED  BY <1>1, InvariantHolds, PTL

-----------------------------------------------------------------------------
(* A sole caller, and services that end in time.                           *)

Alone == TimesOut = FALSE /\ \A c, d \in Callers : c = d

Active(n, t) == life[n][t] \in {"new", "entered", "inside"}

\* A thread of n that is or will be in its entry point is the one the record
\* names, and the record's state says so.
ThreadsOK ==
  \A n \in Services : \A t \in Threads :
    /\ Active(n, t) => t = thread[n]
    /\ life[n][t] = "new" => state[n] = "starting"
    /\ life[n][t] \in {"entered", "inside"} => state[n] \in {"running", "stopping"}

\* What the caller knows of the service at each step of its call.
CallerOK ==
  \A c \in Callers : \A n \in Services : subject[c] = n =>
    /\ op[c] = "start" => state[n] \in {"registered", "stopped"}
    /\ op[c] \in {"make", "go"} => state[n] = "starting"
    /\ op[c] \in {"start", "make", "go", "settle", "tell"} =>
         \A t \in Threads : ~ Active(n, t)
    /\ op[c] = "stop" => state[n] \in {"running", "stopped"}
    /\ op[c] \in {"look", "await", "join", "settle"} => state[n] \in {"stopping", "stopped"}
    /\ op[c] = "join" => held[c] = thread[n]
    /\ op[c] = "await" => life[n][thread[n]] # "made"
    /\ op[c] = "tell" => state[n] = "stopped"

AloneInv == TypeOK /\ ThreadsOK /\ CallerOK

LEMMA AloneInit == Init => AloneInv
<1> SUFFICES ASSUME Init PROVE AloneInv
  OBVIOUS
<1>1. TypeOK
  BY InitInv DEF IInv
<1>2. ThreadsOK
  BY DEF Init, ThreadsOK, Active
<1>3. CallerOK
  BY ServiceManagerAssumption DEF Init, CallerOK
<1> QED  BY <1>1, <1>2, <1>3 DEF AloneInv

LEMMA AloneStep ==
  ASSUME Alone PROVE IInv /\ AloneInv /\ [Next]_vars => AloneInv'
<1> SUFFICES ASSUME IInv, AloneInv, [Next]_vars PROVE AloneInv'
  OBVIOUS
<1> USE DEF AloneInv
<1>0. TypeOK'
  BY StepInv DEF IInv
<1>1. ASSUME NEW n \in Services, Register(n) PROVE ThreadsOK' /\ CallerOK'
  <2>1. ThreadsOK'
    BY <1>1
       DEF Register, Becomes, Tell, callVars, ThreadsOK, CallerOK, Active,
           TypeOK
  <2>2. CallerOK'
    BY <1>1
       DEF Register, Becomes, Tell, callVars, ThreadsOK, CallerOK, Active,
           Alone, TypeOK
  <2> QED  BY <2>1, <2>2
<1>2. ASSUME NEW c \in Callers, NEW n \in Services, StartChecks(c, n) PROVE ThreadsOK' /\ CallerOK'
  <2>1. ThreadsOK'
    BY <1>2
       DEF StartChecks, Startable, Begin, ThreadsOK, CallerOK, Active, TypeOK
  <2>2. CallerOK'
    BY <1>2
       DEF StartChecks, Startable, Begin, ThreadsOK, CallerOK, Active, Alone,
           TypeOK
  <2> QED  BY <2>1, <2>2
<1>3. ASSUME NEW c \in Callers, NEW n \in Services, StopChecks(c, n) PROVE ThreadsOK' /\ CallerOK'
  <2>1. ThreadsOK'
    BY <1>3 DEF StopChecks, Begin, ThreadsOK, CallerOK, Active, TypeOK
  <2>2. CallerOK'
    BY <1>3 DEF StopChecks, Begin, ThreadsOK, CallerOK, Active, Alone, TypeOK
  <2> QED  BY <2>1, <2>2
<1>4. ASSUME NEW c \in Callers, StartSets(c) PROVE ThreadsOK' /\ CallerOK'
  <2>1. ThreadsOK'
    BY <1>4 DEF StartSets, Move, Becomes, ThreadsOK, CallerOK, Active, TypeOK
  <2>2. CallerOK'
    BY <1>4
       DEF StartSets, Move, Becomes, ThreadsOK, CallerOK, Active, Alone, TypeOK
  <2> QED  BY <2>1, <2>2
<1>5. ASSUME NEW c \in Callers, StartMakes(c) PROVE ThreadsOK' /\ CallerOK'
  <2>1. ThreadsOK'
    BY <1>5 DEF StartMakes, Move, Spare, ThreadsOK, CallerOK, Active, TypeOK
  <2>2. CallerOK'
    BY <1>5
       DEF StartMakes, Move, Spare, ThreadsOK, CallerOK, Active, Alone, TypeOK
  <2> QED  BY <2>1, <2>2
<1>6. ASSUME NEW c \in Callers, StartGoes(c) PROVE ThreadsOK' /\ CallerOK'
  <2>1. ThreadsOK'
    BY <1>6, ServiceManagerAssumption
       DEF StartGoes, Return, Move, ThreadsOK, CallerOK, Active, TypeOK
  <2>2. CallerOK'
    BY <1>6, ServiceManagerAssumption
       DEF StartGoes, Return, Move, ThreadsOK, CallerOK, Active, Alone, TypeOK
  <2> QED  BY <2>1, <2>2
<1>7. ASSUME NEW c \in Callers, StopSets(c) PROVE ThreadsOK' /\ CallerOK'
  <2>1. ThreadsOK'
    BY <1>7 DEF StopSets, Move, Becomes, ThreadsOK, CallerOK, Active, TypeOK
  <2>2. CallerOK'
    BY <1>7
       DEF StopSets, Move, Becomes, ThreadsOK, CallerOK, Active, Alone, TypeOK
  <2> QED  BY <2>1, <2>2
<1>8. ASSUME NEW c \in Callers, StopLooks(c) PROVE ThreadsOK' /\ CallerOK'
  <2>1. ThreadsOK'
    BY <1>8 DEF StopLooks, Move, Alive, ThreadsOK, CallerOK, Active, TypeOK
  <2>2. CallerOK'
    <3>1. \A d \in Callers : d = c
      BY DEF Alone
    <3>2. subject[c] \in Services /\ state[subject[c]] \in {"stopping", "stopped"}
      BY <1>8 DEF StopLooks, CallerOK, TypeOK
    <3>3. UNCHANGED <<state, thread, life, subject>>
      BY <1>8 DEF StopLooks
    <3>4. CASE thread[subject[c]] # NoThread /\ Alive(subject[c], thread[subject[c]])
      <4>1. op'[c] = "await"
        BY <1>8, <3>4 DEF StopLooks, Move, TypeOK
      <4>2. life[subject[c]][thread[subject[c]]] # "made"
        BY <3>4 DEF Alive
      <4> QED  BY <3>1, <3>2, <3>3, <4>1, <4>2 DEF CallerOK
    <3>5. CASE ~ (thread[subject[c]] # NoThread /\ Alive(subject[c], thread[subject[c]]))
      <4>1. op'[c] = "settle"
        BY <1>8, <3>5 DEF StopLooks, Move, TypeOK
      <4>2. \A t \in Threads : ~ Active(subject[c], t)
        BY <3>2, <3>5, ServiceManagerAssumption DEF ThreadsOK, Active, Alive
      <4>3. \A t \in Threads : ~ Active(subject[c], t)'
        BY <3>3, <4>2 DEF Active
      <4> QED  BY <3>1, <3>2, <3>3, <4>1, <4>3 DEF CallerOK
    <3> QED  BY <3>4, <3>5
  <2> QED  BY <2>1, <2>2
<1>17. ASSUME NEW c \in Callers, StopWaits(c) PROVE ThreadsOK' /\ CallerOK'
  <2>1. \A d \in Callers : d = c
    BY DEF Alone
  <2>2. /\ op[c] = "await" /\ subject[c] \in Services
        /\ UNCHANGED <<state, thread, life>>
    BY <1>17 DEF StopWaits, TypeOK
  <2>3. /\ state[subject[c]] \in {"stopping", "stopped"}
        /\ life[subject[c]][thread[subject[c]]] # "made"
    BY <2>2 DEF CallerOK
  <2>4. /\ op'[c] = "join" /\ subject' = subject
        /\ held'[c] = thread[subject[c]]
    BY <1>17, <2>3 DEF StopWaits, Move, TypeOK
  <2>5. ThreadsOK'
    BY <2>2 DEF ThreadsOK, Active
  <2>6. CallerOK'
    BY <2>1, <2>2, <2>3, <2>4 DEF CallerOK
  <2> QED  BY <2>5, <2>6
<1>9. ASSUME NEW c \in Callers, StopJoins(c) PROVE ThreadsOK' /\ CallerOK'
  <2>1. ThreadsOK'
    BY <1>9 DEF StopJoins, Move, Alive, ThreadsOK, CallerOK, Active, TypeOK
  <2>2. CallerOK'
    BY <1>9
       DEF StopJoins, Move, Alive, ThreadsOK, CallerOK, Active, Alone, TypeOK
  <2> QED  BY <2>1, <2>2
<1>10. ASSUME NEW c \in Callers, StopSettles(c) PROVE ThreadsOK' /\ CallerOK'
  <2>1. ThreadsOK'
    BY <1>10
       DEF StopSettles, Move, Becomes, ThreadsOK, CallerOK, Active, TypeOK
  <2>2. CallerOK'
    BY <1>10
       DEF StopSettles, Move, Becomes, ThreadsOK, CallerOK, Active, Alone,
           TypeOK
  <2> QED  BY <2>1, <2>2
<1>11. ASSUME NEW c \in Callers, StopTells(c) PROVE ThreadsOK' /\ CallerOK'
  <2>1. ThreadsOK'
    BY <1>11, ServiceManagerAssumption
       DEF StopTells, Return, Move, Tell, ThreadsOK, CallerOK, Active, TypeOK
  <2>2. CallerOK'
    BY <1>11, ServiceManagerAssumption
       DEF StopTells, Return, Move, Tell, ThreadsOK, CallerOK, Active, Alone,
           TypeOK
  <2> QED  BY <2>1, <2>2
<1>12. ASSUME NEW n \in Services, NEW t \in Threads, RunEnters(n, t) PROVE ThreadsOK' /\ CallerOK'
  <2>1. ThreadsOK'
    BY <1>12
       DEF RunEnters, ThreadMoves, Becomes, callVars, ThreadsOK, CallerOK,
           Active, TypeOK
  <2>2. CallerOK'
    BY <1>12
       DEF RunEnters, ThreadMoves, Becomes, callVars, ThreadsOK, CallerOK,
           Active, Alone, TypeOK
  <2> QED  BY <2>1, <2>2
<1>13. ASSUME NEW n \in Services, NEW t \in Threads, RunTellsStarted(n, t) PROVE ThreadsOK' /\ CallerOK'
  <2>1. ThreadsOK'
    BY <1>13
       DEF RunTellsStarted, ThreadMoves, Tell, callVars, ThreadsOK, CallerOK,
           Active, TypeOK
  <2>2. CallerOK'
    BY <1>13
       DEF RunTellsStarted, ThreadMoves, Tell, callVars, ThreadsOK, CallerOK,
           Active, Alone, TypeOK
  <2> QED  BY <2>1, <2>2
<1>14. ASSUME NEW n \in Services, NEW t \in Threads, RunEnds(n, t) PROVE ThreadsOK' /\ CallerOK'
  <2>1. ThreadsOK'
    BY <1>14
       DEF RunEnds, ThreadMoves, Becomes, callVars, ThreadsOK, CallerOK,
           Active, TypeOK
  <2>2. CallerOK'
    BY <1>14
       DEF RunEnds, ThreadMoves, Becomes, callVars, ThreadsOK, CallerOK,
           Active, Alone, TypeOK
  <2> QED  BY <2>1, <2>2
<1>15. ASSUME NEW n \in Services, NEW t \in Threads, RunTellsStopped(n, t) PROVE ThreadsOK' /\ CallerOK'
  <2>1. ThreadsOK'
    BY <1>15
       DEF RunTellsStopped, ThreadMoves, Tell, callVars, ThreadsOK, CallerOK,
           Active, TypeOK
  <2>2. CallerOK'
    BY <1>15
       DEF RunTellsStopped, ThreadMoves, Tell, callVars, ThreadsOK, CallerOK,
           Active, Alone, TypeOK
  <2> QED  BY <2>1, <2>2
<1>16. CASE UNCHANGED vars
  BY <1>16 DEF vars, TypeOK, ThreadsOK, CallerOK, Active
<1> QED
  BY <1>0, <1>1, <1>2, <1>3, <1>4, <1>5, <1>6, <1>7, <1>8, <1>9, <1>10, <1>11,
     <1>12, <1>13, <1>14, <1>15, <1>16, <1>17
     DEF Next, Calls, CallGoesOn, StartGoesOn, StopGoesOn, Runs, ThreadGoesOn

\* With one caller at a time and services that end within the five seconds that
\* stop() waits, start() never has a service running twice, and a service that
\* stop() or _run() left "stopped" is not running.
THEOREM OneInstanceAlone ==
  ASSUME Alone PROVE Spec => []OneInstance
<1>1. AloneInv => OneInstance
  <2> SUFFICES ASSUME AloneInv, NEW n \in Services
               PROVE  /\ Cardinality(Instances(n)) <= 1
                      /\ state[n] = "stopped" => Instances(n) = {}
    BY DEF OneInstance
  <2>1. Instances(n) \subseteq {thread[n]}
    BY DEF AloneInv, ThreadsOK, Instances, Active
  <2>2. Cardinality(Instances(n)) <= 1
    <3>1. IsFiniteSet({thread[n]}) /\ Cardinality({thread[n]}) = 1
      BY FS_Singleton
    <3>2. Cardinality(Instances(n)) <= Cardinality({thread[n]})
      BY <2>1, <3>1, FS_Subset
    <3> QED  BY <3>1, <3>2
  <2>3. state[n] = "stopped" => Instances(n) = {}
    BY DEF AloneInv, ThreadsOK, Instances
  <2> QED  BY <2>2, <2>3
<1>2. IInv /\ AloneInv /\ [Next]_vars => AloneInv'
  BY AloneStep
<1> QED  BY <1>1, <1>2, AloneInit, InvariantHolds, PTL DEF Spec

-----------------------------------------------------------------------------
(* The watchdog.                                                           *)

\* From its look at the health record on, the service it is about to start is
\* neither disabled nor waiting: only its own failures make it so, and with
\* them it leaves these places.
WatchInv ==
  dog \in {"test", "call"} => aim \in Services /\ aim \notin waiting \cup disabled

LEMMA WatchStep == WatchInv /\ [WatchdogNext]_watchVars => WatchInv'
<1> SUFFICES ASSUME WatchInv, [WatchdogNext]_watchVars PROVE WatchInv'
  OBVIOUS
<1>1. CASE Others \/ UNCHANGED watchVars
  BY <1>1 DEF WatchInv, Others, watchVars, dogVars
<1>2. CASE DogStarts \/ DogStops \/ \E n \in Services : OnServiceRegistered(n) \/ BackoffEnds(n)
  BY <1>2 DEF WatchInv, DogStarts, DogStops, OnServiceRegistered, BackoffEnds
<1>3. CASE \/ DogLoops \/ DogWakes \/ DogReports \/ DogPublishes
           \/ DogCalls \/ DogRefused \/ DogCycleEnds
  BY <1>3 DEF WatchInv, DogLoops, DogWakes, DogReports, DogPublishes, DogCalls, DogRefused,
              DogCycleEnds, DogMoves
<1>4. CASE \E n \in Services : DogReads(n)
  BY <1>4 DEF WatchInv, DogReads
<1>5. CASE \E n \in Services : DogTurns(n)
  BY <1>5 DEF WatchInv, DogTurns, Restartable
<1>6. CASE DogTests
  BY <1>6 DEF WatchInv, DogTests
<1>7. CASE DogStartGoesOn
  BY <1>7 DEF WatchInv, DogStartGoesOn
<1> QED  BY <1>1, <1>2, <1>3, <1>4, <1>5, <1>6, <1>7 DEF WatchdogNext, DogStep

LEMMA WatchInitInv == WatchdogInit => WatchInv
BY DEF WatchdogInit, WatchInv

\* Whatever the operator, the services and the clock do while the watchdog
\* goes through its list, start() is not called for a disabled service, nor
\* before the back-off is over: watchdog.py:170-190.
THEOREM RestartsPatientlyAlways == WatchdogSpec => RestartsPatiently
<1>1. WatchInv /\ [WatchdogNext]_watchVars
        => [dog = "call" /\ dog' = "called" => aim \notin waiting \cup disabled]_watchVars
  BY DEF WatchInv
<1> QED  BY WatchInitInv, WatchStep, <1>1, PTL DEF WatchdogSpec, RestartsPatiently

\* To the service manager the watchdog is a caller like any other: each of its
\* steps is one of start()'s or none.
LEMMA WatchdogIsCaller == WatchInv /\ [WatchdogNext]_watchVars => [Next]_vars
<1> SUFFICES ASSUME WatchInv, [WatchdogNext]_watchVars PROVE [Next]_vars
  OBVIOUS
<1> USE WatchdogAssumption
<1>1. CASE Others
  BY <1>1 DEF Others, OperatorCalls, Next, Calls
<1>2. CASE DogCalls
  BY <1>2 DEF DogCalls, DogMoves, WatchInv, Next, Calls
<1>3. CASE DogStartGoesOn
  BY <1>3 DEF DogStartGoesOn, Next, Calls, CallGoesOn
<1>4. CASE DogStarts \/ DogStops \/ UNCHANGED watchVars
           \/ \E n \in Services : OnServiceRegistered(n) \/ BackoffEnds(n)
  BY <1>4 DEF DogStarts, DogStops, OnServiceRegistered, BackoffEnds, watchVars
<1>5. CASE \/ DogLoops \/ DogWakes \/ DogReports \/ DogPublishes \/ DogTests \/ DogRefused \/ DogCycleEnds
           \/ \E n \in Services : DogReads(n) \/ DogTurns(n)
  BY <1>5 DEF DogLoops, DogWakes, DogReports, DogPublishes, DogTests, DogRefused, DogCycleEnds,
              DogReads, DogTurns
<1> QED  BY <1>1, <1>2, <1>3, <1>4, <1>5 DEF WatchdogNext, DogStep

\* The composition with the watchdog implements the service manager, so what
\* is proved of that for any callers holds under the watchdog's restarts:
\* watchdog.py:142-190 with services/__init__.py:116-176.
THEOREM WatchdogImplementsManager == WatchdogSpec => Spec
<1>1. WatchdogInit => Init  BY DEF WatchdogInit
<1> QED  BY <1>1, WatchInitInv, WatchStep, WatchdogIsCaller, PTL DEF WatchdogSpec, Spec

-----------------------------------------------------------------------------
(* The watchdog's own state.                                               *)

\* The watchdog only turns to services it has been told of; a service is disabled
\* exactly when its failures have reached the bound, and it is not turned to after.
DogInv ==
  /\ watching \in BOOLEAN
  /\ dog \in {"off", "top", "asleep", "read", "report", "restart", "test", "call", "called",
             "dead"}
  /\ known \subseteq Services
  /\ toRead \subseteq known /\ degraded \subseteq known
  /\ disabled \subseteq known /\ waiting \subseteq known
  /\ failures \in [Services -> 0..MaxFailures]
  /\ \A n \in Services : n \in disabled <=> failures[n] = MaxFailures
  /\ aim \in Services \cup {NoService}
  /\ dog \in {"test", "call", "called"} => aim \in known \ disabled

LEMMA DogInitInv == WatchdogInit => DogInv
<1> SUFFICES ASSUME WatchdogInit PROVE DogInv
  OBVIOUS
<1>1. 0 \in 0..MaxFailures /\ 0 # MaxFailures
  BY WatchdogAssumption
<1>2. failures \in [Services -> 0..MaxFailures] /\ \A n \in Services : failures[n] = 0
  BY <1>1 DEF WatchdogInit
<1> QED  BY <1>1, <1>2 DEF WatchdogInit, DogInv

\* The failure that reaches the bound disables the service.
LEMMA FailureDisables ==
  ASSUME DogInv, NEW n \in known, n \notin disabled, RecordFailure(n)
  PROVE  /\ failures' \in [Services -> 0..MaxFailures]
         /\ disabled' \subseteq known /\ waiting' \subseteq known
         /\ \A m \in Services : m \in disabled' <=> failures'[m] = MaxFailures
<1>1. n \in Services /\ failures[n] \in 0..MaxFailures /\ failures[n] # MaxFailures
  BY DEF DogInv
<1>2. failures[n] + 1 \in 0..MaxFailures /\ MaxFailures \in Nat
  BY <1>1, WatchdogAssumption
<1>3. /\ failures' = [failures EXCEPT ![n] = failures[n] + 1]
      /\ disabled' = IF failures[n] + 1 >= MaxFailures THEN disabled \cup {n} ELSE disabled
      /\ waiting' = waiting \cup {n}
  BY DEF RecordFailure
<1>4. failures' \in [Services -> 0..MaxFailures] /\ failures'[n] = failures[n] + 1
  BY <1>1, <1>2, <1>3 DEF DogInv
<1>5. ASSUME NEW m \in Services PROVE m \in disabled' <=> failures'[m] = MaxFailures
  <2>1. CASE m = n
    <3>1. CASE failures[n] + 1 >= MaxFailures
      <4>1. m \in disabled'  BY <1>3, <2>1, <3>1
      <4>2. failures'[m] = MaxFailures  BY <1>2, <1>4, <2>1, <3>1
      <4> QED  BY <4>1, <4>2
    <3>2. CASE ~ (failures[n] + 1 >= MaxFailures)
      <4>1. m \notin disabled'  BY <1>3, <2>1, <3>2
      <4>2. failures'[m] # MaxFailures  BY <1>2, <1>4, <2>1, <3>2
      <4> QED  BY <4>1, <4>2
    <3> QED  BY <3>1, <3>2
  <2>2. CASE m # n
    <3>1. failures'[m] = failures[m]  BY <1>1, <1>3, <2>2 DEF DogInv
    <3>2. m \in disabled' <=> m \in disabled  BY <1>3, <2>2
    <3> QED  BY <3>1, <3>2 DEF DogInv
  <2> QED  BY <2>1, <2>2
<1> QED  BY <1>3, <1>4, <1>5 DEF DogInv

LEMMA DogStepInv == DogInv /\ [WatchdogNext]_watchVars => DogInv'
<1> SUFFICES ASSUME DogInv, [WatchdogNext]_watchVars PROVE DogInv'
  OBVIOUS
<1>1. CASE Others \/ UNCHANGED watchVars
  BY <1>1 DEF DogInv, Others, watchVars, dogVars
<1>2. CASE DogStarts \/ DogStops \/ \E n \in Services : OnServiceRegistered(n) \/ BackoffEnds(n)
  BY <1>2 DEF DogInv, DogStarts, DogStops, OnServiceRegistered, BackoffEnds
<1>3. CASE DogLoops \/ DogWakes \/ DogReports \/ DogCalls \/ DogCycleEnds
  BY <1>3 DEF DogInv, DogLoops, DogWakes, DogReports, DogCalls, DogCycleEnds, DogMoves
<1>9. CASE DogPublishes
  BY <1>9 DEF DogInv, DogPublishes
<1>4. CASE \E n \in Services : DogReads(n)
  BY <1>4 DEF DogInv, DogReads
<1>5. CASE \E n \in Services : DogTurns(n)
  BY <1>5 DEF DogInv, DogTurns, Restartable
<1>6. CASE DogTests
  BY <1>6 DEF DogInv, DogTests
<1>7. CASE DogRefused
  <2>1. aim \in known /\ aim \notin disabled /\ RecordFailure(aim)
    BY <1>7 DEF DogRefused, DogInv
  <2>2. /\ failures' \in [Services -> 0..MaxFailures]
        /\ disabled' \subseteq known /\ waiting' \subseteq known
        /\ \A m \in Services : m \in disabled' <=> failures'[m] = MaxFailures
    BY <2>1, FailureDisables
  <2> QED  BY <1>7, <2>2 DEF DogInv, DogRefused
<1>8. CASE DogStartGoesOn
  <2>1. aim \in known /\ aim \notin disabled
    BY <1>8 DEF DogStartGoesOn, DogInv
  <2>2. CASE RecordFailure(aim) /\ dog' = "restart" /\ aim' = NoService
    <3>1. /\ failures' \in [Services -> 0..MaxFailures]
          /\ disabled' \subseteq known /\ waiting' \subseteq known
          /\ \A m \in Services : m \in disabled' <=> failures'[m] = MaxFailures
      BY <2>1, <2>2, FailureDisables
    <3> QED  BY <1>8, <2>2, <3>1 DEF DogInv, DogStartGoesOn
  <2>3. CASE UNCHANGED <<failures, waiting, disabled>>
    BY <1>8, <2>3 DEF DogInv, DogStartGoesOn
  <2> QED  BY <1>8, <2>2, <2>3 DEF DogStartGoesOn
<1> QED  BY <1>1, <1>2, <1>3, <1>4, <1>5, <1>6, <1>7, <1>8, <1>9 DEF WatchdogNext, DogStep

\* The count of a service's failures never passes max_failures, and the watchdog
\* only ever works on services it has been told of: watchdog.py:43-48, 142-198.
THEOREM WatchdogTypeCorrect == WatchdogSpec => []WatchdogTypeOK
<1>1. DogInv /\ TypeOK => WatchdogTypeOK
  BY DEF DogInv, WatchdogTypeOK
<1> QED  BY <1>1, DogInitInv, DogStepInv, WatchdogImplementsManager, TypeCorrect, PTL
         DEF WatchdogSpec
=============================================================================
