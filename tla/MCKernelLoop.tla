---------------------------- MODULE MCKernelLoop ----------------------------
(* Instances of KernelLoop for TLC, in two settings: the scheduler by      *)
(* itself, ticked again and again, with several tasks and jobs; or the     *)
(* whole loop, with one event type beside SHUTDOWN and less work.          *)
EXTENDS KernelLoop, TLC

CONSTANTS
  c1, t1,
  Settings,       \* the values of bare the run covers
  BareWork,       \* bound: tasks and jobs together, the scheduler by itself
  LoopCallables, LoopIntervals, LoopPriorities,   \* what is used in the loop
  LoopTasks, LoopEntries, LoopClock               \* bounds in the loop

VARIABLE bare     \* the scheduler is by itself

Wired == Shutdown :> <<c1, OnShutdown>> @@ t1 :> <<c1>>

mcVars == <<loopVars, bare>>

MCInit == LoopInit /\ bare \in Settings

Setting ==
  IF bare THEN taskCount + scheduled <= BareWork
  ELSE /\ taskCount <= LoopTasks /\ scheduled <= LoopEntries /\ clock <= LoopClock
       /\ \A t \in tasks : t.priority \in LoopPriorities
       /\ \A e \in entries : e.interval \in LoopIntervals /\ e.job \in LoopCallables

Alone == bare /\ UNCHANGED <<busVars, tickerVars, at, stopping>>

MCNext ==
  /\ \/ Alone /\ SchedNext
     \/ ~ bare /\ LoopNext
  /\ UNCHANGED bare
  /\ Setting'

\* The fairness of SchedFairSpec, and that of LoopFairSpec.
MCSpec ==
  /\ MCInit /\ [][MCNext]_mcVars
  /\ WF_schedVars(bare /\ TickStep)
  /\ WF_loopVars(~ bare /\ LoopStep)
  /\ WF_loopVars(~ bare /\ Calls /\ \/ Publish(Loop) \/ PublishEnds(Loop))
  /\ \A t \in Publishers :
       WF_loopVars(~ bare /\ Others /\ (Publish(t) \/ PublishEnds(t)))

\* Every task submitted is run, the loop ticking for ever: one that a running task
\* submits, one that waits behind a more urgent one, and one that follows a task
\* that raised: scheduler.py:98-107.
EveryTaskRuns == bare => TasksRun
=============================================================================
