----------------------------- MODULE KernelLoop -----------------------------
(***************************************************************************)
(* kernel/loop.py: the kernel loop, which composes the event bus, the      *)
(* scheduler and the adaptive tick.                                        *)
(*                                                                         *)
(* One thread runs the loop: check the stop flag, drain the bus, advance   *)
(* the scheduler, pulse AURA and choose the interval, sleep.  Callbacks,   *)
(* tasks and jobs run in that thread and may publish, submit and schedule; *)
(* other threads publish and call stop() whenever they like.               *)
(***************************************************************************)
EXTENDS EventBus, Scheduler, AdaptiveTick

CONSTANTS
  Shutdown,     \* the event type SHUTDOWN
  OnShutdown    \* the callback KernelLoop._on_shutdown

ASSUME KernelLoopAssumption ==
  \E i \in DOMAIN Subscribed[Shutdown] : Subscribed[Shutdown][i] = OnShutdown

VARIABLES
  at,        \* where the loop's thread is
  stopping   \* KernelLoop._stopping

loopVars == <<busVars, schedVars, tickerVars, at, stopping>>

LoopTypeOK ==
  /\ at \in {"boot", "check", "drain", "tick", "pulse", "sleep", "stopped", "dead"}
  /\ stopping \in BOOLEAN
  /\ TickerTypeOK

LoopInit ==
  /\ Init /\ SchedInit /\ TickerInit
  /\ at = "boot" /\ stopping = FALSE

\* The loop's thread is inside code that may call the bus or the scheduler.
InCallback == at = "drain" /\ mode = "deliver" /\ todo # <<>>
InWork     == at = "tick" /\ step \in {"task", "job"}
MayCall    == at = "boot" \/ InCallback \/ InWork

\* run() is entered.
Run ==
  /\ at = "boot" /\ Free(Loop)
  /\ at' = "check"
  /\ UNCHANGED <<busVars, schedVars, tickerVars, stopping>>

\* while not self._stopping: begin a tick with drain().
BeginTick ==
  /\ at = "check" /\ ~ stopping
  /\ at' = "drain"
  /\ DrainBegins
  /\ UNCHANGED <<schedVars, tickerVars, stopping>>

Exit ==
  /\ at = "check" /\ stopping
  /\ at' = "stopped"
  /\ UNCHANGED <<busVars, schedVars, tickerVars, stopping>>

\* A fault: the stop flag is what the last callback made it.
Heard_LastOnly == IF mode = "deliver" /\ todo # <<>>
                    THEN Head(todo) = OnShutdown ELSE stopping

\* _on_shutdown sets the stop flag.
Heard == stopping \/ (mode = "deliver" /\ todo # <<>> /\ Head(todo) = OnShutdown)

\* drain(): an exception out of heappop ends the thread.
Drain ==
  /\ at = "drain"
  /\ DrainStep
  /\ at' = CASE mode' = "out" -> "tick" [] mode' = "dead" -> "dead" [] OTHER -> at
  /\ stopping' = Heard
  /\ UNCHANGED <<schedVars, tickerVars>>

\* scheduler.tick(): so does a TypeError out of the job heap.
Tick ==
  /\ at = "tick" /\ Free(Loop)
  /\ TickStep
  /\ at' = IF step' = "dead" THEN "dead"
           ELSE IF step' = "out" /\ step = "jobs" THEN "pulse" ELSE at
  /\ UNCHANGED <<busVars, tickerVars, stopping>>

\* A fault: only events count as activity.
Busy_EventsOnly == count > 0

\* events_dispatched or tasks_ran
Busy == count > 0 \/ ran

\* The state snapshot, AURA's pulse, and the next interval.
Pulse ==
  /\ at = "pulse"
  /\ at' = "sleep"
  /\ IF Busy THEN MarkBusy ELSE MarkIdle
  /\ UNCHANGED <<busVars, schedVars, stopping>>

\* time.sleep returns.
Wake ==
  /\ at = "sleep"
  /\ at' = "check"
  /\ UNCHANGED <<busVars, schedVars, tickerVars, stopping>>

\* stop(), from any thread.
Stop ==
  /\ ~ stopping
  /\ stopping' = TRUE
  /\ UNCHANGED <<busVars, schedVars, tickerVars, at>>

\* What runs in the loop's thread publishes, submits and schedules.
Calls ==
  /\ MayCall
  /\ \/ ThreadStep(Loop) /\ UNCHANGED schedVars
     \/ /\ Free(Loop)
        /\ \/ \E p \in TaskPriorities : SubmitTask(p)
           \/ \E c \in Callables, ms \in Intervals : ScheduleJob(c, ms)
        /\ UNCHANGED busVars
  /\ UNCHANGED <<tickerVars, at, stopping>>

Others ==
  /\ \E t \in Publishers : ThreadStep(t)
  /\ UNCHANGED <<schedVars, tickerVars, at, stopping>>

Time ==
  /\ Advance
  /\ UNCHANGED <<busVars, tickerVars, at, stopping>>

LoopStep == Run \/ BeginTick \/ Exit \/ Drain \/ Tick \/ Pulse \/ Wake
LoopNext == LoopStep \/ Stop \/ Calls \/ Others \/ Time

LoopSpec == LoopInit /\ [][LoopNext]_loopVars

\* The loop's thread is scheduled, callbacks, tasks and jobs return, sleeps end;
\* a publish that has begun goes on, here and in other threads.
LoopFairSpec ==
  /\ LoopSpec
  /\ WF_loopVars(LoopStep)
  /\ WF_loopVars(Calls /\ \/ Publish(Loop) \/ PublishEnds(Loop))
  /\ \A t \in Publishers : WF_loopVars(Others /\ (Publish(t) \/ PublishEnds(t)))

-----------------------------------------------------------------------------
(* Properties.                                                             *)

\* A tick that dispatched an event or completed a task or job is followed by the
\* base interval; the interval is within its limits whatever happens.
ResponsiveAfterWork ==
  /\ at = "sleep" /\ (count > 0 \/ ran) => interval = BaseMs
  /\ IntervalBounded

\* A stop request is final: the loop takes up no further tick.
StopIsFinal ==
  [][stopping => stopping' /\ (at' = "drain" => at = "drain")]_loopVars

\* "The loop runs until stop() is called (e.g. by a SHUTDOWN event)": it then
\* stops, and a SHUTDOWN in the queue is such a call. A loop that died has
\* stopped too.
Halted == at \in {"stopped", "dead"}
StopHeeded ==
  (stopping \/ \E e \in heap : kind[e] = Shutdown) /\ at # "boot" ~> Halted

\* class KernelLoop: "Runs continuously until stop() is called."
RunsUntilStopped == at = "dead" => stopping
=============================================================================
