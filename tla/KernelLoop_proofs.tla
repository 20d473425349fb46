-------------------------- MODULE KernelLoop_proofs -------------------------
(***************************************************************************)
(* Proofs about KernelLoop and the modules it is composed of, for every    *)
(* base and maximum interval, factor, set of threads, callbacks, events,   *)
(* tasks and jobs: the adaptive tick's limits, its answer to work and the  *)
(* finality of a stop request; the scheduler's jobs; the bus's events; and *)
(* that the loop implements bus and scheduler.                             *)
(***************************************************************************)
EXTENDS KernelLoop, FiniteSetTheorems, SequenceTheorems, TLAPS

\* The loop's inductive invariant: what ResponsiveAfterWork says needs only the types.
IInv == LoopTypeOK /\ ResponsiveAfterWork

\* A factor of at least one never makes an interval shorter.
LEMMA FactorStretches ==
  ASSUME NEW i \in Nat, NEW f \in Nat \ {0} PROVE i <= i * f /\ i * f \in Nat
BY SMT

\* AdaptiveTick: both ways to mark a tick keep the interval within its limits, and
\* only mark_busy may shorten it.
LEMMA TickerStep ==
  ASSUME TickerTypeOK, IntervalBounded, TickerNext
  PROVE  /\ TickerTypeOK' /\ IntervalBounded'
         /\ interval' < interval => interval' = BaseMs /\ idle' = 0
<1>1. interval <= interval * Factor /\ interval * Factor \in Nat
  BY FactorStretches, AdaptiveTickAssumption DEF TickerTypeOK
<1>2. CASE MarkBusy
  BY <1>2, AdaptiveTickAssumption DEF MarkBusy, TickerTypeOK, IntervalBounded
<1>3. CASE MarkIdle
  <2>1. idle' \in 0..IdleCap /\ (idle' <= 3 => idle <= 2)
    BY <1>3, AdaptiveTickAssumption DEF MarkIdle, Smaller, TickerTypeOK
  <2>2. CASE idle + 1 > 3
    <3> DEFINE stretched == interval * Factor
    <3>1. interval <= stretched /\ stretched \in Nat
      BY <1>1
    <3>2. interval' = Smaller(stretched, MaxMs)
      BY <1>3, <2>2 DEF MarkIdle
    <3>3. interval' \in Nat /\ interval <= interval' /\ interval' <= MaxMs
      <4> HIDE DEF stretched
      <4> QED  BY <3>1, <3>2, AdaptiveTickAssumption
                  DEF Smaller, TickerTypeOK, IntervalBounded
    <3> QED  BY <2>1, <2>2, <3>3, AdaptiveTickAssumption
                DEF TickerTypeOK, IntervalBounded
  <2>3. CASE ~ (idle + 1 > 3)
    <3>1. interval' = interval
      BY <1>3, <2>3 DEF MarkIdle
    <3> QED  BY <2>1, <2>3, <3>1 DEF TickerTypeOK, IntervalBounded
  <2> QED  BY <2>2, <2>3
<1> QED  BY <1>2, <1>3 DEF TickerNext

-----------------------------------------------------------------------------
LEMMA InitInv == LoopInit => IInv
<1> SUFFICES ASSUME LoopInit PROVE IInv
  OBVIOUS
<1>1. at = "boot" /\ stopping = FALSE /\ interval = BaseMs /\ idle = 0
  BY DEF LoopInit, TickerInit
<1>2. LoopTypeOK
  <2>1. stopping \in BOOLEAN
    BY <1>1
  <2>2. TickerTypeOK
    BY <1>1, AdaptiveTickAssumption DEF TickerTypeOK
  <2> QED  BY <1>1, <2>1, <2>2 DEF LoopTypeOK
<1>3. ResponsiveAfterWork
  BY <1>1, AdaptiveTickAssumption DEF ResponsiveAfterWork, IntervalBounded
<1> QED  BY <1>2, <1>3 DEF IInv

\* Only Pulse touches the ticker, and it does what the ticker does.
LEMMA PulseOnly ==
  LoopNext => (TickerNext /\ at = "pulse") \/ UNCHANGED tickerVars
<1>1. LoopStep => (TickerNext /\ at = "pulse") \/ UNCHANGED tickerVars
  BY DEF LoopStep, Run, BeginTick, Exit, Drain, Tick, Pulse, Wake, TickerNext
<1> QED  BY <1>1 DEF LoopNext, Stop, Calls, Others, Time

LEMMA StepInv == IInv /\ [LoopNext]_loopVars => IInv'
<1> SUFFICES ASSUME IInv, [LoopNext]_loopVars PROVE IInv'
  OBVIOUS
<1>1. TickerTypeOK /\ IntervalBounded
  BY DEF IInv, LoopTypeOK, ResponsiveAfterWork
<1>2. TickerTypeOK' /\ IntervalBounded'
  <2>1. CASE TickerNext
    BY <1>1, <2>1, TickerStep
  <2>2. CASE UNCHANGED tickerVars
    BY <1>1, <2>2 DEF tickerVars, TickerTypeOK, IntervalBounded
  <2> QED  BY <2>1, <2>2, PulseOnly DEF loopVars
<1>3. /\ at' \in {"boot", "check", "drain", "tick", "pulse", "sleep",
                  "stopped", "dead"}
      /\ stopping' \in BOOLEAN
  <2>1. CASE LoopStep
    BY <2>1 DEF LoopStep, Run, BeginTick, Exit, Drain, Tick, Pulse, Wake,
                Heard, IInv, LoopTypeOK
  <2>2. CASE Stop \/ Calls \/ Others \/ Time \/ UNCHANGED loopVars
    BY <2>2 DEF Stop, Calls, Others, Time, loopVars, IInv, LoopTypeOK
  <2> QED  BY <2>1, <2>2 DEF LoopNext
<1>4. at' = "sleep" /\ (count' > 0 \/ ran') => interval' = BaseMs
  <2> SUFFICES ASSUME at' = "sleep", count' > 0 \/ ran' PROVE interval' = BaseMs
    OBVIOUS
  <2>1. CASE Pulse
    BY <2>1 DEF Pulse, Busy, MarkBusy, busVars, schedVars, tickVars
  <2>2. CASE Others
    BY <2>2 DEF Others, ThreadStep, Construct, Publish, PublishEnds, schedVars,
                tickVars, tickerVars, IInv, ResponsiveAfterWork
  <2>3. CASE Time
    BY <2>3 DEF Time, Advance, busVars, tickVars, tickerVars, IInv,
                ResponsiveAfterWork
  <2>4. CASE Stop \/ UNCHANGED loopVars
    BY <2>4 DEF Stop, busVars, schedVars, tickVars, tickerVars, loopVars, IInv,
                ResponsiveAfterWork
  <2>5. ~ Calls
    BY DEF Calls, MayCall, InCallback, InWork
  <2>6. ~ (Run \/ BeginTick \/ Exit \/ Drain \/ Tick \/ Wake)
    BY DEF Run, BeginTick, Exit, Drain, Tick, Wake
  <2> QED  BY <2>1, <2>2, <2>3, <2>4, <2>5, <2>6 DEF LoopNext, LoopStep
<1> QED  BY <1>2, <1>3, <1>4 DEF IInv, LoopTypeOK, ResponsiveAfterWork

\* The loop's invariant holds in every state of the running loop.
THEOREM InvariantHolds == LoopSpec => []IInv
BY InitInv, StepInv, PTL DEF LoopSpec

\* The loop's place, its stop flag and its ticker keep their types.
THEOREM LoopTypeCorrect == LoopSpec => []LoopTypeOK
<1>1. IInv => LoopTypeOK
  BY DEF IInv
<1> QED  BY <1>1, InvariantHolds, PTL

\* A tick that dispatched an event or completed a task or job is followed by the
\* base interval, and the interval always lies between base and maximum and has
\* left the base only after the grace period, whatever their values.
THEOREM ResponsiveAlways == LoopSpec => []ResponsiveAfterWork
<1>1. IInv => ResponsiveAfterWork
  BY DEF IInv
<1> QED  BY <1>1, InvariantHolds, PTL

ShortensOnlyToBase == interval' < interval => interval' = BaseMs /\ idle' = 0

\* Idle ticks never shorten the interval, not even with a factor of one or a
\* maximum equal to the base; a busy one returns it to the base at once.
THEOREM OnlyBusyShortensAlways == LoopSpec => OnlyBusyShortens
<1>1. IInv /\ [LoopNext]_loopVars => [ShortensOnlyToBase]_tickerVars
  <2> SUFFICES ASSUME IInv, [LoopNext]_loopVars
               PROVE  ShortensOnlyToBase \/ UNCHANGED tickerVars
    OBVIOUS
  <2>1. CASE TickerNext
    BY <2>1, TickerStep
       DEF ShortensOnlyToBase, IInv, LoopTypeOK, ResponsiveAfterWork
  <2> QED  BY <2>1, PulseOnly DEF loopVars
<1> QED  BY <1>1, InvariantHolds, PTL
            DEF LoopSpec, OnlyBusyShortens, ShortensOnlyToBase

StaysStopping == stopping => stopping' /\ (at' = "drain" => at = "drain")

\* Nothing takes a stop request back, and the loop begins no further tick.
THEOREM StopIsFinalAlways == LoopSpec => StopIsFinal
<1>1. [LoopNext]_loopVars => [StaysStopping]_loopVars
  <2> SUFFICES ASSUME LoopNext, stopping
               PROVE  stopping' /\ (at' = "drain" => at = "drain")
    BY DEF StaysStopping
  <2>1. CASE LoopStep
    BY <2>1 DEF LoopStep, Run, BeginTick, Exit, Drain, Tick, Pulse, Wake, Heard
  <2>2. CASE Stop \/ Calls \/ Others \/ Time
    BY <2>2 DEF Stop, Calls, Others, Time
  <2> QED  BY <2>1, <2>2 DEF LoopNext
<1> QED  BY <1>1, PTL DEF LoopSpec, StopIsFinal, StaysStopping

-----------------------------------------------------------------------------
(* The scheduler: what the job queue holds.                                *)

\* The entry being run is nobody else's.
RunsAlone ==
  step = "job" =>
    /\ inHand \in EntrySet /\ inHand.id <= scheduled
    /\ lastRun[inHand.id] = now
    /\ \A e \in entries : e.id # inHand.id

\* The job queue: entries are numbered as they were scheduled, one of each number,
\* and one that has run before is due no earlier than an interval after that.
QueueOK ==
  /\ \A e \in entries : e.id <= scheduled
  /\ \A e, f \in entries : e.id = f.id => e = f
  /\ \A e \in entries : lastRun[e.id] >= 0 => lastRun[e.id] + e.interval <= e.next
  /\ \A i \in 1..MaxEntries : i > scheduled => lastRun[i] = -1

\* The scheduler's inductive invariant.
SchedInv == SchedTypeOK /\ RunsAlone /\ QueueOK /\ StaysScheduled

-----------------------------------------------------------------------------
LEMMA SchedInitInv == SchedInit => SchedInv
<1> SUFFICES ASSUME SchedInit PROVE SchedInv
  OBVIOUS
<1>1. SchedTypeOK
  <2>1. -1 \in Int /\ lastRun = [i \in 1..MaxEntries |-> -1]
    BY DEF SchedInit
  <2>2. lastRun \in [1..MaxEntries -> Int]
    BY <2>1, Zenon
  <2>3. 0 \in 0..MaxClock /\ 0 \in 0..MaxTasks /\ 0 \in 0..MaxEntries
    BY SchedulerAssumption
  <2> QED  BY <2>2, <2>3 DEF SchedInit, SchedTypeOK
<1>2. RunsAlone /\ QueueOK /\ StaysScheduled
  BY SchedulerAssumption DEF SchedInit, RunsAlone, QueueOK, StaysScheduled
<1> QED  BY <1>1, <1>2 DEF SchedInv

\* Steps that leave the job queue, the entry in hand and the readings alone.
LEMMA QuietStep ==
  ASSUME SchedInv, SchedTypeOK', step' # "job" \/ UNCHANGED <<step, inHand, now>>,
         step = "job" => step' = "job", step = "dead" => step' = "dead",
         UNCHANGED <<entries, scheduled, lastRun>>
  PROVE  SchedInv'
BY DEF SchedInv, RunsAlone, QueueOK, StaysScheduled

LEMMA ScheduleJobInv ==
  ASSUME SchedInv, NEW c \in Callables, NEW ms \in Intervals, ScheduleJob(c, ms)
  PROVE  SchedInv'
<1> DEFINE new == [id |-> scheduled + 1, next |-> clock + ms, interval |-> ms,
                   job |-> c]
<1>1. new \in EntrySet /\ new.id = scheduled + 1
  BY SchedulerAssumption DEF ScheduleJob, SchedInv, SchedTypeOK, EntrySet
<1>2. /\ entries' = entries \cup {new} /\ scheduled' = scheduled + 1
      /\ step \in {"out", "task", "job"}
      /\ UNCHANGED <<clock, taskCount, tasks, step, now, inHand, ran, lastRun>>
  BY DEF ScheduleJob, tickVars
<1>3. scheduled \in 0..MaxEntries /\ scheduled + 1 \in 1..MaxEntries
  BY SchedulerAssumption DEF ScheduleJob, SchedInv, SchedTypeOK
<1> HIDE DEF new
<1>4. \A e \in entries : e.id \in 1..MaxEntries /\ e.id <= scheduled
  BY DEF SchedInv, SchedTypeOK, QueueOK, EntrySet
<1>5. lastRun[scheduled + 1] = -1
  BY <1>3 DEF SchedInv, QueueOK
<1>6. SchedTypeOK'
  BY <1>1, <1>2, <1>3 DEF SchedInv, SchedTypeOK
<1>7. RunsAlone'
  <2> SUFFICES ASSUME step = "job" PROVE RunsAlone'
    BY <1>2 DEF RunsAlone
  <2>1. inHand \in EntrySet /\ inHand.id <= scheduled /\ inHand.id \in 1..MaxEntries
    BY DEF SchedInv, RunsAlone, EntrySet
  <2> QED  BY <1>1, <1>2, <1>3, <2>1 DEF SchedInv, RunsAlone
<1>8. QueueOK'
  <2>1. \A e \in entries' : e.id <= scheduled'
    BY <1>1, <1>2, <1>3, <1>4
  <2>2. \A e, f \in entries' : e.id = f.id => e = f
    BY <1>1, <1>2, <1>3, <1>4 DEF SchedInv, QueueOK
  <2>3. \A e \in entries' : lastRun'[e.id] >= 0
                              => lastRun'[e.id] + e.interval <= e.next
    BY <1>1, <1>2, <1>5 DEF SchedInv, QueueOK
  <2>4. \A i \in 1..MaxEntries : i > scheduled' => lastRun'[i] = -1
    BY <1>2, <1>3 DEF SchedInv, QueueOK
  <2> QED  BY <2>1, <2>2, <2>3, <2>4 DEF QueueOK
<1>9. StaysScheduled'
  <2> SUFFICES ASSUME NEW i \in 1..(scheduled + 1)
               PROVE  \/ step = "job" /\ inHand.id = i
                      \/ \E e \in entries' : e.id = i
    BY <1>2 DEF StaysScheduled
  <2>1. CASE i = scheduled + 1
    BY <1>1, <1>2, <2>1
  <2>2. CASE i # scheduled + 1
    BY <1>2, <1>3, <2>2 DEF SchedInv, StaysScheduled
  <2> QED  BY <2>1, <2>2
<1> QED  BY <1>6, <1>7, <1>8, <1>9 DEF SchedInv

LEMMA PopJobInv == ASSUME SchedInv, PopJob PROVE SchedInv'
<1>1. PICK e \in Roots(entries) :
        /\ DueNow(e)
        /\ entries' = entries \ {e}
        /\ inHand' = e
        /\ IF RestTies(entries')
             THEN step' = "dead" /\ UNCHANGED lastRun
             ELSE /\ step' = "job"
                  /\ lastRun' = [lastRun EXCEPT ![e.id] = now]
  BY DEF PopJob
<1>2. step = "jobs" /\ UNCHANGED <<clock, taskCount, tasks, scheduled, now, ran>>
  BY DEF PopJob
<1>3. /\ e \in entries /\ e \in EntrySet /\ e.id \in 1..MaxEntries
      /\ e.id <= scheduled
  BY DEF Roots, SchedInv, SchedTypeOK, EntrySet, QueueOK
<1>4. /\ lastRun \in [1..MaxEntries -> Int] /\ now \in 0..MaxClock
      /\ scheduled \in 0..MaxEntries
      /\ \A f \in entries : f \in EntrySet /\ f.id \in 1..MaxEntries
  BY DEF SchedInv, SchedTypeOK, EntrySet
<1>5. SchedTypeOK'
  BY <1>1, <1>2, <1>3, <1>4, SchedulerAssumption DEF SchedInv, SchedTypeOK
<1>6. \A f \in entries' : f \in entries /\ f.id # e.id
  BY <1>1, <1>3 DEF SchedInv, QueueOK
<1>7. CASE step' = "dead"
  <2>1. UNCHANGED <<scheduled, lastRun>>
    BY <1>1, <1>2, <1>7
  <2> QED  BY <1>5, <1>6, <1>7, <2>1
              DEF SchedInv, RunsAlone, QueueOK, StaysScheduled
<1>8. CASE step' = "job" /\ lastRun' = [lastRun EXCEPT ![e.id] = now]
  <2>1. RunsAlone'
    BY <1>1, <1>2, <1>3, <1>4, <1>6, <1>8 DEF RunsAlone
  <2>2. QueueOK'
    <3>1. \A f \in entries' : lastRun'[f.id] = lastRun[f.id]
      BY <1>4, <1>6, <1>8
    <3>2. \A i \in 1..MaxEntries : i > scheduled => lastRun'[i] = lastRun[i]
      BY <1>3, <1>4, <1>8
    <3> QED  BY <1>2, <1>6, <3>1, <3>2 DEF SchedInv, QueueOK
  <2>3. StaysScheduled'
    <3> SUFFICES ASSUME NEW i \in 1..scheduled
                 PROVE  e.id = i \/ \E f \in entries' : f.id = i
      BY <1>1, <1>2, <1>8 DEF StaysScheduled
    <3>1. PICK f \in entries : f.id = i
      BY <1>2 DEF SchedInv, StaysScheduled
    <3> QED  BY <1>1, <3>1
  <2> QED  BY <1>5, <2>1, <2>2, <2>3 DEF SchedInv
<1> QED  BY <1>1, <1>7, <1>8

LEMMA JobEndsInv == ASSUME SchedInv, JobEnds PROVE SchedInv'
<1> DEFINE again == [inHand EXCEPT !.next = now + inHand.interval]
<1>1. /\ step = "job" /\ inHand' = Nothing /\ entries' = entries \cup {again}
      /\ step' \in {"dead", "jobs"} /\ ran' \in BOOLEAN
      /\ UNCHANGED <<clock, taskCount, tasks, scheduled, now, lastRun>>
  BY DEF JobEnds, Rescheduled, NextRun, SchedInv, SchedTypeOK
<1>2. /\ inHand \in EntrySet /\ inHand.id <= scheduled
      /\ lastRun[inHand.id] = now
      /\ \A e \in entries : e.id # inHand.id
      /\ now \in Nat
  BY <1>1, SchedulerAssumption DEF SchedInv, RunsAlone, SchedTypeOK
<1>3. /\ again \in EntrySet /\ again.id = inHand.id
      /\ again.interval = inHand.interval
      /\ again.next = now + inHand.interval
  BY <1>2, SchedulerAssumption DEF EntrySet
<1> HIDE DEF again
<1>4. SchedTypeOK'
  BY <1>1, <1>3 DEF SchedInv, SchedTypeOK
<1>5. RunsAlone'
  BY <1>1 DEF RunsAlone
<1>6. QueueOK'
  <2>1. \A e \in entries' : e.id <= scheduled
    BY <1>1, <1>2, <1>3 DEF SchedInv, QueueOK
  <2>2. \A e, f \in entries' : e.id = f.id => e = f
    BY <1>1, <1>2, <1>3 DEF SchedInv, QueueOK
  <2>3. lastRun[again.id] + again.interval <= again.next
    BY <1>2, <1>3, SchedulerAssumption DEF EntrySet
  <2>4. \A e \in entries' : lastRun[e.id] >= 0
                              => lastRun[e.id] + e.interval <= e.next
    BY <1>1, <2>3 DEF SchedInv, QueueOK
  <2> QED  BY <1>1, <2>1, <2>2, <2>4 DEF SchedInv, QueueOK
<1>7. StaysScheduled'
  BY <1>1, <1>3 DEF SchedInv, StaysScheduled
<1> QED  BY <1>4, <1>5, <1>6, <1>7 DEF SchedInv

LEMMA SchedStepInv == SchedInv /\ [SchedNext]_schedVars => SchedInv'
<1> SUFFICES ASSUME SchedInv, [SchedNext]_schedVars PROVE SchedInv'
  OBVIOUS
<1>1. ASSUME NEW p \in TaskPriorities, SubmitTask(p) PROVE SchedInv'
  <2>1. SchedTypeOK'
    BY <1>1, SchedulerAssumption
       DEF SubmitTask, SchedInv, SchedTypeOK, TaskSet, tickVars
  <2> QED  BY <1>1, <2>1, QuietStep DEF SubmitTask, tickVars
<1>2. CASE TickTask
  <2>1. SchedTypeOK'
    BY <1>2 DEF TickTask, SchedInv, SchedTypeOK
  <2> QED  BY <1>2, <2>1, QuietStep DEF TickTask
<1>3. CASE TaskEnds
  <2>1. SchedTypeOK'
    BY <1>3 DEF TaskEnds, SchedInv, SchedTypeOK
  <2> QED  BY <1>3, <2>1, QuietStep DEF TaskEnds
<1>4. CASE TickNoTask
  <2>1. SchedTypeOK'
    BY <1>4 DEF TickNoTask, SchedInv, SchedTypeOK
  <2> QED  BY <1>4, <2>1, QuietStep DEF TickNoTask
<1>5. CASE TickEnds
  <2>1. SchedTypeOK'
    BY <1>5 DEF TickEnds, SchedInv, SchedTypeOK
  <2> QED  BY <1>5, <2>1, QuietStep DEF TickEnds
<1>6. CASE Advance
  <2>1. SchedTypeOK'
    BY <1>6, SchedulerAssumption DEF Advance, SchedInv, SchedTypeOK, tickVars
  <2> QED  BY <1>6, <2>1, QuietStep DEF Advance, tickVars
<1>7. CASE UNCHANGED schedVars
  <2>1. SchedTypeOK'
    BY <1>7 DEF schedVars, SchedInv, SchedTypeOK
  <2> QED  BY <1>7, <2>1, QuietStep DEF schedVars
<1> QED  BY <1>1, <1>2, <1>3, <1>4, <1>5, <1>6, <1>7, PopJobInv, JobEndsInv,
            ScheduleJobInv DEF SchedNext, TickStep

\* The scheduler's invariant holds between and inside ticks, jobs that schedule
\* jobs included.
THEOREM SchedInvAlways == SchedSpec => []SchedInv
BY SchedInitInv, SchedStepInv, PTL DEF SchedSpec

\* The scheduler's queues, counters and clock readings keep their types.
THEOREM SchedTypeCorrect == SchedSpec => []SchedTypeOK
<1>1. SchedInv => SchedTypeOK
  BY DEF SchedInv
<1> QED  BY <1>1, SchedInvAlways, PTL

\* A periodic job stays scheduled whether it returns or raises, and whatever it and
\* other jobs schedule meanwhile, until a tie in the heap ends the loop.
THEOREM StaysScheduledAlways == SchedSpec => []StaysScheduled
<1>1. SchedInv => StaysScheduled
  BY DEF SchedInv
<1> QED  BY <1>1, SchedInvAlways, PTL

\* What Spaced says of one step.
RunsSpaced ==
  step = "jobs" /\ step' = "job" /\ lastRun[inHand'.id] >= 0 =>
    now - lastRun[inHand'.id] >= inHand'.interval

LEMMA StepSpaced == SchedInv /\ SchedNext => RunsSpaced
<1> SUFFICES ASSUME SchedInv, SchedNext, step = "jobs", step' = "job"
             PROVE  lastRun[inHand'.id] >= 0 =>
                      now - lastRun[inHand'.id] >= inHand'.interval
  BY DEF RunsSpaced
<1>1. PopJob
  BY DEF SchedNext, TickStep, TickTask, TaskEnds, TickNoTask, JobEnds, TickEnds,
         Advance, SubmitTask, ScheduleJob, tickVars
<1>2. PICK e \in entries : inHand' = e /\ e.next <= now
  BY <1>1 DEF PopJob, Roots, DueNow
<1>3. lastRun[e.id] >= 0 => lastRun[e.id] + e.interval <= e.next
  BY DEF SchedInv, QueueOK
<1>4. /\ lastRun[e.id] \in Int /\ e.interval \in Nat /\ e.next \in Nat
      /\ now \in Nat
  <2>1. /\ lastRun \in [1..MaxEntries -> Int] /\ now \in Nat
        /\ e \in EntrySet
    BY SchedulerAssumption DEF SchedInv, SchedTypeOK
  <2> QED  BY <2>1, SchedulerAssumption DEF EntrySet
<1> QED  BY <1>2, <1>3, <1>4

\* Two runs of a job are at least its interval apart: an entry that has run is due
\* no earlier than an interval after the reading of the clock it last ran at.
THEOREM SpacedAlways == SchedSpec => Spaced
<1>1. SchedInv /\ [SchedNext]_schedVars => [RunsSpaced]_schedVars
  BY StepSpaced
<1> QED  BY <1>1, SchedInvAlways, PTL DEF SchedSpec, Spaced, RunsSpaced

-----------------------------------------------------------------------------
(* The event bus: where each event is, and who has seen it.                *)

\* What is known of an event is kept in lists that grow with the counter.
Records ==
  /\ prio \in Seq(Priorities) /\ Len(prio) = counter
  /\ kind \in Seq(Types) /\ Len(kind) = counter
  /\ seen \in Seq(Seq(Callbacks)) /\ Len(seen) = counter
  /\ owed \in Seq(Seq(Callbacks)) /\ Len(owed) = counter

\* Where an event is: no two threads have built the same one, none has built the
\* one that heappop holds, and the one being delivered has been handed out.
InOnePlace ==
  /\ \A t, u \in Threads : built[t] # None /\ built[t] = built[u] => t = u
  /\ mode \in {"sift", "dead"} => cur \in Events /\ \A t \in Threads : built[t] # cur
  /\ mode = "deliver" => cur \in Given

\* An event that has not been handed out has been delivered to nobody.
Unseen == \A e \in Events \ Given : seen[e] = <<>>

\* The bus's inductive invariant.
BusInv == TypeOK /\ Records /\ InOnePlace /\ ExactlyOnce /\ Unseen /\ AllSubscribersServed

-----------------------------------------------------------------------------
LEMMA FirstsInHeap == Firsts \subseteq heap
BY DEF Firsts

LEMMA GivenGrows ==
  ASSUME taken \in Seq(Events), NEW e, taken' = Append(taken, e)
  PROVE  Given' = Given \cup {e} /\ Len(taken') = Len(taken) + 1
<1>1. Len(taken) \in Nat /\ DOMAIN taken = 1..Len(taken)
  OBVIOUS
<1>2. Len(taken') = Len(taken) + 1 /\ DOMAIN taken' = 1..(Len(taken) + 1)
  OBVIOUS
<1>3. taken'[Len(taken) + 1] = e /\ \A i \in 1..Len(taken) : taken'[i] = taken[i]
  OBVIOUS
<1>4. ASSUME NEW x \in Given' PROVE x \in Given \cup {e}
  <2>1. PICK i \in 1..(Len(taken) + 1) : x = taken'[i]
    BY <1>2 DEF Given
  <2>2. i = Len(taken) + 1 \/ i \in 1..Len(taken)
    BY <1>1
  <2> QED  BY <1>1, <1>3, <2>1, <2>2 DEF Given
<1>5. Given \subseteq Given'
  <2> SUFFICES ASSUME NEW i \in 1..Len(taken) PROVE taken[i] \in Given'
    BY <1>1 DEF Given
  <2>1. i \in DOMAIN taken' /\ taken'[i] = taken[i]
    BY <1>1, <1>2, <1>3
  <2> QED  BY <2>1 DEF Given
<1>6. e \in Given'
  <2>1. Len(taken) + 1 \in DOMAIN taken'
    BY <1>1, <1>2
  <2> QED  BY <1>3, <2>1 DEF Given
<1> QED  BY <1>2, <1>4, <1>5, <1>6

\* The given events are events, finitely many of them.
LEMMA GivenFinite ==
  ASSUME counter \in Nat, taken \in Seq(Events)
  PROVE  Given \subseteq Events /\ IsFiniteSet(Given)
<1>1. Given \subseteq Events
  BY DEF Given
<1>2. IsFiniteSet(Events)
  BY FS_Interval DEF Events
<1> QED  BY <1>1, <1>2, FS_Subset

LEMMA HeapSize == ASSUME counter \in Nat, NEW q, q \subseteq Events PROVE Size(q) \in Nat
<1>1. IsFiniteSet(Events)
  BY FS_Interval DEF Events
<1> QED  BY <1>1, FS_Subset, FS_CardinalityType DEF Size

\* Moving the head of one list to the end of another leaves their concatenation.
LEMMA HeadMoves ==
  ASSUME NEW S, NEW s \in Seq(S), NEW t \in Seq(S), t # <<>>
  PROVE  Append(s, Head(t)) \o Tail(t) = s \o t
OBVIOUS

LEMMA EmptyNeutral ==
  ASSUME NEW S, NEW s \in Seq(S) PROVE s \o <<>> = s /\ <<>> \o s = s
OBVIOUS

-----------------------------------------------------------------------------
(* The types.                                                              *)

LEMMA BusInitInv == Init => BusInv
<1> SUFFICES ASSUME Init PROVE BusInv
  OBVIOUS
<1>1. Events = {} /\ Given = {} /\ counter = 0
  BY DEF Init, Events, Given
<1>2. Records
  BY DEF Init, Records
<1>3. TypeOK
  <2>1. 0 \in 0..MaxEvents /\ counter = 0
    BY EventBusAssumption DEF Init
  <2>2. prio \in [Events -> Priorities] /\ kind \in [Events -> Types]
    BY <1>1, <1>2 DEF Init
  <2>3. seen \in [Events -> Seq(Callbacks)] /\ owed \in [Events -> Seq(Callbacks)]
    BY <1>1, <1>2 DEF Init
  <2>4. taken \in Seq(Events) /\ todo \in Seq(Callbacks)
    BY DEF Init
  <2>5. subs \in [Types -> Seq(Callbacks)]
    BY EventBusAssumption DEF Init
  <2> QED  BY <2>1, <2>2, <2>3, <2>4, <2>5 DEF Init, TypeOK, Modes
<1>4. InOnePlace /\ Unseen /\ AllSubscribersServed
  BY <1>1 DEF Init, InOnePlace, Unseen, AllSubscribersServed
<1>5. ExactlyOnce
  <2>1. Size(Given) = 0 /\ Len(taken) = 0
    BY <1>1, FS_EmptySet DEF Size, Init
  <2>2. \A t \in Threads : built[t] = None
    BY DEF Init
  <2>3. {built[t] : t \in Threads} \ {None} = {}
    BY <2>2
  <2> QED  BY <1>1, <2>1, <2>3 DEF Init, ExactlyOnce
<1> QED  BY <1>2, <1>3, <1>4, <1>5 DEF BusInv
-----------------------------------------------------------------------------
(* One event more.                                                         *)

LEMMA RecordsTyped ==
  ASSUME Records, counter \in Nat
  PROVE  /\ prio \in [Events -> Priorities] /\ kind \in [Events -> Types]
         /\ seen \in [Events -> Seq(Callbacks)] /\ owed \in [Events -> Seq(Callbacks)]
BY DEF Records, Events

LEMMA ConstructInv ==
  ASSUME BusInv, NEW t \in Threads, NEW p \in Priorities, NEW ty \in Types,
         Construct(t, p, ty)
  PROVE  BusInv'
<1> DEFINE new == counter + 1
<1>1. /\ counter < MaxEvents /\ counter' = new /\ built' = [built EXCEPT ![t] = new]
      /\ built[t] = None
      /\ prio' = Append(prio, p) /\ kind' = Append(kind, ty)
      /\ seen' = Append(seen, <<>>) /\ owed' = Append(owed, <<>>)
      /\ UNCHANGED <<subs, heap, ordered, pushing, listLen, disturbed, mode, cur,
                     todo, taken, count>>
  BY DEF Construct, MayPublish, Free
<1>2. TypeOK /\ Records
  BY DEF BusInv
<1>3. /\ counter \in Nat /\ new \in Nat /\ counter' \in 0..MaxEvents
      /\ Events' = Events \cup {new} /\ new \notin Events /\ None \notin Events'
  <2>1. counter \in Nat /\ new \in Nat /\ counter' \in 0..MaxEvents
    BY <1>1, <1>2, EventBusAssumption DEF TypeOK
  <2>2. Events' = 1..new /\ Events = 1..counter
    BY <1>1 DEF Events
  <2>3. Events' \subseteq Nat
    BY <2>1, <2>2
  <2> QED  BY <2>1, <2>2, <2>3, EventBusAssumption
<1>4. Records'
  BY <1>1, <1>2 DEF Records
<1>5. taken \in Seq(Events) /\ Given' = Given /\ Given \subseteq Events
  BY <1>1, <1>2, <1>3, GivenFinite DEF TypeOK, Given
<1>6. built \in [Threads -> Events \cup {None}]
  BY <1>2 DEF TypeOK
<1>7. TypeOK'
  <2>1. /\ prio' \in [Events' -> Priorities] /\ kind' \in [Events' -> Types]
        /\ seen' \in [Events' -> Seq(Callbacks)]
        /\ owed' \in [Events' -> Seq(Callbacks)]
    BY <1>3, <1>4 DEF Records, Events
  <2>2. taken' \in Seq(Events')
    BY <1>1, <1>3, <1>5
  <2>3. built' \in [Threads -> Events' \cup {None}]
    BY <1>1, <1>3, <1>6
  <2>4. pushing' \in [Threads -> Events' \cup {None}]
    BY <1>1, <1>2, <1>3 DEF TypeOK
  <2>5. heap' \subseteq Events' /\ cur' \in Events' \cup {None}
    BY <1>1, <1>2, <1>3 DEF TypeOK
  <2>6. /\ subs' \in [Types -> Seq(Callbacks)] /\ ordered' \in BOOLEAN
        /\ listLen' \in [Threads -> Nat] /\ disturbed' \in [Threads -> BOOLEAN]
        /\ mode' \in Modes /\ todo' \in Seq(Callbacks) /\ count' \in Nat
    BY <1>1, <1>2 DEF TypeOK, Modes
  <2> QED  BY <1>3, <2>1, <2>2, <2>3, <2>4, <2>5, <2>6 DEF TypeOK
<1>8. /\ built'[t] = new
      /\ \A u \in Threads \ {t} : built'[u] = built[u] /\ built[u] # new
  BY <1>1, <1>3, <1>6, EventBusAssumption
<1>9. InOnePlace'
  <2>1. \A u, v \in Threads : built'[u] # None /\ built'[u] = built'[v] => u = v
    BY <1>8 DEF BusInv, InOnePlace
  <2>2. ASSUME mode' \in {"sift", "dead"}
        PROVE  cur' \in Events' /\ \A u \in Threads : built'[u] # cur'
    BY <1>1, <1>3, <1>8, <2>2 DEF BusInv, InOnePlace
  <2>3. mode' = "deliver" => cur' \in Given'
    BY <1>1, <1>5 DEF BusInv, InOnePlace
  <2> QED  BY <2>1, <2>2, <2>3 DEF InOnePlace
<1>10. ExactlyOnce'
  <2>1. {built'[u] : u \in Threads} \ {None}
          = ({built[u] : u \in Threads} \ {None}) \cup {new}
    <3>1. new # None
      BY <1>3
    <3> QED  BY <1>1, <1>6, <1>8, <3>1
  <2>2. ExactlyOnce
    BY DEF BusInv
  <2>3. heap \subseteq Events
    BY <1>2 DEF TypeOK
  <2>4. \A u \in Threads : built'[u] \notin heap \cup Given
    BY <1>3, <1>5, <1>8, <2>2, <2>3 DEF ExactlyOnce
  <2>5. Events' = ({built'[u] : u \in Threads} \ {None}) \cup heap' \cup Given'
               \cup (IF mode' \in {"sift", "dead"} THEN {cur'} ELSE {})
    BY <1>1, <1>3, <1>5, <2>1, <2>2 DEF ExactlyOnce
  <2> QED  BY <1>1, <1>5, <2>2, <2>4, <2>5 DEF ExactlyOnce
<1>11. \A e \in Events : seen'[e] = seen[e] /\ owed'[e] = owed[e]
  BY <1>1, <1>2 DEF Records, Events
<1>12. seen'[new] = <<>>
  BY <1>1, <1>2 DEF Records
<1>13. Unseen'
  <2> SUFFICES ASSUME NEW e \in Events' \ Given' PROVE seen'[e] = <<>>
    BY DEF Unseen
  <2> QED  BY <1>3, <1>5, <1>11, <1>12 DEF BusInv, Unseen
<1>14. AllSubscribersServed'
  <2> SUFFICES ASSUME NEW e \in Given
               PROVE  owed'[e] = seen'[e] \o
                        (IF cur = e /\ mode = "deliver" THEN todo ELSE <<>>)
    BY <1>1, <1>5 DEF AllSubscribersServed
  <2> QED  BY <1>5, <1>11 DEF BusInv, AllSubscribersServed
<1> QED  BY <1>4, <1>7, <1>9, <1>10, <1>13, <1>14 DEF BusInv
-----------------------------------------------------------------------------
(* Steps that hand nothing out and deliver nothing.                        *)

\* The lists about events, the subscribers' types and what was handed out stay.
LEMMA Bookkeeping ==
  ASSUME BusInv, UNCHANGED <<counter, prio, kind, seen, owed, taken, todo>>
  PROVE  /\ Records' /\ Events' = Events /\ Given' = Given /\ Unseen'
         /\ \/ UNCHANGED <<mode, cur>>
            \/ mode # "deliver" /\ mode' # "deliver"
            \/ mode = "deliver" /\ todo = <<>> /\ mode' # "deliver"
            => AllSubscribersServed'
<1>1. Records' /\ Events' = Events /\ Given' = Given
  BY DEF BusInv, Records, Events, Given
<1>2. Unseen'
  BY <1>1 DEF BusInv, Unseen
<1>3. ASSUME \/ UNCHANGED <<mode, cur>>
             \/ mode # "deliver" /\ mode' # "deliver"
             \/ mode = "deliver" /\ todo = <<>> /\ mode' # "deliver"
      PROVE  AllSubscribersServed'
  <2> SUFFICES ASSUME NEW e \in Given
               PROVE  owed[e] = seen[e] \o
                        (IF cur' = e /\ mode' = "deliver" THEN todo ELSE <<>>)
    BY <1>1 DEF AllSubscribersServed
  <2>1. owed[e] = seen[e] \o (IF cur = e /\ mode = "deliver" THEN todo ELSE <<>>)
    BY DEF BusInv, AllSubscribersServed
  <2>2. CASE UNCHANGED <<mode, cur>>
    BY <2>1, <2>2
  <2>3. CASE mode # "deliver" /\ mode' # "deliver"
    BY <2>1, <2>3
  <2>4. CASE mode = "deliver" /\ todo = <<>> /\ mode' # "deliver"
    BY <2>1, <2>4
  <2> QED  BY <1>3, <2>2, <2>3, <2>4
<1> QED  BY <1>1, <1>2, <1>3

\* Where the events are changes only by a publish, a pop and a hand-out.
LEMMA Undisturbed ==
  ASSUME BusInv, UNCHANGED <<counter, heap, built, taken>>,
         \/ UNCHANGED <<mode, cur>>
         \/ mode \in {"out", "drain", "deliver"} /\ mode' \in {"out", "drain"}
         \/ mode = "sift" /\ mode' = "dead" /\ cur' = cur
  PROVE  InOnePlace' /\ ExactlyOnce'
<1>1. Events' = Events /\ Given' = Given
  BY DEF Events, Given
<1>2. InOnePlace /\ ExactlyOnce
  BY DEF BusInv
<1>3. CASE UNCHANGED <<mode, cur>>
  BY <1>1, <1>2, <1>3 DEF InOnePlace, ExactlyOnce
<1>4. CASE mode \in {"out", "drain", "deliver"} /\ mode' \in {"out", "drain"}
  BY <1>1, <1>2, <1>4 DEF InOnePlace, ExactlyOnce
<1>5. CASE mode = "sift" /\ mode' = "dead" /\ cur' = cur
  BY <1>1, <1>2, <1>5 DEF InOnePlace, ExactlyOnce
<1> QED  BY <1>3, <1>4, <1>5

\* The fields of a heap call keep their types.
LEMMA DisturbTyped ==
  ASSUME TypeOK, NEW t \in Threads, Disturb(t)
  PROVE  disturbed' \in [Threads -> BOOLEAN]
<1>1. \A u \in Threads : (IF u = t THEN FALSE ELSE disturbed[u] \/ Sifting(u)) \in BOOLEAN
  OBVIOUS
<1> QED  BY <1>1, Zenon DEF Disturb

LEMMA OrderTyped == \A q, fine : OrderAfter(q, fine) \in BOOLEAN
BY DEF OrderAfter

LEMMA PublishInv ==
  ASSUME BusInv, NEW t \in Threads, Publish(t) PROVE BusInv'
<1> DEFINE e == built[t]
<1>1. /\ e # None /\ built' = [built EXCEPT ![t] = None] /\ heap' = heap \cup {e}
      /\ IF heap = {}
           THEN UNCHANGED <<pushing, listLen>>
           ELSE /\ pushing' = [pushing EXCEPT ![t] = e]
                /\ listLen' = [listLen EXCEPT ![t] = Size(heap')]
      /\ Disturb(t)
      /\ ordered' = OrderAfter(heap', ordered /\ ~ Overlap(t))
      /\ UNCHANGED <<counter, prio, kind, subs, mode, cur, todo, seen, owed,
                     taken, count>>
  BY DEF Publish
<1>2. TypeOK /\ InOnePlace /\ ExactlyOnce
  BY DEF BusInv
<1>3. /\ counter \in Nat /\ built \in [Threads -> Events \cup {None}]
      /\ e \in Events /\ heap' \subseteq Events
  BY <1>1, <1>2, EventBusAssumption DEF TypeOK
<1>4. Records' /\ Events' = Events /\ Given' = Given /\ Unseen' /\ AllSubscribersServed'
  BY <1>1, Bookkeeping
<1>5. TypeOK'
  <2>1. listLen' \in [Threads -> Nat] /\ pushing' \in [Threads -> Events \cup {None}]
    <3>1. Size(heap') \in Nat
      BY <1>3, HeapSize
    <3> QED  BY <1>1, <1>2, <1>3, <3>1 DEF TypeOK
  <2>2. disturbed' \in [Threads -> BOOLEAN] /\ ordered' \in BOOLEAN
    BY <1>1, <1>2, DisturbTyped, OrderTyped
  <2>3. built' \in [Threads -> Events \cup {None}]
    BY <1>1, <1>3
  <2> QED  BY <1>1, <1>2, <1>3, <1>4, <2>1, <2>2, <2>3 DEF TypeOK
<1>6. built'[t] = None /\ \A u \in Threads \ {t} : built'[u] = built[u] /\ built[u] # e
  BY <1>1, <1>2, <1>3 DEF InOnePlace
<1>7. InOnePlace'
  <2>1. \A u, v \in Threads : built'[u] # None /\ built'[u] = built'[v] => u = v
    BY <1>2, <1>6 DEF InOnePlace
  <2>2. ASSUME mode \in {"sift", "dead"}
        PROVE  cur \in Events /\ \A u \in Threads : built'[u] # cur
    <3>1. cur \in Events /\ cur # None /\ \A u \in Threads : built[u] # cur
      BY <1>2, <1>3, <2>2, EventBusAssumption DEF InOnePlace, Events
    <3> QED  BY <1>6, <3>1
  <2> QED  BY <1>1, <1>2, <1>4, <2>1, <2>2 DEF InOnePlace
<1>8. ExactlyOnce'
  <2>1. {built'[u] : u \in Threads} \ {None}
          = ({built[u] : u \in Threads} \ {None}) \ {e}
    BY <1>1, <1>3, <1>6
  <2>2. e \in Events /\ e \notin heap \cup Given
    BY <1>2, <1>3 DEF ExactlyOnce
  <2>3. \A u \in Threads : built'[u] \notin heap' \cup Given
    <3>1. None \notin Events /\ Given \subseteq Events
      BY <1>2, <1>3, EventBusAssumption, GivenFinite DEF TypeOK, Events
    <3> QED  BY <1>1, <1>2, <1>3, <1>6, <3>1 DEF ExactlyOnce
  <2>4. mode = "sift" => cur \notin heap' \cup Given
    BY <1>1, <1>2 DEF InOnePlace, ExactlyOnce
  <2>5. Events = ({built'[u] : u \in Threads} \ {None}) \cup heap' \cup Given
              \cup (IF mode \in {"sift", "dead"} THEN {cur} ELSE {})
    BY <1>1, <1>2, <2>1, <2>2 DEF ExactlyOnce
  <2>6. heap' \cap Given = {} /\ Size(Given) = Len(taken)
    BY <1>1, <1>2, <2>2 DEF ExactlyOnce
  <2> QED  BY <1>1, <1>4, <2>3, <2>4, <2>5, <2>6 DEF ExactlyOnce
<1> QED  BY <1>4, <1>5, <1>7, <1>8 DEF BusInv

-----------------------------------------------------------------------------
(* The drain.                                                              *)

\* The event of a heappop that is done goes to the subscribers of the moment.
LEMMA HandOutInv ==
  ASSUME BusInv, NEW e \in Events, e \notin Given, HandOut(e),
         \/ mode = "drain" /\ e \in heap /\ heap' = heap \ {e}
         \/ mode = "sift" /\ e = cur /\ heap' = heap,
         disturbed' \in [Threads -> BOOLEAN], ordered' \in BOOLEAN,
         UNCHANGED <<counter, prio, kind, subs, built, pushing, listLen, seen>>
  PROVE  BusInv'
<1>1. /\ mode' = "deliver" /\ cur' = e /\ todo' = subs[kind[e]]
      /\ owed' = [owed EXCEPT ![e] = subs[kind[e]]]
      /\ taken' = Append(taken, e) /\ count' = count + 1
  BY DEF HandOut
<1>2. TypeOK /\ Records /\ InOnePlace /\ ExactlyOnce
  BY DEF BusInv
<1>3. counter \in Nat /\ taken \in Seq(Events) /\ Events' = Events
  BY <1>2, EventBusAssumption DEF TypeOK, Events
<1>4. /\ Given' = Given \cup {e} /\ Len(taken') = Len(taken) + 1
      /\ Given \subseteq Events /\ IsFiniteSet(Given)
  BY <1>1, <1>3, GivenGrows, GivenFinite
<1>5. subs[kind[e]] \in Seq(Callbacks)
  BY <1>2 DEF TypeOK
<1>6. Records'
  <2>1. owed' \in Seq(Seq(Callbacks)) /\ Len(owed') = counter
    BY <1>1, <1>2, <1>5, ExceptSeq DEF Records, Events
  <2> QED  BY <1>2, <2>1 DEF Records
<1>7. TypeOK'
  <2>1. owed' \in [Events -> Seq(Callbacks)] /\ taken' \in Seq(Events)
    BY <1>1, <1>2, <1>3, <1>5 DEF TypeOK
  <2>2. heap' \subseteq Events
    BY <1>2 DEF TypeOK
  <2> QED  BY <1>1, <1>2, <1>3, <1>5, <2>1, <2>2 DEF TypeOK, Modes
<1>8. InOnePlace'
  BY <1>1, <1>2, <1>4 DEF InOnePlace
<1>9. ExactlyOnce'
  <2>1. e \notin heap'
    BY <1>2 DEF ExactlyOnce
  <2>2. Size(Given') = Len(taken')
    BY <1>2, <1>4, FS_AddElement DEF ExactlyOnce, Size
  <2>3. \A t \in Threads : built[t] # e
    BY <1>2 DEF ExactlyOnce, InOnePlace
  <2>4. Events = ({built[t] : t \in Threads} \ {None}) \cup heap' \cup Given'
    BY <1>2, <1>4 DEF ExactlyOnce
  <2>5. heap' \cap Given' = {} /\ \A t \in Threads : built[t] \notin heap' \cup Given'
    BY <1>2, <1>4, <2>1, <2>3 DEF ExactlyOnce
  <2> QED  BY <1>1, <1>3, <2>2, <2>4, <2>5 DEF ExactlyOnce
<1>10. Unseen'
  BY <1>3, <1>4 DEF BusInv, Unseen
<1>11. AllSubscribersServed'
  <2> SUFFICES ASSUME NEW f \in Given \cup {e}
               PROVE  owed'[f] = seen[f] \o (IF e = f THEN todo' ELSE <<>>)
    BY <1>1, <1>4 DEF AllSubscribersServed
  <2>1. CASE f = e
    <3>1. seen[e] = <<>> /\ owed'[e] = todo'
      BY <1>1, <1>2 DEF BusInv, Unseen, TypeOK
    <3> QED  BY <1>1, <1>5, <2>1, <3>1, EmptyNeutral
  <2>2. CASE f # e
    <3>1. owed'[f] = owed[f] /\ f \in Given
      BY <1>1, <1>2, <1>4, <2>2 DEF TypeOK
    <3> QED  BY <2>2, <3>1 DEF BusInv, AllSubscribersServed
  <2> QED  BY <2>1, <2>2
<1> QED  BY <1>6, <1>7, <1>8, <1>9, <1>10, <1>11 DEF BusInv

LEMMA DrainPopsInv == ASSUME BusInv, DrainPops PROVE BusInv'
<1>1. PICK e \in Firsts :
        /\ heap' = heap \ {e}
        /\ Disturb(Loop)
        /\ ordered' = OrderAfter(heap', ordered /\ ~ Overlap(Loop))
        /\ IF Size(heap') <= 1
             THEN HandOut(e) /\ UNCHANGED listLen
             ELSE /\ mode' = "sift" /\ cur' = e
                  /\ listLen' = [listLen EXCEPT ![Loop] = Size(heap')]
                  /\ UNCHANGED <<todo, owed, taken, count>>
  BY DEF DrainPops
<1>2. mode = "drain" /\ UNCHANGED <<counter, prio, kind, subs, built, pushing, seen>>
  BY DEF DrainPops
<1>3. TypeOK /\ InOnePlace /\ ExactlyOnce
  BY DEF BusInv
<1>4. /\ counter \in Nat /\ e \in heap /\ heap' \subseteq Events
      /\ e \in Events /\ e \notin Given /\ \A t \in Threads : built[t] # e
  BY <1>1, <1>3, EventBusAssumption, FirstsInHeap DEF TypeOK, ExactlyOnce
<1>5. disturbed' \in [Threads -> BOOLEAN] /\ ordered' \in BOOLEAN
  BY <1>1, <1>3, DisturbTyped, OrderTyped DEF Threads
<1>6. CASE HandOut(e) /\ UNCHANGED listLen
  BY <1>1, <1>2, <1>4, <1>5, <1>6, HandOutInv
<1>7. CASE /\ mode' = "sift" /\ cur' = e
           /\ listLen' = [listLen EXCEPT ![Loop] = Size(heap')]
           /\ UNCHANGED <<todo, owed, taken, count>>
  <2>1. Records' /\ Events' = Events /\ Given' = Given /\ Unseen' /\ AllSubscribersServed'
    BY <1>2, <1>7, Bookkeeping
  <2>2. TypeOK'
    <3>1. listLen' \in [Threads -> Nat]
      <4>1. Size(heap') \in Nat
        BY <1>4, HeapSize
      <4> QED  BY <1>3, <1>7, <4>1 DEF TypeOK
    <3> QED  BY <1>2, <1>3, <1>4, <1>5, <1>7, <2>1, <3>1 DEF TypeOK, Modes
  <2>3. InOnePlace'
    BY <1>2, <1>3, <1>4, <1>7, <2>1 DEF InOnePlace
  <2>4. ExactlyOnce'
    <3>1. Events = ({built[t] : t \in Threads} \ {None}) \cup heap' \cup Given \cup {e}
      BY <1>1, <1>2, <1>3, <1>4 DEF ExactlyOnce
    <3> QED  BY <1>1, <1>2, <1>3, <1>4, <1>7, <2>1, <3>1 DEF ExactlyOnce
  <2> QED  BY <2>1, <2>2, <2>3, <2>4 DEF BusInv
<1> QED  BY <1>1, <1>6, <1>7

LEMMA PopReturnsInv == ASSUME BusInv, PopReturns PROVE BusInv'
<1>1. /\ mode = "sift" /\ HandOut(cur)
      /\ disturbed' = [disturbed EXCEPT ![Loop] = FALSE]
      /\ ordered' = OrderAfter(heap, ordered /\ ~ disturbed[Loop])
      /\ UNCHANGED <<counter, prio, kind, subs, heap, built, pushing, listLen, seen>>
  BY DEF PopReturns
<1>2. cur \in Events /\ cur \notin Given
  BY <1>1 DEF BusInv, InOnePlace, ExactlyOnce
<1>3. disturbed' \in [Threads -> BOOLEAN] /\ ordered' \in BOOLEAN
  BY <1>1, OrderTyped DEF BusInv, TypeOK
<1> QED  BY <1>1, <1>2, <1>3, HandOutInv

LEMMA DeliverInv == ASSUME BusInv, Deliver PROVE BusInv'
<1>1. /\ mode = "deliver" /\ todo # <<>>
      /\ seen' = [seen EXCEPT ![cur] = Append(@, Head(todo))]
      /\ todo' = Tail(todo)
      /\ UNCHANGED <<counter, prio, kind, subs, heap, ordered, built, pushing,
                     listLen, disturbed, mode, cur, owed, taken, count>>
  BY DEF Deliver, Remaining
<1>2. TypeOK /\ Records /\ AllSubscribersServed /\ Unseen
  BY DEF BusInv
<1>3. cur \in Given /\ Given \subseteq Events
  BY <1>1, <1>2, GivenFinite, EventBusAssumption DEF BusInv, InOnePlace, TypeOK
<1>4. seen[cur] \in Seq(Callbacks) /\ todo \in Seq(Callbacks)
  BY <1>2, <1>3 DEF TypeOK
<1>5. Append(seen[cur], Head(todo)) \in Seq(Callbacks) /\ todo' \in Seq(Callbacks)
  BY <1>1, <1>4
<1>6. /\ seen'[cur] = Append(seen[cur], Head(todo))
      /\ \A e \in Events \ {cur} : seen'[e] = seen[e]
  BY <1>1, <1>2, <1>3 DEF TypeOK
<1>7. Events' = Events /\ Given' = Given
  BY <1>1 DEF Events, Given
<1>8. TypeOK'
  <2>1. seen' \in [Events -> Seq(Callbacks)]
    BY <1>1, <1>2, <1>3, <1>5 DEF TypeOK
  <2> QED  BY <1>1, <1>2, <1>5, <1>7, <2>1 DEF TypeOK
<1>9. Records'
  <2>1. seen' \in Seq(Seq(Callbacks)) /\ Len(seen') = counter
    BY <1>1, <1>2, <1>3, <1>5, ExceptSeq DEF Records, Events
  <2> QED  BY <1>1, <1>2, <2>1 DEF Records
<1>10. InOnePlace' /\ ExactlyOnce'
  BY <1>1, Undisturbed
<1>11. Unseen'
  BY <1>2, <1>3, <1>6, <1>7 DEF Unseen
<1>12. AllSubscribersServed'
  <2> SUFFICES ASSUME NEW e \in Given
               PROVE  owed[e] = seen'[e] \o
                        (IF cur = e /\ mode = "deliver" THEN todo' ELSE <<>>)
    BY <1>1, <1>7 DEF AllSubscribersServed
  <2>1. CASE e = cur
    <3>1. owed[e] = seen[cur] \o todo
      BY <1>1, <1>2, <2>1 DEF AllSubscribersServed
    <3>2. Append(seen[cur], Head(todo)) \o Tail(todo) = seen[cur] \o todo
      BY <1>1, <1>4, HeadMoves
    <3> QED  BY <1>1, <1>6, <2>1, <3>1, <3>2
  <2>2. CASE e # cur
    BY <1>2, <1>3, <1>6, <2>2 DEF AllSubscribersServed
  <2> QED  BY <2>1, <2>2
<1> QED  BY <1>8, <1>9, <1>10, <1>11, <1>12 DEF BusInv

\* The bus's own bookkeeping: nothing is built, pushed, popped or delivered.
LEMMA QuietBus ==
  ASSUME BusInv,
         UNCHANGED <<counter, prio, kind, heap, built, seen, owed, taken, todo>>,
         subs' \in [Types -> Seq(Callbacks)], ordered' \in BOOLEAN, count' \in Nat,
         pushing' \in [Threads -> Events \cup {None}],
         UNCHANGED listLen, disturbed' \in [Threads -> BOOLEAN],
         \/ UNCHANGED <<mode, cur>>
         \/ mode \in {"out", "drain"} /\ mode' \in {"out", "drain"} /\ cur' = cur
         \/ mode = "deliver" /\ todo = <<>> /\ mode' = "drain" /\ cur' = None
         \/ mode = "sift" /\ mode' = "dead" /\ cur' = cur
  PROVE  BusInv'
<1>1. Records' /\ Events' = Events /\ Given' = Given /\ Unseen' /\ AllSubscribersServed'
  BY Bookkeeping
<1>2. InOnePlace' /\ ExactlyOnce'
  BY Undisturbed
<1>3. TypeOK'
  BY <1>1 DEF BusInv, TypeOK, Modes
<1> QED  BY <1>1, <1>2, <1>3 DEF BusInv

LEMMA BusStepInv == BusInv /\ [Next]_busVars => BusInv'
<1> SUFFICES ASSUME BusInv, [Next]_busVars PROVE BusInv'
  OBVIOUS
<1>1. TypeOK
  BY DEF BusInv
<1>2. ASSUME NEW ty \in Types, NEW c \in Callbacks, Subscribe(ty, c) PROVE BusInv'
  <2>1. subs' \in [Types -> Seq(Callbacks)]
    BY <1>1, <1>2 DEF Subscribe, TypeOK
  <2> QED  BY <1>1, <1>2, <2>1, QuietBus DEF Subscribe, TypeOK
<1>3. ASSUME NEW t \in Threads, PublishEnds(t) PROVE BusInv'
  <2>1. /\ pushing' \in [Threads -> Events \cup {None}]
        /\ disturbed' \in [Threads -> BOOLEAN]
    BY <1>1, <1>3 DEF PublishEnds, TypeOK
  <2>2. ordered' \in BOOLEAN
    BY <1>3, OrderTyped DEF PublishEnds
  <2> QED  BY <1>1, <1>3, <2>1, <2>2, QuietBus DEF PublishEnds, TypeOK
<1>4. CASE DrainBegins
  BY <1>1, <1>4, QuietBus DEF DrainBegins, TypeOK
<1>5. CASE PopRaises
  <2>1. disturbed' \in [Threads -> BOOLEAN] /\ ordered' \in BOOLEAN
    BY <1>1, <1>5, OrderTyped DEF PopRaises, TypeOK
  <2> QED  BY <1>1, <1>5, <2>1, QuietBus DEF PopRaises, TypeOK
<1>6. CASE DeliveryEnds
  BY <1>1, <1>6, QuietBus DEF DeliveryEnds, TypeOK
<1>7. CASE DrainEnds
  BY <1>1, <1>7, QuietBus DEF DrainEnds, TypeOK
<1>8. CASE UNCHANGED busVars
  BY <1>1, <1>8, QuietBus DEF busVars, TypeOK
<1> QED  BY <1>2, <1>3, <1>4, <1>5, <1>6, <1>7, <1>8, ConstructInv, PublishInv,
            DrainPopsInv, PopReturnsInv, DeliverInv DEF Next, DrainStep, ThreadStep

\* The bus's invariant holds however many threads publish.
THEOREM BusInvAlways == BusSpec => []BusInv
BY BusInitInv, BusStepInv, PTL DEF BusSpec

\* The bus's list, counters and subscriber lists keep their types.
THEOREM BusTypeCorrect == BusSpec => []TypeOK
<1>1. BusInv => TypeOK
  BY DEF BusInv
<1> QED  BY <1>1, BusInvAlways, PTL

\* No event is dropped and none is delivered twice, however many threads publish
\* and however their heap calls overlap; a heappop that raises loses its own.
THEOREM ExactlyOnceAlways == BusSpec => []ExactlyOnce
<1>1. BusInv => ExactlyOnce
  BY DEF BusInv
<1> QED  BY <1>1, BusInvAlways, PTL

\* Each event handed out reaches every callback subscribed at that moment, in the
\* order of subscription, whichever of them raise, publish or subscribe.
THEOREM AllSubscribersServedAlways == BusSpec => []AllSubscribersServed
<1>1. BusInv => AllSubscribersServed
  BY DEF BusInv
<1> QED  BY <1>1, BusInvAlways, PTL

\* The kernel loop's thread is the only one that publishes.
AloneSpec == Init /\ [][Next /\ \A t \in Publishers : built'[t] = None]_busVars

\* Then no heap call ever meets another, and the list stays a heap.
AloneInv ==
  /\ \A t \in Publishers : built[t] = None /\ pushing[t] = None
  /\ \A t \in Threads : ~ disturbed[t]
  /\ ordered /\ mode # "dead"
  /\ mode \in {"drain", "sift"} => Free(Loop)

\* What leaves the list precedes everything that stays in it.
MostUrgentFirst ==
  \A e \in heap \ heap' : \A f \in heap' : Before(e, f)

LEMMA AloneStep ==
  ASSUME BusInv, AloneInv, Next, \A t \in Publishers : built'[t] = None
  PROVE  AloneInv' /\ MostUrgentFirst
<1>1. TypeOK /\ None \notin Events /\ Loop \notin Publishers
  BY EventBusAssumption DEF BusInv, TypeOK, Events
<1>2. /\ built \in [Threads -> Events \cup {None}]
      /\ pushing \in [Threads -> Events \cup {None}]
      /\ disturbed \in [Threads -> BOOLEAN]
      /\ Loop \in Threads /\ \A t \in Threads : t # Loop => t \in Publishers
      /\ heap \subseteq Events
  BY <1>1 DEF TypeOK, Threads
<1>3. ~ Overlap(Loop)
  BY <1>2 DEF Overlap, Sifting, AloneInv
<1>4. ASSUME UNCHANGED <<built, pushing, disturbed>>, ordered' = ordered,
             \/ mode' = mode \/ mode' \in {"out", "deliver"}
             \/ mode' = "drain" /\ Free(Loop),
             heap' = heap
      PROVE  AloneInv' /\ MostUrgentFirst
  BY <1>4 DEF AloneInv, Free, MostUrgentFirst
<1>5. ASSUME NEW ty \in Types, NEW c \in Callbacks, Subscribe(ty, c)
      PROVE  AloneInv' /\ MostUrgentFirst
  BY <1>4, <1>5 DEF Subscribe
<1>6. CASE DrainBegins \/ Deliver \/ DeliveryEnds \/ DrainEnds
  BY <1>4, <1>6 DEF DrainBegins, Deliver, DeliveryEnds, DrainEnds
<1>7. ASSUME NEW t \in Threads, NEW p \in Priorities, NEW ty \in Types,
             Construct(t, p, ty)
      PROVE  AloneInv' /\ MostUrgentFirst
  <2>1. /\ MayPublish(t) /\ counter' = counter + 1
        /\ built' = [built EXCEPT ![t] = counter + 1]
        /\ UNCHANGED <<heap, ordered, pushing, disturbed, mode>>
    BY <1>7 DEF Construct
  <2>2. counter + 1 # None
    BY <1>1, EventBusAssumption DEF TypeOK
  <2>3. t = Loop
    BY <1>2, <2>1, <2>2
  <2>4. mode \in {"out", "deliver"}
    BY <2>1, <2>3 DEF MayPublish
  <2> QED  BY <2>1, <2>4 DEF AloneInv, MostUrgentFirst
<1>8. ASSUME NEW t \in Threads, Publish(t) PROVE AloneInv' /\ MostUrgentFirst
  <2>1. t = Loop
    BY <1>2, <1>8 DEF Publish, AloneInv
  <2>2. /\ built[Loop] # None /\ heap' = heap \cup {built[Loop]} /\ Disturb(Loop)
        /\ built' = [built EXCEPT ![Loop] = None]
        /\ pushing' = pushing \/ pushing' = [pushing EXCEPT ![Loop] = built[Loop]]
        /\ ordered' = OrderAfter(heap', ordered /\ ~ Overlap(Loop))
        /\ mode' = mode
    BY <1>8, <2>1 DEF Publish
  <2>3. mode \notin {"drain", "sift"}
    BY <2>2 DEF AloneInv, Free
  <2>4. \A u \in Threads : ~ disturbed'[u]
    BY <1>2, <2>2 DEF Disturb, Sifting, AloneInv
  <2>5. ordered'
    BY <1>3, <2>2 DEF OrderAfter, AloneInv
  <2>6. \A u \in Publishers : pushing'[u] = None
    <3> SUFFICES ASSUME NEW u \in Publishers PROVE pushing'[u] = None
      OBVIOUS
    <3>1. u # Loop /\ u \in Threads /\ pushing[u] = None
      BY <1>1 DEF AloneInv, Threads
    <3> QED  BY <1>2, <2>2, <3>1
  <2> QED  BY <2>2, <2>3, <2>4, <2>5, <2>6 DEF AloneInv, MostUrgentFirst
<1>9. ASSUME NEW t \in Threads, PublishEnds(t) PROVE AloneInv' /\ MostUrgentFirst
  <2>1. t = Loop
    BY <1>2, <1>9 DEF PublishEnds, AloneInv
  <2>2. /\ pushing' = [pushing EXCEPT ![Loop] = None]
        /\ disturbed' = [disturbed EXCEPT ![Loop] = FALSE]
        /\ ordered' = OrderAfter(heap, ordered /\ ~ disturbed[Loop])
        /\ UNCHANGED <<heap, built, mode>>
    BY <1>9, <2>1 DEF PublishEnds
  <2>3. ordered' /\ \A u \in Threads : ~ disturbed'[u]
    BY <1>2, <2>2 DEF OrderAfter, AloneInv
  <2>4. \A u \in Threads : pushing'[u] = IF u = Loop THEN None ELSE pushing[u]
    BY <1>2, <2>2
  <2>5. (\A u \in Publishers : pushing'[u] = None) /\ (Free(Loop) => Free(Loop)')
    BY <1>2, <2>2, <2>4 DEF AloneInv, Free, Threads
  <2> QED  BY <2>2, <2>3, <2>5 DEF AloneInv, MostUrgentFirst
<1>10. CASE DrainPops
  <2>1. PICK e \in Firsts :
          /\ heap' = heap \ {e} /\ Disturb(Loop)
          /\ ordered' = OrderAfter(heap', ordered /\ ~ Overlap(Loop))
          /\ mode' \in {"deliver", "sift"}
    BY <1>10 DEF DrainPops, HandOut
  <2>2. mode = "drain" /\ UNCHANGED <<built, pushing, prio>>
    BY <1>10 DEF DrainPops
  <2>3. \A u \in Threads : pushing[u] = None
    BY <1>2, <2>2 DEF AloneInv, Free
  <2>4. \A f \in heap \ {e} : Before(e, f)
    <3>1. Climbing \subseteq {None}
      BY <2>3 DEF Climbing
    <3>2. heap \ Climbing = heap
      BY <1>1, <1>2, <3>1
    <3> QED  BY <2>1, <3>2 DEF Firsts, AloneInv
  <2>5. \A u \in Threads : ~ disturbed'[u]
    BY <1>2, <2>1, <2>3 DEF Disturb, Sifting, AloneInv
  <2>6. ordered'
    BY <1>3, <2>1 DEF OrderAfter, AloneInv
  <2>7. Free(Loop)'
    BY <2>2 DEF AloneInv, Free
  <2> QED  BY <2>1, <2>2, <2>4, <2>5, <2>6, <2>7 DEF AloneInv, MostUrgentFirst
<1>11. CASE PopReturns
  <2>1. /\ mode' = "deliver" /\ UNCHANGED <<heap, built, pushing>>
        /\ disturbed' = [disturbed EXCEPT ![Loop] = FALSE]
        /\ ordered' = OrderAfter(heap, ordered /\ ~ disturbed[Loop])
    BY <1>11 DEF PopReturns, HandOut
  <2>2. ordered' /\ \A u \in Threads : ~ disturbed'[u]
    BY <1>2, <2>1 DEF OrderAfter, AloneInv
  <2> QED  BY <2>1, <2>2 DEF AloneInv, MostUrgentFirst
<1>12. ~ PopRaises
  BY <1>2 DEF PopRaises, AloneInv
<1> QED  BY <1>5, <1>6, <1>7, <1>8, <1>9, <1>10, <1>11, <1>12
            DEF Next, DrainStep, ThreadStep

\* "Events are delivered in priority order" and, "with the same priority, in publish
\* order": on a bus that only the kernel loop's thread publishes on, from callbacks
\* and between drains, every heappop takes the event that precedes all the others.
THEOREM AloneInOrder == AloneSpec => [][MostUrgentFirst]_busVars
<1>1. Init => BusInv /\ AloneInv
  BY BusInitInv DEF Init, AloneInv, Free, Threads
<1>2. BusInv /\ AloneInv /\ [Next /\ \A t \in Publishers : built'[t] = None]_busVars
        => (BusInv /\ AloneInv)' /\ [MostUrgentFirst]_busVars
  <2>1. AloneInv /\ UNCHANGED busVars => AloneInv'
    BY DEF AloneInv, Free, busVars
  <2> QED  BY <2>1, BusStepInv, AloneStep
<1> QED  BY <1>1, <1>2, PTL DEF AloneSpec

\* What the thread has built is newer than all that is in the list.
Newest == built[Loop] # None => \A f \in heap : f < built[Loop]

LEMMA StaysNewest ==
  ASSUME BusInv, AloneInv, Newest, Next
  PROVE  Newest'
<1>1. /\ counter \in Nat /\ heap \subseteq Events /\ None \notin Nat
      /\ built \in [Threads -> Events \cup {None}] /\ Loop \in Threads
  BY EventBusAssumption DEF BusInv, TypeOK, Threads
<1>2. ASSUME heap' \subseteq heap, built'[Loop] = built[Loop] PROVE Newest'
  BY <1>2 DEF Newest
<1>3. ASSUME NEW t \in Threads, NEW p \in Priorities, NEW ty \in Types,
             Construct(t, p, ty)
      PROVE  Newest'
  <2>1. heap' = heap /\ built' = [built EXCEPT ![t] = counter + 1]
    BY <1>3 DEF Construct
  <2>2. CASE t = Loop
    <3>1. built'[Loop] = counter + 1 /\ \A f \in heap : f < counter + 1
      BY <1>1, <2>1, <2>2 DEF Events
    <3> QED  BY <2>1, <3>1 DEF Newest
  <2> QED  BY <1>1, <1>2, <2>1, <2>2
<1>4. ASSUME NEW t \in Threads, Publish(t) PROVE Newest'
  <2>1. t = Loop
    BY <1>4 DEF Publish, AloneInv, Threads
  <2>2. built'[Loop] = None
    BY <1>1, <1>4, <2>1 DEF Publish
  <2> QED  BY <2>2 DEF Newest
<1>5. ASSUME NEW t \in Threads, PublishEnds(t) PROVE Newest'
  BY <1>2, <1>5 DEF PublishEnds
<1>6. ASSUME NEW ty \in Types, NEW c \in Callbacks, Subscribe(ty, c) PROVE Newest'
  BY <1>2, <1>6 DEF Subscribe
<1>7. CASE DrainBegins \/ DrainStep
  BY <1>2, <1>7 DEF DrainBegins, DrainStep, DrainPops, PopReturns, PopRaises, Deliver,
                    DeliveryEnds, DrainEnds
<1> QED  BY <1>3, <1>4, <1>5, <1>6, <1>7 DEF Next, ThreadStep

\* A publication joins a lane, a heappop takes from one, and nothing else does
\* anything to them.
LEMMA LanesStep ==
  ASSUME BusInv, AloneInv, Newest, Next, \A t \in Publishers : built'[t] = None
  PROVE  Lanes!LaneNext \/ UNCHANGED Queues
<1>1. /\ counter \in Nat /\ counter <= MaxEvents /\ MaxEvents \in Nat
      /\ heap \subseteq Events /\ Priorities \subseteq Nat
      /\ prio \in [Events -> Priorities] /\ prio \in Seq(Priorities) /\ Len(prio) = counter
      /\ built \in [Threads -> Events \cup {None}]
  BY EventBusAssumption DEF BusInv, TypeOK, Records
<1>2. ASSUME heap' = heap, \A e \in heap : prio'[e] = prio[e]
      PROVE  UNCHANGED Queues
  <2>1. \A p \in Priorities : {e \in heap' : prio'[e] = p} = {e \in heap : prio[e] = p}
    BY <1>2
  <2> QED  BY <2>1 DEF Queues, Lane
<1>3. ASSUME NEW t \in Threads, NEW p \in Priorities, NEW ty \in Types,
             Construct(t, p, ty)
      PROVE  UNCHANGED Queues
  <2>1. heap' = heap /\ prio' = Append(prio, p)
    BY <1>3 DEF Construct
  <2>2. \A e \in heap : prio'[e] = prio[e]
    BY <1>1, <2>1 DEF Events
  <2> QED  BY <1>2, <2>1, <2>2
<1>4. ASSUME NEW t \in Threads, Publish(t)
      PROVE  Lanes!LaneNext
  <2>1. t = Loop /\ Loop \in Threads
    BY <1>4 DEF Publish, AloneInv, Threads
  <2>2. PICK e : e = built[Loop]
    OBVIOUS
  <2>3. e # None /\ heap' = heap \cup {e} /\ prio' = prio
    BY <1>4, <2>1, <2>2 DEF Publish
  <2>4. e \in Events /\ e \in 1..MaxEvents
    BY <1>1, <2>1, <2>2, <2>3 DEF Events
  <2>5. PICK p \in Priorities : p = prio[e]
    BY <1>1, <2>4
  <2>6. \A f \in Lane(p) : f < e
    BY <2>2, <2>3 DEF Newest, Lane
  <2>7. \A q \in Priorities : {f \in heap' : prio'[f] = q}
          = IF q = p THEN {f \in heap : prio[f] = p} \cup {e} ELSE {f \in heap : prio[f] = q}
    BY <2>3, <2>5
  <2>8. Queues' = [Queues EXCEPT ![p] = @ \cup {e}] /\ Queues[p] = Lane(p)
    BY <2>5, <2>7 DEF Queues, Lane
  <2>9. Lanes!Enqueue(e, p)
    BY <2>6, <2>8 DEF Lanes!Enqueue
  <2> QED  BY <2>4, <2>9 DEF Lanes!LaneNext
<1>5. ASSUME DrainPops PROVE Lanes!LaneNext
  <2>1. PICK e \in heap : heap' = heap \ {e}
    BY <1>5, FirstsInHeap DEF DrainPops
  <2>2. prio' = prio
    BY <1>5 DEF DrainPops
  <2>3. \A f \in heap \ {e} : Before(e, f)
    <3>1. MostUrgentFirst
      BY AloneStep
    <3> QED  BY <2>1, <3>1 DEF MostUrgentFirst
  <2>4. PICK p \in Priorities : p = prio[e]
    BY <1>1, <2>1
  <2>5. ASSUME NEW q \in Priorities, q < p PROVE Lane(q) = {}
    <3>1. ASSUME NEW f \in heap, prio[f] = q PROVE FALSE
      <4>1. f # e /\ Before(e, f)
        BY <1>1, <2>3, <2>4, <2>5, <3>1
      <4> QED  BY <1>1, <2>4, <2>5, <3>1, <4>1 DEF Before
    <3> QED  BY <3>1 DEF Lane
  <2>6. e \in Lane(p) /\ \A f \in Lane(p) \ {e} : e < f
    <3>1. ASSUME NEW f \in heap, prio[f] = p, f # e PROVE e < f
      BY <1>1, <2>3, <2>4, <3>1 DEF Before
    <3> QED  BY <2>1, <2>4, <3>1 DEF Lane
  <2>7. \A q \in Priorities : {f \in heap' : prio'[f] = q}
          = IF q = p THEN {f \in heap : prio[f] = p} \ {e} ELSE {f \in heap : prio[f] = q}
    BY <2>1, <2>2, <2>4
  <2>8. /\ Queues' = [Queues EXCEPT ![p] = @ \ {e}]
        /\ \A q \in Priorities : Queues[q] = Lane(q)
    BY <2>7 DEF Queues, Lane
  <2>9. Lanes!Dispatch(p)
    BY <2>5, <2>6, <2>8 DEF Lanes!Dispatch
  <2> QED  BY <2>9 DEF Lanes!LaneNext
<1>6. ASSUME NEW t \in Threads, PublishEnds(t) PROVE UNCHANGED Queues
  BY <1>2, <1>6 DEF PublishEnds
<1>7. ASSUME NEW ty \in Types, NEW c \in Callbacks, Subscribe(ty, c) PROVE UNCHANGED Queues
  BY <1>2, <1>7 DEF Subscribe
<1>8. CASE DrainBegins \/ PopReturns \/ PopRaises \/ Deliver \/ DeliveryEnds \/ DrainEnds
  BY <1>2, <1>8 DEF DrainBegins, PopReturns, PopRaises, Deliver, DeliveryEnds, DrainEnds
<1> QED  BY <1>3, <1>4, <1>5, <1>6, <1>7, <1>8 DEF Next, DrainStep, ThreadStep

\* "Events are delivered in priority order" and "events with the same priority are
\* delivered in publish order" (event_bus.py:6-13): the heap that the kernel loop's
\* thread alone publishes on implements a queue per priority.
THEOREM AloneImplementsLanes == AloneSpec => Lanes!LaneSpec
<1>1. Init => BusInv /\ AloneInv /\ Newest
  BY BusInitInv DEF Init, AloneInv, Newest, Free, Threads
<1>2. BusInv /\ AloneInv /\ Newest /\ [Next /\ \A t \in Publishers : built'[t] = None]_busVars
        => (BusInv /\ AloneInv /\ Newest)' /\ [Lanes!LaneNext]_Queues
  <2>1. UNCHANGED busVars => (AloneInv => AloneInv') /\ (Newest => Newest') /\ UNCHANGED Queues
    BY DEF AloneInv, Newest, Queues, Lane, Free, busVars
  <2> QED  BY <2>1, BusStepInv, AloneStep, StaysNewest, LanesStep
<1>3. Init => Lanes!LaneInit
  BY DEF Init, Lanes!LaneInit, Queues, Lane
<1> QED  BY <1>1, <1>2, <1>3, PTL DEF AloneSpec, Lanes!LaneSpec

\* Such a bus never loses an event: no heappop raises.
THEOREM AloneNeverDies == AloneSpec => [](mode # "dead")
<1>1. Init => BusInv /\ AloneInv
  BY BusInitInv DEF Init, AloneInv, Free, Threads
<1>2. BusInv /\ AloneInv /\ [Next /\ \A t \in Publishers : built'[t] = None]_busVars
        => (BusInv /\ AloneInv)'
  <2>1. AloneInv /\ UNCHANGED busVars => AloneInv'
    BY DEF AloneInv, Free, busVars
  <2> QED  BY <2>1, BusStepInv, AloneStep
<1>3. AloneInv => mode # "dead"
  BY DEF AloneInv
<1> QED  BY <1>1, <1>2, <1>3, PTL DEF AloneSpec

-----------------------------------------------------------------------------
(* The loop and its parts.                                                 *)

\* The loop only ever uses the bus and the scheduler as they are meant to be used.
LEMMA LoopUsesBus == LoopNext => [Next]_busVars
<1>1. LoopStep => [Next]_busVars
  BY DEF LoopStep, Run, BeginTick, Exit, Drain, Tick, Pulse, Wake, Next
<1>2. Stop \/ Time => UNCHANGED busVars
  BY DEF Stop, Time
<1>3. Calls => [Next]_busVars
  BY DEF Calls, Next, Threads
<1>4. Others => Next
  BY DEF Others, Next, Threads
<1> QED  BY <1>1, <1>2, <1>3, <1>4 DEF LoopNext

LEMMA LoopUsesScheduler == LoopNext => [SchedNext]_schedVars
<1>1. LoopStep => [SchedNext]_schedVars
  BY DEF LoopStep, Run, BeginTick, Exit, Drain, Tick, Pulse, Wake, SchedNext
<1>2. Stop \/ Others => UNCHANGED schedVars
  BY DEF Stop, Others
<1>3. Calls => [SchedNext]_schedVars
  BY DEF Calls, SchedNext
<1>4. Time => SchedNext
  BY DEF Time, SchedNext
<1> QED  BY <1>1, <1>2, <1>3, <1>4 DEF LoopNext

\* The kernel loop implements the bus and the scheduler it is made of, so that
\* what is proved of either holds of the running loop, stop requests, deaths,
\* callbacks, tasks and jobs that publish and schedule included.
THEOREM LoopImplementsParts == LoopSpec => BusSpec /\ SchedSpec
<1>1. LoopInit => Init /\ SchedInit
  BY DEF LoopInit
<1>2. [LoopNext]_loopVars => [Next]_busVars
  BY LoopUsesBus DEF loopVars
<1>3. [LoopNext]_loopVars => [SchedNext]_schedVars
  BY LoopUsesScheduler DEF loopVars
<1> QED  BY <1>1, <1>2, <1>3, PTL DEF LoopSpec, BusSpec, SchedSpec

\* One thing at a time: the drain is under way exactly while the loop is in it, the
\* scheduler's tick likewise, and the thread dies only of one of their heaps.
OneAtATime ==
  /\ mode \in {"drain", "sift", "deliver"} <=> at = "drain"
  /\ step \in {"task", "jobs", "job"} => at = "tick"
  /\ at = "dead" <=> mode = "dead" \/ step = "dead"
  /\ mode \in Modes

\* Neither callbacks, tasks and jobs nor other threads can make the loop enter the
\* drain and the scheduler at once, and nothing else ends its thread.
THEOREM OneAtATimeAlways == LoopSpec => []OneAtATime
<1>1. LoopInit => OneAtATime
  BY DEF LoopInit, Init, SchedInit, OneAtATime, Modes
<1>2. OneAtATime /\ [LoopNext]_loopVars => OneAtATime'
  <2> SUFFICES ASSUME OneAtATime, [LoopNext]_loopVars PROVE OneAtATime'
    OBVIOUS
  <2>1. CASE Run \/ Exit \/ Pulse \/ Wake \/ Stop \/ UNCHANGED loopVars
    BY <2>1 DEF Run, Exit, Pulse, Wake, Stop, loopVars, busVars, schedVars,
                OneAtATime
  <2>2. CASE BeginTick
    BY <2>2 DEF BeginTick, DrainBegins, schedVars, OneAtATime, Modes
  <2>3. CASE Drain
    BY <2>3 DEF Drain, DrainStep, DrainPops, PopReturns, PopRaises, Deliver,
                DeliveryEnds, DrainEnds, HandOut, schedVars, OneAtATime, Modes
  <2>4. CASE Tick
    BY <2>4 DEF Tick, TickStep, TickTask, TaskEnds, TickNoTask, PopJob, JobEnds,
                TickEnds, busVars, OneAtATime
  <2>5. CASE Calls
    BY <2>5 DEF Calls, ThreadStep, Construct, Publish, PublishEnds, SubmitTask,
                ScheduleJob, busVars, schedVars, tickVars, OneAtATime
  <2>6. CASE Others
    BY <2>6 DEF Others, ThreadStep, Construct, Publish, PublishEnds, schedVars,
                OneAtATime
  <2>7. CASE Time
    BY <2>7 DEF Time, Advance, busVars, tickVars, OneAtATime
  <2> QED  BY <2>1, <2>2, <2>3, <2>4, <2>5, <2>6, <2>7 DEF LoopNext, LoopStep
<1> QED  BY <1>1, <1>2, PTL DEF LoopSpec

\* A loop whose bus no other thread publishes on dies only of two jobs that cannot
\* be compared.
THEOREM DiesOnlyOfTies ==
  ASSUME Publishers = {} PROVE LoopSpec => [](at = "dead" => step = "dead")
<1>1. [Next]_busVars => [Next /\ \A t \in Publishers : built'[t] = None]_busVars
  OBVIOUS
<1>2. BusSpec => AloneSpec
  BY <1>1, PTL DEF BusSpec, AloneSpec
<1>3. OneAtATime /\ mode # "dead" => (at = "dead" => step = "dead")
  BY DEF OneAtATime
<1> QED  BY <1>2, <1>3, LoopImplementsParts, OneAtATimeAlways, AloneNeverDies, PTL
=============================================================================
