----------------------------- MODULE Scheduler -----------------------------
(***************************************************************************)
(* kernel/scheduler.py: one-shot tasks and periodic jobs.                  *)
(*                                                                         *)
(* All of it runs in the kernel loop's thread: tick() calls one task and   *)
(* every job that is due, and tasks and jobs may themselves submit tasks   *)
(* and schedule jobs.  Time goes on while they run.  A job entry is the    *)
(* list [next_run, interval_ms, job]; entries that agree in the first two  *)
(* are ordered by comparing the callables, which Python refuses with a     *)
(* TypeError unless they are the same callable.                            *)
(***************************************************************************)
EXTENDS Integers, FiniteSets

CONSTANTS
  Callables,       \* what schedule_job is called with
  Intervals,       \* values of interval_ms in use
  TaskPriorities,  \* values of submit_task's priority in use
  MaxTasks,        \* bound: tasks submitted
  MaxEntries,      \* bound: jobs scheduled
  MaxClock,        \* bound: the clock stops here
  Nothing          \* no task or entry in hand

\* schedule_job rejects intervals below 1. In a heap of at most three entries
\* every entry's only ancestor is the root, which is what RootTies relies on.
ASSUME SchedulerAssumption ==
  /\ Intervals \subseteq Nat \ {0}
  /\ TaskPriorities \subseteq Int
  /\ MaxTasks \in Nat /\ MaxEntries \in 0..3 /\ MaxClock \in Nat

VARIABLES
  clock,      \* time.monotonic(), in ms
  taskCount,  \* _TaskEntry._counter
  tasks,      \* _task_queue: records of priority and seq
  entries,    \* _job_queue: records of id, next, interval and job
  scheduled,  \* jobs scheduled so far; their entries are numbered
  step,       \* tick(): out, task, jobs, job, or dead
  now,        \* tick()'s one reading of the clock
  inHand,     \* the task or entry being run
  ran,        \* tick()'s return value is not zero
  lastRun     \* the reading of the clock each entry was last run at

schedVars == <<clock, taskCount, tasks, entries, scheduled, step, now, inHand,
               ran, lastRun>>
tickVars  == <<step, now, inHand, ran, lastRun>>

TaskSet  == [priority : TaskPriorities, seq : 1..MaxTasks]
EntrySet == [id : 1..MaxEntries, next : Nat, interval : Intervals,
             job : Callables]

SchedTypeOK ==
  /\ clock \in 0..MaxClock /\ now \in 0..MaxClock
  /\ taskCount \in 0..MaxTasks /\ scheduled \in 0..MaxEntries
  /\ tasks \subseteq TaskSet /\ entries \subseteq EntrySet
  /\ step \in {"out", "task", "jobs", "job", "dead"}
  /\ inHand \in TaskSet \cup EntrySet \cup {Nothing}
  /\ ran \in BOOLEAN
  /\ lastRun \in [1..MaxEntries -> Int]

-----------------------------------------------------------------------------
\* _TaskEntry.__lt__
Sooner(a, b) == \/ a.priority < b.priority
                \/ a.priority = b.priority /\ a.seq < b.seq

\* Comparing two entries as lists. Ties is the comparison that raises.
Earlier(e, f) == \/ e.next < f.next
                 \/ e.next = f.next /\ e.interval < f.interval
Ties(e, f) == e.next = f.next /\ e.interval = f.interval /\ e.job # f.job

Roots(q) == {e \in q : \A f \in q : ~ Earlier(f, e)}

\* heappush compares the new entry with the root; heappop, if two entries
\* remain, compares those.
RootTies(q, e) == \E r \in Roots(q) : Ties(r, e)
RestTies(q)    == \E e, f \in q : Ties(e, f)

SchedInit ==
  /\ clock = 0 /\ taskCount = 0 /\ tasks = {} /\ entries = {} /\ scheduled = 0
  /\ step = "out" /\ now = 0 /\ inHand = Nothing /\ ran = FALSE
  /\ lastRun = [i \in 1..MaxEntries |-> -1]

\* submit_task, from the loop's thread: between ticks or inside a task or job.
SubmitTask(p) ==
  /\ step \in {"out", "task", "job"}
  /\ taskCount < MaxTasks
  /\ taskCount' = taskCount + 1
  /\ tasks' = tasks \cup {[priority |-> p, seq |-> taskCount + 1]}
  /\ UNCHANGED <<clock, entries, scheduled, tickVars>>

\* schedule_job. On a tie the caller gets the TypeError and the entry stays.
ScheduleJob(c, ms) ==
  /\ step \in {"out", "task", "job"}
  /\ scheduled < MaxEntries
  /\ scheduled' = scheduled + 1
  /\ entries' = entries \cup {[id |-> scheduled + 1, next |-> clock + ms,
                               interval |-> ms, job |-> c]}
  /\ UNCHANGED <<clock, taskCount, tasks, tickVars>>

-----------------------------------------------------------------------------
(* tick()                                                                  *)

\* Take the most urgent task.
TickTask ==
  /\ step = "out" /\ tasks # {}
  /\ step' = "task" /\ ran' = FALSE
  /\ \E t \in tasks : /\ \A u \in tasks \ {t} : Sooner(t, u)
                      /\ inHand' = t /\ tasks' = tasks \ {t}
  /\ UNCHANGED <<clock, taskCount, entries, scheduled, now, lastRun>>

\* The task returned or raised. The clock is read once, for all jobs.
TaskEnds ==
  /\ step = "task"
  /\ step' = "jobs" /\ now' = clock /\ inHand' = Nothing
  /\ ran' \in BOOLEAN
  /\ UNCHANGED <<clock, taskCount, tasks, entries, scheduled, lastRun>>

\* A fault: a tick that does not look at the task queue.
TickNoTask_Blind ==
  /\ step = "out"
  /\ step' = "jobs" /\ now' = clock /\ ran' = FALSE
  /\ UNCHANGED <<clock, taskCount, tasks, entries, scheduled, inHand, lastRun>>

TickNoTask ==
  /\ step = "out" /\ tasks = {}
  /\ step' = "jobs" /\ now' = clock /\ ran' = FALSE
  /\ UNCHANGED <<clock, taskCount, tasks, entries, scheduled, inHand, lastRun>>

DueNow(e) == e.next <= now

\* Pop a due entry; the pop raises if the entries that remain cannot be compared.
PopJob ==
  /\ step = "jobs"
  /\ \E e \in Roots(entries) :
       /\ DueNow(e)
       /\ entries' = entries \ {e}
       /\ inHand' = e
       /\ IF RestTies(entries')
            THEN step' = "dead" /\ UNCHANGED lastRun
            ELSE /\ step' = "job"
                 /\ lastRun' = [lastRun EXCEPT ![e.id] = now]
  /\ UNCHANGED <<clock, taskCount, tasks, scheduled, now, ran>>

\* A fault: the next run is counted from the time the last one was due.
NextRun_FromDue(e) == e.next + e.interval

\* When an entry that was just run is due again.
NextRun(e) == now + e.interval

\* A fault: a job that raised is not scheduled again.
Rescheduled_OnSuccess(e, outcome) ==
  IF outcome = "raises" THEN {} ELSE {[e EXCEPT !.next = NextRun(e)]}

\* The entry pushed back after its job returned or raised.
Rescheduled(e, outcome) == {[e EXCEPT !.next = NextRun(e)]}

\* The job returned or raised; its entry is pushed back. The push raises if the
\* entry ties with the root.
JobEnds ==
  /\ step = "job"
  /\ \E outcome \in {"returns", "raises"} :
       LET again == Rescheduled(inHand, outcome) IN
       /\ ran' = (ran \/ outcome = "returns")
       /\ entries' = entries \cup again
       /\ step' = IF \E e \in again : RootTies(entries, e) THEN "dead" ELSE "jobs"
  /\ inHand' = Nothing
  /\ UNCHANGED <<clock, taskCount, tasks, scheduled, now, lastRun>>

\* No entry is due: tick() returns.
TickEnds ==
  /\ step = "jobs"
  /\ \A e \in entries : ~ DueNow(e)
  /\ step' = "out"
  /\ UNCHANGED <<clock, taskCount, tasks, entries, scheduled, now, inHand, ran,
                 lastRun>>

Advance ==
  /\ clock < MaxClock
  /\ clock' = clock + 1
  /\ UNCHANGED <<taskCount, tasks, entries, scheduled, tickVars>>

TickStep == TickTask \/ TaskEnds \/ TickNoTask \/ PopJob \/ JobEnds \/ TickEnds

SchedNext ==
  \/ TickStep \/ Advance
  \/ \E p \in TaskPriorities : SubmitTask(p)
  \/ \E c \in Callables, ms \in Intervals : ScheduleJob(c, ms)

SchedSpec == SchedInit /\ [][SchedNext]_schedVars

\* The loop calls tick() again and again, and tasks and jobs return.
SchedFairSpec == SchedSpec /\ WF_schedVars(TickStep)

-----------------------------------------------------------------------------
(* Properties.                                                             *)

\* Two runs of an entry are its interval apart, however late the first was and
\* however long the jobs before it took: the clock is read once in a tick, and
\* the next run is counted from that reading.
Spaced ==
  [][step = "jobs" /\ step' = "job" /\ lastRun[inHand'.id] >= 0 =>
       now - lastRun[inHand'.id] >= inHand'.interval]_schedVars

\* A periodic job stays scheduled, whether it returns or raises and whatever else
\* is scheduled while it runs.
StaysScheduled ==
  step # "dead" =>
    \A i \in 1..scheduled :
      \/ step = "job" /\ inHand.id = i
      \/ \E e \in entries : e.id = i

\* Every task submitted is taken up in the end, also one that waits behind a more
\* urgent one or follows one that raised. It takes ticks that end: jobs that come
\* due while a tick runs its jobs do not keep it going.
TasksRun ==
  \A n \in 1..MaxTasks :
    (\E t \in tasks : t.seq = n) ~> (step = "dead" \/ (step = "task" /\ inHand.seq = n))
=============================================================================
