------------------------------ MODULE JobQueue ------------------------------
(***************************************************************************)
(* services/job_queue.py: the prioritised job queue with retries.          *)
(*                                                                         *)
(* Threads.  submit() and cancel() are called from any thread (the health  *)
(* monitor, the shell, the command channel); _drain_one() runs only in the *)
(* kernel loop's thread, as a periodic job of the scheduler, so there is   *)
(* one drain and it is sequential.  The lock protects the heap and nothing *)
(* else: every method is split where another thread can get in between.    *)
(***************************************************************************)
EXTENDS Integers, Sequences, FiniteSets

CONSTANTS
  Jobs,          \* job identities; each is submitted at most once (uuid4)
  Priorities,    \* priorities in use, lower is more urgent
  RetryLimits,   \* values of max_retries in use
  Delays,        \* values of delay_s in use
  MaxHistory,    \* _max_history
  MaxClock,      \* bound: an idle clock stops here
  NoJob          \* the drain holds no job

ASSUME JobQueueAssumption ==
  /\ Priorities \subseteq Int
  /\ RetryLimits \subseteq Int
  /\ Delays \subseteq Nat
  /\ MaxHistory \in Nat \ {0}
  /\ MaxClock \in Nat
  /\ NoJob \notin Jobs

VARIABLES
  clock,     \* time.monotonic(), in seconds
  on,        \* JobQueue._running
  counter,   \* JobQueue._seq
  phase,     \* how far submit() has got with each job
  state,     \* Job.state
  attempts,  \* Job.attempts
  limit,     \* Job.max_retries
  prio,      \* Job.priority
  seqno,     \* Job._seq
  due,       \* Job.next_run_at
  queue,     \* JobQueue._queue: the jobs in the heap
  active,    \* JobQueue._active
  history,   \* JobQueue._history, oldest first
  pc, hand,  \* _drain_one(): its next step, and the job it holds
  cut,       \* ... and the slice of the history it is about to assign
  trail      \* events published about each job, in order

jobVars   == <<limit, prio>>
drainVars == <<pc, hand, cut>>
vars == <<clock, on, counter, phase, state, attempts, limit, prio, seqno,
          due, queue, active, history, pc, hand, cut, trail>>

Phases  == {"none", "numbered", "built", "pushed", "submitted"}
States  == {"queued", "running", "retrying", "done", "failed", "cancelled"}
Final   == {"done", "failed", "cancelled"}
Steps   == {"idle", "popped", "running", "requeue", "release", "finish",
            "record", "trim", "assign"}
Kinds   == {"JOB_QUEUED", "JOB_STARTED", "JOB_COMPLETE", "JOB_FAILED",
            "JOB_RETRYING"}

\* A fault: cancel also finds the job that is running.
InHeap_OrActive(j) == j \in queue \cup active

InHeap(j) == j \in queue
Owned(j)  == phase[j] \in {"pushed", "submitted"}

\* What the drain has appended to the history and not yet trimmed.
Excess == IF pc \in {"trim", "assign"} THEN 1 ELSE 0

TypeOK ==
  /\ clock \in Nat /\ on \in BOOLEAN /\ counter \in Nat
  /\ phase \in [Jobs -> Phases]
  /\ state \in [Jobs -> States]
  /\ attempts \in [Jobs -> Nat]
  /\ limit \in [Jobs -> RetryLimits]
  /\ prio \in [Jobs -> Priorities]
  /\ seqno \in [Jobs -> Nat]
  /\ due \in [Jobs -> Int]
  /\ queue \subseteq Jobs
  /\ active \subseteq Jobs
  /\ history \in Seq(Jobs) /\ Len(history) <= MaxHistory + Excess
  /\ cut \in Seq(Jobs) /\ Len(cut) <= MaxHistory
  /\ pc \in Steps
  /\ hand \in Jobs \cup {NoJob}
  /\ trail \in [Jobs -> Seq(Kinds)]

Publish(j, kind) == trail' = [trail EXCEPT ![j] = Append(@, kind)]

-----------------------------------------------------------------------------
(* The heap's order, the back-off and the history ring.                    *)

\* Job.__lt__
Before(j, k) ==
  \/ due[j] < due[k]
  \/ due[j] = due[k] /\ prio[j] < prio[k]
  \/ due[j] = due[k] /\ prio[j] = prio[k] /\ seqno[j] < seqno[k]

\* What heappop can return: a job no other precedes.
Heads == {j \in queue : \A k \in queue : ~ Before(k, j)}

\* Seconds before attempt n + 1.
Backoff(n) == 2 ^ n

\* _trim_history applied to an appended history.
Kept(h) == IF Len(h) > MaxHistory
             THEN SubSeq(h, Len(h) - MaxHistory + 1, Len(h))
             ELSE h

-----------------------------------------------------------------------------
Init ==
  /\ clock = 0 /\ on = FALSE /\ counter = 0
  /\ phase = [j \in Jobs |-> "none"]
  /\ state = [j \in Jobs |-> "queued"]
  /\ attempts = [j \in Jobs |-> 0]
  /\ limit \in [Jobs -> RetryLimits]
  /\ prio \in [Jobs -> Priorities]
  /\ seqno = [j \in Jobs |-> 0]
  /\ due = [j \in Jobs |-> 0]
  /\ queue = {} /\ active = {} /\ history = <<>>
  /\ pc = "idle" /\ hand = NoJob /\ cut = <<>>
  /\ trail = [j \in Jobs |-> <<>>]

Start ==
  /\ ~ on
  /\ on' = TRUE
  /\ UNCHANGED <<clock, counter, phase, state, attempts, jobVars, seqno, due,
                 queue, active, history, drainVars, trail>>

Stop ==
  /\ on
  /\ on' = FALSE
  /\ UNCHANGED <<clock, counter, phase, state, attempts, jobVars, seqno, due,
                 queue, active, history, drainVars, trail>>

\* submit: the counter is read, incremented and stored without the lock.
SubmitNumber(j) ==
  /\ phase[j] = "none"
  /\ phase' = [phase EXCEPT ![j] = "numbered"]
  /\ counter' = counter + 1
  /\ UNCHANGED <<clock, on, state, attempts, jobVars, seqno, due, queue,
                 active, history, drainVars, trail>>

\* submit: the Job is built; _seq is read again, after the clock.
SubmitBuild(j) ==
  /\ phase[j] = "numbered"
  /\ phase' = [phase EXCEPT ![j] = "built"]
  /\ seqno' = [seqno EXCEPT ![j] = counter]
  /\ \E d \in Delays : due' = [due EXCEPT ![j] = clock + d]
  /\ UNCHANGED <<clock, on, counter, state, attempts, jobVars, queue, active,
                 history, drainVars, trail>>

\* submit: heappush under the lock.
SubmitPush(j) ==
  /\ phase[j] = "built"
  /\ phase' = [phase EXCEPT ![j] = "pushed"]
  /\ queue' = queue \cup {j}
  /\ UNCHANGED <<clock, on, counter, state, attempts, jobVars, seqno, due,
                 active, history, drainVars, trail>>

\* submit: JOB_QUEUED is published after the lock is released.
SubmitPublish(j) ==
  /\ phase[j] = "pushed"
  /\ phase' = [phase EXCEPT ![j] = "submitted"]
  /\ Publish(j, "JOB_QUEUED")
  /\ UNCHANGED <<clock, on, counter, state, attempts, jobVars, seqno, due,
                 queue, active, history, drainVars>>

\* cancel, all of it under the lock; it publishes nothing.
Cancel(j) ==
  /\ InHeap(j)
  /\ queue' = queue \ {j}
  /\ state' = [state EXCEPT ![j] = "cancelled"]
  /\ history' = Kept(Append(history, j))
  /\ UNCHANGED <<clock, on, counter, phase, attempts, jobVars, seqno, due,
                 active, drainVars, trail>>

-----------------------------------------------------------------------------
(* _drain_one(), in the kernel loop's thread.                              *)

\* Take the head of the heap, under the lock, if it is due.
DrainPop ==
  /\ pc = "idle" /\ on
  /\ \E j \in Heads :
       /\ due[j] <= clock
       /\ queue' = queue \ {j}
       /\ hand' = j
  /\ pc' = "popped"
  /\ UNCHANGED <<clock, on, counter, phase, state, attempts, jobVars, seqno,
                 due, active, history, cut, trail>>

\* Mark it running, count the attempt, announce it.
DrainBegin ==
  /\ pc = "popped"
  /\ pc' = "running"
  /\ state' = [state EXCEPT ![hand] = "running"]
  /\ attempts' = [attempts EXCEPT ![hand] = @ + 1]
  /\ active' = active \cup {hand}
  /\ Publish(hand, "JOB_STARTED")
  /\ UNCHANGED <<clock, on, counter, phase, jobVars, seqno, due, queue,
                 history, hand, cut>>

\* job.fn() returns.
RunSucceeds ==
  /\ pc = "running"
  /\ pc' = "finish"
  /\ state' = [state EXCEPT ![hand] = "done"]
  /\ Publish(hand, "JOB_COMPLETE")
  /\ UNCHANGED <<clock, on, counter, phase, attempts, jobVars, seqno, due,
                 queue, active, history, hand, cut>>

\* job.fn() raises and attempts are left: back off, then queue it again.
RunFailsRetry ==
  /\ pc = "running"
  /\ attempts[hand] < limit[hand]
  /\ pc' = "requeue"
  /\ due' = [due EXCEPT ![hand] = clock + Backoff(attempts[hand])]
  /\ state' = [state EXCEPT ![hand] = "retrying"]
  /\ Publish(hand, "JOB_RETRYING")
  /\ UNCHANGED <<clock, on, counter, phase, attempts, jobVars, seqno, queue,
                 active, history, hand, cut>>

\* job.fn() raises on the last attempt.
RunFailsFinal ==
  /\ pc = "running"
  /\ ~ (attempts[hand] < limit[hand])
  /\ pc' = "finish"
  /\ state' = [state EXCEPT ![hand] = "failed"]
  /\ Publish(hand, "JOB_FAILED")
  /\ UNCHANGED <<clock, on, counter, phase, attempts, jobVars, seqno, due,
                 queue, active, history, hand, cut>>

\* A fault: the retry is announced and never pushed.
DrainRequeue_Forgets ==
  /\ pc = "requeue"
  /\ pc' = "release"
  /\ UNCHANGED <<clock, on, counter, phase, state, attempts, jobVars, seqno,
                 due, queue, active, history, hand, cut, trail>>

\* The retry is pushed under the lock while it is still listed as active.
DrainRequeue ==
  /\ pc = "requeue"
  /\ pc' = "release"
  /\ queue' = queue \cup {hand}
  /\ UNCHANGED <<clock, on, counter, phase, state, attempts, jobVars, seqno,
                 due, active, history, hand, cut, trail>>

\* del self._active[...] and return.
DrainRelease ==
  /\ pc = "release"
  /\ pc' = "idle" /\ hand' = NoJob
  /\ active' = active \ {hand}
  /\ UNCHANGED <<clock, on, counter, phase, state, attempts, jobVars, seqno,
                 due, queue, history, cut, trail>>

\* del self._active[...] of a settled job ...
DrainFinish ==
  /\ pc = "finish"
  /\ pc' = "record"
  /\ active' = active \ {hand}
  /\ UNCHANGED <<clock, on, counter, phase, state, attempts, jobVars, seqno,
                 due, queue, history, hand, cut, trail>>

\* ... its entry in the history, without the lock ...
DrainRecord ==
  /\ pc = "record"
  /\ pc' = "trim"
  /\ history' = Append(history, hand)
  /\ UNCHANGED <<clock, on, counter, phase, state, attempts, jobVars, seqno,
                 due, queue, active, hand, cut, trail>>

\* ... and _trim_history: the slice of an overfull history is taken ...
DrainTrim ==
  /\ pc = "trim"
  /\ IF Len(history) > MaxHistory
       THEN pc' = "assign" /\ cut' = Kept(history) /\ hand' = hand
       ELSE pc' = "idle" /\ hand' = NoJob /\ cut' = cut
  /\ UNCHANGED <<clock, on, counter, phase, state, attempts, jobVars, seqno,
                 due, queue, active, history, trail>>

\* ... and assigned: what cancel() recorded in between is gone.
DrainAssign ==
  /\ pc = "assign"
  /\ pc' = "idle" /\ hand' = NoJob /\ cut' = <<>>
  /\ history' = cut
  /\ UNCHANGED <<clock, on, counter, phase, state, attempts, jobVars, seqno,
                 due, queue, active, trail>>

\* Time passes. An idle clock is stopped at MaxClock; it never stops short of
\* the moment the next queued job is due.
Advance ==
  /\ clock < MaxClock \/ \E j \in queue : due[j] > clock
  /\ clock' = clock + 1
  /\ UNCHANGED <<on, counter, phase, state, attempts, jobVars, seqno, due,
                 queue, active, history, drainVars, trail>>

RunEnds == RunSucceeds \/ RunFailsRetry \/ RunFailsFinal
DrainStep ==
  \/ DrainPop \/ DrainBegin \/ RunEnds \/ DrainRequeue \/ DrainRelease
  \/ DrainFinish \/ DrainRecord \/ DrainTrim \/ DrainAssign
SubmitStep(j) ==
  SubmitNumber(j) \/ SubmitBuild(j) \/ SubmitPush(j) \/ SubmitPublish(j)

Next ==
  \/ Start \/ Stop \/ Advance \/ DrainStep
  \/ \E j \in Jobs : SubmitStep(j) \/ Cancel(j)

Spec == Init /\ [][Next]_vars

\* The kernel loop keeps calling _drain_one every 100 ms, time passes, and a
\* submitted callable "must not block indefinitely" (submit's docstring).
Fairness == WF_vars(DrainStep) /\ WF_vars(Advance)
FairSpec == Spec /\ Fairness
-----------------------------------------------------------------------------
(* Properties.                                                             *)

IsFinal(j) == state[j] \in Final
Waiting(j) == Owned(j) /\ state[j] \in {"queued", "retrying"}

\* No job is lost and none is held twice: a job that was pushed and is not
\* settled is in the heap or in the drain's hands, never in both (except while
\* the drain lets go of a retry it has already pushed), and the history lists
\* settled jobs only.
Conserved ==
  \A j \in Jobs :
    /\ Waiting(j) => j \in queue \/ (hand = j /\ pc \in {"popped", "requeue"})
    /\ j \in queue => Waiting(j) /\ (hand = j => pc = "release")
    /\ (\E i \in DOMAIN history : history[i] = j) => IsFinal(j)

\* "How many times to retry on failure" (submit's docstring): a job that ends
\* failed has been run once and retried max_retries times. The code compares
\* max_retries with the attempts made, the first one included.
RetriedAsDocumented ==
  \A j \in Jobs : state[j] = "failed" => attempts[j] = limit[j] + 1

\* Cancelled, done and failed are for ever: whatever the drain was doing with
\* the job when it was cancelled, it neither runs nor changes state again.
KeepsVerdicts ==
  \A j \in Jobs : IsFinal(j) => state'[j] = state[j] /\ attempts'[j] = attempts[j]
SettledForever == [][KeepsVerdicts]_vars

Life(j) == IF ~ Owned(j) THEN "unborn"
           ELSE IF state[j] \in {"queued", "retrying"} THEN "waiting"
           ELSE state[j]

Abstract == INSTANCE JobLifecycle
              WITH life  <- [j \in Jobs |-> Life(j)],
                   tries <- attempts,
                   quota <- limit

\* The queue implements the life cycle it promises.
Lifecycle == Abstract!AbsSpec

\* While the queue stays started, a queued job is eventually settled: neither
\* priorities nor the back-off starve it.
EverySettles == <>[]on => \A j \in Jobs : [](j \in queue => <>IsFinal(j))
=============================================================================
