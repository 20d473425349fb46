---------------------------- MODULE JobLifecycle ----------------------------
(***************************************************************************)
(* What services/job_queue.py promises the components that submit work,    *)
(* with no queue, clock, lock or thread in it: a job is accepted once, at  *)
(* most one job runs at a time, every run is counted, a job that fails is  *)
(* put back until its attempts are used up, a waiting job can be           *)
(* cancelled, and a settled job stays settled.                             *)
(*                                                                         *)
(* The module JobQueue implements it (JobQueue!Abstract).                  *)
(***************************************************************************)
EXTENDS Integers

CONSTANTS Jobs,          \* job identities (Job.job_id)
          RetryLimits    \* the values of max_retries

VARIABLES life,          \* where the job is in its life
          tries,         \* attempts made so far
          quota          \* the job's max_retries: the code counts attempts

absVars == <<life, tries, quota>>

Lives   == {"unborn", "waiting", "running", "done", "failed", "cancelled"}
Settled == {"done", "failed", "cancelled"}

AbsInit ==
  /\ life  = [j \in Jobs |-> "unborn"]
  /\ tries = [j \in Jobs |-> 0]
  /\ quota \in [Jobs -> RetryLimits]

\* The queue takes responsibility for j.
Accept(j) ==
  /\ life[j] = "unborn"
  /\ life' = [life EXCEPT ![j] = "waiting"]
  /\ UNCHANGED <<tries, quota>>

\* j is executed; nothing else is running.
Begin(j) ==
  /\ life[j] = "waiting"
  /\ \A k \in Jobs : life[k] # "running"
  /\ life'  = [life EXCEPT ![j] = "running"]
  /\ tries' = [tries EXCEPT ![j] = @ + 1]
  /\ UNCHANGED quota

Succeed(j) ==
  /\ life[j] = "running"
  /\ life' = [life EXCEPT ![j] = "done"]
  /\ UNCHANGED <<tries, quota>>

\* A failed run: back to waiting while attempts are left, else failed.
Fail(j) ==
  /\ life[j] = "running"
  /\ life' = [life EXCEPT ![j] = IF tries[j] < quota[j] THEN "waiting"
                                                        ELSE "failed"]
  /\ UNCHANGED <<tries, quota>>

Cancelled(j) ==
  /\ life[j] = "waiting"
  /\ life' = [life EXCEPT ![j] = "cancelled"]
  /\ UNCHANGED <<tries, quota>>

AbsNext == \E j \in Jobs : \/ Accept(j) \/ Begin(j)
                           \/ Succeed(j) \/ Fail(j) \/ Cancelled(j)

AbsSpec == AbsInit /\ [][AbsNext]_absVars
=============================================================================
