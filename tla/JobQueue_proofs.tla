--------------------------- MODULE JobQueue_proofs --------------------------
(***************************************************************************)
(* Proofs about JobQueue, for every set of jobs, priorities, retry limits  *)
(* and delays: the types, the conservation of jobs, the finality of        *)
(* verdicts, and the refinement of JobLifecycle.                           *)
(***************************************************************************)
EXTENDS JobQueue, SequenceTheorems, TLAPS

\* What the drain knows of the job it holds, at each of its steps.
HandOK ==
  /\ pc = "idle" <=> hand = NoJob
  /\ pc = "popped" => Waiting(hand) /\ hand \notin queue
  /\ pc = "running" => Owned(hand) /\ state[hand] = "running" /\ hand \notin queue
  /\ pc = "requeue" => /\ Owned(hand) /\ state[hand] = "retrying"
                       /\ hand \notin queue /\ attempts[hand] < limit[hand]
  /\ pc = "release" => Owned(hand) /\ state[hand] \in {"retrying", "cancelled"}
  /\ pc \in {"finish", "record", "trim", "assign"} => Owned(hand) /\ state[hand] \in {"done", "failed"}

\* What is true of every job, whoever holds it.
JobOK(j) ==
  /\ ~ Owned(j) => state[j] = "queued" /\ attempts[j] = 0 /\ hand # j
  /\ state[j] = "running" => pc = "running" /\ hand = j
  /\ j \in queue => Waiting(j) /\ (hand = j => pc = "release")
  /\ Waiting(j) => j \in queue \/ (hand = j /\ pc \in {"popped", "requeue"})
  /\ Waiting(j) => attempts[j] = 0 \/ attempts[j] < limit[j]
  /\ attempts[j] <= 1 \/ attempts[j] <= limit[j]

JobsOK    == \A j \in Jobs : JobOK(j)
HistoryOK ==
  /\ \A i \in DOMAIN history : IsFinal(history[i])
  /\ \A i \in DOMAIN cut : IsFinal(cut[i])

\* The inductive invariant.
IInv == TypeOK /\ HandOK /\ JobsOK /\ HistoryOK

-----------------------------------------------------------------------------
(* Lemmas about the helpers.                                               *)

\* _trim_history keeps a suffix: what is left is no longer than allowed and
\* lists nothing that was not there.
LEMMA KeptOK ==
  ASSUME NEW S, NEW g \in Seq(S)
  PROVE  /\ Kept(g) \in Seq(S)
         /\ Len(Kept(g)) <= MaxHistory
         /\ \A i \in DOMAIN Kept(g) : \E k \in DOMAIN g : Kept(g)[i] = g[k]
<1>1. MaxHistory \in Nat \ {0} /\ Len(g) \in Nat
  BY JobQueueAssumption
<1>2. CASE Len(g) > MaxHistory
  <2> DEFINE m == Len(g) - MaxHistory + 1
             r == SubSeq(g, m, Len(g))
  <2>1. m \in 1..Len(g) /\ Len(g) - m + 1 = MaxHistory
    BY <1>1, <1>2
  <2>2. r \in Seq(S) /\ Len(r) = MaxHistory
        /\ \A i \in 1..MaxHistory : r[i] = g[m + i - 1]
    BY <1>1, <2>1, SubSeqProperties
  <2>3. \A i \in 1..MaxHistory : m + i - 1 \in DOMAIN g
    BY <1>1, <2>1
  <2>4. Kept(g) = r
    BY <1>2 DEF Kept
  <2> HIDE DEF r, m
  <2>5. DOMAIN r = 1..MaxHistory
    BY <2>2
  <2> QED  BY <1>1, <2>2, <2>3, <2>4, <2>5
<1>3. CASE ~ (Len(g) > MaxHistory)
  BY <1>1, <1>3 DEF Kept
<1> QED  BY <1>2, <1>3

\* An entry of a history with one job appended is that job or was there.
LEMMA Appended ==
  ASSUME NEW h \in Seq(Jobs), NEW x \in Jobs
  PROVE  /\ Append(h, x) \in Seq(Jobs) /\ Len(Append(h, x)) = Len(h) + 1
         /\ \A i \in DOMAIN Append(h, x) :
              Append(h, x)[i] = x \/ \E k \in DOMAIN h : Append(h, x)[i] = h[k]
OBVIOUS

\* The back-off is a number of seconds.
LEMMA BackoffInt == ASSUME NEW n \in Nat PROVE Backoff(n) \in Int
BY DEF Backoff

\* Publishing appends an event to the trail of one job.
LEMMA PublishTyped ==
  ASSUME NEW j \in Jobs, NEW kind \in Kinds, trail \in [Jobs -> Seq(Kinds)],
         Publish(j, kind)
  PROVE  trail' \in [Jobs -> Seq(Kinds)]
BY DEF Publish

\* A job the drain holds is a job, and a job in the history is one.
LEMMA HandIsJob == TypeOK /\ HandOK /\ pc # "idle" => hand \in Jobs
BY DEF TypeOK, HandOK

LEMMA HistoryJobs ==
  TypeOK => /\ \A i \in DOMAIN history : history[i] \in Jobs
            /\ \A i \in DOMAIN cut : cut[i] \in Jobs
BY DEF TypeOK

-----------------------------------------------------------------------------
(* The invariant is inductive.                                             *)

LEMMA InitInv == Init => IInv
<1> SUFFICES ASSUME Init PROVE IInv
  OBVIOUS
<1>1. TypeOK
  <2>1. /\ history \in Seq(Jobs) /\ Len(history) <= MaxHistory + Excess
        /\ cut \in Seq(Jobs) /\ Len(cut) <= MaxHistory
    BY JobQueueAssumption DEF Init, Excess
  <2>2. trail \in [Jobs -> Seq(Kinds)]
    <3>1. <<>> \in Seq(Kinds)
      OBVIOUS
    <3>2. trail = [j \in Jobs |-> <<>>]
      BY DEF Init
    <3> QED  BY <3>1, <3>2, Zenon
  <2>3. /\ clock \in Nat /\ on \in BOOLEAN /\ counter \in Nat
        /\ phase \in [Jobs -> Phases] /\ state \in [Jobs -> States]
    BY DEF Init, Phases, States
  <2>4. /\ limit \in [Jobs -> RetryLimits] /\ prio \in [Jobs -> Priorities]
        /\ queue \subseteq Jobs /\ active \subseteq Jobs
        /\ pc \in Steps /\ hand \in Jobs \cup {NoJob}
    BY DEF Init, Steps
  <2>5. /\ attempts \in [Jobs -> Nat] /\ seqno \in [Jobs -> Nat]
        /\ due \in [Jobs -> Int]
    BY DEF Init
  <2> QED  BY <2>1, <2>2, <2>3, <2>4, <2>5 DEF TypeOK
<1>2. HandOK
  BY JobQueueAssumption DEF Init, HandOK
<1>3. JobsOK
  BY JobQueueAssumption DEF Init, JobsOK, JobOK, Owned, Waiting
<1>4. HistoryOK
  BY DEF Init, HistoryOK
<1> QED  BY <1>1, <1>2, <1>3, <1>4 DEF IInv

LEMMA StepInv == IInv /\ [Next]_vars => IInv'
<1> SUFFICES ASSUME IInv, [Next]_vars PROVE IInv'
  OBVIOUS
<1> USE DEF IInv
<1>1. CASE Start \/ Stop \/ Advance \/ UNCHANGED vars
  <2>1. TypeOK'
    <3>1. /\ clock' \in Nat /\ on' \in BOOLEAN
          /\ UNCHANGED <<counter, phase, state, attempts, limit, prio, seqno, due>>
          /\ UNCHANGED <<queue, active, history, pc, hand, cut, trail>>
      <4>1. CASE Start \/ Stop
        BY <4>1 DEF Start, Stop, TypeOK, jobVars, drainVars
      <4>2. CASE Advance
        BY <4>2 DEF Advance, TypeOK, jobVars, drainVars
      <4>3. CASE UNCHANGED vars
        BY <4>3 DEF vars, TypeOK, jobVars, drainVars
      <4> QED  BY <1>1, <4>1, <4>2, <4>3
    <3> QED  BY <3>1 DEF TypeOK, Excess
  <2>2. HandOK'
    BY <1>1
       DEF Start, Stop, Advance, vars, HandOK, JobOK, Owned, Waiting, jobVars,
           drainVars
  <2>3. JobsOK'
    BY <1>1
       DEF Start, Stop, Advance, vars, JobsOK, JobOK, Owned, Waiting, jobVars,
           drainVars
  <2>4. HistoryOK'
    BY <1>1 DEF Start, Stop, Advance, vars, drainVars, HistoryOK, IsFinal
  <2> QED  BY <2>1, <2>2, <2>3, <2>4
<1>2. CASE DrainPop
  <2>1. TypeOK'
    BY <1>2, JobQueueAssumption
       DEF DrainPop, Heads, TypeOK, Excess, Phases, States, Steps, jobVars, drainVars
  <2>2. HandOK'
    BY <1>2
       DEF DrainPop, Heads, HandOK, JobsOK, JobOK, TypeOK, Owned, Waiting,
           jobVars, drainVars
  <2>3. JobsOK'
    BY <1>2
       DEF DrainPop, Heads, HandOK, JobsOK, JobOK, TypeOK, Owned, Waiting,
           jobVars, drainVars
  <2>4. HistoryOK'
    BY <1>2, HistoryJobs
       DEF DrainPop, HistoryOK, IsFinal, Final, HandOK, JobsOK, JobOK, TypeOK,
           Waiting, jobVars, drainVars
  <2> QED  BY <2>1, <2>2, <2>3, <2>4
<1>3. CASE DrainBegin
  <2>1. hand \in Jobs
    BY <1>3, HandIsJob DEF DrainBegin
  <2>2. trail' \in [Jobs -> Seq(Kinds)]
    BY <1>3, <2>1, PublishTyped DEF DrainBegin, TypeOK, Kinds
  <2>3. attempts' \in [Jobs -> Nat] /\ state' \in [Jobs -> States]
    BY <1>3, <2>1 DEF DrainBegin, TypeOK, States
  <2>4. TypeOK'
    BY <1>3, <2>1, <2>2, <2>3, JobQueueAssumption
       DEF DrainBegin, TypeOK, Excess, Phases, States, Steps, jobVars, drainVars
  <2>5. HandOK'
    BY <1>3, <2>1
       DEF DrainBegin, HandOK, JobsOK, JobOK, TypeOK, Owned, Waiting, jobVars,
           drainVars
  <2>6. JobsOK'
    <3>1. attempts[hand] = 0 \/ attempts[hand] < limit[hand]
      BY <1>3, <2>1 DEF DrainBegin, HandOK, JobsOK, JobOK
    <3>2. attempts[hand] \in Nat /\ limit[hand] \in Int
      BY <2>1, JobQueueAssumption DEF TypeOK
    <3>3. JobOK(hand)'
      BY <1>3, <2>1, <3>1, <3>2
         DEF DrainBegin, HandOK, JobOK, TypeOK, Owned, Waiting, jobVars
    <3>4. ASSUME NEW j \in Jobs, j # hand PROVE JobOK(j)'
      BY <1>3, <2>1, <3>4
         DEF DrainBegin, JobsOK, JobOK, TypeOK, Owned, Waiting, jobVars
    <3>5. hand' = hand
      BY <1>3 DEF DrainBegin
    <3> QED  BY <3>3, <3>4, <3>5 DEF JobsOK
  <2>7. HistoryOK'
    BY <1>3, <2>1, HistoryJobs
       DEF DrainBegin, HistoryOK, IsFinal, Final, HandOK, JobsOK, JobOK,
           TypeOK, Waiting, jobVars, drainVars
  <2> QED  BY <2>4, <2>5, <2>6, <2>7
<1>4. CASE RunSucceeds
  <2>1. hand \in Jobs
    BY <1>4, HandIsJob DEF RunSucceeds
  <2>2. trail' \in [Jobs -> Seq(Kinds)]
    BY <1>4, <2>1, PublishTyped DEF RunSucceeds, TypeOK, Kinds
  <2>3. TypeOK'
    BY <1>4, <2>1, <2>2, JobQueueAssumption
       DEF RunSucceeds, TypeOK, Excess, Phases, States, Steps, jobVars, drainVars
  <2>4. HandOK'
    BY <1>4, <2>1
       DEF RunSucceeds, HandOK, JobsOK, JobOK, TypeOK, Owned, Waiting, jobVars,
           drainVars
  <2>5. JobsOK'
    BY <1>4, <2>1
       DEF RunSucceeds, HandOK, JobsOK, JobOK, TypeOK, Owned, Waiting, jobVars,
           drainVars
  <2>6. HistoryOK'
    BY <1>4, <2>1, HistoryJobs
       DEF RunSucceeds, HistoryOK, IsFinal, Final, HandOK, JobsOK, JobOK,
           TypeOK, Waiting, jobVars, drainVars
  <2> QED  BY <2>3, <2>4, <2>5, <2>6
<1>5. CASE RunFailsRetry
  <2>1. hand \in Jobs
    BY <1>5, HandIsJob DEF RunFailsRetry
  <2>2. trail' \in [Jobs -> Seq(Kinds)]
    BY <1>5, <2>1, PublishTyped DEF RunFailsRetry, TypeOK, Kinds
  <2>3. clock + Backoff(attempts[hand]) \in Int
    BY <2>1, BackoffInt DEF TypeOK
  <2>4. TypeOK'
    BY <1>5, <2>1, <2>2, <2>3, JobQueueAssumption
       DEF RunFailsRetry, TypeOK, Excess, Phases, States, Steps, jobVars, drainVars
  <2>5. HandOK'
    BY <1>5, <2>1
       DEF RunFailsRetry, HandOK, JobsOK, JobOK, TypeOK, Owned, Waiting,
           jobVars, drainVars
  <2>6. JobsOK'
    BY <1>5, <2>1
       DEF RunFailsRetry, HandOK, JobsOK, JobOK, TypeOK, Owned, Waiting,
           jobVars, drainVars
  <2>7. HistoryOK'
    BY <1>5, <2>1, HistoryJobs
       DEF RunFailsRetry, HistoryOK, IsFinal, Final, HandOK, JobsOK, JobOK,
           TypeOK, Waiting, jobVars, drainVars
  <2> QED  BY <2>4, <2>5, <2>6, <2>7
<1>6. CASE RunFailsFinal
  <2>1. hand \in Jobs
    BY <1>6, HandIsJob DEF RunFailsFinal
  <2>2. trail' \in [Jobs -> Seq(Kinds)]
    BY <1>6, <2>1, PublishTyped DEF RunFailsFinal, TypeOK, Kinds
  <2>3. TypeOK'
    BY <1>6, <2>1, <2>2, JobQueueAssumption
       DEF RunFailsFinal, TypeOK, Excess, Phases, States, Steps, jobVars, drainVars
  <2>4. HandOK'
    BY <1>6, <2>1
       DEF RunFailsFinal, HandOK, JobsOK, JobOK, TypeOK, Owned, Waiting,
           jobVars, drainVars
  <2>5. JobsOK'
    BY <1>6, <2>1
       DEF RunFailsFinal, HandOK, JobsOK, JobOK, TypeOK, Owned, Waiting,
           jobVars, drainVars
  <2>6. HistoryOK'
    BY <1>6, <2>1, HistoryJobs
       DEF RunFailsFinal, HistoryOK, IsFinal, Final, HandOK, JobsOK, JobOK,
           TypeOK, Waiting, jobVars, drainVars
  <2> QED  BY <2>3, <2>4, <2>5, <2>6
<1>7. CASE DrainRequeue
  <2>1. hand \in Jobs
    BY <1>7, HandIsJob DEF DrainRequeue
  <2>2. TypeOK'
    BY <1>7, <2>1, JobQueueAssumption
       DEF DrainRequeue, TypeOK, Excess, Phases, States, Steps, jobVars, drainVars
  <2>3. HandOK'
    BY <1>7, <2>1
       DEF DrainRequeue, HandOK, JobsOK, JobOK, TypeOK, Owned, Waiting,
           jobVars, drainVars
  <2>4. JobsOK'
    BY <1>7, <2>1
       DEF DrainRequeue, HandOK, JobsOK, JobOK, TypeOK, Owned, Waiting,
           jobVars, drainVars
  <2>5. HistoryOK'
    BY <1>7, <2>1, HistoryJobs
       DEF DrainRequeue, HistoryOK, IsFinal, Final, HandOK, JobsOK, JobOK,
           TypeOK, Waiting, jobVars, drainVars
  <2> QED  BY <2>2, <2>3, <2>4, <2>5
<1>8. CASE DrainRelease
  <2>1. hand \in Jobs
    BY <1>8, HandIsJob DEF DrainRelease
  <2>2. TypeOK'
    BY <1>8, <2>1, JobQueueAssumption
       DEF DrainRelease, TypeOK, Excess, Phases, States, Steps, jobVars, drainVars
  <2>3. HandOK'
    BY <1>8, <2>1
       DEF DrainRelease, HandOK, JobsOK, JobOK, TypeOK, Owned, Waiting,
           jobVars, drainVars
  <2>4. JobsOK'
    BY <1>8, <2>1, JobQueueAssumption
       DEF DrainRelease, HandOK, JobsOK, JobOK, TypeOK, Owned, Waiting,
           jobVars, drainVars
  <2>5. HistoryOK'
    BY <1>8, <2>1, HistoryJobs
       DEF DrainRelease, HistoryOK, IsFinal, Final, HandOK, JobsOK, JobOK,
           TypeOK, Waiting, jobVars, drainVars
  <2> QED  BY <2>2, <2>3, <2>4, <2>5
<1>9. CASE DrainFinish
  <2>1. hand \in Jobs
    BY <1>9, HandIsJob DEF DrainFinish
  <2>2. TypeOK'
    BY <1>9, <2>1, JobQueueAssumption
       DEF DrainFinish, TypeOK, Excess, Phases, States, Steps, jobVars, drainVars
  <2>3. HandOK'
    BY <1>9, <2>1
       DEF DrainFinish, HandOK, JobsOK, JobOK, TypeOK, Owned, Waiting, jobVars,
           drainVars
  <2>4. JobsOK'
    BY <1>9, <2>1
       DEF DrainFinish, HandOK, JobsOK, JobOK, TypeOK, Owned, Waiting, jobVars,
           drainVars
  <2>5. HistoryOK'
    BY <1>9, <2>1, HistoryJobs
       DEF DrainFinish, HistoryOK, IsFinal, Final, HandOK, JobsOK, JobOK,
           TypeOK, Waiting, jobVars, drainVars
  <2> QED  BY <2>2, <2>3, <2>4, <2>5
<1>10. CASE DrainRecord
  <2>1. hand \in Jobs
    BY <1>10, HandIsJob DEF DrainRecord
  <2>2. /\ history' \in Seq(Jobs) /\ Len(history') <= MaxHistory + 1
        /\ \A i \in DOMAIN history' : \/ history'[i] = hand
                                      \/ \E k \in DOMAIN history : history'[i] = history[k]
    <3>1. history \in Seq(Jobs) /\ Len(history) <= MaxHistory
      BY <1>10, JobQueueAssumption DEF DrainRecord, TypeOK, Excess
    <3>2. history' = Append(history, hand)
      BY <1>10 DEF DrainRecord
    <3>3. Len(history) \in Nat /\ MaxHistory \in Nat
      BY <3>1, JobQueueAssumption
    <3> QED  BY <2>1, <3>1, <3>2, <3>3, Appended
  <2>3. TypeOK'
    BY <1>10, <2>1, <2>2, JobQueueAssumption
       DEF DrainRecord, TypeOK, Excess, Phases, States, Steps, jobVars, drainVars
  <2>4. HandOK'
    BY <1>10, <2>1, JobQueueAssumption
       DEF DrainRecord, HandOK, JobsOK, JobOK, TypeOK, Owned, Waiting, jobVars,
           drainVars
  <2>5. JobsOK'
    BY <1>10, <2>1, JobQueueAssumption
       DEF DrainRecord, HandOK, JobsOK, JobOK, TypeOK, Owned, Waiting, jobVars,
           drainVars
  <2>6. HistoryOK'
    BY <1>10, <2>1, <2>2, HistoryJobs
       DEF DrainRecord, HistoryOK, IsFinal, Final, HandOK, JobsOK, JobOK,
           TypeOK, Waiting, jobVars, drainVars
  <2> QED  BY <2>3, <2>4, <2>5, <2>6
<1>16. CASE DrainTrim
  <2>1. hand \in Jobs
    BY <1>16, HandIsJob DEF DrainTrim
  <2>2. /\ cut' \in Seq(Jobs) /\ Len(cut') <= MaxHistory
        /\ \A i \in DOMAIN cut' : \/ cut' = cut
                                  \/ \E k \in DOMAIN history : cut'[i] = history[k]
    BY <1>16, KeptOK DEF DrainTrim, TypeOK
  <2>3. TypeOK'
    <3>1. history' = history /\ Len(history) \in Nat /\ MaxHistory \in Nat
      BY <1>16, JobQueueAssumption DEF DrainTrim, TypeOK
    <3>2. Len(history) <= MaxHistory + 1
      BY <1>16, <3>1, JobQueueAssumption DEF DrainTrim, TypeOK, Excess
    <3>3. Len(history') <= MaxHistory + Excess' /\ pc' \in Steps
      <4>1. CASE Len(history) > MaxHistory
        BY <1>16, <3>1, <3>2, <4>1 DEF DrainTrim, Excess, Steps
      <4>2. CASE ~ (Len(history) > MaxHistory)
        BY <1>16, <3>1, <4>2 DEF DrainTrim, Excess, Steps
      <4> QED  BY <4>1, <4>2
    <3>4. hand' \in Jobs \cup {NoJob}
      BY <1>16, <2>1 DEF DrainTrim
    <3>5. UNCHANGED <<clock, on, counter, phase, state, attempts, limit, prio,
                      seqno, due, queue, active, history, trail>>
      BY <1>16 DEF DrainTrim, jobVars
    <3> QED  BY <2>2, <3>3, <3>4, <3>5 DEF TypeOK
  <2>4. HandOK'
    BY <1>16, <2>1, JobQueueAssumption
       DEF DrainTrim, HandOK, JobsOK, JobOK, TypeOK, Owned, Waiting, jobVars,
           drainVars
  <2>5. JobsOK'
    BY <1>16, <2>1, JobQueueAssumption
       DEF DrainTrim, HandOK, JobsOK, JobOK, TypeOK, Owned, Waiting, jobVars,
           drainVars
  <2>6. HistoryOK'
    BY <1>16, <2>1, <2>2, HistoryJobs
       DEF DrainTrim, HistoryOK, IsFinal, Final, HandOK, JobsOK, JobOK,
           TypeOK, Waiting, jobVars, drainVars
  <2> QED  BY <2>3, <2>4, <2>5, <2>6
<1>17. CASE DrainAssign
  <2>1. hand \in Jobs
    BY <1>17, HandIsJob DEF DrainAssign
  <2>2. history' = cut /\ cut' = <<>> /\ cut' \in Seq(Jobs) /\ Len(cut') = 0
    BY <1>17 DEF DrainAssign
  <2>3. TypeOK'
    BY <1>17, <2>1, <2>2, JobQueueAssumption
       DEF DrainAssign, TypeOK, Excess, Phases, States, Steps, jobVars, drainVars
  <2>4. HandOK'
    BY <1>17, <2>1, JobQueueAssumption
       DEF DrainAssign, HandOK, JobsOK, JobOK, TypeOK, Owned, Waiting, jobVars,
           drainVars
  <2>5. JobsOK'
    BY <1>17, <2>1, JobQueueAssumption
       DEF DrainAssign, HandOK, JobsOK, JobOK, TypeOK, Owned, Waiting, jobVars,
           drainVars
  <2>6. HistoryOK'
    BY <1>17, <2>1, <2>2, HistoryJobs
       DEF DrainAssign, HistoryOK, IsFinal, Final, HandOK, JobsOK, JobOK,
           TypeOK, Waiting, jobVars, drainVars
  <2> QED  BY <2>3, <2>4, <2>5, <2>6
<1>11. ASSUME NEW j \in Jobs, SubmitNumber(j) PROVE IInv'
  <2>1. TypeOK'
    BY <1>11, JobQueueAssumption
       DEF SubmitNumber, TypeOK, Excess, Phases, States, Steps, jobVars, drainVars
  <2>2. HandOK'
    BY <1>11
       DEF SubmitNumber, HandOK, JobsOK, JobOK, TypeOK, Owned, Waiting,
           jobVars, drainVars
  <2>3. JobsOK'
    BY <1>11
       DEF SubmitNumber, HandOK, JobsOK, JobOK, TypeOK, Owned, Waiting,
           jobVars, drainVars
  <2>4. HistoryOK'
    BY <1>11, HistoryJobs
       DEF SubmitNumber, HistoryOK, IsFinal, Final, HandOK, JobsOK, JobOK,
           TypeOK, Waiting, jobVars, drainVars
  <2> QED  BY <2>1, <2>2, <2>3, <2>4
<1>12. ASSUME NEW j \in Jobs, SubmitBuild(j) PROVE IInv'
  <2>1. TypeOK'
    <3>1. due' \in [Jobs -> Int]
      BY <1>12, JobQueueAssumption DEF SubmitBuild, TypeOK
    <3> QED
      BY <1>12, <3>1
         DEF SubmitBuild, TypeOK, Excess, Phases, jobVars, drainVars
  <2>2. HandOK'
    BY <1>12
       DEF SubmitBuild, HandOK, JobsOK, JobOK, TypeOK, Owned, Waiting, jobVars,
           drainVars
  <2>3. JobsOK'
    BY <1>12
       DEF SubmitBuild, HandOK, JobsOK, JobOK, TypeOK, Owned, Waiting, jobVars,
           drainVars
  <2>4. HistoryOK'
    BY <1>12, HistoryJobs
       DEF SubmitBuild, HistoryOK, IsFinal, Final, HandOK, JobsOK, JobOK,
           TypeOK, Waiting, jobVars, drainVars
  <2> QED  BY <2>1, <2>2, <2>3, <2>4
<1>13. ASSUME NEW j \in Jobs, SubmitPush(j) PROVE IInv'
  <2>1. TypeOK'
    BY <1>13, JobQueueAssumption
       DEF SubmitPush, TypeOK, Excess, Phases, States, Steps, jobVars, drainVars
  <2>2. HandOK'
    BY <1>13
       DEF SubmitPush, HandOK, JobsOK, JobOK, TypeOK, Owned, Waiting, jobVars,
           drainVars
  <2>3. JobsOK'
    BY <1>13
       DEF SubmitPush, HandOK, JobsOK, JobOK, TypeOK, Owned, Waiting, jobVars,
           drainVars
  <2>4. HistoryOK'
    BY <1>13, HistoryJobs
       DEF SubmitPush, HistoryOK, IsFinal, Final, HandOK, JobsOK, JobOK,
           TypeOK, Waiting, jobVars, drainVars
  <2> QED  BY <2>1, <2>2, <2>3, <2>4
<1>14. ASSUME NEW j \in Jobs, SubmitPublish(j) PROVE IInv'
  <2>1. trail' \in [Jobs -> Seq(Kinds)]
    BY <1>14, PublishTyped DEF SubmitPublish, TypeOK, Kinds
  <2>2. TypeOK'
    BY <1>14, <2>1, JobQueueAssumption
       DEF SubmitPublish, TypeOK, Excess, Phases, States, Steps, jobVars, drainVars
  <2>3. HandOK'
    BY <1>14
       DEF SubmitPublish, HandOK, JobsOK, JobOK, TypeOK, Owned, Waiting,
           jobVars, drainVars
  <2>4. JobsOK'
    BY <1>14
       DEF SubmitPublish, HandOK, JobsOK, JobOK, TypeOK, Owned, Waiting,
           jobVars, drainVars
  <2>5. HistoryOK'
    BY <1>14, HistoryJobs
       DEF SubmitPublish, HistoryOK, IsFinal, Final, HandOK, JobsOK, JobOK,
           TypeOK, Waiting, jobVars, drainVars
  <2> QED  BY <2>2, <2>3, <2>4, <2>5
<1>15. ASSUME NEW j \in Jobs, Cancel(j) PROVE IInv'
  <2>1. /\ history' \in Seq(Jobs) /\ Len(history') <= MaxHistory
        /\ \A i \in DOMAIN history' : \/ history'[i] = j
                                      \/ \E k \in DOMAIN history : history'[i] = history[k]
    <3>1. history \in Seq(Jobs)
      BY DEF TypeOK
    <3>2. PICK g \in Seq(Jobs) : g = Append(history, j)
      BY <3>1, Appended
    <3>3. /\ Kept(g) \in Seq(Jobs) /\ Len(Kept(g)) <= MaxHistory
          /\ \A i \in DOMAIN Kept(g) : \E k \in DOMAIN g : Kept(g)[i] = g[k]
      BY KeptOK
    <3>4. \A i \in DOMAIN g : g[i] = j \/ \E k \in DOMAIN history : g[i] = history[k]
      BY <3>1, <3>2, Appended
    <3>5. history' = Kept(g)
      BY <1>15, <3>2 DEF Cancel
    <3> QED  BY <3>3, <3>4, <3>5
  <2>2. TypeOK'
    BY <1>15, <2>1, JobQueueAssumption
       DEF Cancel, TypeOK, Excess, Phases, States, Steps, jobVars, drainVars
  <2>3. HandOK'
    BY <1>15
       DEF Cancel, InHeap, HandOK, JobsOK, JobOK, TypeOK, Owned, Waiting,
           jobVars, drainVars
  <2>4. JobsOK'
    BY <1>15
       DEF Cancel, InHeap, HandOK, JobsOK, JobOK, TypeOK, Owned, Waiting,
           jobVars, drainVars
  <2>5. HistoryOK'
    <3>1. j \in Jobs /\ state' = [state EXCEPT ![j] = "cancelled"] /\ cut' = cut
      BY <1>15 DEF Cancel, drainVars
    <3>2. state \in [Jobs -> States]
      BY DEF TypeOK
    <3>3. \A k \in Jobs : state[k] \in Final => state'[k] \in Final
      BY <3>1, <3>2 DEF Final
    <3>4. state'[j] \in Final
      BY <3>1, <3>2 DEF Final
    <3>5. \A i \in DOMAIN history' : state'[history'[i]] \in Final
      BY <2>1, <3>3, <3>4, HistoryJobs DEF HistoryOK, IsFinal
    <3>6. \A i \in DOMAIN cut' : state'[cut'[i]] \in Final
      BY <3>1, <3>3, HistoryJobs DEF HistoryOK, IsFinal
    <3> QED  BY <3>5, <3>6 DEF HistoryOK, IsFinal
  <2> QED  BY <2>2, <2>3, <2>4, <2>5
<1> QED
  BY <1>1, <1>2, <1>3, <1>4, <1>5, <1>6, <1>7, <1>8, <1>9, <1>10, <1>11, <1>12,
     <1>13, <1>14, <1>15, <1>16, <1>17
     DEF Next, DrainStep, RunEnds, SubmitStep

THEOREM InvariantHolds == Spec => []IInv
BY InitInv, StepInv, PTL DEF Spec

-----------------------------------------------------------------------------
(* The theorems.                                                           *)

\* Every variable of the queue keeps its type, and the history ring is never
\* longer than _max_history, whatever submit, cancel and the drain do.
THEOREM TypeCorrect == Spec => []TypeOK
<1>1. IInv => TypeOK
  BY DEF IInv
<1> QED  BY <1>1, InvariantHolds, PTL

\* A job that was pushed is in the heap, in the drain's hands or settled, in one
\* of them only, and the history lists settled jobs only: _drain_one and cancel
\* lose no job and hold none twice.
THEOREM ConservedAlways == Spec => []Conserved
<1>1. IInv => Conserved
  BY DEF IInv, Conserved, JobsOK, JobOK, HistoryOK, TypeOK
<1> QED  BY <1>1, InvariantHolds, PTL

LEMMA SettledStep == IInv /\ [Next]_vars => KeepsVerdicts
<1> SUFFICES ASSUME IInv, [Next]_vars, NEW j \in Jobs, IsFinal(j)
             PROVE  state'[j] = state[j] /\ attempts'[j] = attempts[j]
  BY DEF KeepsVerdicts
<1>1. pc \in {"popped", "running"} => hand # j
  BY DEF IInv, HandOK, IsFinal, Final, Waiting
<1>2. j \notin queue
  BY DEF IInv, JobsOK, JobOK, IsFinal, Final, Waiting
<1>3. CASE DrainStep
  BY <1>1, <1>3
     DEF DrainStep, RunEnds, DrainPop, DrainBegin, RunSucceeds, RunFailsRetry,
         RunFailsFinal, DrainRequeue, DrainRelease, DrainFinish, DrainRecord,
         DrainTrim, DrainAssign, IInv, TypeOK
<1>4. ASSUME NEW k \in Jobs, SubmitStep(k) \/ Cancel(k)
      PROVE  state'[j] = state[j] /\ attempts'[j] = attempts[j]
  BY <1>2, <1>4
     DEF SubmitStep, SubmitNumber, SubmitBuild, SubmitPush, SubmitPublish,
         Cancel, InHeap, IInv, TypeOK
<1>5. CASE Start \/ Stop \/ Advance \/ UNCHANGED vars
  BY <1>5 DEF Start, Stop, Advance, vars
<1> QED  BY <1>3, <1>4, <1>5 DEF Next

\* A verdict is for ever: neither a late cancel nor what the drain was doing
\* with the job when it was settled changes it or counts another attempt.
THEOREM SettledForeverAlways == Spec => SettledForever
BY SettledStep, InvariantHolds, PTL DEF Spec, SettledForever

-----------------------------------------------------------------------------
(* The refinement of JobLifecycle.                                         *)

LEMMA InitRefines == Init => Abstract!AbsInit
BY DEF Init, Abstract!AbsInit, Life, Owned

\* A step that changes no job's state, and makes no job owned, is a stutter.
LEMMA StutterRefines ==
  ASSUME state' = state, attempts' = attempts, limit' = limit,
         \A j \in Jobs : Owned(j)' = Owned(j)
  PROVE  UNCHANGED Abstract!absVars
BY DEF Abstract!absVars, Life, Owned

\* A step that takes one job from one stage of its life to another.
LEMMA MoveRefines ==
  ASSUME NEW j \in Jobs, NEW to,
         Life(j)' = to, \A k \in Jobs \ {j} : Life(k)' = Life(k)
  PROVE  [k \in Jobs |-> Life(k)]' = [[k \in Jobs |-> Life(k)] EXCEPT ![j] = to]
OBVIOUS

LEMMA StepRefines == IInv /\ [Next]_vars => [Abstract!AbsNext]_(Abstract!absVars)
<1> SUFFICES ASSUME IInv, [Next]_vars
             PROVE  Abstract!AbsNext \/ UNCHANGED Abstract!absVars
  OBVIOUS
<1> USE DEF IInv
<1>1. CASE Start \/ Stop \/ Advance \/ DrainPop \/ DrainRequeue \/ DrainRelease
           \/ DrainFinish \/ DrainRecord \/ DrainTrim \/ DrainAssign
           \/ UNCHANGED vars
  BY <1>1, StutterRefines
     DEF Start, Stop, Advance, DrainPop, DrainRequeue, DrainRelease,
         DrainFinish, DrainRecord, DrainTrim, DrainAssign, vars, jobVars,
         Owned
<1>2. ASSUME NEW j \in Jobs, SubmitNumber(j) \/ SubmitBuild(j) \/ SubmitPublish(j)
      PROVE  UNCHANGED Abstract!absVars
  BY <1>2, StutterRefines
     DEF SubmitNumber, SubmitBuild, SubmitPublish, jobVars, Owned, TypeOK,
         Phases
<1>3. ASSUME NEW j \in Jobs, SubmitPush(j) PROVE Abstract!Accept(j)
  <2>1. Life(j) = "unborn" /\ Life(j)' = "waiting"
    BY <1>3 DEF SubmitPush, Life, Owned, JobsOK, JobOK, TypeOK
  <2>2. \A k \in Jobs \ {j} : Life(k)' = Life(k)
    BY <1>3 DEF SubmitPush, Life, Owned, TypeOK
  <2> QED  BY <1>3, <2>1, <2>2, MoveRefines
              DEF Abstract!Accept, SubmitPush, jobVars
<1>4. ASSUME NEW j \in Jobs, Cancel(j) PROVE Abstract!Cancelled(j)
  <2>1. Life(j) = "waiting" /\ Life(j)' = "cancelled"
    BY <1>4 DEF Cancel, InHeap, Waiting, Life, Owned, JobsOK, JobOK, TypeOK
  <2>2. \A k \in Jobs \ {j} : Life(k)' = Life(k)
    BY <1>4 DEF Cancel, Life, Owned, TypeOK
  <2> QED  BY <1>4, <2>1, <2>2, MoveRefines
              DEF Abstract!Cancelled, Cancel, jobVars
<1>5. CASE DrainBegin
  <2>0. hand \in Jobs
    BY <1>5, HandIsJob DEF DrainBegin
  <2>1. Life(hand) = "waiting" /\ Life(hand)' = "running"
    BY <1>5, <2>0 DEF DrainBegin, Life, Owned, Waiting, HandOK, TypeOK
  <2>2. \A k \in Jobs \ {hand} : Life(k)' = Life(k)
    BY <1>5, <2>0 DEF DrainBegin, Life, Owned, TypeOK
  <2>3. \A k \in Jobs : Life(k) # "running"
    BY <1>5 DEF DrainBegin, Life, JobsOK, JobOK
  <2>4. hand' = hand
    BY <1>5 DEF DrainBegin
  <2> QED  BY <1>5, <2>0, <2>1, <2>2, <2>3, <2>4, MoveRefines
              DEF Abstract!AbsNext, Abstract!Begin, DrainBegin, jobVars
<1>6. CASE RunSucceeds
  <2>0. hand \in Jobs
    BY <1>6, HandIsJob DEF RunSucceeds
  <2>1. Life(hand) = "running" /\ Life(hand)' = "done"
    BY <1>6, <2>0 DEF RunSucceeds, Life, Owned, Waiting, HandOK, TypeOK
  <2>2. \A k \in Jobs \ {hand} : Life(k)' = Life(k)
    BY <1>6, <2>0 DEF RunSucceeds, Life, Owned, TypeOK
  <2> QED  BY <1>6, <2>0, <2>1, <2>2, MoveRefines
              DEF Abstract!AbsNext, Abstract!Succeed, RunSucceeds, jobVars
<1>7. CASE RunFailsRetry
  <2>0. hand \in Jobs
    BY <1>7, HandIsJob DEF RunFailsRetry
  <2>1. Life(hand) = "running" /\ Life(hand)' = "waiting"
    BY <1>7, <2>0 DEF RunFailsRetry, Life, Owned, Waiting, HandOK, TypeOK
  <2>2. \A k \in Jobs \ {hand} : Life(k)' = Life(k)
    BY <1>7, <2>0 DEF RunFailsRetry, Life, Owned, TypeOK
  <2> QED  BY <1>7, <2>0, <2>1, <2>2, MoveRefines
              DEF Abstract!AbsNext, Abstract!Fail, RunFailsRetry, jobVars
<1>8. CASE RunFailsFinal
  <2>0. hand \in Jobs
    BY <1>8, HandIsJob DEF RunFailsFinal
  <2>1. Life(hand) = "running" /\ Life(hand)' = "failed"
    BY <1>8, <2>0 DEF RunFailsFinal, Life, Owned, Waiting, HandOK, TypeOK
  <2>2. \A k \in Jobs \ {hand} : Life(k)' = Life(k)
    BY <1>8, <2>0 DEF RunFailsFinal, Life, Owned, TypeOK
  <2> QED  BY <1>8, <2>0, <2>1, <2>2, MoveRefines
              DEF Abstract!AbsNext, Abstract!Fail, RunFailsFinal, jobVars
<1> QED
  BY <1>1, <1>2, <1>3, <1>4, <1>5, <1>6, <1>7, <1>8
     DEF Next, DrainStep, RunEnds, SubmitStep, Abstract!AbsNext

\* JobQueue, with its heap, clock, lock and threads, implements the life cycle
\* of a job that JobLifecycle promises its users.
THEOREM ImplementsLifecycle == Spec => Lifecycle
BY InitRefines, StepRefines, InvariantHolds, PTL
   DEF Spec, Lifecycle, Abstract!AbsSpec
=============================================================================
