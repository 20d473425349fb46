---------------------------- MODULE Kernel_proofs ----------------------------
(***************************************************************************)
(* What holds of start and shutdown for every buffer, and for any number   *)
(* of interrupts, events, tokens and projected devices.                    *)
(***************************************************************************)
EXTENDS Kernel, TLAPS

-----------------------------------------------------------------------------
\* Projection.  That no device is projected does not carry itself over a step:
\* HAL.project() looks at the permission to project, not at the mode. The
\* two go together.
ProjectionInv == ~ active => ~ projecting /\ devices \cap Projected = {}

\* Nothing but Hardware Mode comes near the projected devices: neither the
\* devices of the host nor the storage device is one of them.
LEMMA RegisteringIsHarmless ==
  ASSUME NEW names \in {Adapters, {"storage"}}, ProjectionInv, RegisterDevices(names)
  PROVE  ProjectionInv'
<1>1. names \cap Projected = {}  BY HalAssumption DEF Adapters
<1>2. devices' = devices \cup names /\ UNCHANGED <<projecting, active>>  BY DEF RegisterDevices
<1> QED  BY <1>1, <1>2 DEF ProjectionInv

LEMMA StartKeepsProjection ==
  ASSUME NEW s, ProjectionInv, StepDone(s)
  PROVE  ProjectionInv'
<1>1. CASE s = "hal"
  BY <1>1 DEF StepDone, Threaded, HalStart, ProjectionInv
<1>2. CASE s = "storage"
  <2>1. RegisterDevices({"storage"})  BY <1>2 DEF StepDone, Threaded, StorageOpens
  <2> QED  BY <2>1, RegisteringIsHarmless
<1>3. CASE s = "mode"
  <2>1. RegisterDevices(Adapters)  BY <1>3 DEF StepDone, Threaded, ActivateMode
  <2> QED  BY <2>1, RegisteringIsHarmless
<1>4. CASE s \notin {"hal", "storage", "mode"}
  BY <1>4 DEF StepDone, ProjectionInv, halVars
<1> QED  BY <1>1, <1>2, <1>3, <1>4

LEMMA HardwareKeepsProjection ==
  ASSUME ProjectionInv, HardwareNext
  PROVE  ProjectionInv'
<1>1. CASE \E t \in Tokens : IssueToken(t) \/ RevokeToken(t) \/ ActivateHardware(t)
  BY <1>1 DEF IssueToken, RevokeToken, ActivateHardware, ProjectionInv
<1>2. CASE \E d \in Projected : Project(d)
  BY <1>2 DEF Project, HalProject, ProjectionInv
<1>3. CASE RevokeProjection
  BY <1>3 DEF RevokeProjection, TeardownAll, ProjectionInv
<1> QED  BY <1>1, <1>2, <1>3 DEF HardwareNext

\* The threads that live beside the main one leave the hardware alone.
Beside == Rounds \/ (\E n \in Units : UnitMoves(n)) \/ Talks \/ StopTellsWeb

LEMMA BesideKeepsHal ==
  ASSUME Beside
  PROVE  UNCHANGED halVars
<1>1. CASE Rounds
  BY <1>1 DEF Rounds, Looks, HealthRound, WatchdogRound, CheckOnce, FlushLoop
<1>2. CASE \E n \in Units : UnitMoves(n)
  BY <1>2 DEF UnitMoves
<1>3. CASE Talks \/ StopTellsWeb
  BY <1>3 DEF Talks, ProbeNow, ShellBegins, ShellCommand, ShellUnblocks, WebAccepts, WebAnswers,
              StopTellsWeb
<1> QED  BY <1>1, <1>2, <1>3 DEF Beside

LEMMA ProjectionStep ==
  ASSUME ProjectionInv, [KernelNext]_kernelVars
  PROVE  ProjectionInv'
<1>1. CASE UNCHANGED halVars
  BY <1>1 DEF ProjectionInv, halVars
<1>2. CASE StartStep
  BY <1>2, StartKeepsProjection DEF StartStep
<1>3. CASE StopStep
  BY <1>3 DEF StopStep, HalStop, ProjectionInv, halVars
<1>4. CASE Hardware
  BY <1>4, HardwareKeepsProjection DEF Hardware
<1>5. CASE Boots
  BY <1>1, <1>5 DEF Boots, LauncherMain, LauncherRefuses, InitMain, InitFails, BootStage, StageRaises
<1>6. CASE StartRaises \/ LoopTick \/ Prompts \/ Exit \/ Interrupt \/ RequestCapability \/ PromptAnswered
  BY <1>1, <1>6 DEF StartRaises, LoopTick, Prompts, Exit, Interrupt, RequestCapability, PromptAnswered
<1>7. CASE Beside
  BY <1>1, <1>7, BesideKeepsHal
<1>8. CASE UNCHANGED kernelVars
  BY <1>1, <1>8 DEF kernelVars
<1> QED  BY <1>2, <1>3, <1>4, <1>5, <1>6, <1>7, <1>8 DEF KernelNext, MainStep, Beside

\* Once HardwareMode.revoke() has been called no device is projected until the
\* mode is activated again, whatever start and shutdown do in between:
\* modes/hardware.py:92-106, hal/__init__.py:138-160.
THEOREM RevokedTearsDownAlways == KernelSpec => []RevokedTearsDown
<1>1. KernelInit => ProjectionInv  BY DEF KernelInit, HalInit, ProjectionInv
<1>2. ProjectionInv /\ [KernelNext]_kernelVars => ProjectionInv'  BY ProjectionStep
<1>3. ProjectionInv => RevokedTearsDown  BY DEF ProjectionInv, RevokedTearsDown
<1> QED  BY <1>1, <1>2, <1>3, PTL DEF KernelSpec

-----------------------------------------------------------------------------
\* Shutdown.  An interrupt comes when any of the subsystems may be up, so it is
\* not the order of start() that counts: each name that is ever up has its
\* step in shutdown(), and what is past stays down, but for the shell.
Stoppable == {"hal", "storage", "storage_service", "logging", "jobs", "health", "watchdog",
              "network", "shell", "loop"}
Past(i) == i < step /\ StopSteps[i] # "shell"

StopInv ==
  /\ up \subseteq Stoppable /\ at \in [Threaded -> {"none", "look", "round"}]
  /\ phase = "start" => step \in 1..11
  /\ phase = "stop" => step \in 1..12 /\ \A i \in 1..12 : Past(i) => StopSteps[i] \notin up
  /\ phase = "shut" => up \subseteq {"shell"}

LEMMA StartFacts ==
  /\ Len(StartSteps) = 11
  /\ \A i \in 1..11 : StartSteps[i] \in Stoppable \cup {"mode", "aura"}
  /\ StartSteps[6] = "logging"
BY DEF StartSteps, Stoppable

LEMMA StopFacts ==
  /\ Len(StopSteps) = 12
  /\ \A s \in Stoppable : \E i \in 1..12 : StopSteps[i] = s
  /\ StopSteps[5] = "logging"
  /\ \A i \in 1..12 : StopSteps[i] = "logging" => i = 5
BY DEF StopSteps, Stoppable

\* Each step of start() raises at most the flag of its own subsystem.
LEMMA StepRaises ==
  ASSUME NEW s, StepDone(s)
  PROVE  /\ up' = up \/ (up' = up \cup {s} /\ s \notin {"mode", "aura"})
         /\ s = "logging" => "logging" \in up'
         /\ at' = at \/ (s \in Threaded /\ ThreadStarts(s))
BY DEF StepDone, StorageOpens, ThreadStarts, Threaded

LEMMA ThreadStartsType ==
  ASSUME NEW s \in Threaded, at \in [Threaded -> {"none", "look", "round"}], ThreadStarts(s)
  PROVE  at' \in [Threaded -> {"none", "look", "round"}]
<1>1. FirstPlace(s) \in {"look", "round"}  BY DEF FirstPlace
<1> QED  BY <1>1 DEF ThreadStarts

\* A thread moves from one of its places to another.
LEMMA MovesType ==
  ASSUME NEW s \in Threaded, NEW from, NEW to \in {"none", "look", "round"},
         at \in [Threaded -> {"none", "look", "round"}], Moves(s, from, to)
  PROVE  /\ at' \in [Threaded -> {"none", "look", "round"}]
         /\ at'[s] = to /\ \A t \in Threaded \ {s} : at'[t] = at[t]
BY DEF Moves

\* The threads that live beside the main one raise no flag but the shell's, and
\* none of them begins a round without its flag.
LEMMA BesideKeepsDown ==
  ASSUME Beside
  PROVE  /\ up' \subseteq up \cup {"shell"} /\ up \ {"shell"} \subseteq up'
         /\ UNCHANGED <<phase, step, logged>>
<1>1. CASE Rounds
  BY <1>1 DEF Rounds, Looks, HealthRound, WatchdogRound, CheckOnce, FlushLoop, logVars
<1>2. CASE \E n \in Units : UnitMoves(n)
  BY <1>2 DEF UnitMoves, logVars
<1>3. CASE Talks \/ StopTellsWeb
  BY <1>3 DEF Talks, ProbeNow, ShellBegins, ShellCommand, ShellUnblocks, WebAccepts, WebAnswers,
              StopTellsWeb, CmdExit, logVars
<1> QED  BY <1>1, <1>2, <1>3 DEF Beside

LEMMA BesideMoves ==
  ASSUME Beside, at \in [Threaded -> {"none", "look", "round"}]
  PROVE  /\ at' \in [Threaded -> {"none", "look", "round"}]
         /\ \A s \in Threaded : at[s] = "look" /\ at'[s] = "round" => s \in up
<1>1. CASE \E s \in Threaded : Looks(s)
  <2>1. PICK s \in Threaded : Looks(s)  BY <1>1
  <2>2. PICK to \in {"none", "look", "round"} :
          Moves(s, "look", to) /\ to = IF s \in up THEN "round" ELSE "none"
    BY <2>1 DEF Looks
  <2> QED  BY <2>2, MovesType
<1>2. CASE HealthRound \/ WatchdogRound \/ CheckOnce \/ FlushLoop
  <2>1. PICK s \in Threaded : Moves(s, "round", "look")
    BY <1>2 DEF HealthRound, WatchdogRound, CheckOnce, FlushLoop, Threaded
  <2> QED  BY <2>1, MovesType
<1>3. CASE (\E n \in Units : UnitMoves(n)) \/ Talks \/ StopTellsWeb
  <2>1. at' = at
    BY <1>3 DEF UnitMoves, Talks, ProbeNow, ShellBegins, ShellCommand, ShellUnblocks, WebAccepts,
                WebAnswers, StopTellsWeb, threadVars
  <2> QED  BY <2>1
<1> QED  BY <1>1, <1>2, <1>3 DEF Beside, Rounds

\* Before the kernel starts, and in the loop, no flag changes, and nothing is
\* logged before the loop.
Early == {"entry", "init", "chain", "start"}
Calm ==
  /\ up' = up /\ at' = at
  /\ phase' \notin {"stop", "shut"}
  /\ phase' = "start" => step' = 1
  /\ phase' = "loop" => phase = "loop"
  /\ phase' \in Early => phase \in Early /\ logged' = logged

LEMMA OthersAreCalm ==
  ASSUME KernelNext
  PROVE  Calm \/ StartStep \/ StopStep \/ Interrupt \/ Exit \/ Beside
<1>1. CASE Boots
  BY <1>1 DEF Calm, Early, logVars, threadVars, Boots, LauncherMain, LauncherRefuses, InitMain, InitFails, BootStage, BootFirst,
              BootLater, BootEnds, StageRaises, Goes
<1>2. CASE StartRaises \/ LoopTick \/ Prompts \/ RequestCapability \/ PromptAnswered \/ Hardware
  BY <1>2 DEF Calm, Early, threadVars, logVars, StartRaises, LoopTick, Prompts, RequestCapability, PromptAnswered, Answered,
              Hardware, Goes
<1> QED  BY <1>1, <1>2 DEF KernelNext, MainStep, Beside

LEMMA StopInvStep ==
  ASSUME StopInv, [KernelNext]_kernelVars
  PROVE  StopInv'
<1>1. CASE UNCHANGED kernelVars
  BY <1>1 DEF StopInv, Past, kernelVars, threadVars
<1>2. CASE Calm
  BY <1>2 DEF Calm, StopInv
<1>3. CASE StartStep
  <2>1. StartSteps[step] \in Stoppable \cup {"mode", "aura"} /\ step \in 1..11
    BY <1>3, StartFacts DEF StartStep, StopInv
  <2>2. up' \subseteq Stoppable
    BY <1>3, <2>1, StepRaises DEF StartStep, StopInv
  <2>3. \/ phase' = "loop"
        \/ phase' = "start" /\ step' = step + 1 /\ step # 11
    BY <1>3, StartFacts DEF StartStep, Goes
  <2>4. at' \in [Threaded -> {"none", "look", "round"}]
    BY <1>3, StepRaises, ThreadStartsType DEF StartStep, StopInv
  <2> QED  BY <2>1, <2>2, <2>3, <2>4 DEF StopInv
<1>4. CASE Interrupt
  <2>1. up' \subseteq Stoppable
    <3>1. up' = up \/ (phase = "start" /\ StartSteps[step] \notin {"mode", "aura"}
                        /\ up' = up \cup {StartSteps[step]})
      BY <1>4 DEF Interrupt, ThreadStarts, Threaded
    <3> QED  BY <3>1, StartFacts DEF StopInv
  <2>2. \/ phase' = "stop" /\ step' = 1
        \/ phase' \in {"loop", "exited"}
    BY <1>4 DEF Interrupt, Answered, Goes
  <2>3. phase' = "stop" => \A i \in 1..12 : ~ Past(i)'
    BY <2>2 DEF Past
  <2>4. at' \in [Threaded -> {"none", "look", "round"}]
    <3>1. at' = at \/ \E s \in Threaded : ThreadStarts(s)
      BY <1>4 DEF Interrupt
    <3> QED  BY <3>1, ThreadStartsType DEF StopInv
  <2> QED  BY <2>1, <2>2, <2>3, <2>4 DEF StopInv
<1>5. CASE StopStep
  <2>1. phase = "stop" /\ step \in 1..12 /\ up' = up \ {StopSteps[step]} /\ at' = at
    BY <1>5 DEF StopStep, StopInv, Cleared, threadVars
  <2>2. up' \subseteq Stoppable
    BY <2>1 DEF StopInv
  <2>3. \A i \in 1..12 : i <= step /\ StopSteps[i] # "shell" => StopSteps[i] \notin up'
    <3> SUFFICES ASSUME NEW i \in 1..12, i <= step, StopSteps[i] # "shell"
                 PROVE  StopSteps[i] \notin up'
      OBVIOUS
    <3>1. i < step \/ i = step  BY <2>1
    <3> QED  BY <2>1, <3>1 DEF StopInv, Past
  <2>4. CASE step = 12
    <3>1. phase' = "shut"
      BY <1>5, <2>4, StopFacts DEF StopStep, Goes
    <3>2. up' \subseteq {"shell"}
      <4> SUFFICES ASSUME NEW s \in up', s # "shell" PROVE FALSE
        OBVIOUS
      <4>1. PICK i \in 1..12 : StopSteps[i] = s  BY <2>2, StopFacts
      <4> QED  BY <2>3, <2>4, <4>1
    <3> QED  BY <2>1, <2>2, <3>1, <3>2 DEF StopInv
  <2>5. CASE step # 12
    <3>1. phase' = "stop" /\ step' = step + 1
      BY <1>5, <2>5, StopFacts DEF StopStep, Goes
    <3>2. \A i \in 1..12 : Past(i)' => i <= step /\ StopSteps[i] # "shell"
      BY <2>1, <3>1 DEF Past
    <3> QED  BY <2>1, <2>2, <2>3, <2>5, <3>1, <3>2 DEF StopInv
  <2> QED  BY <2>4, <2>5
<1>6. CASE Exit
  BY <1>6 DEF Exit, Goes, StopInv, threadVars
<1>7. CASE Beside
  <2>1. up' \subseteq up \cup {"shell"} /\ UNCHANGED <<phase, step>>
    BY <1>7, BesideKeepsDown
  <2>2. "shell" \in Stoppable  BY DEF Stoppable
  <2>3. at' \in [Threaded -> {"none", "look", "round"}]  BY <1>7, BesideMoves DEF StopInv
  <2> QED  BY <2>1, <2>2, <2>3 DEF StopInv, Past
<1> QED  BY <1>1, <1>2, <1>3, <1>4, <1>5, <1>6, <1>7, OthersAreCalm

\* What shutdown() has been through is down, but for the shell.
LEMMA StoppedIsDown ==
  ASSUME StopInv, NEW s \in Threaded, s \in StoppedParts
  PROVE  s \notin up
<1>1. s # "shell"  BY DEF Threaded
<1>2. CASE phase = "stop"
  <2>1. PICK i \in 1..(step - 1) : StopSteps[i] = s  BY <1>2 DEF StoppedParts
  <2>2. step \in 1..12 /\ i \in 1..12 /\ i < step  BY <1>2 DEF StopInv
  <2> QED  BY <1>1, <1>2, <2>1, <2>2 DEF StopInv, Past
<1>3. CASE phase = "shut"
  BY <1>1, <1>3 DEF StopInv
<1> QED  BY <1>2, <1>3 DEF StoppedParts

\* Only a part's thread itself begins a round.
LEMMA RoundsAreBegunBelow ==
  ASSUME StopInv, KernelNext, NEW s \in Threaded, at[s] = "look", at'[s] = "round"
  PROVE  s \in up \/ StoppedParts = {}
<1>1. CASE Beside
  BY <1>1, BesideMoves DEF StopInv
<1>2. CASE StartStep \/ Interrupt
  <2>1. at' = at \/ phase = "start"
    BY <1>2, StepRaises DEF StartStep, Interrupt
  <2> QED  BY <2>1 DEF StoppedParts
<1>3. CASE Calm \/ StopStep \/ Exit
  <2>1. at' = at  BY <1>3 DEF Calm, StopStep, Exit, threadVars
  <2> QED  BY <2>1
<1> QED  BY <1>1, <1>2, <1>3, OthersAreCalm

\* Wherever the interrupt came and however many there were: the thread of a part
\* that shutdown() has been through begins no round, and when shutdown() returns
\* every part but the shell has been told to end, for every set of services and
\* whatever their threads do: kernel/__init__.py:536-553.
THEOREM NothingLeftRunningAlways == KernelSpec => NothingLeftRunning
<1>1. KernelInit => StopInv  BY DEF KernelInit, StopInv, Stoppable
<1>2. StopInv /\ [KernelNext]_kernelVars => StopInv'  BY StopInvStep
<1>3. ASSUME StopInv, StopInv', [KernelNext]_kernelVars
      PROVE  [/\ \A s \in Threaded : at[s] = "look" /\ at'[s] = "round" => s \notin StoppedParts
              /\ phase' = "shut" => up' \subseteq {"shell"}]_kernelVars
  <2>1. CASE UNCHANGED kernelVars  BY <2>1
  <2>2. CASE KernelNext
    <3>1. \A s \in Threaded : at[s] = "look" /\ at'[s] = "round" => s \notin StoppedParts
      BY <1>3, <2>2, RoundsAreBegunBelow, StoppedIsDown
    <3>2. phase' = "shut" => up' \subseteq {"shell"}  BY <1>3 DEF StopInv
    <3> QED  BY <3>1, <3>2
  <2> QED  BY <1>3, <2>1, <2>2
<1> QED  BY <1>1, <1>2, <1>3, PTL DEF KernelSpec, NothingLeftRunning

-----------------------------------------------------------------------------
\* The log.  The loop makes entries only while logging is up; stop() of
\* logging, the fifth step of shutdown(), leaves all of the buffer on disk
\* unless logging never came up, and then there is nothing in it.
LogInv ==
  /\ phase \in Early => logged = 0
  /\ phase = "start" /\ step > 6 => "logging" \in up
  /\ phase = "loop" => "logging" \in up
  /\ phase = "stop" /\ step <= 5 => "logging" \in up \/ logged = 0
  /\ phase = "stop" /\ step > 5 => Buffer \subseteq disk
  /\ phase = "shut" => Buffer \subseteq disk

LEMMA NothingLogged ==
  ASSUME logged = 0
  PROVE  Buffer = {}
BY DEF Buffer

\* The file only grows, whoever flushes.
LEMMA BesideKeepsDisk ==
  ASSUME Beside
  PROVE  disk \subseteq disk'
<1>1. CASE Rounds
  BY <1>1 DEF Rounds, Looks, HealthRound, WatchdogRound, CheckOnce, FlushLoop, logVars
<1>2. CASE \E n \in Units : UnitMoves(n)
  BY <1>2 DEF UnitMoves, logVars
<1>3. CASE Talks \/ StopTellsWeb
  BY <1>3 DEF Talks, ProbeNow, ShellBegins, ShellCommand, ShellUnblocks, WebAccepts, WebAnswers,
              StopTellsWeb, logVars
<1> QED  BY <1>1, <1>2, <1>3 DEF Beside

LEMMA LogInvStep ==
  ASSUME StopInv, LogInv, [KernelNext]_kernelVars
  PROVE  LogInv'
<1>1. CASE UNCHANGED kernelVars
  BY <1>1 DEF LogInv, Buffer, kernelVars, logVars
<1>2. CASE Calm
  BY <1>2 DEF Calm, LogInv
<1>3. CASE StartStep
  <2>1. step \in 1..11 /\ phase \in Early /\ logged' = logged
    BY <1>3 DEF StartStep, StopInv, Early, logVars
  <2>2. up \subseteq up' /\ (step = 6 => "logging" \in up')
    BY <1>3, StepRaises, StartFacts DEF StartStep
  <2>3. step >= 6 => "logging" \in up'
    BY <1>3, <2>1, <2>2 DEF LogInv, StartStep
  <2>4. \/ phase' = "loop" /\ step = 11
        \/ phase' = "start" /\ step' = step + 1
    BY <1>3, StartFacts DEF StartStep, Goes
  <2> QED  BY <2>1, <2>3, <2>4 DEF LogInv
<1>4. CASE Interrupt
  <2>1. up \subseteq up' /\ logged' = logged
    BY <1>4 DEF Interrupt, ThreadStarts
  <2>2. \/ phase' = "stop" /\ step' = 1 /\ phase \in {"start", "loop"}
        \/ phase' = "loop" /\ phase = "loop"
        \/ phase' = "exited"
    BY <1>4 DEF Interrupt, Answered, Goes
  <2>3. phase' # "exited" => "logging" \in up' \/ logged' = 0
    BY <2>1, <2>2 DEF LogInv, Early
  <2> QED  BY <2>1, <2>2, <2>3 DEF LogInv, Early
<1>5. CASE StopStep
  <2>1. phase = "stop" /\ step \in 1..12 /\ up' = up \ {StopSteps[step]} /\ Buffer' = Buffer
    BY <1>5 DEF StopStep, StopInv, Cleared, Buffer
  <2>2. disk' = IF StopSteps[step] = "logging" /\ "logging" \in up THEN disk \cup Buffer ELSE disk
    BY <1>5 DEF StopStep, StopFlushes
  <2>3. logged' = logged
    BY <1>5 DEF StopStep
  <2>4. \/ phase' = "stop" /\ step' = step + 1
        \/ phase' = "shut" /\ step = 12
    BY <1>5, StopFacts DEF StopStep, Goes
  <2>5. step < 5 => "logging" \in up' \/ logged' = 0
    <3>1. step < 5 => StopSteps[step] # "logging"  BY <2>1, StopFacts
    <3> QED  BY <2>1, <2>3, <3>1 DEF LogInv
  <2>6. step = 5 => Buffer' \subseteq disk'
    <3>1. step = 5 => StopSteps[step] = "logging"  BY StopFacts
    <3> QED  BY <2>1, <2>2, <3>1, NothingLogged DEF LogInv
  <2>7. step > 5 => Buffer' \subseteq disk'
    BY <2>1, <2>2 DEF LogInv
  <2> QED  BY <2>1, <2>4, <2>5, <2>6, <2>7 DEF LogInv, Early
<1>6. CASE Exit
  BY <1>6 DEF Exit, Goes, LogInv, Early
<1>7. CASE Beside
  <2>1. up \ {"shell"} \subseteq up' /\ UNCHANGED <<phase, step, logged>> /\ disk \subseteq disk'
    BY <1>7, BesideKeepsDown, BesideKeepsDisk
  <2>2. Buffer' = Buffer  BY <2>1 DEF Buffer
  <2> QED  BY <2>1, <2>2 DEF LogInv
<1> QED  BY <1>1, <1>2, <1>3, <1>4, <1>5, <1>6, <1>7, OthersAreCalm

\* What the log's buffer holds when shutdown() returns is on disk, whatever
\* the loop, the flush and the network's thread did meanwhile, and for
\* buffers of every size: logging_service.py:124-130.
THEOREM LogOnDiskAlways == KernelSpec => []LogOnDisk
<1>1. KernelInit => StopInv /\ LogInv
  BY DEF KernelInit, StopInv, Stoppable, LogInv
<1>2. StopInv /\ LogInv /\ [KernelNext]_kernelVars => StopInv' /\ LogInv'
  BY StopInvStep, LogInvStep
<1>3. LogInv => LogOnDisk  BY DEF LogInv, LogOnDisk
<1> QED  BY <1>1, <1>2, <1>3, PTL DEF KernelSpec
=============================================================================
