------------------------------- MODULE MCKernel -------------------------------
(* Instances of Kernel and Override for TLC.                               *)
EXTENDS Kernel, Override

\* Five settings, of one module or the other, that do not meet:
\*   "boot"      every way to start, and no thread beside the main one;
\*   "rounds"    the launcher's way, with the parts' threads and the services;
\*   "talk"      the launcher's way, with the shell and the web terminal;
\*   "consent"   the launcher's way, with somebody who drives Hardware Mode;
\*   "override"  no kernel at work: permissions, overrides and escalations. On a
\*               host where nothing can be granted, permissions are left alone.
CONSTANT Settings
VARIABLE setting

mcVars == <<kernelVars, overrideVars, setting>>

MCInit ==
  /\ KernelInit /\ OverrideInit /\ setting \in Settings
  /\ mode # "hardware" /\ (host = "linux" => bridged)
  /\ IF setting = "override" THEN surface = "universal"
                            ELSE mode = "universal" /\ host = "linux"

MCKernelNext ==
  /\ setting # "override"
  /\ \/ setting = "boot" /\ Boots
     \/ LauncherMain \/ MainStep \/ Interrupt \/ RequestCapability \/ PromptAnswered
     \/ setting = "rounds" /\ (Rounds \/ \E n \in Units : UnitMoves(n))
     \/ setting = "talk" /\ Talks
     \/ setting = "consent" /\ Hardware
  /\ UNCHANGED <<overrideVars, setting>>

MCNext ==
  \/ MCKernelNext
  \/ /\ setting = "override" /\ OverrideNext
     /\ host # "linux" => permVars' = permVars
     /\ UNCHANGED <<kernelVars, setting>>

MCSpec == MCInit /\ [][MCNext]_mcVars /\ WF_mcVars(MCKernelNext /\ MainStep)
=============================================================================
