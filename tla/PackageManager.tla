--------------------------- MODULE PackageManager ---------------------------
(***************************************************************************)
(* services/package_manager.py behind the shell's pkg command: packages    *)
(* are installed, upgraded and uninstalled by several threads, and the     *)
(* registry follows, in memory under a lock and on disk without one. The   *)
(* manager that the shell makes at its first pkg command is there.         *)
(*                                                                         *)
(* pip is external: it succeeds, fails or times out. Of a record its       *)
(* package is kept.                                                        *)
(***************************************************************************)
EXTENDS Naturals, FiniteSets

CONSTANTS
  Packages,  \* package names
  Clients    \* threads that dispatch commands: the shell, the web terminal

NotCalling == [at |-> "away"]
CutShort == {"cut short"}  \* a packages.json that was opened and not written

VARIABLES
  packages,  \* the keys of _registry
  file,      \* the packages in packages.json, or CutShort
  call,      \* what each client is doing
  spoilt     \* a save failed, was cut short or met another one, and none
             \* has been made since; for stating the property only

packageVars == <<packages, file, call, spoilt>>

PackageTypeOK ==
  /\ packages \subseteq Packages /\ file \in SUBSET Packages \cup {CutShort}
  /\ \A c \in Clients : call[c].at \in {"away", "save", "open", "write"}
  /\ spoilt \in BOOLEAN

PackageInit ==
  /\ packages = {} /\ file = {} /\ spoilt = FALSE
  /\ call = [c \in Clients |-> NotCalling]

Saving(c) == call[c].at \in {"open", "write"}

\* install() and upgrade(): the record is made where pip succeeded; where it
\* failed or timed out nothing is, whatever it has done by then.
Install(c, p) ==
  /\ call[c] = NotCalling
  /\ packages' = packages \cup {p}
  /\ call' = [call EXCEPT ![c] = [at |-> "save"]]
  /\ UNCHANGED <<file, spoilt>>

\* A fault: the record is dropped in memory only.
UninstallForgets(c, p) ==
  /\ call[c] = NotCalling
  /\ packages' = packages \ {p}
  /\ UNCHANGED <<file, call, spoilt>>

\* uninstall(): the record is dropped whether pip succeeded or not.
Uninstall(c, p) ==
  /\ call[c] = NotCalling
  /\ packages' = packages \ {p}
  /\ call' = [call EXCEPT ![c] = [at |-> "save"]]
  /\ UNCHANGED <<file, spoilt>>

\* _save_registry(): the payload is taken under the lock ...
SaveTakes(c) ==
  /\ call[c].at = "save"
  /\ call' = [call EXCEPT ![c] = [at |-> "open", what |-> packages]]
  /\ spoilt' = \E d \in Clients : d # c /\ Saving(d)
  /\ UNCHANGED <<packages, file>>

\* ... the file is opened, which empties it, or cannot be ...
SaveOpensFile(c) ==
  /\ call[c].at = "open"
  /\ \/ call' = [call EXCEPT ![c].at = "write"] /\ file' = CutShort /\ UNCHANGED spoilt
     \/ call' = [call EXCEPT ![c] = NotCalling] /\ spoilt' = TRUE /\ UNCHANGED file
  /\ UNCHANGED packages

\* ... and written. Two that write at a time may leave a mixture.
SaveWritesFile(c) ==
  /\ call[c].at = "write"
  /\ \/ file' = call[c].what
     \/ file' = CutShort /\ \E d \in Clients : d # c /\ call[d].at = "write"
  /\ call' = [call EXCEPT ![c] = NotCalling]
  /\ UNCHANGED <<packages, spoilt>>

\* The process ends and another begins: __init__() and _load_registry(),
\* which finds nothing in a file that was cut short.
PackagesReload ==
  /\ packages' = IF file = CutShort THEN {} ELSE file
  /\ call' = [c \in Clients |-> NotCalling]
  /\ spoilt' = (file = CutShort)
  /\ UNCHANGED file

PackageNext ==
  \/ \E c \in Clients :
       \/ \E p \in Packages : Install(c, p) \/ Uninstall(c, p)
       \/ SaveTakes(c) \/ SaveOpensFile(c) \/ SaveWritesFile(c)
  \/ PackagesReload

PackageSpec == PackageInit /\ [][PackageNext]_packageVars

-----------------------------------------------------------------------------
\* When no command is under way, packages.json lists what the registry holds,
\* whatever was installed, dropped or restarted in between, unless the last
\* save failed or ran beside another, which no lock prevents:
\* package_manager.py:120-126, 154-156, 215-225.
FileFollowsRegistry ==
  ~ spoilt /\ (\A c \in Clients : call[c] = NotCalling) => file = packages
=============================================================================
