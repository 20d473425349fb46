----------------------------- MODULE MCPeriphery -----------------------------
(* An instance for TLC of parts that share no state: the two halves of the *)
(* virtual network, AURA with its models, the package manager, the service  *)
(* registry and the shell's plugins. A behaviour is one of one of them,     *)
(* and the others stand still.                                              *)
(*                                                                         *)
(* The mesh comes in two: "mesh", where a server is asked for one thing    *)
(* in a unit of time, and "sync", where nodes neither announce themselves  *)
(* nor come back, and two servers can wait for each other.                 *)
EXTENDS CommandCenter, Mesh, Assistant, PackageManager, Extensions

VARIABLE part
restVars == <<assistantVars, packageVars, extensionVars>>
peripheryVars == <<ccVars, meshVars, restVars, part>>

PeripheryInit ==
  /\ CcInit /\ MeshInit /\ AssistantInit /\ PackageInit /\ ExtensionsInit
  /\ part \in {"center", "mesh", "sync", "assistant", "packages", "services", "plugins"}
  /\ part \notin {"mesh", "sync"} => keyed = {} /\ \A n \in Nodes : Active(n) = {}
  /\ part # "services" => \A n \in Shipped : deps[n] = <<>>

Periphery ==
  \/ part = "center" /\ CcNext /\ UNCHANGED <<meshVars, restVars, part>>
  \/ part = "mesh" /\ MeshNext /\ served' <= 1 /\ UNCHANGED <<ccVars, restVars, part>>
  \/ part = "sync" /\ MeshNext /\ waiting' = {} /\ down \subseteq down'
     /\ UNCHANGED <<ccVars, restVars, part>>
  \/ part = "assistant" /\ AssistantNext
     /\ UNCHANGED <<ccVars, meshVars, packageVars, extensionVars, part>>
  \/ part = "packages" /\ PackageNext
     /\ UNCHANGED <<ccVars, meshVars, assistantVars, extensionVars, part>>
  \/ part = "services" /\ ServicesNext
     /\ UNCHANGED <<ccVars, meshVars, assistantVars, packageVars, part>>
  \/ part = "plugins" /\ PluginsNext
     /\ UNCHANGED <<ccVars, meshVars, assistantVars, packageVars, part>>

\* Threads go on.
PeripherySpec ==
  /\ PeripheryInit /\ [][Periphery]_peripheryVars
  /\ \A t \in Threads : WF_ccVars(part = "center" /\ RunStep(t))
  /\ \A n \in Nodes, s \in Syncers : WF_meshVars(part \in {"mesh", "sync"} /\ SyncStep(n, s))
=============================================================================
