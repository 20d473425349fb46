---------------------------- MODULE CommandCenter ----------------------------
(***************************************************************************)
(* vnet/command_center.py and vnet/node_identity.py: the client that       *)
(* registers this node, under the identity that it keeps in a file, with a *)
(* command center and then sends it heartbeats, in a thread of its own,    *)
(* while start() and stop() are called by others. Requests and replies get *)
(* lost and the process dies; the command center itself is external.       *)
(***************************************************************************)
EXTENDS Naturals, FiniteSets

CONSTANTS
  Threads,  \* heartbeat threads that may exist at a time
  Ids,      \* bound: what uuid4() returns
  NoId

ASSUME CommandCenterAssumption ==
  IsFiniteSet(Threads) /\ IsFiniteSet(Ids) /\ NoId \notin Ids

VARIABLES
  running,     \* _running
  registered,  \* _registered
  thread,      \* where each thread of _run() is
  caller,      \* where the caller of stop() is
  listed,      \* the nodes that the command center lists
  node,        \* the process: down, saving its identity, up
  nodeId,      \* NodeIdentity.node_id
  stored,      \* node_identity.json, NoId if it is missing or cannot be read
  drawn        \* the ids that uuid4() has returned

idVars == <<node, nodeId, stored, drawn>>
ccVars == <<running, registered, thread, caller, listed, idVars>>

CcTypeOK ==
  /\ {running, registered} \subseteq BOOLEAN /\ listed \cup drawn \subseteq Ids
  /\ thread \in [Threads -> {"off", "check", "post", "posted", "backoff", "loop", "wait", "beat"}]
  /\ caller \in {"away", "stopping", "deregistered"}
  /\ node \in {"down", "saving", "up"} /\ {nodeId, stored} \subseteq Ids \cup {NoId}

CcInit ==
  /\ running = FALSE /\ registered = FALSE /\ listed = {}
  /\ thread = [t \in Threads |-> "off"] /\ caller = "away"
  /\ node = "down" /\ nodeId = NoId /\ stored = NoId /\ drawn = {}

At(t, from, to) == thread[t] = from /\ thread' = [thread EXCEPT ![t] = to]

-----------------------------------------------------------------------------
\* NodeIdentity._load(): what is in the file, or a new identity.
LoadIdentity ==
  /\ nodeId' \in IF stored # NoId THEN {stored} ELSE Ids \ drawn
  /\ drawn' = drawn \cup {nodeId'}

\* NodeIdentity.__init__(): every start opens the file for writing, which
\* empties it, unless it cannot be opened.
NodeBoots ==
  /\ node = "down" /\ LoadIdentity
  /\ \/ node' = "saving" /\ stored' = NoId
     \/ node' = "up" /\ UNCHANGED stored
  /\ UNCHANGED <<running, registered, thread, caller, listed>>

\* _save() has written the file, or has failed to.
SaveIdentity ==
  /\ node = "saving" /\ node' = "up" /\ stored' \in {nodeId, NoId}
  /\ UNCHANGED <<running, registered, thread, caller, listed, nodeId, drawn>>

\* The process dies, without a word to the command center.
NodeDies ==
  /\ node # "down" /\ (stored # NoId \/ drawn # Ids)
  /\ node' = "down" /\ nodeId' = NoId
  /\ running' = FALSE /\ registered' = FALSE
  /\ thread' = [t \in Threads |-> "off"] /\ caller' = "away"
  /\ UNCHANGED <<listed, stored, drawn>>

-----------------------------------------------------------------------------
\* start()
CcStart(t) ==
  /\ node = "up" /\ caller = "away" /\ ~ running /\ running' = TRUE
  /\ At(t, "off", "check")
  /\ UNCHANGED <<registered, caller, listed, idVars>>

\* stop(): the flag, and a deregistration where there is something to undo.
CcStop ==
  /\ caller = "away" /\ running /\ running' = FALSE
  /\ caller' = IF registered THEN "stopping" ELSE "away"
  /\ UNCHANGED <<registered, thread, listed, idVars>>

\* _deregister(): the request or the reply may be lost, which is ignored.
Deregisters ==
  /\ caller = "stopping"
  /\ \/ listed' = listed \ {nodeId} /\ caller' = "deregistered"
     \/ listed' \in {listed, listed \ {nodeId}} /\ caller' = "away"
  /\ UNCHANGED <<running, registered, thread, idVars>>

Deregistered ==
  /\ caller = "deregistered" /\ caller' = "away" /\ registered' = FALSE
  /\ UNCHANGED <<running, thread, listed, idVars>>

-----------------------------------------------------------------------------
\* _run(), the first loop: until it is registered or told to stop.
RunChecks(t) ==
  /\ At(t, "check", IF running /\ ~ registered THEN "post" ELSE "loop")
  /\ UNCHANGED <<running, registered, caller, listed, idVars>>

\* _register() gets an answer, or none although it may have arrived.
Registers(t) ==
  /\ At(t, "post", "posted") /\ listed' = listed \cup {nodeId}
  /\ UNCHANGED <<running, registered, caller, idVars>>

RegisterFails(t) ==
  /\ At(t, "post", "backoff") /\ listed' \in {listed, listed \cup {nodeId}}
  /\ UNCHANGED <<running, registered, caller, idVars>>

RunRegistered(t) ==
  /\ At(t, "posted", "loop") /\ registered' = TRUE
  /\ UNCHANGED <<running, caller, listed, idVars>>

\* The back-off is over.
RunRetries(t) ==
  /\ At(t, "backoff", "check")
  /\ UNCHANGED <<running, registered, caller, listed, idVars>>

\* A fault: the flag is not looked at again after the sleep, nor before it.
NeverLooks(t, from, to) == At(t, from, to)

\* The loops leave off when the flag is down.
WhileRunning(t, from, to) == At(t, from, IF running THEN to ELSE "off")

\* _run(), the second loop: the flag is looked at before and after the sleep.
RunLoops(t) ==
  /\ WhileRunning(t, "loop", "wait")
  /\ UNCHANGED <<running, registered, caller, listed, idVars>>

RunWakes(t) ==
  /\ WhileRunning(t, "wait", "beat")
  /\ UNCHANGED <<running, registered, caller, listed, idVars>>

\* _heartbeat(): it gets through or counts as an error, and nothing follows
\* from either; the commands in the answer are the handler's business.
Heartbeat(t) ==
  /\ At(t, "beat", "loop")
  /\ UNCHANGED <<running, registered, caller, listed, idVars>>

RunStep(t) ==
  \/ RunChecks(t) \/ Registers(t) \/ RegisterFails(t) \/ RunRegistered(t) \/ RunRetries(t)
  \/ RunLoops(t) \/ RunWakes(t) \/ Heartbeat(t)

CcNext ==
  \/ NodeBoots \/ SaveIdentity \/ NodeDies
  \/ CcStop \/ Deregisters \/ Deregistered
  \/ \E t \in Threads : CcStart(t) \/ RunStep(t)

-----------------------------------------------------------------------------
\* After stop() no heartbeat thread goes on for ever, also when it was in
\* the middle of a request or of a sleep: command_center.py:179-184.
HeartbeatsEnd == ~ running ~> running \/ \A t \in Threads : thread[t] = "off"
=============================================================================
