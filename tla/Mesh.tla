-------------------------------- MODULE Mesh --------------------------------
(***************************************************************************)
(* vnet/mesh.py and vnet/peer_registry.py with the server of               *)
(* services/command_channel.py: nodes that pull each other's status, drop  *)
(* the peers they have not heard of, and take the lowest of the others and *)
(* themselves as coordinator; announcements wait for a server that is      *)
(* busy, also when the node that made them is gone.                        *)
(*                                                                         *)
(* A unit of time is the interval of the sync thread. A node has two       *)
(* threads that synchronise: that one and the channel's, which serves one  *)
(* request at a time, /api/mesh/sync among them. Mesh requests carry no    *)
(* key: a channel with an api_key refuses them.                            *)
(***************************************************************************)
EXTENDS Naturals, FiniteSets

CONSTANTS
  Nodes,       \* node_ids, in their lexicographic order
  StaleAfter,  \* _PEER_STALE_S in units of _SYNC_INTERVAL_S
  MaxServed    \* bound on the syncs and commands asked of servers in a unit

ASSUME MeshAssumption ==
  Nodes \subseteq Nat \ {0} /\ IsFiniteSet(Nodes) /\ StaleAfter \in Nat /\ MaxServed \in Nat

Syncers == {"loop", "server"}
Unknown == StaleAfter + 2  \* no record of the peer; beyond every age
Ages == 0..Unknown
Idle == [at |-> "idle"]

VARIABLES
  age,          \* how long ago each node last heard of each other
  coordinator,  \* _coordinator, 0 for None
  sync,         \* what each syncing thread is doing
  synced,       \* the nodes whose sync thread has had its turn in this unit
  elected,      \* those of them whose sync came to its end
  served,       \* the syncs and commands begun by servers in this unit
  down,         \* the nodes that are down
  silent,       \* history: how long ago the second of two nodes died or, if that
                \* is later, the first handled what it had announced; 0 if it lives
  waiting,      \* announcements in the backlog of a server: <<sender, receiver>>
  channel,      \* CommandChannelService of each node
  keyed         \* the nodes with an api_key

channelVars == <<channel, keyed>>
lifeVars == <<down, silent>>
turnVars == <<synced, elected, served>>
meshVars == <<age, coordinator, sync, turnVars, lifeVars, waiting, channelVars>>

Alive(n) == n \notin down
\* PeerRegistry.active()
Active(n) == {p \in Nodes \ {n} : age[n][p] <= StaleAfter}
Least(S) == CHOOSE x \in S : \A y \in S : x <= y

MeshTypeOK ==
  /\ age \in [Nodes -> [Nodes -> Ages]] /\ coordinator \in [Nodes -> Nodes \cup {0}]
  /\ \A n \in Nodes, s \in Syncers : sync[n][s].at \in {"idle", "asking", "command"}
  /\ elected \subseteq synced /\ synced \subseteq Nodes /\ served \in 0..MaxServed
  /\ down \subseteq Nodes /\ silent \in [Nodes -> [Nodes -> Ages]]
  /\ waiting \subseteq Nodes \X Nodes
  /\ channel \in [Nodes -> {"off", "on"}] /\ keyed \subseteq Nodes

\* CommandChannelService.__init__(): the key is a parameter or CC_API_KEY.
ChannelInit == channel = [n \in Nodes |-> "off"] /\ keyed \in {{}, Nodes}

\* Some of the nodes have each other in peers.json.
MeshInit ==
  /\ \E known \in {{}, Nodes} :
       age = [n \in Nodes |-> [p \in Nodes |-> IF p \in known \ {n} THEN 0 ELSE Unknown]]
  /\ coordinator = [n \in Nodes |-> 0] /\ sync = [n \in Nodes |-> [s \in Syncers |-> Idle]]
  /\ synced = {} /\ elected = {} /\ served = 0 /\ waiting = {}
  /\ down = {} /\ silent = [n \in Nodes |-> [p \in Nodes |-> 0]]
  /\ ChannelInit

-----------------------------------------------------------------------------
\* CommandChannelService.start(), where the port is free.
ChannelStart(n) ==
  /\ Alive(n) /\ channel[n] = "off" /\ channel' = [channel EXCEPT ![n] = "on"]
  /\ UNCHANGED <<age, coordinator, sync, turnVars, lifeVars, waiting, keyed>>

\* The server is free for a request.
Listens(n) == Alive(n) /\ channel[n] = "on" /\ sync[n]["server"] = Idle

\* CommandChannelService.stop() returns when the server has ended, which it
\* does between two requests; what waits for it then is lost.
Lost(n) == waiting' = waiting \ (Nodes \X {n})
ChannelStop(n) ==
  /\ Listens(n) /\ channel' = [channel EXCEPT ![n] = "off"] /\ Lost(n)
  /\ UNCHANGED <<age, coordinator, sync, turnVars, lifeVars, keyed>>

\* _check_auth() of a request without key
Authorised(n) == n \notin keyed

\* do_GET() and do_POST() of such a request; those that only read are
\* answered at once and change nothing.
Serves(n) == Listens(n) /\ Authorised(n)

\* A request that goes to the kernel: a command for the shell's dispatch(), a
\* service to start or stop, a build to trigger. The server is taken until it
\* returns, which it may never do, or raises.
CommandBegins(n) ==
  /\ Listens(n) /\ served < MaxServed /\ served' = served + 1
  /\ sync' = [sync EXCEPT ![n]["server"] = [at |-> "command"]]
  /\ UNCHANGED <<age, coordinator, synced, elected, lifeVars, waiting, channelVars>>

CommandEnds(n) ==
  /\ sync[n]["server"].at = "command"
  /\ sync' = [sync EXCEPT ![n]["server"] = Idle]
  /\ UNCHANGED <<age, coordinator, turnVars, lifeVars, waiting, channelVars>>

-----------------------------------------------------------------------------
\* A fault: a record is refreshed whatever became of the request.
RefreshesAnyway(n, p, heard) == age' = [age EXCEPT ![n][p] = 0]

\* add_or_update() of a peer that was heard of; nothing otherwise.
Refresh(n, p, heard) == age' = IF heard THEN [age EXCEPT ![n][p] = 0] ELSE age

\* announce_to_peer(): the request waits until the peer's server comes to it.
\* The node gives up waiting after _REQUEST_TIMEOUT, which takes nothing back.
Announce(n, p) ==
  /\ Alive(n) /\ n # p /\ Alive(p) /\ channel[p] = "on"
  /\ waiting' = waiting \cup {<<n, p>>}
  /\ UNCHANGED <<age, coordinator, sync, turnVars, lifeVars, channelVars>>

\* _handle_announce(): the one that announced itself was heard of, be it alive
\* or not.
Announced(n, p) ==
  /\ <<n, p>> \in waiting /\ waiting' = waiting \ {<<n, p>>}
  /\ Listens(p) /\ Refresh(p, n, Authorised(p))
  /\ silent' = IF ~ Alive(n) /\ Authorised(p) THEN [silent EXCEPT ![p][n] = 1] ELSE silent

AnnounceHandled(n, p) ==
  /\ Announced(n, p)
  /\ UNCHANGED <<coordinator, sync, turnVars, down, channelVars>>

\* A sync thread's turn in this unit.
HadTurn(n, s) == synced' = IF s = "loop" THEN synced \cup {n} ELSE synced

\* active() goes through the dictionary to which an announcement handled by the
\* other thread adds a peer: sync_state() raises at its beginning or at its end,
\* and _run() waits for its next turn.
SyncRaises(n, p) ==
  /\ \/ sync[n]["loop"] = Idle /\ n \notin synced
     \/ sync[n]["loop"].at = "asking" /\ sync[n]["loop"].todo = {}
  /\ age[n][p] = Unknown /\ Authorised(n) /\ Announced(p, n)
  /\ sync' = [sync EXCEPT ![n]["loop"] = Idle] /\ HadTurn(n, "loop")
  /\ UNCHANGED <<coordinator, elected, served, down, channelVars>>

\* sync_state() begins, in _run() or in _handle_mesh_sync(): the peers that
\* are not stale are asked one after the other.
SyncBegins(n, s) ==
  /\ Alive(n) /\ sync[n][s] = Idle
  /\ IF s = "loop" THEN n \notin synced /\ UNCHANGED served
                   ELSE channel[n] = "on" /\ served < MaxServed /\ served' = served + 1
  /\ sync' = [sync EXCEPT ![n][s] = [at |-> "asking", todo |-> Active(n)]]
  /\ UNCHANGED <<age, coordinator, synced, elected, lifeVars, waiting, channelVars>>

Asks(n, s, p) == sync[n][s].at = "asking" /\ p \in sync[n][s].todo
Asked(n, s, p) == sync' = [sync EXCEPT ![n][s].todo = @ \ {p}]

\* _fetch_peer_status() is answered by a server that is free.
Fetched(n, s, p) ==
  /\ Asks(n, s, p) /\ Serves(p)
  /\ Asked(n, s, p) /\ Refresh(n, p, TRUE)
  /\ UNCHANGED <<coordinator, turnVars, lifeVars, waiting, channelVars>>

\* A fault: the request has no timeout; only a refused connection ends it.
NoTimeout(p) == ~ Alive(p)

\* urlopen(timeout=...) gives up on a peer that is down or does not answer.
TimesOut(p) == TRUE

Unreachable(n, s, p) ==
  /\ Asks(n, s, p) /\ TimesOut(p)
  /\ Asked(n, s, p) /\ Refresh(n, p, FALSE)
  /\ UNCHANGED <<coordinator, turnVars, lifeVars, waiting, channelVars>>

\* _compute_coordinator(), and the sync is over.
SyncEnds(n, s) ==
  /\ sync[n][s].at = "asking" /\ sync[n][s].todo = {}
  /\ coordinator' = [coordinator EXCEPT ![n] = Least({n} \cup Active(n))]
  /\ sync' = [sync EXCEPT ![n][s] = Idle]
  /\ HadTurn(n, s) /\ elected' = IF s = "loop" THEN elected \cup {n} ELSE elected
  /\ UNCHANGED <<age, served, lifeVars, waiting, channelVars>>

\* The node dies; restarted, it reads peers.json, which is empty if it died
\* while it was writing it.
CrashNode(n) ==
  /\ Alive(n) /\ down' = down \cup {n}
  /\ silent' = [m \in Nodes |-> [silent[m] EXCEPT ![n] = IF m = n THEN 0 ELSE 1]]
  /\ Lost(n)
  /\ sync' = [sync EXCEPT ![n] = [s \in Syncers |-> Idle]]
  /\ channel' = [channel EXCEPT ![n] = "off"]
  /\ UNCHANGED <<age, coordinator, turnVars, keyed>>

RestartNode(n) ==
  /\ ~ Alive(n) /\ down' = down \ {n}
  /\ silent' = [m \in Nodes |-> [silent[m] EXCEPT ![n] = 0]]
  /\ coordinator' = [coordinator EXCEPT ![n] = 0]
  /\ age' \in {age, [age EXCEPT ![n] = [p \in Nodes |-> Unknown]]}
  /\ UNCHANGED <<sync, turnVars, waiting, channelVars>>

\* A unit of time goes by, in which every sync thread had its turn.
Older(a) == IF a <= StaleAfter THEN a + 1 ELSE a
Longer(d) == IF d \in 1..(Unknown - 1) THEN d + 1 ELSE d
TimePasses ==
  /\ \A n \in Nodes : Alive(n) => n \in synced
  /\ \A n \in Nodes, s \in Syncers : sync[n][s].at # "asking"
  /\ age' = [n \in Nodes |-> [p \in Nodes |-> Older(age[n][p])]]
  /\ silent' = [n \in Nodes |-> [p \in Nodes |-> Longer(silent[n][p])]]
  /\ synced' = {} /\ elected' = {} /\ served' = 0
  /\ UNCHANGED <<coordinator, sync, down, waiting, channelVars>>

SyncStep(n, s) ==
  SyncEnds(n, s) \/ \E p \in Nodes : Fetched(n, s, p) \/ Unreachable(n, s, p)

MeshNext ==
  \/ TimePasses
  \/ \E n \in Nodes :
       \/ CrashNode(n) \/ RestartNode(n)
       \/ ChannelStart(n) \/ ChannelStop(n) \/ CommandBegins(n) \/ CommandEnds(n)
       \/ \E s \in Syncers : SyncBegins(n, s) \/ SyncStep(n, s)
       \/ \E p \in Nodes : Announce(n, p) \/ AnnounceHandled(n, p) \/ SyncRaises(n, p)

MeshSpec == MeshInit /\ [][MeshNext]_meshVars

-----------------------------------------------------------------------------
\* A node is nobody's coordinator once it has been dead for the stale age and a
\* unit more, the other has handled nothing that it had announced for as long,
\* and the sync of this unit was not cut short, whoever else crashed, restarted
\* or announced itself: mesh.py:182-186, peer_registry.py:54-55. An announcement
\* that waited longer than its sender lived gives the dead node that much again.
CrashedDeposed ==
  \A n, c \in Nodes : n \in elected /\ Alive(n) /\ silent[n][c] = Unknown => coordinator[n] # c

\* Nodes that synchronise through their servers wait for each other's server;
\* every sync ends all the same: mesh.py:100-142, command_channel.py:268-275.
SyncsEnd ==
  \A n \in Nodes, s \in Syncers : sync[n][s].at = "asking" ~> sync[n][s] = Idle
=============================================================================
