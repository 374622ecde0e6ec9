------------------------------ MODULE NodeLink ------------------------------
(***************************************************************************)
(* What the rest of the system can rely on about the connection between a  *)
(* node's agent and the control plane.  The agent dials out and dials      *)
(* again whenever it notices that its connection is gone; the control      *)
(* plane keeps one registry entry per node and drops it when it notices    *)
(* that the entry's socket is gone.  Neither side notices at once.         *)
(*                                                                         *)
(* This is the promise of the handshake, not the handshake: sockets, the   *)
(* register message and its delays are left out.                           *)
(***************************************************************************)
EXTENDS Naturals

CONSTANTS Nodes

VARIABLES link,   \* the agent's connection
          reg     \* NodeRegistryService.nodes, seen from the current connection

linkVars == <<link, reg>>

\* "broken": dead, but the agent's client has not noticed.  "offline": the
\* client has noticed, buffers what it is given and is trying to reconnect.
LinkStates == {"up", "broken", "offline"}

\* "live": getSocket returns the socket of the agent's current connection.
\* "stale": it returns an older socket, whose disconnect is still to come.
RegStates == {"none", "stale", "live"}

\* Connecting comes with a socket id the registry has never seen.
Reconnect(n) ==
  /\ link[n] = "offline"
  /\ link' = [link EXCEPT ![n] = "up"]
  /\ UNCHANGED reg

\* agent.register reaches the gateway: the new socket replaces any older one.
Register(n) ==
  /\ link[n] = "up"
  /\ reg[n] # "live"
  /\ reg' = [reg EXCEPT ![n] = "live"]
  /\ UNCHANGED link

Outdated(state) == IF state = "live" THEN "stale" ELSE state

BreakLink(n) ==
  /\ link[n] = "up"
  /\ link' = [link EXCEPT ![n] = "broken"]
  /\ reg' = [reg EXCEPT ![n] = Outdated(@)]

AgentNotices(n) ==
  /\ link[n] = "broken"
  /\ link' = [link EXCEPT ![n] = "offline"]
  /\ UNCHANGED reg

\* handleDisconnect of the registered socket.
ApiNotices(n) ==
  /\ reg[n] = "stale"
  /\ reg' = [reg EXCEPT ![n] = "none"]
  /\ UNCHANGED link

\* A register message of an older connection is handled late and takes the
\* entry over: register() replaces whatever socket is there.
Overtake(n) ==
  /\ reg[n] \in {"live", "none"}
  /\ reg' = [reg EXCEPT ![n] = "stale"]
  /\ UNCHANGED link

\* The control plane's process dies and starts again with an empty registry.
ApiDies ==
  /\ link' = [n \in Nodes |-> IF link[n] = "up" THEN "broken" ELSE link[n]]
  /\ reg' = [n \in Nodes |-> "none"]

\* The agent's process dies and starts again without a connection, or the
\* control plane turns the agent away.
AgentDies(n) ==
  /\ link' = [link EXCEPT ![n] = "offline"]
  /\ reg' = [reg EXCEPT ![n] = Outdated(@)]

\* A system that is starting, and one whose agents have all registered.
LinkStart ==
  /\ link = [n \in Nodes |-> "offline"]
  /\ reg = [n \in Nodes |-> "none"]

LinkInit ==
  /\ link = [n \in Nodes |-> "up"]
  /\ reg = [n \in Nodes |-> "live"]

LinkNext ==
  \/ \E n \in Nodes : \/ Reconnect(n) \/ Register(n) \/ BreakLink(n)
                      \/ AgentNotices(n) \/ ApiNotices(n) \/ AgentDies(n)
                      \/ Overtake(n)
  \/ ApiDies

LinkSpec == LinkStart /\ [][LinkNext]_linkVars

LinkTypeOK == link \in [Nodes -> LinkStates] /\ reg \in [Nodes -> RegStates]

\* The socket that getSocket returns leads to the agent whenever the entry is
\* the current one: a command is only ever lost on a stale entry.
LiveMeansUp == \A n \in Nodes : reg[n] = "live" => link[n] = "up"
=============================================================================
