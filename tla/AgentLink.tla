----------------------------- MODULE AgentLink -----------------------------
(***************************************************************************)
(* How an agent gets into the control plane's registry and stays there:    *)
(* AgentConnectionService on top of the socket.io client at one end,       *)
(* NodesGateway and NodeRegistryService at the other.                      *)
(*                                                                         *)
(* Connections of a node are numbered; the number stands for the socket id *)
(* the registry compares.  Each end learns of a dead connection in its own *)
(* time, and the agent asks Docker for its version between connecting and  *)
(* sending agent.register, so activations of handleConnect can overlap.    *)
(***************************************************************************)
EXTENDS Naturals, Sequences

CONSTANTS Nodes,
          Trusted,     \* nodes with the right AGENT_TOKEN
          MaxConns,    \* bound: connections of a node
          MaxFaults,   \* bound: cuts and process deaths
          MaxBuffered  \* bound: heartbeats not yet delivered

ASSUME TrustedAssumption == Trusted \subseteq Nodes
ASSUME BoundsAssumption == MaxConns \in Nat /\ MaxFaults \in Nat

Conns == 1 .. MaxConns

VARIABLES client,      \* the agent's socket: which connection, or why none
          conn,        \* the connections, in the order they were opened
          wire,        \* messages of a connection on their way to the gateway
          reply,       \* agent.registered on its way to the agent
          outbox,      \* the socket.io client's send buffer
          collecting,  \* handleConnect activations that wait for Docker
          beating,     \* heartbeatTimer is set
          entry,       \* NodeRegistryService.nodes: the registered socket
          overtaken,   \* history: nodes whose entry went back to an older socket
          faults

vars == <<client, conn, wire, reply, outbox, collecting, beating, entry, overtaken, faults>>

NoEntry == 0
Online(n) == client[n] = "online"
Current(n) == Len(conn[n])
Works(n) == Online(n) /\ conn[n][Current(n)].net = "open"

Message == {"register", "heartbeat"}

Connection == [net : {"open", "cut"}, api : {"open", "closed"}]

TypeOK ==
  /\ client \in [Nodes -> {"online", "offline", "refused"}]
  /\ conn \in [Nodes -> Seq(Connection)]
  /\ wire \in [Nodes -> [Conns -> Seq(Message)]]
  /\ reply \in [Nodes -> SUBSET Conns]
  /\ outbox \in [Nodes -> Seq(Message)]
  /\ collecting \in [Nodes -> Nat]
  /\ beating \in [Nodes -> BOOLEAN]
  /\ entry \in [Nodes -> {NoEntry} \cup Conns]
  /\ overtaken \subseteq Trusted
  /\ faults \in 0 .. MaxFaults

Init ==
  /\ client = [n \in Nodes |-> "offline"]
  /\ conn = [n \in Nodes |-> <<>>]
  /\ wire = [n \in Nodes |-> [c \in Conns |-> <<>>]]
  /\ reply = [n \in Nodes |-> {}]
  /\ outbox = [n \in Nodes |-> <<>>]
  /\ collecting = [n \in Nodes |-> 0]
  /\ beating = [n \in Nodes |-> FALSE]
  /\ entry = [n \in Nodes |-> NoEntry]
  /\ overtaken = {}
  /\ faults = 0

-----------------------------------------------------------------------------
(* The agent *)

\* socket.emit: to the current connection, lost when that is dead, or kept by
\* the client until the next one.
Send(n, m) ==
  /\ wire' = IF Works(n) THEN [wire EXCEPT ![n][Current(n)] = Append(@, m)] ELSE wire
  /\ outbox' = IF Online(n) THEN outbox ELSE [outbox EXCEPT ![n] = Append(@, m)]

\* The buffer goes out first; the connect event then starts handleConnect.
Connect(n) ==
  /\ client[n] = "offline"
  /\ Len(conn[n]) < MaxConns
  /\ client' = [client EXCEPT ![n] = "online"]
  /\ conn' = [conn EXCEPT ![n] = Append(@, [net |-> "open", api |-> "open"])]
  /\ wire' = [wire EXCEPT ![n][Len(conn[n]) + 1] = outbox[n]]
  /\ outbox' = [outbox EXCEPT ![n] = <<>>]
  /\ collecting' = [collecting EXCEPT ![n] = @ + 1]
  /\ overtaken' = overtaken \ {n}
  /\ UNCHANGED <<reply, beating, entry, faults>>

SendRegisterUnasked(n) ==
  /\ collecting' = [collecting EXCEPT ![n] = @ - 1]
  /\ Send(n, "register")
  /\ UNCHANGED <<client, conn, reply, beating, entry, overtaken, faults>>

\* collectHostInfo returns, on whatever connection the agent is by now.
SendRegister(n) ==
  /\ collecting[n] > 0
  /\ collecting' = [collecting EXCEPT ![n] = @ - 1]
  /\ Send(n, "register")
  /\ UNCHANGED <<client, conn, reply, beating, entry, overtaken, faults>>

\* handleMessage of agent.registered: startHeartbeat.
ReceiveRegistered(n) ==
  /\ Works(n)
  /\ Current(n) \in reply[n]
  /\ reply' = [reply EXCEPT ![n] = @ \ {Current(n)}]
  /\ beating' = [beating EXCEPT ![n] = TRUE]
  /\ UNCHANGED <<client, conn, wire, outbox, collecting, entry, overtaken, faults>>

\* The timer goes on while the agent is offline: the client's buffer grows.
Beat(n) ==
  /\ beating[n]
  /\ Len(outbox[n]) < MaxBuffered
  /\ Online(n) => Len(wire[n][Current(n)]) < MaxBuffered
  /\ Send(n, "heartbeat")
  /\ UNCHANGED <<client, conn, reply, collecting, beating, entry, overtaken, faults>>

NoticeLoss(n) ==
  /\ Online(n)
  /\ conn[n][Current(n)].net = "cut"
  /\ client' = [client EXCEPT ![n] = "offline"]
  /\ UNCHANGED <<conn, wire, reply, outbox, collecting, beating, entry, overtaken, faults>>

-----------------------------------------------------------------------------
(* The control plane *)

UnregisterNothing(n, c) == UNCHANGED entry

UnregisterNode(n, c) == entry' = [entry EXCEPT ![n] = NoEntry]

\* handleDisconnect: only the entry that holds this very socket goes.
Unregister(n, c) == entry' = [entry EXCEPT ![n] = IF @ = c THEN NoEntry ELSE @]

Accept(n, c) ==
  /\ n \in Trusted
  /\ entry' = [entry EXCEPT ![n] = c]
  /\ overtaken' = IF c < entry[n] THEN overtaken \cup {n} ELSE overtaken
  /\ reply' = [reply EXCEPT ![n] = @ \cup {c}]
  /\ UNCHANGED <<client, conn>>

\* registrationFailed and disconnect(true): the client of a socket that the
\* server disconnected does not try again, unless it was cut off before.
Reject(n, c) ==
  /\ n \notin Trusted
  /\ conn' = [conn EXCEPT ![n][c] = [net |-> "cut", api |-> "closed"]]
  /\ client' = [client EXCEPT ![n] = IF Works(n) /\ c = Current(n) THEN "refused" ELSE @]
  /\ Unregister(n, c)
  /\ UNCHANGED <<reply, overtaken>>

\* NodesGateway.handleMessage; touchHeartbeat only dates the entry.
Receive(n, c) ==
  /\ c \in DOMAIN conn[n]
  /\ conn[n][c].api = "open"
  /\ wire[n][c] # <<>>
  /\ wire' = [wire EXCEPT ![n][c] = Tail(@)]
  /\ \/ /\ Head(wire[n][c]) = "register"
        /\ Accept(n, c) \/ Reject(n, c)
     \/ /\ Head(wire[n][c]) = "heartbeat"
        /\ UNCHANGED <<client, conn, reply, entry, overtaken>>
  /\ UNCHANGED <<outbox, collecting, beating, faults>>

DetectDisconnect(n, c) ==
  /\ c \in DOMAIN conn[n]
  /\ conn[n][c].api = "open"
  /\ conn[n][c].net = "cut"
  /\ conn' = [conn EXCEPT ![n][c].api = "closed"]
  /\ Unregister(n, c)
  /\ UNCHANGED <<client, wire, reply, outbox, collecting, beating, overtaken, faults>>

-----------------------------------------------------------------------------
(* Faults *)

CutAll(s) == [c \in DOMAIN s |-> [net |-> "cut", api |-> s[c].api]]

\* What was on a dead connection is lost, or still arrives.
Remains(n) == {wire[n], [c \in Conns |-> <<>>]}

Cut(n) ==
  /\ Works(n)
  /\ conn' = [conn EXCEPT ![n] = CutAll(@)]
  /\ \E left \in Remains(n) : wire' = [wire EXCEPT ![n] = left]
  /\ UNCHANGED <<client, reply, outbox, collecting, beating, entry, overtaken>>

AgentRestart(n) ==
  /\ client' = [client EXCEPT ![n] = "offline"]
  /\ conn' = [conn EXCEPT ![n] = CutAll(@)]
  /\ \E left \in Remains(n) : wire' = [wire EXCEPT ![n] = left]
  /\ outbox' = [outbox EXCEPT ![n] = <<>>]
  /\ collecting' = [collecting EXCEPT ![n] = 0]
  /\ beating' = [beating EXCEPT ![n] = FALSE]
  /\ UNCHANGED <<reply, entry, overtaken>>

ApiRestart ==
  /\ conn' = [n \in Nodes |-> [c \in DOMAIN conn[n] |-> [net |-> "cut", api |-> "closed"]]]
  /\ wire' = [n \in Nodes |-> [c \in Conns |-> <<>>]]
  /\ reply' = [n \in Nodes |-> {}]
  /\ entry' = [n \in Nodes |-> NoEntry]
  /\ UNCHANGED <<client, outbox, collecting, beating, overtaken>>

Fault ==
  /\ faults < MaxFaults
  /\ faults' = faults + 1
  /\ (\E n \in Nodes : Cut(n) \/ AgentRestart(n)) \/ ApiRestart

AgentStep(n) == Connect(n) \/ SendRegister(n) \/ ReceiveRegistered(n) \/ NoticeLoss(n)

ApiStep(n) == \E c \in Conns : Receive(n, c) \/ DetectDisconnect(n, c)

Next ==
  \/ \E n \in Nodes : AgentStep(n) \/ Beat(n) \/ ApiStep(n)
  \/ Fault

(***************************************************************************)
(* The client reconnects for ever and notices dead connections by its      *)
(* pings; Docker answers or fails; a gateway reads its sockets and notices *)
(* dead ones the same way.                                                 *)
(***************************************************************************)
Fairness == \A n \in Nodes :
  /\ WF_vars(AgentStep(n))
  /\ \A c \in Conns : WF_vars(Receive(n, c)) /\ WF_vars(DetectDisconnect(n, c))

Spec == Init /\ [][Next]_vars /\ Fairness

-----------------------------------------------------------------------------
(***************************************************************************)
(* The registry never holds a socket whose disconnection was handled: such *)
(* an entry would stay for ever, and every command sent to it would be     *)
(* lost and time out.                                                      *)
(***************************************************************************)
EntryHasOpenSocket ==
  \A n \in Nodes : entry[n] # NoEntry =>
    entry[n] \in DOMAIN conn[n] /\ conn[n][entry[n]].api = "open"

(***************************************************************************)
(* Once the faults stop, every agent with the secret is registered with    *)
(* the connection it is on, and beats: the late disconnect of an older     *)
(* connection does not undo a newer registration.  Only a register message *)
(* of an older connection that is handled after the newer one's does: the  *)
(* entry then goes with the older socket, and nothing makes the agent, for *)
(* which all is well, register again.  node-registry.service.ts counts on  *)
(* every agent to re-register.                                             *)
(***************************************************************************)
Registered(n) == Works(n) /\ entry[n] = Current(n) /\ beating[n]

ComesBack == \A n \in Trusted : <>[](Registered(n) \/ n \in overtaken)

-----------------------------------------------------------------------------
LinkOf(n) == IF Works(n) THEN "up" ELSE IF Online(n) THEN "broken" ELSE "offline"
RegOf(n)  == IF entry[n] = NoEntry THEN "none"
             ELSE IF Works(n) /\ entry[n] = Current(n) THEN "live" ELSE "stale"

NL == INSTANCE NodeLink WITH link <- [n \in Nodes |-> LinkOf(n)],
                             reg  <- [n \in Nodes |-> RegOf(n)]

(***************************************************************************)
(* The handshake does what NodeLink promises: whatever overlaps, is        *)
(* buffered or arrives late, a live entry only ends as a stale one.        *)
(***************************************************************************)
RefinesNodeLink == NL!LinkSpec
=============================================================================
