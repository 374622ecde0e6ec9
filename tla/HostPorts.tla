----------------------------- MODULE HostPorts -----------------------------
(***************************************************************************)
(* Host ports as POST /servers and ServersService.remove hand them out and *)
(* take them back.  A creation reads the ports of every row of its node,   *)
(* picks free ones, and inserts its own row in a later query; nothing      *)
(* holds the node in between, so creations overlap freely.                 *)
(*                                                                         *)
(* A server is identified with the creation that makes it: the id is a     *)
(* fresh uuid and no row is ever inserted twice.                           *)
(***************************************************************************)
EXTENDS PortAllocator

CONSTANTS Servers, Nodes,
          Needs,    \* how many host ports a template can ask for
          NoRow     \* the server has no GameServer row

Row == [node : Nodes, ports : SUBSET HostRange]

ASSUME NeedsAssumption == Needs \subseteq Nat
ASSUME NoRowAssumption == NoRow \notin Row

VARIABLES row,      \* the game_servers table
          create    \* one POST /servers call per server

hostVars == <<row, create>>

Creation == [pc    : {"idle", "reading", "inserting", "closed"},
             node  : Nodes,             \* dto.nodeId
             need  : Needs,             \* distinct container ports of the template
             ports : SUBSET HostRange,  \* what the allocator returned
             saw   : SUBSET Servers]    \* history: the rows usedPortsOnNode read

RowsOn(n) == {s \in Servers : row[s] # NoRow /\ row[s].node = n}
UsedOn(n) == UNION {row[s].ports : s \in RowsOn(n)}

Init ==
  /\ row = [s \in Servers |-> NoRow]
  /\ create \in [Servers -> [pc : {"idle"}, node : Nodes, need : Needs,
                             ports : {{}}, saw : {{}}]]

Begin(s) ==
  /\ create[s].pc = "idle"
  /\ create' = [create EXCEPT ![s].pc = "reading"]
  /\ UNCHANGED row

PickIgnoringRows(s) ==
  /\ create[s].pc = "reading"
  /\ \E P \in LowestFree({}, create[s].need) :
       create' = [create EXCEPT ![s] =
         [pc |-> "inserting", node |-> @.node, need |-> @.need,
          ports |-> P, saw |-> RowsOn(create[s].node)]]
  /\ UNCHANGED row

\* allocate(): the findMany query and the synchronous loop on its result.
PickPorts(s) ==
  /\ create[s].pc = "reading"
  /\ \E P \in LowestFree(UsedOn(create[s].node), create[s].need) :
       create' = [create EXCEPT ![s] =
         [pc |-> "inserting", node |-> @.node, need |-> @.need,
          ports |-> P, saw |-> RowsOn(create[s].node)]]
  /\ UNCHANGED row

\* Nothing is created: the node is not connected, the request is invalid, or
\* firstFree() throws because the range is exhausted.
TurnAway(s) ==
  /\ \/ create[s].pc = "idle"
     \/ /\ create[s].pc = "reading"
        /\ LowestFree(UsedOn(create[s].node), create[s].need) = {}
  /\ create' = [create EXCEPT ![s].pc = "closed"]
  /\ UNCHANGED row

InsertRow(s) ==
  /\ create[s].pc = "inserting"
  /\ row' = [row EXCEPT ![s] = [node  |-> create[s].node,
                                ports |-> create[s].ports]]
  /\ create' = [create EXCEPT ![s].pc = "closed"]

RemoveRow(s) ==
  /\ row[s] # NoRow
  /\ row' = [row EXCEPT ![s] = NoRow]
  /\ UNCHANGED create

\* The control plane dies: no creation that waits for the database goes on.
Crash ==
  /\ create' = [s \in Servers |->
       IF create[s].pc \in {"reading", "inserting"}
       THEN [create[s] EXCEPT !.pc = "closed"] ELSE create[s]]
  /\ UNCHANGED row

Next ==
  \/ \E s \in Servers : \/ Begin(s) \/ PickPorts(s) \/ TurnAway(s)
                        \/ InsertRow(s) \/ RemoveRow(s)
  \/ Crash

Spec == Init /\ [][Next]_hostVars

TypeOK ==
  /\ row \in [Servers -> Row \cup {NoRow}]
  /\ create \in [Servers -> Creation]

Clash(s, t) ==
  /\ row[s] # NoRow /\ row[t] # NoRow
  /\ row[s].node = row[t].node
  /\ row[s].ports \cap row[t].ports # {}

(***************************************************************************)
(* Two rows of a node hold a port in common only if neither creation read  *)
(* the other's row: PortAllocatorService protects a server from every      *)
(* server that was there when it looked, whatever was removed meanwhile,   *)
(* and from no other.                                                      *)
(***************************************************************************)
ClashOnlyIfOverlapping ==
  \A s, t \in Servers :
    s # t /\ Clash(s, t) => t \notin create[s].saw /\ s \notin create[t].saw

(***************************************************************************)
(* What entities.ts and docker.service.ts say of the allocator: two        *)
(* servers of a node never hold the same host port.                        *)
(***************************************************************************)
NoSharedHostPort == \A s, t \in Servers : s # t => ~Clash(s, t)
=============================================================================
