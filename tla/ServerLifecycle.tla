-------------------------- MODULE ServerLifecycle --------------------------
(***************************************************************************)
(* The life of a game server, from POST /servers to its removal: the REST  *)
(* handlers of ServersController with every await between them, the        *)
(* promises of NodeCommandService, the status updates ServersService       *)
(* writes, and the node agents they talk to.                               *)
(*                                                                         *)
(* A step of the control plane is what its event loop does between two     *)
(* awaits.  A database query is a step of its own, taken when the database *)
(* commits it.                                                             *)
(***************************************************************************)
EXTENDS NodeAgent, PortAllocator

CONSTANTS Needs,     \* how many host ports a template can ask for
          NoRow,     \* the server has no GameServer row
          MaxFaults  \* bound: connection losses and process deaths

Statuses == {"creating", "stopped", "starting", "running", "stopping",
             "deleting"}
Row == [node : Nodes, ports : SUBSET HostRange, status : Statuses]

ASSUME CallersAssumption == Servers \cap Requests = {}
ASSUME NeedsAssumption == Needs \subseteq Nat
ASSUME NoRowAssumption == NoRow \notin Row \cup [node : Nodes, ports : SUBSET HostRange]
ASSUME FaultsAssumption == MaxFaults \in Nat

VARIABLES row,      \* the game_servers table
          create,   \* the POST /servers call of every server
          request,  \* POST start, stop, restart and DELETE calls
          pending,  \* NodeCommandService.pending
          writes,   \* status updates handed to the connection pool
          faults    \* how many faults there were

apiVars == <<row, create, request, pending, writes>>
vars == <<link, reg, down, up, outbox, jobs, container, performed,
          row, create, request, pending, writes, faults>>

Over == {"succeeded", "failed", "dead"}
Creation == [pc    : {"idle", "reading", "inserting", "inserted", "creating",
                      "starting", "cleaning", "removing"} \cup Over,
             node  : Nodes,             \* dto.nodeId
             need  : Needs,             \* distinct container ports of the template
             ports : SUBSET HostRange,  \* what the allocator returned
             saw   : SUBSET Servers]    \* history: the rows usedPortsOnNode read
UserVerbs == {"start", "stop", "restart", "delete"}
Request == [pc     : {"idle", "loaded", "waiting", "reloading", "removing"} \cup Over,
            verb   : UserVerbs,
            server : Servers]

Init ==
  /\ AgentInit
  /\ row = [s \in Servers |-> NoRow]
  /\ create \in [Servers -> [pc : {"idle"}, node : Nodes, need : Needs,
                             ports : {{}}, saw : {{}}]]
  /\ request \in [Requests -> [pc : {"idle"}, verb : UserVerbs, server : Servers]]
  /\ pending = {}
  /\ writes = {}
  /\ faults = 0

RowsOn(n) == {s \in Servers : row[s] # NoRow /\ row[s].node = n}
UsedOn(n) == UNION {row[s].ports : s \in RowsOn(n)}
NodeOf(s) == create[s].node
Neighbours(n) == {s \in Servers : NodeOf(s) = n}

\* A server's id exists, and is known to its owner, from the row on.
Issued(s) == create[s].pc \notin {"idle", "reading", "inserting"}

-----------------------------------------------------------------------------
(* NodeCommandService *)

Connected(s) == reg[NodeOf(s)] # "none"

Command_(by, verb, s) == [by |-> by, verb |-> verb, server |-> s]
CreateCommand(s, verb) == Command_(s, verb, s)
UserCommand(r) == Command_(r, request[r].verb, request[r].server)

\* send() to a registered node.  What is emitted to a stale socket is lost.
Transmit(m) ==
  down' = IF reg[NodeOf(m.server)] = "live"
          THEN [down EXCEPT ![NodeOf(m.server)] = Append(@, m)] ELSE down

(***************************************************************************)
(* How the creation of s goes on when its command `verb` is settled: where *)
(* the handler stands next, and the command it sends.  A send to a node    *)
(* that is not registered rejects at once, so a failure falls through to   *)
(* the removal of the row.                                                 *)
(***************************************************************************)
AfterFailureWithoutCleanup(s) == [pc |-> "removing", sends |-> {}]

AfterFailureAlwaysWaits(s) ==
  [pc |-> "cleaning",
   sends |-> IF Connected(s) THEN {CreateCommand(s, "delete")} ELSE {}]

AfterFailure(s) ==
  IF Connected(s) THEN [pc |-> "cleaning", sends |-> {CreateCommand(s, "delete")}]
                  ELSE [pc |-> "removing", sends |-> {}]

Continuation(s, verb, ok) ==
  CASE verb = "create" /\ ok /\ Connected(s) ->
         [pc |-> "starting", sends |-> {CreateCommand(s, "start")}]
    [] verb = "start" /\ ok ->
         [pc |-> "succeeded",
          sends |-> IF Connected(s) THEN {CreateCommand(s, "stream")} ELSE {}]
    [] verb = "delete" -> [pc |-> "removing", sends |-> {}]
    [] verb = "stream" -> [pc |-> create[s].pc, sends |-> {}]
    [] OTHER -> AfterFailure(s)

Proceed(s, next) ==
  /\ create' = [create EXCEPT ![s].pc = next.pc]
  /\ IF next.sends = {} THEN UNCHANGED down
                        ELSE \A m \in next.sends : Transmit(m)

ProceedRequestIgnoringErrors(r, ok) ==
  request' = IF ~ok THEN request
             ELSE [request EXCEPT ![r].pc =
                     IF request[r].verb = "delete" THEN "removing" ELSE "reloading"]

ProceedRequestRegardless(r, ok) ==
  request' = [request EXCEPT ![r].pc =
                IF request[r].verb = "delete" THEN "removing"
                ELSE IF ok THEN "reloading" ELSE "failed"]

ProceedRequestKeepingRow(r, ok) ==
  request' = [request EXCEPT ![r].pc = IF ok THEN "reloading" ELSE "failed"]

\* The user's handlers: read the row again, or remove it after a delete.
ProceedRequest(r, ok) ==
  request' = [request EXCEPT ![r].pc =
                IF ~ok THEN "failed"
                ELSE IF request[r].verb = "delete" THEN "removing" ELSE "reloading"]

\* A pending promise is resolved or rejected and the handler behind it runs
\* up to its next await.
Settle(m, ok) ==
  IF m.by \in Servers
  THEN LET next == Continuation(m.by, m.verb, ok)
       IN  /\ pending' = (pending \ {m}) \cup next.sends
           /\ Proceed(m.by, next)
           /\ UNCHANGED request
  ELSE /\ pending' = pending \ {m}
       /\ ProceedRequest(m.by, ok)
       /\ UNCHANGED <<create, down>>

\* NodesGateway.handleMessage: handleAck, handleError or handleStatus.
ReceiveReport(n) ==
  /\ up[n] # <<>>
  /\ LET r == Head(up[n])
     IN  \/ /\ r.kind \in {"opening", "closing"}
            /\ writes' = writes \cup {r}
            /\ UNCHANGED <<create, request, pending, down>>
         \/ /\ r.kind \in {"ack", "error"}
            /\ r.cmd \in pending
            /\ Settle(r.cmd, r.kind = "ack")
            /\ UNCHANGED writes
         \/ /\ r.kind \in {"ack", "error"}
            /\ r.cmd \notin pending
            /\ UNCHANGED <<create, request, pending, down, writes>>
  /\ up' = [up EXCEPT ![n] = Tail(@)]
  /\ UNCHANGED <<link, reg, outbox, agentVars, row, faults>>

\* 30 seconds have passed.
Timeout(m) ==
  /\ "slow" \in Troubles
  /\ m \in pending
  /\ Settle(m, FALSE)
  /\ UNCHANGED <<link, reg, up, outbox, agentVars, row, writes, faults>>

-----------------------------------------------------------------------------
(* POST /servers *)

\* The node is checked, then the template is looked up and the rows of the
\* node are queried.
BeginCreate(s) ==
  /\ create[s].pc = "idle"
  /\ create' = [create EXCEPT ![s].pc = IF Connected(s) THEN "reading" ELSE "failed"]
  /\ UNCHANGED <<linkVars, wireVars, agentVars, row, request, pending, writes, faults>>

PickPorts(s) ==
  /\ create[s].pc = "reading"
  /\ \E P \in LowestFree(UsedOn(NodeOf(s)), create[s].need) :
       create' = [create EXCEPT ![s] =
         [pc |-> "inserting", node |-> @.node, need |-> @.need,
          ports |-> P, saw |-> RowsOn(NodeOf(s))]]
  /\ UNCHANGED <<linkVars, wireVars, agentVars, row, request, pending, writes, faults>>

RangeExhausted(s) ==
  /\ create[s].pc = "reading"
  /\ LowestFree(UsedOn(NodeOf(s)), create[s].need) = {}
  /\ create' = [create EXCEPT ![s].pc = "failed"]
  /\ UNCHANGED <<linkVars, wireVars, agentVars, row, request, pending, writes, faults>>

InsertRow(s) ==
  /\ create[s].pc = "inserting"
  /\ row' = [row EXCEPT ![s] = [node |-> NodeOf(s), ports |-> create[s].ports,
                                status |-> "creating"]]
  /\ create' = [create EXCEPT ![s].pc = "inserted"]
  /\ UNCHANGED <<linkVars, wireVars, agentVars, request, pending, writes, faults>>

SendCreate(s) ==
  /\ create[s].pc = "inserted"
  /\ LET next == IF Connected(s)
                 THEN [pc |-> "creating", sends |-> {CreateCommand(s, "create")}]
                 ELSE AfterFailure(s)
     IN  /\ pending' = pending \cup next.sends
         /\ Proceed(s, next)
  /\ UNCHANGED <<linkVars, up, outbox, agentVars, row, request, writes, faults>>

\* ServersService.remove in the catch block; it throws when the row is gone.
RemoveFailed(s) ==
  /\ create[s].pc = "removing"
  /\ row' = [row EXCEPT ![s] = NoRow]
  /\ create' = [create EXCEPT ![s].pc = "failed"]
  /\ UNCHANGED <<linkVars, wireVars, agentVars, request, pending, writes, faults>>

-----------------------------------------------------------------------------
(* POST /servers/:id/start, stop, restart and DELETE /servers/:id *)

Found(r) == row[request[r].server] # NoRow

\* getOwnedOrThrow, first line of every handler.
LoadRow(r) ==
  /\ request[r].pc = "idle"
  /\ Issued(request[r].server)
  /\ request' = [request EXCEPT ![r].pc = IF Found(r) THEN "loaded" ELSE "failed"]
  /\ UNCHANGED <<linkVars, wireVars, agentVars, row, create, pending, writes, faults>>

SendRequest(r) ==
  /\ request[r].pc = "loaded"
  /\ IF Connected(request[r].server)
     THEN /\ request' = [request EXCEPT ![r].pc = "waiting"]
          /\ pending' = pending \cup {UserCommand(r)}
          /\ Transmit(UserCommand(r))
     ELSE /\ request' = [request EXCEPT ![r].pc = "failed"]
          /\ UNCHANGED <<pending, down>>
  /\ UNCHANGED <<linkVars, up, outbox, agentVars, row, create, writes, faults>>

ReloadRow(r) ==
  /\ request[r].pc = "reloading"
  /\ request' = [request EXCEPT ![r].pc = IF Found(r) THEN "succeeded" ELSE "failed"]
  /\ UNCHANGED <<linkVars, wireVars, agentVars, row, create, pending, writes, faults>>

RemoveRow(r) ==
  /\ request[r].pc = "removing"
  /\ row' = [row EXCEPT ![request[r].server] = NoRow]
  /\ request' = [request EXCEPT ![r].pc = IF Found(r) THEN "succeeded" ELSE "failed"]
  /\ UNCHANGED <<linkVars, wireVars, agentVars, create, pending, writes, faults>>

-----------------------------------------------------------------------------
ApplyStatusUpserts(w) ==
  /\ w \in writes
  /\ LET s == w.cmd.server
     IN  row' = [row EXCEPT ![s] = [node |-> NodeOf(s), ports |-> create[s].ports,
                                    status |-> StatusOf(w)]]
  /\ writes' = writes \ {w}
  /\ UNCHANGED <<linkVars, wireVars, agentVars, create, request, pending, faults>>

\* The pool runs the updates handleStatus gave it in any order; an update of
\* a row that is gone is ignored.
ApplyStatus(w) ==
  /\ w \in writes
  /\ row' = IF row[w.cmd.server] = NoRow THEN row
            ELSE [row EXCEPT ![w.cmd.server].status = StatusOf(w)]
  /\ writes' = writes \ {w}
  /\ UNCHANGED <<linkVars, wireVars, agentVars, create, request, pending, faults>>

\* Everything the control plane holds in memory is gone; rows stay.
ApiRestart ==
  /\ "api" \in Troubles
  /\ ApiDies
  /\ down' = [n \in Nodes |-> <<>>]
  /\ up' = [n \in Nodes |-> <<>>]
  /\ create' = [s \in Servers |->
       IF create[s].pc \in Over \cup {"idle"} THEN create[s]
       ELSE [create[s] EXCEPT !.pc = "dead"]]
  /\ request' = [r \in Requests |->
       IF request[r].pc \in Over \cup {"idle"} THEN request[r]
       ELSE [request[r] EXCEPT !.pc = "dead"]]
  /\ pending' = {}
  /\ writes' = {}
  /\ UNCHANGED <<outbox, agentVars, row>>

Fault ==
  /\ faults < MaxFaults
  /\ faults' = faults + 1
  /\ \/ ApiRestart
     \/ /\ \E n \in Nodes : Disconnect(n) \/ AgentRestart(n) \/ LateRegister(n)
        /\ UNCHANGED apiVars

DockerStep(n, m) ==
  /\ \/ DockerPerforms(n, m, create[m.server].ports, Neighbours(n))
     \/ DockerOutlives(n, m, create[m.server].ports, Neighbours(n))
     \/ DockerRefuses(n, m, Neighbours(n))
     \/ RestartFallsOver(n, m)
  /\ UNCHANGED <<apiVars, faults>>

AgentStep(n) ==
  \/ /\ ReceiveCommand(n) \/ Redial(n) \/ Handshake(n)
     /\ UNCHANGED <<apiVars, faults>>
  \/ \E j \in jobs[n] : \/ DockerStep(n, j.cmd)
                        \/ /\ Finish(n, j)
                           /\ UNCHANGED <<apiVars, faults>>

CreateStep(s) == \/ BeginCreate(s) \/ PickPorts(s) \/ RangeExhausted(s)
                 \/ InsertRow(s) \/ SendCreate(s) \/ RemoveFailed(s)

RequestStep(r) == LoadRow(r) \/ SendRequest(r) \/ ReloadRow(r) \/ RemoveRow(r)

Next ==
  \/ \E s \in Servers : CreateStep(s)
  \/ \E r \in Requests : RequestStep(r)
  \/ \E m \in pending : Timeout(m)
  \/ \E w \in writes : ApplyStatus(w)
  \/ \E n \in Nodes : ReceiveReport(n) \/ AgentStep(n)
  \/ Fault

Spec == Init /\ [][Next]_vars

(***************************************************************************)
(* Fairness.  The event loop runs what is ready and the database answers   *)
(* every query; a timer that is not cleared fires.  Nothing is assumed of  *)
(* the agents, of Docker or of the connections.                            *)
(***************************************************************************)
ApiFairness ==
  /\ \A s \in Servers : WF_vars(create[s].pc # "idle" /\ CreateStep(s))
  /\ \A r \in Requests : WF_vars(request[r].pc # "idle" /\ RequestStep(r))
  /\ WF_vars(\E m \in pending : Timeout(m))

FairSpec == Spec /\ ApiFairness

\* Agents that run what they receive, on a daemon and a connection that work,
\* and updates that are all written.
NodeFairness ==
  /\ \A n \in Nodes : WF_vars(AgentStep(n)) /\ WF_vars(ReceiveReport(n))
  /\ WF_vars(\E w \in writes : ApplyStatus(w))

CalmSpec == FairSpec /\ NodeFairness

-----------------------------------------------------------------------------
TypeOK ==
  /\ AgentTypeOK
  /\ row \in [Servers -> Row \cup {NoRow}]
  /\ create \in [Servers -> Creation]
  /\ request \in [Requests -> Request]
  /\ pending \subseteq Command
  /\ writes \subseteq StatusReport
  /\ faults \in 0 .. MaxFaults

(***************************************************************************)
(* A caller that is told that its call worked is told the truth: Docker    *)
(* carried out every command the call stands for, whatever answers were    *)
(* lost, late, buffered or refused in between.                             *)
(***************************************************************************)
NoFalseSuccess ==
  /\ \A s \in Servers : create[s].pc = "succeeded" =>
       {CreateCommand(s, "create"), CreateCommand(s, "start")} \subseteq performed
  /\ \A r \in Requests : request[r].pc \in {"reloading", "removing", "succeeded"} =>
       UserCommand(r) \in performed

(***************************************************************************)
(* A handler that waits for a node waits on a promise that something will  *)
(* still settle: an answer or the 30 second timer of NodeCommandService.   *)
(***************************************************************************)
AwaitedBy(s) ==
  CASE create[s].pc = "creating" -> {CreateCommand(s, "create")}
    [] create[s].pc = "starting" -> {CreateCommand(s, "start")}
    [] create[s].pc = "cleaning" -> {CreateCommand(s, "delete")}
    [] OTHER -> {}

WaitersArePending ==
  /\ \A s \in Servers : AwaitedBy(s) \subseteq pending
  /\ \A r \in Requests : request[r].pc = "waiting" => UserCommand(r) \in pending

(***************************************************************************)
(* A container that outlives its row was left behind by the error path of  *)
(* POST /servers, the only place that removes a row without knowing that   *)
(* the container is gone.  DELETE /servers/:id never leaves one behind.    *)
(***************************************************************************)
OrphansComeFromFailedCreates ==
  \A s \in Servers :
    container[s].state \in Alive /\ Issued(s) /\ row[s] = NoRow =>
      create[s].pc = "failed"

(***************************************************************************)
(* The status of a row was never made up: what it says happened to the     *)
(* container did happen, although something else may have happened since.  *)
(***************************************************************************)
Did(s, verbs) == \E m \in performed : m.server = s /\ m.verb \in verbs

StatusIsGrounded ==
  \A s \in Servers : row[s] # NoRow =>
    /\ row[s].status = "running" => Did(s, {"start", "restart"})
    /\ row[s].status = "stopped" => Did(s, {"create", "stop"})

(***************************************************************************)
(* What port-allocator.service.ts says of rows: a row only disappears once *)
(* its container is actually deleted.  It holds while nothing goes wrong.  *)
(***************************************************************************)
RowOutlivesContainer ==
  \A s \in Servers : container[s].state \in Alive => row[s] # NoRow

(***************************************************************************)
(* The row of a created server has its container, unless Docker removed it *)
(* for a delete that is still under way or, when things go wrong, whose    *)
(* caller was told that it failed or was told nothing: DELETE never        *)
(* answers with success and leaves the row.                                *)
(***************************************************************************)
Unfinished == {"waiting", "removing"} \cup IF Troubles = {} THEN {} ELSE {"failed", "dead"}

RowHasContainer ==
  \A s \in Servers :
    create[s].pc = "succeeded" /\ row[s] # NoRow =>
      \/ container[s].state \in Alive
      \/ \E r \in Requests : /\ request[r].server = s /\ request[r].verb = "delete"
                             /\ UserCommand(r) \in performed
                             /\ request[r].pc \in Unfinished

(***************************************************************************)
(* Every call is answered, even when its node is gone: the timer, or the   *)
(* refusal to send to a node that is not registered, ends every wait.      *)
(***************************************************************************)
Answered ==
  /\ \A s \in Servers : create[s].pc # "idle" ~> create[s].pc \in Over
  /\ \A r \in Requests : request[r].pc # "idle" ~> request[r].pc \in Over

(***************************************************************************)
(* The README's walk-through: a created server's status goes from creating *)
(* to running.                                                             *)
(***************************************************************************)
CreatedIsShownRunning ==
  \A s \in Servers : create[s].pc = "succeeded" ~>
    row[s] # NoRow /\ row[s].status = "running"

-----------------------------------------------------------------------------
(* The database side of the life cycle is HostPorts. *)

HostRow(s) == IF row[s] = NoRow THEN NoRow
              ELSE [node |-> row[s].node, ports |-> row[s].ports]

HostPhase(pc) == IF pc \in {"idle", "reading", "inserting"} THEN pc ELSE "closed"

HostCreation(c) == [pc |-> HostPhase(c.pc), node |-> c.node, need |-> c.need,
                    ports |-> c.ports, saw |-> c.saw]

HP == INSTANCE HostPorts WITH
        row <- [s \in Servers |-> HostRow(s)],
        create <- [s \in Servers |-> HostCreation(create[s])]

(***************************************************************************)
(* No retry, timeout, crash or late answer of the handlers does more to    *)
(* the rows and their ports than HostPorts allows: in particular a row is  *)
(* never inserted twice, and never changes its ports.                      *)
(***************************************************************************)
RefinesHostPorts == HP!Spec
=============================================================================
