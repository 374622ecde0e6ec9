----------------------------- MODULE NodeAgent -----------------------------
(***************************************************************************)
(* The agent of a node: it runs every command it receives at once and      *)
(* concurrently (the socket listener never waits for handleMessage),       *)
(* against one Docker container per server, and reports back over the same *)
(* connection.                                                             *)
(*                                                                         *)
(* A command stands for its own requestId: one caller sends a verb once.   *)
(***************************************************************************)
EXTENDS NodeLink, Sequences

CONSTANTS Servers,   \* server ids, one creation each
          Requests,  \* start, stop, restart and delete calls
          Troubles   \* what may go wrong, see TroubleKinds

\* "link": connections break.  "api", "agent": that process dies.
\* "slow": a command takes longer than COMMAND_TIMEOUT_MS.
\* "docker": the daemon refuses what it could have done.
\* "late": reports outlive their connection, Docker calls their agent.
TroubleKinds == {"link", "api", "agent", "slow", "docker", "late"}

ASSUME TroublesAssumption == Troubles \subseteq TroubleKinds

Callers == Servers \cup Requests
Verbs == {"create", "start", "stop", "restart", "delete", "stream"}
Command == [by : Callers, verb : Verbs, server : Servers]

VARIABLES down,       \* commands on their way to the agent
          up,         \* reports on their way to the control plane
          outbox,     \* reports the agent's client buffers while offline
          jobs,       \* handleMessage activations
          container,  \* Docker's state, which outlives the agent
          performed   \* history: the commands Docker carried out

wireVars == <<down, up, outbox>>
agentVars == <<jobs, container, performed>>

\* "abandoned": the daemon has the call, the agent that made it is dead.
Job == [cmd : Command, step : {"running", "performed", "refused", "abandoned"}]

Alive == {"created", "running", "exited"}
Container == [state : Alive \cup {"none", "removed"}, ports : SUBSET Nat]

\* The container.status values of handleMessage.
Opening == [start |-> "starting", restart |-> "starting",
            stop |-> "stopping", delete |-> "deleting"]
Closing == [create |-> "stopped", start |-> "running",
            restart |-> "running", stop |-> "stopped"]

\* A command's reports: the status before the Docker call, the status after
\* it, and the answer.
StatusReport == {r \in [kind : {"opening", "closing"}, cmd : Command] :
  r.cmd.verb \in IF r.kind = "opening" THEN DOMAIN Opening ELSE DOMAIN Closing}

Report == StatusReport \cup [kind : {"ack", "error"}, cmd : Command]

StatusOf(r) == IF r.kind = "opening" THEN Opening[r.cmd.verb]
                                     ELSE Closing[r.cmd.verb]

OpeningReportAnticipates(m) ==
  IF m.verb \in DOMAIN Closing THEN <<[kind |-> "closing", cmd |-> m]>> ELSE <<>>

OpeningReport(m) == IF m.verb \in DOMAIN Opening
                    THEN <<[kind |-> "opening", cmd |-> m]>> ELSE <<>>

ClosingReport(m) == IF m.verb \in DOMAIN Closing
                    THEN <<[kind |-> "closing", cmd |-> m]>> ELSE <<>>

(***************************************************************************)
(* socket.emit on the agent: buffered by the client while it knows that it *)
(* is offline, lost while the connection is dead and it does not.          *)
(***************************************************************************)
Emit(n, reports) ==
  /\ up' = IF link[n] = "up" THEN [up EXCEPT ![n] = @ \o reports] ELSE up
  /\ outbox' = IF link[n] = "offline"
               THEN [outbox EXCEPT ![n] = @ \o reports] ELSE outbox

\* handleMessage up to its first await.
ReceiveCommand(n) ==
  /\ down[n] # <<>>
  /\ LET m == Head(down[n])
     IN  /\ jobs' = [jobs EXCEPT ![n] = @ \cup {[cmd |-> m, step |-> "running"]}]
         /\ Emit(n, OpeningReport(m))
  /\ down' = [down EXCEPT ![n] = Tail(@)]
  /\ UNCHANGED <<link, reg, container, performed>>

(***************************************************************************)
(* Docker: the moves a verb can make on the state of the server's          *)
(* container.  Starting what runs and stopping what does not are errors of *)
(* the client library (HTTP 304), everything on a missing container is a   *)
(* 404, and remove is forced.                                              *)
(***************************************************************************)
Moves == [create  |-> {<<"none", "created">>},
          start   |-> {<<"created", "running">>, <<"exited", "running">>},
          stop    |-> {<<"running", "exited">>},
          restart |-> {<<s, "running">> : s \in Alive},
          delete  |-> {<<s, "removed">> : s \in Alive},
          stream  |-> {<<s, s>> : s \in Alive}]

\* Two running containers of a machine never bind the same host port.
PortsFree(s, neighbours) ==
  \A t \in neighbours \ {s} :
    container[t].state = "running" => container[t].ports \cap container[s].ports = {}

CanPerform(m, neighbours) ==
  \E move \in Moves[m.verb] :
    /\ move[1] = container[m.server].state
    /\ m.verb \in {"start", "restart"} => PortsFree(m.server, neighbours)

Running(n, m) == [cmd |-> m, step |-> "running"] \in jobs[n]

Advance(n, m, step) ==
  jobs' = [jobs EXCEPT ![n] = (@ \ {[cmd |-> m, step |-> "running"]})
                              \cup {[cmd |-> m, step |-> step]}]

\* `ports` are the bindings createContainer carries, `neighbours` the servers
\* whose containers are on this machine.
Perform(m, ports, neighbours) ==
  /\ CanPerform(m, neighbours)
  /\ \E move \in Moves[m.verb] :
       /\ move[1] = container[m.server].state
       /\ container' = [container EXCEPT ![m.server] =
            [state |-> move[2],
             ports |-> IF m.verb = "create" THEN ports ELSE @.ports]]
  /\ performed' = performed \cup {m}

DockerPerforms(n, m, ports, neighbours) ==
  /\ Running(n, m)
  /\ Perform(m, ports, neighbours)
  /\ Advance(n, m, "performed")
  /\ UNCHANGED <<link, reg, wireVars>>

DockerRefuses(n, m, neighbours) ==
  /\ Running(n, m)
  /\ "docker" \in Troubles \/ ~CanPerform(m, neighbours)
  /\ Advance(n, m, "refused")
  /\ UNCHANGED <<link, reg, wireVars, container, performed>>

\* A restart that fails after its first half.
FallOver(m) ==
  /\ "docker" \in Troubles
  /\ m.verb = "restart"
  /\ container[m.server].state = "running"
  /\ container' = [container EXCEPT ![m.server].state = "exited"]
  /\ UNCHANGED performed

RestartFallsOver(n, m) ==
  /\ Running(n, m)
  /\ FallOver(m)
  /\ Advance(n, m, "refused")
  /\ UNCHANGED <<link, reg, wireVars>>

\* Docker still works for an agent that died: nobody reports what it did.
DockerOutlives(n, m, ports, neighbours) ==
  /\ "late" \in Troubles
  /\ [cmd |-> m, step |-> "abandoned"] \in jobs[n]
  /\ Perform(m, ports, neighbours) \/ FallOver(m)
  /\ jobs' = [jobs EXCEPT ![n] = @ \ {[cmd |-> m, step |-> "abandoned"]}]
  /\ UNCHANGED <<link, reg, wireVars>>

AnswerAlwaysAcks(j) ==
  ClosingReport(j.cmd) \o <<[kind |-> "ack", cmd |-> j.cmd]>>

\* The rest of handleMessage, and runCommand's answer.
Answer(j) ==
  IF j.step = "performed"
  THEN ClosingReport(j.cmd) \o <<[kind |-> "ack", cmd |-> j.cmd]>>
  ELSE <<[kind |-> "error", cmd |-> j.cmd]>>

Finish(n, j) ==
  /\ j \in jobs[n]
  /\ j.step \in {"performed", "refused"}
  /\ jobs' = [jobs EXCEPT ![n] = @ \ {j}]
  /\ Emit(n, Answer(j))
  /\ UNCHANGED <<link, reg, down, container, performed>>

(***************************************************************************)
(* The connection.  What the peer read before the loss is covered by the   *)
(* steps that deliver it first.  Commands in flight are lost; reports are, *)
(* or the gateway still reads them, before those of the next connection.   *)
(***************************************************************************)
Outliving(reports) == IF "late" \in Troubles THEN {<<>>, reports} ELSE {<<>>}

Disconnect(n) ==
  /\ "link" \in Troubles
  /\ BreakLink(n)
  /\ down' = [down EXCEPT ![n] = <<>>]
  /\ \E late \in Outliving(up[n]) : up' = [up EXCEPT ![n] = late]
  /\ UNCHANGED <<outbox, agentVars>>

\* The client sends what it buffered before its connect event fires.
Redial(n) ==
  /\ Reconnect(n)
  /\ up' = [up EXCEPT ![n] = @ \o outbox[n]]
  /\ outbox' = [outbox EXCEPT ![n] = <<>>]
  /\ UNCHANGED <<down, agentVars>>

\* Registration and both sides' detection of a dead connection.
Handshake(n) ==
  /\ Register(n) \/ AgentNotices(n) \/ ApiNotices(n)
  /\ UNCHANGED <<wireVars, agentVars>>

\* What arrives late is a register message.  The agent is then cut off and not
\* told; that it may register again all the same is more than the code does.
LateRegister(n) ==
  /\ "link" \in Troubles
  /\ Overtake(n)
  /\ UNCHANGED <<wireVars, agentVars>>

(***************************************************************************)
(* Nothing the agent holds survives it; Docker's containers do, and any of *)
(* the calls Docker was given (`left`) may still be carried out.           *)
(***************************************************************************)
Abandoned(n) == {[cmd |-> j.cmd, step |-> "abandoned"] :
                   j \in {i \in jobs[n] : /\ i.step \in {"running", "abandoned"}
                                         /\ "late" \in Troubles}}

AgentRestart(n) ==
  /\ "agent" \in Troubles
  /\ AgentDies(n)
  /\ \E left \in SUBSET Abandoned(n) : jobs' = [jobs EXCEPT ![n] = left]
  /\ down' = [down EXCEPT ![n] = <<>>]
  /\ \E late \in Outliving(up[n]) : up' = [up EXCEPT ![n] = late]
  /\ outbox' = [outbox EXCEPT ![n] = <<>>]
  /\ UNCHANGED <<container, performed>>

AgentInit ==
  /\ LinkInit
  /\ down = [n \in Nodes |-> <<>>]
  /\ up = [n \in Nodes |-> <<>>]
  /\ outbox = [n \in Nodes |-> <<>>]
  /\ jobs = [n \in Nodes |-> {}]
  /\ container = [s \in Servers |-> [state |-> "none", ports |-> {}]]
  /\ performed = {}

AgentTypeOK ==
  /\ LinkTypeOK
  /\ down \in [Nodes -> Seq(Command)]
  /\ up \in [Nodes -> Seq(Report)]
  /\ outbox \in [Nodes -> Seq(Report)]
  /\ jobs \in [Nodes -> SUBSET Job]
  /\ container \in [Servers -> Container]
  /\ performed \subseteq Command
=============================================================================
