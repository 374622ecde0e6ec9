----------------------- MODULE ServerLifecycleProofs -----------------------
(***************************************************************************)
(* Proofs about ServerLifecycle, for any servers, nodes and callers, any   *)
(* port range and templates, and any combination of troubles.              *)
(***************************************************************************)
EXTENDS ServerLifecycle, SequenceTheorems, TLAPS

-----------------------------------------------------------------------------
(* Commands and reports *)

(***************************************************************************)
(* The commands that the handlers send are commands.                       *)
(***************************************************************************)
LEMMA CommandTypes ==
  /\ \A s \in Servers, verb \in Verbs : CreateCommand(s, verb) \in Command
  /\ request \in [Requests -> Request] =>
       \A r \in Requests : UserCommand(r) \in Command
  BY DEF CreateCommand, UserCommand, Command_, Command, Callers, Verbs,
         Request, UserVerbs

(***************************************************************************)
(* What handleMessage reports of a command are reports.                    *)
(***************************************************************************)
LEMMA ReportTypes ==
  ASSUME NEW m \in Command
  PROVE  /\ OpeningReport(m) \in Seq(Report)
         /\ ClosingReport(m) \in Seq(Report)
         /\ \A step \in {"performed", "refused"} :
              Answer([cmd |-> m, step |-> step]) \in Seq(Report)
<1>1. OpeningReport(m) \in Seq(Report)
  <2>1. m.verb \in DOMAIN Opening => [kind |-> "opening", cmd |-> m] \in Report
    BY DEF Report, StatusReport
  <2> QED BY <2>1 DEF OpeningReport
<1>2. ClosingReport(m) \in Seq(Report)
  <2>1. m.verb \in DOMAIN Closing => [kind |-> "closing", cmd |-> m] \in Report
    BY DEF Report, StatusReport
  <2> QED BY <2>1 DEF ClosingReport
<1>3. \A kind \in {"ack", "error"} : <<[kind |-> kind, cmd |-> m]>> \in Seq(Report)
  BY DEF Report
<1> QED BY <1>1, <1>2, <1>3 DEF Answer

(***************************************************************************)
(* What a status report says is a status.                                  *)
(***************************************************************************)
LEMMA StatusTypes == \A w \in StatusReport : StatusOf(w) \in Statuses
  BY DEF StatusReport, StatusOf, Opening, Closing, Statuses

(***************************************************************************)
(* The agent's emit adds to its connection or its buffer.                  *)
(***************************************************************************)
LEMMA EmitTypes ==
  ASSUME NEW S, NEW n \in Nodes, NEW reports \in Seq(S),
         up \in [Nodes -> Seq(S)], outbox \in [Nodes -> Seq(S)],
         Emit(n, reports)
  PROVE  up' \in [Nodes -> Seq(S)] /\ outbox' \in [Nodes -> Seq(S)]
  BY DEF Emit

(***************************************************************************)
(* A command that is sent is queued for its node or lost.                  *)
(***************************************************************************)
LEMMA TransmitTypes ==
  ASSUME NEW m \in Command, create \in [Servers -> Creation],
         down \in [Nodes -> Seq(Command)], Transmit(m)
  PROVE  down' \in [Nodes -> Seq(Command)]
<1> DEFINE n == NodeOf(m.server)
<1>1. n \in Nodes
  BY DEF NodeOf, Command, Creation
<1>2. Append(down[n], m) \in Seq(Command)
  BY <1>1
<1> QED BY <1>1, <1>2 DEF Transmit

(***************************************************************************)
(* Where a creation goes on is one of its phases, and what it sends is one *)
(* of its own commands.                                                    *)
(***************************************************************************)
Phases == {"idle", "reading", "inserting", "inserted", "creating", "starting",
           "cleaning", "removing"} \cup Over

LEMMA ContinuationTypes ==
  ASSUME NEW s \in Servers, create \in [Servers -> Creation]
  PROVE  /\ AfterFailure(s).pc \in Phases
         /\ AfterFailure(s).sends \subseteq {CreateCommand(s, v) : v \in Verbs}
         /\ \A verb \in Verbs, ok \in BOOLEAN :
              /\ Continuation(s, verb, ok).pc \in Phases
              /\ Continuation(s, verb, ok).sends \subseteq {CreateCommand(s, v) : v \in Verbs}
<1>1. /\ AfterFailure(s).pc \in Phases
      /\ AfterFailure(s).sends \subseteq {CreateCommand(s, v) : v \in Verbs}
  BY DEF AfterFailure, Phases, Verbs
<1>2. create[s].pc \in Phases
  BY DEF Creation, Phases
<1> QED BY <1>1, <1>2 DEF Continuation, Phases, Over, Verbs

(***************************************************************************)
(* Going on keeps the types.                                               *)
(***************************************************************************)
LEMMA ProceedTypes ==
  ASSUME NEW s \in Servers, create \in [Servers -> Creation],
         down \in [Nodes -> Seq(Command)],
         NEW next, next.pc \in Phases,
         next.sends \subseteq {CreateCommand(s, v) : v \in Verbs},
         Proceed(s, next)
  PROVE  /\ create' \in [Servers -> Creation]
         /\ down' \in [Nodes -> Seq(Command)]
         /\ next.sends \subseteq Command
<1>1. next.sends \subseteq Command
  BY CommandTypes
<1>2. create' \in [Servers -> Creation]
  <2>1. create[s] \in Creation
    OBVIOUS
  <2>2. [create[s] EXCEPT !.pc = next.pc] \in Creation
    BY <2>1 DEF Creation, Phases
  <2> QED BY <2>2 DEF Proceed
<1>3. down' \in [Nodes -> Seq(Command)]
  BY <1>1, TransmitTypes DEF Proceed
<1> QED BY <1>1, <1>2, <1>3

(***************************************************************************)
(* Settling a promise keeps the types.                                     *)
(***************************************************************************)
LEMMA SettleTypes ==
  ASSUME TypeOK, NEW m \in Command, NEW ok \in BOOLEAN, Settle(m, ok)
  PROVE  /\ create' \in [Servers -> Creation]
         /\ request' \in [Requests -> Request]
         /\ pending' \subseteq Command
         /\ down' \in [Nodes -> Seq(Command)]
<1> USE DEF TypeOK, AgentTypeOK
<1>1. CASE m.by \in Servers
  <2> DEFINE next == Continuation(m.by, m.verb, ok)
  <2>1. m.verb \in Verbs
    BY DEF Command
  <2>2. /\ next.pc \in Phases
        /\ next.sends \subseteq {CreateCommand(m.by, v) : v \in Verbs}
    BY <1>1, <2>1, ContinuationTypes
  <2>3. /\ pending' = (pending \ {m}) \cup next.sends
        /\ Proceed(m.by, next)
        /\ UNCHANGED request
    BY <1>1 DEF Settle
  <2> HIDE DEF next
  <2>4. /\ create' \in [Servers -> Creation]
        /\ down' \in [Nodes -> Seq(Command)]
        /\ next.sends \subseteq Command
    BY <1>1, <2>2, <2>3, ProceedTypes
  <2> QED BY <2>3, <2>4
<1>2. CASE m.by \notin Servers
  <2>1. m.by \in Requests
    BY <1>2 DEF Command, Callers
  <2>2. \A pc \in {"failed", "removing", "reloading"} :
          [request[m.by] EXCEPT !.pc = pc] \in Request
    BY <2>1 DEF Request, Over
  <2>3. request' \in [Requests -> Request]
    BY <1>2, <2>1, <2>2 DEF Settle, ProceedRequest
  <2> QED BY <1>2, <2>3 DEF Settle
<1> QED BY <1>1, <1>2

-----------------------------------------------------------------------------
(* The steps of the handlers keep the types. *)

(***************************************************************************)
(* POST /servers.                                                          *)
(***************************************************************************)
LEMMA CreateTypes ==
  ASSUME TypeOK, NEW s \in Servers, CreateStep(s)
  PROVE  TypeOK'
<1> USE DEF TypeOK, AgentTypeOK, LinkTypeOK, linkVars, wireVars, agentVars
<1>1. create[s] \in Creation /\ NodeOf(s) \in Nodes
  BY DEF NodeOf, Creation
<1>2. \A pc \in Phases : [create[s] EXCEPT !.pc = pc] \in Creation
  BY <1>1 DEF Creation, Phases
<1>3. CASE BeginCreate(s)
  BY <1>2, <1>3 DEF BeginCreate, Phases, Over
<1>4. CASE PickPorts(s)
  <2>1. PICK P \in LowestFree(UsedOn(NodeOf(s)), create[s].need) :
          create' = [create EXCEPT ![s] =
            [pc |-> "inserting", node |-> create[s].node, need |-> create[s].need,
             ports |-> P, saw |-> RowsOn(NodeOf(s))]]
    BY <1>4 DEF PickPorts
  <2>2. P \subseteq HostRange /\ RowsOn(NodeOf(s)) \subseteq Servers
    BY DEF LowestFree, RowsOn
  <2>3. [pc |-> "inserting", node |-> create[s].node, need |-> create[s].need,
        ports |-> P, saw |-> RowsOn(NodeOf(s))] \in Creation
    BY <1>1, <2>2 DEF Creation
  <2>4. create' \in [Servers -> Creation]
    BY <2>1, <2>3
  <2> QED BY <1>4, <2>4 DEF PickPorts
<1>5. CASE RangeExhausted(s)
  BY <1>2, <1>5 DEF RangeExhausted, Phases, Over
<1>6. CASE InsertRow(s)
  <2>1. [node |-> NodeOf(s), ports |-> create[s].ports, status |-> "creating"] \in Row
    BY <1>1 DEF Creation, Row, Statuses
  <2> QED BY <1>2, <1>6, <2>1 DEF InsertRow, Phases
<1>7. CASE SendCreate(s)
  <2> DEFINE next == IF Connected(s)
                     THEN [pc |-> "creating", sends |-> {CreateCommand(s, "create")}]
                     ELSE AfterFailure(s)
  <2>1. /\ pending' = pending \cup next.sends
        /\ Proceed(s, next)
    BY <1>7 DEF SendCreate
  <2>2. /\ next.pc \in Phases
        /\ next.sends \subseteq {CreateCommand(s, v) : v \in Verbs}
    BY ContinuationTypes DEF Phases, Verbs
  <2> HIDE DEF next
  <2>3. /\ create' \in [Servers -> Creation]
        /\ down' \in [Nodes -> Seq(Command)]
        /\ pending' \subseteq Command
    BY <2>1, <2>2, ProceedTypes
  <2> QED BY <1>7, <2>3 DEF SendCreate
<1>8. CASE RemoveFailed(s)
  BY <1>2, <1>8 DEF RemoveFailed, Phases, Over
<1> QED BY <1>3, <1>4, <1>5, <1>6, <1>7, <1>8 DEF CreateStep

(***************************************************************************)
(* POST start, stop and restart, and DELETE.                               *)
(***************************************************************************)
LEMMA RequestTypes ==
  ASSUME TypeOK, NEW r \in Requests, RequestStep(r)
  PROVE  TypeOK'
<1> USE DEF TypeOK, AgentTypeOK, LinkTypeOK, linkVars, wireVars, agentVars
<1>1. request[r] \in Request /\ request[r].server \in Servers
  BY DEF Request
<1>2. \A pc \in {"loaded", "waiting", "succeeded", "failed"} :
        [request[r] EXCEPT !.pc = pc] \in Request
  BY <1>1 DEF Request, Over
<1>3. CASE LoadRow(r)
  BY <1>2, <1>3 DEF LoadRow
<1>4. CASE SendRequest(r)
  <2>1. UserCommand(r) \in Command
    BY CommandTypes
  <2>2. down' \in [Nodes -> Seq(Command)]
    BY <1>4, <2>1, TransmitTypes DEF SendRequest
  <2> QED BY <1>2, <1>4, <2>1, <2>2 DEF SendRequest
<1>5. CASE ReloadRow(r)
  BY <1>2, <1>5 DEF ReloadRow
<1>6. CASE RemoveRow(r)
  BY <1>1, <1>2, <1>6 DEF RemoveRow
<1> QED BY <1>3, <1>4, <1>5, <1>6 DEF RequestStep

(***************************************************************************)
(* What arrives from the nodes, the timers, and the updates of the pool.   *)
(***************************************************************************)
LEMMA ArrivalTypes ==
  ASSUME TypeOK
  PROVE  /\ \A n \in Nodes : ReceiveReport(n) => TypeOK'
         /\ \A m \in pending : Timeout(m) => TypeOK'
         /\ \A w \in writes : ApplyStatus(w) => TypeOK'
<1> USE DEF TypeOK, AgentTypeOK, LinkTypeOK, linkVars, wireVars, agentVars
<1>1. ASSUME NEW n \in Nodes, ReceiveReport(n) PROVE TypeOK'
  <2> DEFINE r == Head(up[n])
  <2>1. r \in Report /\ Tail(up[n]) \in Seq(Report)
    BY <1>1 DEF ReceiveReport
  <2>2. up' \in [Nodes -> Seq(Report)]
    BY <1>1, <2>1 DEF ReceiveReport
  <2>3. /\ create' \in [Servers -> Creation]
        /\ request' \in [Requests -> Request]
        /\ pending' \subseteq Command
        /\ down' \in [Nodes -> Seq(Command)]
        /\ writes' \subseteq StatusReport
    <3>1. CASE r.kind \in {"opening", "closing"}
      <4>1. r \in StatusReport
        BY <2>1, <3>1 DEF Report
      <4> QED BY <1>1, <3>1, <4>1 DEF ReceiveReport
    <3>2. CASE r.kind \in {"ack", "error"}
      <4>1. r.cmd \in Command
        BY <2>1 DEF Report, StatusReport
      <4> QED BY <1>1, <3>2, <4>1, SettleTypes DEF ReceiveReport
    <3> QED BY <1>1, <3>1, <3>2 DEF ReceiveReport
  <2> QED BY <1>1, <2>2, <2>3 DEF ReceiveReport
<1>2. ASSUME NEW m \in pending, Timeout(m) PROVE TypeOK'
  BY <1>2, SettleTypes DEF Timeout
<1>3. ASSUME NEW w \in writes, ApplyStatus(w) PROVE TypeOK'
  <2>1. w \in StatusReport /\ StatusOf(w) \in Statuses /\ w.cmd.server \in Servers
    BY StatusTypes DEF StatusReport, Command
  <2>2. row[w.cmd.server] # NoRow =>
          [row[w.cmd.server] EXCEPT !.status = StatusOf(w)] \in Row
    BY <2>1 DEF Row
  <2>3. row' \in [Servers -> Row \cup {NoRow}]
    BY <1>3, <2>1, <2>2 DEF ApplyStatus
  <2> QED BY <1>3, <2>3 DEF ApplyStatus
<1> QED BY <1>1, <1>2, <1>3

(***************************************************************************)
(* What a step of Docker does: to the container and the record, and to the *)
(* job, which is over at once when the agent that made the call is dead.   *)
(***************************************************************************)
LEMMA DockerSteps ==
  ASSUME TypeOK, NEW n \in Nodes, NEW j \in jobs[n], DockerStep(n, j.cmd)
  PROVE  /\ UNCHANGED <<link, reg, wireVars, apiVars, faults>>
         /\ performed \subseteq performed' /\ performed' \subseteq performed \cup {j.cmd}
         /\ \/ UNCHANGED <<container, performed>>
            \/ FallOver(j.cmd)
            \/ Perform(j.cmd, create[j.cmd.server].ports, Neighbours(n))
         /\ \/ \E step \in {"performed", "refused"} :
                 /\ Running(n, j.cmd) /\ Advance(n, j.cmd, step)
                 /\ step = "performed" => j.cmd \in performed'
                 /\ step = "refused" => performed' = performed
            \/ /\ "late" \in Troubles
               /\ jobs' = [jobs EXCEPT ![n] = @ \ {[cmd |-> j.cmd, step |-> "abandoned"]}]
         /\ jobs' \in [Nodes -> SUBSET Job]
         /\ \A k \in Nodes : \A i \in jobs'[k] : i \in jobs[k] \/ i.cmd = j.cmd
<1>1. UNCHANGED <<link, reg, wireVars, apiVars, faults>>
  BY DEF DockerStep, DockerPerforms, DockerRefuses, RestartFallsOver, DockerOutlives
<1>2. \/ UNCHANGED <<container, performed>>
      \/ FallOver(j.cmd)
      \/ Perform(j.cmd, create[j.cmd.server].ports, Neighbours(n))
  BY DEF DockerStep, DockerPerforms, DockerRefuses, RestartFallsOver, DockerOutlives
<1>3. \/ \E step \in {"performed", "refused"} :
           /\ Running(n, j.cmd) /\ Advance(n, j.cmd, step)
           /\ step = "performed" => j.cmd \in performed'
           /\ step = "refused" => performed' = performed
      \/ /\ "late" \in Troubles
         /\ jobs' = [jobs EXCEPT ![n] = @ \ {[cmd |-> j.cmd, step |-> "abandoned"]}]
  BY DEF DockerStep, DockerPerforms, DockerRefuses, RestartFallsOver, DockerOutlives,
         Perform, FallOver
<1>4. jobs \in [Nodes -> SUBSET Job] /\ j.cmd \in Command
  BY DEF TypeOK, AgentTypeOK, Job
<1>5. \A step \in {"performed", "refused"} : [cmd |-> j.cmd, step |-> step] \in Job
  BY <1>4 DEF Job
<1>6. /\ jobs' \in [Nodes -> SUBSET Job]
      /\ \A k \in Nodes : \A i \in jobs'[k] : i \in jobs[k] \/ i.cmd = j.cmd
  <2>1. ASSUME NEW step \in {"performed", "refused"}, Advance(n, j.cmd, step)
        PROVE  /\ jobs' \in [Nodes -> SUBSET Job]
               /\ \A k \in Nodes : \A i \in jobs'[k] :
                    i \in jobs[k] \/ i = [cmd |-> j.cmd, step |-> step]
    BY <1>4, <1>5, <2>1 DEF Advance
  <2>2. ASSUME jobs' = [jobs EXCEPT ![n] = @ \ {[cmd |-> j.cmd, step |-> "abandoned"]}]
        PROVE  /\ jobs' \in [Nodes -> SUBSET Job]
               /\ \A k \in Nodes : jobs'[k] \subseteq jobs[k]
    BY <1>4, <2>2
  <2> QED BY <1>3, <2>1, <2>2
<1>7. performed \subseteq performed' /\ performed' \subseteq performed \cup {j.cmd}
  BY <1>2 DEF FallOver, Perform
<1> QED BY <1>1, <1>2, <1>3, <1>6, <1>7

(***************************************************************************)
(* A fault leaves the containers and the record alone, and of the jobs at  *)
(* most what Docker still does for them.                                   *)
(***************************************************************************)
LEMMA FaultJobs ==
  ASSUME TypeOK, Fault
  PROVE  /\ UNCHANGED <<container, performed>>
         /\ jobs' \in [Nodes -> SUBSET Job]
         /\ \A k \in Nodes : \A i \in jobs'[k] :
              i \in jobs[k] \/ (i.step = "abandoned" /\ \E j \in jobs[k] : i.cmd = j.cmd)
<1>1. UNCHANGED <<container, performed>>
  BY DEF Fault, ApiRestart, Disconnect, AgentRestart, LateRegister, agentVars
<1>2. jobs \in [Nodes -> SUBSET Job]
  BY DEF TypeOK, AgentTypeOK
<1>3. jobs' = jobs \/ \E n \in Nodes : AgentRestart(n)
  BY DEF Fault, ApiRestart, Disconnect, LateRegister, agentVars
<1>4. ASSUME NEW n \in Nodes, AgentRestart(n)
      PROVE  /\ jobs' \in [Nodes -> SUBSET Job]
             /\ \A k \in Nodes : \A i \in jobs'[k] :
                  i \in jobs[k] \/ (i.step = "abandoned" /\ \E j \in jobs[k] : i.cmd = j.cmd)
  <2>1. PICK left \in SUBSET Abandoned(n) : jobs' = [jobs EXCEPT ![n] = left]
    BY <1>4 DEF AgentRestart
  <2>2. \A i \in left : /\ i \in Job /\ i.step = "abandoned"
                        /\ \E j \in jobs[n] : i.cmd = j.cmd
    BY <1>2 DEF Abandoned, Job
  <2> QED BY <1>2, <2>1, <2>2
<1> QED BY <1>1, <1>2, <1>3, <1>4

(***************************************************************************)
(* The agent, and Docker.                                                  *)
(***************************************************************************)
LEMMA AgentTypes ==
  ASSUME TypeOK, NEW n \in Nodes, AgentStep(n)
  PROVE  TypeOK'
<1> USE DEF TypeOK, AgentTypeOK, LinkTypeOK, linkVars, wireVars, agentVars, apiVars
<1>1. CASE ReceiveCommand(n) /\ UNCHANGED <<apiVars, faults>>
  <2> DEFINE m == Head(down[n])
  <2>1. m \in Command /\ Tail(down[n]) \in Seq(Command)
    BY <1>1 DEF ReceiveCommand
  <2>2. up' \in [Nodes -> Seq(Report)] /\ outbox' \in [Nodes -> Seq(Report)]
    BY <1>1, <2>1, ReportTypes, EmitTypes DEF ReceiveCommand
  <2>3. [cmd |-> m, step |-> "running"] \in Job
    BY <2>1 DEF Job
  <2>4. jobs' \in [Nodes -> SUBSET Job] /\ down' \in [Nodes -> Seq(Command)]
    BY <1>1, <2>1, <2>3 DEF ReceiveCommand
  <2> QED BY <1>1, <2>2, <2>4 DEF ReceiveCommand
<1>2. CASE Redial(n) /\ UNCHANGED <<apiVars, faults>>
  <2>1. link' \in [Nodes -> LinkStates]
    BY <1>2 DEF Redial, Reconnect, LinkStates
  <2>2. up[n] \o outbox[n] \in Seq(Report)
    BY ConcatProperties
  <2> QED BY <1>2, <2>1, <2>2 DEF Redial, Reconnect
<1>3. CASE Handshake(n) /\ UNCHANGED <<apiVars, faults>>
  <2>1. link' \in [Nodes -> LinkStates] /\ reg' \in [Nodes -> RegStates]
    BY <1>3 DEF Handshake, Register, AgentNotices, ApiNotices, LinkStates, RegStates
  <2> QED BY <1>3, <2>1 DEF Handshake
<1>4. ASSUME NEW j \in jobs[n], DockerStep(n, j.cmd) PROVE TypeOK'
  <2> DEFINE m == j.cmd
  <2>1. m \in Command /\ m.server \in Servers /\ m.verb \in Verbs
    BY DEF Job, Command
  <2>2. jobs' \in [Nodes -> SUBSET Job] /\ UNCHANGED <<link, reg, wireVars, apiVars, faults>>
    BY <1>4, DockerSteps
  <2>3. create[m.server].ports \subseteq Nat /\ container[m.server] \in Container
    <3>1. HostRange \subseteq Nat
      BY RangeAssumption DEF HostRange
    <3> QED BY <2>1, <3>1 DEF Creation
  <2>4. CASE Perform(m, create[m.server].ports, Neighbours(n))
    <3>1. PICK move \in Moves[m.verb] :
            container' = [container EXCEPT ![m.server] =
              [state |-> move[2],
               ports |-> IF m.verb = "create" THEN create[m.server].ports ELSE @.ports]]
      BY <2>4 DEF Perform
    <3>2. move[2] \in Alive \cup {"none", "removed"}
      BY <2>1 DEF Moves, Alive, Verbs
    <3>3. [state |-> move[2],
           ports |-> IF m.verb = "create" THEN create[m.server].ports
                     ELSE container[m.server].ports] \in Container
      BY <2>3, <3>2 DEF Container
    <3>4. container' \in [Servers -> Container]
      BY <3>1, <3>3
    <3> QED BY <2>1, <2>2, <2>4, <3>4 DEF Perform
  <2>5. CASE UNCHANGED <<container, performed>>
    BY <2>2, <2>5
  <2>6. CASE FallOver(m)
    <3>1. [container[m.server] EXCEPT !.state = "exited"] \in Container
      BY <2>3 DEF Container, Alive
    <3>2. container' \in [Servers -> Container]
      BY <2>6, <3>1 DEF FallOver
    <3> QED BY <2>2, <2>6, <3>2 DEF FallOver
  <2> QED BY <1>4, <2>4, <2>5, <2>6, DockerSteps
<1>5. ASSUME NEW j \in jobs[n], Finish(n, j), UNCHANGED <<apiVars, faults>> PROVE TypeOK'
  <2>1. j \in Job /\ j.cmd \in Command /\ j.step \in {"performed", "refused"}
    BY <1>5 DEF Job, Finish
  <2>2. Answer(j) \in Seq(Report)
    <3>1. j = [cmd |-> j.cmd, step |-> j.step]
      BY <2>1 DEF Job
    <3> QED BY <2>1, <3>1, ReportTypes
  <2>3. up' \in [Nodes -> Seq(Report)] /\ outbox' \in [Nodes -> Seq(Report)]
    BY <1>5, <2>2, EmitTypes DEF Finish
  <2> QED BY <1>5, <2>3 DEF Finish
<1> QED BY <1>1, <1>2, <1>3, <1>4, <1>5 DEF AgentStep

(***************************************************************************)
(* A queue that is emptied is a queue of the same things, and losing the   *)
(* connection or the agent empties the queues of reports or leaves them.   *)
(***************************************************************************)
LEMMA EmptiedQueues ==
  ASSUME NEW S, NEW n \in Nodes, NEW queue \in [Nodes -> Seq(S)]
  PROVE  [queue EXCEPT ![n] = <<>>] \in [Nodes -> Seq(S)]
  OBVIOUS

LEMMA LostReports ==
  ASSUME NEW S, up \in [Nodes -> Seq(S)], outbox \in [Nodes -> Seq(S)],
         NEW n \in Nodes, Disconnect(n) \/ AgentRestart(n)
  PROVE  up' \in [Nodes -> Seq(S)] /\ outbox' \in [Nodes -> Seq(S)]
<1> DEFINE Q == Seq(S)
<1>1. up \in [Nodes -> Q] /\ outbox \in [Nodes -> Q] /\ <<>> \in Q
  OBVIOUS
<1>2. /\ up' = [up EXCEPT ![n] = <<>>] \/ up' = [up EXCEPT ![n] = up[n]]
      /\ outbox' = outbox \/ outbox' = [outbox EXCEPT ![n] = <<>>]
  BY DEF Disconnect, AgentRestart, Outliving
<1> HIDE DEF Q
<1>3. up' \in [Nodes -> Q] /\ outbox' \in [Nodes -> Q]
  BY <1>1, <1>2
<1> QED BY <1>3 DEF Q

(***************************************************************************)
(* Lost connections and process deaths.                                    *)
(***************************************************************************)
LEMMA FaultTypes ==
  ASSUME TypeOK, Fault
  PROVE  TypeOK'
<1> USE DEF TypeOK, AgentTypeOK, LinkTypeOK, linkVars, wireVars, agentVars, apiVars
<1>1. faults' \in 0 .. MaxFaults
  BY FaultsAssumption DEF Fault
<1>2. \A s \in RegStates : Outdated(s) \in RegStates
  BY DEF Outdated, RegStates
<1>3. CASE ApiRestart
  <2>1. link' \in [Nodes -> LinkStates] /\ reg' \in [Nodes -> RegStates]
    BY <1>3 DEF ApiRestart, ApiDies, LinkStates, RegStates
  <2>2. create' \in [Servers -> Creation]
    <3>1. \A s \in Servers : create[s] \in Creation
      OBVIOUS
    <3>2. ASSUME NEW s \in Servers
          PROVE  [create[s] EXCEPT !.pc = "dead"] \in Creation
      <4>1. create[s] \in Creation
        BY <3>1
      <4> QED BY <4>1 DEF Creation, Over
    <3> QED BY <1>3, <3>1, <3>2 DEF ApiRestart
  <2>3. request' \in [Requests -> Request]
    <3>1. \A r \in Requests : [request[r] EXCEPT !.pc = "dead"] \in Request
      BY DEF Request, Over
    <3> QED BY <1>3, <3>1 DEF ApiRestart
  <2>4. down' \in [Nodes -> Seq(Command)] /\ up' \in [Nodes -> Seq(Report)]
    BY <1>3 DEF ApiRestart
  <2> QED BY <1>1, <1>3, <2>1, <2>2, <2>3, <2>4 DEF ApiRestart
<1>4. ASSUME NEW n \in Nodes, Disconnect(n), UNCHANGED apiVars PROVE TypeOK'
  <2>1. link' \in [Nodes -> LinkStates] /\ reg' \in [Nodes -> RegStates]
    BY <1>2, <1>4 DEF Disconnect, BreakLink, LinkStates
  <2>2. down' \in [Nodes -> Seq(Command)] /\ up' \in [Nodes -> Seq(Report)]
    BY <1>4, LostReports, EmptiedQueues DEF Disconnect
  <2> QED BY <1>1, <1>4, <2>1, <2>2 DEF Disconnect
<1>5. ASSUME NEW n \in Nodes, AgentRestart(n), UNCHANGED apiVars PROVE TypeOK'
  <2>1. link' \in [Nodes -> LinkStates] /\ reg' \in [Nodes -> RegStates]
    BY <1>2, <1>5 DEF AgentRestart, AgentDies, LinkStates
  <2>2. /\ down' \in [Nodes -> Seq(Command)] /\ up' \in [Nodes -> Seq(Report)]
        /\ outbox' \in [Nodes -> Seq(Report)]
    BY <1>5, LostReports, EmptiedQueues DEF AgentRestart
  <2>3. jobs' \in [Nodes -> SUBSET Job]
    BY FaultJobs
  <2> QED BY <1>1, <1>5, <2>1, <2>2, <2>3 DEF AgentRestart
<1>6. ASSUME NEW n \in Nodes, LateRegister(n), UNCHANGED apiVars PROVE TypeOK'
  <2>1. reg' \in [Nodes -> RegStates] /\ link' = link
    BY <1>6 DEF LateRegister, Overtake, RegStates
  <2> QED BY <1>1, <1>6, <2>1 DEF LateRegister
<1> QED BY <1>3, <1>4, <1>5, <1>6 DEF Fault

-----------------------------------------------------------------------------
LEMMA InitTypes == Init => TypeOK
<1> SUFFICES ASSUME Init PROVE TypeOK
  OBVIOUS
<1>1. AgentTypeOK
  BY DEF Init, AgentInit, AgentTypeOK, LinkInit, LinkTypeOK, LinkStates, RegStates,
         Container, Alive
<1>2. create \in [Servers -> Creation] /\ request \in [Requests -> Request]
  BY DEF Init, Creation, Request
<1> QED BY <1>1, <1>2, FaultsAssumption DEF Init, TypeOK

LEMMA StepTypes == TypeOK /\ [Next]_vars => TypeOK'
<1> SUFFICES ASSUME TypeOK, [Next]_vars PROVE TypeOK'
  OBVIOUS
<1>1. CASE UNCHANGED vars
  BY <1>1 DEF vars, TypeOK, AgentTypeOK, LinkTypeOK
<1> QED BY <1>1, CreateTypes, RequestTypes, ArrivalTypes, AgentTypes, FaultTypes DEF Next

(***************************************************************************)
(* Every variable of the life cycle keeps its type: in particular what is  *)
(* in flight between the control plane and an agent is always a command or *)
(* a report that the other side knows how to handle.                       *)
(***************************************************************************)
THEOREM TypeCorrect == Spec => []TypeOK
  BY InitTypes, StepTypes, PTL DEF Spec

-----------------------------------------------------------------------------
(***************************************************************************)
(* The invariant behind the safety properties.                             *)
(*                                                                         *)
(* A closing status or an acknowledgement, wherever it is on its way,      *)
(* stands for a command that Docker carried out.                           *)
(***************************************************************************)
Honest == {r \in Report : r.kind \in {"closing", "ack"} => r.cmd \in performed}

HonestReports ==
  /\ up \in [Nodes -> Seq(Honest)]
  /\ outbox \in [Nodes -> Seq(Honest)]
  /\ writes \subseteq Honest
  /\ \A n \in Nodes : \A j \in jobs[n] : j.step = "performed" => j.cmd \in performed

\* A promise belongs to the handler that waits for it; nobody waits for stream.
OwnPromises ==
  \A m \in pending :
    /\ m.by \in Requests => UserCommand(m.by) = m
    /\ m.by \in Servers => m.server = m.by /\ (m.verb = "stream" \/ m \in AwaitedBy(m.by))

\* The start of a creation is only sent when its create was carried out.
StartedAfterCreate ==
  \A s \in Servers : create[s].pc = "starting" => CreateCommand(s, "create") \in performed

Promises == OwnPromises /\ StartedAfterCreate /\ NoFalseSuccess /\ WaitersArePending

IInv == TypeOK /\ HonestReports /\ Promises /\ StatusIsGrounded

(***************************************************************************)
(* Docker's work is never undone in the books, so what was honest stays    *)
(* honest, and a promise that is left alone stays as it is.                *)
(***************************************************************************)
LEMMA StaysHonest ==
  ASSUME performed \subseteq performed'
  PROVE  /\ Honest \subseteq Honest'
         /\ Seq(Honest) \subseteq Seq(Honest')
<1>1. Honest \subseteq Honest'
  BY DEF Honest
<1> QED BY <1>1, SeqMonotonic

LEMMA PromisesStay ==
  ASSUME Promises, performed \subseteq performed', UNCHANGED <<create, request, pending>>
  PROVE  Promises'
  BY DEF Promises, OwnPromises, StartedAfterCreate, NoFalseSuccess, WaitersArePending,
         AwaitedBy, CreateCommand, UserCommand, Command_

(***************************************************************************)
(* A creation goes on: the promise that is settled is the one it waits     *)
(* for, and what it sends next is what it waits for then.                  *)
(***************************************************************************)
LEMMA CreationProceeds ==
  ASSUME TypeOK, Promises, NEW m \in pending, NEW ok \in BOOLEAN,
         m.by \in Servers, ok => m \in performed,
         Settle(m, ok), performed' = performed
  PROVE  Promises'
<1> DEFINE s == m.by
           next == Continuation(s, m.verb, ok)
<1>1. /\ pending' = (pending \ {m}) \cup next.sends
      /\ create' = [create EXCEPT ![s].pc = next.pc]
      /\ request' = request
  BY DEF Settle, Proceed
<1>2. m \in Command /\ \A v \in {"create", "start", "delete"} : m.verb = v => CreateCommand(s, v) = m
  BY DEF TypeOK, Command, Promises, OwnPromises, CreateCommand, Command_
<1>3. m.verb = "stream" \/ m \in AwaitedBy(s)
  BY DEF Promises, OwnPromises
<1>4. create \in [Servers -> Creation]
  BY DEF TypeOK
<1>5. \A t \in Servers : t # s => create'[t] = create[t]
  BY <1>1, <1>4
<1>6. create'[s].pc = next.pc
  BY <1>1, <1>4 DEF Creation
<1>7. /\ \A t \in Servers : t # s => AwaitedBy(t)' = AwaitedBy(t)
      /\ \A r \in Requests : UserCommand(r)' = UserCommand(r)
  BY <1>1, <1>5 DEF AwaitedBy, CreateCommand, UserCommand, Command_
<1>8. CASE m.verb = "stream"
  <2>1. next = [pc |-> create[s].pc, sends |-> {}]
    BY <1>8 DEF Continuation
  <2>2. create' = create /\ pending' = pending \ {m}
    BY <1>1, <1>4, <2>1 DEF Creation
  <2>3. /\ \A t \in Servers : m \notin AwaitedBy(t) /\ AwaitedBy(t)' = AwaitedBy(t)
        /\ \A r \in Requests : m # UserCommand(r)
    BY <1>2, <1>8, <2>2, CallersAssumption
       DEF AwaitedBy, CreateCommand, UserCommand, Command_
  <2>4. OwnPromises'
    BY <1>7, <2>2, <2>3 DEF Promises, OwnPromises
  <2>5. WaitersArePending'
    BY <1>1, <1>7, <2>2, <2>3 DEF Promises, WaitersArePending
  <2>6. StartedAfterCreate' /\ NoFalseSuccess'
    BY <1>1, <1>7, <2>2
       DEF Promises, StartedAfterCreate, NoFalseSuccess, CreateCommand, Command_
  <2> QED BY <2>4, <2>5, <2>6 DEF Promises
<1>9. CASE m.verb # "stream"
  <2>1. /\ AwaitedBy(s) = {m}
        /\ m.verb = "create" => create[s].pc = "creating"
        /\ m.verb = "start" => create[s].pc = "starting"
    BY <1>2, <1>3, <1>9 DEF AwaitedBy, CreateCommand, Command_
  <2>2. \/ /\ m \in performed /\ m.verb = "create"
           /\ next.pc = "starting" /\ next.sends = {CreateCommand(s, "start")}
        \/ /\ m \in performed /\ m.verb = "start"
           /\ next.pc = "succeeded" /\ next.sends \subseteq {CreateCommand(s, "stream")}
        \/ next.pc = "cleaning" /\ next.sends = {CreateCommand(s, "delete")}
        \/ next.pc = "removing" /\ next.sends = {}
    <3>1. CASE ok
      BY <1>9, <3>1 DEF Continuation, AfterFailure
    <3>2. CASE ~ok
      BY <1>9, <3>2 DEF Continuation, AfterFailure
    <3> QED BY <3>1, <3>2
  <2> HIDE DEF next
  <2>3. AwaitedBy(s)' \subseteq next.sends
    BY <1>6, <2>2 DEF AwaitedBy, CreateCommand, Command_
  <2>4. ASSUME NEW q \in next.sends
        PROVE  /\ q.by \notin Requests /\ q.server = q.by
               /\ q.verb = "stream" \/ q \in AwaitedBy(q.by)'
    <3>1. q.by = s /\ q.server = s
      BY <2>2 DEF CreateCommand, Command_
    <3>2. q.verb = "stream" \/ q \in AwaitedBy(q.by)'
      BY <1>6, <2>2, <3>1 DEF AwaitedBy, CreateCommand, Command_
    <3> QED BY <3>1, <3>2, CallersAssumption
  <2>5. OwnPromises'
    <3> SUFFICES ASSUME NEW q \in pending'
                 PROVE  /\ q.by \in Requests => UserCommand(q.by)' = q
                        /\ q.by \in Servers =>
                             q.server = q.by /\ (q.verb = "stream" \/ q \in AwaitedBy(q.by)')
      BY DEF OwnPromises
    <3>1. CASE q \in next.sends
      BY <2>4, <3>1
    <3>2. CASE q \in pending \ {m}
      <4>1. CASE q.by \in Requests
        BY <1>7, <3>2, <4>1, CallersAssumption DEF Promises, OwnPromises
      <4>2. CASE q.by = s
        BY <2>1, <3>2, <4>2, CallersAssumption DEF Promises, OwnPromises
      <4>3. CASE q.by \in Servers \ {s}
        BY <1>7, <3>2, <4>3, CallersAssumption DEF Promises, OwnPromises
      <4> QED BY <4>1, <4>2, <4>3
    <3> QED BY <1>1, <3>1, <3>2
  <2>6. WaitersArePending'
    <3>1. \A t \in Servers : AwaitedBy(t)' \subseteq pending'
      <4>1. \A t \in Servers : t # s => m \notin AwaitedBy(t)
        BY <1>2 DEF AwaitedBy, CreateCommand, Command_
      <4> QED BY <1>1, <1>7, <2>3, <4>1 DEF Promises, WaitersArePending
    <3>2. \A r \in Requests : m # UserCommand(r)
      BY CallersAssumption DEF UserCommand, Command_
    <3> QED BY <1>1, <1>7, <3>1, <3>2 DEF Promises, WaitersArePending
  <2>7. StartedAfterCreate'
    <3>1. create'[s].pc = "starting" => CreateCommand(s, "create") \in performed
      BY <1>2, <1>6, <2>2
    <3> QED BY <1>5, <3>1 DEF Promises, StartedAfterCreate, CreateCommand, Command_
  <2>8. NoFalseSuccess'
    <3>1. create'[s].pc = "succeeded" =>
            {CreateCommand(s, "create"), CreateCommand(s, "start")} \subseteq performed
      BY <1>2, <1>6, <2>1, <2>2 DEF Promises, StartedAfterCreate
    <3> QED BY <1>1, <1>5, <1>7, <3>1 DEF Promises, NoFalseSuccess, CreateCommand, Command_
  <2> QED BY <2>5, <2>6, <2>7, <2>8 DEF Promises
<1> QED BY <1>8, <1>9

(***************************************************************************)
(* A call of the user goes on: with success only if Docker did its work.   *)
(***************************************************************************)
LEMMA RequestProceeds ==
  ASSUME TypeOK, Promises, NEW m \in pending, NEW ok \in BOOLEAN,
         m.by \notin Servers, ok => m \in performed,
         Settle(m, ok), performed' = performed
  PROVE  Promises'
<1> DEFINE r == m.by
<1>1. r \in Requests /\ UserCommand(r) = m
  BY DEF TypeOK, Command, Callers, Promises, OwnPromises
<1>2. /\ pending' = pending \ {m}
      /\ create' = create
      /\ \A q \in Requests : q # r => request'[q] = request[q]
      /\ \A q \in Requests : UserCommand(q)' = UserCommand(q)
      /\ \A t \in Servers : AwaitedBy(t)' = AwaitedBy(t)
  BY <1>1 DEF Settle, ProceedRequest, TypeOK, Request, UserCommand, Command_, AwaitedBy,
              CreateCommand
<1>3. /\ request'[r].pc \notin {"waiting", "succeeded"}
      /\ request'[r].pc \in {"reloading", "removing"} => m \in performed
  <2>1. request[r] \in Request
    BY <1>1 DEF TypeOK
  <2>2. CASE ok
    BY <1>1, <2>1, <2>2 DEF Settle, ProceedRequest, TypeOK, Request
  <2>3. CASE ~ok
    BY <1>1, <2>1, <2>3 DEF Settle, ProceedRequest, TypeOK, Request
  <2> QED BY <2>2, <2>3
<1>4. /\ \A q \in Requests : q # r => m # UserCommand(q)
      /\ \A t \in Servers : m \notin AwaitedBy(t)
  BY <1>1 DEF UserCommand, AwaitedBy, CreateCommand, Command_
<1>5. OwnPromises'
  BY <1>2 DEF Promises, OwnPromises
<1>6. WaitersArePending'
  BY <1>2, <1>3, <1>4 DEF Promises, WaitersArePending
<1>7. StartedAfterCreate'
  BY <1>2 DEF Promises, StartedAfterCreate, CreateCommand, Command_
<1>8. NoFalseSuccess'
  BY <1>1, <1>2, <1>3 DEF Promises, NoFalseSuccess, CreateCommand, Command_
<1> QED BY <1>5, <1>6, <1>7, <1>8 DEF Promises

-----------------------------------------------------------------------------
(* The steps keep the invariant. *)

Safe == HonestReports /\ Promises /\ StatusIsGrounded

LEMMA HonestStays ==
  ASSUME HonestReports, performed' = performed, UNCHANGED <<up, outbox, writes, jobs>>
  PROVE  HonestReports'
  BY DEF HonestReports, Honest

LEMMA GroundedStays ==
  ASSUME StatusIsGrounded, performed \subseteq performed', UNCHANGED row
  PROVE  StatusIsGrounded'
  BY DEF StatusIsGrounded, Did

(***************************************************************************)
(* A creation waits for no promise before its row is stored, and a row     *)
(* begins as creating.                                                     *)
(***************************************************************************)
LEMMA CreateSafe ==
  ASSUME IInv, NEW s \in Servers, CreateStep(s)
  PROVE  Safe'
<1> USE DEF IInv
<1>1. performed' = performed /\ UNCHANGED <<up, outbox, writes, jobs, request>>
  BY DEF CreateStep, BeginCreate, PickPorts, RangeExhausted, InsertRow, SendCreate,
         RemoveFailed, linkVars, wireVars, agentVars
<1>2. create[s] \in Creation /\ create \in [Servers -> Creation]
  BY DEF TypeOK
<1>3. StatusIsGrounded'
  <2>1. CASE InsertRow(s)
    BY <1>1, <2>1 DEF InsertRow, StatusIsGrounded, Did, TypeOK
  <2>2. CASE RemoveFailed(s)
    BY <1>1, <2>2 DEF RemoveFailed, StatusIsGrounded, Did, TypeOK
  <2>3. CASE UNCHANGED row
    BY <1>1, <2>3, GroundedStays
  <2> QED BY <2>1, <2>2, <2>3
          DEF CreateStep, BeginCreate, PickPorts, RangeExhausted, SendCreate
<1>4. Promises'
  <2>1. AwaitedBy(s) = {}
    BY DEF CreateStep, BeginCreate, PickPorts, RangeExhausted, InsertRow, SendCreate,
           RemoveFailed, AwaitedBy
  <2>2. /\ \A t \in Servers : t # s => create'[t] = create[t]
        /\ create'[s].pc \notin {"starting", "succeeded"}
        /\ AwaitedBy(s)' \subseteq pending'
        /\ pending' = pending \cup AwaitedBy(s)'
    <3>1. CASE BeginCreate(s)
      BY <1>2, <3>1 DEF BeginCreate, AwaitedBy, Creation
    <3>2. CASE PickPorts(s)
      BY <1>2, <3>2 DEF PickPorts, AwaitedBy, Creation
    <3>3. CASE RangeExhausted(s)
      BY <1>2, <3>3 DEF RangeExhausted, AwaitedBy, Creation
    <3>4. CASE InsertRow(s)
      BY <1>2, <3>4 DEF InsertRow, AwaitedBy, Creation
    <3>5. CASE SendCreate(s)
      BY <1>2, <3>5 DEF SendCreate, Proceed, AfterFailure, AwaitedBy, CreateCommand,
                        Command_, Creation
    <3>6. CASE RemoveFailed(s)
      BY <1>2, <3>6 DEF RemoveFailed, AwaitedBy, Creation
    <3> QED BY <3>1, <3>2, <3>3, <3>4, <3>5, <3>6 DEF CreateStep
  <2>3. /\ \A t \in Servers : t # s => AwaitedBy(t)' = AwaitedBy(t)
        /\ \A r \in Requests : UserCommand(r)' = UserCommand(r)
    BY <1>1, <2>2 DEF AwaitedBy, CreateCommand, UserCommand, Command_
  <2>4. OwnPromises'
    <3> SUFFICES ASSUME NEW q \in pending'
                 PROVE  /\ q.by \in Requests => UserCommand(q.by)' = q
                        /\ q.by \in Servers =>
                             q.server = q.by /\ (q.verb = "stream" \/ q \in AwaitedBy(q.by)')
      BY DEF OwnPromises
    <3>1. CASE q \in AwaitedBy(s)'
      <4>1. q.by = s /\ q.server = s
        BY <3>1 DEF AwaitedBy, CreateCommand, Command_
      <4>2. q \in AwaitedBy(q.by)'
        BY <3>1, <4>1 DEF AwaitedBy, CreateCommand, Command_
      <4> QED BY <4>1, <4>2, CallersAssumption
    <3>2. CASE q \in pending
      <4>1. CASE q.by \in Requests
        BY <2>3, <3>2, <4>1, CallersAssumption DEF Promises, OwnPromises
      <4>2. CASE q.by = s
        BY <2>1, <3>2, <4>2, CallersAssumption DEF Promises, OwnPromises
      <4>3. CASE q.by \in Servers \ {s}
        BY <2>3, <3>2, <4>3, CallersAssumption DEF Promises, OwnPromises
      <4> QED BY <4>1, <4>2, <4>3
    <3> QED BY <2>2, <3>1, <3>2
  <2>5. WaitersArePending'
    BY <1>1, <2>2, <2>3 DEF Promises, WaitersArePending
  <2>6. StartedAfterCreate' /\ NoFalseSuccess'
    BY <1>1, <2>2, <2>3
       DEF Promises, StartedAfterCreate, NoFalseSuccess, CreateCommand, Command_
  <2> QED BY <2>4, <2>5, <2>6 DEF Promises
<1> QED BY <1>1, <1>3, <1>4, HonestStays DEF Safe

(***************************************************************************)
(* A call of the user adds its own promise and waits for it.               *)
(***************************************************************************)
LEMMA RequestSafe ==
  ASSUME IInv, NEW r \in Requests, RequestStep(r)
  PROVE  Safe'
<1> USE DEF IInv
<1>1. performed' = performed /\ UNCHANGED <<up, outbox, writes, jobs, create>>
  BY DEF RequestStep, LoadRow, SendRequest, ReloadRow, RemoveRow, linkVars, wireVars,
         agentVars
<1>2. request[r] \in Request /\ request \in [Requests -> Request]
  BY DEF TypeOK
<1>3. StatusIsGrounded'
  <2>1. CASE RemoveRow(r)
    BY <1>1, <2>1 DEF RemoveRow, StatusIsGrounded, Did, TypeOK, Request
  <2>2. CASE UNCHANGED row
    BY <1>1, <2>2, GroundedStays
  <2> QED BY <2>1, <2>2 DEF RequestStep, LoadRow, SendRequest, ReloadRow
<1>4. /\ \A q \in Requests : q # r => request'[q] = request[q]
      /\ \A q \in Requests : UserCommand(q)' = UserCommand(q)
      /\ \A t \in Servers : AwaitedBy(t)' = AwaitedBy(t)
  BY <1>1, <1>2 DEF RequestStep, LoadRow, SendRequest, ReloadRow, RemoveRow, UserCommand,
                    Command_, Request, AwaitedBy, CreateCommand
<1>5. /\ pending' \subseteq pending \cup {UserCommand(r)} /\ pending \subseteq pending'
      /\ request'[r].pc = "waiting" => UserCommand(r) \in pending'
      /\ request'[r].pc \in {"reloading", "removing", "succeeded"} =>
           request[r].pc \in {"reloading", "removing"}
  BY <1>2 DEF RequestStep, LoadRow, SendRequest, ReloadRow, RemoveRow, Request
<1>6. OwnPromises'
  <2> SUFFICES ASSUME NEW q \in pending'
               PROVE  /\ q.by \in Requests => UserCommand(q.by)' = q
                      /\ q.by \in Servers =>
                           q.server = q.by /\ (q.verb = "stream" \/ q \in AwaitedBy(q.by)')
    BY DEF OwnPromises
  <2>1. CASE q = UserCommand(r)
    <3>1. q.by = r
      BY <2>1 DEF UserCommand, Command_
    <3> QED BY <1>4, <2>1, <3>1, CallersAssumption
  <2>2. CASE q \in pending
    BY <1>4, <2>2 DEF Promises, OwnPromises
  <2> QED BY <1>5, <2>1, <2>2
<1>7. WaitersArePending'
  BY <1>4, <1>5 DEF Promises, WaitersArePending
<1>8. StartedAfterCreate' /\ NoFalseSuccess'
  BY <1>1, <1>4, <1>5 DEF Promises, StartedAfterCreate, NoFalseSuccess, CreateCommand, Command_
<1> QED BY <1>1, <1>3, <1>6, <1>7, <1>8, HonestStays DEF Safe, Promises

(***************************************************************************)
(* An acknowledgement that arrives is honest, so what it lets go on is; a  *)
(* timeout claims nothing; an update writes an honest status.              *)
(***************************************************************************)
LEMMA ArrivalSafe ==
  ASSUME IInv
  PROVE  /\ \A n \in Nodes : ReceiveReport(n) => Safe'
         /\ \A m \in pending : Timeout(m) => Safe'
         /\ \A w \in writes : ApplyStatus(w) => Safe'
<1> USE DEF IInv
<1>1. ASSUME NEW n \in Nodes, ReceiveReport(n) PROVE Safe'
  <2> DEFINE r == Head(up[n])
  <2>1. /\ UNCHANGED <<row, outbox, jobs>> /\ performed' = performed
        /\ up' = [up EXCEPT ![n] = Tail(@)]
    BY <1>1 DEF ReceiveReport, agentVars
  <2>2. r \in Honest /\ Tail(up[n]) \in Seq(Honest)
    BY <1>1 DEF ReceiveReport, HonestReports
  <2>3. Honest' = Honest
    BY <2>1 DEF Honest
  <2>4. up' \in [Nodes -> Seq(Honest)]
    BY <2>1, <2>2 DEF HonestReports
  <2>5. writes' \subseteq Honest
    BY <1>1, <2>2 DEF ReceiveReport, HonestReports
  <2>6. HonestReports'
    BY <2>1, <2>3, <2>4, <2>5 DEF HonestReports
  <2>7. Promises'
    <3>1. CASE UNCHANGED <<create, request, pending>>
      BY <2>1, <3>1, PromisesStay
    <3>2. CASE r.kind \in {"ack", "error"} /\ r.cmd \in pending /\ Settle(r.cmd, r.kind = "ack")
      <4>1. r.kind = "ack" => r.cmd \in performed
        BY <2>2 DEF Honest
      <4> QED BY <2>1, <3>2, <4>1, CreationProceeds, RequestProceeds
    <3> QED BY <1>1, <3>1, <3>2 DEF ReceiveReport
  <2> QED BY <2>1, <2>6, <2>7, GroundedStays DEF Safe
<1>2. ASSUME NEW m \in pending, Timeout(m) PROVE Safe'
  <2>1. /\ UNCHANGED <<row, up, outbox, writes, jobs>> /\ performed' = performed
        /\ Settle(m, FALSE)
    BY <1>2 DEF Timeout, agentVars
  <2>2. Promises'
    BY <2>1, CreationProceeds, RequestProceeds
  <2> QED BY <2>1, <2>2, HonestStays, GroundedStays DEF Safe
<1>3. ASSUME NEW w \in writes, ApplyStatus(w) PROVE Safe'
  <2>1. /\ UNCHANGED <<up, outbox, jobs, create, request, pending>> /\ performed' = performed
        /\ writes' \subseteq writes
    BY <1>3 DEF ApplyStatus, wireVars, agentVars
  <2>2. HonestReports'
    BY <2>1 DEF HonestReports, Honest
  <2>3. /\ StatusOf(w) = "running" => Did(w.cmd.server, {"start", "restart"})
        /\ StatusOf(w) = "stopped" => Did(w.cmd.server, {"create", "stop"})
    <3>1. w \in StatusReport /\ (w.kind = "closing" => w.cmd \in performed)
      BY DEF TypeOK, HonestReports, Honest
    <3>2. w.kind = "opening" => StatusOf(w) \notin {"running", "stopped"}
      BY <3>1 DEF StatusReport, StatusOf, Opening
    <3>3. w.kind = "closing" =>
            /\ StatusOf(w) = "running" => w.cmd.verb \in {"start", "restart"}
            /\ StatusOf(w) = "stopped" => w.cmd.verb \in {"create", "stop"}
      BY <3>1 DEF StatusReport, StatusOf, Closing
    <3>4. w.kind \in {"opening", "closing"}
      BY <3>1 DEF StatusReport
    <3> QED BY <3>1, <3>2, <3>3, <3>4 DEF Did
  <2>4. StatusIsGrounded'
    BY <1>3, <2>1, <2>3 DEF ApplyStatus, StatusIsGrounded, Did, TypeOK, Row
  <2> QED BY <2>1, <2>2, <2>4, PromisesStay DEF Safe
<1> QED BY <1>1, <1>2, <1>3

(***************************************************************************)
(* What handleMessage reports is honest: it closes and acknowledges only   *)
(* what Docker performed.                                                  *)
(***************************************************************************)
LEMMA HonestAnswers ==
  ASSUME NEW m \in Command
  PROVE  /\ OpeningReport(m) \in Seq(Honest)
         /\ \A j \in Job : j.cmd = m /\ (j.step = "performed" => m \in performed) =>
              Answer(j) \in Seq(Honest)
<1>1. OpeningReport(m) \in Seq(Honest)
  <2>1. m.verb \in DOMAIN Opening => [kind |-> "opening", cmd |-> m] \in Honest
    BY DEF Report, StatusReport, Honest
  <2> QED BY <2>1 DEF OpeningReport
<1>2. ASSUME NEW j \in Job, j.cmd = m, j.step = "performed" => m \in performed
      PROVE  Answer(j) \in Seq(Honest)
  <2>1. CASE j.step = "performed"
    <3>1. m.verb \in DOMAIN Closing => [kind |-> "closing", cmd |-> m] \in Honest
      BY <1>2, <2>1 DEF Report, StatusReport, Honest
    <3>2. ClosingReport(m) \in Seq(Honest)
      BY <3>1 DEF ClosingReport
    <3>3. <<[kind |-> "ack", cmd |-> m]>> \in Seq(Honest)
      BY <1>2, <2>1 DEF Report, Honest
    <3> QED BY <1>2, <2>1, <3>2, <3>3 DEF Answer
  <2>2. CASE j.step # "performed"
    <3>1. <<[kind |-> "error", cmd |-> m]>> \in Seq(Honest)
      BY DEF Report, Honest
    <3> QED BY <1>2, <2>2, <3>1 DEF Answer
  <2> QED BY <2>1, <2>2
<1> QED BY <1>1, <1>2

(***************************************************************************)
(* The agent reports honestly, and what Docker does is only added to what  *)
(* it did.                                                                 *)
(***************************************************************************)
LEMMA AgentSafe ==
  ASSUME IInv, NEW n \in Nodes, AgentStep(n)
  PROVE  Safe'
<1> USE DEF IInv
<1>1. performed \subseteq performed' /\ UNCHANGED <<row, create, request, pending, writes>>
  <2>1. CASE \E j \in jobs[n] : DockerStep(n, j.cmd)
    BY <2>1, DockerSteps DEF apiVars
  <2>2. CASE ~\E j \in jobs[n] : DockerStep(n, j.cmd)
    BY <2>2 DEF AgentStep, ReceiveCommand, Redial, Handshake, Finish, agentVars, apiVars
  <2> QED BY <2>1, <2>2
<1>2. Promises' /\ StatusIsGrounded'
  BY <1>1, PromisesStay, GroundedStays
<1>3. HonestReports'
  <2>1. CASE ReceiveCommand(n) /\ UNCHANGED <<apiVars, faults>>
    <3> DEFINE m == Head(down[n])
    <3>1. m \in Command /\ performed' = performed /\ writes' = writes
      BY <2>1 DEF ReceiveCommand, TypeOK, AgentTypeOK, apiVars
    <3>2. up' \in [Nodes -> Seq(Honest)] /\ outbox' \in [Nodes -> Seq(Honest)]
      BY <2>1, <3>1, HonestAnswers, EmitTypes DEF ReceiveCommand, HonestReports
    <3>3. \A k \in Nodes : \A j \in jobs'[k] : j.step = "performed" => j.cmd \in performed
      BY <2>1 DEF ReceiveCommand, HonestReports, TypeOK, AgentTypeOK
    <3> QED BY <3>1, <3>2, <3>3 DEF HonestReports, Honest
  <2>2. CASE Redial(n) /\ UNCHANGED <<apiVars, faults>>
    <3>1. performed' = performed /\ UNCHANGED <<jobs, writes>>
      BY <2>2 DEF Redial, agentVars, apiVars
    <3>2. up' \in [Nodes -> Seq(Honest)] /\ outbox' \in [Nodes -> Seq(Honest)]
      <4>1. up \in [Nodes -> Seq(Honest)] /\ outbox \in [Nodes -> Seq(Honest)]
        BY DEF HonestReports
      <4>2. up[n] \o outbox[n] \in Seq(Honest)
        BY <4>1, ConcatProperties
      <4> QED BY <2>2, <4>1, <4>2 DEF Redial
    <3> QED BY <3>1, <3>2 DEF HonestReports, Honest
  <2>3. CASE Handshake(n) /\ UNCHANGED <<apiVars, faults>>
    BY <2>3, HonestStays DEF Handshake, wireVars, agentVars, apiVars
  <2>4. ASSUME NEW j \in jobs[n], DockerStep(n, j.cmd) PROVE HonestReports'
    <3>1. UNCHANGED <<up, outbox, writes>>
      BY <2>4, DockerSteps DEF wireVars, apiVars
    <3>3. \A k \in Nodes : \A i \in jobs'[k] : i.step = "performed" => i.cmd \in performed'
      <4>1. CASE \E step \in {"performed", "refused"} :
                   /\ Advance(n, j.cmd, step)
                   /\ step = "performed" => j.cmd \in performed'
        BY <1>1, <4>1 DEF Advance, HonestReports, TypeOK, AgentTypeOK
      <4>2. CASE jobs' = [jobs EXCEPT ![n] = @ \ {[cmd |-> j.cmd, step |-> "abandoned"]}]
        BY <1>1, <4>2 DEF HonestReports, TypeOK, AgentTypeOK
      <4> QED BY <2>4, <4>1, <4>2, DockerSteps
    <3>4. /\ up \in [Nodes -> Seq(Honest')]
          /\ outbox \in [Nodes -> Seq(Honest')]
          /\ writes \subseteq Honest'
      BY <1>1, StaysHonest DEF HonestReports
    <3> QED BY <3>1, <3>3, <3>4 DEF HonestReports
  <2>5. ASSUME NEW j \in jobs[n], Finish(n, j), UNCHANGED <<apiVars, faults>>
        PROVE  HonestReports'
    <3>1. performed' = performed /\ writes' = writes
      BY <2>5 DEF Finish, apiVars
    <3>2. j \in Job /\ j.cmd \in Command /\ (j.step = "performed" => j.cmd \in performed)
      BY DEF TypeOK, AgentTypeOK, HonestReports, Job
    <3>3. Answer(j) \in Seq(Honest)
      BY <3>2, HonestAnswers
    <3>4. up' \in [Nodes -> Seq(Honest)] /\ outbox' \in [Nodes -> Seq(Honest)]
      BY <2>5, <3>3, EmitTypes DEF Finish, HonestReports
    <3>5. \A k \in Nodes : \A i \in jobs'[k] : i.step = "performed" => i.cmd \in performed
      BY <2>5 DEF Finish, HonestReports, TypeOK, AgentTypeOK
    <3> QED BY <3>1, <3>4, <3>5 DEF HonestReports, Honest
  <2> QED BY <2>1, <2>2, <2>3, <2>4, <2>5 DEF AgentStep
<1> QED BY <1>2, <1>3 DEF Safe

(***************************************************************************)
(* A fault makes nobody wait and nobody succeed: it takes reports, jobs    *)
(* and promises away, the promises together with those who wait for them.  *)
(***************************************************************************)
LEMMA FaultSafe ==
  ASSUME IInv, Fault
  PROVE  Safe'
<1> USE DEF IInv
<1>1. performed' = performed /\ row' = row
  BY DEF Fault, ApiRestart, Disconnect, AgentRestart, LateRegister, agentVars, apiVars
<1>2. StatusIsGrounded'
  BY <1>1, GroundedStays
<1>3. CASE ApiRestart
  <2>1. HonestReports'
    <3>1. up' = [n \in Nodes |-> <<>>] /\ writes' = {} /\ UNCHANGED <<outbox, jobs>>
      BY <1>3 DEF ApiRestart, agentVars
    <3> QED BY <1>1, <3>1 DEF HonestReports, Honest
  <2>2. /\ \A s \in Servers : create'[s].pc \in Over \cup {"idle"}
        /\ \A s \in Servers : create'[s].pc = "succeeded" => create[s].pc = "succeeded"
    BY <1>3 DEF ApiRestart, TypeOK, Creation, Over
  <2>3. \A r \in Requests :
          /\ request'[r].pc \in Over \cup {"idle"}
          /\ request'[r].pc = "succeeded" => request[r].pc = "succeeded"
          /\ request'[r].verb = request[r].verb /\ request'[r].server = request[r].server
    BY <1>3 DEF ApiRestart, TypeOK, Request, Over
  <2>4. pending' = {}
    BY <1>3 DEF ApiRestart
  <2>5. OwnPromises'
    BY <2>4 DEF OwnPromises
  <2>6. WaitersArePending'
    BY <2>2, <2>3 DEF WaitersArePending, AwaitedBy, Over
  <2>7. StartedAfterCreate'
    BY <2>2 DEF StartedAfterCreate, Over
  <2>8. NoFalseSuccess'
    BY <1>1, <2>2, <2>3 DEF Promises, NoFalseSuccess, Over, CreateCommand, UserCommand, Command_
  <2> QED BY <1>2, <2>1, <2>5, <2>6, <2>7, <2>8 DEF Safe, Promises
<1>4. ASSUME NEW n \in Nodes, Disconnect(n) \/ AgentRestart(n), UNCHANGED apiVars PROVE Safe'
  <2>1. Promises'
    BY <1>1, <1>4, PromisesStay DEF apiVars
  <2>2. writes' = writes
    BY <1>4 DEF apiVars
  <2>3. up' \in [Nodes -> Seq(Honest)] /\ outbox' \in [Nodes -> Seq(Honest)]
    BY <1>4, LostReports DEF HonestReports
  <2>4. \A k \in Nodes : \A i \in jobs'[k] : i.step = "performed" => i \in jobs[k]
    BY FaultJobs
  <2>5. HonestReports'
    BY <1>1, <2>2, <2>3, <2>4 DEF HonestReports, Honest
  <2> QED BY <1>2, <2>1, <2>5 DEF Safe
<1>5. ASSUME NEW n \in Nodes, LateRegister(n), UNCHANGED apiVars PROVE Safe'
  <2>1. Promises' /\ HonestReports'
    BY <1>1, <1>5, PromisesStay, HonestStays DEF LateRegister, wireVars, agentVars, apiVars
  <2> QED BY <1>2, <2>1 DEF Safe
<1> QED BY <1>3, <1>4, <1>5 DEF Fault

-----------------------------------------------------------------------------
LEMMA InitSafe == Init => Safe
<1> SUFFICES ASSUME Init PROVE Safe
  OBVIOUS
<1> USE DEF Init
<1>1. HonestReports
  BY DEF AgentInit, HonestReports
<1>2. /\ \A s \in Servers : create[s].pc = "idle" /\ row[s] = NoRow
      /\ \A r \in Requests : request[r].pc = "idle"
      /\ pending = {}
  OBVIOUS
<1>3. Promises
  BY <1>2 DEF Promises, OwnPromises, StartedAfterCreate, NoFalseSuccess,
              WaitersArePending, AwaitedBy
<1>4. StatusIsGrounded
  BY <1>2 DEF StatusIsGrounded
<1> QED BY <1>1, <1>3, <1>4 DEF Safe

LEMMA StepSafe == IInv /\ [Next]_vars => IInv'
<1> SUFFICES ASSUME IInv, [Next]_vars PROVE Safe'
  BY StepTypes DEF IInv, Safe
<1>1. CASE UNCHANGED vars
  BY <1>1, HonestStays, PromisesStay, GroundedStays DEF vars, IInv, Safe
<1> QED BY <1>1, CreateSafe, RequestSafe, ArrivalSafe, AgentSafe, FaultSafe DEF Next

LEMMA Invariance == Spec => []IInv
<1>1. Init => IInv
  BY InitTypes, InitSafe DEF IInv, Safe
<1> QED BY <1>1, StepSafe, PTL DEF Spec

(***************************************************************************)
(* Whatever is lost, late, buffered, refused or restarted, a handler of    *)
(* ServersController that answers 2xx tells the truth: Docker carried out  *)
(* every command that the call stands for.                                 *)
(***************************************************************************)
THEOREM SuccessIsTrue == Spec => []NoFalseSuccess
<1>1. IInv => NoFalseSuccess
  BY DEF IInv, Promises
<1> QED BY <1>1, Invariance, PTL

(***************************************************************************)
(* No handler is ever left waiting for a command that NodeCommandService   *)
(* has forgotten: its promise is still in the map, with its timer.         *)
(***************************************************************************)
THEOREM WaitersHavePromises == Spec => []WaitersArePending
<1>1. IInv => WaitersArePending
  BY DEF IInv, Promises
<1> QED BY <1>1, Invariance, PTL

(***************************************************************************)
(* The status in the database, however old the report that wrote it is,    *)
(* says something that did happen to the server's container.               *)
(***************************************************************************)
THEOREM StatusWasTrue == Spec => []StatusIsGrounded
<1>1. IInv => StatusIsGrounded
  BY DEF IInv
<1> QED BY <1>1, Invariance, PTL
=============================================================================
