-------------------------- MODULE ServerRowsProofs --------------------------
(***************************************************************************)
(* What the handlers of ServersController do to the game_servers table,    *)
(* whatever goes wrong: no more than HostPorts allows, a container only    *)
(* loses its row to the error path of its own POST /servers, and a row its *)
(* container to a DELETE only.  And what holds while nothing goes wrong.   *)
(***************************************************************************)
EXTENDS ServerLifecycleProofs

-----------------------------------------------------------------------------
(* The refinement mapping *)

\* Nothing that HostPorts sees of a creation or a row changes.
SameCreations ==
  \A s \in Servers :
    /\ HostPhase(create'[s].pc) = HostPhase(create[s].pc)
    /\ create'[s].node = create[s].node /\ create'[s].need = create[s].need
    /\ create'[s].ports = create[s].ports /\ create'[s].saw = create[s].saw

SameRows == \A s \in Servers : HostRow(s)' = HostRow(s)

\* A mapped row is a row exactly when the row is one.
LEMMA HostRows ==
  ASSUME TypeOK, NEW s \in Servers
  PROVE  /\ HostRow(s) = NoRow <=> row[s] = NoRow
         /\ row[s] # NoRow => /\ HostRow(s).node = row[s].node
                              /\ HostRow(s).ports = row[s].ports
<1>1. CASE row[s] = NoRow
  BY <1>1 DEF HostRow
<1>2. CASE row[s] # NoRow
  <2>1. row[s] \in Row
    BY <1>2 DEF TypeOK
  <2>2. [node |-> row[s].node, ports |-> row[s].ports] \in [node : Nodes, ports : SUBSET HostRange]
    BY <2>1 DEF Row
  <2> QED
    BY <1>2, <2>2, NoRowAssumption DEF HostRow
<1> QED
  BY <1>1, <1>2

\* What HostPorts computes from the mapped rows.
LEMMA HostQueries ==
  ASSUME TypeOK, NEW n
  PROVE  HP!RowsOn(n) = RowsOn(n) /\ HP!UsedOn(n) = UsedOn(n)
<1>1. HP!RowsOn(n) = RowsOn(n)
  BY HostRows DEF HP!RowsOn, RowsOn
<1>2. \A s \in RowsOn(n) : HostRow(s).ports = row[s].ports
  BY HostRows DEF RowsOn
<1>3. HP!UsedOn(n) = UNION {HostRow(s).ports : s \in RowsOn(n)}
  BY <1>1 DEF HP!UsedOn, RowsOn
<1> QED
  BY <1>1, <1>2, <1>3 DEF UsedOn

\* HostPorts allocates as the handlers do.
LEMMA SameAllocator == \A used, need : HP!LowestFree(used, need) = LowestFree(used, need)
  BY DEF HP!LowestFree, LowestFree, HP!HostRange, HostRange, HP!Cardinality, Cardinality

LEMMA Stuttering ==
  ASSUME SameCreations, SameRows
  PROVE  UNCHANGED HP!hostVars
BY DEF SameCreations, SameRows, HP!hostVars, HostCreation

\* What a step of the creation of s does to the mapped creations.
LEMMA OneCreation ==
  ASSUME TypeOK, NEW s \in Servers, NEW c, create' = [create EXCEPT ![s] = c]
  PROVE  [t \in Servers |-> HostCreation(create[t])]' =
           [[t \in Servers |-> HostCreation(create[t])] EXCEPT ![s] = HostCreation(c)]
BY DEF TypeOK

\* A step that only moves the creation of s on.
LEMMA OnePhase ==
  ASSUME TypeOK, NEW s \in Servers, NEW pc, create' = [create EXCEPT ![s].pc = pc]
  PROVE  [t \in Servers |-> HostCreation(create[t])]' =
           [[t \in Servers |-> HostCreation(create[t])] EXCEPT ![s].pc = HostPhase(pc)]
<1>1. create[s] \in Creation
  BY DEF TypeOK
<1>2. HostCreation([create[s] EXCEPT !.pc = pc]) =
        [HostCreation(create[s]) EXCEPT !.pc = HostPhase(pc)]
  BY <1>1 DEF HostCreation, Creation
<1>3. create' = [create EXCEPT ![s] = [create[s] EXCEPT !.pc = pc]]
  OBVIOUS
<1> DEFINE map == [t \in Servers |-> HostCreation(create[t])]
<1>4. map' = [map EXCEPT ![s] = HostCreation([create[s] EXCEPT !.pc = pc])]
  BY <1>3, OneCreation
<1>5. map[s] = HostCreation(create[s])
  OBVIOUS
<1> HIDE DEF map, HostCreation
<1>6. map' = [map EXCEPT ![s].pc = HostPhase(pc)]
  BY <1>2, <1>4, <1>5
<1> QED
  BY <1>6 DEF map

\* A row that is removed, or was gone already.
LEMMA RemovalRefines ==
  ASSUME NEW s \in Servers, row' = [row EXCEPT ![s] = NoRow], TypeOK, SameCreations
  PROVE  [HP!Next]_HP!hostVars
<1> DEFINE hr == [t \in Servers |-> HostRow(t)]
<1>1. HostRow(s)' = NoRow /\ \A t \in Servers \ {s} : HostRow(t)' = HostRow(t)
  BY DEF HostRow, TypeOK
<1>2. CASE row[s] = NoRow
  <2>1. SameRows
    BY <1>1, <1>2 DEF SameRows, HostRow
  <2> QED
    BY <2>1, Stuttering
<1>3. CASE row[s] # NoRow
  <2>1. hr[s] # NoRow
    BY <1>3, HostRows
  <2>2. hr' = [hr EXCEPT ![s] = NoRow]
    BY <1>1
  <2>3. [t \in Servers |-> HostCreation(create[t])]' =
          [t \in Servers |-> HostCreation(create[t])]
    BY DEF SameCreations, HostCreation
  <2>4. HP!RemoveRow(s)
    BY <2>1, <2>2, <2>3 DEF HP!RemoveRow
  <2> QED
    BY <2>4 DEF HP!Next
<1> QED
  BY <1>2, <1>3

\* A handler that waits for a node has inserted its row.
LEMMA SettledCreation ==
  ASSUME TypeOK, Promises, NEW m \in pending, NEW ok \in BOOLEAN, Settle(m, ok)
  PROVE  SameCreations
<1>1. CASE m.by \in Servers
  <2> DEFINE s == m.by
             next == Continuation(s, m.verb, ok)
  <2>1. create' = [create EXCEPT ![s].pc = next.pc]
    BY <1>1 DEF Settle, Proceed
  <2>2. m.verb = "stream" \/ m \in AwaitedBy(s)
    BY <1>1 DEF Promises, OwnPromises
  <2>3. CASE m.verb = "stream"
    <3>1. next.pc = create[s].pc
      BY <2>3 DEF Continuation
    <3> QED
      BY <2>1, <3>1 DEF SameCreations, TypeOK, Creation
  <2>4. CASE m.verb # "stream"
    <3>1. create[s].pc \in {"creating", "starting", "cleaning"}
      BY <2>2, <2>4 DEF AwaitedBy
    <3>2. m.verb \in Verbs
      BY DEF TypeOK, Command
    <3>3. next.pc \in {"starting", "succeeded", "removing", "cleaning"}
      BY <2>4, <3>2 DEF Continuation, AfterFailure, Verbs
    <3>4. HostPhase(next.pc) = HostPhase(create[s].pc)
      BY <3>1, <3>3 DEF HostPhase
    <3> QED
      BY <1>1, <2>1, <3>4 DEF SameCreations, TypeOK, Creation
  <2> QED
    BY <2>3, <2>4
<1>2. CASE m.by \notin Servers
  BY <1>2 DEF Settle, SameCreations
<1> QED
  BY <1>1, <1>2

\* The steps of POST /servers.
LEMMA CreateRefines ==
  ASSUME TypeOK, NEW s \in Servers, CreateStep(s)
  PROVE  [HP!Next]_HP!hostVars
<1> DEFINE hc == [t \in Servers |-> HostCreation(create[t])]
           hr == [t \in Servers |-> HostRow(t)]
<1>1. /\ hc[s].pc = HostPhase(create[s].pc) /\ hc[s].node = create[s].node
      /\ hc[s].need = create[s].need /\ hc[s].ports = create[s].ports
      /\ NodeOf(s) = create[s].node
  BY DEF HostCreation, NodeOf
<1>2. ASSUME row' = row PROVE hr' = hr
  BY <1>2 DEF HostRow
<1>3. CASE BeginCreate(s)
  <2>1. hc[s].pc = "idle" /\ hr' = hr
    BY <1>1, <1>2, <1>3 DEF BeginCreate, HostPhase
  <2>2. CASE Connected(s)
    <3>1. hc' = [hc EXCEPT ![s].pc = HostPhase("reading")]
      BY <1>3, <2>2, OnePhase DEF BeginCreate
    <3>2. HostPhase("reading") = "reading"
      BY DEF HostPhase
    <3>3. HP!Begin(s)
      BY <2>1, <3>1, <3>2 DEF HP!Begin
    <3> QED
      BY <3>3 DEF HP!Next
  <2>3. CASE ~Connected(s)
    <3>1. hc' = [hc EXCEPT ![s].pc = HostPhase("failed")]
      BY <1>3, <2>3, OnePhase DEF BeginCreate
    <3>2. HostPhase("failed") = "closed"
      BY DEF HostPhase
    <3>3. HP!TurnAway(s)
      BY <2>1, <3>1, <3>2 DEF HP!TurnAway
    <3> QED
      BY <3>3 DEF HP!Next
  <2> QED
    BY <2>2, <2>3
<1>4. CASE PickPorts(s)
  <2>1. PICK P \in LowestFree(UsedOn(NodeOf(s)), create[s].need) :
          create' = [create EXCEPT ![s] =
            [pc |-> "inserting", node |-> create[s].node, need |-> create[s].need,
             ports |-> P, saw |-> RowsOn(NodeOf(s))]]
    BY <1>4 DEF PickPorts
  <2>2. hc[s].pc = "reading" /\ hr' = hr
    BY <1>1, <1>2, <1>4 DEF PickPorts, HostPhase
  <2>3. HP!RowsOn(hc[s].node) = RowsOn(NodeOf(s))
    BY <1>1, HostQueries
  <2>4. hc' = [hc EXCEPT ![s] =
          [pc |-> "inserting", node |-> hc[s].node, need |-> hc[s].need,
           ports |-> P, saw |-> HP!RowsOn(hc[s].node)]]
    <3> DEFINE c == [pc |-> "inserting", node |-> create[s].node, need |-> create[s].need,
                     ports |-> P, saw |-> RowsOn(NodeOf(s))]
    <3>1. HostCreation(c) = [pc |-> "inserting", node |-> hc[s].node, need |-> hc[s].need,
                             ports |-> P, saw |-> HP!RowsOn(hc[s].node)]
      BY <1>1, <2>3 DEF HostCreation, HostPhase
    <3>2. hc' = [hc EXCEPT ![s] = HostCreation(c)]
      BY <2>1, OneCreation
    <3> QED
      BY <3>1, <3>2, Zenon
  <2>5. P \in HP!LowestFree(HP!UsedOn(hc[s].node), hc[s].need)
    BY <1>1, HostQueries, SameAllocator
  <2>6. HP!PickPorts(s)
    BY <2>2, <2>4, <2>5 DEF HP!PickPorts
  <2> QED
    BY <2>6 DEF HP!Next
<1>5. CASE RangeExhausted(s)
  <2>1. hc[s].pc = "reading" /\ hr' = hr
    BY <1>1, <1>2, <1>5 DEF RangeExhausted, HostPhase
  <2>2. hc' = [hc EXCEPT ![s].pc = HostPhase("failed")]
    BY <1>5, OnePhase DEF RangeExhausted
  <2>3. HostPhase("failed") = "closed"
    BY DEF HostPhase
  <2>4. HP!LowestFree(HP!UsedOn(hc[s].node), hc[s].need) = {}
    BY <1>1, <1>5, HostQueries, SameAllocator DEF RangeExhausted
  <2>5. HP!TurnAway(s)
    BY <2>1, <2>2, <2>3, <2>4 DEF HP!TurnAway
  <2> QED
    BY <2>5 DEF HP!Next
<1>6. CASE InsertRow(s)
  <2>1. hc[s].pc = "inserting"
    BY <1>1, <1>6 DEF InsertRow, HostPhase
  <2>2. hc' = [hc EXCEPT ![s].pc = HostPhase("inserted")]
    BY <1>6, OnePhase DEF InsertRow
  <2>3. HostPhase("inserted") = "closed"
    BY DEF HostPhase
  <2>4. hr' = [hr EXCEPT ![s] = [node |-> hc[s].node, ports |-> hc[s].ports]]
    <3> DEFINE new == [node |-> NodeOf(s), ports |-> create[s].ports, status |-> "creating"]
    <3>1. row' = [row EXCEPT ![s] = new] /\ row \in [Servers -> Row \cup {NoRow}]
      BY <1>6 DEF InsertRow, TypeOK
    <3>2. new # NoRow
      <4>1. new \in Row
        BY DEF TypeOK, Creation, Row, Statuses, NodeOf
      <4> QED
        BY <4>1, NoRowAssumption
    <3>3. row'[s] = new /\ new.node = hc[s].node /\ new.ports = hc[s].ports
      BY <1>1, <3>1
    <3>4. HostRow(s)' = [node |-> hc[s].node, ports |-> hc[s].ports]
      BY <3>2, <3>3 DEF HostRow
    <3>5. \A t \in Servers \ {s} : HostRow(t)' = HostRow(t)
      BY <3>1 DEF HostRow
    <3> QED
      BY <3>4, <3>5
  <2>5. HP!InsertRow(s)
    BY <2>1, <2>2, <2>3, <2>4 DEF HP!InsertRow
  <2> QED
    BY <2>5 DEF HP!Next
<1>7. CASE SendCreate(s)
  <2>1. /\ create[s].pc = "inserted" /\ row' = row
        /\ \E pc \in {"creating", "cleaning", "removing"} :
             create' = [create EXCEPT ![s].pc = pc]
    BY <1>7 DEF SendCreate, Proceed, AfterFailure
  <2>2. SameCreations
    BY <2>1 DEF TypeOK, Creation, SameCreations, HostPhase
  <2> QED
    BY <2>1, <2>2, Stuttering DEF SameRows, HostRow
<1>8. CASE RemoveFailed(s)
  <2>1. SameCreations
    BY <1>8 DEF RemoveFailed, TypeOK, Creation, SameCreations, HostPhase
  <2> QED
    BY <1>8, <2>1, RemovalRefines DEF RemoveFailed
<1> QED
  BY <1>3, <1>4, <1>5, <1>6, <1>7, <1>8 DEF CreateStep

\* The steps of the user's handlers.
LEMMA RequestRefines ==
  ASSUME TypeOK, NEW r \in Requests, RequestStep(r)
  PROVE  [HP!Next]_HP!hostVars
<1>1. create' = create
  BY DEF RequestStep, LoadRow, SendRequest, ReloadRow, RemoveRow
<1>2. SameCreations
  BY <1>1 DEF SameCreations
<1>3. CASE RemoveRow(r)
  <2>1. request[r].server \in Servers
    BY DEF TypeOK, Request
  <2> QED
    BY <1>2, <1>3, <2>1, RemovalRefines DEF RemoveRow
<1>4. CASE LoadRow(r) \/ SendRequest(r) \/ ReloadRow(r)
  <2>1. row' = row
    BY <1>4 DEF LoadRow, SendRequest, ReloadRow
  <2> QED
    BY <1>2, <2>1, Stuttering DEF SameRows, HostRow
<1> QED
  BY <1>3, <1>4 DEF RequestStep

\* Answers and timers settle promises, status updates leave the ports alone.
LEMMA ArrivalRefines ==
  ASSUME TypeOK, Promises
  PROVE  /\ \A n \in Nodes : ReceiveReport(n) => UNCHANGED HP!hostVars
         /\ \A m \in pending : Timeout(m) => UNCHANGED HP!hostVars
         /\ \A w \in writes : ApplyStatus(w) => UNCHANGED HP!hostVars
<1>1. ASSUME NEW n \in Nodes, ReceiveReport(n) PROVE UNCHANGED HP!hostVars
  <2>1. SameCreations
    <3>1. CASE create' = create
      BY <3>1 DEF SameCreations
    <3>2. CASE create' # create
      <4>1. PICK m \in pending, ok \in BOOLEAN : Settle(m, ok)
        BY <1>1, <3>2 DEF ReceiveReport
      <4> QED
        BY <4>1, SettledCreation
    <3> QED
      BY <3>1, <3>2
  <2>2. row' = row
    BY <1>1 DEF ReceiveReport
  <2> QED
    BY <2>1, <2>2, Stuttering DEF SameRows, HostRow
<1>2. ASSUME NEW m \in pending, Timeout(m) PROVE UNCHANGED HP!hostVars
  <2>1. SameCreations /\ row' = row
    BY <1>2, SettledCreation DEF Timeout
  <2> QED
    BY <2>1, Stuttering DEF SameRows, HostRow
<1>3. ASSUME NEW w \in writes, ApplyStatus(w) PROVE UNCHANGED HP!hostVars
  <2> DEFINE t == w.cmd.server
  <2>1. SameCreations
    BY <1>3 DEF ApplyStatus, SameCreations
  <2>2. CASE row[t] = NoRow
    BY <1>3, <2>1, <2>2, Stuttering DEF ApplyStatus, SameRows, HostRow
  <2>3. CASE row[t] # NoRow
    <3>1. t \in Servers /\ StatusOf(w) \in Statuses
      BY StatusTypes DEF TypeOK, StatusReport, Command
    <3>2. row[t] \in Row /\ row' = [row EXCEPT ![t] = [row[t] EXCEPT !.status = StatusOf(w)]]
      BY <1>3, <2>3, <3>1 DEF TypeOK, ApplyStatus
    <3> DEFINE new == [row[t] EXCEPT !.status = StatusOf(w)]
    <3>3. new \in Row /\ new.node = row[t].node /\ new.ports = row[t].ports
      BY <3>1, <3>2 DEF Row
    <3>4. new # NoRow
      BY <3>3, NoRowAssumption
    <3>5. row'[t] = new /\ \A u \in Servers \ {t} : row'[u] = row[u]
      BY <3>1, <3>2 DEF TypeOK
    <3>6. SameRows
      BY <2>3, <3>3, <3>4, <3>5 DEF SameRows, HostRow
    <3> QED
      BY <2>1, <3>6, Stuttering
  <2> QED
    BY <2>2, <2>3
<1> QED
  BY <1>1, <1>2, <1>3

\* Agents never touch the database, and a fault only ends creations.
LEMMA FaultRefines ==
  ASSUME TypeOK
  PROVE  /\ \A n \in Nodes : AgentStep(n) => UNCHANGED HP!hostVars
         /\ Fault => [HP!Next]_HP!hostVars
<1>1. ASSUME UNCHANGED apiVars PROVE UNCHANGED HP!hostVars
  BY <1>1, Stuttering DEF apiVars, SameCreations, SameRows, HostRow
<1>2. ASSUME NEW n \in Nodes, AgentStep(n) PROVE UNCHANGED HP!hostVars
  <2>1. UNCHANGED apiVars
    BY <1>2 DEF AgentStep, DockerStep
  <2> QED
    BY <1>1, <2>1
<1>3. ASSUME ApiRestart PROVE HP!Crash
  <2> DEFINE hc == [t \in Servers |-> HostCreation(create[t])]
  <2>1. [t \in Servers |-> HostRow(t)]' = [t \in Servers |-> HostRow(t)]
    BY <1>3 DEF ApiRestart, HostRow
  <2>2. \A s \in Servers :
          HostCreation(create'[s]) = IF hc[s].pc \in {"reading", "inserting"}
                                     THEN [hc[s] EXCEPT !.pc = "closed"] ELSE hc[s]
    <3> SUFFICES ASSUME NEW s \in Servers
                 PROVE  HostCreation(create'[s]) =
                          IF hc[s].pc \in {"reading", "inserting"}
                          THEN [hc[s] EXCEPT !.pc = "closed"] ELSE hc[s]
      OBVIOUS
    <3>1. create[s] \in Creation /\ hc[s] = HostCreation(create[s])
      BY DEF TypeOK
    <3>2. hc[s].pc = HostPhase(create[s].pc)
      BY DEF HostCreation
    <3>3. CASE create[s].pc \in Over \cup {"idle"}
      <4>1. create'[s] = create[s]
        BY <1>3, <3>3 DEF ApiRestart
      <4>2. hc[s].pc \notin {"reading", "inserting"}
        BY <3>2, <3>3 DEF HostPhase, Over
      <4> QED
        BY <3>1, <4>1, <4>2
    <3>4. CASE create[s].pc \notin Over \cup {"idle"}
      <4>1. create'[s] = [create[s] EXCEPT !.pc = "dead"]
        BY <1>3, <3>4 DEF ApiRestart
      <4>2. HostPhase("dead") = "closed"
        BY DEF HostPhase
      <4>3. HostCreation(create'[s]) = [HostCreation(create[s]) EXCEPT !.pc = "closed"]
        BY <3>1, <4>1, <4>2 DEF HostCreation, Creation
      <4>4. hc[s].pc \in {"reading", "inserting", "closed"}
        BY <3>2, <3>4 DEF HostPhase
      <4>5. hc[s].pc = "closed" => [HostCreation(create[s]) EXCEPT !.pc = "closed"] = hc[s]
        BY <3>1 DEF HostCreation
      <4> QED
        BY <3>1, <4>3, <4>4, <4>5
    <3> QED
      BY <3>3, <3>4
  <2>3. hc' = [s \in Servers |-> IF hc[s].pc \in {"reading", "inserting"}
                                 THEN [hc[s] EXCEPT !.pc = "closed"] ELSE hc[s]]
    BY <2>2
  <2> QED
    BY <2>1, <2>3 DEF HP!Crash
<1>4. ASSUME Fault PROVE [HP!Next]_HP!hostVars
  <2>1. ApiRestart \/ UNCHANGED apiVars
    BY <1>4 DEF Fault
  <2> QED
    BY <1>1, <1>3, <2>1 DEF HP!Next
<1> QED
  BY <1>2, <1>4

(***************************************************************************)
(* For any servers, callers, nodes, ranges and troubles: what the handlers *)
(* of ServersController, their timers, retries and crashes do to the table *)
(* of servers is what HostPorts allows, so ClashOnlyIfOverlapping, which   *)
(* CreationProofs proves of HostPorts, is true of them.                    *)
(***************************************************************************)
THEOREM RefinesPorts == Spec => RefinesHostPorts
<1>1. Init => HP!Init
  <2> SUFFICES ASSUME Init PROVE HP!Init
    OBVIOUS
  <2>1. [s \in Servers |-> HostRow(s)] = [s \in Servers |-> NoRow]
    BY DEF Init, HostRow
  <2>2. [s \in Servers |-> HostCreation(create[s])] \in
          [Servers -> [pc : {"idle"}, node : Nodes, need : Needs, ports : {{}}, saw : {{}}]]
    BY DEF Init, HostCreation, HostPhase
  <2> QED
    BY <2>1, <2>2 DEF HP!Init
<1>2. IInv /\ [Next]_vars => [HP!Next]_HP!hostVars
  <2> SUFFICES ASSUME IInv, [Next]_vars PROVE [HP!Next]_HP!hostVars
    OBVIOUS
  <2>1. TypeOK /\ Promises
    BY DEF IInv
  <2>2. CASE UNCHANGED vars
    BY <2>2, Stuttering DEF vars, SameCreations, SameRows, HostRow
  <2> QED
    BY <2>1, <2>2, CreateRefines, RequestRefines, ArrivalRefines, FaultRefines DEF Next
<1> QED
  BY <1>1, <1>2, Invariance, PTL DEF Spec, RefinesHostPorts, HP!Spec

-----------------------------------------------------------------------------
(***************************************************************************)
(* The invariant behind OrphansComeFromFailedCreates.  A container that    *)
(* Docker deleted stays deleted; a server whose createContainer was not    *)
(* sent yet has no container and nothing on the way that could make one.   *)
(***************************************************************************)
Early == {"idle", "reading", "inserting", "inserted"}
Others(s) == {m \in Command : m.verb # "create" \/ m.server # s}
Unsent(s) == /\ down \in [Nodes -> Seq(Others(s))]
             /\ \A n \in Nodes : \A j \in jobs[n] : j.cmd \in Others(s)
Fresh(s) == container[s].state = "none" /\ Unsent(s)
Removed(s) == container[s].state = "removed"

DeletedIsRemoved == \A m \in performed : m.verb = "delete" => Removed(m.server)
EarlyIsFresh == \A s \in Servers : create[s].pc \in Early => Fresh(s)
InsertedHasRow == \A s \in Servers : create[s].pc = "inserted" => row[s] # NoRow
RemovingDeletes == \A r \in Requests : request[r].pc = "removing" => request[r].verb = "delete"
RowlessIsExplained ==
  \A s \in Servers : row[s] = NoRow => create[s].pc = "failed" \/ Removed(s) \/ Fresh(s)

Books == /\ DeletedIsRemoved /\ EarlyIsFresh /\ InsertedHasRow /\ RemovingDeletes
         /\ RowlessIsExplained

\* What is sent without being a create leaves the others unsent.
LEMMA TransmitOthers ==
  ASSUME NEW s, down \in [Nodes -> Seq(Others(s))], NEW m \in Others(s), Transmit(m),
         create \in [Servers -> Creation]
  PROVE  down' \in [Nodes -> Seq(Others(s))]
<1> DEFINE n == NodeOf(m.server)
<1>1. n \in Nodes
  BY DEF NodeOf, Others, Command, Creation
<1>2. Append(down[n], m) \in Seq(Others(s))
  BY <1>1
<1> HIDE DEF n
<1>3. [down EXCEPT ![n] = Append(@, m)] \in [Nodes -> Seq(Others(s))]
  BY <1>1, <1>2
<1> QED
  BY <1>3 DEF Transmit, n

\* Settling a promise moves on a creation that waits for it, and sends no create.
LEMMA SettledSends ==
  ASSUME TypeOK, Promises, NEW m \in pending, NEW ok \in BOOLEAN, Settle(m, ok)
  PROVE  /\ \A s \in Servers : down \in [Nodes -> Seq(Others(s))] =>
                                 down' \in [Nodes -> Seq(Others(s))]
         /\ \A s \in Servers : \/ create'[s].pc = create[s].pc
                               \/ create[s].pc \notin Early \cup {"failed"} /\ create'[s].pc \notin Early
         /\ RemovingDeletes => RemovingDeletes'
<1>1. CASE m.by \in Servers
  <2> DEFINE t == m.by
             next == Continuation(t, m.verb, ok)
  <2>1. create' = [create EXCEPT ![t].pc = next.pc] /\ request' = request /\ Proceed(t, next)
    BY <1>1 DEF Settle, Proceed
  <2>2. m.verb \in Verbs /\ create \in [Servers -> Creation] /\ t \in Servers
    BY <1>1 DEF TypeOK, Command
  <2>3. next.sends = {} \/ \E v \in Verbs \ {"create"} : next.sends = {CreateCommand(t, v)}
    BY <2>2 DEF Continuation, AfterFailure, Verbs
  <2>4. m.verb = "stream" \/ m \in AwaitedBy(t)
    BY <1>1 DEF Promises, OwnPromises
  <2>5. m.verb = "stream" => next.pc = create[t].pc
    BY DEF Continuation
  <2>6. m.verb # "stream" => /\ create[t].pc \in {"creating", "starting", "cleaning"}
                             /\ next.pc \in {"starting", "succeeded", "removing", "cleaning"}
    BY <2>2, <2>4 DEF Continuation, AfterFailure, Verbs, AwaitedBy
  <2>7. ASSUME NEW s \in Servers, down \in [Nodes -> Seq(Others(s))]
        PROVE  down' \in [Nodes -> Seq(Others(s))]
    <3>1. CASE next.sends = {}
      BY <2>1, <2>7, <3>1 DEF Proceed
    <3>2. CASE next.sends # {}
      <4>1. PICK v \in Verbs \ {"create"} : next.sends = {CreateCommand(t, v)}
        BY <2>3, <3>2
      <4>2. Transmit(CreateCommand(t, v))
        BY <2>1, <4>1 DEF Proceed
      <4>3. CreateCommand(t, v) \in Others(s)
        BY <2>2, <4>1, CommandTypes DEF Others, CreateCommand, Command_
      <4> QED
        BY <2>2, <2>7, <4>2, <4>3, TransmitOthers
    <3> QED
      BY <3>1, <3>2
  <2>8. \A s \in Servers : create'[s].pc = IF s = t THEN next.pc ELSE create[s].pc
    BY <2>1, <2>2 DEF Creation
  <2> QED
    BY <2>1, <2>5, <2>6, <2>7, <2>8 DEF Early, RemovingDeletes
<1>2. CASE m.by \notin Servers
  <2> DEFINE r == m.by
  <2>1. ProceedRequest(r, ok) /\ create' = create /\ down' = down
    BY <1>2 DEF Settle
  <2>2. RemovingDeletes => RemovingDeletes'
    BY <2>1 DEF ProceedRequest, RemovingDeletes, TypeOK, Request
  <2> QED
    BY <2>1, <2>2
<1> QED
  BY <1>1, <1>2

\* A step that leaves Docker, the agents and what is sent to them alone.
LEMMA FreshStays ==
  ASSUME NEW s \in Servers, UNCHANGED <<down, jobs, container>>
  PROVE  Fresh(s)' = Fresh(s) /\ Removed(s)' = Removed(s)
BY DEF Fresh, Unsent, Removed

\* A creation sends its own create only.
LEMMA OthersSend ==
  ASSUME TypeOK, NEW s \in Servers, NEW t \in Servers, t # s, Fresh(t), SendCreate(s)
  PROVE  Fresh(t)'
<1> DEFINE next == IF Connected(s)
                   THEN [pc |-> "creating", sends |-> {CreateCommand(s, "create")}]
                   ELSE AfterFailure(s)
<1>1. Proceed(s, next) /\ UNCHANGED <<jobs, container>>
  BY DEF SendCreate, agentVars
<1>2. next.sends = {} \/ \E v \in Verbs : next.sends = {CreateCommand(s, v)}
  BY DEF AfterFailure, Verbs
<1>3. CASE next.sends = {}
  BY <1>1, <1>3 DEF Proceed, Fresh, Unsent
<1>4. CASE next.sends # {}
  <2>1. PICK v \in Verbs : next.sends = {CreateCommand(s, v)}
    BY <1>2, <1>4
  <2>2. Transmit(CreateCommand(s, v))
    BY <1>1, <2>1 DEF Proceed
  <2>3. CreateCommand(s, v) \in Others(t)
    BY <2>1, CommandTypes DEF Others, CreateCommand, Command_
  <2>4. down' \in [Nodes -> Seq(Others(t))]
    BY <2>2, <2>3, TransmitOthers DEF Fresh, Unsent, TypeOK
  <2> QED
    BY <1>1, <2>4 DEF Fresh, Unsent
<1> QED
  BY <1>3, <1>4

\* No call of a user sends a create.
LEMMA RequestFresh ==
  ASSUME TypeOK, NEW r \in Requests, RequestStep(r), NEW s \in Servers, Fresh(s)
  PROVE  Fresh(s)'
<1>1. UNCHANGED <<jobs, container>>
  BY DEF RequestStep, LoadRow, SendRequest, ReloadRow, RemoveRow, agentVars
<1>2. CASE down' = down
  BY <1>1, <1>2, FreshStays
<1>3. CASE down' # down
  <2>1. SendRequest(r) /\ Transmit(UserCommand(r))
    BY <1>3 DEF RequestStep, LoadRow, SendRequest, ReloadRow, RemoveRow, wireVars
  <2>2. UserCommand(r) \in Others(s)
    BY CommandTypes DEF Others, UserCommand, Command_, TypeOK, Request, UserVerbs
  <2>3. down' \in [Nodes -> Seq(Others(s))]
    BY <2>1, <2>2, TransmitOthers DEF TypeOK, Fresh, Unsent
  <2> QED
    BY <1>1, <2>3 DEF Fresh, Unsent
<1> QED
  BY <1>2, <1>3

LEMMA InitBooks == Init => Books
<1> SUFFICES ASSUME Init PROVE Books
  OBVIOUS
<1>1. \A s \in Servers : Fresh(s) /\ create[s].pc = "idle"
  BY DEF Init, AgentInit, Fresh, Unsent
<1>2. \A r \in Requests : request[r].pc = "idle"
  BY DEF Init
<1>3. performed = {}
  BY DEF Init, AgentInit
<1> QED
  BY <1>1, <1>2, <1>3 DEF Books, DeletedIsRemoved, EarlyIsFresh, InsertedHasRow,
     RemovingDeletes, RowlessIsExplained

LEMMA CreateBooks ==
  ASSUME TypeOK, Books, NEW s \in Servers, CreateStep(s)
  PROVE  Books'
<1>1. /\ UNCHANGED <<jobs, container, performed, request>>
      /\ SendCreate(s) \/ down' = down
  BY DEF CreateStep, BeginCreate, PickPorts, RangeExhausted, InsertRow, SendCreate,
         RemoveFailed, wireVars, agentVars
<1>2. \A t \in Servers : t # s => create'[t] = create[t] /\ row'[t] = row[t]
  BY DEF CreateStep, BeginCreate, PickPorts, RangeExhausted, InsertRow, SendCreate,
         RemoveFailed, Proceed, TypeOK
<1>3. DeletedIsRemoved' /\ RemovingDeletes'
  BY <1>1 DEF Books, DeletedIsRemoved, Removed, RemovingDeletes
<1>4. \A t \in Servers : Removed(t)' = Removed(t)
  BY <1>1 DEF Removed
<1>5. create[s] \in Creation /\ create \in [Servers -> Creation]
  BY DEF TypeOK
<1>6. CASE SendCreate(s)
  <2> DEFINE next == IF Connected(s)
                     THEN [pc |-> "creating", sends |-> {CreateCommand(s, "create")}]
                     ELSE AfterFailure(s)
  <2>1. create[s].pc = "inserted" /\ row' = row /\ Proceed(s, next) /\ row[s] # NoRow
    BY <1>6 DEF SendCreate, Books, InsertedHasRow
  <2>2. next.pc \notin Early /\ create'[s].pc = next.pc
    BY <1>5, <2>1 DEF Proceed, AfterFailure, Early
  <2>3. ASSUME NEW t \in Servers, t # s, Fresh(t) PROVE Fresh(t)'
    BY <1>6, <2>3, OthersSend
  <2> QED
    BY <1>2, <1>3, <1>4, <2>1, <2>2, <2>3 DEF Books, EarlyIsFresh, InsertedHasRow,
       RowlessIsExplained, Early
<1>7. CASE ~SendCreate(s)
  <2>1. \A t \in Servers : Fresh(t)' = Fresh(t)
    BY <1>1, <1>7, FreshStays
  <2>2. /\ BeginCreate(s) => create[s].pc = "idle" /\ create'[s].pc \in {"reading", "failed"}
        /\ PickPorts(s) => create[s].pc = "reading" /\ create'[s].pc = "inserting"
        /\ RangeExhausted(s) => create[s].pc = "reading" /\ create'[s].pc = "failed"
        /\ InsertRow(s) => create[s].pc = "inserting" /\ create'[s].pc = "inserted"
        /\ RemoveFailed(s) => create'[s].pc = "failed"
    <3>1. BeginCreate(s) => create[s].pc = "idle" /\ create'[s].pc \in {"reading", "failed"}
      BY <1>5 DEF BeginCreate
    <3>2. PickPorts(s) => create[s].pc = "reading" /\ create'[s].pc = "inserting"
      BY <1>5 DEF PickPorts
    <3>3. RangeExhausted(s) => create[s].pc = "reading" /\ create'[s].pc = "failed"
      BY <1>5 DEF RangeExhausted
    <3>4. InsertRow(s) => create[s].pc = "inserting" /\ create'[s].pc = "inserted"
      BY <1>5 DEF InsertRow
    <3>5. RemoveFailed(s) => create'[s].pc = "failed"
      BY <1>5 DEF RemoveFailed
    <3> QED
      BY <3>1, <3>2, <3>3, <3>4, <3>5
  <2>5. create'[s].pc \in Early => create[s].pc \in Early
    BY <1>7, <2>2 DEF CreateStep, Early
  <2>3. create'[s].pc = "inserted" => row'[s] # NoRow
    <3>1. CASE InsertRow(s)
      <4> DEFINE new == [node |-> NodeOf(s), ports |-> create[s].ports, status |-> "creating"]
      <4>1. new \in Row
        BY <1>5 DEF Creation, Row, Statuses, NodeOf
      <4>2. row'[s] = new
        BY <3>1 DEF InsertRow, TypeOK
      <4> QED
        BY <4>1, <4>2, NoRowAssumption
    <3>2. CASE ~InsertRow(s)
      <4>1. create'[s].pc # "inserted"
        BY <1>7, <2>2, <3>2 DEF CreateStep
      <4> QED
        BY <4>1
    <3> QED
      BY <3>1, <3>2
  <2>4. row'[s] = NoRow => create'[s].pc = "failed" \/ Fresh(s) \/ Removed(s)
    <3>1. CASE RemoveFailed(s)
      BY <1>5, <3>1 DEF RemoveFailed
    <3>2. CASE ~RemoveFailed(s)
      <4>1. create[s].pc \in Early
        BY <1>7, <2>2, <3>2 DEF CreateStep, Early
      <4> QED
        BY <4>1 DEF Books, EarlyIsFresh
    <3> QED
      BY <3>1, <3>2
  <2> QED
    BY <1>2, <1>3, <1>4, <2>1, <2>3, <2>4, <2>5 DEF Books, EarlyIsFresh, InsertedHasRow,
       RowlessIsExplained
<1> QED
  BY <1>6, <1>7

LEMMA RequestBooks ==
  ASSUME TypeOK, NoFalseSuccess, Books, NEW r \in Requests, RequestStep(r)
  PROVE  Books'
<1>1. UNCHANGED <<jobs, container, performed, create>>
  BY DEF RequestStep, LoadRow, SendRequest, ReloadRow, RemoveRow, agentVars
<1>2. request[r] \in Request /\ request \in [Requests -> Request]
  BY DEF TypeOK
<1>3. RemovingDeletes'
  <2>1. LoadRow(r) => request' = [request EXCEPT ![r].pc = IF Found(r) THEN "loaded" ELSE "failed"]
    BY DEF LoadRow
  <2>2. SendRequest(r) => \E pc \in {"waiting", "failed"} : request' = [request EXCEPT ![r].pc = pc]
    BY DEF SendRequest
  <2>3. ReloadRow(r) \/ RemoveRow(r) =>
          request' = [request EXCEPT ![r].pc = IF Found(r) THEN "succeeded" ELSE "failed"]
    BY DEF ReloadRow, RemoveRow
  <2>4. \E pc \in {"loaded", "waiting", "succeeded", "failed"} :
          request' = [request EXCEPT ![r].pc = pc]
    BY <2>1, <2>2, <2>3 DEF RequestStep
  <2> QED
    BY <1>2, <2>4 DEF Books, RemovingDeletes
<1>4. DeletedIsRemoved' /\ \A s \in Servers : Removed(s)' = Removed(s)
  BY <1>1 DEF Books, DeletedIsRemoved, Removed
<1>5. ASSUME NEW s \in Servers, Fresh(s) PROVE Fresh(s)'
  BY <1>5, RequestFresh
<1>6. CASE RemoveRow(r)
  <2> DEFINE s == request[r].server
  <2>1. s \in Servers /\ row' = [row EXCEPT ![s] = NoRow]
    BY <1>2, <1>6 DEF RemoveRow, Request
  <2>2. UserCommand(r) \in performed /\ UserCommand(r).verb = "delete" /\ UserCommand(r).server = s
    BY <1>6 DEF RemoveRow, NoFalseSuccess, Books, RemovingDeletes, UserCommand, Command_
  <2>3. Removed(s)
    BY <2>2 DEF Books, DeletedIsRemoved
  <2>4. create[s].pc # "inserted"
    BY <2>1, <2>3 DEF Books, EarlyIsFresh, Early, Fresh, Removed
  <2>5. \A t \in Servers \ {s} : row'[t] = row[t]
    BY <2>1 DEF TypeOK
  <2> QED
    BY <1>1, <1>3, <1>4, <1>5, <2>1, <2>3, <2>4, <2>5
       DEF Books, EarlyIsFresh, InsertedHasRow, RowlessIsExplained
<1>7. CASE ~RemoveRow(r)
  <2>1. row' = row
    BY <1>7 DEF RequestStep, LoadRow, SendRequest, ReloadRow
  <2> QED
    BY <1>1, <1>3, <1>4, <1>5, <2>1 DEF Books, EarlyIsFresh, InsertedHasRow, RowlessIsExplained
<1> QED
  BY <1>6, <1>7

\* What follows a promise that is settled.
LEMMA SettledBooks ==
  ASSUME TypeOK, Promises, Books, NEW m \in pending, NEW ok \in BOOLEAN, Settle(m, ok),
         UNCHANGED <<jobs, container, performed, row>>
  PROVE  Books'
<1>1. DeletedIsRemoved' /\ \A s \in Servers : Removed(s)' = Removed(s)
  BY DEF Books, DeletedIsRemoved, Removed
<1>2. \A s \in Servers : Fresh(s) => Fresh(s)'
  BY SettledSends DEF Fresh, Unsent
<1>3. \A s \in Servers : /\ create'[s].pc \in Early => create'[s].pc = create[s].pc
                         /\ create[s].pc = "failed" => create'[s].pc = "failed"
  BY SettledSends
<1>4. RemovingDeletes'
  BY SettledSends DEF Books
<1> QED
  BY <1>1, <1>2, <1>3, <1>4
     DEF Books, EarlyIsFresh, InsertedHasRow, RowlessIsExplained, Early

LEMMA ArrivalBooks ==
  ASSUME TypeOK, Promises, Books
  PROVE  /\ \A n \in Nodes : ReceiveReport(n) => Books'
         /\ \A m \in pending : Timeout(m) => Books'
         /\ \A w \in writes : ApplyStatus(w) => Books'
<1>1. ASSUME UNCHANGED <<create, request, row, down, jobs, container, performed>> PROVE Books'
  BY <1>1, FreshStays DEF Books, EarlyIsFresh, InsertedHasRow, RowlessIsExplained,
     DeletedIsRemoved, RemovingDeletes, Removed
<1>2. ASSUME NEW n \in Nodes, ReceiveReport(n) PROVE Books'
  <2>1. UNCHANGED <<jobs, container, performed, row>>
    BY <1>2 DEF ReceiveReport, agentVars
  <2>2. \/ \E m \in pending, ok \in BOOLEAN : Settle(m, ok)
        \/ UNCHANGED <<create, request, down>>
    BY <1>2 DEF ReceiveReport
  <2> QED
    BY <1>1, <2>1, <2>2, SettledBooks
<1>3. ASSUME NEW m \in pending, Timeout(m) PROVE Books'
  <2>1. Settle(m, FALSE) /\ UNCHANGED <<jobs, container, performed, row>>
    BY <1>3 DEF Timeout, agentVars
  <2> QED
    BY <2>1, SettledBooks
<1>4. ASSUME NEW w \in writes, ApplyStatus(w) PROVE Books'
  <2> DEFINE t == w.cmd.server
  <2>1. UNCHANGED <<create, request, down, jobs, container, performed>>
    BY <1>4 DEF ApplyStatus, wireVars, agentVars
  <2>2. \A s \in Servers : row'[s] = NoRow <=> row[s] = NoRow
    <3>1. t \in Servers /\ StatusOf(w) \in Statuses
      BY StatusTypes DEF TypeOK, StatusReport, Command
    <3>2. row[t] # NoRow => row[t] \in Row
      BY <3>1 DEF TypeOK
    <3>3. row[t] # NoRow => [row[t] EXCEPT !.status = StatusOf(w)] \in Row
      BY <3>1, <3>2 DEF Row
    <3>4. row[t] # NoRow => row'[t] # NoRow
      <4>1. row[t] # NoRow => row'[t] = [row[t] EXCEPT !.status = StatusOf(w)]
        BY <1>4, <3>1 DEF ApplyStatus, TypeOK
      <4> QED
        BY <3>3, <4>1, NoRowAssumption
    <3>5. \A s \in Servers \ {t} : row'[s] = row[s]
      BY <1>4 DEF ApplyStatus, TypeOK
    <3>6. row[t] = NoRow => row' = row
      BY <1>4 DEF ApplyStatus
    <3> QED
      BY <3>4, <3>5, <3>6
  <2> QED
    BY <2>1, <2>2, FreshStays DEF Books, EarlyIsFresh, InsertedHasRow, RowlessIsExplained,
       DeletedIsRemoved, RemovingDeletes, Removed
<1> QED
  BY <1>2, <1>3, <1>4

\* A container leaves "none" for a create command only, and "removed" never.
LEMMA DockerBooks ==
  ASSUME TypeOK, Books, NEW n \in Nodes, NEW j \in jobs[n], DockerStep(n, j.cmd)
  PROVE  Books'
<1> DEFINE m == j.cmd
           t == m.server
<1>1. m \in Command /\ t \in Servers /\ m.verb \in Verbs
  BY DEF TypeOK, AgentTypeOK, Job, Command
<1>2. UNCHANGED <<create, request, row, down>>
  BY DockerSteps DEF apiVars, wireVars
<1>3. \A k \in Nodes : \A i \in jobs'[k] : i \in jobs[k] \/ i.cmd = m
  BY DockerSteps
<1>4. \A u \in Servers : Unsent(u) => Unsent(u)' /\ m \in Others(u)
  BY <1>2, <1>3 DEF Unsent
<1>5. container \in [Servers -> Container]
  BY DEF TypeOK, AgentTypeOK
<1>6. CASE UNCHANGED <<container, performed>>
  <2> QED
    BY <1>2, <1>4, <1>6 DEF Books, DeletedIsRemoved, EarlyIsFresh, InsertedHasRow,
       RemovingDeletes, RowlessIsExplained, Fresh, Removed
<1>7. CASE FallOver(m)
  <2>1. /\ performed' = performed /\ container[t].state = "running"
        /\ container' = [container EXCEPT ![t].state = "exited"]
    BY <1>7 DEF FallOver
  <2>2. \A u \in Servers : /\ container[u].state = "none" => container'[u].state = "none"
                           /\ Removed(u) => Removed(u)'
    BY <1>5, <2>1 DEF Removed
  <2>3. \A q \in performed : q.server \in Servers
    BY DEF TypeOK, AgentTypeOK, Command
  <2> QED
    BY <1>2, <1>4, <2>1, <2>2, <2>3 DEF Books, DeletedIsRemoved, EarlyIsFresh, InsertedHasRow,
       RemovingDeletes, RowlessIsExplained, Fresh
<1>8. CASE Perform(m, create[t].ports, Neighbours(n))
  <2>1. PICK move \in Moves[m.verb] :
          /\ move[1] = container[t].state
          /\ container' = [container EXCEPT ![t] =
               [state |-> move[2],
                ports |-> IF m.verb = "create" THEN create[t].ports ELSE @.ports]]
    BY <1>8 DEF Perform
  <2>2. performed' = performed \cup {m}
    BY <1>8 DEF Perform
  <2>3. /\ move[1] # "removed"
        /\ m.verb = "delete" => move[2] = "removed"
        /\ m.verb # "create" => move[1] # "none"
    BY <1>1 DEF Moves, Verbs, Alive
  <2>4. /\ container'[t].state = move[2]
        /\ \A u \in Servers \ {t} : container'[u] = container[u]
    BY <1>1, <1>5, <2>1
  <2>5. \A u \in Servers : Removed(u) => Removed(u)'
    BY <2>1, <2>3, <2>4 DEF Removed
  <2>6. \A u \in Servers : Fresh(u) => Fresh(u)'
    <3> SUFFICES ASSUME NEW u \in Servers, Fresh(u) PROVE Fresh(u)'
      OBVIOUS
    <3>1. m.verb # "create" \/ t # u
      BY <1>4 DEF Fresh, Others
    <3>2. container'[u].state = "none"
      BY <2>1, <2>3, <2>4, <3>1 DEF Fresh
    <3> QED
      BY <1>4, <3>2 DEF Fresh
  <2>7. m.verb = "delete" => Removed(t)'
    BY <2>3, <2>4 DEF Removed
  <2>8. \A q \in performed : q.server \in Servers
    BY DEF TypeOK, AgentTypeOK, Command
  <2> QED
    BY <1>2, <2>2, <2>5, <2>6, <2>7, <2>8 DEF Books, DeletedIsRemoved, EarlyIsFresh,
       InsertedHasRow, RemovingDeletes, RowlessIsExplained
<1> QED
  BY <1>6, <1>7, <1>8, DockerSteps

\* What an agent does besides calling Docker leaves no create command behind
\* that was not there.
LEMMA AgentFresh ==
  ASSUME TypeOK, NEW n \in Nodes, AgentStep(n), ~\E j \in jobs[n] : DockerStep(n, j.cmd)
  PROVE  /\ UNCHANGED <<apiVars, container, performed>>
         /\ \A s \in Servers : Fresh(s) => Fresh(s)'
<1>1. CASE ReceiveCommand(n) /\ UNCHANGED <<apiVars, faults>>
  <2>1. UNCHANGED <<apiVars, container, performed>>
    BY <1>1 DEF ReceiveCommand
  <2>2. ASSUME NEW s \in Servers, Unsent(s) PROVE Unsent(s)'
    <3> DEFINE m == Head(down[n])
    <3>1. /\ down[n] \in Seq(Others(s)) /\ down[n] # <<>>
          /\ down' = [down EXCEPT ![n] = Tail(@)]
          /\ jobs' = [jobs EXCEPT ![n] = @ \cup {[cmd |-> m, step |-> "running"]}]
      BY <1>1, <2>2 DEF ReceiveCommand, Unsent
    <3>2. m \in Others(s) /\ Tail(down[n]) \in Seq(Others(s))
      BY <3>1
    <3>3. down' \in [Nodes -> Seq(Others(s))]
      BY <2>2, <3>1, <3>2 DEF Unsent
    <3>4. \A k \in Nodes : \A j \in jobs'[k] : j.cmd \in Others(s)
      <4> SUFFICES ASSUME NEW k \in Nodes, NEW j \in jobs'[k] PROVE j.cmd \in Others(s)
        OBVIOUS
      <4>1. j \in jobs[k] \/ j = [cmd |-> m, step |-> "running"]
        BY <3>1 DEF TypeOK, AgentTypeOK
      <4> QED
        BY <2>2, <3>2, <4>1 DEF Unsent
    <3> QED
      BY <3>3, <3>4 DEF Unsent
  <2> QED
    BY <2>1, <2>2 DEF Fresh
<1>2. CASE (Redial(n) \/ Handshake(n)) /\ UNCHANGED <<apiVars, faults>>
  <2>1. UNCHANGED <<apiVars, container, performed, down, jobs>>
    BY <1>2 DEF Redial, Handshake, agentVars, wireVars
  <2> QED
    BY <2>1, FreshStays
<1>3. CASE \E j \in jobs[n] : Finish(n, j) /\ UNCHANGED <<apiVars, faults>>
  <2>1. PICK j \in jobs[n] : Finish(n, j) /\ UNCHANGED apiVars
    BY <1>3
  <2>2. UNCHANGED <<apiVars, container, performed, down>>
    BY <2>1 DEF Finish
  <2>3. \A k \in Nodes : jobs'[k] \subseteq jobs[k]
    BY <2>1 DEF Finish, TypeOK, AgentTypeOK
  <2> QED
    BY <2>2, <2>3 DEF Unsent, Fresh
<1> QED
  BY <1>1, <1>2, <1>3 DEF AgentStep

LEMMA AgentBooks ==
  ASSUME TypeOK, Books, NEW n \in Nodes, AgentStep(n)
  PROVE  Books'
<1>1. CASE \E j \in jobs[n] : DockerStep(n, j.cmd)
  BY <1>1, DockerBooks
<1>2. CASE ~\E j \in jobs[n] : DockerStep(n, j.cmd)
  <2>1. UNCHANGED <<create, request, row, container, performed>>
    BY <1>2, AgentFresh DEF apiVars
  <2>2. \A s \in Servers : Fresh(s) => Fresh(s)'
    BY <1>2, AgentFresh
  <2> QED
    BY <2>1, <2>2 DEF Books, EarlyIsFresh, InsertedHasRow, RowlessIsExplained, DeletedIsRemoved,
       RemovingDeletes, Removed
<1> QED
  BY <1>1, <1>2

LEMMA FaultBooks ==
  ASSUME TypeOK, Books, Fault
  PROVE  Books'
<1>1. UNCHANGED <<row, container, performed>>
  BY DEF Fault, ApiRestart, Disconnect, AgentRestart, LateRegister, agentVars, apiVars
<1>2. \A s \in Servers : Unsent(s) => Unsent(s)'
  <2> SUFFICES ASSUME NEW s \in Servers, Unsent(s) PROVE Unsent(s)'
    OBVIOUS
  <2>1. CASE ApiRestart
    <3>1. jobs' = jobs /\ down' = [n \in Nodes |-> <<>>]
      BY <2>1 DEF ApiRestart, agentVars
    <3> QED
      BY <3>1 DEF Unsent
  <2>2. CASE \E n \in Nodes : Disconnect(n) \/ AgentRestart(n)
    <3>1. PICK n \in Nodes : down' = [down EXCEPT ![n] = <<>>]
      BY <2>2 DEF Disconnect, AgentRestart
    <3> DEFINE Q == Seq(Others(s))
    <3>4. <<>> \in Q /\ down \in [Nodes -> Q]
      BY DEF Unsent
    <3>5. [down EXCEPT ![n] = <<>>] \in [Nodes -> Q]
      BY <3>4, EmptiedQueues
    <3> HIDE DEF Q
    <3>2. down' \in [Nodes -> Q]
      BY <3>1, <3>5
    <3>3. \A k \in Nodes : \A i \in jobs'[k] : \E j \in jobs[k] : i.cmd = j.cmd
      BY FaultJobs
    <3> QED
      BY <3>2, <3>3 DEF Unsent, Q
  <2>3. CASE \E n \in Nodes : LateRegister(n)
    BY <2>3 DEF LateRegister, wireVars, agentVars, Unsent
  <2> QED
    BY <2>1, <2>2, <2>3 DEF Fault
<1>3. /\ \A s \in Servers : /\ create'[s].pc \in Early => create'[s].pc = create[s].pc
                            /\ create[s].pc = "failed" => create'[s].pc = "failed"
                            /\ create'[s].pc # "inserted" \/ create[s].pc = "inserted"
      /\ RemovingDeletes'
  <2>1. CASE ApiRestart
    <3>1. \A s \in Servers : create'[s] = IF create[s].pc \in Over \cup {"idle"} THEN create[s]
                                          ELSE [create[s] EXCEPT !.pc = "dead"]
      BY <2>1 DEF ApiRestart
    <3>2. \A s \in Servers : create'[s].pc = IF create[s].pc \in Over \cup {"idle"}
                                             THEN create[s].pc ELSE "dead"
      <4> SUFFICES ASSUME NEW s \in Servers
                   PROVE  create'[s].pc = IF create[s].pc \in Over \cup {"idle"}
                                          THEN create[s].pc ELSE "dead"
        OBVIOUS
      <4>1. create[s] \in Creation
        BY DEF TypeOK
      <4>2. [create[s] EXCEPT !.pc = "dead"].pc = "dead"
        BY <4>1 DEF Creation
      <4> QED
        BY <3>1, <4>2
    <3>3. \A r \in Requests : request'[r] = IF request[r].pc \in Over \cup {"idle"} THEN request[r]
                                            ELSE [request[r] EXCEPT !.pc = "dead"]
      BY <2>1 DEF ApiRestart
    <3>4. \A r \in Requests : request'[r].pc # "removing"
      BY <3>3 DEF TypeOK, Request, Over
    <3> QED
      BY <3>2, <3>4 DEF RemovingDeletes, Early, Over
  <2>2. CASE UNCHANGED apiVars
    BY <2>2 DEF apiVars, Books, RemovingDeletes
  <2> QED
    BY <2>1, <2>2 DEF Fault
<1>4. DeletedIsRemoved' /\ \A s \in Servers : Removed(s)' = Removed(s)
  BY <1>1 DEF Books, DeletedIsRemoved, Removed
<1>5. ASSUME NEW s \in Servers, Fresh(s) PROVE Fresh(s)'
  BY <1>1, <1>2, <1>5 DEF Fresh
<1>6. EarlyIsFresh'
  BY <1>3, <1>5 DEF Books, EarlyIsFresh
<1>7. InsertedHasRow' /\ RowlessIsExplained'
  BY <1>1, <1>3, <1>4, <1>5 DEF Books, InsertedHasRow, RowlessIsExplained, Removed
<1> QED
  BY <1>3, <1>4, <1>6, <1>7 DEF Books

LEMMA StepBooks ==
  ASSUME TypeOK, Promises, Books, [Next]_vars
  PROVE  Books'
<1>1. NoFalseSuccess
  BY DEF Promises
<1>2. CASE UNCHANGED vars
  BY <1>2, FreshStays DEF vars, Books, EarlyIsFresh, InsertedHasRow, RowlessIsExplained,
     DeletedIsRemoved, RemovingDeletes, Removed
<1> QED
  BY <1>1, <1>2, CreateBooks, RequestBooks, ArrivalBooks, AgentBooks, FaultBooks DEF Next

(***************************************************************************)
(* For any servers, callers, nodes and troubles: a container that Docker   *)
(* has and the table has not is what the error path of its own             *)
(* POST /servers left behind; no DELETE, crash or late answer does that.   *)
(***************************************************************************)
THEOREM OrphansAreExplained == Spec => []OrphansComeFromFailedCreates
<1>1. IInv /\ Books /\ [Next]_vars => Books'
  BY StepBooks DEF IInv
<1>2. Books => OrphansComeFromFailedCreates
  BY DEF Books, RowlessIsExplained, OrphansComeFromFailedCreates, Alive, Removed, Fresh
<1> QED
  BY <1>1, <1>2, InitBooks, Invariance, PTL DEF Spec

-----------------------------------------------------------------------------
(***************************************************************************)
(* The invariant behind RowHasContainer.  A command that was sent, or that *)
(* Docker carried out, belongs to a caller that has come far enough to     *)
(* send it; a creation only sends delete when it has failed.               *)
(***************************************************************************)
GivenUp == {"cleaning", "removing", "failed", "dead"}

Sendable ==
  {m \in Command :
     \/ m.by \in Requests /\ m = UserCommand(m.by) /\ request[m.by].pc \notin {"idle", "loaded"}
     \/ m.by \in Servers /\ m.server = m.by /\ (m.verb = "delete" => create[m.by].pc \in GivenUp)}

SentIsSendable ==
  /\ down \in [Nodes -> Seq(Sendable)]
  /\ \A n \in Nodes : \A j \in jobs[n] : j.cmd \in Sendable
  /\ performed \subseteq Sendable
  /\ pending \subseteq Sendable

CreatedIsThere == \A m \in performed : m.verb = "create" => container[m.server].state # "none"

RemovedWasDeleted ==
  \A s \in Servers : Removed(s) => \E m \in performed : m.verb = "delete" /\ m.server = s

\* A server is known to its owner once its row was stored, and that row is
\* what a successful DELETE removes.
LoadedIsIssued == \A r \in Requests : request[r].pc # "idle" => Issued(request[r].server)

DeletedHasNoRow ==
  \A r \in Requests : request[r].verb = "delete" =>
    /\ request[r].pc # "reloading"
    /\ request[r].pc = "succeeded" => row[request[r].server] = NoRow

Trail == /\ SentIsSendable /\ CreatedIsThere /\ RemovedWasDeleted
         /\ LoadedIsIssued /\ DeletedHasNoRow

(***************************************************************************)
(* While nothing goes wrong, a command of a user is in one place: on its   *)
(* way, being run, or answered, and an error means that Docker did nothing.*)
(***************************************************************************)
OnItsWay(m) == \E n \in Nodes : \E i \in DOMAIN down[n] : down[n][i] = m

Underway(m) == OnItsWay(m) \/ \E n \in Nodes : Running(n, m)

Answers ==
  {a \in Report : a.kind \in {"ack", "error"} /\ a.cmd.by \in Requests =>
     /\ a.cmd \in Sendable /\ ~Underway(a.cmd)
     /\ a.kind = "error" => a.cmd \notin performed}

AnswersAreLast == up \in [Nodes -> Seq(Answers)] /\ outbox \in [Nodes -> Seq(Answers)]

SentOnce ==
  \A n \in Nodes : \A i \in DOMAIN down[n] :
    /\ NodeOf(down[n][i].server) = n
    /\ down[n][i].by \in Requests => \A j \in DOMAIN down[n] : down[n][j] = down[n][i] => j = i

RunOnce ==
  \A n \in Nodes : \A j \in jobs[n] : j.cmd.by \in Requests =>
    /\ NodeOf(j.cmd.server) = n
    /\ ~OnItsWay(j.cmd)
    /\ j.step # "running" => \A k \in Nodes : ~Running(k, j.cmd)
    /\ j.step = "refused" => j.cmd \notin performed

UnderwayIsAwaited ==
  \A m \in Command : m.by \in Requests /\ Underway(m) =>
    m \notin performed /\ request[m.by].pc = "waiting"

FailureIsTrue ==
  \A r \in Requests :
    /\ request[r].verb = "delete" /\ request[r].pc \in {"failed", "dead"}
    /\ UserCommand(r) \in performed
    => row[request[r].server] = NoRow

Wire == AnswersAreLast /\ SentOnce /\ RunOnce /\ UnderwayIsAwaited

Calm == Wire /\ FailureIsTrue

\* Nobody steps back: what a caller was, and how far it had come.
Progress ==
  /\ \A s \in Servers : /\ create'[s].node = create[s].node
                        /\ Issued(s) => Issued(s)'
                        /\ create[s].pc \in GivenUp => create'[s].pc \in GivenUp
                        /\ row[s] = NoRow /\ Issued(s) => row'[s] = NoRow
  /\ \A r \in Requests : /\ request'[r].verb = request[r].verb
                         /\ request'[r].server = request[r].server
                         /\ request[r].pc \notin {"idle", "loaded"} =>
                              request'[r].pc \notin {"idle", "loaded"}
                         /\ request[r].pc = "idle" /\ request'[r].pc # "idle" =>
                              Issued(request[r].server)

LEMMA SettledProgress ==
  ASSUME TypeOK, Promises, pending \subseteq Sendable, NEW m \in pending, NEW ok \in BOOLEAN,
         Settle(m, ok), row' = row
  PROVE  Progress
<1>1. CASE m.by \in Servers
  <2> DEFINE t == m.by
             next == Continuation(t, m.verb, ok)
  <2>1. create' = [create EXCEPT ![t].pc = next.pc] /\ request' = request
    BY <1>1 DEF Settle, Proceed
  <2>2. m.verb \in Verbs /\ create \in [Servers -> Creation] /\ t \in Servers
    BY <1>1 DEF TypeOK, Command
  <2>3. m.verb = "stream" \/ m \in AwaitedBy(t)
    BY <1>1 DEF Promises, OwnPromises
  <2>4. m.verb = "stream" => next.pc = create[t].pc
    BY DEF Continuation
  <2>5. m.verb # "stream" => /\ create[t].pc \in {"creating", "starting", "cleaning"}
                             /\ next.pc \in {"starting", "succeeded", "removing", "cleaning"}
                             /\ create[t].pc = "cleaning" => m.verb = "delete"
    BY <2>2, <2>3 DEF Continuation, AfterFailure, Verbs, AwaitedBy, CreateCommand, Command_
  <2>6. m.verb = "delete" => next.pc = "removing"
    BY DEF Continuation
  <2> HIDE DEF next
  <2>7. \A s \in Servers : /\ create'[s].node = create[s].node
                           /\ create'[s].pc = IF s = t THEN next.pc ELSE create[s].pc
    BY <2>1, <2>2 DEF Creation
  <2>8. \A s \in Servers : /\ Issued(s) => Issued(s)'
                           /\ create[s].pc \in GivenUp => create'[s].pc \in GivenUp
    BY <2>4, <2>5, <2>6, <2>7 DEF Issued, GivenUp
  <2> QED
    BY <2>1, <2>7, <2>8 DEF Progress
<1>2. CASE m.by \notin Servers
  <2> DEFINE r == m.by
  <2>1. ProceedRequest(r, ok) /\ create' = create
    BY <1>2 DEF Settle
  <2>2. r \in Requests /\ UserCommand(r) = m
    BY <1>2 DEF TypeOK, Command, Callers, Promises, OwnPromises
  <2>3. \E pc \in {"failed", "removing", "reloading"} : request' = [request EXCEPT ![r].pc = pc]
    BY <2>1 DEF ProceedRequest
  <2>4. \A q \in Requests : /\ request'[q].verb = request[q].verb
                            /\ request'[q].server = request[q].server
                            /\ \/ request'[q].pc = request[q].pc
                               \/ q = r /\ request'[q].pc \in {"failed", "removing", "reloading"}
    BY <2>2, <2>3 DEF TypeOK, Request
  <2>5. request[r].pc # "idle"
    BY <2>2, CallersAssumption DEF Sendable
  <2> QED
    BY <2>1, <2>4, <2>5 DEF Progress, Issued
<1> QED
  BY <1>1, <1>2

LEMMA StepProgress ==
  ASSUME TypeOK, Promises, pending \subseteq Sendable, [Next]_vars
  PROVE  Progress
<1>0. create \in [Servers -> Creation] /\ request \in [Requests -> Request]
  BY DEF TypeOK
<1>1. ASSUME UNCHANGED <<create, request, row>> PROVE Progress
  BY <1>1 DEF Progress, Issued
<1>2. ASSUME NEW s \in Servers, CreateStep(s) PROVE Progress
  <2>1. request' = request /\ \A t \in Servers \ {s} : create'[t] = create[t] /\ row'[t] = row[t]
    BY <1>2 DEF CreateStep, BeginCreate, PickPorts, RangeExhausted, InsertRow, SendCreate,
       RemoveFailed, Proceed, TypeOK
  <2>2. /\ create'[s].node = create[s].node
        /\ create[s].pc \in {"idle", "reading", "inserting"} \/ Issued(s)'
        /\ create[s].pc \in GivenUp => create'[s].pc \in GivenUp
        /\ row[s] = NoRow /\ Issued(s) => row'[s] = NoRow
    <3>1. CASE BeginCreate(s)
      BY <1>0, <3>1 DEF BeginCreate, Creation, GivenUp, Issued
    <3>2. CASE PickPorts(s)
      BY <1>0, <3>2 DEF PickPorts, Creation, GivenUp, Issued
    <3>3. CASE RangeExhausted(s)
      BY <1>0, <3>3 DEF RangeExhausted, Creation, GivenUp, Issued
    <3>4. CASE InsertRow(s)
      BY <1>0, <3>4 DEF InsertRow, Creation, GivenUp, Issued
    <3>5. CASE SendCreate(s)
      <4>1. \E pc \in {"creating", "cleaning", "removing"} : create' = [create EXCEPT ![s].pc = pc]
        BY <3>5 DEF SendCreate, Proceed, AfterFailure
      <4>2. create[s].pc = "inserted" /\ row' = row
        BY <3>5 DEF SendCreate
      <4> QED
        BY <1>0, <4>1, <4>2 DEF Creation, GivenUp, Issued
    <3>6. CASE RemoveFailed(s)
      BY <1>0, <3>6 DEF RemoveFailed, Creation, GivenUp, Issued, TypeOK
    <3> QED
      BY <1>2, <3>1, <3>2, <3>3, <3>4, <3>5, <3>6 DEF CreateStep
  <2>3. \A t \in Servers \ {s} : Issued(t) => Issued(t)'
    BY <2>1 DEF Issued
  <2> QED
    BY <2>1, <2>2, <2>3 DEF Progress, Issued
<1>3. ASSUME NEW r \in Requests, RequestStep(r) PROVE Progress
  <2>1. create' = create
    BY <1>3 DEF RequestStep, LoadRow, SendRequest, ReloadRow, RemoveRow
  <2>2. \A s \in Servers : row[s] = NoRow => row'[s] = NoRow
    BY <1>3 DEF RequestStep, LoadRow, SendRequest, ReloadRow, RemoveRow, TypeOK
  <2>3. /\ \E pc \in {"loaded", "waiting", "succeeded", "failed"} :
             request' = [request EXCEPT ![r].pc = pc]
        /\ request[r].pc \notin {"idle", "loaded"} =>
             \E pc \in {"succeeded", "failed"} : request' = [request EXCEPT ![r].pc = pc]
        /\ request[r].pc = "idle" => Issued(request[r].server)
    <3>1. CASE LoadRow(r)
      BY <3>1 DEF LoadRow
    <3>2. CASE SendRequest(r)
      BY <3>2 DEF SendRequest
    <3>3. CASE ReloadRow(r) \/ RemoveRow(r)
      BY <3>3 DEF ReloadRow, RemoveRow
    <3> QED
      BY <1>3, <3>1, <3>2, <3>3 DEF RequestStep
  <2>4. \A q \in Requests : /\ request'[q].verb = request[q].verb
                            /\ request'[q].server = request[q].server
                            /\ q # r => request'[q].pc = request[q].pc
    BY <1>0, <2>3 DEF Request
  <2>5. request[r].pc \notin {"idle", "loaded"} => request'[r].pc \notin {"idle", "loaded"}
    BY <1>0, <2>3 DEF Request
  <2> QED
    BY <2>1, <2>2, <2>3, <2>4, <2>5 DEF Progress, Issued
<1>4. ASSUME NEW n \in Nodes, ReceiveReport(n) PROVE Progress
  <2>1. row' = row
    BY <1>4 DEF ReceiveReport
  <2>2. \/ \E m \in pending, ok \in BOOLEAN : Settle(m, ok)
        \/ UNCHANGED <<create, request>>
    BY <1>4 DEF ReceiveReport
  <2> QED
    BY <1>1, <2>1, <2>2, SettledProgress
<1>5. ASSUME NEW m \in pending, Timeout(m) PROVE Progress
  BY <1>5, SettledProgress DEF Timeout
<1>6. ASSUME NEW w \in writes, ApplyStatus(w) PROVE Progress
  <2>1. \A s \in Servers : row[s] = NoRow => row'[s] = NoRow
    <3>1. row[w.cmd.server] = NoRow => row' = row
      BY <1>6 DEF ApplyStatus
    <3>2. \A s \in Servers : s # w.cmd.server => row'[s] = row[s]
      BY <1>6 DEF ApplyStatus, TypeOK
    <3> QED
      BY <3>1, <3>2
  <2> QED
    BY <1>6, <2>1 DEF ApplyStatus, Progress, Issued
<1>7. ASSUME NEW n \in Nodes, AgentStep(n) PROVE Progress
  BY <1>1, <1>7 DEF AgentStep, DockerStep, apiVars
<1>8. ASSUME Fault PROVE Progress
  <2>1. CASE ApiRestart
    <3>1. /\ \A s \in Servers : /\ create'[s].node = create[s].node
                               /\ create'[s].pc = IF create[s].pc \in Over \cup {"idle"}
                                                  THEN create[s].pc ELSE "dead"
      <4>1. create' = [s \in Servers |-> IF create[s].pc \in Over \cup {"idle"} THEN create[s]
                                         ELSE [create[s] EXCEPT !.pc = "dead"]]
        BY <2>1 DEF ApiRestart
      <4>2. \A s \in Servers : /\ [create[s] EXCEPT !.pc = "dead"].pc = "dead"
                               /\ [create[s] EXCEPT !.pc = "dead"].node = create[s].node
        BY <1>0 DEF Creation
      <4> QED
        BY <4>1, <4>2
    <3>2. \A r \in Requests : /\ request'[r].verb = request[r].verb
                              /\ request'[r].server = request[r].server
                              /\ request'[r].pc = IF request[r].pc \in Over \cup {"idle"}
                                                  THEN request[r].pc ELSE "dead"
      <4>1. request' = [r \in Requests |-> IF request[r].pc \in Over \cup {"idle"} THEN request[r]
                                           ELSE [request[r] EXCEPT !.pc = "dead"]]
        BY <2>1 DEF ApiRestart
      <4>2. \A r \in Requests : /\ [request[r] EXCEPT !.pc = "dead"].pc = "dead"
                                /\ [request[r] EXCEPT !.pc = "dead"].verb = request[r].verb
                                /\ [request[r] EXCEPT !.pc = "dead"].server = request[r].server
        BY <1>0 DEF Request
      <4> QED
        BY <4>1, <4>2
    <3>3. row' = row
      BY <2>1 DEF ApiRestart
    <3>4. \A s \in Servers : /\ Issued(s) => Issued(s)'
                             /\ create[s].pc \in GivenUp => create'[s].pc \in GivenUp
      BY <3>1 DEF Issued, GivenUp, Over
    <3> QED
      BY <3>1, <3>2, <3>3, <3>4 DEF Progress, Over
  <2>2. CASE UNCHANGED apiVars
    BY <1>1, <2>2 DEF apiVars
  <2> QED
    BY <1>8, <2>1, <2>2 DEF Fault
<1>9. CASE UNCHANGED vars
  BY <1>1, <1>9 DEF vars
<1> QED
  BY <1>2, <1>3, <1>4, <1>5, <1>6, <1>7, <1>8, <1>9 DEF Next

\* What could be sent before can still have been sent.
LEMMA SendableGrows ==
  ASSUME TypeOK, Progress
  PROVE  /\ Sendable \subseteq Sendable'
         /\ Seq(Sendable) \subseteq Seq(Sendable')
         /\ \A r \in Requests : UserCommand(r)' = UserCommand(r)
         /\ \A s \in Servers : NodeOf(s)' = NodeOf(s)
<1>1. \A r \in Requests : UserCommand(r)' = UserCommand(r)
  BY DEF Progress, UserCommand, Command_
<1>2. Sendable \subseteq Sendable'
  BY <1>1 DEF Progress, Sendable
<1> QED
  BY <1>1, <1>2, SeqMonotonic DEF Progress, NodeOf

\* Queues of one kind of command stay that when such a command is sent.
LEMMA TransmitKind ==
  ASSUME NEW S, down \in [Nodes -> Seq(S)], NEW m \in S, m.server \in Servers,
         Transmit(m), create \in [Servers -> Creation]
  PROVE  down' \in [Nodes -> Seq(S)]
<1> DEFINE n == NodeOf(m.server)
<1>1. n \in Nodes
  BY DEF NodeOf, Creation
<1>2. Append(down[n], m) \in Seq(S)
  BY <1>1
<1> HIDE DEF n
<1>3. [down EXCEPT ![n] = Append(@, m)] \in [Nodes -> Seq(S)]
  BY <1>1, <1>2
<1> QED
  BY <1>3 DEF Transmit, n

\* A step of the handlers sends nothing, or one command that is sendable now.
Sends == \/ UNCHANGED <<down, pending>>
         \/ \E m \in Sendable' : /\ Transmit(m)
                                 /\ pending' \subseteq pending \cup {m}
                                 /\ m \notin Sendable \/ m.by \in Servers
         \/ down' = down /\ pending' \subseteq pending

LEMMA SettledSendsOwn ==
  ASSUME TypeOK, Promises, NEW m \in pending, NEW ok \in BOOLEAN, Settle(m, ok)
  PROVE  Sends
<1>1. CASE m.by \in Servers
  <2> DEFINE t == m.by
             next == Continuation(t, m.verb, ok)
  <2>1. /\ create' = [create EXCEPT ![t].pc = next.pc]
        /\ Proceed(t, next) /\ pending' = (pending \ {m}) \cup next.sends
    BY <1>1 DEF Settle, Proceed
  <2>2. m.verb \in Verbs /\ create \in [Servers -> Creation] /\ t \in Servers
    BY <1>1 DEF TypeOK, Command
  <2>3. \/ next.sends = {}
        \/ \E v \in Verbs : /\ next.sends = {CreateCommand(t, v)}
                            /\ v = "delete" => next.pc = "cleaning"
    BY <2>2 DEF Continuation, AfterFailure, Verbs
  <2>4. create'[t].pc = next.pc
    BY <2>1, <2>2 DEF Creation
  <2> HIDE DEF next
  <2>5. CASE next.sends = {}
    BY <2>1, <2>5 DEF Proceed, Sends
  <2>6. CASE next.sends # {}
    <3>1. PICK v \in Verbs : next.sends = {CreateCommand(t, v)} /\ (v = "delete" => next.pc = "cleaning")
      BY <2>3, <2>6
    <3>2. CreateCommand(t, v) \in Sendable'
      BY <2>2, <2>4, <3>1, CommandTypes DEF Sendable, CreateCommand, Command_, GivenUp
    <3>3. Transmit(CreateCommand(t, v)) /\ CreateCommand(t, v).by \in Servers
      BY <2>1, <2>2, <3>1 DEF Proceed, CreateCommand, Command_
    <3> QED
      BY <2>1, <3>1, <3>2, <3>3 DEF Sends
  <2> QED
    BY <2>5, <2>6
<1>2. CASE m.by \notin Servers
  BY <1>2 DEF Settle, Sends
<1> QED
  BY <1>1, <1>2

LEMMA HandlerSends ==
  ASSUME TypeOK, Promises
  PROVE  /\ \A s \in Servers : CreateStep(s) => Sends
         /\ \A r \in Requests : RequestStep(r) => Sends
         /\ \A n \in Nodes : ReceiveReport(n) => Sends
         /\ \A m \in pending : Timeout(m) => Sends
<1>1. ASSUME NEW s \in Servers, CreateStep(s) PROVE Sends
  <2>1. CASE SendCreate(s)
    <3> DEFINE next == IF Connected(s)
                       THEN [pc |-> "creating", sends |-> {CreateCommand(s, "create")}]
                       ELSE AfterFailure(s)
    <3>1. Proceed(s, next) /\ pending' = pending \cup next.sends
      BY <2>1 DEF SendCreate
    <3>2. create'[s].pc = next.pc
      BY <3>1 DEF Proceed, TypeOK, Creation
    <3>3. \/ next.sends = {}
          \/ \E v \in Verbs : /\ next.sends = {CreateCommand(s, v)}
                              /\ v = "delete" => next.pc = "cleaning"
      BY DEF AfterFailure, Verbs
    <3> HIDE DEF next
    <3>4. CASE next.sends = {}
      BY <3>1, <3>4 DEF Proceed, Sends
    <3>5. CASE next.sends # {}
      <4>1. PICK v \in Verbs :
              next.sends = {CreateCommand(s, v)} /\ (v = "delete" => next.pc = "cleaning")
        BY <3>3, <3>5
      <4>2. CreateCommand(s, v) \in Sendable'
        BY <3>2, <4>1, CommandTypes DEF Sendable, CreateCommand, Command_, GivenUp
      <4>3. Transmit(CreateCommand(s, v)) /\ CreateCommand(s, v).by \in Servers
        BY <3>1, <4>1 DEF Proceed, CreateCommand, Command_
      <4> QED
        BY <3>1, <4>1, <4>2, <4>3 DEF Sends
    <3> QED
      BY <3>4, <3>5
  <2>2. CASE ~SendCreate(s)
    BY <1>1, <2>2 DEF CreateStep, BeginCreate, PickPorts, RangeExhausted, InsertRow, RemoveFailed,
       Sends, wireVars
  <2> QED
    BY <2>1, <2>2
<1>2. ASSUME NEW r \in Requests, RequestStep(r) PROVE Sends
  <2>1. CASE SendRequest(r) /\ Connected(request[r].server)
    <3>1. /\ request[r].pc = "loaded" /\ request' = [request EXCEPT ![r].pc = "waiting"]
          /\ pending' = pending \cup {UserCommand(r)} /\ Transmit(UserCommand(r))
      BY <2>1 DEF SendRequest
    <3>2. request' [r].pc = "waiting" /\ UserCommand(r)' = UserCommand(r)
      BY <3>1 DEF TypeOK, Request, UserCommand, Command_
    <3>3. UserCommand(r) \in Command /\ UserCommand(r).by = r
      BY CommandTypes DEF TypeOK, UserCommand, Command_
    <3>4. UserCommand(r) \in Sendable'
      BY <3>2, <3>3 DEF Sendable
    <3>5. UserCommand(r) \notin Sendable
      BY <3>1, <3>3, CallersAssumption DEF Sendable
    <3> QED
      BY <3>1, <3>4, <3>5 DEF Sends
  <2>2. CASE ~(SendRequest(r) /\ Connected(request[r].server))
    BY <1>2, <2>2 DEF RequestStep, LoadRow, SendRequest, ReloadRow, RemoveRow, Sends, wireVars
  <2> QED
    BY <2>1, <2>2
<1>3. ASSUME NEW n \in Nodes, ReceiveReport(n) PROVE Sends
  <2>1. \/ \E m \in pending, ok \in BOOLEAN : Settle(m, ok)
        \/ UNCHANGED <<down, pending>>
    BY <1>3 DEF ReceiveReport
  <2> QED
    BY <2>1, SettledSendsOwn DEF Sends
<1>4. ASSUME NEW m \in pending, Timeout(m) PROVE Sends
  BY <1>4, SettledSendsOwn DEF Timeout
<1> QED
  BY <1>1, <1>2, <1>3, <1>4

LEMMA InitTrail == Init => Trail
<1> SUFFICES ASSUME Init PROVE Trail
  OBVIOUS
<1> USE DEF Init, AgentInit
<1>1. SentIsSendable
  BY DEF SentIsSendable
<1>2. CreatedIsThere /\ RemovedWasDeleted
  BY DEF CreatedIsThere, RemovedWasDeleted, Removed
<1>3. LoadedIsIssued /\ DeletedHasNoRow
  BY DEF LoadedIsIssued, DeletedHasNoRow
<1> QED
  BY <1>1, <1>2, <1>3 DEF Trail

\* What Docker does to a container is on record.
LEMMA DockerTrail ==
  ASSUME TypeOK, Trail, NEW n \in Nodes, NEW j \in jobs[n], DockerStep(n, j.cmd)
  PROVE  /\ CreatedIsThere' /\ RemovedWasDeleted'
         /\ performed' \subseteq performed \cup {j.cmd}
         /\ UNCHANGED <<create, request, row, pending, down, up, outbox>>
<1> DEFINE m == j.cmd
           t == m.server
<1>1. m \in Command /\ t \in Servers /\ m.verb \in Verbs
  BY DEF TypeOK, AgentTypeOK, Job, Command
<1>2. container \in [Servers -> Container] /\ \A q \in performed : q.server \in Servers
  BY DEF TypeOK, AgentTypeOK, Command
<1>3. /\ UNCHANGED <<create, request, row, pending, down, up, outbox>>
      /\ performed' \subseteq performed \cup {m}
  BY DockerSteps DEF apiVars, wireVars
<1>5. CASE UNCHANGED <<container, performed>>
  <2>2. CreatedIsThere' /\ RemovedWasDeleted'
    BY <1>5 DEF Trail, CreatedIsThere, RemovedWasDeleted, Removed
  <2> QED
    BY <1>3, <2>2
<1>6. CASE FallOver(m)
  <2>1. /\ performed' = performed /\ container[t].state = "running"
        /\ container' = [container EXCEPT ![t].state = "exited"]
    BY <1>6 DEF FallOver
  <2>2. /\ container'[t].state = "exited"
        /\ \A u \in Servers \ {t} : container'[u] = container[u]
    BY <1>1, <1>2, <2>1 DEF Container
  <2>3. CreatedIsThere' /\ RemovedWasDeleted'
    BY <1>2, <2>1, <2>2 DEF Trail, CreatedIsThere, RemovedWasDeleted, Removed
  <2> QED
    BY <1>3, <2>3
<1>7. CASE Perform(m, create[t].ports, Neighbours(n))
  <2>1. PICK move \in Moves[m.verb] :
          /\ move[1] = container[t].state
          /\ container' = [container EXCEPT ![t] =
               [state |-> move[2],
                ports |-> IF m.verb = "create" THEN create[t].ports ELSE @.ports]]
    BY <1>7 DEF Perform
  <2>2. performed' = performed \cup {m}
    BY <1>7 DEF Perform
  <2>3. move[2] # "none" /\ (move[2] = "removed" => m.verb = "delete")
    BY <1>1 DEF Moves, Verbs, Alive
  <2>4. /\ container'[t].state = move[2]
        /\ \A u \in Servers \ {t} : container'[u] = container[u]
    BY <1>1, <1>2, <2>1
  <2>5. CreatedIsThere'
    BY <1>2, <2>2, <2>3, <2>4 DEF Trail, CreatedIsThere
  <2>6. RemovedWasDeleted'
    BY <2>2, <2>3, <2>4 DEF Trail, RemovedWasDeleted, Removed
  <2> QED
    BY <1>3, <2>5, <2>6
<1> QED
  BY <1>5, <1>6, <1>7, DockerSteps

\* What is sent, run and carried out stays sendable.
LEMMA HandlersKeepSent ==
  ASSUME TypeOK, Progress, SentIsSendable, Sends, UNCHANGED <<jobs, performed>>
  PROVE  SentIsSendable'
<1>1. down \in [Nodes -> Seq(Sendable')]
  BY SendableGrows DEF SentIsSendable
<1>2. down' \in [Nodes -> Seq(Sendable')] /\ pending' \subseteq Sendable'
  <2>1. CASE \E m \in Sendable' : Transmit(m) /\ pending' \subseteq pending \cup {m}
    <3>1. PICK m \in Sendable' : Transmit(m) /\ pending' \subseteq pending \cup {m}
      BY <2>1
    <3>2. m.server \in Servers /\ create \in [Servers -> Creation]
      BY DEF Sendable, Command, TypeOK
    <3>3. down' \in [Nodes -> Seq(Sendable')]
      BY <1>1, <3>1, <3>2, TransmitKind
    <3> QED
      BY <3>1, <3>3, SendableGrows DEF SentIsSendable
  <2>2. CASE down' = down /\ pending' \subseteq pending
    BY <1>1, <2>2, SendableGrows DEF SentIsSendable
  <2> QED
    BY <2>1, <2>2 DEF Sends
<1> QED
  BY <1>2, SendableGrows DEF SentIsSendable

LEMMA AgentsKeepSent ==
  ASSUME TypeOK, Progress, Trail, NEW n \in Nodes, AgentStep(n)
  PROVE  SentIsSendable'
<1> USE DEF Trail
<1>1. /\ down \in [Nodes -> Seq(Sendable')]
      /\ \A k \in Nodes : \A j \in jobs[k] : j.cmd \in Sendable'
      /\ performed \subseteq Sendable' /\ pending \subseteq Sendable'
  BY SendableGrows DEF SentIsSendable
<1>2. CASE ReceiveCommand(n) /\ UNCHANGED <<apiVars, faults>>
  <2> DEFINE m == Head(down[n])
  <2>1. /\ down[n] \in Seq(Sendable') /\ down[n] # <<>>
        /\ down' = [down EXCEPT ![n] = Tail(@)]
        /\ jobs' = [jobs EXCEPT ![n] = @ \cup {[cmd |-> m, step |-> "running"]}]
        /\ performed' = performed /\ pending' = pending
    BY <1>1, <1>2 DEF ReceiveCommand, apiVars
  <2>2. m \in Sendable' /\ Tail(down[n]) \in Seq(Sendable')
    BY <2>1
  <2>3. down' \in [Nodes -> Seq(Sendable')]
    BY <1>1, <2>1, <2>2
  <2>4. \A k \in Nodes : \A j \in jobs'[k] : j.cmd \in Sendable'
    <3> SUFFICES ASSUME NEW k \in Nodes, NEW j \in jobs'[k] PROVE j.cmd \in Sendable'
      OBVIOUS
    <3>1. j \in jobs[k] \/ j = [cmd |-> m, step |-> "running"]
      BY <2>1 DEF TypeOK, AgentTypeOK
    <3> QED
      BY <1>1, <2>2, <3>1
  <2> QED
    BY <1>1, <2>1, <2>3, <2>4 DEF SentIsSendable
<1>3. CASE (Redial(n) \/ Handshake(n)) /\ UNCHANGED <<apiVars, faults>>
  <2>1. UNCHANGED <<performed, pending, down, jobs>>
    BY <1>3 DEF Redial, Handshake, apiVars, agentVars, wireVars
  <2> QED
    BY <1>1, <2>1 DEF SentIsSendable
<1>4. CASE \E j \in jobs[n] : Finish(n, j) /\ UNCHANGED <<apiVars, faults>>
  <2>1. PICK j \in jobs[n] : Finish(n, j) /\ UNCHANGED apiVars
    BY <1>4
  <2>2. UNCHANGED <<performed, pending, down>>
    BY <2>1 DEF Finish, apiVars
  <2>3. \A k \in Nodes : jobs'[k] \subseteq jobs[k]
    BY <2>1 DEF Finish, TypeOK, AgentTypeOK
  <2> QED
    BY <1>1, <2>2, <2>3 DEF SentIsSendable
<1>5. CASE \E j \in jobs[n] : DockerStep(n, j.cmd)
  <2>1. PICK j \in jobs[n] : DockerStep(n, j.cmd)
    BY <1>5
  <2>3. \A k \in Nodes : \A i \in jobs'[k] : i.cmd \in Sendable'
    BY <1>1, <2>1, DockerSteps
  <2>4. performed' \subseteq performed \cup {j.cmd} /\ UNCHANGED <<pending, down>>
    BY <2>1, DockerTrail
  <2> QED
    BY <1>1, <2>3, <2>4 DEF SentIsSendable
<1> QED
  BY <1>2, <1>3, <1>4, <1>5 DEF AgentStep

LEMMA FaultsKeepSent ==
  ASSUME TypeOK, Progress, Trail, Fault
  PROVE  SentIsSendable'
<1>1. UNCHANGED performed
  BY DEF Fault, ApiRestart, Disconnect, AgentRestart, LateRegister, agentVars
<1> DEFINE Q == Seq(Sendable')
<1>2. /\ down \in [Nodes -> Q] /\ <<>> \in Q
      /\ \A k \in Nodes : \A j \in jobs[k] : j.cmd \in Sendable'
      /\ performed \subseteq Sendable' /\ pending \subseteq Sendable'
  BY SendableGrows DEF Trail, SentIsSendable
<1>3. down' \in [Nodes -> Q]
  <2>1. CASE ApiRestart
    BY <1>2, <2>1 DEF ApiRestart
  <2>2. CASE \E n \in Nodes : Disconnect(n) \/ AgentRestart(n)
    <3>1. PICK n \in Nodes : down' = [down EXCEPT ![n] = <<>>]
      BY <2>2 DEF Disconnect, AgentRestart
    <3>2. [down EXCEPT ![n] = <<>>] \in [Nodes -> Q]
      BY <1>2, EmptiedQueues
    <3> HIDE DEF Q
    <3> QED
      BY <3>1, <3>2
  <2>3. CASE \E n \in Nodes : LateRegister(n)
    BY <1>2, <2>3 DEF LateRegister, wireVars
  <2> QED
    BY <2>1, <2>2, <2>3 DEF Fault
<1>4. /\ \A k \in Nodes : \A i \in jobs'[k] : \E j \in jobs[k] : i.cmd = j.cmd
      /\ pending' \subseteq pending
  BY FaultJobs DEF Fault, ApiRestart, apiVars
<1> QED
  BY <1>1, <1>2, <1>3, <1>4 DEF SentIsSendable

\* How a DELETE call moves on.
LEMMA DeleteMoves ==
  ASSUME TypeOK, Promises, Trail, [Next]_vars, NEW r \in Requests, request[r].verb = "delete"
  PROVE  LET was == request[r].pc
             is  == request'[r].pc
         IN  \/ is = was
             \/ was \in {"idle", "loaded"} /\ is \in {"loaded", "waiting", "failed"}
             \/ /\ was = "removing" /\ is \in {"succeeded", "failed"}
                /\ row'[request[r].server] = NoRow
             \/ /\ is \in {"removing", "failed"}
                /\ \E n \in Nodes : /\ ReceiveReport(n)
                                    /\ Head(up[n]).kind \in {"ack", "error"}
                                    /\ Head(up[n]).cmd = UserCommand(r)
                                    /\ is = "failed" => Head(up[n]).kind = "error"
             \/ is = "failed" /\ "slow" \in Troubles
             \/ is = "dead" /\ "api" \in Troubles
<1> DEFINE was == request[r].pc
           is  == request'[r].pc
<1>0. request \in [Requests -> Request] /\ was # "reloading"
  BY DEF TypeOK, Trail, DeletedHasNoRow
<1>1. ASSUME request' = request PROVE is = was
  BY <1>1
<1>2. ASSUME NEW q \in Requests, RequestStep(q)
      PROVE  \/ is = was
             \/ was \in {"idle", "loaded"} /\ is \in {"loaded", "waiting", "failed"}
             \/ /\ was = "removing" /\ is \in {"succeeded", "failed"}
                /\ row'[request[r].server] = NoRow
  <2>1. CASE q # r
    BY <1>0, <1>2, <2>1 DEF RequestStep, LoadRow, SendRequest, ReloadRow, RemoveRow
  <2>2. CASE LoadRow(r) \/ SendRequest(r)
    BY <1>0, <2>2 DEF LoadRow, SendRequest, Request
  <2>3. CASE RemoveRow(r)
    BY <1>0, <2>3 DEF RemoveRow, Request, TypeOK
  <2>4. ~ReloadRow(r)
    BY <1>0 DEF ReloadRow
  <2> QED
    BY <1>2, <2>1, <2>2, <2>3, <2>4 DEF RequestStep
<1>3. ASSUME NEW m \in pending, NEW ok \in BOOLEAN, Settle(m, ok)
      PROVE  is = was \/ (m = UserCommand(r) /\ is = IF ok THEN "removing" ELSE "failed")
  <2>1. CASE m.by = r
    <3>1. m = UserCommand(r) /\ ProceedRequest(r, ok)
      BY <1>3, <2>1, CallersAssumption DEF Settle, Promises, OwnPromises
    <3> QED
      BY <1>0, <3>1 DEF ProceedRequest, Request
  <2>2. CASE m.by # r
    BY <1>0, <1>3, <2>2 DEF Settle, ProceedRequest
  <2> QED
    BY <2>1, <2>2
<1>4. ASSUME NEW n \in Nodes, ReceiveReport(n)
      PROVE  \/ is = was
             \/ /\ is \in {"removing", "failed"}
                /\ Head(up[n]).kind \in {"ack", "error"}
                /\ Head(up[n]).cmd = UserCommand(r)
                /\ is = "failed" => Head(up[n]).kind = "error"
  <2> DEFINE a == Head(up[n])
  <2>1. CASE /\ a.kind \in {"ack", "error"} /\ a.cmd \in pending
             /\ Settle(a.cmd, a.kind = "ack")
    <3>1. \/ is = was
          \/ a.cmd = UserCommand(r) /\ is = IF a.kind = "ack" THEN "removing" ELSE "failed"
      BY <1>3, <2>1
    <3> QED
      BY <2>1, <3>1
  <2>2. CASE request' = request
    BY <2>2
  <2> QED
    BY <1>4, <2>1, <2>2 DEF ReceiveReport
<1>5. ASSUME NEW m \in pending, Timeout(m)
      PROVE  is = was \/ (is = "failed" /\ "slow" \in Troubles)
  BY <1>3, <1>5 DEF Timeout
<1>6. ASSUME Fault PROVE is = was \/ (is = "dead" /\ "api" \in Troubles)
  BY <1>0, <1>6 DEF Fault, ApiRestart, apiVars, Request
<1>7. \/ request' = request
      \/ \E q \in Requests : RequestStep(q)
      \/ \E n \in Nodes : ReceiveReport(n)
      \/ \E m \in pending : Timeout(m)
      \/ Fault
  BY DEF Next, CreateStep, BeginCreate, PickPorts, RangeExhausted, InsertRow, SendCreate,
     RemoveFailed, ApplyStatus, AgentStep, DockerStep, apiVars, vars
<1> QED
  BY <1>1, <1>2, <1>4, <1>5, <1>6, <1>7

LEMMA StepTrail ==
  ASSUME TypeOK, Promises, Trail, [Next]_vars
  PROVE  Trail'
<1>0. Progress
  BY StepProgress DEF Trail, SentIsSendable
<1>1. LoadedIsIssued'
  BY <1>0 DEF Trail, LoadedIsIssued, Progress, TypeOK, Request
<1>2. DeletedHasNoRow'
  <2> SUFFICES ASSUME NEW r \in Requests, request'[r].verb = "delete"
               PROVE  /\ request'[r].pc # "reloading"
                      /\ request'[r].pc = "succeeded" => row'[request'[r].server] = NoRow
    BY DEF DeletedHasNoRow
  <2>1. /\ request[r].verb = "delete" /\ request'[r].server = request[r].server
        /\ request[r].server \in Servers
    BY <1>0 DEF Progress, TypeOK, Request
  <2>2. request[r].pc = "succeeded" => row'[request[r].server] = NoRow
    BY <1>0, <2>1 DEF Trail, LoadedIsIssued, DeletedHasNoRow, Progress
  <2>3. request[r].pc # "reloading"
    BY <2>1 DEF Trail, DeletedHasNoRow
  <2> QED
    BY <2>1, <2>2, <2>3, DeleteMoves
<1>3. ASSUME UNCHANGED <<container, performed>> PROVE CreatedIsThere' /\ RemovedWasDeleted'
  BY <1>3 DEF Trail, CreatedIsThere, RemovedWasDeleted, Removed
<1>4. SentIsSendable' /\ CreatedIsThere' /\ RemovedWasDeleted'
  <2>1. ASSUME Sends, UNCHANGED <<jobs, container, performed>>
        PROVE  SentIsSendable' /\ CreatedIsThere' /\ RemovedWasDeleted'
    BY <1>0, <1>3, <2>1, HandlersKeepSent DEF Trail
  <2>2. ASSUME NEW s \in Servers, CreateStep(s) PROVE UNCHANGED <<jobs, container, performed>>
    BY <2>2 DEF CreateStep, BeginCreate, PickPorts, RangeExhausted, InsertRow, SendCreate,
       RemoveFailed, agentVars
  <2>3. ASSUME NEW r \in Requests, RequestStep(r) PROVE UNCHANGED <<jobs, container, performed>>
    BY <2>3 DEF RequestStep, LoadRow, SendRequest, ReloadRow, RemoveRow, agentVars
  <2>4. ASSUME NEW n \in Nodes, AgentStep(n) PROVE CreatedIsThere' /\ RemovedWasDeleted'
    <3>1. CASE \E j \in jobs[n] : DockerStep(n, j.cmd)
      BY <3>1, DockerTrail
    <3>2. CASE UNCHANGED <<container, performed>>
      BY <1>3, <3>2
    <3> QED
      BY <2>4, <3>1, <3>2 DEF AgentStep, ReceiveCommand, Redial, Handshake, Finish, agentVars
  <2>5. CASE Fault
    <3>1. UNCHANGED <<container, performed>>
      BY <2>5 DEF Fault, ApiRestart, Disconnect, AgentRestart, LateRegister, agentVars
    <3> QED
      BY <1>0, <1>3, <2>5, <3>1, FaultsKeepSent
  <2>6. ASSUME NEW w \in writes, ApplyStatus(w) PROVE Sends /\ UNCHANGED <<jobs, container, performed>>
    BY <2>6 DEF ApplyStatus, Sends, wireVars, agentVars
  <2>7. CASE UNCHANGED vars
    BY <2>1, <2>7 DEF vars, Sends
  <2>8. ASSUME NEW n \in Nodes, ReceiveReport(n) PROVE UNCHANGED <<jobs, container, performed>>
    BY <2>8 DEF ReceiveReport, agentVars
  <2>9. ASSUME NEW m \in pending, Timeout(m) PROVE UNCHANGED <<jobs, container, performed>>
    BY <2>9 DEF Timeout, agentVars
  <2> QED
    BY <1>0, <2>1, <2>2, <2>3, <2>4, <2>5, <2>6, <2>7, <2>8, <2>9, HandlerSends, AgentsKeepSent
       DEF Next
<1> QED
  BY <1>1, <1>2, <1>4 DEF Trail

-----------------------------------------------------------------------------
(* While nothing goes wrong. *)

\* What is on its way are commands for servers.
LEMMA Queued ==
  ASSUME TypeOK
  PROVE  \A n \in Nodes : \A i \in DOMAIN down[n] :
           down[n][i] \in Command /\ down[n][i].server \in Servers
<1>1. \A q \in Seq(Command) : \A i \in DOMAIN q : q[i] \in Command
  OBVIOUS
<1>2. \A n \in Nodes : down[n] \in Seq(Command)
  BY DEF TypeOK, AgentTypeOK
<1>3. \A m \in Command : m.server \in Servers
  BY DEF Command
<1> QED
  BY <1>1, <1>2, <1>3

LEMMA SentStays ==
  ASSUME TypeOK, SentOnce, down' = down, \A s \in Servers : NodeOf(s)' = NodeOf(s)
  PROVE  SentOnce' /\ \A m : OnItsWay(m)' => OnItsWay(m)
<1>1. SentOnce'
  BY Queued DEF SentOnce, NodeOf
<1>2. \A m : OnItsWay(m)' => OnItsWay(m)
  BY DEF OnItsWay
<1> QED
  BY <1>1, <1>2

\* A command that is sent once is on its way once, to the node of its server.
LEMMA TransmitOnce ==
  ASSUME TypeOK, SentOnce, NEW c \in Command, Transmit(c),
         c.by \in Requests => ~OnItsWay(c),
         \A s \in Servers : NodeOf(s)' = NodeOf(s)
  PROVE  /\ SentOnce'
         /\ \A m : OnItsWay(m)' => OnItsWay(m) \/ m = c
<1> DEFINE n == NodeOf(c.server)
<1>1. n \in Nodes /\ c.server \in Servers
  BY DEF TypeOK, NodeOf, Creation, Command
<1>2. down \in [Nodes -> Seq(Command)]
  BY DEF TypeOK, AgentTypeOK
<1>3. CASE down' = down
  BY <1>3, SentStays
<1>4. CASE down' # down
  <2>1. down' = [down EXCEPT ![n] = Append(@, c)]
    BY <1>4 DEF Transmit
  <2> HIDE DEF n
  <2>2. PICK q \in Seq(Command) : q = down[n]
    BY <1>1, <1>2
  <2>3. PICK k \in Nat : k = Len(q)
    BY <2>2
  <2>4. /\ DOMAIN q = 1 .. k /\ DOMAIN Append(q, c) = 1 .. k + 1
        /\ \A i \in 1 .. k : Append(q, c)[i] = q[i]
        /\ Append(q, c)[k + 1] = c
    BY <2>2, <2>3
  <2>5. down'[n] = Append(q, c) /\ \A p \in Nodes \ {n} : down'[p] = down[p]
    BY <1>1, <1>2, <2>1, <2>2
  <2>6. \A i \in 1 .. k + 1 : i \in 1 .. k \/ i = k + 1
    BY <2>3
  <2>7. \A m : OnItsWay(m)' => OnItsWay(m) \/ m = c
    <3> SUFFICES ASSUME NEW m, NEW p \in Nodes, NEW i \in DOMAIN down'[p], down'[p][i] = m
                 PROVE  OnItsWay(m) \/ m = c
      BY DEF OnItsWay
    <3>1. CASE p # n
      BY <2>5, <3>1 DEF OnItsWay
    <3>2. CASE p = n
      BY <1>1, <2>2, <2>4, <2>5, <2>6, <3>2 DEF OnItsWay
    <3> QED
      BY <3>1, <3>2
  <2>8. SentOnce'
    <3> SUFFICES ASSUME NEW p \in Nodes, NEW i \in DOMAIN down'[p]
                 PROVE  /\ create'[down'[p][i].server].node = p
                        /\ down'[p][i].by \in Requests =>
                             \A j \in DOMAIN down'[p] : down'[p][j] = down'[p][i] => j = i
      BY DEF SentOnce, NodeOf
    <3>1. CASE p # n
      <4>1. down'[p] = down[p] /\ down[p] \in Seq(Command)
        BY <1>2, <2>5, <3>1
      <4>2. down[p][i].server \in Servers
        BY <4>1, Queued
      <4> QED
        BY <4>1, <4>2 DEF SentOnce, NodeOf
    <3>2. CASE p = n
      <4>1. i \in 1 .. k => /\ q[i].server \in Servers /\ NodeOf(q[i].server) = n
                            /\ q[i].by \in Requests => q[i] # c
        BY <1>1, <2>2, <2>4, Queued DEF SentOnce, OnItsWay
      <4>2. \A j \in 1 .. k : c.by \in Requests => q[j] # c
        BY <1>1, <2>2, <2>4 DEF OnItsWay
      <4>3. i \in 1 .. k /\ q[i].by \in Requests => \A j \in 1 .. k : q[j] = q[i] => j = i
        BY <1>1, <2>2, <2>4 DEF SentOnce
      <4>4. create'[down'[p][i].server].node = p
        BY <1>1, <2>4, <2>5, <2>6, <3>2, <4>1 DEF n, NodeOf
      <4>5. CASE i \in 1 .. k
        BY <2>4, <2>5, <2>6, <3>2, <4>1, <4>3, <4>4, <4>5
      <4>6. CASE i = k + 1
        BY <2>4, <2>5, <2>6, <3>2, <4>2, <4>4, <4>6
      <4> QED
        BY <2>4, <2>5, <2>6, <3>2, <4>5, <4>6
    <3> QED
      BY <3>1, <3>2
  <2> QED
    BY <2>7, <2>8
<1> QED
  BY <1>3, <1>4

\* An answer stays the last that is heard of a command.
LEMMA AnswersStay ==
  ASSUME TypeOK, Progress,
         \A m \in Sendable : m.by \in Requests /\ Underway(m)' => Underway(m),
         \A m \in performed' : m.by \in Requests => m \in performed \/ Underway(m)
  PROVE  Answers \subseteq Answers' /\ Seq(Answers) \subseteq Seq(Answers')
<1>1. Answers \subseteq Answers'
  <2> SUFFICES ASSUME NEW a \in Answers PROVE a \in Answers'
    OBVIOUS
  <2>1. CASE a.kind \in {"ack", "error"} /\ a.cmd.by \in Requests
    <3>1. a.cmd \in Sendable /\ ~Underway(a.cmd) /\ (a.kind = "error" => a.cmd \notin performed)
      BY <2>1 DEF Answers
    <3>2. a.cmd \in Sendable' /\ ~Underway(a.cmd)'
      BY <2>1, <3>1, SendableGrows
    <3>3. a.kind = "error" => a.cmd \notin performed'
      BY <2>1, <3>1
    <3> QED
      BY <3>2, <3>3 DEF Answers
  <2>2. CASE ~(a.kind \in {"ack", "error"} /\ a.cmd.by \in Requests)
    BY <2>2 DEF Answers
  <2> QED
    BY <2>1, <2>2
<1> QED
  BY <1>1, SeqMonotonic

\* The handlers and the connection leave what the agents run alone.
LEMMA WireCalm ==
  ASSUME TypeOK, Trail, Wire, Progress, Sends, UNCHANGED <<jobs, performed>>,
         \A m \in Command : m.by \in Requests /\ Underway(m) => request'[m.by].pc = "waiting",
         \A m \in Command : m.by \in Requests /\ m \in Sendable' \ Sendable =>
           request'[m.by].pc = "waiting" \/ down' = down
  PROVE  /\ Answers \subseteq Answers' /\ Seq(Answers) \subseteq Seq(Answers')
         /\ SentOnce' /\ RunOnce' /\ UnderwayIsAwaited'
<1> USE DEF Wire
<1>1. /\ \A n \in Nodes : \A j \in jobs[n] : j.cmd \in Sendable
      /\ \A n \in Nodes : \A m : Running(n, m) => m \in Sendable
      /\ \A n \in Nodes : \A i \in DOMAIN down[n] : down[n][i] \in Sendable
      /\ performed \subseteq Sendable
  BY DEF Trail, SentIsSendable, Running
<1>2. \A m : Underway(m) => m \in Sendable
  BY <1>1 DEF Underway, OnItsWay
<1>3. \A n \in Nodes : \A m : Running(n, m)' <=> Running(n, m)
  BY DEF Running
<1>4. PICK c : /\ \A m : OnItsWay(m)' => OnItsWay(m) \/ (m = c /\ down' # down)
               /\ c.by \in Requests /\ down' # down => c \in Sendable' \ Sendable
               /\ SentOnce'
  <2>1. CASE down' = down
    BY <2>1, SendableGrows, SentStays
  <2>2. CASE down' # down
    <3>1. PICK c \in Sendable' : Transmit(c) /\ (c \notin Sendable \/ c.by \in Servers)
      BY <2>2 DEF Sends
    <3>2. c \in Command /\ (c.by \in Requests => c \notin Sendable)
      BY <3>1, CallersAssumption DEF Sendable
    <3>3. c.by \in Requests => ~OnItsWay(c)
      BY <1>2, <3>2 DEF Underway
    <3> QED
      BY <2>2, <3>1, <3>2, <3>3, SendableGrows, TransmitOnce
  <2> QED
    BY <2>1, <2>2
<1>5. \A m \in Sendable : m.by \in Requests => (OnItsWay(m)' => OnItsWay(m))
  BY <1>4
<1>6. \A m \in Sendable : m.by \in Requests => (Underway(m)' => Underway(m))
  BY <1>3, <1>5 DEF Underway
<1>7. Answers \subseteq Answers' /\ Seq(Answers) \subseteq Seq(Answers')
  BY <1>6, AnswersStay
<1>8. RunOnce'
  <2>1. \A n \in Nodes : \A j \in jobs[n] : j.cmd.server \in Servers
    BY <1>1 DEF Sendable, Command
  <2> QED
    BY <1>1, <1>3, <1>5, <2>1, SendableGrows DEF RunOnce
<1>9. UnderwayIsAwaited'
  <2> SUFFICES ASSUME NEW m \in Command, m.by \in Requests, Underway(m)'
               PROVE  m \notin performed /\ request'[m.by].pc = "waiting"
    BY DEF UnderwayIsAwaited
  <2>1. CASE m \in Sendable
    BY <1>6, <2>1 DEF UnderwayIsAwaited
  <2>2. CASE m \notin Sendable
    <3>1. m = c /\ down' # down
      BY <1>2, <1>3, <1>4, <2>2 DEF Underway
    <3> QED
      BY <1>1, <1>4, <2>2, <3>1
  <2> QED
    BY <2>1, <2>2
<1> QED
  BY <1>4, <1>7, <1>8, <1>9

\* A command that arrives leaves the wire for the agent.
LEMMA ReceiveCalm ==
  ASSUME TypeOK, Trail, Wire, Progress, NEW n \in Nodes, ReceiveCommand(n), UNCHANGED apiVars
  PROVE  Wire'
<1> USE DEF Wire
<1>0. PICK m : m = Head(down[n])
  OBVIOUS
<1>1. /\ down[n] # <<>> /\ down' = [down EXCEPT ![n] = Tail(@)]
      /\ jobs' = [jobs EXCEPT ![n] = @ \cup {[cmd |-> m, step |-> "running"]}]
      /\ Emit(n, OpeningReport(m)) /\ performed' = performed
      /\ UNCHANGED <<create, request, row>>
  BY <1>0 DEF ReceiveCommand, apiVars
<1>2. PICK q \in Seq(Command) : q = down[n]
  BY DEF TypeOK, AgentTypeOK
<1>3. PICK k \in Nat : k = Len(q)
  BY <1>2
<1>4. /\ k > 0 /\ m = q[1] /\ DOMAIN q = 1 .. k /\ DOMAIN Tail(q) = 1 .. k - 1
      /\ \A i \in 1 .. k - 1 : Tail(q)[i] = q[i + 1]
  BY <1>0, <1>1, <1>2, <1>3
<1>5. \A i \in 1 .. k - 1 : i + 1 \in 1 .. k /\ i + 1 # 1
  BY <1>3
<1>6. down'[n] = Tail(q) /\ \A p \in Nodes \ {n} : down'[p] = down[p]
  BY <1>1, <1>2 DEF TypeOK, AgentTypeOK
<1>7. m \in Command /\ OnItsWay(m) /\ NodeOf(m.server) = n
  BY <1>2, <1>3, <1>4, Queued DEF OnItsWay, SentOnce
<1>7a. \A i \in 1 .. k : /\ NodeOf(q[i].server) = n
                         /\ q[i].by \in Requests => \A j \in 1 .. k : q[j] = q[i] => j = i
  BY <1>2, <1>4 DEF SentOnce
<1>8. \A x : OnItsWay(x)' => OnItsWay(x)
  <2> SUFFICES ASSUME NEW x, NEW p \in Nodes, NEW i \in DOMAIN down'[p], down'[p][i] = x
               PROVE  OnItsWay(x)
    BY DEF OnItsWay
  <2>1. CASE p # n
    BY <1>6, <2>1 DEF OnItsWay
  <2>2. CASE p = n
    <3>1. i + 1 \in DOMAIN down[n] /\ down[n][i + 1] = x
      BY <1>2, <1>4, <1>5, <1>6, <2>2
    <3> QED
      BY <3>1 DEF OnItsWay
  <2> QED
    BY <2>1, <2>2
<1>9. m.by \in Requests => ~OnItsWay(m)'
  <2> SUFFICES ASSUME m.by \in Requests, NEW p \in Nodes, NEW i \in DOMAIN down'[p],
                      down'[p][i] = m
               PROVE  FALSE
    BY DEF OnItsWay
  <2>1. CASE p # n
    BY <1>6, <1>7, <2>1 DEF SentOnce
  <2>2. CASE p = n
    <3>1. i \in 1 .. k - 1 /\ q[i + 1] = q[1]
      BY <1>4, <1>6, <2>2
    <3>2. i + 1 = 1
      BY <1>3, <1>4, <1>5, <1>7a, <3>1
    <3> QED
      BY <1>5, <3>1, <3>2
  <2> QED
    BY <2>1, <2>2
<1>10. SentOnce'
  <2> SUFFICES ASSUME NEW p \in Nodes, NEW i \in DOMAIN down'[p]
               PROVE  /\ create'[down'[p][i].server].node = p
                      /\ down'[p][i].by \in Requests =>
                           \A j \in DOMAIN down'[p] : down'[p][j] = down'[p][i] => j = i
    BY DEF SentOnce, NodeOf
  <2>1. CASE p # n
    BY <1>1, <1>6, <2>1 DEF SentOnce, NodeOf
  <2>2. CASE p = n
    <3>1. i \in 1 .. k - 1 /\ down'[p][i] = q[i + 1] /\ i + 1 \in 1 .. k
      BY <1>4, <1>5, <1>6, <2>2
    <3>2. ASSUME NEW j \in DOMAIN down'[p], down'[p][j] = down'[p][i], down'[p][i].by \in Requests
          PROVE  j = i
      <4>1. j \in 1 .. k - 1 /\ down'[p][j] = q[j + 1] /\ j + 1 \in 1 .. k
        BY <1>4, <1>5, <1>6, <2>2
      <4>2. j + 1 = i + 1
        BY <1>7a, <3>1, <3>2, <4>1
      <4> QED
        BY <1>3, <3>1, <4>1, <4>2
    <3>3. NodeOf(q[i + 1].server) = n
      BY <1>7a, <3>1
    <3> QED
      BY <1>1, <2>2, <3>1, <3>2, <3>3 DEF NodeOf
  <2> QED
    BY <2>1, <2>2
<1>11. /\ \A p \in Nodes : \A x : Running(p, x)' => Running(p, x) \/ (p = n /\ x = m)
       /\ \A p \in Nodes : \A j \in jobs'[p] :
            j \in jobs[p] \/ (p = n /\ j = [cmd |-> m, step |-> "running"])
  BY <1>1 DEF TypeOK, AgentTypeOK, Running
<1>12. \A x : Underway(x)' => Underway(x)
  BY <1>7, <1>8, <1>11 DEF Underway
<1>13. RunOnce'
  <2> SUFFICES ASSUME NEW p \in Nodes, NEW j \in jobs'[p], j.cmd.by \in Requests
               PROVE  /\ create'[j.cmd.server].node = p
                      /\ ~OnItsWay(j.cmd)'
                      /\ j.step # "running" => \A l \in Nodes : ~Running(l, j.cmd)'
                      /\ j.step = "refused" => j.cmd \notin performed'
    BY DEF RunOnce, NodeOf
  <2>1. CASE j \in jobs[p]
    <3>1. /\ NodeOf(j.cmd.server) = p /\ ~OnItsWay(j.cmd)
          /\ j.step # "running" => \A l \in Nodes : ~Running(l, j.cmd)
          /\ j.step = "refused" => j.cmd \notin performed
      BY <2>1 DEF RunOnce
    <3>2. j.cmd # m
      BY <1>7, <3>1
    <3> QED
      BY <1>1, <1>8, <1>11, <3>1, <3>2 DEF NodeOf
  <2>2. CASE p = n /\ j = [cmd |-> m, step |-> "running"]
    BY <1>1, <1>7, <1>9, <2>2 DEF NodeOf
  <2> QED
    BY <1>11, <2>1, <2>2
<1>14. UnderwayIsAwaited'
  BY <1>1, <1>12 DEF UnderwayIsAwaited
<1>15. AnswersAreLast'
  <2>1. Seq(Answers) \subseteq Seq(Answers')
    BY <1>1, <1>12, AnswersStay
  <2>2. up \in [Nodes -> Seq(Answers')] /\ outbox \in [Nodes -> Seq(Answers')]
    BY <2>1 DEF AnswersAreLast
  <2>3. OpeningReport(m) \in Seq(Answers')
    <3>1. m.verb \in DOMAIN Opening => [kind |-> "opening", cmd |-> m] \in Answers'
      BY <1>7 DEF Answers, Report, StatusReport
    <3> QED
      BY <3>1 DEF OpeningReport
  <2> QED
    BY <1>1, <2>2, <2>3, EmitTypes DEF AnswersAreLast
<1> QED
  BY <1>10, <1>13, <1>14, <1>15

\* Docker's answer is on record, and the job runs no more.
LEMMA DockerCalm ==
  ASSUME TypeOK, Trail, Wire, Progress, Troubles = {},
         NEW n \in Nodes, NEW j \in jobs[n], DockerStep(n, j.cmd)
  PROVE  Wire'
<1> USE DEF Wire
<1> DEFINE m == j.cmd
<1>1. /\ performed' \subseteq performed \cup {m}
      /\ UNCHANGED <<create, request, row, down, up, outbox>>
  BY DockerTrail
<1>2. PICK step \in {"performed", "refused"} :
        /\ Running(n, m) /\ Advance(n, m, step)
        /\ step = "refused" => performed' = performed
  BY DockerSteps
<1>3. /\ m \in Command /\ Underway(m)
      /\ [cmd |-> m, step |-> "running"] \in jobs[n]
  BY <1>2 DEF Running, Underway, TypeOK, AgentTypeOK, Job
<1>4. \A p \in Nodes : \A i \in jobs'[p] :
        \/ i \in jobs[p] /\ (p = n => i # [cmd |-> m, step |-> "running"])
        \/ p = n /\ i = [cmd |-> m, step |-> step]
  BY <1>2 DEF Advance, TypeOK, AgentTypeOK
<1> HIDE DEF m
<1>5. /\ \A x : OnItsWay(x)' <=> OnItsWay(x)
      /\ \A p \in Nodes : \A x : Running(p, x)' => Running(p, x) /\ (p # n \/ x # m)
  <2>1. \A x : OnItsWay(x)' <=> OnItsWay(x)
    BY <1>1 DEF OnItsWay
  <2>2. \A x : [cmd |-> x, step |-> "running"] = [cmd |-> m, step |-> "running"] => x = m
    <3>1. \A x : [cmd |-> x, step |-> "running"].cmd = x
      OBVIOUS
    <3> QED
      BY <3>1
  <2>3. \A x : [cmd |-> x, step |-> "running"] # [cmd |-> m, step |-> step]
    <3>1. \A x : [cmd |-> x, step |-> "running"].step = "running"
      OBVIOUS
    <3>2. [cmd |-> m, step |-> step].step # "running"
      BY <1>2
    <3> QED
      BY <3>1, <3>2
  <2> QED
    BY <1>4, <2>1, <2>3 DEF Running
<1>6. \A x : Underway(x)' => Underway(x)
  BY <1>5 DEF Underway
<1>7. m.by \in Requests => /\ NodeOf(m.server) = n /\ ~OnItsWay(m) /\ m \notin performed
                           /\ request[m.by].pc = "waiting"
                           /\ \A p \in Nodes : ~Running(p, m)'
  <2>1. m.by \in Requests => NodeOf(m.server) = n /\ ~OnItsWay(m)
    BY <1>3 DEF RunOnce
  <2>2. m.by \in Requests => \A p \in Nodes : Running(p, m) => p = n
    <3>1. \A p \in Nodes : Running(p, m) /\ m.by \in Requests => NodeOf(m.server) = p
      BY DEF Running, RunOnce
    <3> QED
      BY <2>1, <3>1
  <2> QED
    BY <1>3, <1>5, <2>1, <2>2 DEF UnderwayIsAwaited
<1>8. RunOnce'
  <2> SUFFICES ASSUME NEW p \in Nodes, NEW i \in jobs'[p], i.cmd.by \in Requests
               PROVE  /\ create'[i.cmd.server].node = p
                      /\ ~OnItsWay(i.cmd)'
                      /\ i.step # "running" => \A l \in Nodes : ~Running(l, i.cmd)'
                      /\ i.step = "refused" => i.cmd \notin performed'
    BY DEF RunOnce, NodeOf
  <2>1. CASE i \in jobs[p]
    <3>1. /\ NodeOf(i.cmd.server) = p /\ ~OnItsWay(i.cmd)
          /\ i.step # "running" => \A l \in Nodes : ~Running(l, i.cmd)
          /\ i.step = "refused" => i.cmd \notin performed
      BY <2>1 DEF RunOnce
    <3>2. i.step # "running" => i.cmd # m
      BY <1>2, <3>1
    <3> QED
      BY <1>1, <1>5, <3>1, <3>2 DEF NodeOf
  <2>2. CASE p = n /\ i = [cmd |-> m, step |-> step]
    BY <1>1, <1>2, <1>5, <1>7, <2>2 DEF NodeOf
  <2> QED
    BY <1>4, <2>1, <2>2
<1>9. UnderwayIsAwaited'
  <2> SUFFICES ASSUME NEW x \in Command, x.by \in Requests, Underway(x)'
               PROVE  x \notin performed' /\ request'[x.by].pc = "waiting"
    BY DEF UnderwayIsAwaited
  <2>1. x \notin performed /\ request[x.by].pc = "waiting"
    BY <1>6 DEF UnderwayIsAwaited
  <2>2. x # m
    BY <1>5, <1>7 DEF Underway
  <2> QED
    BY <1>1, <2>1, <2>2
<1>10. SentOnce'
  BY <1>1, SentStays DEF NodeOf
<1>11. AnswersAreLast'
  <2>1. Seq(Answers) \subseteq Seq(Answers')
    BY <1>1, <1>3, <1>6, AnswersStay
  <2> QED
    BY <1>1, <2>1 DEF AnswersAreLast
<1> QED
  BY <1>8, <1>9, <1>10, <1>11

\* What is answered is neither on its way nor run any more.
LEMMA FinishCalm ==
  ASSUME TypeOK, Trail, Wire, Progress, NEW n \in Nodes, NEW j \in jobs[n], Finish(n, j),
         UNCHANGED apiVars
  PROVE  Wire'
<1> USE DEF Wire
<1>1. /\ UNCHANGED <<create, request, row, down, performed>>
      /\ j.step \in {"performed", "refused"} /\ Emit(n, Answer(j))
  BY DEF Finish, apiVars
<1>2. \A p \in Nodes : jobs'[p] \subseteq jobs[p]
  BY DEF Finish, TypeOK, AgentTypeOK
<1>3. /\ \A x : OnItsWay(x)' <=> OnItsWay(x)
      /\ \A p \in Nodes : \A x : Running(p, x)' => Running(p, x)
  BY <1>1, <1>2 DEF OnItsWay, Running
<1>4. \A x : Underway(x)' => Underway(x)
  BY <1>3 DEF Underway
<1>5. RunOnce'
  <2> SUFFICES ASSUME NEW p \in Nodes, NEW i \in jobs'[p], i.cmd.by \in Requests
               PROVE  /\ create'[i.cmd.server].node = p
                      /\ ~OnItsWay(i.cmd)'
                      /\ i.step # "running" => \A l \in Nodes : ~Running(l, i.cmd)'
                      /\ i.step = "refused" => i.cmd \notin performed'
    BY DEF RunOnce, NodeOf
  <2>1. i \in jobs[p]
    BY <1>2
  <2> QED
    BY <1>1, <1>3, <2>1 DEF RunOnce, NodeOf
<1>6. UnderwayIsAwaited'
  BY <1>1, <1>4 DEF UnderwayIsAwaited
<1>7. SentOnce'
  BY <1>1, SentStays DEF NodeOf
<1>8. AnswersAreLast'
  <2>1. Seq(Answers) \subseteq Seq(Answers')
    BY <1>1, <1>4, AnswersStay
  <2>2. up \in [Nodes -> Seq(Answers')] /\ outbox \in [Nodes -> Seq(Answers')]
    BY <2>1 DEF AnswersAreLast
  <2>3. j \in Job /\ j.cmd \in Command /\ j.cmd \in Sendable'
    BY SendableGrows DEF TypeOK, AgentTypeOK, Job, Trail, SentIsSendable
  <2>4. j.cmd.by \in Requests => /\ ~Underway(j.cmd)
                                 /\ j.step = "refused" => j.cmd \notin performed
    BY <1>1 DEF RunOnce, Underway
  <2>5. /\ [kind |-> "ack", cmd |-> j.cmd] \in Answers'
        /\ j.step = "refused" => [kind |-> "error", cmd |-> j.cmd] \in Answers'
        /\ j.cmd.verb \in DOMAIN Closing => [kind |-> "closing", cmd |-> j.cmd] \in Answers'
    BY <1>1, <1>4, <2>3, <2>4 DEF Answers, Report, StatusReport
  <2>6. ClosingReport(j.cmd) \in Seq(Answers')
    BY <2>5 DEF ClosingReport
  <2>7. Answer(j) \in Seq(Answers')
    <3>1. j.step \in {"performed", "refused"}
      BY <1>1
    <3>2. <<[kind |-> "ack", cmd |-> j.cmd]>> \in Seq(Answers')
      BY <2>5
    <3>3. j.step = "refused" => <<[kind |-> "error", cmd |-> j.cmd]>> \in Seq(Answers')
      BY <2>5
    <3> QED
      BY <2>6, <3>1, <3>2, <3>3 DEF Answer
  <2> QED
    BY <1>1, <2>2, <2>7, EmitTypes DEF AnswersAreLast
<1> QED
  BY <1>5, <1>6, <1>7, <1>8

\* A caller whose command is under way waits for it, and who has just sent
\* one waits for it too.
Waits == /\ \A m \in Command : m.by \in Requests /\ Underway(m) => request'[m.by].pc = "waiting"
         /\ \A m \in Command : m.by \in Requests /\ m \in Sendable' \ Sendable =>
              request'[m.by].pc = "waiting" \/ down' = down

LEMMA IdleWaits ==
  ASSUME Wire, request' = request
  PROVE  Waits
<1>1. \A m \in Command : m.by \in Requests => (m \in Sendable' => m \in Sendable)
  BY CallersAssumption DEF Sendable, UserCommand, Command_
<1> QED
  BY <1>1 DEF Waits, Wire, UnderwayIsAwaited

LEMMA RequestWaits ==
  ASSUME TypeOK, Trail, Wire, Progress, NEW r \in Requests, RequestStep(r)
  PROVE  Waits
<1>1. request \in [Requests -> Request]
  BY DEF TypeOK
<1>2. /\ request[r].pc # "waiting"
      /\ \A q \in Requests : q # r => request'[q] = request[q]
      /\ request'[r].pc \in {"idle", "loaded", "waiting"} \/ down' = down
  <2>1. CASE SendRequest(r)
    BY <1>1, <2>1 DEF SendRequest, Request
  <2>2. CASE LoadRow(r)
    BY <1>1, <2>2 DEF LoadRow, wireVars
  <2>3. CASE ReloadRow(r)
    BY <1>1, <2>3 DEF ReloadRow, wireVars
  <2>4. CASE RemoveRow(r)
    BY <1>1, <2>4 DEF RemoveRow, wireVars
  <2> QED
    BY <2>1, <2>2, <2>3, <2>4 DEF RequestStep
<1>3. ASSUME NEW m \in Command, m.by \in Requests, Underway(m)
      PROVE  request'[m.by].pc = "waiting"
  BY <1>2, <1>3 DEF Wire, UnderwayIsAwaited
<1>4. ASSUME NEW m \in Command, m.by \in Requests, m \in Sendable', m \notin Sendable
      PROVE  request'[m.by].pc = "waiting" \/ down' = down
  <2>1. CASE m.by = r
    BY <1>2, <1>4, <2>1, CallersAssumption DEF Sendable
  <2>2. CASE m.by # r
    <3>1. request'[m.by] = request[m.by]
      BY <1>2, <1>4, <2>2
    <3> QED
      BY <1>4, <3>1, CallersAssumption DEF Sendable, UserCommand, Command_
  <2> QED
    BY <2>1, <2>2
<1> QED
  BY <1>3, <1>4 DEF Waits

LEMMA ReportWaits ==
  ASSUME TypeOK, Promises, Trail, Wire, Progress, NEW n \in Nodes, ReceiveReport(n)
  PROVE  Waits
<1> DEFINE a == Head(up[n])
<1>1. CASE a.kind \in {"ack", "error"} /\ a.cmd \in pending /\ Settle(a.cmd, a.kind = "ack")
  <2>1. PICK c : c = a.cmd
    OBVIOUS
  <2>2. c \in pending /\ c \in Sendable /\ a \in Answers
    <3>1. up[n] \in Seq(Answers) /\ up[n] # <<>>
      BY DEF Wire, AnswersAreLast, ReceiveReport
    <3>2. a \in Answers
      BY <3>1
    <3> QED
      BY <1>1, <2>1, <3>2 DEF Trail, SentIsSendable
  <2>3. CASE c.by \in Servers
    BY <1>1, <2>1, <2>3, IdleWaits DEF Settle
  <2>4. CASE c.by \notin Servers
    <3>1. c.by \in Requests /\ c = UserCommand(c.by) /\ request[c.by].pc \notin {"idle", "loaded"}
      BY <2>2, <2>4 DEF Sendable, Command, Callers
    <3>2. ~Underway(c)
      BY <1>1, <2>1, <2>2, <3>1 DEF Answers
    <3>3. \A q \in Requests : q # c.by => request'[q] = request[q]
      BY <1>1, <2>1, <2>4 DEF Settle, ProceedRequest, TypeOK
    <3>4. ASSUME NEW m \in Command, m.by \in Requests, Underway(m)
          PROVE  request'[m.by].pc = "waiting"
      <4>1. m \in Sendable
        BY <3>4 DEF Trail, SentIsSendable, Underway, OnItsWay, Running
      <4>2. m.by = c.by => m = c
        BY <3>1, <3>4, <4>1, CallersAssumption DEF Sendable
      <4> QED
        BY <3>2, <3>3, <3>4, <4>2 DEF Wire, UnderwayIsAwaited
    <3>5. ASSUME NEW m \in Command, m.by \in Requests, m \in Sendable', m \notin Sendable
          PROVE  request'[m.by].pc = "waiting" \/ down' = down
      BY <1>1, <2>1, <2>4 DEF Settle
    <3> QED
      BY <3>4, <3>5 DEF Waits
  <2> QED
    BY <2>3, <2>4
<1>2. CASE request' = request
  BY <1>2, IdleWaits
<1> QED
  BY <1>1, <1>2 DEF ReceiveReport

\* The books of the wire are kept by every step that may be taken now.
LEMMA StepWire ==
  ASSUME TypeOK, Promises, Trail, Wire, Progress, Troubles = {}, [Next]_vars
  PROVE  Wire'
<1>1. ASSUME Sends, UNCHANGED <<jobs, performed>>, Waits
      PROVE  Seq(Answers) \subseteq Seq(Answers') /\ SentOnce' /\ RunOnce' /\ UnderwayIsAwaited'
  BY <1>1, WireCalm DEF Waits
<1>2. ASSUME Sends, UNCHANGED <<jobs, performed, up, outbox>>, Waits PROVE Wire'
  BY <1>1, <1>2 DEF Wire, AnswersAreLast
<1>3. ASSUME NEW s \in Servers, CreateStep(s) PROVE Wire'
  <2>1. UNCHANGED <<jobs, performed, up, outbox, request>>
    BY <1>3 DEF CreateStep, BeginCreate, PickPorts, RangeExhausted, InsertRow, SendCreate,
       RemoveFailed, wireVars, agentVars
  <2> QED
    BY <1>2, <1>3, <2>1, HandlerSends, IdleWaits
<1>4. ASSUME NEW r \in Requests, RequestStep(r) PROVE Wire'
  <2>1. UNCHANGED <<jobs, performed, up, outbox>>
    BY <1>4 DEF RequestStep, LoadRow, SendRequest, ReloadRow, RemoveRow, wireVars, agentVars
  <2> QED
    BY <1>2, <1>4, <2>1, HandlerSends, RequestWaits
<1>5. ASSUME NEW n \in Nodes, ReceiveReport(n) PROVE Wire'
  <2>1. /\ UNCHANGED <<jobs, performed, outbox>>
        /\ up[n] # <<>> /\ up' = [up EXCEPT ![n] = Tail(@)]
    BY <1>5 DEF ReceiveReport, agentVars
  <2>2. Seq(Answers) \subseteq Seq(Answers') /\ SentOnce' /\ RunOnce' /\ UnderwayIsAwaited'
    BY <1>1, <1>5, <2>1, HandlerSends, ReportWaits
  <2>3. up \in [Nodes -> Seq(Answers')] /\ outbox' \in [Nodes -> Seq(Answers')]
    BY <2>1, <2>2 DEF Wire, AnswersAreLast
  <2>4. Tail(up[n]) \in Seq(Answers')
    BY <2>1, <2>3
  <2>5. up' \in [Nodes -> Seq(Answers')]
    BY <2>1, <2>3, <2>4
  <2> QED
    BY <2>2, <2>3, <2>5 DEF Wire, AnswersAreLast
<1>6. ASSUME NEW w \in writes, ApplyStatus(w) PROVE Wire'
  <2>1. UNCHANGED <<jobs, performed, up, outbox, down, pending, request>>
    BY <1>6 DEF ApplyStatus, wireVars, agentVars
  <2> QED
    BY <1>2, <2>1, IdleWaits DEF Sends
<1>7. ASSUME NEW n \in Nodes, AgentStep(n) PROVE Wire'
  <2>1. CASE ReceiveCommand(n) /\ UNCHANGED <<apiVars, faults>>
    BY <2>1, ReceiveCalm
  <2>2. CASE Redial(n) /\ UNCHANGED <<apiVars, faults>>
    <3>1. /\ UNCHANGED <<jobs, performed, down, pending, request>>
          /\ up' = [up EXCEPT ![n] = up[n] \o outbox[n]]
          /\ outbox' = [outbox EXCEPT ![n] = <<>>]
      BY <2>2 DEF Redial, agentVars, apiVars
    <3>2. Seq(Answers) \subseteq Seq(Answers') /\ SentOnce' /\ RunOnce' /\ UnderwayIsAwaited'
      BY <1>1, <3>1, IdleWaits DEF Sends
    <3> DEFINE Q == Seq(Answers')
    <3>3. /\ up \in [Nodes -> Q] /\ outbox \in [Nodes -> Q]
          /\ up[n] \o outbox[n] \in Q /\ <<>> \in Q
      BY <3>2, ConcatProperties DEF Wire, AnswersAreLast
    <3> HIDE DEF Q
    <3>4. up' \in [Nodes -> Q] /\ outbox' \in [Nodes -> Q]
      BY <3>1, <3>3
    <3> QED
      BY <3>2, <3>4 DEF Wire, AnswersAreLast, Q
  <2>3. CASE Handshake(n) /\ UNCHANGED <<apiVars, faults>>
    <3>1. UNCHANGED <<jobs, performed, up, outbox, down, pending, request>>
      BY <2>3 DEF Handshake, wireVars, agentVars, apiVars
    <3> QED
      BY <1>2, <3>1, IdleWaits DEF Sends
  <2>4. ASSUME NEW j \in jobs[n], DockerStep(n, j.cmd) PROVE Wire'
    BY <2>4, DockerCalm
  <2>5. ASSUME NEW j \in jobs[n], Finish(n, j), UNCHANGED <<apiVars, faults>> PROVE Wire'
    BY <2>5, FinishCalm
  <2> QED
    BY <1>7, <2>1, <2>2, <2>3, <2>4, <2>5 DEF AgentStep
<1>8. ~Fault /\ \A m \in pending : ~Timeout(m)
  BY DEF Fault, ApiRestart, Disconnect, AgentRestart, LateRegister, Timeout
<1>9. CASE UNCHANGED vars
  BY <1>2, <1>9, IdleWaits DEF vars, Sends
<1> QED
  BY <1>3, <1>4, <1>5, <1>6, <1>7, <1>8, <1>9 DEF Next

\* A DELETE that fails while nothing goes wrong deleted nothing.
LEMMA StepFailure ==
  ASSUME TypeOK, Promises, Trail, Calm, Progress, Troubles = {}, [Next]_vars
  PROVE  FailureIsTrue'
<1> SUFFICES ASSUME NEW r \in Requests, request'[r].verb = "delete",
                    request'[r].pc \in {"failed", "dead"}, UserCommand(r)' \in performed'
             PROVE  row'[request'[r].server] = NoRow
  BY DEF FailureIsTrue
<1>1. /\ request[r].verb = "delete" /\ request'[r].server = request[r].server
      /\ request[r].server \in Servers
  BY DEF Progress, TypeOK, Request
<1>2. PICK m : m = UserCommand(r) /\ m = UserCommand(r)' /\ m \in Command /\ m.by = r
  <2>1. UserCommand(r) \in Command
    BY CommandTypes DEF TypeOK
  <2>2. UserCommand(r)' = UserCommand(r)
    BY SendableGrows
  <2>3. UserCommand(r).by = r
    BY DEF UserCommand, Command_
  <2> QED
    BY <2>1, <2>2, <2>3
<1>3. m \in performed \/ (request[r].pc = "waiting" /\ Underway(m))
  <2>1. CASE \E n \in Nodes : \E j \in jobs[n] : DockerStep(n, j.cmd)
    <3>1. PICK n \in Nodes : \E j \in jobs[n] : DockerStep(n, j.cmd)
      BY <2>1
    <3>2. PICK j \in jobs[n] : DockerStep(n, j.cmd)
      BY <3>1
    <3>3. performed' \subseteq performed \cup {j.cmd} /\ Running(n, j.cmd)
      BY <3>2, DockerSteps
    <3> QED
      BY <1>2, <3>3 DEF Underway, Calm, Wire, UnderwayIsAwaited
  <2>2. CASE performed' = performed
    BY <1>2, <2>2
  <2> QED
    BY <2>1, <2>2 DEF Next, CreateStep, BeginCreate, PickPorts, RangeExhausted, InsertRow,
       SendCreate, RemoveFailed, RequestStep, LoadRow, SendRequest, ReloadRow, RemoveRow,
       ReceiveReport, Timeout, ApplyStatus, AgentStep, ReceiveCommand, Redial, Handshake, Finish,
       Fault, ApiRestart, Disconnect, AgentRestart, LateRegister, agentVars, vars
<1>4. request[r].pc \notin {"idle", "loaded"}
  BY <1>2, <1>3, CallersAssumption DEF Trail, SentIsSendable, Sendable
<1>5. CASE request'[r].pc = request[r].pc
  <2>1. row[request[r].server] = NoRow
    BY <1>1, <1>2, <1>3, <1>5 DEF Calm, FailureIsTrue
  <2> QED
    BY <1>1, <1>4, <2>1 DEF Progress, Trail, LoadedIsIssued
<1>6. ASSUME NEW n \in Nodes, ReceiveReport(n), Head(up[n]).kind = "error", Head(up[n]).cmd = m
      PROVE  FALSE
  <2>1. up[n] \in Seq(Answers) /\ up[n] # <<>> /\ performed' = performed
    BY <1>6 DEF Calm, Wire, AnswersAreLast, ReceiveReport, agentVars
  <2>2. Head(up[n]) \in Answers
    BY <2>1
  <2> QED
    BY <1>2, <1>6, <2>1, <2>2 DEF Answers
<1> QED
  BY <1>1, <1>2, <1>4, <1>5, <1>6, DeleteMoves

LEMMA InitCalm == Init => Calm
<1> SUFFICES ASSUME Init PROVE Calm
  OBVIOUS
<1> USE DEF Init, AgentInit
<1>1. AnswersAreLast /\ SentOnce /\ RunOnce
  BY DEF AnswersAreLast, SentOnce, RunOnce
<1>2. UnderwayIsAwaited /\ FailureIsTrue
  BY DEF UnderwayIsAwaited, FailureIsTrue, Underway, OnItsWay, Running
<1> QED
  BY <1>1, <1>2 DEF Calm, Wire

(***************************************************************************)
(* For any servers, callers, nodes and troubles: a created server that has *)
(* its row has its container, unless a DELETE took it whose caller still   *)
(* waits or, only when things may go wrong, was not told of its success.   *)
(***************************************************************************)
THEOREM CreatedHasContainer == Spec => []RowHasContainer
<1> DEFINE Inv == Trail /\ (Troubles = {} => Calm)
<1>1. IInv /\ Inv /\ [Next]_vars => Inv'
  <2> SUFFICES ASSUME IInv, Inv, [Next]_vars PROVE Inv'
    OBVIOUS
  <2>1. TypeOK /\ Promises /\ Trail
    BY DEF IInv
  <2>2. Progress
    BY <2>1, StepProgress DEF Trail, SentIsSendable
  <2>3. Trail'
    BY <2>1, StepTrail
  <2>4. Troubles = {} => Calm'
    BY <2>1, <2>2, StepWire, StepFailure DEF Calm
  <2> QED
    BY <2>3, <2>4
<1>2. IInv /\ Inv => RowHasContainer
  <2> SUFFICES ASSUME IInv, Inv, NEW s \in Servers, create[s].pc = "succeeded", row[s] # NoRow,
                      container[s].state \notin Alive
               PROVE  \E r \in Requests :
                        /\ request[r].server = s /\ request[r].verb = "delete"
                        /\ UserCommand(r) \in performed /\ request[r].pc \in Unfinished
    BY DEF RowHasContainer
  <2>1. CreateCommand(s, "create") \in performed
    BY DEF IInv, Promises, NoFalseSuccess
  <2>2. container[s].state # "none"
    BY <2>1 DEF Trail, CreatedIsThere, CreateCommand, Command_
  <2>3. Removed(s)
    BY <2>2 DEF IInv, TypeOK, AgentTypeOK, Container, Removed
  <2>4. PICK m \in performed : m.verb = "delete" /\ m.server = s
    BY <2>3 DEF Trail, RemovedWasDeleted
  <2>5. m \in Sendable /\ m.by \notin Servers
    <3>1. m \in Sendable
      BY <2>4 DEF Trail, SentIsSendable
    <3>2. m.by \in Servers => m.by = s /\ create[m.by].pc \in GivenUp
      BY <2>4, <3>1, CallersAssumption DEF Sendable
    <3> QED
      BY <3>1, <3>2 DEF GivenUp
  <2>6. PICK r \in Requests : m = UserCommand(r) /\ request[r].pc \notin {"idle", "loaded"}
    BY <2>5 DEF Sendable, Command, Callers
  <2>7. request[r].server = s /\ request[r].verb = "delete"
    BY <2>4, <2>6 DEF UserCommand, Command_
  <2>8. request[r].pc \in {"waiting", "removing", "failed", "dead"}
    <3>1. request[r].pc \notin {"reloading", "succeeded"}
      BY <2>7 DEF Trail, DeletedHasNoRow
    <3> QED
      BY <2>6, <3>1 DEF IInv, TypeOK, Request, Over
  <2>9. Troubles = {} => request[r].pc \notin {"failed", "dead"}
    BY <2>4, <2>6, <2>7 DEF Calm, FailureIsTrue
  <2> QED
    BY <2>4, <2>6, <2>7, <2>8, <2>9 DEF Unfinished
<1>3. Init => Inv
  BY InitTrail, InitCalm
<1> HIDE DEF Inv
<1> QED
  BY <1>1, <1>2, <1>3, Invariance, PTL DEF Spec
-----------------------------------------------------------------------------
(***************************************************************************)
(* The invariant behind RowOutlivesContainer, which only holds while       *)
(* nothing goes wrong.  Agents are then always within reach, Docker        *)
(* refuses a create only when there is a container or was one, and a       *)
(* creation only gives up once its container is gone and will not come     *)
(* back.                                                                   *)
(***************************************************************************)
WithinReach == reg = [n \in Nodes |-> "live"]

\* The server has a container or had one, or none was asked for.
Spent(s) == Fresh(s) \/ container[s].state # "none"

\* The command has nothing left to do, and will have nothing to do again.
Futile(m) ==
  /\ m.verb = "create" => container[m.server].state # "none"
  /\ m.verb = "delete" /\ m.by \in Servers =>
       create[m.server].pc \in GivenUp /\ container[m.server].state \notin Alive

Rightful == {a \in Report : a.kind = "error" => Futile(a.cmd)}

RefusedRightly ==
  /\ up \in [Nodes -> Seq(Rightful)] /\ outbox \in [Nodes -> Seq(Rightful)]
  /\ \A n \in Nodes : \A j \in jobs[n] : j.step = "refused" => Futile(j.cmd)

OnlyCreatingCreates == \A s \in Servers : create[s].pc # "creating" => Spent(s)

GivenUpIsGone ==
  \A s \in Servers : create[s].pc \in {"removing", "failed"} => container[s].state \notin Alive

Orderly == WithinReach /\ RefusedRightly /\ OnlyCreatingCreates /\ GivenUpIsGone

\* Docker makes a container for a create command only, and never again one
\* that is gone.
LEMMA DockerSpent ==
  ASSUME TypeOK, NEW n \in Nodes, NEW j \in jobs[n], DockerStep(n, j.cmd)
  PROVE  \A s \in Servers :
           /\ Fresh(s) => Fresh(s)'
           /\ container[s].state # "none" => container'[s].state # "none"
           /\ Spent(s) /\ container[s].state \notin Alive => container'[s].state \notin Alive
<1> DEFINE m == j.cmd
           t == m.server
<1>0. down' = down
  BY DockerSteps DEF wireVars
<1>1. m \in Command /\ t \in Servers /\ m.verb \in Verbs
  BY DEF TypeOK, AgentTypeOK, Job, Command
<1>2. \A k \in Nodes : \A i \in jobs'[k] : i \in jobs[k] \/ i.cmd = m
  BY DockerSteps
<1>3. \A s \in Servers : Unsent(s) => Unsent(s)' /\ m \in Others(s)
  BY <1>0, <1>1, <1>2 DEF Unsent
<1>4. container \in [Servers -> Container]
  BY DEF TypeOK, AgentTypeOK
<1>5. \A s \in Servers \ {t} : container'[s] = container[s]
  <2>1. CASE UNCHANGED <<container, performed>>
    BY <2>1
  <2>2. CASE FallOver(m)
    BY <1>1, <1>4, <2>2 DEF FallOver
  <2>3. CASE Perform(m, create[t].ports, Neighbours(n))
    BY <1>1, <1>4, <2>3 DEF Perform
  <2> QED
    BY <2>1, <2>2, <2>3, DockerSteps
<1>6. \/ container'[t].state = container[t].state
      \/ container[t].state = "running" /\ container'[t].state = "exited"
      \/ \E move \in Moves[m.verb] : /\ container[t].state = move[1]
                                     /\ container'[t].state = move[2]
  <2>1. CASE UNCHANGED <<container, performed>>
    BY <2>1
  <2>2. CASE FallOver(m)
    BY <1>1, <1>4, <2>2 DEF FallOver, Container
  <2>3. CASE Perform(m, create[t].ports, Neighbours(n))
    BY <1>1, <1>4, <2>3 DEF Perform
  <2> QED
    BY <2>1, <2>2, <2>3, DockerSteps
<1>7. \A move \in Moves[m.verb] :
        /\ move[2] # "none" /\ move[1] # "removed"
        /\ move[1] = "none" => m.verb = "create"
        /\ move[1] \in Alive \cup {"none"}
  BY <1>1 DEF Moves, Verbs, Alive
<1>8. /\ container[t].state # "none" => container'[t].state # "none"
      /\ container[t].state = "none" /\ m.verb # "create" => container'[t].state = "none"
      /\ container[t].state \notin Alive \cup {"none"} =>
           container'[t].state = container[t].state
  BY <1>6, <1>7 DEF Alive
<1>9. ASSUME NEW s \in Servers, Fresh(s) PROVE Fresh(s)'
  <2>1. s = t => m.verb # "create"
    BY <1>3, <1>9 DEF Fresh, Others
  <2> HIDE DEF m, t
  <2> QED
    BY <1>3, <1>5, <1>8, <1>9, <2>1 DEF Fresh
<1> HIDE DEF m, t
<1> QED
  BY <1>5, <1>8, <1>9 DEF Fresh, Spent, Alive

\* A step that leaves Docker alone keeps a server without a container and
\* without a create command so, unless it sends that command.
LEMMA FreshRemains ==
  ASSUME TypeOK, Promises, Troubles = {}, [Next]_vars, NEW s \in Servers, Fresh(s), ~SendCreate(s)
  PROVE  Fresh(s)'
<1>1. ASSUME UNCHANGED <<jobs, container>>, down' \in [Nodes -> Seq(Others(s))] PROVE Fresh(s)'
  BY <1>1 DEF Fresh, Unsent
<1>2. down \in [Nodes -> Seq(Others(s))]
  BY DEF Fresh, Unsent
<1>3. ASSUME NEW t \in Servers, CreateStep(t) PROVE Fresh(s)'
  <2>1. UNCHANGED <<jobs, container>>
    BY <1>3 DEF CreateStep, BeginCreate, PickPorts, RangeExhausted, InsertRow, SendCreate,
       RemoveFailed, agentVars
  <2>2. CASE ~SendCreate(t)
    BY <1>1, <1>2, <1>3, <2>1, <2>2 DEF CreateStep, BeginCreate, PickPorts, RangeExhausted,
       InsertRow, RemoveFailed, wireVars
  <2>3. CASE SendCreate(t)
    BY <1>1, <2>1, <2>3, OthersSend DEF Fresh, Unsent
  <2> QED
    BY <2>2, <2>3
<1>4. ASSUME NEW r \in Requests, RequestStep(r) PROVE Fresh(s)'
  BY <1>4, RequestFresh
<1>5. ASSUME NEW n \in Nodes, ReceiveReport(n) PROVE Fresh(s)'
  <2>1. UNCHANGED <<jobs, container>>
    BY <1>5 DEF ReceiveReport, agentVars
  <2>2. down' = down \/ \E m \in pending, ok \in BOOLEAN : Settle(m, ok)
    BY <1>5 DEF ReceiveReport
  <2> QED
    BY <1>1, <1>2, <2>1, <2>2, SettledSends
<1>6. ASSUME NEW n \in Nodes, AgentStep(n) PROVE Fresh(s)'
  <2>1. CASE \E j \in jobs[n] : DockerStep(n, j.cmd)
    BY <2>1, DockerSpent
  <2>2. CASE ~\E j \in jobs[n] : DockerStep(n, j.cmd)
    BY <1>6, <2>2, AgentFresh
  <2> QED
    BY <2>1, <2>2
<1>7. ASSUME NEW w \in writes, ApplyStatus(w) PROVE Fresh(s)'
  BY <1>1, <1>2, <1>7 DEF ApplyStatus, wireVars, agentVars
<1>8. ~Fault /\ \A m \in pending : ~Timeout(m)
  BY DEF Fault, ApiRestart, Disconnect, AgentRestart, LateRegister, Timeout
<1>9. CASE UNCHANGED vars
  BY <1>1, <1>2, <1>9 DEF vars
<1> QED
  BY <1>3, <1>4, <1>5, <1>6, <1>7, <1>8, <1>9 DEF Next

\* A promise is kept once its command has done its work, and broken once it
\* has nothing left to do.
LEMMA SettledRightly ==
  ASSUME TypeOK, HonestReports, Promises, Books, Trail, Orderly,
         NEW n \in Nodes, ReceiveReport(n), NEW s \in Servers
  PROVE  LET was == create[s].pc
             is  == create'[s].pc
         IN  \/ is = was
             \/ was = "creating" /\ is \in {"starting", "cleaning"} /\ container[s].state # "none"
             \/ was = "starting" /\ is \in {"succeeded", "cleaning"}
             \/ was = "cleaning" /\ is = "removing" /\ container[s].state \notin Alive
<1> DEFINE was == create[s].pc
           is  == create'[s].pc
           a   == Head(up[n])
<1>1. CASE create' = create
  BY <1>1
<1>2. CASE create' # create
  <2>1. PICK m \in pending, ok \in BOOLEAN :
          /\ Settle(m, ok) /\ m = a.cmd /\ a.kind = IF ok THEN "ack" ELSE "error"
    BY <1>2 DEF ReceiveReport
  <2>2. up[n] \in Seq(Honest) /\ up[n] \in Seq(Rightful) /\ up[n] # <<>>
    BY DEF HonestReports, Orderly, RefusedRightly, ReceiveReport
  <2>3. a \in Honest /\ a \in Rightful
    BY <2>2
  <2>4. (ok => m \in performed) /\ (~ok => Futile(m))
    BY <2>1, <2>3 DEF Honest, Rightful
  <2>5. m.by \in Servers
    BY <1>2, <2>1 DEF Settle
  <2> DEFINE t == m.by
             next == Continuation(t, m.verb, ok)
  <2>6. create' = [create EXCEPT ![t].pc = next.pc]
    BY <2>1, <2>5 DEF Settle, Proceed
  <2>7. create \in [Servers -> Creation] /\ m.verb \in Verbs /\ m.server = t
    BY <2>5 DEF TypeOK, Command, Promises, OwnPromises
  <2>8. is = IF s = t THEN next.pc ELSE was
    BY <2>6, <2>7 DEF Creation
  <2>9. Connected(t)
    BY <2>5, <2>7 DEF Connected, NodeOf, Orderly, WithinReach, Creation
  <2>10. m.verb = "stream" \/ m \in AwaitedBy(t)
    BY <2>5 DEF Promises, OwnPromises
  <2>11. CASE m.verb = "stream"
    BY <2>8, <2>11 DEF Continuation
  <2>12. CASE m.verb = "create" /\ m \in AwaitedBy(t)
    <3>1. create[t].pc = "creating" /\ next.pc \in {"starting", "cleaning"}
      BY <2>9, <2>12 DEF AwaitedBy, Continuation, AfterFailure, CreateCommand, Command_
    <3>2. container[t].state # "none"
      BY <2>4, <2>7, <2>12 DEF Trail, CreatedIsThere, Futile
    <3> QED
      BY <2>8, <3>1, <3>2
  <2>13. CASE m.verb = "start" /\ m \in AwaitedBy(t)
    <3>1. create[t].pc = "starting" /\ next.pc \in {"succeeded", "cleaning"}
      BY <2>9, <2>13 DEF AwaitedBy, Continuation, AfterFailure, CreateCommand, Command_
    <3> QED
      BY <2>8, <3>1
  <2>14. CASE m.verb = "delete" /\ m \in AwaitedBy(t)
    <3>1. create[t].pc = "cleaning" /\ next.pc = "removing"
      BY <2>14 DEF AwaitedBy, Continuation, CreateCommand, Command_
    <3>2. container[t].state \notin Alive
      BY <2>4, <2>5, <2>7, <2>14 DEF Books, DeletedIsRemoved, Removed, Futile, Alive
    <3> QED
      BY <2>8, <3>1, <3>2
  <2>15. m \in AwaitedBy(t) => m.verb \in {"create", "start", "delete"}
    BY DEF AwaitedBy, CreateCommand, Command_
  <2> QED
    BY <2>10, <2>11, <2>12, <2>13, <2>14, <2>15
<1> QED
  BY <1>1, <1>2

\* How a creation moves on while nothing goes wrong.
LEMMA CreationMoves ==
  ASSUME TypeOK, HonestReports, Promises, Books, Trail, Orderly, Troubles = {}, [Next]_vars,
         NEW s \in Servers
  PROVE  LET was == create[s].pc
             is  == create'[s].pc
         IN  \/ is = was
             \/ was \in Early /\ is = "failed" /\ UNCHANGED container
             \/ was \in Early /\ is \in Early
             \/ was = "inserted" /\ is = "creating"
             \/ was = "creating" /\ is \in {"starting", "cleaning"} /\ container[s].state # "none"
             \/ was = "starting" /\ is \in {"succeeded", "cleaning"}
             \/ /\ was = "cleaning" /\ is = "removing"
                /\ container[s].state \notin Alive /\ UNCHANGED container
             \/ was = "removing" /\ is = "failed"
<1> DEFINE was == create[s].pc
           is  == create'[s].pc
<1>0. create \in [Servers -> Creation]
  BY DEF TypeOK
<1>1. ASSUME NEW t \in Servers, CreateStep(t), t # s PROVE is = was
  BY <1>0, <1>1 DEF CreateStep, BeginCreate, PickPorts, RangeExhausted, InsertRow, SendCreate,
     RemoveFailed, Proceed
<1>2. CASE CreateStep(s)
  <2>1. CASE BeginCreate(s)
    BY <1>0, <2>1 DEF BeginCreate, Creation, Early, agentVars
  <2>2. CASE PickPorts(s)
    BY <1>0, <2>2 DEF PickPorts, Creation, Early
  <2>3. CASE RangeExhausted(s)
    BY <1>0, <2>3 DEF RangeExhausted, Creation, Early, agentVars
  <2>4. CASE InsertRow(s)
    BY <1>0, <2>4 DEF InsertRow, Creation, Early
  <2>5. CASE SendCreate(s)
    <3>1. Connected(s)
      BY <1>0 DEF Connected, NodeOf, Orderly, WithinReach, Creation
    <3> QED
      BY <1>0, <2>5, <3>1 DEF SendCreate, Proceed, Creation
  <2>6. CASE RemoveFailed(s)
    BY <1>0, <2>6 DEF RemoveFailed, Creation
  <2> QED
    BY <1>2, <2>1, <2>2, <2>3, <2>4, <2>5, <2>6 DEF CreateStep
<1>3. CASE create' = create
  BY <1>3
<1>4. CASE \E n \in Nodes : ReceiveReport(n)
  <2>1. UNCHANGED container
    BY <1>4 DEF ReceiveReport, agentVars
  <2> QED
    BY <1>4, <2>1, SettledRightly
<1>5. ~Fault /\ \A m \in pending : ~Timeout(m)
  BY DEF Fault, ApiRestart, Disconnect, AgentRestart, LateRegister, Timeout
<1> QED
  BY <1>1, <1>2, <1>3, <1>4, <1>5 DEF Next, RequestStep, LoadRow, SendRequest, ReloadRow, RemoveRow,
     ApplyStatus, AgentStep, DockerStep, apiVars, vars

\* No step makes a container for a server that will get none.
LEMMA SpentStays ==
  ASSUME TypeOK, [Next]_vars, NEW s \in Servers
  PROVE  /\ container[s].state # "none" => container'[s].state # "none"
         /\ Spent(s) /\ container[s].state \notin Alive => container'[s].state \notin Alive
<1>1. CASE UNCHANGED container
  BY <1>1
<1>2. CASE \E n \in Nodes : \E j \in jobs[n] : DockerStep(n, j.cmd)
  BY <1>2, DockerSpent
<1> QED
  BY <1>1, <1>2 DEF Next, CreateStep, BeginCreate, PickPorts, RangeExhausted, InsertRow,
     SendCreate, RemoveFailed, RequestStep, LoadRow, SendRequest, ReloadRow, RemoveRow,
     ReceiveReport, Timeout, ApplyStatus, AgentStep, ReceiveCommand, Redial, Handshake, Finish,
     Fault, ApiRestart, Disconnect, AgentRestart, LateRegister, agentVars, vars

\* What is futile stays so.
LEMMA FutileStays ==
  ASSUME TypeOK, Progress, OnlyCreatingCreates, [Next]_vars
  PROVE  /\ \A m \in Command : Futile(m) => Futile(m)'
         /\ Seq(Rightful) \subseteq Seq(Rightful')
<1>1. ASSUME NEW m \in Command, Futile(m) PROVE Futile(m)'
  <2> DEFINE t == m.server
  <2>1. t \in Servers
    BY DEF Command
  <2>2. create[t].pc \in GivenUp => Spent(t) /\ create'[t].pc \in GivenUp
    BY <2>1 DEF OnlyCreatingCreates, Progress, GivenUp
  <2> QED
    BY <1>1, <2>1, <2>2, SpentStays DEF Futile
<1>2. Rightful \subseteq Rightful'
  BY <1>1 DEF Rightful, Report, StatusReport
<1> QED
  BY <1>1, <1>2, SeqMonotonic

\* Docker refuses only what is futile.
LEMMA DockerRightly ==
  ASSUME TypeOK, Trail, Troubles = {}, NEW n \in Nodes, NEW j \in jobs[n], DockerStep(n, j.cmd)
  PROVE  \A p \in Nodes : \A i \in jobs'[p] : i \in jobs[p] \/ (i.step = "refused" => Futile(i.cmd))
<1> DEFINE m == j.cmd
<1>1. m \in Command /\ m \in Sendable
  BY DEF TypeOK, AgentTypeOK, Job, Trail, SentIsSendable
<1>2. container \in [Servers -> Container]
  BY DEF TypeOK, AgentTypeOK
<1>3. ASSUME NEW step, Advance(n, m, step), step = "refused" => Futile(m)
      PROVE  \A p \in Nodes : \A i \in jobs'[p] :
               i \in jobs[p] \/ (i.step = "refused" => Futile(i.cmd))
  <2>1. \A p \in Nodes : \A i \in jobs'[p] : i \in jobs[p] \/ i = [cmd |-> m, step |-> step]
    BY <1>3 DEF Advance, TypeOK, AgentTypeOK
  <2> QED
    BY <1>3, <2>1
<1>4. ASSUME ~CanPerform(m, Neighbours(n)) PROVE Futile(m)
  <2>1. m.verb = "create" => container[m.server].state # "none"
    <3>1. /\ <<"none", "created">> \in Moves["create"] /\ <<"none", "created">>[1] = "none"
          /\ "create" \notin {"start", "restart"}
      BY DEF Moves
    <3> QED
      BY <1>4, <3>1 DEF CanPerform
  <2>2. m.verb = "delete" => container[m.server].state \notin Alive
    <3>1. \A st \in Alive : <<st, "removed">> \in Moves["delete"]
      BY DEF Moves
    <3> QED
      BY <1>4, <3>1 DEF CanPerform
  <2>3. m.verb = "delete" /\ m.by \in Servers => create[m.server].pc \in GivenUp
    BY <1>1, CallersAssumption DEF Sendable
  <2> QED
    BY <2>1, <2>2, <2>3 DEF Futile
<1>5. CASE DockerRefuses(n, m, Neighbours(n))
  BY <1>3, <1>4, <1>5 DEF DockerRefuses
<1>6. CASE DockerPerforms(n, m, create[m.server].ports, Neighbours(n))
  BY <1>3, <1>6 DEF DockerPerforms
<1> QED
  BY <1>5, <1>6 DEF DockerStep, RestartFallsOver, FallOver, DockerOutlives

LEMMA StepRightly ==
  ASSUME TypeOK, Trail, Progress, Orderly, Troubles = {}, [Next]_vars
  PROVE  RefusedRightly'
<1> DEFINE Q == Seq(Rightful')
<1>1. /\ up \in [Nodes -> Q] /\ outbox \in [Nodes -> Q]
      /\ \A n \in Nodes : \A j \in jobs[n] : j.cmd \in Command /\ (j.step = "refused" => Futile(j.cmd)')
  <2>1. \A n \in Nodes : \A j \in jobs[n] : j.cmd \in Command
    BY DEF TypeOK, AgentTypeOK, Job
  <2> QED
    BY <2>1, FutileStays DEF Orderly, RefusedRightly
<1>2. ASSUME UNCHANGED <<up, outbox, jobs>> PROVE RefusedRightly'
  BY <1>1, <1>2 DEF RefusedRightly
<1>3. ASSUME NEW n \in Nodes, NEW q \in Q, Emit(n, q)
      PROVE  up' \in [Nodes -> Q] /\ outbox' \in [Nodes -> Q]
  BY <1>1, <1>3, EmitTypes
<1>4. ASSUME NEW n \in Nodes, ReceiveReport(n) PROVE RefusedRightly'
  <2>1. up[n] # <<>> /\ up' = [up EXCEPT ![n] = Tail(@)] /\ UNCHANGED <<outbox, jobs>>
    BY <1>4 DEF ReceiveReport, agentVars
  <2>2. Tail(up[n]) \in Q
    BY <1>1, <2>1
  <2> HIDE DEF Q
  <2>3. up' \in [Nodes -> Q]
    BY <1>1, <2>1, <2>2
  <2> QED
    BY <1>1, <2>1, <2>3 DEF RefusedRightly, Q
<1>5. ASSUME NEW n \in Nodes, AgentStep(n) PROVE RefusedRightly'
  <2>1. CASE ReceiveCommand(n)
    <3> DEFINE m == Head(down[n])
    <3>1. /\ jobs' = [jobs EXCEPT ![n] = @ \cup {[cmd |-> m, step |-> "running"]}]
          /\ Emit(n, OpeningReport(m)) /\ down[n] # <<>> /\ down[n] \in Seq(Command)
      BY <2>1 DEF ReceiveCommand, TypeOK, AgentTypeOK
    <3>2. m \in Command
      BY <3>1
    <3>3. OpeningReport(m) \in Q
      <4>1. m.verb \in DOMAIN Opening => [kind |-> "opening", cmd |-> m] \in Rightful'
        BY <3>2 DEF Rightful, Report, StatusReport
      <4> QED
        BY <4>1 DEF OpeningReport
    <3>4. \A p \in Nodes : \A j \in jobs'[p] : j \in jobs[p] \/ j.step = "running"
      BY <3>1 DEF TypeOK, AgentTypeOK
    <3> QED
      BY <1>1, <1>3, <3>1, <3>3, <3>4 DEF RefusedRightly
  <2>2. CASE Redial(n)
    <3>1. /\ up' = [up EXCEPT ![n] = up[n] \o outbox[n]]
          /\ outbox' = [outbox EXCEPT ![n] = <<>>]
          /\ UNCHANGED jobs /\ <<>> \in Q /\ up[n] \o outbox[n] \in Q
      BY <1>1, <2>2, ConcatProperties DEF Redial, agentVars
    <3> HIDE DEF Q
    <3>2. up' \in [Nodes -> Q] /\ outbox' \in [Nodes -> Q]
      BY <1>1, <3>1
    <3> QED
      BY <1>1, <3>1, <3>2 DEF RefusedRightly, Q
  <2>3. CASE Handshake(n)
    BY <1>2, <2>3 DEF Handshake, wireVars, agentVars
  <2>4. ASSUME NEW j \in jobs[n], DockerStep(n, j.cmd) PROVE RefusedRightly'
    <3>1. UNCHANGED <<up, outbox>>
      BY <2>4, DockerTrail
    <3>2. \A p \in Nodes : \A i \in jobs'[p] : i.cmd \in Command
      <4>1. TypeOK'
        BY StepTypes
      <4> QED
        BY <4>1 DEF TypeOK, AgentTypeOK, Job
    <3>3. \A p \in Nodes : \A i \in jobs'[p] : i.step = "refused" => Futile(i.cmd)'
      BY <1>1, <2>4, <3>2, DockerRightly, FutileStays DEF Orderly
    <3> QED
      BY <1>1, <3>1, <3>3 DEF RefusedRightly
  <2>5. ASSUME NEW j \in jobs[n], Finish(n, j) PROVE RefusedRightly'
    <3>1. Emit(n, Answer(j)) /\ \A p \in Nodes : jobs'[p] \subseteq jobs[p]
      BY <2>5 DEF Finish, TypeOK, AgentTypeOK
    <3>2. j \in Job /\ j.step \in {"performed", "refused"}
      BY <2>5 DEF TypeOK, AgentTypeOK, Finish
    <3>3. /\ [kind |-> "ack", cmd |-> j.cmd] \in Rightful'
          /\ j.step = "refused" => [kind |-> "error", cmd |-> j.cmd] \in Rightful'
          /\ j.cmd.verb \in DOMAIN Closing => [kind |-> "closing", cmd |-> j.cmd] \in Rightful'
      BY <1>1, <3>2 DEF Rightful, Report, StatusReport, Job
    <3>4. ClosingReport(j.cmd) \in Q
      BY <3>3 DEF ClosingReport
    <3>5. Answer(j) \in Q
      <4>1. j.step \in {"performed", "refused"}
        BY <3>2 DEF Job
      <4>2. <<[kind |-> "ack", cmd |-> j.cmd]>> \in Q
        BY <3>3
      <4>3. j.step = "refused" => <<[kind |-> "error", cmd |-> j.cmd]>> \in Q
        BY <3>3
      <4> QED
        BY <3>4, <4>1, <4>2, <4>3 DEF Answer
    <3> QED
      BY <1>1, <1>3, <3>1, <3>5 DEF RefusedRightly
  <2> QED
    BY <1>5, <2>1, <2>2, <2>3, <2>4, <2>5 DEF AgentStep
<1>6. ~Fault /\ \A m \in pending : ~Timeout(m)
  BY DEF Fault, ApiRestart, Disconnect, AgentRestart, LateRegister, Timeout
<1> QED
  BY <1>2, <1>4, <1>5, <1>6 DEF Next, CreateStep, BeginCreate, PickPorts, RangeExhausted, InsertRow,
     SendCreate, RemoveFailed, RequestStep, LoadRow, SendRequest, ReloadRow, RemoveRow,
     ApplyStatus, wireVars, agentVars, vars

\* A registered agent that nothing happens to stays registered.
LEMMA StepReach ==
  ASSUME WithinReach, Troubles = {}, [Next]_vars
  PROVE  WithinReach'
<1>1. \A n \in Nodes : ~Register(n) /\ ~ApiNotices(n)
  BY DEF WithinReach, Register, ApiNotices
<1>2. ASSUME NEW n \in Nodes, AgentStep(n) PROVE reg' = reg
  <2>1. CASE ReceiveCommand(n) \/ Redial(n) \/ \E j \in jobs[n] : Finish(n, j)
    BY <2>1 DEF ReceiveCommand, Redial, Reconnect, Finish
  <2>2. CASE Handshake(n)
    BY <1>1, <2>2 DEF Handshake, AgentNotices
  <2>3. CASE \E j \in jobs[n] : DockerStep(n, j.cmd)
    BY <2>3 DEF DockerStep, DockerPerforms, DockerRefuses, RestartFallsOver, DockerOutlives
  <2> QED
    BY <1>2, <2>1, <2>2, <2>3 DEF AgentStep
<1>3. ~Fault
  BY DEF Fault, ApiRestart, Disconnect, AgentRestart, LateRegister
<1>4. reg' = reg
  BY <1>2, <1>3 DEF Next, CreateStep, BeginCreate, PickPorts, RangeExhausted, InsertRow, SendCreate,
     RemoveFailed, RequestStep, LoadRow, SendRequest, ReloadRow, RemoveRow, ReceiveReport,
     Timeout, ApplyStatus, linkVars, vars
<1> QED
  BY <1>4 DEF WithinReach

LEMMA StepOrderly ==
  ASSUME TypeOK, HonestReports, Promises, Books, Trail, Progress, Orderly, Troubles = {}, [Next]_vars
  PROVE  Orderly'
<1>1. OnlyCreatingCreates'
  <2> SUFFICES ASSUME NEW s \in Servers, create'[s].pc # "creating" PROVE Spent(s)'
    BY DEF OnlyCreatingCreates
  <2>1. CASE container[s].state # "none"
    BY <2>1, SpentStays DEF Spent
  <2>2. CASE container[s].state = "none"
    <3>1. create[s].pc # "creating"
      BY <2>2, CreationMoves DEF Early
    <3>2. Fresh(s)
      BY <2>2, <3>1 DEF Orderly, OnlyCreatingCreates, Spent
    <3>3. ~SendCreate(s)
      <4>1. create \in [Servers -> Creation]
        BY DEF TypeOK
      <4>2. Connected(s)
        BY <4>1 DEF Connected, NodeOf, Orderly, WithinReach, Creation
      <4> QED
        BY <4>1, <4>2 DEF SendCreate, Proceed, Creation
    <3> QED
      BY <3>2, <3>3, FreshRemains DEF Spent
  <2> QED
    BY <2>1, <2>2
<1>2. GivenUpIsGone'
  <2> SUFFICES ASSUME NEW s \in Servers, create'[s].pc \in {"removing", "failed"}
               PROVE  container'[s].state \notin Alive
    BY DEF GivenUpIsGone
  <2>1. CASE create[s].pc \in {"removing", "failed"}
    BY <2>1, SpentStays DEF Orderly, OnlyCreatingCreates, GivenUpIsGone
  <2>2. CASE create[s].pc \in Early /\ UNCHANGED container
    BY <2>2 DEF Books, EarlyIsFresh, Fresh, Alive
  <2>3. CASE UNCHANGED container /\ container[s].state \notin Alive
    BY <2>3
  <2> QED
    BY <2>1, <2>2, <2>3, CreationMoves DEF Early
<1> QED
  BY <1>1, <1>2, StepReach, StepRightly DEF Orderly

(***************************************************************************)
(* What port-allocator.service.ts says of rows, for any servers, callers,  *)
(* nodes and templates: while nothing goes wrong, a row only disappears    *)
(* once its container is deleted, also when creations that overlap give    *)
(* two servers the same port and Docker refuses to start the second.       *)
(***************************************************************************)
THEOREM CalmRowsOutlive == Spec => [](Troubles = {} => RowOutlivesContainer)
<1> DEFINE Inv == Books /\ Trail /\ (Troubles = {} => Orderly)
<1>1. Init => Inv
  <2>1. Init => Orderly
    BY DEF Init, AgentInit, LinkInit, Orderly, WithinReach, RefusedRightly, OnlyCreatingCreates,
           Spent, Fresh, Unsent, GivenUpIsGone, Alive
  <2> QED
    BY <2>1, InitBooks, InitTrail
<1>2. IInv /\ Inv /\ [Next]_vars => Inv'
  <2> SUFFICES ASSUME IInv, Inv, [Next]_vars PROVE Inv'
    OBVIOUS
  <2>1. TypeOK /\ HonestReports /\ Promises
    BY DEF IInv
  <2>2. Progress
    BY <2>1, StepProgress DEF Trail, SentIsSendable
  <2>3. Books' /\ Trail'
    BY <2>1, StepBooks, StepTrail
  <2> QED
    BY <2>1, <2>2, <2>3, StepOrderly
<1>3. IInv /\ Inv => (Troubles = {} => RowOutlivesContainer)
  <2> SUFFICES ASSUME Inv, Troubles = {}, NEW s \in Servers, row[s] = NoRow
               PROVE  container[s].state \notin Alive
    BY DEF RowOutlivesContainer
  <2>1. create[s].pc = "failed" \/ Removed(s) \/ Fresh(s)
    BY DEF Books, RowlessIsExplained
  <2> QED
    BY <2>1 DEF Orderly, GivenUpIsGone, Removed, Fresh, Alive
<1> HIDE DEF Inv
<1> QED
  BY <1>1, <1>2, <1>3, Invariance, PTL DEF Spec
=============================================================================
