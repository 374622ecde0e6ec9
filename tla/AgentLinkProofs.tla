-------------------------- MODULE AgentLinkProofs --------------------------
(***************************************************************************)
(* Proofs about AgentLink, for any nodes and however many connections and  *)
(* faults: its invariants, and that every step of the handshake is a step  *)
(* of NodeLink.                                                            *)
(***************************************************************************)
EXTENDS AgentLink, SequenceTheorems, TLAPS

(***************************************************************************)
(* What the two ends of a node's connections agree on.  Only the last one  *)
(* can be open, and only while the agent is on it; the gateway gives up    *)
(* none that is not cut.                                                   *)
(***************************************************************************)
Sockets(n) ==
  /\ Online(n) => Len(conn[n]) > 0
  /\ \A c \in DOMAIN conn[n] :
       /\ conn[n][c].net = "open" => c = Len(conn[n]) /\ Online(n)
       /\ conn[n][c].api = "closed" => conn[n][c].net = "cut"

Entry(n) ==
  entry[n] # NoEntry => /\ n \in Trusted /\ entry[n] \in DOMAIN conn[n]
                        /\ conn[n][entry[n]].api = "open"

NodeInv(n) == Sockets(n) /\ Entry(n)

IInv == TypeOK /\ \A n \in Nodes : NodeInv(n)

links == [n \in Nodes |-> LinkOf(n)]
regs  == [n \in Nodes |-> RegOf(n)]

-----------------------------------------------------------------------------
(* Sequences of connections *)

LEMMA OpenedConn ==
  ASSUME NEW s \in Seq(Connection), NEW e \in Connection
  PROVE  /\ Append(s, e) \in Seq(Connection) /\ Len(Append(s, e)) = Len(s) + 1
         /\ DOMAIN Append(s, e) = 1 .. Len(s) + 1 /\ DOMAIN s = 1 .. Len(s)
         /\ \A c \in DOMAIN s : Append(s, e)[c] = s[c]
         /\ Append(s, e)[Len(s) + 1] = e /\ Len(s) \in Nat
BY LenProperties, AppendProperties

LEMMA ChangedConn ==
  ASSUME NEW s \in Seq(Connection), NEW c \in DOMAIN s, NEW e \in Connection
  PROVE  /\ [s EXCEPT ![c] = e] \in Seq(Connection) /\ Len([s EXCEPT ![c] = e]) = Len(s)
         /\ DOMAIN [s EXCEPT ![c] = e] = DOMAIN s
         /\ \A d \in DOMAIN s : [s EXCEPT ![c] = e][d] = IF d = c THEN e ELSE s[d]
BY LenProperties, ExceptSeq

LEMMA CutConn ==
  ASSUME NEW s \in Seq(Connection)
  PROVE  /\ CutAll(s) \in Seq(Connection) /\ Len(CutAll(s)) = Len(s)
         /\ DOMAIN CutAll(s) = DOMAIN s
         /\ \A c \in DOMAIN s : CutAll(s)[c] = [net |-> "cut", api |-> s[c].api]
<1>1. s \in [1 .. Len(s) -> Connection] /\ Len(s) \in Nat
  BY LenProperties
<1>2. CutAll(s) \in [1 .. Len(s) -> Connection]
  BY <1>1 DEF CutAll, Connection
<1>3. CutAll(s) \in Seq(Connection)
  BY <1>1, <1>2
<1> QED
  BY <1>1, <1>2, <1>3, LenProperties DEF CutAll

LEMMA ClosedConn ==
  ASSUME NEW s \in Seq(Connection), NEW t,
         t = [c \in DOMAIN s |-> [net |-> "cut", api |-> "closed"]]
  PROVE  /\ t \in Seq(Connection) /\ Len(t) = Len(s) /\ DOMAIN t = DOMAIN s
         /\ \A c \in DOMAIN s : t[c] = [net |-> "cut", api |-> "closed"]
<1>1. s \in [1 .. Len(s) -> Connection] /\ Len(s) \in Nat
  BY LenProperties
<1>2. t \in [1 .. Len(s) -> Connection]
  BY <1>1 DEF Connection
<1>3. t \in Seq(Connection)
  BY <1>1, <1>2
<1> QED
  BY <1>1, <1>2, <1>3, LenProperties

-----------------------------------------------------------------------------
(* Steps of one node *)

\* A step that leaves a node's sockets and its entry alone.
LEMMA Elsewhere ==
  ASSUME NEW m \in Nodes,
         client'[m] = client[m], conn'[m] = conn[m], entry'[m] = entry[m]
  PROVE  NodeInv(m)' = NodeInv(m) /\ LinkOf(m)' = LinkOf(m) /\ RegOf(m)' = RegOf(m)
BY DEF NodeInv, Sockets, Entry, LinkOf, RegOf, Works, Online, Current

\* A step of one node changes one value of the mapped variables.
LEMMA Mapped ==
  ASSUME NEW n \in Nodes,
         \A m \in Nodes \ {n} : LinkOf(m)' = LinkOf(m) /\ RegOf(m)' = RegOf(m)
  PROVE  /\ links' = [links EXCEPT ![n] = LinkOf(n)']
         /\ regs' = [regs EXCEPT ![n] = RegOf(n)']
         /\ links[n] = LinkOf(n) /\ regs[n] = RegOf(n)
         /\ LinkOf(n)' = LinkOf(n) => links' = links
         /\ RegOf(n)' = RegOf(n) => regs' = regs
BY DEF links, regs

-----------------------------------------------------------------------------
(* The actions: what they do to a node's sockets, and what NodeLink sees *)

\* The other nodes of a step of n.
Local(n) == \A m \in Nodes \ {n} : /\ client'[m] = client[m] /\ conn'[m] = conn[m]
                                   /\ entry'[m] = entry[m]

LEMMA SendTypes ==
  ASSUME TypeOK, NEW n \in Nodes, NEW msg \in Message, Send(n, msg)
  PROVE  wire' \in [Nodes -> [Conns -> Seq(Message)]] /\ outbox' \in [Nodes -> Seq(Message)]
<1>1. outbox' \in [Nodes -> Seq(Message)]
  BY DEF Send, TypeOK
<1>2. ASSUME NEW c \in Conns
      PROVE  [wire EXCEPT ![n][c] = Append(@, msg)] \in [Nodes -> [Conns -> Seq(Message)]]
  <2>1. wire[n] \in [Conns -> Seq(Message)] /\ wire[n][c] \in Seq(Message)
    BY DEF TypeOK
  <2>2. Append(wire[n][c], msg) \in Seq(Message)
    BY <2>1
  <2>3. [wire[n] EXCEPT ![c] = Append(@, msg)] \in [Conns -> Seq(Message)]
    BY <2>1, <2>2
  <2> QED
    BY <2>3 DEF TypeOK
<1>3. ASSUME NEW c, c \notin Conns
      PROVE  [wire EXCEPT ![n][c] = Append(@, msg)] = wire
  <2>1. wire \in [Nodes -> [Conns -> Seq(Message)]] /\ wire[n] \in [Conns -> Seq(Message)]
    BY DEF TypeOK
  <2>2. [wire[n] EXCEPT ![c] = Append(@, msg)] = wire[n]
    BY <2>1, <1>3
  <2> QED
    BY <2>1, <2>2
<1> QED
  BY <1>1, <1>2, <1>3 DEF Send, TypeOK

\* What an agent sends changes no socket.
LEMMA QuietStep ==
  ASSUME IInv, NEW n \in Nodes, SendRegister(n) \/ Beat(n) \/ ReceiveRegistered(n)
  PROVE  TypeOK' /\ UNCHANGED <<client, conn, entry>>
<1>1. CASE SendRegister(n)
  <2>1. wire' \in [Nodes -> [Conns -> Seq(Message)]] /\ outbox' \in [Nodes -> Seq(Message)]
    BY <1>1, SendTypes DEF IInv, SendRegister, Message
  <2>2. collecting' \in [Nodes -> Nat]
    BY <1>1 DEF IInv, TypeOK, SendRegister
  <2> QED
    BY <1>1, <2>1, <2>2 DEF IInv, TypeOK, SendRegister
<1>2. CASE Beat(n)
  <2>1. wire' \in [Nodes -> [Conns -> Seq(Message)]] /\ outbox' \in [Nodes -> Seq(Message)]
    BY <1>2, SendTypes DEF IInv, Beat, Message
  <2> QED
    BY <1>2, <2>1 DEF IInv, TypeOK, Beat
<1>3. CASE ReceiveRegistered(n)
  <2>1. reply' \in [Nodes -> SUBSET Conns] /\ beating' \in [Nodes -> BOOLEAN]
    BY <1>3 DEF IInv, TypeOK, ReceiveRegistered
  <2> QED
    BY <1>3, <2>1 DEF IInv, TypeOK, ReceiveRegistered
<1> QED
  BY <1>1, <1>2, <1>3

LEMMA ConnectStep ==
  ASSUME IInv, NEW n \in Nodes, Connect(n)
  PROVE  /\ TypeOK' /\ NodeInv(n)' /\ Local(n)
         /\ LinkOf(n) = "offline" /\ LinkOf(n)' = "up" /\ RegOf(n)' = RegOf(n)
<1> DEFINE new == [net |-> "open", api |-> "open"]
<1>1. /\ client \in [Nodes -> {"online", "offline", "refused"}] /\ client[n] = "offline"
      /\ conn \in [Nodes -> Seq(Connection)] /\ conn[n] \in Seq(Connection)
      /\ entry \in [Nodes -> {NoEntry} \cup Conns] /\ new \in Connection
  BY DEF IInv, TypeOK, Connect, Connection
<1>2. /\ conn' = [conn EXCEPT ![n] = Append(conn[n], new)]
      /\ client' = [client EXCEPT ![n] = "online"] /\ entry' = entry
  BY DEF Connect
<1> HIDE DEF new
<1>3. /\ conn'[n] = Append(conn[n], new) /\ conn'[n] \in Seq(Connection)
      /\ Len(conn'[n]) = Len(conn[n]) + 1 /\ Len(conn[n]) \in Nat
      /\ DOMAIN conn[n] = 1 .. Len(conn[n]) /\ DOMAIN conn'[n] = 1 .. Len(conn[n]) + 1
      /\ \A c \in DOMAIN conn[n] : conn'[n][c] = conn[n][c]
      /\ conn'[n][Len(conn[n]) + 1] = new
  BY <1>1, <1>2, OpenedConn
<1>4. conn' \in [Nodes -> Seq(Connection)]
  BY <1>1, <1>2, <1>3
<1>5. TypeOK'
  <2>1. Len(conn[n]) + 1 \in Conns
    BY <1>3, BoundsAssumption DEF Connect, Conns
  <2>2. wire' \in [Nodes -> [Conns -> Seq(Message)]]
    <3>1. wire[n] \in [Conns -> Seq(Message)] /\ outbox[n] \in Seq(Message)
      BY DEF IInv, TypeOK
    <3>2. [wire[n] EXCEPT ![Len(conn[n]) + 1] = outbox[n]] \in [Conns -> Seq(Message)]
      BY <2>1, <3>1
    <3> QED
      BY <3>2 DEF IInv, TypeOK, Connect
  <2>3. outbox' \in [Nodes -> Seq(Message)] /\ collecting' \in [Nodes -> Nat]
    BY DEF IInv, TypeOK, Connect
  <2> QED
    BY <1>1, <1>2, <1>4, <2>2, <2>3 DEF IInv, TypeOK, Connect
<1>6. \A c \in DOMAIN conn[n] :
        conn[n][c].net # "open" /\ (conn[n][c].api = "closed" => conn[n][c].net = "cut")
  BY <1>1 DEF IInv, NodeInv, Sockets, Online
<1>7. new.net = "open" /\ new.api = "open"
  BY DEF new
<1>8. client'[n] = "online" /\ Local(n) /\ entry'[n] = entry[n]
  BY <1>1, <1>2 DEF Local
<1>9. Sockets(n)'
  BY <1>3, <1>6, <1>7, <1>8 DEF Sockets, Online
<1>10. Entry(n)'
  BY <1>3, <1>8 DEF Entry, IInv, NodeInv
<1>11. entry[n] # NoEntry => entry[n] \in 1 .. Len(conn[n])
  BY <1>3 DEF IInv, NodeInv, Entry
<1> QED
  BY <1>1, <1>3, <1>5, <1>7, <1>8, <1>9, <1>10, <1>11
     DEF NodeInv, LinkOf, RegOf, Works, Online, Current

LEMMA NoticeStep ==
  ASSUME IInv, NEW n \in Nodes, NoticeLoss(n)
  PROVE  /\ TypeOK' /\ NodeInv(n)' /\ Local(n)
         /\ LinkOf(n) = "broken" /\ LinkOf(n)' = "offline" /\ RegOf(n)' = RegOf(n)
<1>1. /\ client[n] = "online" /\ client' = [client EXCEPT ![n] = "offline"]
      /\ UNCHANGED <<conn, entry>> /\ conn[n][Len(conn[n])].net = "cut"
      /\ client \in [Nodes -> {"online", "offline", "refused"}]
  BY DEF NoticeLoss, Online, Current, IInv, TypeOK
<1>2. TypeOK'
  BY <1>1 DEF IInv, TypeOK, NoticeLoss
<1>3. Sockets(n)' /\ Entry(n)'
  BY <1>1 DEF IInv, NodeInv, Sockets, Entry, Online
<1> QED
  BY <1>1, <1>2, <1>3 DEF NodeInv, LinkOf, RegOf, Works, Online, Current, Local

\* A register message of a trusted node: the entry is now the socket it came on.
LEMMA AcceptStep ==
  ASSUME IInv, NEW n \in Nodes, NEW c \in Conns, Receive(n, c), Accept(n, c)
  PROVE  /\ NodeInv(n)' /\ Local(n) /\ UNCHANGED <<client, conn>>
         /\ entry' \in [Nodes -> {NoEntry} \cup Conns] /\ overtaken' \subseteq Trusted
         /\ reply' \in [Nodes -> SUBSET Conns] /\ LinkOf(n)' = LinkOf(n)
         /\ \/ RegOf(n)' = RegOf(n)
            \/ LinkOf(n) = "up" /\ RegOf(n) # "live" /\ RegOf(n)' = "live"
            \/ RegOf(n) \in {"live", "none"} /\ RegOf(n)' = "stale"
<1>1. /\ n \in Trusted /\ entry' = [entry EXCEPT ![n] = c] /\ UNCHANGED <<client, conn>>
      /\ c \in DOMAIN conn[n] /\ conn[n][c].api = "open" /\ c # NoEntry
      /\ entry \in [Nodes -> {NoEntry} \cup Conns]
  BY DEF Accept, Receive, IInv, TypeOK, Conns, NoEntry
<1>2. entry'[n] = c /\ entry' \in [Nodes -> {NoEntry} \cup Conns] /\ Local(n)
  BY <1>1 DEF Local
<1>3. overtaken' \subseteq Trusted /\ reply' \in [Nodes -> SUBSET Conns]
  BY <1>1 DEF Accept, IInv, TypeOK
<1>4. Sockets(n)' /\ Entry(n)'
  BY <1>1, <1>2 DEF IInv, NodeInv, Sockets, Entry, Online
<1>5. LinkOf(n)' = LinkOf(n)
  BY <1>1 DEF LinkOf, Works, Online, Current
<1>6. RegOf(n)' = IF Works(n) /\ c = Current(n) THEN "live" ELSE "stale"
  BY <1>1, <1>2 DEF RegOf, Works, Online, Current
<1>7. RegOf(n) \in {"none", "live", "stale"}
  BY DEF RegOf
<1>8. \/ RegOf(n)' = RegOf(n)
      \/ LinkOf(n) = "up" /\ RegOf(n) # "live" /\ RegOf(n)' = "live"
      \/ RegOf(n) \in {"live", "none"} /\ RegOf(n)' = "stale"
  <2>1. CASE Works(n) /\ c = Current(n)
    BY <1>6, <1>7, <2>1 DEF LinkOf
  <2>2. CASE ~(Works(n) /\ c = Current(n))
    BY <1>6, <1>7, <2>2
  <2> QED
    BY <2>1, <2>2
<1> QED
  BY <1>1, <1>2, <1>3, <1>4, <1>5, <1>8 DEF NodeInv

\* One of a node without the secret: its socket is closed, and nothing more.
LEMMA RejectStep ==
  ASSUME IInv, NEW n \in Nodes, NEW c \in Conns, Receive(n, c), Reject(n, c)
  PROVE  /\ NodeInv(n)' /\ Local(n) /\ UNCHANGED <<reply, overtaken>>
         /\ client' \in [Nodes -> {"online", "offline", "refused"}]
         /\ conn' \in [Nodes -> Seq(Connection)] /\ entry' = entry
         /\ RegOf(n) = "none" /\ RegOf(n)' = "none"
         /\ LinkOf(n)' = "offline" \/ LinkOf(n)' = LinkOf(n)
<1> DEFINE dead == [net |-> "cut", api |-> "closed"]
<1>1. /\ n \notin Trusted /\ c \in DOMAIN conn[n] /\ dead \in Connection
      /\ conn' = [conn EXCEPT ![n] = [conn[n] EXCEPT ![c] = dead]]
      /\ client' = [client EXCEPT ![n] = IF Works(n) /\ c = Current(n) THEN "refused" ELSE @]
      /\ conn \in [Nodes -> Seq(Connection)] /\ conn[n] \in Seq(Connection)
      /\ client \in [Nodes -> {"online", "offline", "refused"}]
      /\ UNCHANGED <<reply, overtaken>>
  BY DEF Receive, Reject, Connection, IInv, TypeOK
<1>2. entry[n] = NoEntry
  BY <1>1 DEF IInv, NodeInv, Entry
<1>3. entry' = entry
  BY <1>2 DEF Reject, Unregister, IInv, TypeOK
<1>4. dead.net = "cut" /\ dead.api = "closed"
  OBVIOUS
<1> HIDE DEF dead
<1>5. /\ conn'[n] \in Seq(Connection) /\ Len(conn'[n]) = Len(conn[n])
      /\ DOMAIN conn'[n] = DOMAIN conn[n]
      /\ \A d \in DOMAIN conn[n] : conn'[n][d] = IF d = c THEN dead ELSE conn[n][d]
  BY <1>1, ChangedConn
<1>6. /\ conn' \in [Nodes -> Seq(Connection)] /\ Local(n)
      /\ client' \in [Nodes -> {"online", "offline", "refused"}]
  BY <1>1, <1>3, <1>5 DEF Local
<1>7. client'[n] = IF Works(n) /\ c = Current(n) THEN "refused" ELSE client[n]
  BY <1>1
<1>8. /\ Online(n) => Len(conn[n]) > 0
      /\ \A d \in DOMAIN conn[n] :
           /\ conn[n][d].net = "open" => d = Len(conn[n]) /\ Online(n)
           /\ conn[n][d].api = "closed" => conn[n][d].net = "cut"
  BY DEF IInv, NodeInv, Sockets
<1>9. \A d \in DOMAIN conn[n] : conn'[n][d].net = "open" => d # c /\ conn[n][d].net = "open"
  BY <1>4, <1>5
<1>10. Online(n)' => Online(n)
  BY <1>7 DEF Online
<1>11. \A d \in DOMAIN conn[n] : conn'[n][d].net = "open" => Online(n)'
  <2> SUFFICES ASSUME NEW d \in DOMAIN conn[n], conn'[n][d].net = "open" PROVE Online(n)'
    OBVIOUS
  <2>1. d = Len(conn[n]) /\ Online(n) /\ d # c
    BY <1>8, <1>9
  <2> QED
    BY <2>1, <1>7 DEF Current, Online
<1>12. Sockets(n)'
  BY <1>4, <1>5, <1>8, <1>9, <1>10, <1>11 DEF Sockets
<1>13. Entry(n)' /\ RegOf(n) = "none" /\ RegOf(n)' = "none"
  BY <1>2, <1>3 DEF Entry, RegOf
<1>14. CASE Works(n) /\ c = Current(n)
  BY <1>6, <1>7, <1>12, <1>13, <1>14, <1>1, <1>3 DEF NodeInv, LinkOf, Works, Online
<1>15. CASE ~(Works(n) /\ c = Current(n))
  <2>1. client'[n] = client[n] /\ Len(conn'[n]) = Len(conn[n])
    BY <1>5, <1>7, <1>15
  <2>2. Online(n) => Len(conn[n]) \in DOMAIN conn[n]
    BY <1>1, <1>8, LenProperties
  <2>3. Works(n)' = Works(n)
    BY <2>1, <2>2, <1>4, <1>5, <1>15 DEF Works, Online, Current
  <2> QED
    BY <2>1, <2>3, <1>6, <1>12, <1>13, <1>1, <1>3 DEF NodeInv, LinkOf, Online
<1> QED
  BY <1>14, <1>15

\* Either message, or a late heartbeat: one step of NodeLink, or none.
LEMMA ReceiveStep ==
  ASSUME IInv, NEW n \in Nodes, NEW c \in Conns, Receive(n, c)
  PROVE  /\ TypeOK' /\ NodeInv(n)' /\ Local(n)
         /\ \/ LinkOf(n)' = LinkOf(n) /\ RegOf(n)' = RegOf(n)
            \/ /\ LinkOf(n) = "up" /\ RegOf(n) # "live"
               /\ RegOf(n)' = "live" /\ LinkOf(n)' = LinkOf(n)
            \/ /\ RegOf(n) \in {"live", "none"}
               /\ RegOf(n)' = "stale" /\ LinkOf(n)' = LinkOf(n)
            \/ LinkOf(n)' = "offline" /\ RegOf(n) = "none" /\ RegOf(n)' = "none"
<1>1. wire' \in [Nodes -> [Conns -> Seq(Message)]]
  <2>1. wire[n] \in [Conns -> Seq(Message)] /\ wire[n][c] \in Seq(Message) /\ wire[n][c] # <<>>
    BY DEF Receive, IInv, TypeOK
  <2>2. Tail(wire[n][c]) \in Seq(Message)
    BY <2>1
  <2>3. [wire[n] EXCEPT ![c] = Tail(@)] \in [Conns -> Seq(Message)]
    BY <2>1, <2>2
  <2> QED
    BY <2>3 DEF Receive, IInv, TypeOK
<1>2. UNCHANGED <<outbox, collecting, beating, faults>>
  BY DEF Receive
<1>3. CASE Accept(n, c)
  <2>1. TypeOK'
    BY <1>1, <1>2, <1>3, AcceptStep DEF IInv, TypeOK
  <2> QED
    BY <1>3, <2>1, AcceptStep
<1>4. CASE Reject(n, c)
  <2>1. TypeOK'
    BY <1>1, <1>2, <1>4, RejectStep DEF IInv, TypeOK
  <2> QED
    BY <1>4, <2>1, RejectStep
<1>5. CASE UNCHANGED <<client, conn, reply, entry, overtaken>>
  <2>1. TypeOK'
    BY <1>1, <1>2, <1>5 DEF IInv, TypeOK
  <2>2. NodeInv(n)' = NodeInv(n) /\ LinkOf(n)' = LinkOf(n) /\ RegOf(n)' = RegOf(n)
    BY <1>5, Elsewhere
  <2> QED
    BY <1>5, <2>1, <2>2 DEF IInv, Local
<1> QED
  BY <1>3, <1>4, <1>5 DEF Receive

\* The gateway hears of a dead socket; only the entry that holds it goes.
LEMMA DetectStep ==
  ASSUME IInv, NEW n \in Nodes, NEW c \in Conns, DetectDisconnect(n, c)
  PROVE  /\ TypeOK' /\ NodeInv(n)' /\ Local(n) /\ LinkOf(n)' = LinkOf(n)
         /\ \/ RegOf(n)' = RegOf(n)
            \/ RegOf(n) = "stale" /\ RegOf(n)' = "none"
<1> DEFINE dead == [net |-> "cut", api |-> "closed"]
<1>1. /\ c \in DOMAIN conn[n] /\ conn[n][c].net = "cut"
      /\ conn \in [Nodes -> Seq(Connection)] /\ conn[n] \in Seq(Connection)
      /\ entry \in [Nodes -> {NoEntry} \cup Conns] /\ client' = client
      /\ c # NoEntry
  BY DEF DetectDisconnect, IInv, TypeOK, Conns, NoEntry
<1>2. dead \in Connection /\ [conn[n][c] EXCEPT !.api = "closed"] = dead
  <2>1. conn[n][c] \in Connection
    BY <1>1, LenProperties
  <2> QED
    BY <1>1, <2>1 DEF Connection
<1>3. conn' = [conn EXCEPT ![n] = [conn[n] EXCEPT ![c] = dead]]
  BY <1>2 DEF DetectDisconnect
<1>4. dead.net = "cut" /\ dead.api = "closed"
  OBVIOUS
<1> HIDE DEF dead
<1>5. /\ conn'[n] \in Seq(Connection) /\ Len(conn'[n]) = Len(conn[n])
      /\ DOMAIN conn'[n] = DOMAIN conn[n]
      /\ \A d \in DOMAIN conn[n] : conn'[n][d] = IF d = c THEN dead ELSE conn[n][d]
  BY <1>1, <1>2, <1>3, ChangedConn
<1>6. /\ entry' = [entry EXCEPT ![n] = IF @ = c THEN NoEntry ELSE @]
      /\ entry' \in [Nodes -> {NoEntry} \cup Conns]
  BY <1>1 DEF DetectDisconnect, Unregister
<1>7. entry'[n] = IF entry[n] = c THEN NoEntry ELSE entry[n]
  BY <1>1, <1>6
<1>8. conn' \in [Nodes -> Seq(Connection)] /\ Local(n)
  BY <1>1, <1>3, <1>5, <1>6 DEF Local
<1>9. TypeOK'
  BY <1>6, <1>8 DEF DetectDisconnect, IInv, TypeOK
<1>10. Sockets(n)'
  BY <1>1, <1>4, <1>5 DEF IInv, NodeInv, Sockets, Online
<1>11. Entry(n)'
  BY <1>5, <1>7 DEF IInv, NodeInv, Entry
<1>12. Online(n) => Len(conn[n]) \in DOMAIN conn[n]
  BY <1>1, LenProperties DEF IInv, NodeInv, Sockets
<1>13. Works(n)' = Works(n) /\ Current(n)' = Current(n) /\ (Works(n) => Current(n) # c)
  BY <1>1, <1>4, <1>5, <1>12 DEF Works, Online, Current
<1>14. LinkOf(n)' = LinkOf(n)
  BY <1>1, <1>13 DEF LinkOf, Online
<1>15. RegOf(n)' = RegOf(n) \/ (RegOf(n) = "stale" /\ RegOf(n)' = "none")
  BY <1>1, <1>7, <1>13 DEF RegOf
<1> QED
  BY <1>8, <1>9, <1>10, <1>11, <1>14, <1>15 DEF NodeInv

\* What a cut does to the sockets of a node.
LEMMA CutSockets ==
  ASSUME IInv, NEW n \in Nodes, conn' = [conn EXCEPT ![n] = CutAll(@)],
         entry' = entry, Online(n)' => Online(n)
  PROVE  /\ conn' \in [Nodes -> Seq(Connection)] /\ NodeInv(n)' /\ ~Works(n)'
         /\ RegOf(n)' = NL!Outdated(RegOf(n))
<1>1. conn \in [Nodes -> Seq(Connection)] /\ conn[n] \in Seq(Connection)
  BY DEF IInv, TypeOK
<1>2. /\ conn'[n] \in Seq(Connection) /\ Len(conn'[n]) = Len(conn[n])
      /\ DOMAIN conn'[n] = DOMAIN conn[n] /\ DOMAIN conn[n] = 1 .. Len(conn[n])
      /\ \A c \in DOMAIN conn[n] : conn'[n][c] = [net |-> "cut", api |-> conn[n][c].api]
  BY <1>1, CutConn, LenProperties
<1>3. Len(conn[n]) \in Nat
  BY <1>1, LenProperties
<1>4. ASSUME NEW c \in DOMAIN conn[n]
      PROVE  conn'[n][c].net = "cut" /\ conn'[n][c].api = conn[n][c].api
  <2>1. conn'[n][c] = [net |-> "cut", api |-> conn[n][c].api]
    BY <1>2
  <2> QED
    BY <2>1
<1>5. conn' \in [Nodes -> Seq(Connection)]
  BY <1>1, <1>2
<1>6. Sockets(n)'
  BY <1>2, <1>4 DEF IInv, NodeInv, Sockets
<1>7. Entry(n)'
  BY <1>2, <1>4 DEF IInv, NodeInv, Entry
<1>8. ~Works(n)'
  BY <1>2, <1>3, <1>4 DEF IInv, NodeInv, Sockets, Works, Current
<1>9. RegOf(n)' = NL!Outdated(RegOf(n))
  BY <1>8 DEF RegOf, NL!Outdated
<1> QED
  BY <1>5, <1>6, <1>7, <1>8, <1>9 DEF NodeInv

LEMMA LeftOver ==
  ASSUME IInv, NEW n \in Nodes, NEW left \in Remains(n), wire' = [wire EXCEPT ![n] = left]
  PROVE  wire' \in [Nodes -> [Conns -> Seq(Message)]]
<1>1. wire[n] \in [Conns -> Seq(Message)] /\ wire \in [Nodes -> [Conns -> Seq(Message)]]
  BY DEF IInv, TypeOK
<1>2. [c \in Conns |-> <<>>] \in [Conns -> Seq(Message)]
  OBVIOUS
<1>3. left \in [Conns -> Seq(Message)]
  BY <1>1, <1>2 DEF Remains
<1> QED
  BY <1>1, <1>3

LEMMA CutStep ==
  ASSUME IInv, NEW n \in Nodes, Cut(n), faults' \in 0 .. MaxFaults
  PROVE  /\ TypeOK' /\ NodeInv(n)' /\ Local(n) /\ LinkOf(n) = "up" /\ LinkOf(n)' = "broken"
         /\ RegOf(n)' = NL!Outdated(RegOf(n))
<1>1. /\ conn' = [conn EXCEPT ![n] = CutAll(@)] /\ Works(n) /\ UNCHANGED <<client, entry>>
      /\ conn \in [Nodes -> Seq(Connection)]
  BY DEF Cut, IInv, TypeOK
<1>2. /\ conn' \in [Nodes -> Seq(Connection)] /\ NodeInv(n)' /\ ~Works(n)'
      /\ RegOf(n)' = NL!Outdated(RegOf(n))
  BY <1>1, CutSockets DEF Online
<1>3. wire' \in [Nodes -> [Conns -> Seq(Message)]]
  BY LeftOver DEF Cut
<1>4. TypeOK'
  BY <1>2, <1>3 DEF Cut, IInv, TypeOK
<1>5. Local(n) /\ LinkOf(n) = "up" /\ LinkOf(n)' = "broken"
  BY <1>1, <1>2 DEF Local, LinkOf, Works, Online
<1> QED
  BY <1>2, <1>4, <1>5

LEMMA AgentRestartStep ==
  ASSUME IInv, NEW n \in Nodes, AgentRestart(n), faults' \in 0 .. MaxFaults
  PROVE  /\ TypeOK' /\ NodeInv(n)' /\ Local(n) /\ LinkOf(n)' = "offline"
         /\ RegOf(n)' = NL!Outdated(RegOf(n))
<1>1. /\ conn' = [conn EXCEPT ![n] = CutAll(@)] /\ entry' = entry
      /\ client' = [client EXCEPT ![n] = "offline"] /\ conn \in [Nodes -> Seq(Connection)]
      /\ client \in [Nodes -> {"online", "offline", "refused"}]
  BY DEF AgentRestart, IInv, TypeOK
<1>2. ~Online(n)'
  BY <1>1 DEF Online
<1>3. /\ conn' \in [Nodes -> Seq(Connection)] /\ NodeInv(n)' /\ ~Works(n)'
      /\ RegOf(n)' = NL!Outdated(RegOf(n))
  BY <1>1, <1>2, CutSockets
<1>4. wire' \in [Nodes -> [Conns -> Seq(Message)]]
  BY LeftOver DEF AgentRestart
<1>5. /\ outbox' \in [Nodes -> Seq(Message)] /\ collecting' \in [Nodes -> Nat]
      /\ beating' \in [Nodes -> BOOLEAN]
  BY DEF AgentRestart, IInv, TypeOK
<1>6. TypeOK'
  BY <1>1, <1>3, <1>4, <1>5 DEF AgentRestart, IInv, TypeOK
<1>7. Local(n) /\ LinkOf(n)' = "offline"
  BY <1>1, <1>2, <1>3 DEF Local, LinkOf
<1> QED
  BY <1>3, <1>6, <1>7

\* The control plane's process: every socket goes, and the whole registry.
LEMMA ApiRestartStep ==
  ASSUME IInv, ApiRestart, faults' \in 0 .. MaxFaults
  PROVE  /\ TypeOK' /\ \A n \in Nodes : NodeInv(n)'
         /\ \A n \in Nodes : /\ LinkOf(n)' = IF LinkOf(n) = "up" THEN "broken" ELSE LinkOf(n)
                             /\ RegOf(n)' = "none"
<1>1. /\ conn' = [n \in Nodes |-> [c \in DOMAIN conn[n] |-> [net |-> "cut", api |-> "closed"]]]
      /\ entry' = [n \in Nodes |-> NoEntry] /\ client' = client
      /\ conn \in [Nodes -> Seq(Connection)]
  BY DEF ApiRestart, IInv, TypeOK
<1>2. ASSUME NEW n \in Nodes
      PROVE  /\ conn'[n] \in Seq(Connection) /\ Len(conn'[n]) = Len(conn[n])
             /\ DOMAIN conn'[n] = DOMAIN conn[n]
             /\ \A c \in DOMAIN conn[n] : conn'[n][c] = [net |-> "cut", api |-> "closed"]
  <2>1. conn'[n] = [c \in DOMAIN conn[n] |-> [net |-> "cut", api |-> "closed"]]
    BY <1>1
  <2>2. conn[n] \in Seq(Connection)
    BY <1>1
  <2> QED
    BY <2>1, <2>2, ClosedConn
<1>3. TypeOK'
  <2>1. conn' \in [Nodes -> Seq(Connection)]
    BY <1>1, <1>2
  <2>2. /\ wire' \in [Nodes -> [Conns -> Seq(Message)]] /\ reply' \in [Nodes -> SUBSET Conns]
        /\ entry' \in [Nodes -> {NoEntry} \cup Conns]
    BY DEF ApiRestart
  <2> QED
    BY <2>1, <2>2 DEF ApiRestart, IInv, TypeOK
<1>4. ASSUME NEW n \in Nodes
      PROVE  /\ NodeInv(n)' /\ RegOf(n)' = "none"
             /\ LinkOf(n)' = IF LinkOf(n) = "up" THEN "broken" ELSE LinkOf(n)
  <2>1. \A c \in DOMAIN conn[n] : conn'[n][c].net = "cut" /\ conn'[n][c].api = "closed"
    BY <1>2
  <2>2. conn[n] \in Seq(Connection) /\ Len(conn[n]) \in Nat /\ DOMAIN conn[n] = 1 .. Len(conn[n])
    BY <1>1, LenProperties
  <2>3. Sockets(n)' /\ Entry(n)' /\ RegOf(n)' = "none"
    BY <1>1, <1>2, <2>1 DEF IInv, NodeInv, Sockets, Entry, RegOf, Online
  <2>4. ~Works(n)'
    BY <1>1, <1>2, <2>1, <2>2 DEF IInv, NodeInv, Sockets, Works, Online, Current
  <2>5. Online(n)' = Online(n) /\ (Works(n) => Online(n))
    BY <1>1 DEF Online, Works
  <2> QED
    BY <2>3, <2>4, <2>5 DEF NodeInv, LinkOf
<1> QED
  BY <1>3, <1>4

-----------------------------------------------------------------------------
(* The theorems *)

LEMMA InitIInv == Init => IInv /\ NL!LinkStart
<1> SUFFICES ASSUME Init PROVE IInv /\ NL!LinkStart
  OBVIOUS
<1>1. conn = [n \in Nodes |-> <<>>] /\ client = [n \in Nodes |-> "offline"]
      /\ entry = [n \in Nodes |-> NoEntry]
  BY DEF Init
<1>2. conn \in [Nodes -> Seq(Connection)] /\ wire \in [Nodes -> [Conns -> Seq(Message)]]
      /\ outbox \in [Nodes -> Seq(Message)]
  BY DEF Init
<1>3. TypeOK
  BY <1>2, BoundsAssumption DEF Init, TypeOK
<1>4. ASSUME NEW n \in Nodes
      PROVE  NodeInv(n) /\ LinkOf(n) = "offline" /\ RegOf(n) = "none"
  <2>1. DOMAIN conn[n] = {} /\ client[n] = "offline" /\ entry[n] = NoEntry
    BY <1>1
  <2> QED
    BY <2>1 DEF NodeInv, Sockets, Entry, LinkOf, RegOf, Works, Online
<1> QED
  BY <1>3, <1>4 DEF IInv, NL!LinkStart

\* What the lemmas on the actions say, put together: the invariant is kept,
\* and NodeLink sees one of its own steps, of one node or of all, or none.
LEMMA StepIInv == IInv /\ [Next]_vars => IInv' /\ [NL!LinkNext]_(NL!linkVars)
<1> SUFFICES ASSUME IInv, [Next]_vars PROVE IInv' /\ [NL!LinkNext]_(NL!linkVars)
  OBVIOUS
<1>1. links = [n \in Nodes |-> LinkOf(n)] /\ regs = [n \in Nodes |-> RegOf(n)]
  BY DEF links, regs
<1>2. ASSUME NEW n \in Nodes, TypeOK', NodeInv(n)', Local(n),
             \/ UNCHANGED <<LinkOf(n), RegOf(n)>>
             \/ LinkOf(n) = "offline" /\ LinkOf(n)' = "up" /\ UNCHANGED RegOf(n)
             \/ LinkOf(n) = "up" /\ RegOf(n) # "live" /\ RegOf(n)' = "live" /\ UNCHANGED LinkOf(n)
             \/ LinkOf(n) = "up" /\ LinkOf(n)' = "broken" /\ RegOf(n)' = NL!Outdated(RegOf(n))
             \/ LinkOf(n) = "broken" /\ LinkOf(n)' = "offline" /\ UNCHANGED RegOf(n)
             \/ RegOf(n) = "stale" /\ RegOf(n)' = "none" /\ UNCHANGED LinkOf(n)
             \/ RegOf(n) \in {"live", "none"} /\ RegOf(n)' = "stale" /\ UNCHANGED LinkOf(n)
             \/ LinkOf(n)' = "offline" /\ RegOf(n)' = NL!Outdated(RegOf(n))
      PROVE  IInv' /\ [NL!LinkNext]_(NL!linkVars)
  <2>1. \A m \in Nodes \ {n} : /\ NodeInv(m)' = NodeInv(m)
                               /\ LinkOf(m)' = LinkOf(m) /\ RegOf(m)' = RegOf(m)
    BY <1>2, Elsewhere DEF Local
  <2>2. IInv'
    BY <1>2, <2>1 DEF IInv
  <2>3. /\ links' = [links EXCEPT ![n] = LinkOf(n)']
        /\ regs' = [regs EXCEPT ![n] = RegOf(n)']
        /\ links[n] = LinkOf(n) /\ regs[n] = RegOf(n)
        /\ LinkOf(n)' = LinkOf(n) => links' = links
        /\ RegOf(n)' = RegOf(n) => regs' = regs
    BY <2>1, Mapped
  <2>4. \/ links' = links /\ regs' = regs
        \/ links[n] = "offline" /\ links' = [links EXCEPT ![n] = "up"] /\ regs' = regs
        \/ links[n] = "up" /\ regs[n] # "live" /\ regs' = [regs EXCEPT ![n] = "live"] /\ links' = links
        \/ /\ links[n] = "up" /\ links' = [links EXCEPT ![n] = "broken"]
           /\ regs' = [regs EXCEPT ![n] = NL!Outdated(regs[n])]
        \/ links[n] = "broken" /\ links' = [links EXCEPT ![n] = "offline"] /\ regs' = regs
        \/ regs[n] = "stale" /\ regs' = [regs EXCEPT ![n] = "none"] /\ links' = links
        \/ regs[n] \in {"live", "none"} /\ regs' = [regs EXCEPT ![n] = "stale"] /\ links' = links
        \/ /\ links' = [links EXCEPT ![n] = "offline"]
           /\ regs' = [regs EXCEPT ![n] = NL!Outdated(regs[n])]
    BY <1>2, <2>3
  <2> QED
    BY <1>1, <2>2, <2>4
       DEF links, regs, NL!LinkNext, NL!linkVars, NL!Reconnect, NL!Register, NL!BreakLink,
           NL!AgentNotices, NL!ApiNotices, NL!Overtake, NL!AgentDies
<1>3. ASSUME NEW n \in Nodes, SendRegister(n) \/ Beat(n) \/ ReceiveRegistered(n)
      PROVE  IInv' /\ [NL!LinkNext]_(NL!linkVars)
  <2>1. TypeOK' /\ UNCHANGED <<client, conn, entry>>
    BY <1>3, QuietStep
  <2>2. NodeInv(n)' = NodeInv(n) /\ LinkOf(n)' = LinkOf(n) /\ RegOf(n)' = RegOf(n)
    BY <2>1, Elsewhere
  <2> QED
    BY <1>2, <2>1, <2>2 DEF Local, IInv
<1>4. ASSUME NEW n \in Nodes, Connect(n)
      PROVE  IInv' /\ [NL!LinkNext]_(NL!linkVars)
  BY <1>2, <1>4, ConnectStep
<1>5. ASSUME NEW n \in Nodes, NoticeLoss(n)
      PROVE  IInv' /\ [NL!LinkNext]_(NL!linkVars)
  BY <1>2, <1>5, NoticeStep
<1>6. ASSUME NEW n \in Nodes, NEW c \in Conns, Receive(n, c)
      PROVE  IInv' /\ [NL!LinkNext]_(NL!linkVars)
  <2>1. NL!Outdated("none") = "none"
    BY DEF NL!Outdated
  <2> QED
    BY <1>2, <1>6, <2>1, ReceiveStep
<1>7. ASSUME NEW n \in Nodes, NEW c \in Conns, DetectDisconnect(n, c)
      PROVE  IInv' /\ [NL!LinkNext]_(NL!linkVars)
  BY <1>2, <1>7, DetectStep
<1>8. ASSUME NEW n \in Nodes, Fault, Cut(n) PROVE IInv' /\ [NL!LinkNext]_(NL!linkVars)
  <2>1. faults' \in 0 .. MaxFaults
    BY <1>8, BoundsAssumption DEF Fault, IInv, TypeOK
  <2> QED
    BY <1>2, <1>8, <2>1, CutStep
<1>9. ASSUME NEW n \in Nodes, Fault, AgentRestart(n) PROVE IInv' /\ [NL!LinkNext]_(NL!linkVars)
  <2>1. faults' \in 0 .. MaxFaults
    BY <1>9, BoundsAssumption DEF Fault, IInv, TypeOK
  <2> QED
    BY <1>2, <1>9, <2>1, AgentRestartStep
<1>10. CASE Fault /\ ApiRestart
  <2>1. faults' \in 0 .. MaxFaults
    BY <1>10, BoundsAssumption DEF Fault, IInv, TypeOK
  <2>2. /\ IInv'
        /\ \A n \in Nodes : /\ LinkOf(n)' = IF LinkOf(n) = "up" THEN "broken" ELSE LinkOf(n)
                            /\ RegOf(n)' = "none"
    BY <1>10, <2>1, ApiRestartStep DEF IInv
  <2>3. NL!ApiDies
    BY <2>2 DEF NL!ApiDies
  <2> QED
    BY <2>2, <2>3 DEF NL!LinkNext
<1>11. CASE UNCHANGED vars
  <2>1. \A n \in Nodes : NodeInv(n)' = NodeInv(n) /\ LinkOf(n)' = LinkOf(n) /\ RegOf(n)' = RegOf(n)
    BY <1>11, Elsewhere DEF vars
  <2>2. IInv'
    BY <1>11, <2>1 DEF IInv, TypeOK, vars
  <2> QED
    BY <2>1, <2>2 DEF NL!linkVars
<1>12. CASE \E n \in Nodes : AgentStep(n) \/ Beat(n) \/ ApiStep(n)
  BY <1>3, <1>4, <1>5, <1>6, <1>7, <1>12 DEF AgentStep, ApiStep
<1>13. CASE Fault
  BY <1>8, <1>9, <1>10, <1>13 DEF Fault
<1> QED
  BY <1>11, <1>12, <1>13 DEF Next

(***************************************************************************)
(* Whatever arrives late or is lost, the registry and the sockets keep the *)
(* shape NodesGateway and AgentConnectionService give them.                *)
(***************************************************************************)
THEOREM TypeCorrect == Spec => []TypeOK
<1>1. IInv => TypeOK
  BY DEF IInv
<1> QED
  BY <1>1, InitIInv, StepIInv, PTL DEF Spec

(***************************************************************************)
(* NodeRegistryService.getSocket never answers with a socket whose         *)
(* disconnect the gateway has handled.                                     *)
(***************************************************************************)
THEOREM EntryIsOpen == Spec => []EntryHasOpenSocket
<1>1. IInv => EntryHasOpenSocket
  BY DEF IInv, NodeInv, Entry, EntryHasOpenSocket
<1> QED
  BY <1>1, InitIInv, StepIInv, PTL DEF Spec

(***************************************************************************)
(* The handshake of AgentConnectionService and NodesGateway implements the *)
(* link that NodeAgent, and with it the whole life cycle of a server, is   *)
(* built on.                                                               *)
(***************************************************************************)
THEOREM RefinesLink == Spec => RefinesNodeLink
BY InitIInv, StepIInv, PTL DEF Spec, RefinesNodeLink, NL!LinkSpec
=============================================================================
