-------------------------- MODULE DashboardProofs --------------------------
(***************************************************************************)
(* Proofs about Dashboard, for any users, browsers and servers, and for    *)
(* connections, fetches and status reports that overlap in any way.        *)
(***************************************************************************)
EXTENDS Dashboard, SequenceTheorems, TLAPS

Own(b, list) == \A s \in Servers : owner[s] # UserOf[b] => list[s] = Absent

OwnEvent(b, event) ==
  /\ event.type = "snapshot" => Own(b, event.list)
  /\ event.type \in {"server.created", "server.removed", "server.status"} =>
       owner[event.server] = UserOf[b]

(***************************************************************************)
(* Nothing of another user's servers is in a browser's cache, nor on any   *)
(* of the ways into it: a snapshot that is being put together, events on   *)
(* the channel, an answer to a fetch.                                      *)
(***************************************************************************)
Private(b) ==
  /\ Own(b, cache[b].list)
  /\ Phase(b) = "listed" => Own(b, socket[b].list)
  /\ \A a \in fetch[b] : a.of = "servers" => Own(b, a.list)
  /\ \A i \in DOMAIN channel[b] : OwnEvent(b, channel[b][i])

\* FindOwner changes one field of a report and keeps these.
Shape(w) == "server" \in DOMAIN w /\ "status" \in DOMAIN w

IInv ==
  /\ TypeOK
  /\ \A w \in writes \cup lookups : Shape(w)
  /\ \A b \in Browsers : Private(b)

-----------------------------------------------------------------------------
(* The channel, the cache and the lists *)

LEMMA ListForOwn ==
  ASSUME TypeOK, NEW b \in Browsers
  PROVE  ListFor(UserOf[b]) \in Lists /\ Own(b, ListFor(UserOf[b]))
BY DEF ListFor, Own, TypeOK, Lists

LEMMA AppendOwn ==
  ASSUME NEW b \in Browsers, NEW q \in Seq(Event), NEW event \in Event,
         \A i \in DOMAIN q : OwnEvent(b, q[i]), OwnEvent(b, event)
  PROVE  /\ Append(q, event) \in Seq(Event)
         /\ \A i \in DOMAIN Append(q, event) : OwnEvent(b, Append(q, event)[i])
<1>1. /\ Append(q, event) \in Seq(Event) /\ Len(Append(q, event)) = Len(q) + 1
      /\ \A i \in 1 .. Len(q) : Append(q, event)[i] = q[i]
      /\ Append(q, event)[Len(q) + 1] = event
      /\ DOMAIN q = 1 .. Len(q) /\ DOMAIN Append(q, event) = 1 .. Len(q) + 1 /\ Len(q) \in Nat
  BY LenProperties, AppendProperties
<1>2. ASSUME NEW i \in 1 .. Len(q) + 1 PROVE OwnEvent(b, Append(q, event)[i])
  <2>1. CASE i \in 1 .. Len(q)
    BY <1>1, <2>1
  <2>2. CASE i = Len(q) + 1
    BY <1>1, <2>2
  <2> QED
    BY <1>1, <2>1, <2>2
<1> QED
  BY <1>1, <1>2

LEMMA TailOwn ==
  ASSUME NEW b \in Browsers, NEW q \in Seq(Event), q # <<>>,
         \A i \in DOMAIN q : OwnEvent(b, q[i])
  PROVE  /\ Tail(q) \in Seq(Event) /\ \A i \in DOMAIN Tail(q) : OwnEvent(b, Tail(q)[i])
         /\ Head(q) \in Event /\ OwnEvent(b, Head(q))
<1>1. /\ Tail(q) \in Seq(Event) /\ Len(Tail(q)) = Len(q) - 1 /\ Len(q) \in Nat /\ Len(q) > 0
      /\ \A i \in 1 .. Len(Tail(q)) : Tail(q)[i] = q[i + 1]
      /\ DOMAIN q = 1 .. Len(q) /\ DOMAIN Tail(q) = 1 .. Len(Tail(q))
      /\ Head(q) = q[1] /\ q[1] \in Event
  BY LenProperties, HeadTailProperties, EmptySeq
<1>2. ASSUME NEW i \in 1 .. Len(Tail(q)) PROVE OwnEvent(b, Tail(q)[i])
  <2>1. i + 1 \in DOMAIN q
    BY <1>1
  <2> QED
    BY <1>1, <2>1
<1>3. 1 \in DOMAIN q
  BY <1>1
<1> QED
  BY <1>1, <1>2, <1>3

\* useDashboardSocket: an event of the user's own servers keeps the cache so.
LEMMA UpdatedOwn ==
  ASSUME TypeOK, NEW b \in Browsers, NEW c \in Cache, NEW event \in Event,
         Own(b, c.list), OwnEvent(b, event)
  PROVE  Updated(c, event) \in Cache /\ Own(b, Updated(c, event).list)
<1>1. c = [nodes |-> c.nodes, list |-> c.list] /\ c.nodes \subseteq Nodes /\ c.list \in Lists
  BY DEF Cache
<1>2. \A nn, ll : [nodes |-> nn, list |-> ll].list = ll
  OBVIOUS
<1>3. CASE event.type = "snapshot"
  <2>1. event.nodes \subseteq Nodes /\ event.list \in Lists
    BY <1>3 DEF Event
  <2>2. Updated(c, event) = [nodes |-> event.nodes, list |-> event.list]
    BY <1>3 DEF Updated
  <2> QED
    BY <1>3, <2>1, <2>2 DEF Cache, OwnEvent
<1>4. CASE event.type = "node.connected"
  <2>1. event.node \in Nodes
    BY <1>4 DEF Event
  <2>2. Updated(c, event) = [nodes |-> c.nodes \cup {event.node}, list |-> c.list]
    BY <1>1, <1>4 DEF Updated
  <2> QED
    BY <1>1, <2>1, <2>2 DEF Cache
<1>5. CASE event.type = "node.disconnected"
  <2>1. Updated(c, event) = [nodes |-> c.nodes \ {event.node}, list |-> c.list]
    BY <1>1, <1>5 DEF Updated
  <2> QED
    BY <1>1, <2>1 DEF Cache
<1>6. ASSUME NEW value \in Statuses \cup {Absent}, NEW l,
             event.type \in {"server.created", "server.removed", "server.status"},
             l = [c.list EXCEPT ![event.server] = value],
             Updated(c, event) = [nodes |-> c.nodes, list |-> l]
      PROVE  Updated(c, event) \in Cache /\ Own(b, Updated(c, event).list)
  <2>1. owner[event.server] = UserOf[b]
    BY <1>6 DEF OwnEvent
  <2>2. l \in Lists /\ Own(b, l)
    BY <1>1, <1>6, <2>1 DEF Lists, Own
  <2> QED
    BY <1>1, <1>6, <2>2 DEF Cache
<1>7. CASE event.type = "server.created"
  <2>1. Updated(c, event) = [nodes |-> c.nodes, list |-> [c.list EXCEPT ![event.server] = "creating"]]
    BY <1>1, <1>7 DEF Updated
  <2> QED
    BY <1>6, <1>7, <2>1 DEF Statuses
<1>8. CASE event.type = "server.removed"
  <2>1. Updated(c, event) = [nodes |-> c.nodes, list |-> [c.list EXCEPT ![event.server] = Absent]]
    BY <1>1, <1>8 DEF Updated
  <2> QED
    BY <1>6, <1>8, <2>1
<1>9. CASE event.type = "server.status"
  <2> DEFINE value == IF c.list[event.server] = Absent THEN Absent ELSE event.status
  <2>1. Updated(c, event) = [nodes |-> c.nodes, list |-> [c.list EXCEPT ![event.server] = value]]
    BY <1>1, <1>9 DEF Updated, Status
  <2>2. value \in Statuses \cup {Absent}
    BY <1>9 DEF Event, Statuses
  <2> HIDE DEF value
  <2> QED
    BY <1>6, <1>9, <2>1, <2>2
<1>10. event.type \in {"snapshot", "node.connected", "node.disconnected", "server.created",
                       "server.removed", "server.status"}
  BY DEF Event
<1> QED
  BY <1>3, <1>4, <1>5, <1>7, <1>8, <1>9, <1>10

\* An event for targets that may see it, beside a change of nothing they hold.
LEMMA PushOwn ==
  ASSUME IInv, NEW targets, NEW item \in Items, NEW event \in Event, NEW late,
         Push(targets, item, event, late), UNCHANGED <<owner, socket, cache, entry, fetch>>,
         \A b \in targets \cap Browsers : OwnEvent(b, event)
  PROVE  /\ channel' \in [Browsers -> Seq(Event)] /\ doubt' \in [Browsers -> SUBSET Items]
         /\ \A b \in Browsers : Private(b)'
<1>1. \A b \in Browsers : doubt[b] \subseteq Items /\ channel[b] \in Seq(Event)
  BY DEF IInv, TypeOK
<1>2. doubt' \in [Browsers -> SUBSET Items]
  BY <1>1 DEF Push
<1>3. ASSUME NEW b \in Browsers
      PROVE  channel'[b] \in Seq(Event) /\ \A i \in DOMAIN channel'[b] : OwnEvent(b, channel'[b][i])
  <2>1. channel'[b] = IF b \in targets THEN Append(channel[b], event) ELSE channel[b]
    BY DEF Push
  <2>2. \A i \in DOMAIN channel[b] : OwnEvent(b, channel[b][i])
    BY DEF IInv, Private
  <2> QED
    BY <1>1, <2>1, <2>2, AppendOwn
<1>4. channel' \in [Browsers -> Seq(Event)]
  BY <1>3 DEF Push
<1>5. ASSUME NEW b \in Browsers PROVE Private(b)'
  <2>1. Private(b)
    BY DEF IInv
  <2> QED
    BY <1>3, <2>1 DEF Private, Own, OwnEvent, Phase
<1> QED
  BY <1>2, <1>4, <1>5

\* A browser nothing happens to.
LEMMA Undisturbed ==
  ASSUME NEW b \in Browsers, Private(b), owner' = owner, socket'[b] = socket[b],
         channel'[b] = channel[b], cache'[b] = cache[b], fetch'[b] = fetch[b]
  PROVE  Private(b)'
BY DEF Private, Own, OwnEvent, Phase

-----------------------------------------------------------------------------
(* The rest of the system *)

LEMMA NodeSafe ==
  ASSUME IInv, NEW n \in Nodes, NodeConnects(n) \/ NodeDisconnects(n)
  PROVE  IInv'
<1>1. /\ nodes' \subseteq Nodes
      /\ UNCHANGED <<owner, row, told, writes, lookups, socket, cache, entry, fetch>>
  BY DEF NodeConnects, NodeDisconnects, IInv, TypeOK, page
<1>2. ASSUME NEW type \in {"node.connected", "node.disconnected"}, PushNode(n, type)
      PROVE  IInv'
  <2> DEFINE event == [type |-> type, node |-> n]
  <2>1. event \in Event /\ n \in Items
    BY DEF Event, Items
  <2>2. \A b \in Browsers : OwnEvent(b, event)
    BY DEF OwnEvent
  <2>3. Push(Attached, n, event, {b \in Browsers : Phase(b) \in {"joined", "listed"}})
    BY <1>2 DEF PushNode
  <2> HIDE DEF event
  <2>4. /\ channel' \in [Browsers -> Seq(Event)] /\ doubt' \in [Browsers -> SUBSET Items]
        /\ \A b \in Browsers : Private(b)'
    BY <1>1, <2>1, <2>2, <2>3, PushOwn
  <2> QED
    BY <1>1, <2>4 DEF IInv, TypeOK, Shape
<1> QED
  BY <1>2 DEF NodeConnects, NodeDisconnects

\* The three events about a server go to the room of its owner.
LEMMA ServerPushSafe ==
  ASSUME IInv, NEW s \in Servers, NEW event \in Event, PushServer(s, event),
         event.type # "snapshot", event.server = s,
         told' \in [Servers -> {"none", "created", "removed"}], lookups' \subseteq lookups,
         UNCHANGED <<owner, nodes, row, writes, socket, cache, entry, fetch>>
  PROVE  IInv'
<1>1. s \in Items
  BY DEF Items
<1>2. \A b \in Room(owner[s]) \cap Browsers : OwnEvent(b, event)
  BY DEF Room, OwnEvent
<1>3. Push(Room(owner[s]), s, event, {b \in Browsers : Phase(b) = "listed"})
  BY DEF PushServer
<1>4. /\ channel' \in [Browsers -> Seq(Event)] /\ doubt' \in [Browsers -> SUBSET Items]
      /\ \A b \in Browsers : Private(b)'
  BY <1>1, <1>2, <1>3, PushOwn
<1> QED
  BY <1>4 DEF IInv, TypeOK, Shape

LEMMA AnnounceSafe ==
  ASSUME IInv, NEW s \in Servers, AnnounceCreated(s) \/ AnnounceRemoved(s)
  PROVE  IInv'
<1>1. /\ told' \in [Servers -> {"none", "created", "removed"}] /\ lookups' \subseteq lookups
      /\ UNCHANGED <<owner, nodes, row, writes, socket, cache, entry, fetch>>
  BY DEF AnnounceCreated, AnnounceRemoved, IInv, TypeOK, page
<1>2. ASSUME NEW type \in {"server.created", "server.removed"},
             PushServer(s, [type |-> type, server |-> s])
      PROVE  IInv'
  <2> DEFINE event == [type |-> type, server |-> s]
  <2>1. event \in Event /\ event.type # "snapshot" /\ event.server = s
    BY DEF Event
  <2>2. PushServer(s, event)
    BY <1>2
  <2> HIDE DEF event
  <2> QED
    BY <1>1, <2>1, <2>2, ServerPushSafe
<1> QED
  BY <1>2 DEF AnnounceCreated, AnnounceRemoved

LEMMA PushStatusSafe ==
  ASSUME IInv, NEW w \in lookups, PushStatus(w)
  PROVE  IInv'
<1> DEFINE event == [type |-> "server.status", server |-> w.server, status |-> w.status]
<1>1. w.server \in Servers /\ w.status \in Reported
  BY DEF IInv, TypeOK
<1>2. event \in Event /\ event.type # "snapshot" /\ event.server = w.server
  BY <1>1 DEF Event
<1>3. /\ told' \in [Servers -> {"none", "created", "removed"}] /\ lookups' \subseteq lookups
      /\ UNCHANGED <<owner, nodes, row, writes, socket, cache, entry, fetch>>
  BY DEF PushStatus, IInv, TypeOK, page
<1>4. PushServer(w.server, event)
  BY DEF PushStatus
<1> HIDE DEF event
<1> QED
  BY <1>1, <1>2, <1>3, <1>4, ServerPushSafe

\* Rows and reports: no browser is told yet.
LEMMA RowSafe ==
  ASSUME IInv, UNCHANGED <<owner, nodes, told, socket, channel, cache, entry, fetch>>,
         row' \in Lists, doubt' \in [Browsers -> SUBSET Items],
         \A w \in (writes \cup lookups)' :
           w.server \in Servers /\ w.status \in Reported /\ Shape(w)
  PROVE  IInv'
<1>1. \A b \in Browsers : Private(b)'
  BY Undisturbed DEF IInv
<1> QED
  BY <1>1 DEF IInv, TypeOK, Shape

LEMMA InsertDeleteSafe ==
  ASSUME IInv, NEW s \in Servers, InsertRow(s) \/ DeleteRow(s)
  PROVE  IInv'
<1>1. row' \in Lists
  BY DEF InsertRow, DeleteRow, IInv, TypeOK, Lists, Statuses
<1>2. UNCHANGED <<owner, nodes, told, writes, lookups, socket, channel, cache, entry, fetch, doubt>>
  BY DEF InsertRow, DeleteRow, page
<1> QED
  BY <1>1, <1>2, RowSafe DEF IInv, TypeOK

LEMMA ReportSafe ==
  ASSUME IInv, NEW s \in Servers, NEW status \in Reported, ReportStatus(s, status)
  PROVE  IInv'
<1> DEFINE w == [server |-> s, status |-> status, number |-> Fresh, found |-> FALSE]
<1>1. w.server = s /\ w.status = status /\ Shape(w)
  BY DEF Shape
<1>2. writes' = writes \cup {w} /\ lookups' = lookups \cup {w}
  BY DEF ReportStatus
<1> HIDE DEF w
<1>3. \A v \in (writes \cup lookups)' : v.server \in Servers /\ v.status \in Reported /\ Shape(v)
  BY <1>1, <1>2 DEF IInv, TypeOK
<1>4. doubt' \in [Browsers -> SUBSET Items]
  BY DEF ReportStatus, IInv, TypeOK, Items
<1>5. UNCHANGED <<owner, nodes, row, told, socket, channel, cache, entry, fetch>>
  BY DEF ReportStatus, page
<1> QED
  BY <1>3, <1>4, <1>5, RowSafe DEF IInv, TypeOK

LEMMA WriteSafe ==
  ASSUME IInv, NEW w \in writes, WriteStatus(w)
  PROVE  IInv'
<1>1. w.server \in Servers /\ w.status \in Reported
  BY DEF IInv, TypeOK
<1>2. row' \in Lists
  BY <1>1 DEF WriteStatus, IInv, TypeOK, Lists, Statuses
<1>3. /\ UNCHANGED <<owner, nodes, told, lookups, socket, channel, cache, entry, fetch, doubt>>
      /\ writes' \subseteq writes
  BY DEF WriteStatus, page
<1> QED
  BY <1>2, <1>3, RowSafe DEF IInv, TypeOK

LEMMA FindSafe ==
  ASSUME IInv, NEW w \in lookups, FindOwner(w)
  PROVE  IInv'
<1> DEFINE v == [w EXCEPT !.found = TRUE]
<1>1. w.server \in Servers /\ w.status \in Reported /\ "server" \in DOMAIN w /\ "status" \in DOMAIN w
  BY DEF IInv, TypeOK, Shape
<1>2. DOMAIN v = DOMAIN w /\ v.server = w.server /\ v.status = w.status
  BY <1>1
<1>3. lookups' \subseteq lookups \cup {v}
  BY DEF FindOwner
<1> HIDE DEF v
<1>4. Shape(v)
  BY <1>1, <1>2 DEF Shape
<1>5. UNCHANGED <<owner, nodes, row, told, writes, socket, channel, cache, entry, fetch, doubt>>
  BY DEF FindOwner, page
<1>6. \A u \in (writes \cup lookups)' : u.server \in Servers /\ u.status \in Reported /\ Shape(u)
  BY <1>1, <1>2, <1>3, <1>4, <1>5 DEF IInv, TypeOK
<1> QED
  BY <1>5, <1>6, RowSafe DEF IInv, TypeOK

-----------------------------------------------------------------------------
(* The browsers and their connections *)

LEMMA BrowserSafe ==
  ASSUME IInv, NEW b \in Browsers, UNCHANGED system, Private(b)',
         socket' \in [Browsers -> Connection], channel' \in [Browsers -> Seq(Event)],
         cache' \in [Browsers -> Cache], fetch' \in [Browsers -> SUBSET Answer],
         entry' \in [Browsers -> {"none", "events", "whole"}],
         doubt' \in [Browsers -> SUBSET Items],
         \A a \in Browsers \ {b} : /\ socket'[a] = socket[a] /\ channel'[a] = channel[a]
                                   /\ cache'[a] = cache[a] /\ fetch'[a] = fetch[a]
  PROVE  IInv'
<1>1. \A a \in Browsers \ {b} : Private(a)'
  BY Undisturbed DEF IInv, system
<1>2. \A w \in (writes \cup lookups)' : Shape(w)
  BY DEF IInv, system
<1> QED
  BY <1>1, <1>2 DEF IInv, TypeOK, system

\* A new state of the connection that is no list of servers, with the channel
\* as it was, or empty.
LEMMA SocketSafe ==
  ASSUME IInv, NEW b \in Browsers, UNCHANGED <<system, page>>, NEW to \in Connection,
         to.phase # "listed", socket' = [socket EXCEPT ![b] = to],
         channel' = channel \/ channel' = [channel EXCEPT ![b] = <<>>],
         doubt' \in [Browsers -> SUBSET Items]
  PROVE  IInv'
<1>1. /\ socket \in [Browsers -> Connection] /\ channel \in [Browsers -> Seq(Event)]
      /\ cache \in [Browsers -> Cache] /\ fetch \in [Browsers -> SUBSET Answer]
      /\ cache' = cache /\ fetch' = fetch /\ owner' = owner /\ Private(b)
      /\ entry' = entry /\ entry \in [Browsers -> {"none", "events", "whole"}]
  BY DEF IInv, TypeOK, system, page
<1>2. <<>> \in Seq(Event) /\ DOMAIN <<>> = {}
  OBVIOUS
<1>3. socket' \in [Browsers -> Connection] /\ channel' \in [Browsers -> Seq(Event)]
  BY <1>1, <1>2
<1>4. socket'[b] = to /\ (channel'[b] = channel[b] \/ channel'[b] = <<>>)
  BY <1>1
<1>5. \A a \in Browsers \ {b} : socket'[a] = socket[a] /\ channel'[a] = channel[a]
  BY <1>1
<1>6. \A i \in DOMAIN channel'[b] : OwnEvent(b, channel'[b][i])
  BY <1>1, <1>2, <1>4 DEF Private
<1>7. Private(b)'
  BY <1>1, <1>4, <1>6 DEF Private, Phase, Own, OwnEvent
<1> QED
  BY <1>1, <1>3, <1>5, <1>7, BrowserSafe DEF system

LEMMA ConnectionTypes ==
  ASSUME TypeOK, NEW b \in Browsers
  PROVE  /\ socket[b].nodes \subseteq Nodes /\ doubt[b] \subseteq Items
         /\ Phase(b) \in {"closed", "handshake", "refused", "joined", "listed", "open"}
         /\ Phase(b) = "listed" => socket[b].list \in Lists
         /\ \A p \in {"closed", "handshake", "refused", "joined", "open"}, k \in SUBSET Nodes :
              [phase |-> p, nodes |-> k] \in Connection
         /\ Phase(b) # "listed" => \A p \in {"handshake", "refused"} :
              [socket[b] EXCEPT !.phase = p] = [phase |-> p, nodes |-> socket[b].nodes]
BY DEF TypeOK, Phase, Connection

LEMMA EnterSafe ==
  ASSUME IInv, NEW b \in Browsers, Connect(b) \/ Refuse(b)
  PROVE  IInv'
<1>1. PICK p \in {"handshake", "refused"} : Enter(b, p)
  BY DEF Connect, Refuse
<1> DEFINE to == [phase |-> p, nodes |-> socket[b].nodes]
<1>2. Phase(b) # "listed" /\ socket[b].nodes \subseteq Nodes /\ TypeOK
  BY ConnectionTypes DEF Connect, Refuse, IInv
<1>3. [socket[b] EXCEPT !.phase = p] = to /\ to \in Connection
  BY <1>2, ConnectionTypes
<1>4. to.phase # "listed"
  OBVIOUS
<1>5. socket' = [socket EXCEPT ![b] = to]
  BY <1>1, <1>3 DEF Enter
<1> HIDE DEF to
<1>6. doubt' \in [Browsers -> SUBSET Items]
  <2>1. {s \in Servers : InFlight(s)} \subseteq Items /\ doubt \in [Browsers -> SUBSET Items]
    BY DEF Items, IInv, TypeOK
  <2>2. doubt' = doubt \/ doubt' = [doubt EXCEPT ![b] = {s \in Servers : InFlight(s)}]
    BY DEF Connect, Refuse
  <2> QED
    BY <2>1, <2>2
<1>7. UNCHANGED <<system, page>>
  BY DEF Connect, Refuse
<1>8. channel' = channel \/ channel' = [channel EXCEPT ![b] = <<>>]
  BY DEF Connect, Refuse
<1> QED
  BY <1>3, <1>4, <1>5, <1>6, <1>7, <1>8, SocketSafe

LEMMA JoinDropSafe ==
  ASSUME IInv, NEW b \in Browsers, Join(b) \/ Drop(b)
  PROVE  IInv'
<1>1. PICK p \in {"joined", "closed"}, k \in SUBSET Nodes :
        socket' = [socket EXCEPT ![b] = [phase |-> p, nodes |-> k]]
  BY DEF Join, Drop, IInv, TypeOK
<1> DEFINE to == [phase |-> p, nodes |-> k]
<1>2. to \in Connection /\ to.phase # "listed"
  BY ConnectionTypes DEF IInv
<1>3. socket' = [socket EXCEPT ![b] = to]
  BY <1>1
<1> HIDE DEF to
<1>4. doubt' \in [Browsers -> SUBSET Items] /\ UNCHANGED <<system, page>>
  BY DEF Join, Drop, IInv, TypeOK
<1>5. channel' = channel \/ channel' = [channel EXCEPT ![b] = <<>>]
  BY DEF Join, Drop
<1> QED
  BY <1>2, <1>3, <1>4, <1>5, SocketSafe

LEMMA ListSafe ==
  ASSUME IInv, NEW b \in Browsers, List(b)
  PROVE  IInv'
<1> DEFINE own == ListFor(UserOf[b])
           to == [phase |-> "listed", nodes |-> socket[b].nodes, list |-> own]
<1>1. own \in Lists /\ Own(b, own) /\ socket[b].nodes \subseteq Nodes
  BY ListForOwn, ConnectionTypes DEF IInv
<1>2. socket' = [socket EXCEPT ![b] = to]
  BY DEF List
<1> HIDE DEF own
<1>3. to \in Connection /\ to.list = own
  BY <1>1 DEF Connection
<1> HIDE DEF to
<1>4. /\ socket \in [Browsers -> Connection] /\ Private(b) /\ owner' = owner
      /\ channel' = channel /\ cache' = cache /\ fetch' = fetch /\ UNCHANGED <<system, entry>>
      /\ doubt' \in [Browsers -> SUBSET Items]
  BY DEF List, IInv, TypeOK, system, page, Items
<1>5. socket' \in [Browsers -> Connection] /\ socket'[b] = to
      /\ \A a \in Browsers \ {b} : socket'[a] = socket[a]
  BY <1>2, <1>3, <1>4
<1>6. Private(b)'
  BY <1>1, <1>3, <1>4, <1>5 DEF Private, Phase, Own, OwnEvent
<1> QED
  BY <1>4, <1>5, <1>6, BrowserSafe DEF IInv, TypeOK

LEMMA SendSnapshotSafe ==
  ASSUME IInv, NEW b \in Browsers, SendSnapshot(b)
  PROVE  IInv'
<1> DEFINE event == [type |-> "snapshot", nodes |-> socket[b].nodes, list |-> socket[b].list]
           to == [phase |-> "open", nodes |-> {}]
<1>1. /\ socket[b].nodes \subseteq Nodes /\ socket[b].list \in Lists /\ Own(b, socket[b].list)
      /\ to \in Connection
  BY ConnectionTypes DEF SendSnapshot, IInv, Private
<1>2. event \in Event /\ OwnEvent(b, event)
  BY <1>1 DEF Event, OwnEvent
<1>3. socket' = [socket EXCEPT ![b] = to] /\ channel' = [channel EXCEPT ![b] = Append(@, event)]
  BY DEF SendSnapshot
<1>4. to.phase = "open"
  OBVIOUS
<1> HIDE DEF event, to
<1>5. /\ socket \in [Browsers -> Connection] /\ channel \in [Browsers -> Seq(Event)]
      /\ channel[b] \in Seq(Event) /\ Private(b) /\ owner' = owner
      /\ cache' = cache /\ fetch' = fetch /\ UNCHANGED <<system, entry>>
      /\ doubt' \in [Browsers -> SUBSET Items]
  BY DEF SendSnapshot, IInv, TypeOK, system, page
<1>6. /\ Append(channel[b], event) \in Seq(Event)
      /\ \A i \in DOMAIN Append(channel[b], event) : OwnEvent(b, Append(channel[b], event)[i])
  BY <1>2, <1>5, AppendOwn DEF Private
<1>7. /\ socket' \in [Browsers -> Connection] /\ channel' \in [Browsers -> Seq(Event)]
      /\ socket'[b] = to /\ channel'[b] = Append(channel[b], event)
      /\ \A a \in Browsers \ {b} : socket'[a] = socket[a] /\ channel'[a] = channel[a]
  BY <1>1, <1>3, <1>5, <1>6
<1>8. Private(b)'
  BY <1>4, <1>5, <1>6, <1>7 DEF Private, Phase, Own, OwnEvent
<1> QED
  BY <1>5, <1>7, <1>8, BrowserSafe DEF IInv, TypeOK

LEMMA ReceiveSafe ==
  ASSUME IInv, NEW b \in Browsers, ReceiveEvent(b)
  PROVE  IInv'
<1> DEFINE event == Head(channel[b])
           new == Updated(cache[b], event)
<1>1. /\ channel \in [Browsers -> Seq(Event)] /\ channel[b] \in Seq(Event)
      /\ cache \in [Browsers -> Cache] /\ cache[b] \in Cache
      /\ entry \in [Browsers -> {"none", "events", "whole"}]
      /\ channel[b] # <<>> /\ Private(b) /\ owner' = owner
      /\ socket' = socket /\ fetch' = fetch /\ UNCHANGED system
      /\ channel' = [channel EXCEPT ![b] = Tail(channel[b])]
      /\ cache' = [cache EXCEPT ![b] = new]
  BY DEF ReceiveEvent, IInv, TypeOK, system
<1>2. /\ Tail(channel[b]) \in Seq(Event) /\ event \in Event /\ OwnEvent(b, event)
      /\ \A i \in DOMAIN Tail(channel[b]) : OwnEvent(b, Tail(channel[b])[i])
  BY <1>1, TailOwn DEF Private
<1>3. new \in Cache /\ Own(b, new.list)
  BY <1>1, <1>2, UpdatedOwn DEF Private, IInv
<1>4. Undone(b, event) \subseteq Items /\ Entry(entry[b], event) \in {"none", "events", "whole"}
  BY <1>1, <1>2 DEF Undone, Items, Entry, Event
<1>5. /\ doubt' \in [Browsers -> SUBSET Items]
      /\ entry' \in [Browsers -> {"none", "events", "whole"}]
  BY <1>1, <1>4 DEF ReceiveEvent, IInv, TypeOK
<1> HIDE DEF event, new
<1>6. /\ channel' \in [Browsers -> Seq(Event)] /\ cache' \in [Browsers -> Cache]
      /\ channel'[b] = Tail(channel[b]) /\ cache'[b] = new
      /\ \A a \in Browsers \ {b} : channel'[a] = channel[a] /\ cache'[a] = cache[a]
  BY <1>1, <1>2, <1>3
<1>7. Private(b)'
  BY <1>1, <1>2, <1>3, <1>6 DEF Private, Phase, Own, OwnEvent
<1> QED
  BY <1>1, <1>5, <1>6, <1>7, BrowserSafe DEF IInv, TypeOK

LEMMA FetchReadsSafe ==
  ASSUME IInv, NEW b \in Browsers, NEW what \in {"nodes", "servers"}, FetchReads(b, what)
  PROVE  IInv'
<1> DEFINE own == ListFor(UserOf[b])
           answer == IF what = "nodes" THEN [of |-> "nodes", nodes |-> nodes]
                     ELSE [of |-> "servers", list |-> own]
<1>1. own \in Lists /\ Own(b, own) /\ nodes \subseteq Nodes
  BY ListForOwn DEF IInv, TypeOK
<1>2. fetch' = [fetch EXCEPT ![b] = @ \cup {answer}]
  BY DEF FetchReads
<1> HIDE DEF own
<1>3. answer \in Answer /\ (answer.of = "servers" => Own(b, answer.list))
  <2>1. CASE what = "nodes"
    BY <1>1, <2>1 DEF Answer
  <2>2. CASE what = "servers"
    BY <1>1, <2>2 DEF Answer
  <2> QED
    BY <2>1, <2>2
<1> HIDE DEF answer
<1>4. /\ fetch \in [Browsers -> SUBSET Answer] /\ Private(b) /\ owner' = owner
      /\ channel' = channel /\ cache' = cache /\ socket' = socket /\ UNCHANGED <<system, entry>>
      /\ doubt' \in [Browsers -> SUBSET Items]
  BY DEF FetchReads, IInv, TypeOK, system, Items
<1>5. /\ fetch' \in [Browsers -> SUBSET Answer] /\ fetch'[b] = fetch[b] \cup {answer}
      /\ \A a \in Browsers \ {b} : fetch'[a] = fetch[a]
  BY <1>2, <1>3, <1>4
<1>6. Private(b)'
  BY <1>3, <1>4, <1>5 DEF Private, Phase, Own, OwnEvent
<1> QED
  BY <1>4, <1>5, <1>6, BrowserSafe DEF IInv, TypeOK

LEMMA WithType ==
  ASSUME NEW c \in Cache, NEW a \in Answer
  PROVE  /\ With(c, a) \in Cache
         /\ With(c, a).nodes = IF a.of = "nodes" THEN a.nodes ELSE c.nodes
         /\ With(c, a).list = IF a.of = "servers" THEN a.list ELSE c.list
         /\ a.of \in {"nodes", "servers"}
<1>1. c = [nodes |-> c.nodes, list |-> c.list] /\ c.nodes \subseteq Nodes /\ c.list \in Lists
  BY DEF Cache
<1>2. CASE a.of = "nodes"
  <2>1. a.nodes \subseteq Nodes
    BY <1>2 DEF Answer
  <2>2. With(c, a) = [nodes |-> a.nodes, list |-> c.list]
    BY <1>1, <1>2 DEF With
  <2> QED
    BY <1>1, <1>2, <2>1, <2>2 DEF Cache
<1>3. CASE a.of = "servers"
  <2>1. a.list \in Lists
    BY <1>3 DEF Answer
  <2>2. With(c, a) = [nodes |-> c.nodes, list |-> a.list]
    BY <1>1, <1>3 DEF With
  <2> QED
    BY <1>1, <1>3, <2>1, <2>2 DEF Cache
<1> QED
  BY <1>2, <1>3 DEF Answer

LEMMA FetchArrivesSafe ==
  ASSUME IInv, NEW b \in Browsers, NEW a \in fetch[b], FetchArrives(b, a)
  PROVE  IInv'
<1> DEFINE new == With(cache[b], a)
           held == IF a.of = "servers" THEN "whole" ELSE entry[b]
<1>1. /\ fetch \in [Browsers -> SUBSET Answer] /\ a \in Answer
      /\ cache \in [Browsers -> Cache] /\ cache[b] \in Cache
      /\ entry \in [Browsers -> {"none", "events", "whole"}]
      /\ Private(b) /\ owner' = owner
      /\ socket' = socket /\ channel' = channel /\ UNCHANGED system
      /\ fetch' = [fetch EXCEPT ![b] = @ \ {a}] /\ doubt' = doubt
  BY DEF FetchArrives, IInv, TypeOK, system
<1>2. cache' = [cache EXCEPT ![b] = new] /\ entry' = [entry EXCEPT ![b] = held]
  BY DEF FetchArrives
<1>3. new \in Cache /\ Own(b, new.list)
  BY <1>1, WithType DEF Private
<1>4. entry' \in [Browsers -> {"none", "events", "whole"}]
  BY <1>1, <1>2
<1> HIDE DEF new, held
<1>5. /\ fetch' \in [Browsers -> SUBSET Answer] /\ cache' \in [Browsers -> Cache]
      /\ fetch'[b] \subseteq fetch[b] /\ cache'[b] = new
      /\ \A d \in Browsers \ {b} : fetch'[d] = fetch[d] /\ cache'[d] = cache[d]
  BY <1>1, <1>2, <1>3
<1>6. Private(b)'
  BY <1>1, <1>3, <1>5 DEF Private, Phase, Own, OwnEvent
<1> QED
  BY <1>1, <1>4, <1>5, <1>6, BrowserSafe DEF IInv, TypeOK

LEMMA LostDiscardSafe ==
  ASSUME IInv, NEW b \in Browsers, (\E a \in fetch[b] : FetchLost(b, a)) \/ Discard(b)
  PROVE  IInv'
<1> DEFINE noList == [s \in Servers |-> Absent]
<1>1. /\ fetch \in [Browsers -> SUBSET Answer] /\ cache \in [Browsers -> Cache]
      /\ cache[b] \in Cache /\ entry \in [Browsers -> {"none", "events", "whole"}]
      /\ Private(b) /\ UNCHANGED <<system, socket, channel, doubt>>
  BY DEF FetchLost, Discard, IInv, TypeOK
<1>2. noList \in Lists /\ Own(b, noList)
  BY DEF Lists, Own
<1>3. [cache[b] EXCEPT !.list = noList] \in Cache /\ [cache[b] EXCEPT !.list = noList].list = noList
  BY <1>1, <1>2 DEF Cache
<1>4. /\ fetch' \in [Browsers -> SUBSET Answer] /\ cache' \in [Browsers -> Cache]
      /\ entry' \in [Browsers -> {"none", "events", "whole"}]
      /\ fetch'[b] \subseteq fetch[b] /\ (cache'[b] = cache[b] \/ cache'[b].list = noList)
      /\ \A d \in Browsers \ {b} : fetch'[d] = fetch[d] /\ cache'[d] = cache[d]
  <2>1. CASE \E a \in fetch[b] : FetchLost(b, a)
    <3>1. PICK a \in fetch[b] : fetch' = [fetch EXCEPT ![b] = @ \ {a}]
      BY <2>1 DEF FetchLost
    <3>2. fetch[b] \in SUBSET Answer
      BY <1>1
    <3>3. UNCHANGED <<cache, entry>>
      BY <2>1 DEF FetchLost
    <3> QED
      BY <1>1, <3>1, <3>2, <3>3
  <2>2. CASE Discard(b)
    BY <1>1, <1>3, <2>2 DEF Discard
  <2> QED
    BY <2>1, <2>2
<1> HIDE DEF noList
<1>5. Own(b, cache'[b].list)
  BY <1>1, <1>2, <1>4 DEF Private
<1>6. Private(b)'
  BY <1>1, <1>4, <1>5 DEF Private, Phase, Own, OwnEvent, system
<1> QED
  BY <1>1, <1>4, <1>6, BrowserSafe DEF IInv, TypeOK

-----------------------------------------------------------------------------
(* The theorems *)

LEMMA InitIInv == Init => IInv
<1> SUFFICES ASSUME Init PROVE IInv
  OBVIOUS
<1> DEFINE noList == [s \in Servers |-> Absent]
           closed == [phase |-> "closed", nodes |-> {}]
           empty == [nodes |-> {}, list |-> noList]
<1>1. noList \in Lists /\ \A b \in Browsers : Own(b, noList)
  BY DEF Lists, Own
<1>2. /\ socket = [b \in Browsers |-> closed] /\ cache = [b \in Browsers |-> empty]
      /\ channel = [b \in Browsers |-> <<>>] /\ fetch = [b \in Browsers |-> {}]
      /\ entry = [b \in Browsers |-> "none"]
  BY DEF Init
<1>3. closed \in Connection /\ closed.phase = "closed"
  BY DEF Connection
<1> HIDE DEF noList
<1>5. empty \in Cache /\ empty.list = noList
  BY <1>1 DEF Cache
<1> HIDE DEF closed, empty
<1>6. <<>> \in Seq(Event) /\ DOMAIN <<>> = {}
  OBVIOUS
<1>7. row \in Lists /\ doubt \in [Browsers -> SUBSET Items]
      /\ told \in [Servers -> {"none", "created", "removed"}]
  BY DEF Init, Lists
<1>8. TypeOK
  <2>1. /\ socket \in [Browsers -> Connection] /\ cache \in [Browsers -> Cache]
        /\ channel \in [Browsers -> Seq(Event)] /\ fetch \in [Browsers -> SUBSET Answer]
          /\ entry \in [Browsers -> {"none", "events", "whole"}]
    BY <1>2, <1>3, <1>5, <1>6
  <2>2. owner \in [Servers -> Users] /\ nodes = {} /\ writes \cup lookups = {}
    BY DEF Init
  <2> QED
    BY <2>1, <2>2, <1>7 DEF TypeOK
<1>9. \A b \in Browsers : Private(b)
  BY <1>1, <1>2, <1>3, <1>5, <1>6 DEF Private, Phase
<1> QED
  BY <1>8, <1>9 DEF Init, IInv

LEMMA StepIInv == IInv /\ [Next]_vars => IInv'
<1> SUFFICES ASSUME IInv, [Next]_vars PROVE IInv'
  OBVIOUS
<1>1. CASE UNCHANGED vars
  BY <1>1 DEF IInv, TypeOK, Private, Own, OwnEvent, Shape, Phase, vars, system, page
<1>2. CASE \E n \in Nodes : NodeConnects(n) \/ NodeDisconnects(n)
  BY <1>2, NodeSafe
<1>3. CASE \E s \in Servers : \/ InsertRow(s) \/ AnnounceCreated(s)
                              \/ DeleteRow(s) \/ AnnounceRemoved(s)
                              \/ \E status \in Reported : ReportStatus(s, status)
  BY <1>3, InsertDeleteSafe, AnnounceSafe, ReportSafe
<1>4. CASE (\E w \in writes : WriteStatus(w)) \/ (\E w \in lookups : FindOwner(w) \/ PushStatus(w))
  BY <1>4, WriteSafe, FindSafe, PushStatusSafe
<1>5. CASE \E b \in Browsers :
             \/ Connect(b) \/ Join(b) \/ Refuse(b) \/ List(b) \/ SendSnapshot(b) \/ Drop(b)
             \/ ReceiveEvent(b) \/ Discard(b)
             \/ \E answer \in fetch[b] : FetchArrives(b, answer) \/ FetchLost(b, answer)
             \/ \E what \in {"nodes", "servers"} : FetchReads(b, what)
  BY <1>5, EnterSafe, JoinDropSafe, ListSafe, SendSnapshotSafe, ReceiveSafe,
     FetchReadsSafe, FetchArrivesSafe, LostDiscardSafe
<1> QED
  BY <1>1, <1>2, <1>3, <1>4, <1>5 DEF Next

(***************************************************************************)
(* What DashboardGateway sends is an event, a snapshot or a status of the  *)
(* protocol, whatever overlaps, and the caches stay lists of them.         *)
(***************************************************************************)
THEOREM TypeCorrect == Spec => []TypeOK
<1>1. IInv => TypeOK
  BY DEF IInv
<1> QED
  BY <1>1, InitIInv, StepIInv, PTL DEF Spec

(***************************************************************************)
(* However many users share the gateway, and however connections, late     *)
(* pushes, snapshots and fetches overlap, no browser shows another user's  *)
(* server.                                                                 *)
(***************************************************************************)
THEOREM ServersArePrivate == Spec => []OnlyOwnServers
<1>1. IInv => OnlyOwnServers
  BY DEF IInv, Private, Own, OnlyOwnServers
<1> QED
  BY <1>1, InitIInv, StepIInv, PTL DEF Spec

\* A status never adds a server to a list, and the other events of a server
\* are its creation and its removal.
LEMMA UpdateKeepsAbsent ==
  ASSUME NEW c \in Cache, NEW event \in Event, NEW s \in Servers, c.list[s] = Absent,
         event.type \notin {"snapshot", "server.created"}
  PROVE  Updated(c, event).list[s] = Absent
<1>1. c = [nodes |-> c.nodes, list |-> c.list] /\ c.list \in Lists
  BY DEF Cache
<1>2. CASE event.type = "node.connected"
  BY <1>1, <1>2 DEF Updated
<1>3. CASE event.type = "node.disconnected"
  BY <1>1, <1>3 DEF Updated
<1>4. CASE event.type = "server.removed"
  <2>1. Updated(c, event).list = [c.list EXCEPT ![event.server] = Absent]
    BY <1>1, <1>4 DEF Updated
  <2> QED
    BY <1>1, <2>1 DEF Lists
<1>5. CASE event.type = "server.status"
  <2>1. Updated(c, event).list = Status(c.list, event)
    BY <1>1, <1>5 DEF Updated
  <2> QED
    BY <1>1, <2>1 DEF Lists, Status
<1>6. event.type \in {"node.connected", "node.disconnected", "server.removed", "server.status"}
  BY DEF Event
<1> QED
  BY <1>2, <1>3, <1>4, <1>5, <1>6

(***************************************************************************)
(* A late server.status never brings a removed server back into a list:    *)
(* only a snapshot, a fetch or the creation's own event can.               *)
(***************************************************************************)
THEOREM RemovalsLast == Spec => RemovedStaysRemoved
<1> DEFINE Step ==
      \A b \in Browsers, s \in Servers :
        /\ cache[b].list[s] = Absent
        /\ cache'[b].list[s] # Absent
        /\ told[s] = "removed"
        => \/ Fetches(b, "servers")
           \/ Head(channel[b]).type \in {"snapshot", "server.created"}
<1>1. ASSUME IInv, Next, NEW b \in Browsers, NEW s \in Servers,
             cache[b].list[s] = Absent, cache'[b].list[s] # Absent, ~Fetches(b, "servers")
      PROVE  Head(channel[b]).type \in {"snapshot", "server.created"}
  <2>1. cache \in [Browsers -> Cache] /\ cache[b] \in Cache /\ fetch[b] \subseteq Answer
    BY <1>1 DEF IInv, TypeOK
  <2>2. PICK a \in Browsers : ReceiveEvent(a) \/ Discard(a) \/ \E x \in fetch[a] : FetchArrives(a, x)
    <3>1. cache' # cache
      BY <1>1
    <3> QED
      BY <1>1, <3>1 DEF Next, NodeConnects, NodeDisconnects, InsertRow, AnnounceCreated,
         DeleteRow, AnnounceRemoved, ReportStatus, WriteStatus, FindOwner, PushStatus,
         Connect, Join, Refuse, List, SendSnapshot, Drop, FetchReads, FetchLost, page
  <2>3. a = b
    BY <1>1, <2>1, <2>2 DEF ReceiveEvent, FetchArrives, Discard
  <2>4. CASE ReceiveEvent(b)
    <3>1. cache'[b] = Updated(cache[b], Head(channel[b])) /\ channel[b] # <<>>
      BY <2>1, <2>4 DEF ReceiveEvent
    <3>2. Head(channel[b]) \in Event
      BY <1>1, <3>1, TailOwn DEF IInv, TypeOK, Private
    <3> QED
      BY <1>1, <2>1, <3>1, <3>2, UpdateKeepsAbsent
  <2>5. ASSUME NEW x \in fetch[b], FetchArrives(b, x) PROVE FALSE
    <3>1. x.of # "servers" /\ x \in Answer
      BY <1>1, <2>1 DEF Fetches
    <3>2. cache'[b] = With(cache[b], x)
      BY <2>1, <2>5 DEF FetchArrives
    <3>3. cache'[b].list = cache[b].list
      BY <2>1, <3>1, <3>2, WithType
    <3> QED
      BY <1>1, <3>3
  <2>6. CASE Discard(b)
    <3>1. cache'[b] = [cache[b] EXCEPT !.list = [t \in Servers |-> Absent]]
      BY <2>1, <2>6 DEF Discard
    <3>2. cache'[b].list[s] = Absent
      BY <2>1, <3>1 DEF Cache
    <3> QED
      BY <1>1, <3>2
  <2> QED
    BY <2>2, <2>3, <2>4, <2>5, <2>6
<1>2. IInv /\ [Next]_vars => [Step]_vars
  BY <1>1
<1> QED
  BY <1>2, InitIInv, StepIInv, PTL DEF Spec, RemovedStaysRemoved

-----------------------------------------------------------------------------
(* What a browser will show *)

(***************************************************************************)
(* What becomes of a cache when the rest of the channel is received: for   *)
(* every position, a function of the cache at that point.  Of a node or a  *)
(* server such a function keeps what is there, puts something else there,  *)
(* or, for a server, gives it a status if it is there.                     *)
(***************************************************************************)
NodePlain(after, n) ==
  \/ \A c \in Cache : n \in after[c].nodes <=> n \in c.nodes
  \/ \A c \in Cache : n \in after[c].nodes
  \/ \A c \in Cache : n \notin after[c].nodes

Keeps(after, s) == \A c \in Cache : after[c].list[s] = c.list[s]

Sets(after, s, x) == \A c \in Cache : after[c].list[s] = x

Changes(after, s, x) ==
  \A c \in Cache : after[c].list[s] = IF c.list[s] = Absent THEN Absent ELSE x

ServerPlain(after, s) ==
  \/ Keeps(after, s)
  \/ \E x \in Statuses \cup {Absent} : Sets(after, s, x)
  \/ told[s] # "none" /\ \E x \in Statuses : Changes(after, s, x)

Plain(after) == /\ \A n \in Nodes : NodePlain(after, n)
                /\ \A s \in Servers : ServerPlain(after, s)

Ahead(q, after) ==
  /\ after \in [1 .. Len(q) + 1 -> [Cache -> Cache]]
  /\ \A c \in Cache : after[Len(q) + 1][c] = c
  /\ \A i \in 1 .. Len(q) : \A c \in Cache : after[i][c] = after[i + 1][Updated(c, q[i])]
  /\ \A i \in 1 .. Len(q) + 1 : Plain(after[i])

(***************************************************************************)
(* A report is written and pushed by two queries.  If the reports about a  *)
(* server did not overlap, all that is under way is one report, and once   *)
(* it is written the row has its status.                                   *)
(***************************************************************************)
Unwritten(s) == \E w \in writes : w.server = s
Unpushed(s) == \E w \in lookups : w.server = s

OneReport(s) ==
  /\ \A v, w \in writes \cup lookups : v.server = s /\ w.server = s => v.status = w.status
  /\ \A v, w \in writes : v.server = s /\ w.server = s => v = w
  /\ \A v, w \in lookups : v.server = s /\ w.server = s => v = w
  /\ \A w \in lookups : w.server = s /\ ~Unwritten(s) /\ row[s] # Absent => row[s] = w.status

Life(s) ==
  /\ told[s] = "none" => row[s] \in {Absent, "creating"} /\ ~InFlight(s)
  /\ told[s] = "removed" => row[s] = Absent

(***************************************************************************)
(* What a browser that has received everything shows of its user's server: *)
(* a creation or a removal may still have to be announced, and of a report *)
(* either the row or the browser may be ahead.                             *)
(***************************************************************************)
Expected(s, shown) ==
  /\ told[s] = "none" => shown \in {Absent, row[s]}
  /\ told[s] = "created" /\ row[s] # Absent =>
       /\ shown # Absent
       /\ (Unwritten(s) <=> Unpushed(s)) => shown = row[s]
       /\ \A w \in writes : w.server = s /\ ~Unpushed(s) => shown = w.status
  /\ told[s] = "removed" => shown = Absent

NodesFit(b, shown) == \A n \in Nodes \ doubt[b] : n \in shown <=> n \in nodes

Fits(b, c) ==
  /\ NodesFit(b, c.nodes)
  /\ \A s \in Servers \ doubt[b] : owner[s] = UserOf[b] => Expected(s, c.list[s])

(***************************************************************************)
(* e is the cache as it would be if the browser had never dropped its list *)
(* of servers: it fits when the rest of the channel is received, with and  *)
(* without any answer to a fetch.                                          *)
(***************************************************************************)
Holds(b, e, after) ==
  /\ e.nodes = cache[b].nodes
  /\ entry[b] = "whole" => e.list = cache[b].list
  /\ Fits(b, after[e])
  /\ \A a \in fetch[b] : Fits(b, after[With(e, a)])

(***************************************************************************)
(* From the snapshot on, a browser that kept its lists will show what is   *)
(* expected, in whatever order its fetches are answered and the events on  *)
(* the channel arrive.                                                     *)
(***************************************************************************)
Follows(b) ==
  /\ \E after : /\ Ahead(channel[b], after)
                /\ Phase(b) = "open" => \E e \in Cache : Holds(b, e, after[1])
  /\ Phase(b) = "listed" => Fits(b, socket[b])
  /\ Phase(b) = "joined" => NodesFit(b, socket[b].nodes)

Trusted == \A b \in Attached : \A s \in Servers \ doubt[b] : OneReport(s)

Caught == /\ \A s \in Servers : Life(s)
          /\ Trusted
          /\ \A b \in Browsers : Follows(b)

\* useDashboardSocket, field by field.
Becomes(c, event, d) ==
  /\ event.type = "snapshot" => d.nodes = event.nodes /\ d.list = event.list
  /\ event.type # "snapshot" =>
       /\ d.nodes = IF event.type = "node.connected" THEN c.nodes \cup {event.node}
                    ELSE IF event.type = "node.disconnected" THEN c.nodes \ {event.node}
                    ELSE c.nodes
       /\ \A s \in Servers : d.list[s] =
            IF event.type \in {"server.created", "server.removed", "server.status"}
               /\ event.server = s
            THEN IF event.type = "server.created" THEN "creating"
                 ELSE IF event.type = "server.removed" \/ c.list[s] = Absent THEN Absent
                 ELSE event.status
            ELSE c.list[s]

LEMMA UpdatedBecomes ==
  ASSUME NEW c \in Cache, NEW event \in Event
  PROVE  Updated(c, event) \in Cache /\ Becomes(c, event, Updated(c, event))
<1> USE DEF Becomes
<1>1. c = [nodes |-> c.nodes, list |-> c.list] /\ c.nodes \subseteq Nodes /\ c.list \in Lists
  BY DEF Cache
<1>2. CASE event.type = "snapshot"
  <2>1. event.nodes \subseteq Nodes /\ event.list \in Lists
    BY <1>2 DEF Event
  <2>2. Updated(c, event) = [nodes |-> event.nodes, list |-> event.list]
    BY <1>2 DEF Updated
  <2> QED
    BY <1>2, <2>1, <2>2 DEF Cache
<1>3. CASE event.type = "node.connected"
  <2>1. event.node \in Nodes
    BY <1>3 DEF Event
  <2>2. Updated(c, event) = [nodes |-> c.nodes \cup {event.node}, list |-> c.list]
    BY <1>1, <1>3 DEF Updated
  <2> QED
    BY <1>1, <1>3, <2>1, <2>2 DEF Cache
<1>4. CASE event.type = "node.disconnected"
  <2>1. event.node \in Nodes
    BY <1>4 DEF Event
  <2>2. Updated(c, event) = [nodes |-> c.nodes \ {event.node}, list |-> c.list]
    BY <1>1, <1>4 DEF Updated
  <2> QED
    BY <1>1, <1>4, <2>1, <2>2 DEF Cache
<1>5. CASE event.type = "server.created"
  <2> DEFINE l == [c.list EXCEPT ![event.server] = "creating"]
  <2>1. Updated(c, event) = [nodes |-> c.nodes, list |-> l]
    BY <1>1, <1>5 DEF Updated
  <2>2. /\ l \in Lists
        /\ \A s \in Servers : l[s] = IF event.server = s THEN "creating" ELSE c.list[s]
    BY <1>1 DEF Lists, Statuses
  <2> HIDE DEF l
  <2> QED
    BY <1>1, <1>5, <2>1, <2>2 DEF Cache
<1>6. CASE event.type = "server.removed"
  <2> DEFINE l == [c.list EXCEPT ![event.server] = Absent]
  <2>1. Updated(c, event) = [nodes |-> c.nodes, list |-> l]
    BY <1>1, <1>6 DEF Updated
  <2>2. /\ l \in Lists
        /\ \A s \in Servers : l[s] = IF event.server = s THEN Absent ELSE c.list[s]
    BY <1>1 DEF Lists
  <2> HIDE DEF l
  <2> QED
    BY <1>1, <1>6, <2>1, <2>2 DEF Cache
<1>7. CASE event.type = "server.status"
  <2> DEFINE l == Status(c.list, event)
  <2>1. Updated(c, event) = [nodes |-> c.nodes, list |-> l]
    BY <1>1, <1>7 DEF Updated
  <2>2. event.status \in Statuses
    BY <1>7 DEF Event, Statuses
  <2>3. /\ l \in Lists
        /\ \A s \in Servers : l[s] = IF event.server = s
                                     THEN IF c.list[s] = Absent THEN Absent ELSE event.status
                                     ELSE c.list[s]
    BY <1>1, <2>2 DEF Lists, Status
  <2> HIDE DEF l
  <2> QED
    BY <1>1, <1>7, <2>1, <2>3 DEF Cache
<1>8. event.type \in {"snapshot", "node.connected", "node.disconnected", "server.created",
                      "server.removed", "server.status"}
  BY DEF Event
<1> QED
  BY <1>2, <1>3, <1>4, <1>5, <1>6, <1>7, <1>8

\* One event more keeps a function of the cache plain.
LEMMA PlainThen ==
  ASSUME NEW before \in [Cache -> Cache], Plain(before), NEW event \in Event,
         event.type = "server.status" => told[event.server] # "none",
         NEW after, after = [c \in Cache |-> Updated(before[c], event)]
  PROVE  after \in [Cache -> Cache] /\ Plain(after)
<1>1. \A c \in Cache : before[c] \in Cache /\ after[c] = Updated(before[c], event)
  OBVIOUS
<1>2. \A c \in Cache : after[c] \in Cache /\ Becomes(before[c], event, after[c])
  BY <1>1, UpdatedBecomes
<1>3. after \in [Cache -> Cache]
  BY <1>2
<1>4. ASSUME NEW n \in Nodes PROVE NodePlain(after, n)
  <2>1. CASE event.type = "snapshot"
    <3>1. \A c \in Cache : after[c].nodes = event.nodes
      BY <1>2, <2>1 DEF Becomes
    <3> QED
      BY <3>1 DEF NodePlain
  <2>2. CASE event.type # "snapshot"
    <3>1. \A c \in Cache : after[c].nodes =
            IF event.type = "node.connected" THEN before[c].nodes \cup {event.node}
            ELSE IF event.type = "node.disconnected" THEN before[c].nodes \ {event.node}
            ELSE before[c].nodes
      BY <1>2, <2>2 DEF Becomes
    <3>2. \/ \A c \in Cache : n \in after[c].nodes <=> n \in before[c].nodes
          \/ \A c \in Cache : n \in after[c].nodes
          \/ \A c \in Cache : n \notin after[c].nodes
      BY <3>1
    <3>3. NodePlain(before, n)
      BY DEF Plain
    <3> QED
      BY <3>2, <3>3 DEF NodePlain
  <2> QED
    BY <2>1, <2>2
<1>5. ASSUME NEW s \in Servers PROVE ServerPlain(after, s)
  <2>1. CASE event.type = "snapshot"
    <3>1. \A c \in Cache : after[c].list = event.list
      BY <1>2, <2>1 DEF Becomes
    <3>2. event.list[s] \in Statuses \cup {Absent}
      BY <2>1 DEF Event, Lists
    <3> QED
      BY <3>1, <3>2 DEF ServerPlain, Sets
  <2> DEFINE about == event.server = s
  <2>2. CASE event.type \in {"server.created", "server.removed"} /\ about
    <3>1. PICK x \in Statuses \cup {Absent} : \A c \in Cache : after[c].list[s] = x
      <4>1. CASE event.type = "server.created"
        BY <1>2, <2>2, <4>1 DEF Becomes, Statuses
      <4>2. CASE event.type = "server.removed"
        <5>1. \A c \in Cache : after[c].list[s] = Absent
          BY <1>2, <2>2, <4>2 DEF Becomes
        <5> QED
          BY <5>1
      <4> QED
        BY <2>2, <4>1, <4>2
    <3> QED
      BY <3>1 DEF ServerPlain, Sets
  <2>3. CASE event.type = "server.status" /\ about
    <3>1. event.status \in Statuses /\ told[s] # "none"
      BY <2>3 DEF Event, Statuses
    <3>2. \A c \in Cache : after[c].list[s] =
            IF before[c].list[s] = Absent THEN Absent ELSE event.status
      BY <1>2, <2>3 DEF Becomes
    <3>3. CASE Keeps(before, s)
      BY <3>1, <3>2, <3>3 DEF Keeps, Changes, ServerPlain
    <3>4. ASSUME NEW x \in Statuses \cup {Absent}, Sets(before, s, x) PROVE ServerPlain(after, s)
      <4>1. Sets(after, s, IF x = Absent THEN Absent ELSE event.status)
        BY <3>2, <3>4 DEF Sets
      <4>2. (IF x = Absent THEN Absent ELSE event.status) \in Statuses \cup {Absent}
        BY <3>1
      <4> QED
        BY <4>1, <4>2 DEF ServerPlain
    <3>5. ASSUME NEW x \in Statuses, Changes(before, s, x) PROVE ServerPlain(after, s)
      <4>1. x # Absent
        BY AbsentAssumption
      <4>2. Changes(after, s, event.status)
        BY <3>2, <3>5, <4>1 DEF Changes
      <4> QED
        BY <3>1, <4>2 DEF ServerPlain
    <3>6. ServerPlain(before, s)
      BY DEF Plain
    <3> QED
      BY <3>3, <3>4, <3>5, <3>6 DEF ServerPlain
  <2>4. CASE /\ event.type # "snapshot"
             /\ ~(event.type \in {"server.created", "server.removed", "server.status"} /\ about)
    <3>1. \A c \in Cache : after[c].list[s] = before[c].list[s]
      BY <1>2, <2>4 DEF Becomes
    <3>2. /\ Keeps(before, s) => Keeps(after, s)
          /\ \A x : Sets(before, s, x) => Sets(after, s, x)
          /\ \A x : Changes(before, s, x) => Changes(after, s, x)
      BY <3>1 DEF Keeps, Sets, Changes
    <3>3. ServerPlain(before, s)
      BY DEF Plain
    <3> QED
      BY <3>2, <3>3 DEF ServerPlain
  <2> QED
    BY <2>1, <2>2, <2>3, <2>4
<1> QED
  BY <1>3, <1>4, <1>5 DEF Plain

\* A plain function looks at nothing else.
LEMMA PlainDepends ==
  ASSUME NEW after \in [Cache -> Cache], Plain(after), NEW c \in Cache, NEW d \in Cache
  PROVE  /\ \A n \in Nodes : (n \in c.nodes <=> n \in d.nodes) =>
                             (n \in after[c].nodes <=> n \in after[d].nodes)
         /\ \A s \in Servers : c.list[s] = d.list[s] => after[c].list[s] = after[d].list[s]
BY DEF Plain, NodePlain, ServerPlain, Keeps, Sets, Changes

LEMMA AheadStarts ==
  ASSUME NEW q \in Seq(Event), NEW after, Ahead(q, after)
  PROVE  after[1] \in [Cache -> Cache] /\ Plain(after[1])
<1>1. 1 \in 1 .. Len(q) + 1
  BY LenProperties
<1> QED
  BY <1>1 DEF Ahead

LEMMA AheadOfNothing ==
  ASSUME NEW q, q = <<>>
  PROVE  \E after : Ahead(q, after) /\ \A c \in Cache : after[1][c] = c
<1> DEFINE id == [c \in Cache |-> c]
           after == [i \in 1 .. 1 |-> id]
<1>1. id \in [Cache -> Cache] /\ Plain(id)
  BY DEF Plain, NodePlain, ServerPlain, Keeps
<1>2. Len(q) + 1 = 1 /\ 1 .. 1 = {1} /\ 1 .. Len(q) = {}
  OBVIOUS
<1>3. after \in [1 .. Len(q) + 1 -> [Cache -> Cache]] /\ after[1] = id
  BY <1>1, <1>2
<1>4. Ahead(q, after)
  BY <1>1, <1>2, <1>3 DEF Ahead
<1> QED
  BY <1>3, <1>4

LEMMA AheadOfAppend ==
  ASSUME NEW q \in Seq(Event), NEW event \in Event, NEW before, Ahead(q, before),
         event.type = "server.status" => told[event.server] # "none"
  PROVE  \E after : /\ Ahead(Append(q, event), after)
                    /\ \A c \in Cache : /\ before[1][c] \in Cache
                                        /\ after[1][c] = Updated(before[1][c], event)
<1>1. PICK k \in Nat : k = Len(q)
  BY LenProperties
<1>2. PICK p \in Seq(Event) : p = Append(q, event)
  BY AppendProperties
<1>3. Len(p) = k + 1 /\ p[k + 1] = event /\ \A i \in 1 .. k : p[i] = q[i]
  BY <1>1, <1>2, AppendProperties
<1> DEFINE id == [c \in Cache |-> c]
           next(i) == [c \in Cache |-> Updated(before[i][c], event)]
           after == [i \in 1 .. k + 2 |-> IF i = k + 2 THEN id ELSE next(i)]
<1>4. /\ before \in [1 .. k + 1 -> [Cache -> Cache]]
      /\ \A c \in Cache : before[k + 1][c] = c
      /\ \A i \in 1 .. k : \A c \in Cache : before[i][c] = before[i + 1][Updated(c, q[i])]
      /\ \A i \in 1 .. k + 1 : Plain(before[i])
  BY <1>1 DEF Ahead
<1>5. id \in [Cache -> Cache] /\ Plain(id)
  BY DEF Plain, NodePlain, ServerPlain, Keeps
<1>6. ASSUME NEW i \in 1 .. k + 1 PROVE next(i) \in [Cache -> Cache] /\ Plain(next(i))
  <2>1. before[i] \in [Cache -> Cache] /\ Plain(before[i])
    BY <1>4
  <2> QED
    BY <2>1, PlainThen
<1>7. /\ \A i \in 1 .. k + 1 : i \in 1 .. k + 2 /\ i # k + 2 /\ after[i] = next(i)
      /\ after[k + 2] = id /\ \A i \in 1 .. k + 2 : i = k + 2 \/ i \in 1 .. k + 1
  OBVIOUS
<1>8. after \in [1 .. k + 2 -> [Cache -> Cache]] /\ \A i \in 1 .. k + 2 : Plain(after[i])
  BY <1>5, <1>6, <1>7
<1>9. \A c \in Cache : after[k + 2][c] = c
  BY <1>7
<1>10. \A i \in 1 .. k + 1 : \A c \in Cache : after[i][c] = Updated(before[i][c], event)
  BY <1>7
<1> HIDE DEF after, next, id
<1>11. ASSUME NEW i \in 1 .. k + 1, NEW c \in Cache
       PROVE  after[i][c] = after[i + 1][Updated(c, p[i])]
  <2>1. CASE i = k + 1
    <3>1. Updated(c, event) \in Cache
      BY UpdatedBecomes
    <3>2. after[k + 1][c] = Updated(c, event)
      BY <1>4, <1>10, <2>1
    <3> QED
      BY <1>3, <1>9, <2>1, <3>1, <3>2
  <2>2. CASE i # k + 1
    <3>1. i \in 1 .. k /\ i + 1 \in 1 .. k + 1
      BY <2>2
    <3>2. q[i] \in Event /\ p[i] = q[i]
      BY <1>1, <1>3, <3>1
    <3>3. Updated(c, q[i]) \in Cache
      BY <3>2, UpdatedBecomes
    <3>4. after[i + 1][Updated(c, q[i])] = Updated(before[i + 1][Updated(c, q[i])], event)
      BY <1>10, <3>1, <3>3
    <3>5. before[i][c] = before[i + 1][Updated(c, q[i])]
      BY <1>4, <3>1
    <3> QED
      BY <1>10, <3>2, <3>4, <3>5
  <2> QED
    BY <2>1, <2>2
<1>12. Ahead(p, after)
  <2>1. Len(p) + 1 = k + 2 /\ 1 .. Len(p) = 1 .. k + 1
    BY <1>3
  <2> QED
    BY <1>8, <1>9, <1>11, <2>1 DEF Ahead
<1>13. \A c \in Cache : before[1][c] \in Cache /\ after[1][c] = Updated(before[1][c], event)
  <2>1. 1 \in 1 .. k + 1
    OBVIOUS
  <2> QED
    BY <1>4, <1>10, <2>1
<1> QED
  BY <1>2, <1>12, <1>13

LEMMA AheadOfTail ==
  ASSUME NEW q \in Seq(Event), q # <<>>, NEW before, Ahead(q, before)
  PROVE  /\ Head(q) \in Event
         /\ before[1] \in [Cache -> Cache] /\ Plain(before[1])
         /\ \E after : /\ Ahead(Tail(q), after)
                       /\ after[1] \in [Cache -> Cache] /\ Plain(after[1])
                       /\ \A c \in Cache : before[1][c] = after[1][Updated(c, Head(q))]
<1>1. PICK k \in Nat : k + 1 = Len(q)
  <2>1. Len(q) \in Nat /\ Len(q) # 0
    BY LenProperties, EmptySeq
  <2>2. PICK l \in Nat : l = Len(q) /\ l # 0
    BY <2>1
  <2>3. l - 1 \in Nat /\ (l - 1) + 1 = l
    BY <2>2
  <2> QED
    BY <2>2, <2>3
<1>2. PICK p \in Seq(Event) : p = Tail(q)
  BY HeadTailProperties
<1>3. /\ Len(p) = k /\ \A i \in 1 .. k : p[i] = q[i + 1]
      /\ Head(q) = q[1] /\ Head(q) \in Event
  BY <1>1, <1>2, HeadTailProperties
<1>4. /\ before \in [1 .. k + 2 -> [Cache -> Cache]]
      /\ \A c \in Cache : before[k + 2][c] = c
      /\ \A i \in 1 .. k + 1 : \A c \in Cache : before[i][c] = before[i + 1][Updated(c, q[i])]
      /\ \A i \in 1 .. k + 2 : Plain(before[i])
  <2>1. Len(q) + 1 = k + 2
    BY <1>1
  <2> QED
    BY <1>1, <2>1 DEF Ahead
<1> DEFINE after == [i \in 1 .. k + 1 |-> before[i + 1]]
<1>5. /\ \A i \in 1 .. k + 1 : i + 1 \in 1 .. k + 2 /\ after[i] = before[i + 1]
      /\ \A i \in 1 .. k : i \in 1 .. k + 1 /\ i + 1 \in 1 .. k + 1 /\ (i + 1) + 1 \in 1 .. k + 2
      /\ k + 1 \in 1 .. k + 1 /\ (k + 1) + 1 = k + 2
  OBVIOUS
<1>6. after \in [1 .. k + 1 -> [Cache -> Cache]]
  BY <1>4, <1>5
<1>7. \A c \in Cache : after[k + 1][c] = c
  BY <1>4, <1>5
<1>8. ASSUME NEW i \in 1 .. k, NEW c \in Cache
      PROVE  after[i][c] = after[i + 1][Updated(c, p[i])]
  <2>1. /\ i + 1 \in 1 .. k + 1 /\ after[i] = before[i + 1]
        /\ after[i + 1] = before[(i + 1) + 1] /\ p[i] = q[i + 1]
    BY <1>3, <1>5
  <2>2. before[i + 1][c] = before[(i + 1) + 1][Updated(c, q[i + 1])]
    BY <1>4, <2>1
  <2> QED
    BY <2>1, <2>2
<1>9. \A i \in 1 .. k + 1 : Plain(after[i])
  BY <1>4, <1>5
<1>10. 1 \in 1 .. k + 1 /\ 1 \in 1 .. k + 2 /\ 1 + 1 = 2
  OBVIOUS
<1>11. \A c \in Cache : before[1][c] = after[1][Updated(c, Head(q))]
  BY <1>3, <1>4, <1>5, <1>10
<1> HIDE DEF after
<1>12. Ahead(p, after)
  BY <1>3, <1>6, <1>7, <1>8, <1>9 DEF Ahead
<1> QED
  BY <1>2, <1>3, <1>4, <1>6, <1>9, <1>10, <1>11, <1>12

-----------------------------------------------------------------------------
(* Following the system *)

\* What was announced stays announced.
TellsOn == \A s \in Servers : told[s] # "none" => told'[s] # "none"

\* What is or will be shown stays right without an event.
FitsOn(b) == /\ Phase(b) \in {"open", "listed"} => \A c : Fits(b, c) => Fits(b, c)'
             /\ Phase(b) = "joined" => \A x : NodesFit(b, x) => NodesFit(b, x)'

LEMMA AheadOn ==
  ASSUME NEW q, NEW after, Ahead(q, after), TellsOn
  PROVE  Ahead(q, after)'
<1>1. \A f : Plain(f) => Plain(f)'
  BY DEF TellsOn, Plain, NodePlain, ServerPlain, Keeps, Sets, Changes
<1> QED
  BY <1>1 DEF Ahead

LEMMA HoldsOn ==
  ASSUME NEW b \in Browsers, NEW e, NEW after, Holds(b, e, after),
         \A c : Fits(b, c) => Fits(b, c)',
         cache'[b] = cache[b], entry'[b] = entry[b], fetch'[b] = fetch[b]
  PROVE  Holds(b, e, after)'
<1>1. PICK f, x : f = fetch[b] /\ x = after[e]
  OBVIOUS
<1>2. Fits(b, x) /\ \A a \in f : Fits(b, after[With(e, a)])
  BY <1>1 DEF Holds
<1>3. Fits(b, x)' /\ \A a \in f : Fits(b, after[With(e, a)])'
  BY <1>2
<1> QED
  BY <1>1, <1>3 DEF Holds, With

\* A browser that is sent nothing.
LEMMA FollowsOn ==
  ASSUME NEW b \in Browsers, Follows(b), TellsOn, FitsOn(b),
         socket'[b] = socket[b], channel'[b] = channel[b], cache'[b] = cache[b],
         entry'[b] = entry[b], fetch'[b] = fetch[b]
  PROVE  Follows(b)'
<1>1. PICK q : q = channel[b] /\ q = channel'[b]
  OBVIOUS
<1>2. Phase(b)' = Phase(b)
  BY DEF Phase
<1>3. PICK after : Ahead(q, after) /\ (Phase(b) = "open" => \E e \in Cache : Holds(b, e, after[1]))
  BY <1>1 DEF Follows
<1>4. Ahead(q, after)'
  BY <1>3, AheadOn
<1>5. Phase(b) = "open" => \E e \in Cache : Holds(b, e, after[1])'
  <2> SUFFICES ASSUME Phase(b) = "open", NEW e \in Cache, Holds(b, e, after[1])
               PROVE  Holds(b, e, after[1])'
    BY <1>3
  <2>1. \A c : Fits(b, c) => Fits(b, c)'
    BY DEF FitsOn
  <2> QED
    BY <2>1, HoldsOn
<1>6. PICK k : k = socket[b]
  OBVIOUS
<1>7. /\ Phase(b) = "listed" => Fits(b, k)'
      /\ Phase(b) = "joined" => NodesFit(b, k.nodes)'
  BY <1>6 DEF FitsOn, Follows
<1> QED
  BY <1>1, <1>2, <1>4, <1>5, <1>6, <1>7 DEF Follows, Cache, Lists

\* A browser that is sent an event.
LEMMA FollowsSent ==
  ASSUME NEW b \in Browsers, TypeOK, Follows(b), TellsOn, NEW event \in Event,
         event.type = "server.status" => told[event.server] # "none",
         Phase(b) = "open" =>
           \A c \in Cache : Fits(b, c) => Fits(b, Updated(c, event))',
         Phase(b) # "open" => FitsOn(b),
         socket'[b] = socket[b], channel'[b] = Append(channel[b], event),
         cache'[b] = cache[b], entry'[b] = entry[b], fetch'[b] = fetch[b]
  PROVE  Follows(b)'
<1>1. PICK q \in Seq(Event), f \in SUBSET Answer : q = channel[b] /\ f = fetch[b]
  BY DEF TypeOK
<1>2. PICK p : p = Append(q, event)
  OBVIOUS
<1>3. p = channel'[b] /\ f = fetch'[b] /\ Phase(b)' = Phase(b)
  BY <1>1, <1>2 DEF Phase
<1>4. PICK before : /\ Ahead(q, before)
                    /\ Phase(b) = "open" => \E e \in Cache : Holds(b, e, before[1])
  BY <1>1 DEF Follows
<1>5. PICK after : /\ Ahead(p, after)
                   /\ \A e \in Cache : /\ before[1][e] \in Cache
                                       /\ after[1][e] = Updated(before[1][e], event)
  BY <1>2, <1>4, AheadOfAppend
<1>6. Ahead(p, after)'
  BY <1>5, AheadOn
<1>7. Phase(b) = "open" => \E e \in Cache : Holds(b, e, after[1])'
  <2> SUFFICES ASSUME Phase(b) = "open", NEW e \in Cache, Holds(b, e, before[1])
               PROVE  Holds(b, e, after[1])'
    BY <1>4
  <2>1. ASSUME NEW c \in Cache, Fits(b, before[1][c]) PROVE Fits(b, after[1][c])'
    <3>1. PICK x \in Cache : x = before[1][c] /\ after[1][c] = Updated(x, event)
      BY <1>5
    <3>2. Fits(b, Updated(x, event))'
      BY <2>1, <3>1
    <3> QED
      BY <3>1, <3>2
  <2>2. Fits(b, after[1][e])'
    BY <2>1 DEF Holds
  <2>3. \A a \in f : Fits(b, after[1][With(e, a)])'
    <3> SUFFICES ASSUME NEW a \in f PROVE Fits(b, after[1][With(e, a)])'
      OBVIOUS
    <3>1. With(e, a) \in Cache
      BY WithType
    <3>2. Fits(b, before[1][With(e, a)])
      BY <1>1 DEF Holds
    <3> QED
      BY <2>1, <3>1, <3>2
  <2> QED
    BY <1>3, <2>2, <2>3 DEF Holds, With
<1>8. PICK k : k = socket[b]
  OBVIOUS
<1>9. /\ Phase(b) = "listed" => Fits(b, k)'
      /\ Phase(b) = "joined" => NodesFit(b, k.nodes)'
  BY <1>8 DEF FitsOn, Follows
<1> QED
  BY <1>3, <1>6, <1>7, <1>8, <1>9 DEF Follows, Cache, Lists

\* The browser and the system are alone with the browser's own doubts.
LEMMA DoubtsGrow ==
  ASSUME NEW b \in Browsers, UNCHANGED <<owner, nodes, row, told, writes, lookups>>,
         doubt[b] \subseteq doubt'[b]
  PROVE  TellsOn /\ FitsOn(b)
BY DEF TellsOn, FitsOn, Fits, NodesFit, Expected, Unwritten, Unpushed

\* Everything about rows moves on: a server is inserted, announced, deleted and
\* announced again, once, and is reported about in between.
LEMMA LifeOn ==
  ASSUME IInv, \A s \in Servers : Life(s), [Next]_vars
  PROVE  (\A s \in Servers : Life(s)') /\ TellsOn
<1>1. /\ row \in Lists /\ told \in [Servers -> {"none", "created", "removed"}]
      /\ \A w \in writes \cup lookups : w.server \in Servers /\ w.status \in Reported /\ Shape(w)
  BY DEF IInv, TypeOK
<1>2. CASE UNCHANGED <<row, told, writes, lookups>>
  BY <1>2 DEF Life, InFlight, TellsOn
<1>3. ASSUME NEW s \in Servers, InsertRow(s) PROVE (\A t \in Servers : Life(t)') /\ TellsOn
  BY <1>1, <1>3 DEF InsertRow, Life, InFlight, TellsOn, Lists
<1>4. ASSUME NEW s \in Servers, AnnounceCreated(s) PROVE (\A t \in Servers : Life(t)') /\ TellsOn
  BY <1>1, <1>4 DEF AnnounceCreated, Life, InFlight, TellsOn
<1>5. ASSUME NEW s \in Servers, DeleteRow(s) PROVE (\A t \in Servers : Life(t)') /\ TellsOn
  BY <1>1, <1>5 DEF DeleteRow, Life, InFlight, TellsOn, Lists
<1>6. ASSUME NEW s \in Servers, AnnounceRemoved(s) PROVE (\A t \in Servers : Life(t)') /\ TellsOn
  BY <1>1, <1>6 DEF AnnounceRemoved, Life, InFlight, TellsOn
<1>7. ASSUME NEW s \in Servers, NEW status \in Reported, ReportStatus(s, status)
      PROVE  (\A t \in Servers : Life(t)') /\ TellsOn
  <2>1. \A w \in (writes \cup lookups)' : w \in writes \cup lookups \/ w.server = s
    BY <1>7 DEF ReportStatus
  <2>2. told[s] # "none" /\ UNCHANGED <<row, told>>
    BY <1>7 DEF ReportStatus
  <2> QED
    BY <2>1, <2>2 DEF Life, InFlight, TellsOn
<1>8. ASSUME NEW w \in writes, WriteStatus(w) PROVE (\A t \in Servers : Life(t)') /\ TellsOn
  <2>1. /\ UNCHANGED <<told, lookups>> /\ writes' \subseteq writes
        /\ \A t \in Servers : t # w.server \/ row[t] = Absent => row'[t] = row[t]
    BY <1>1, <1>8 DEF WriteStatus, Lists
  <2>2. told[w.server] # "none"
    BY <1>1 DEF Life, InFlight
  <2> QED
    BY <2>1, <2>2 DEF Life, InFlight, TellsOn
<1>9. ASSUME NEW w \in lookups, FindOwner(w) \/ PushStatus(w)
      PROVE  (\A t \in Servers : Life(t)') /\ TellsOn
  <2>1. \A v \in lookups' : v \in lookups \/ v.server = w.server
    BY <1>1, <1>9 DEF FindOwner, PushStatus, Shape
  <2>2. UNCHANGED <<row, told, writes>>
    BY <1>9 DEF FindOwner, PushStatus
  <2>3. told[w.server] # "none"
    BY <1>1 DEF Life, InFlight
  <2> QED
    BY <2>1, <2>2, <2>3 DEF Life, InFlight, TellsOn
<1>10. ASSUME NEW n \in Nodes, NodeConnects(n) \/ NodeDisconnects(n)
       PROVE  UNCHANGED <<row, told, writes, lookups>>
  BY <1>10 DEF NodeConnects, NodeDisconnects
<1>11. ASSUME NEW b \in Browsers,
              \/ Connect(b) \/ Join(b) \/ Refuse(b) \/ List(b) \/ SendSnapshot(b) \/ Drop(b)
              \/ ReceiveEvent(b) \/ Discard(b)
              \/ \E answer \in fetch[b] : FetchArrives(b, answer) \/ FetchLost(b, answer)
              \/ \E what \in {"nodes", "servers"} : FetchReads(b, what)
       PROVE  UNCHANGED <<row, told, writes, lookups>>
  BY <1>11 DEF Connect, Join, Refuse, List, SendSnapshot, Drop, ReceiveEvent, FetchArrives,
     FetchReads, FetchLost, Discard, system
<1>12. CASE UNCHANGED vars
  BY <1>2, <1>12 DEF vars, system
<1> QED
  BY <1>2, <1>3, <1>4, <1>5, <1>6, <1>7, <1>8, <1>9, <1>10, <1>11, <1>12 DEF Next

\* What rows and reports do to a server whose reports do not overlap.
Sound(s) == OneReport(s)' /\ \A x : Expected(s, x) => Expected(s, x)'

LEMMA RowSound ==
  ASSUME IInv, NEW t \in Servers, InsertRow(t) \/ DeleteRow(t), NEW s \in Servers, OneReport(s), Life(s)
  PROVE  Sound(s)
<1>1. row \in Lists /\ told \in [Servers -> {"none", "created", "removed"}]
  BY DEF IInv, TypeOK
<1>2. UNCHANGED <<told, writes, lookups>>
  BY DEF InsertRow, DeleteRow
<1>3. s # t => row'[s] = row[s]
  BY <1>1 DEF InsertRow, DeleteRow, Lists
<1>4. CASE s # t
  BY <1>2, <1>3, <1>4 DEF Sound, OneReport, Expected, Unwritten, Unpushed
<1>5. CASE s = t /\ InsertRow(t)
  <2>1. row[s] = Absent /\ told[s] = "none" /\ ~InFlight(s)
    BY <1>5 DEF InsertRow, Life
  <2> QED
    BY <1>2, <2>1 DEF Sound, OneReport, Expected, Unwritten, Unpushed, InFlight
<1>6. CASE s = t /\ DeleteRow(t)
  <2>1. row'[s] = Absent /\ told[s] = "created"
    BY <1>1, <1>6 DEF DeleteRow, Lists
  <2> QED
    BY <1>2, <2>1 DEF Sound, OneReport, Expected, Unwritten, Unpushed
<1> QED
  BY <1>4, <1>5, <1>6

LEMMA ReportSound ==
  ASSUME IInv, NEW t \in Servers, NEW status \in Reported, ReportStatus(t, status),
         NEW s \in Servers, OneReport(s), s = t => ~InFlight(s)
  PROVE  Sound(s)
<1>1. PICK w : /\ w.server = t /\ w.status = status
               /\ writes' = writes \cup {w} /\ lookups' = lookups \cup {w}
  <2>1. \A k : LET w == [server |-> t, status |-> status, number |-> k, found |-> FALSE]
               IN  w.server = t /\ w.status = status
    OBVIOUS
  <2> QED
    BY <2>1 DEF ReportStatus
<1>2. UNCHANGED <<row, told>> /\ told[t] # "none"
  BY DEF ReportStatus
<1>3. CASE s # t
  BY <1>1, <1>2, <1>3 DEF Sound, OneReport, Expected, Unwritten, Unpushed
<1>4. CASE s = t
  <2>1. \A v \in writes \cup lookups : v.server # s
    BY <1>4 DEF InFlight
  <2>2. OneReport(s)'
    BY <1>1, <1>4, <2>1 DEF OneReport, Unwritten
  <2>3. \A x : Expected(s, x) => Expected(s, x)'
    BY <1>1, <1>2, <1>4, <2>1 DEF Expected, Unwritten, Unpushed
  <2> QED
    BY <2>2, <2>3 DEF Sound
<1> QED
  BY <1>3, <1>4

LEMMA WriteSound ==
  ASSUME IInv, NEW w \in writes, WriteStatus(w), NEW s \in Servers, OneReport(s), Life(s)
  PROVE  Sound(s)
<1>1. row \in Lists /\ w.server \in Servers /\ w.status \in Reported
  BY DEF IInv, TypeOK
<1>2. /\ UNCHANGED <<told, lookups>> /\ writes' = writes \ {w}
      /\ row' = IF row[w.server] = Absent THEN row ELSE [row EXCEPT ![w.server] = w.status]
  BY DEF WriteStatus
<1>3. CASE s # w.server
  <2>1. row'[s] = row[s]
    BY <1>1, <1>2, <1>3 DEF Lists
  <2> QED
    BY <1>2, <1>3, <2>1 DEF Sound, OneReport, Expected, Unwritten, Unpushed
<1>4. CASE s = w.server
  <2>1. row'[s] = IF row[s] = Absent THEN Absent ELSE w.status
    BY <1>1, <1>2, <1>4 DEF Lists
  <2>2. Unwritten(s) /\ ~Unwritten(s)' /\ Unpushed(s)' = Unpushed(s)
    BY <1>2, <1>4 DEF OneReport, Unwritten, Unpushed
  <2>3. \A v \in lookups : v.server = s => v.status = w.status
    BY <1>4 DEF OneReport
  <2>4. OneReport(s)'
    BY <1>2, <2>1, <2>3 DEF OneReport
  <2>5. told[s] # "none"
    BY <1>4 DEF Life, InFlight
  <2>6. w.status # Absent
    BY <1>1, AbsentAssumption DEF Statuses
  <2>7. \A x : Expected(s, x) => Expected(s, x)'
    BY <1>2, <1>4, <2>1, <2>2, <2>5, <2>6 DEF Expected, Unwritten
  <2> QED
    BY <2>4, <2>7 DEF Sound
<1> QED
  BY <1>3, <1>4

LEMMA FindSound ==
  ASSUME IInv, NEW w \in lookups, FindOwner(w), NEW s \in Servers, OneReport(s)
  PROVE  Sound(s)
<1>1. PICK v : /\ v.server = w.server /\ v.status = w.status
               /\ lookups' = (lookups \ {w}) \cup (IF row[w.server] = Absent THEN {} ELSE {v})
  BY DEF FindOwner, IInv, Shape
<1>2. UNCHANGED <<row, told, writes>>
  BY DEF FindOwner
<1>3. CASE s # w.server
  <2>1. \A u : u.server = s => (u \in lookups' <=> u \in lookups)
    BY <1>1, <1>3
  <2>2. Unpushed(s)' = Unpushed(s) /\ Unwritten(s)' = Unwritten(s)
    BY <1>2, <2>1 DEF Unpushed, Unwritten
  <2>3. OneReport(s)'
    BY <1>2, <2>1, <2>2 DEF OneReport
  <2>4. \A x : Expected(s, x) => Expected(s, x)'
    BY <1>2, <2>2 DEF Expected
  <2> QED
    BY <2>3, <2>4 DEF Sound
<1>4. CASE s = w.server
  <2>1. \A u \in lookups : u.server = s => u = w
    BY <1>4 DEF OneReport
  <2>2. \A u \in lookups' : u.server = s => u = v
    BY <1>1, <2>1
  <2>3. row[s] # Absent => (Unpushed(s) /\ Unpushed(s)')
    BY <1>1, <1>2, <1>4 DEF Unpushed
  <2>4. OneReport(s)'
    <3>1. v.status = w.status /\ \A u \in writes : u.server = s => u.status = v.status
      BY <1>1, <1>4 DEF OneReport
    <3>2. ~Unwritten(s) /\ row[s] # Absent => row[s] = v.status
      BY <1>1, <1>4 DEF OneReport
    <3>3. Unwritten(s)' = Unwritten(s)
      BY <1>2 DEF Unwritten
    <3> QED
      BY <1>2, <2>2, <3>1, <3>2, <3>3 DEF OneReport
  <2>5. \A x : Expected(s, x) => Expected(s, x)'
    BY <1>2, <2>3 DEF Expected, Unwritten
  <2> QED
    BY <2>4, <2>5 DEF Sound
<1> QED
  BY <1>3, <1>4

LEMMA RowFollows ==
  ASSUME IInv, Caught, TellsOn, \A s \in Servers : Life(s)',
         UNCHANGED <<owner, nodes, socket, channel, cache, entry, fetch>>,
         \A b \in Browsers : doubt[b] \subseteq doubt'[b],
         \A b \in Attached : \A s \in Servers \ doubt'[b] : Sound(s)
  PROVE  Caught'
<1>1. Attached' = Attached
  BY DEF Attached, Phase
<1>2. Trusted'
  BY <1>1 DEF Trusted, Sound
<1>3. ASSUME NEW b \in Browsers PROVE Follows(b)'
  <2>1. b \in Attached => \A c : Fits(b, c) => Fits(b, c)'
    BY DEF Fits, NodesFit, Sound
  <2>2. \A x : NodesFit(b, x) => NodesFit(b, x)'
    BY DEF NodesFit
  <2>3. FitsOn(b)
    BY <2>1, <2>2 DEF FitsOn, Attached
  <2> QED
    BY <2>3, FollowsOn DEF Caught
<1> QED
  BY <1>2, <1>3 DEF Caught

\* Rows and reports change under the browsers, who are told later.
LEMMA RowCaught ==
  ASSUME IInv, Caught, TellsOn, \A s \in Servers : Life(s)',
         \/ \E s \in Servers : \/ InsertRow(s) \/ DeleteRow(s)
                               \/ \E status \in Reported : ReportStatus(s, status)
         \/ \E w \in writes : WriteStatus(w)
         \/ \E w \in lookups : FindOwner(w)
  PROVE  Caught'
<1>1. \A s \in Servers : Life(s) /\ \A b \in Attached : s \notin doubt[b] => OneReport(s)
  BY DEF Caught, Trusted
<1>2. UNCHANGED <<owner, nodes, socket, channel, cache, entry, fetch>>
  BY DEF InsertRow, DeleteRow, ReportStatus, WriteStatus, FindOwner, page
<1>3. ASSUME doubt' = doubt, \A s \in Servers : OneReport(s) => Sound(s) PROVE Caught'
  BY <1>1, <1>2, <1>3, RowFollows
<1>4. ASSUME NEW t \in Servers, InsertRow(t) \/ DeleteRow(t) PROVE Caught'
  <2>1. doubt' = doubt
    BY <1>4 DEF InsertRow, DeleteRow
  <2> QED
    BY <1>1, <1>3, <1>4, <2>1, RowSound
<1>5. ASSUME NEW w \in writes, WriteStatus(w) PROVE Caught'
  <2>1. doubt' = doubt
    BY <1>5 DEF WriteStatus
  <2> QED
    BY <1>1, <1>3, <1>5, <2>1, WriteSound
<1>6. ASSUME NEW w \in lookups, FindOwner(w) PROVE Caught'
  <2>1. doubt' = doubt
    BY <1>6 DEF FindOwner
  <2> QED
    BY <1>3, <1>6, <2>1, FindSound
<1>7. ASSUME NEW t \in Servers, NEW status \in Reported, ReportStatus(t, status) PROVE Caught'
  <2>1. doubt' = IF InFlight(t) THEN [b \in Browsers |-> doubt[b] \cup {t}] ELSE doubt
    BY <1>7 DEF ReportStatus
  <2>2. ASSUME NEW b \in Browsers, NEW s \in Servers \ doubt'[b]
        PROVE  s \notin doubt[b] /\ (s = t => ~InFlight(s))
    BY <2>1, <2>2
  <2>3. \A b \in Browsers : doubt[b] \subseteq doubt'[b]
    BY <2>1
  <2>4. ASSUME NEW b \in Attached, NEW s \in Servers \ doubt'[b] PROVE Sound(s)
    <3>1. b \in Browsers
      BY DEF Attached
    <3> QED
      BY <1>1, <1>7, <2>2, <3>1, ReportSound
  <2> QED
    BY <1>2, <2>3, <2>4, RowFollows
<1> QED
  BY <1>4, <1>5, <1>6, <1>7

\* A node that comes or goes is pushed to every browser at once.
LEMMA NodeCaught ==
  ASSUME IInv, Caught, TellsOn, \A s \in Servers : Life(s)',
         NEW n \in Nodes, NodeConnects(n) \/ NodeDisconnects(n)
  PROVE  Caught'
<1>1. UNCHANGED <<owner, row, told, writes, lookups, socket, cache, entry, fetch>>
  BY DEF NodeConnects, NodeDisconnects, page
<1>2. PICK event \in Event :
        /\ \/ event.type = "node.connected" /\ nodes' = nodes \cup {n}
           \/ event.type = "node.disconnected" /\ nodes' = nodes \ {n}
        /\ event.node = n
        /\ Push(Attached, n, event, {b \in Browsers : Phase(b) \in {"joined", "listed"}})
  <2>1. \A type \in {"node.connected", "node.disconnected"} :
          LET event == [type |-> type, node |-> n]
          IN  event \in Event /\ event.type = type /\ event.node = n
    BY DEF Event
  <2> QED
    BY <2>1 DEF NodeConnects, NodeDisconnects, PushNode
<1>3. \A b \in Browsers :
        /\ channel'[b] = IF b \in Attached THEN Append(channel[b], event) ELSE channel[b]
        /\ doubt'[b] = IF b \in Attached /\ Phase(b) \in {"joined", "listed"}
                       THEN doubt[b] \cup {n} ELSE doubt[b]
  BY <1>2 DEF Push
<1>4. Attached' = Attached /\ Attached \subseteq Browsers
  BY <1>1 DEF Attached, Phase
<1>5. Trusted'
  <2>1. \A s \in Servers : OneReport(s)' = OneReport(s)
    BY <1>1 DEF OneReport, Unwritten
  <2>2. \A b \in Attached : doubt[b] \subseteq doubt'[b]
    BY <1>3, <1>4
  <2> QED
    BY <1>4, <2>1, <2>2 DEF Caught, Trusted
<1>6. \A s \in Servers : \A x : Expected(s, x)' = Expected(s, x)
  BY <1>1 DEF Expected, Unwritten, Unpushed
<1>7. \A m \in Nodes \ {n} : m \in nodes' <=> m \in nodes
  BY <1>2
<1>8. ASSUME NEW b \in Browsers PROVE Follows(b)'
  <2>1. Phase(b) # "open" => FitsOn(b)
    <3>1. ASSUME Phase(b) \in {"joined", "listed"}
          PROVE  (\A x : NodesFit(b, x) => NodesFit(b, x)') /\ (\A c : Fits(b, c) => Fits(b, c)')
      <4>1. doubt'[b] = doubt[b] \cup {n}
        BY <1>3, <3>1 DEF Attached
      <4>2. \A x : NodesFit(b, x) => NodesFit(b, x)'
        BY <1>7, <4>1 DEF NodesFit
      <4> QED
        BY <1>1, <1>6, <4>1, <4>2 DEF Fits
    <3> QED
      BY <3>1 DEF FitsOn
  <2>2. CASE b \in Attached
    <3>1. Phase(b) = "open" => \A c \in Cache : Fits(b, c) => Fits(b, Updated(c, event))'
      <4> SUFFICES ASSUME Phase(b) = "open", NEW c \in Cache, Fits(b, c)
                   PROVE  Fits(b, Updated(c, event))'
        OBVIOUS
      <4>1. PICK d \in Cache : d = Updated(c, event) /\ Becomes(c, event, d)
        BY UpdatedBecomes
      <4>2. doubt'[b] = doubt[b]
        BY <1>3
      <4>3. /\ d.nodes = IF event.type = "node.connected" THEN c.nodes \cup {n} ELSE c.nodes \ {n}
            /\ \A s \in Servers : d.list[s] = c.list[s]
        BY <1>2, <4>1 DEF Becomes
      <4>4. NodesFit(b, d.nodes)'
        BY <1>2, <4>2, <4>3 DEF Fits, NodesFit
      <4>5. Fits(b, d)'
        BY <1>1, <1>6, <4>2, <4>3, <4>4 DEF Fits
      <4> QED
        BY <4>1, <4>5
    <3> QED
      BY <1>1, <1>2, <1>3, <2>1, <2>2, <3>1, FollowsSent DEF Caught, IInv
  <2>3. CASE b \notin Attached
    <3>1. Phase(b) # "open"
      BY <2>3 DEF Attached
    <3> QED
      BY <1>1, <1>3, <2>1, <2>3, <3>1, FollowsOn DEF Caught
  <2> QED
    BY <2>2, <2>3
<1> QED
  BY <1>5, <1>8 DEF Caught

\* An event about a server is pushed to the room of its owner.
LEMMA ServerCaught ==
  ASSUME IInv, Caught, TellsOn, \A s \in Servers : Life(s)',
         NEW s \in Servers, NEW event \in Event, PushServer(s, event), event.server = s,
         event.type \in {"server.created", "server.removed", "server.status"},
         event.type = "server.status" => told[s] # "none",
         UNCHANGED <<owner, nodes, row, writes, socket, cache, entry, fetch>>, lookups' \subseteq lookups,
         \A t \in Servers \ {s} : told'[t] = told[t] /\ Unpushed(t)' = Unpushed(t),
         OneReport(s) => \A x, y :
           /\ Expected(s, x)
           /\ y = IF event.type = "server.created" THEN "creating"
                  ELSE IF event.type = "server.removed" \/ x = Absent THEN Absent
                  ELSE event.status
           => Expected(s, y)'
  PROVE  Caught'
<1>1. \A b \in Browsers :
        /\ channel'[b] = IF b \in Room(owner[s]) THEN Append(channel[b], event) ELSE channel[b]
        /\ doubt'[b] = IF b \in Room(owner[s]) /\ Phase(b) = "listed"
                       THEN doubt[b] \cup {s} ELSE doubt[b]
  BY DEF PushServer, Push
<1>2. Attached' = Attached /\ Attached \subseteq Browsers
  BY DEF Attached, Phase
<1>3. Trusted'
  <2>1. \A t \in Servers : OneReport(t) => OneReport(t)'
    BY DEF OneReport, Unwritten
  <2>2. \A b \in Attached : doubt[b] \subseteq doubt'[b]
    BY <1>1, <1>2
  <2> QED
    BY <1>2, <2>1, <2>2 DEF Caught, Trusted
<1>4. \A t \in Servers \ {s} : \A x : Expected(t, x) => Expected(t, x)'
  BY DEF Expected, Unwritten
<1>5. ASSUME NEW b \in Browsers PROVE Follows(b)'
  <2>1. \A x : NodesFit(b, x) => NodesFit(b, x)'
    BY <1>1 DEF NodesFit
  <2>2. ASSUME s \in doubt'[b] \/ owner[s] # UserOf[b], NEW c, Fits(b, c) PROVE Fits(b, c)'
    <3>1. doubt[b] \subseteq doubt'[b]
      BY <1>1
    <3> QED
      BY <1>4, <2>1, <2>2, <3>1 DEF Fits
  <2>3. CASE b \in Room(owner[s])
    <3>1. Phase(b) # "open" => FitsOn(b)
      <4>1. Phase(b) = "listed" => s \in doubt'[b]
        BY <1>1, <2>3
      <4> QED
        BY <2>1, <2>2, <4>1 DEF FitsOn
    <3>2. Phase(b) = "open" => \A c \in Cache : Fits(b, c) => Fits(b, Updated(c, event))'
      <4> SUFFICES ASSUME Phase(b) = "open", NEW c \in Cache, Fits(b, c)
                   PROVE  Fits(b, Updated(c, event))'
        OBVIOUS
      <4>1. PICK d \in Cache : d = Updated(c, event) /\ Becomes(c, event, d)
        BY UpdatedBecomes
      <4>2. doubt'[b] = doubt[b] /\ b \in Attached
        BY <1>1, <2>3 DEF Room
      <4>3. /\ d.nodes = c.nodes /\ \A t \in Servers \ {s} : d.list[t] = c.list[t]
            /\ d.list[s] = IF event.type = "server.created" THEN "creating"
                           ELSE IF event.type = "server.removed" \/ c.list[s] = Absent THEN Absent
                           ELSE event.status
        BY <4>1 DEF Becomes
      <4>4. NodesFit(b, d.nodes)'
        BY <2>1, <4>3 DEF Fits
      <4>5. ASSUME NEW t \in Servers \ doubt'[b], owner[t] = UserOf[b] PROVE Expected(t, d.list[t])'
        <5>1. Expected(t, c.list[t])
          BY <4>2, <4>5 DEF Fits
        <5>2. CASE t # s
          BY <1>4, <4>3, <5>1, <5>2
        <5>3. CASE t = s
          <6>1. OneReport(s)
            BY <4>2, <5>3 DEF Caught, Trusted
          <6> QED
            BY <4>3, <5>1, <5>3, <6>1
        <5> QED
          BY <5>2, <5>3
      <4>6. Fits(b, d)'
        BY <4>4, <4>5 DEF Fits
      <4> QED
        BY <4>1, <4>6
    <3> QED
      BY <1>1, <2>3, <3>1, <3>2, FollowsSent DEF Caught, IInv
  <2>4. CASE b \notin Room(owner[s])
    <3>1. Phase(b) \in {"open", "listed"} => owner[s] # UserOf[b]
      BY <2>4 DEF Room, Attached
    <3>2. FitsOn(b)
      BY <2>1, <2>2, <3>1 DEF FitsOn
    <3> QED
      BY <1>1, <2>4, <3>2, FollowsOn DEF Caught
  <2> QED
    BY <2>3, <2>4
<1> QED
  BY <1>3, <1>5 DEF Caught

LEMMA AnnounceCaught ==
  ASSUME IInv, Caught, TellsOn, \A s \in Servers : Life(s)',
         NEW s \in Servers, AnnounceCreated(s) \/ AnnounceRemoved(s)
  PROVE  Caught'
<1>1. /\ UNCHANGED <<owner, nodes, row, writes, lookups, socket, cache, entry, fetch>>
      /\ told \in [Servers -> {"none", "created", "removed"}]
  BY DEF AnnounceCreated, AnnounceRemoved, page, IInv, TypeOK
<1>2. \A t \in Servers \ {s} : told'[t] = told[t] /\ Unpushed(t)' = Unpushed(t)
  BY <1>1 DEF AnnounceCreated, AnnounceRemoved, Unpushed
<1>3. CASE AnnounceCreated(s)
  <2>1. PICK event \in Event : /\ event.type = "server.created" /\ event.server = s
                               /\ PushServer(s, event)
    <3>1. LET event == [type |-> "server.created", server |-> s]
          IN  event \in Event /\ event.type = "server.created" /\ event.server = s
      BY DEF Event
    <3> QED
      BY <1>3, <3>1 DEF AnnounceCreated
  <2>2. row[s] = "creating" /\ ~InFlight(s) /\ told'[s] = "created"
    BY <1>1, <1>3 DEF AnnounceCreated, Caught, Life
  <2>3. "creating" # Absent
    BY AbsentAssumption DEF Statuses
  <2>4. Expected(s, "creating")'
    BY <1>1, <2>2, <2>3 DEF Expected, InFlight
  <2> QED
    BY <1>1, <1>2, <2>1, <2>4, ServerCaught
<1>4. CASE AnnounceRemoved(s)
  <2>1. PICK event \in Event : /\ event.type = "server.removed" /\ event.server = s
                               /\ PushServer(s, event)
    <3>1. LET event == [type |-> "server.removed", server |-> s]
          IN  event \in Event /\ event.type = "server.removed" /\ event.server = s
      BY DEF Event
    <3> QED
      BY <1>4, <3>1 DEF AnnounceRemoved
  <2>2. told'[s] = "removed"
    BY <1>1, <1>4 DEF AnnounceRemoved
  <2>3. Expected(s, Absent)'
    BY <2>2 DEF Expected
  <2> QED
    BY <1>1, <1>2, <2>1, <2>3, ServerCaught
<1> QED
  BY <1>3, <1>4

LEMMA PushStatusCaught ==
  ASSUME IInv, Caught, TellsOn, \A s \in Servers : Life(s)', NEW w \in lookups, PushStatus(w)
  PROVE  Caught'
<1>1. PICK s \in Servers, status \in Reported : s = w.server /\ status = w.status
  BY DEF IInv, TypeOK
<1>2. /\ UNCHANGED <<owner, nodes, row, told, writes, socket, cache, entry, fetch>>
      /\ lookups' = lookups \ {w}
      /\ told \in [Servers -> {"none", "created", "removed"}]
  BY DEF PushStatus, page, IInv, TypeOK
<1>3. told[s] # "none"
  BY <1>1 DEF Caught, Life, InFlight
<1>4. PICK event \in Event : /\ event.type = "server.status" /\ event.server = s
                             /\ event.status = status /\ PushServer(s, event)
  <2>1. LET event == [type |-> "server.status", server |-> s, status |-> status]
        IN  /\ event \in Event /\ event.type = "server.status"
            /\ event.server = s /\ event.status = status
    BY DEF Event
  <2> QED
    BY <1>1, <2>1 DEF PushStatus
<1>5. \A t \in Servers \ {s} : told'[t] = told[t] /\ Unpushed(t)' = Unpushed(t)
  BY <1>1, <1>2 DEF Unpushed
<1>6. status # Absent
  BY AbsentAssumption DEF Statuses
<1>7. ASSUME OneReport(s), NEW x, Expected(s, x)
      PROVE  Expected(s, IF x = Absent THEN Absent ELSE status)'
  <2>1. ~Unpushed(s)'
    BY <1>1, <1>2, <1>7 DEF OneReport, Unpushed
  <2>2. \A v \in writes : v.server = s => v.status = status
    BY <1>1, <1>7 DEF OneReport
  <2>3. row[s] # Absent /\ ~Unwritten(s) => row[s] = status
    BY <1>1, <1>7 DEF OneReport
  <2> QED
    BY <1>2, <1>3, <1>6, <1>7, <2>1, <2>2, <2>3 DEF Expected, Unwritten
<1> QED
  BY <1>2, <1>3, <1>4, <1>5, <1>7, ServerCaught

(***************************************************************************)
(* A step of a browser's connection or page leaves the system and the      *)
(* other browsers as they are.                                             *)
(***************************************************************************)
Alone(b) ==
  /\ UNCHANGED <<owner, nodes, row, told, writes, lookups>>
  /\ \A d \in Browsers \ {b} : /\ socket'[d] = socket[d] /\ channel'[d] = channel[d]
                               /\ cache'[d] = cache[d] /\ entry'[d] = entry[d]
                               /\ fetch'[d] = fetch[d] /\ doubt'[d] = doubt[d]

LEMMA AloneCaught ==
  ASSUME Caught, NEW b \in Browsers, Alone(b), Follows(b)',
         Phase(b)' \notin {"closed", "refused"} =>
           \A s \in Servers \ doubt'[b] : OneReport(s)
  PROVE  Caught'
<1>1. UNCHANGED <<owner, nodes, row, told, writes, lookups>>
  BY DEF Alone
<1>2. \A s \in Servers : Life(s)'
  BY <1>1 DEF Caught, Life, InFlight
<1>3. \A s \in Servers : OneReport(s)' = OneReport(s)
  BY <1>1 DEF OneReport, Unwritten
<1>4. ASSUME NEW d \in Browsers \ {b}
      PROVE  /\ Follows(d)'
             /\ d \in Attached' => d \in Attached /\ doubt'[d] = doubt[d]
  <2>1. /\ socket'[d] = socket[d] /\ channel'[d] = channel[d] /\ cache'[d] = cache[d]
        /\ entry'[d] = entry[d] /\ fetch'[d] = fetch[d] /\ doubt'[d] = doubt[d]
    BY DEF Alone
  <2>2. TellsOn /\ FitsOn(d)
    BY <1>1, <2>1, DoubtsGrow
  <2> QED
    BY <2>1, <2>2, FollowsOn DEF Caught, Attached, Phase
<1>5. Trusted'
  <2> SUFFICES ASSUME NEW d \in Attached', NEW s \in Servers \ doubt'[d] PROVE OneReport(s)
    BY <1>3 DEF Trusted
  <2>1. CASE d = b
    BY <2>1 DEF Attached
  <2>2. CASE d # b
    <3>1. d \in Browsers \ {b}
      BY <2>2 DEF Attached
    <3> QED
      BY <1>4, <3>1 DEF Caught, Trusted
  <2> QED
    BY <2>1, <2>2
<1> QED
  BY <1>2, <1>4, <1>5 DEF Caught

\* Nothing is promised to a browser without a connection.
LEMMA ClosedFollows ==
  ASSUME NEW b \in Browsers, Phase(b) \in {"closed", "refused"}, channel[b] = <<>>
  PROVE  Follows(b)
BY AheadOfNothing DEF Follows

LEMMA EndCaught ==
  ASSUME IInv, Caught, NEW b \in Browsers, Refuse(b) \/ Drop(b)
  PROVE  Caught'
<1>1. /\ socket \in [Browsers -> Connection] /\ channel \in [Browsers -> Seq(Event)]
  BY DEF IInv, TypeOK
<1>2. /\ UNCHANGED <<owner, nodes, row, told, writes, lookups, cache, entry, fetch, doubt>>
      /\ channel' = [channel EXCEPT ![b] = <<>>]
      /\ \A d \in Browsers \ {b} : socket'[d] = socket[d]
      /\ Phase(b)' \in {"closed", "refused"}
  <2>1. CASE Refuse(b)
    <3>1. socket[b] = [phase |-> "handshake", nodes |-> socket[b].nodes]
      BY <1>1, <2>1 DEF Refuse, Phase, Connection
    <3>2. [socket[b] EXCEPT !.phase = "refused"].phase = "refused"
      BY <3>1
    <3> QED
      BY <1>1, <2>1, <3>2 DEF Refuse, Enter, system, page, Phase
  <2>2. CASE Drop(b)
    BY <1>1, <2>2 DEF Drop, system, page, Phase
  <2> QED
    BY <2>1, <2>2
<1>3. Alone(b) /\ channel'[b] = <<>>
  BY <1>1, <1>2 DEF Alone
<1>4. Follows(b)'
  <2>1. PICK q : q = <<>> /\ q = channel'[b]
    BY <1>3
  <2>2. PICK after : Ahead(q, after)'
    <3>1. PICK after : Ahead(q, after)
      BY <2>1, AheadOfNothing
    <3>2. TellsOn
      BY <1>2 DEF TellsOn
    <3> QED
      BY <3>1, <3>2, AheadOn
  <2> QED
    BY <1>2, <2>1, <2>2 DEF Follows
<1> QED
  BY <1>2, <1>3, <1>4, AloneCaught

\* handleConnection up to the snapshot: the channel is as it was.
LEMMA EntersCaught ==
  ASSUME Caught, NEW b \in Browsers, Alone(b),
         channel'[b] = channel[b], Phase(b)' \in {"handshake", "joined", "listed"},
         Phase(b)' = "listed" => Fits(b, socket[b])',
         Phase(b)' = "joined" => NodesFit(b, socket[b].nodes)',
         \A s \in Servers \ doubt'[b] : OneReport(s)
  PROVE  Caught'
<1>1. PICK q : q = channel[b] /\ q = channel'[b]
  OBVIOUS
<1>2. PICK after : Ahead(q, after)
  BY <1>1 DEF Caught, Follows
<1>3. TellsOn
  BY DEF Alone, TellsOn
<1>4. Ahead(q, after)'
  BY <1>2, <1>3, AheadOn
<1>5. Follows(b)'
  BY <1>1, <1>4 DEF Follows
<1> QED
  BY <1>5, AloneCaught

LEMMA ConnectJoinCaught ==
  ASSUME IInv, Caught, NEW b \in Browsers, Connect(b) \/ Join(b)
  PROVE  Caught'
<1>1. socket \in [Browsers -> Connection] /\ doubt \in [Browsers -> SUBSET Items]
  BY DEF IInv, TypeOK
<1>2. UNCHANGED <<owner, nodes, row, told, writes, lookups, channel, cache, entry, fetch>>
  BY DEF Connect, Join, system, page
<1>3. CASE Connect(b)
  <2>1. [socket[b] EXCEPT !.phase = "handshake"].phase = "handshake"
    <3>1. Phase(b) # "listed" /\ TypeOK
      BY <1>3 DEF Connect, IInv
    <3> QED
      BY <3>1, ConnectionTypes
  <2>2. /\ Phase(b)' = "handshake" /\ \A d \in Browsers \ {b} : socket'[d] = socket[d]
        /\ doubt' = [doubt EXCEPT ![b] = {s \in Servers : InFlight(s)}]
    BY <1>1, <1>3, <2>1 DEF Connect, Enter, Phase
  <2>3. \A s \in Servers \ doubt'[b] : OneReport(s)
    BY <1>1, <2>2 DEF OneReport, InFlight
  <2>4. Alone(b) /\ channel'[b] = channel[b]
    BY <1>1, <1>2, <2>2 DEF Alone
  <2> QED
    BY <2>2, <2>3, <2>4, EntersCaught
<1>4. CASE Join(b)
  <2>1. /\ Phase(b)' = "joined" /\ socket'[b].nodes = nodes /\ doubt' = doubt
        /\ \A d \in Browsers \ {b} : socket'[d] = socket[d]
    BY <1>1, <1>4 DEF Join, Phase
  <2>2. \A s \in Servers \ doubt[b] : OneReport(s)
    BY <1>4 DEF Join, Caught, Trusted, Attached
  <2>3. Alone(b) /\ channel'[b] = channel[b]
    BY <1>2, <2>1 DEF Alone
  <2>4. NodesFit(b, socket[b].nodes)'
    BY <1>2, <2>1 DEF NodesFit
  <2> QED
    BY <2>1, <2>2, <2>3, <2>4, EntersCaught
<1> QED
  BY <1>3, <1>4

\* ServersService.listForOwner: what is read is expected, unless a report that
\* is pushed already is still to be written.
LEMMA ListExpected ==
  ASSUME NEW s \in Servers, Life(s), OneReport(s), ~Unwritten(s),
         told[s] \in {"none", "created", "removed"}
  PROVE  Expected(s, row[s])
<1>1. told[s] = "removed" => row[s] = Absent
  BY DEF Life
<1> QED
  BY <1>1 DEF Expected, Unwritten

LEMMA ListCaught ==
  ASSUME IInv, Caught, NEW b \in Browsers, List(b)
  PROVE  Caught'
<1>1. /\ socket \in [Browsers -> Connection] /\ doubt \in [Browsers -> SUBSET Items]
      /\ told \in [Servers -> {"none", "created", "removed"}]
  BY DEF IInv, TypeOK
<1>2. /\ UNCHANGED <<owner, nodes, row, told, writes, lookups, channel, cache, entry, fetch>>
      /\ doubt' = [doubt EXCEPT ![b] = @ \cup {w.server : w \in writes}]
      /\ Phase(b) = "joined"
  BY DEF List, system, page
<1>3. /\ Phase(b)' = "listed" /\ socket'[b].nodes = socket[b].nodes
      /\ socket'[b].list = ListFor(UserOf[b])
      /\ \A d \in Browsers \ {b} : socket'[d] = socket[d]
  BY <1>1 DEF List, Phase
<1>4. doubt[b] \subseteq doubt'[b] /\ \A s \in Servers \ doubt'[b] : ~Unwritten(s)
  BY <1>1, <1>2 DEF Unwritten
<1>5. Alone(b) /\ channel'[b] = channel[b]
  BY <1>1, <1>2, <1>3 DEF Alone
<1>6. \A s \in Servers \ doubt'[b] : OneReport(s) /\ Life(s)
  BY <1>2, <1>4 DEF Caught, Trusted, Attached
<1>7. NodesFit(b, socket[b].nodes)'
  <2>1. NodesFit(b, socket[b].nodes)
    BY <1>2 DEF Caught, Follows
  <2> QED
    BY <1>2, <1>3, <1>4, <2>1 DEF NodesFit
<1>8. ASSUME NEW s \in Servers \ doubt'[b], owner[s] = UserOf[b] PROVE Expected(s, socket[b].list[s])'
  <2>1. Expected(s, row[s])
    BY <1>1, <1>4, <1>6, ListExpected
  <2>2. socket'[b].list[s] = row[s]
    BY <1>3, <1>8 DEF ListFor
  <2> QED
    BY <1>2, <2>1, <2>2 DEF Expected, Unwritten, Unpushed
<1>9. Fits(b, socket[b])'
  BY <1>2, <1>7, <1>8 DEF Fits
<1> QED
  BY <1>3, <1>5, <1>6, <1>9, EntersCaught

LEMMA SendSnapshotCaught ==
  ASSUME IInv, Caught, NEW b \in Browsers, SendSnapshot(b)
  PROVE  Caught'
<1>1. /\ socket \in [Browsers -> Connection] /\ channel \in [Browsers -> Seq(Event)] /\ TypeOK
      /\ UNCHANGED <<owner, nodes, row, told, writes, lookups, cache, entry, fetch, doubt>>
      /\ Phase(b) = "listed"
  BY DEF SendSnapshot, system, page, IInv, TypeOK
<1>2. PICK event \in Event : /\ event.type = "snapshot" /\ event.nodes = socket[b].nodes
                             /\ event.list = socket[b].list
                             /\ channel'[b] = Append(channel[b], event)
  <2>1. LET event == [type |-> "snapshot", nodes |-> socket[b].nodes, list |-> socket[b].list]
        IN  /\ event \in Event /\ event.type = "snapshot" /\ event.nodes = socket[b].nodes
            /\ event.list = socket[b].list
    BY <1>1, ConnectionTypes DEF Event
  <2> QED
    BY <1>1, <2>1 DEF SendSnapshot
<1>3. Phase(b)' = "open"
  BY <1>1 DEF SendSnapshot, Phase
<1>4. Alone(b) /\ TellsOn
  BY <1>1 DEF Alone, TellsOn, SendSnapshot
<1>5. PICK q \in Seq(Event), p \in Seq(Event) :
        q = channel[b] /\ p = Append(q, event) /\ p = channel'[b]
  BY <1>1, <1>2, AppendProperties
<1>6. PICK c \in Cache, f \in SUBSET Answer :
        /\ c = cache[b] /\ c = cache'[b] /\ f = fetch[b] /\ f = fetch'[b]
  BY <1>1 DEF TypeOK
<1>8. PICK before : Ahead(q, before)
  BY <1>5 DEF Caught, Follows
<1>9. PICK after : /\ Ahead(p, after)
                   /\ \A e \in Cache : /\ before[1][e] \in Cache
                                       /\ after[1][e] = Updated(before[1][e], event)
  BY <1>2, <1>5, <1>8, AheadOfAppend
<1>10. Ahead(p, after)'
  BY <1>4, <1>9, AheadOn
<1>11. ASSUME NEW e \in Cache PROVE Fits(b, after[1][e])'
  <2>1. PICK x \in Cache : x = after[1][e] /\ x.nodes = socket[b].nodes /\ x.list = socket[b].list
    <3>1. PICK g \in Cache : g = before[1][e] /\ after[1][e] = Updated(g, event)
      BY <1>9
    <3>2. PICK x \in Cache : x = Updated(g, event) /\ Becomes(g, event, x)
      BY UpdatedBecomes
    <3> QED
      BY <1>2, <3>1, <3>2 DEF Becomes
  <2>2. Fits(b, socket[b])
    BY <1>1 DEF Caught, Follows
  <2>3. Fits(b, x)
    BY <2>1, <2>2 DEF Fits
  <2>4. Fits(b, x)'
    BY <1>1, <2>3 DEF Fits, NodesFit, Expected, Unwritten, Unpushed
  <2> QED
    BY <2>1, <2>4
<1>12. Holds(b, c, after[1])'
  <2>1. \A a \in f : With(c, a) \in Cache
    BY WithType
  <2>2. \A a \in f : Fits(b, after[1][With(c, a)])'
    BY <1>11, <2>1
  <2> QED
    BY <1>6, <1>11, <2>2 DEF Holds, With
<1>13. Follows(b)'
  BY <1>3, <1>5, <1>10, <1>12 DEF Follows, Cache, Lists
<1>14. \A s \in Servers \ doubt'[b] : OneReport(s)
  BY <1>1 DEF Caught, Trusted, Attached
<1> QED
  BY <1>4, <1>13, <1>14, AloneCaught

\* Of several caches that fit, an item of one and an item of another fit.
LEMMA FitsMixed ==
  ASSUME NEW b \in Browsers, NEW after \in [Cache -> Cache], Plain(after),
         NEW x \in Cache, Fits(b, after[x]), NEW y \in Cache, Fits(b, after[y]), NEW z \in Cache,
         \A n \in Nodes \ doubt[b] : \/ n \in z.nodes <=> n \in x.nodes
                                     \/ n \in z.nodes <=> n \in y.nodes,
         \A s \in Servers \ doubt[b] : z.list[s] \in {x.list[s], y.list[s]}
  PROVE  Fits(b, after[z])
<1>1. NodesFit(b, after[z].nodes)
  <2> SUFFICES ASSUME NEW n \in Nodes \ doubt[b] PROVE n \in after[z].nodes <=> n \in nodes
    BY DEF NodesFit
  <2>1. (n \in after[x].nodes <=> n \in nodes) /\ (n \in after[y].nodes <=> n \in nodes)
    BY DEF Fits, NodesFit
  <2>2. \/ n \in after[z].nodes <=> n \in after[x].nodes
        \/ n \in after[z].nodes <=> n \in after[y].nodes
    BY PlainDepends
  <2> QED
    BY <2>1, <2>2
<1>2. ASSUME NEW s \in Servers \ doubt[b], owner[s] = UserOf[b] PROVE Expected(s, after[z].list[s])
  <2>1. Expected(s, after[x].list[s]) /\ Expected(s, after[y].list[s])
    BY <1>2 DEF Fits
  <2>2. after[z].list[s] \in {after[x].list[s], after[y].list[s]}
    BY PlainDepends
  <2> QED
    BY <2>1, <2>2
<1> QED
  BY <1>1, <1>2 DEF Fits

\* A step in which the browser learns nothing that its doubts do not cover.
LEMMA FetchCaught ==
  ASSUME IInv, Caught, NEW b \in Browsers,
         UNCHANGED <<owner, nodes, row, told, writes, lookups, socket, channel, doubt>>,
         \A d \in Browsers \ {b} : /\ cache'[d] = cache[d] /\ entry'[d] = entry[d]
                                   /\ fetch'[d] = fetch[d],
         Phase(b) = "open" =>
           \A after \in [Cache -> Cache], e \in Cache :
             Plain(after) /\ Holds(b, e, after) => \E d \in Cache : Holds(b, d, after)'
  PROVE  Caught'
<1>1. PICK q \in Seq(Event) : q = channel[b] /\ q = channel'[b]
  BY DEF IInv, TypeOK
<1>2. TellsOn /\ FitsOn(b) /\ Alone(b) /\ Phase(b)' = Phase(b)
  BY DoubtsGrow DEF Alone, Phase
<1>3. PICK after : Ahead(q, after) /\ (Phase(b) = "open" => \E e \in Cache : Holds(b, e, after[1]))
  BY <1>1 DEF Caught, Follows
<1>4. Ahead(q, after)'
  BY <1>2, <1>3, AheadOn
<1>5. Phase(b) = "open" => \E d \in Cache : Holds(b, d, after[1])'
  BY <1>3, AheadStarts
<1>6. PICK k : k = socket[b]
  OBVIOUS
<1>7. /\ Phase(b) = "listed" => Fits(b, k)'
      /\ Phase(b) = "joined" => NodesFit(b, k.nodes)'
  BY <1>2, <1>6 DEF FitsOn, Caught, Follows
<1>8. Follows(b)'
  BY <1>1, <1>2, <1>4, <1>5, <1>6, <1>7 DEF Follows, Cache, Lists
<1>9. Phase(b)' \notin {"closed", "refused"} => \A s \in Servers \ doubt'[b] : OneReport(s)
  BY <1>2 DEF Caught, Trusted, Attached
<1> QED
  BY <1>2, <1>8, <1>9, AloneCaught

\* useServers and useNodes: the answer to a fetch takes the place of the list.
LEMMA FetchArrivesCaught ==
  ASSUME IInv, Caught, NEW b \in Browsers, NEW a \in fetch[b], FetchArrives(b, a)
  PROVE  Caught'
<1>1. /\ cache \in [Browsers -> Cache] /\ fetch \in [Browsers -> SUBSET Answer] /\ a \in Answer
      /\ entry \in [Browsers -> {"none", "events", "whole"}]
      /\ UNCHANGED <<owner, nodes, row, told, writes, lookups, socket, channel, doubt>>
  BY DEF FetchArrives, system, IInv, TypeOK
<1>2. /\ cache' = [cache EXCEPT ![b] = With(cache[b], a)] /\ fetch' = [fetch EXCEPT ![b] = @ \ {a}]
      /\ entry' = [entry EXCEPT ![b] = IF a.of = "servers" THEN "whole" ELSE @]
  BY DEF FetchArrives
<1>3. ASSUME NEW after \in [Cache -> Cache], NEW e \in Cache, Plain(after), Holds(b, e, after)
      PROVE  \E d \in Cache : Holds(b, d, after)'
  <2>1. PICK d \in Cache : /\ d = With(e, a)
                           /\ d.nodes = IF a.of = "nodes" THEN a.nodes ELSE e.nodes
                           /\ d.list = IF a.of = "servers" THEN a.list ELSE e.list
    BY <1>1, WithType
  <2>2. \A c : Fits(b, c) => Fits(b, c)'
    BY <1>1 DEF Fits, NodesFit, Expected, Unwritten, Unpushed
  <2>3. Fits(b, after[d])
    BY <1>3, <2>1 DEF Holds
  <2>4. ASSUME NEW x \in fetch'[b] PROVE Fits(b, after[With(d, x)])
    <3>1. x \in fetch[b] /\ x \in Answer
      BY <1>1, <1>2
    <3>2. PICK y \in Cache : y = With(e, x)
      BY <3>1, WithType
    <3>3. PICK z \in Cache : z = With(d, x)
      BY <3>1, WithType
    <3>4. /\ z.nodes = d.nodes \/ z.nodes = y.nodes
          /\ z.list = d.list \/ z.list = y.list
      BY <3>1, <3>2, <3>3, WithType
    <3>5. Fits(b, after[y])
      BY <1>3, <3>1, <3>2 DEF Holds
    <3>6. Fits(b, after[z])
      BY <1>3, <2>3, <3>4, <3>5, FitsMixed
    <3> QED
      BY <3>3, <3>6
  <2>5. /\ d.nodes = cache'[b].nodes
        /\ entry'[b] = "whole" => d.list = cache'[b].list
    <3>1. cache'[b] = With(cache[b], a) /\ cache[b] \in Cache
      BY <1>1, <1>2
    <3>2. /\ cache'[b].nodes = IF a.of = "nodes" THEN a.nodes ELSE cache[b].nodes
          /\ cache'[b].list = IF a.of = "servers" THEN a.list ELSE cache[b].list
      BY <1>1, <3>1, WithType
    <3>3. entry'[b] = IF a.of = "servers" THEN "whole" ELSE entry[b]
      BY <1>1, <1>2
    <3> QED
      BY <1>3, <2>1, <3>2, <3>3 DEF Holds
  <2>6. PICK f : f = fetch'[b]
    OBVIOUS
  <2>7. \A x \in f : Fits(b, after[With(d, x)])'
    BY <2>2, <2>4, <2>6
  <2>8. Fits(b, after[d])'
    BY <2>2, <2>3
  <2>9. Holds(b, d, after)'
    BY <2>5, <2>6, <2>7, <2>8 DEF Holds, With
  <2> QED
    BY <2>9 DEF Cache, Lists
<1>4. \A d \in Browsers \ {b} : cache'[d] = cache[d] /\ entry'[d] = entry[d] /\ fetch'[d] = fetch[d]
  BY <1>1, <1>2
<1> QED
  BY <1>1, <1>3, <1>4, FetchCaught

\* An answer that never comes, and a list that is dropped: what the browser
\* would show had it kept the list is the same.
LEMMA LostDiscardCaught ==
  ASSUME IInv, Caught, NEW b \in Browsers, (\E a \in fetch[b] : FetchLost(b, a)) \/ Discard(b)
  PROVE  Caught'
<1>1. /\ cache \in [Browsers -> Cache] /\ fetch \in [Browsers -> SUBSET Answer]
      /\ entry \in [Browsers -> {"none", "events", "whole"}]
      /\ UNCHANGED <<owner, nodes, row, told, writes, lookups, socket, channel, doubt>>
  BY DEF FetchLost, Discard, system, IInv, TypeOK
<1>2. /\ \A d \in Browsers \ {b} : /\ cache'[d] = cache[d] /\ entry'[d] = entry[d]
                                   /\ fetch'[d] = fetch[d]
      /\ fetch'[b] \subseteq fetch[b] /\ cache'[b].nodes = cache[b].nodes
      /\ entry'[b] = "whole" => entry[b] = "whole" /\ cache'[b] = cache[b]
  <2>1. CASE \E a \in fetch[b] : FetchLost(b, a)
    BY <1>1, <2>1 DEF FetchLost
  <2>2. CASE Discard(b)
    <3>1. cache'[b] = [cache[b] EXCEPT !.list = [s \in Servers |-> Absent]] /\ entry'[b] = "none"
      BY <1>1, <2>2 DEF Discard
    <3>2. cache'[b].nodes = cache[b].nodes
      BY <1>1, <3>1 DEF Cache
    <3> QED
      BY <1>1, <2>2, <3>1, <3>2 DEF Discard
  <2> QED
    BY <2>1, <2>2
<1>3. ASSUME NEW after \in [Cache -> Cache], NEW e \in Cache, Plain(after), Holds(b, e, after)
      PROVE  \E d \in Cache : Holds(b, d, after)'
  <2>1. \A c : Fits(b, c) => Fits(b, c)'
    BY <1>1 DEF Fits, NodesFit, Expected, Unwritten, Unpushed
  <2>2. PICK f : f = fetch'[b]
    OBVIOUS
  <2>3. Fits(b, after[e]) /\ \A a \in f : Fits(b, after[With(e, a)])
    BY <1>2, <1>3, <2>2 DEF Holds
  <2>4. Fits(b, after[e])' /\ \A a \in f : Fits(b, after[With(e, a)])'
    BY <2>1, <2>3
  <2>5. /\ e.nodes = cache'[b].nodes
        /\ entry'[b] = "whole" => e.list = cache'[b].list
    BY <1>2, <1>3 DEF Holds
  <2>6. Holds(b, e, after)'
    BY <2>2, <2>4, <2>5 DEF Holds, With
  <2> QED
    BY <2>6 DEF Cache, Lists
<1> QED
  BY <1>1, <1>2, <1>3, FetchCaught

LEMMA BecomesAlike ==
  ASSUME NEW event, NEW c, NEW d, NEW u, Becomes(c, event, u), NEW v, Becomes(d, event, v)
  PROVE  /\ c.nodes = d.nodes => u.nodes = v.nodes
         /\ \A s \in Servers : c.list[s] = d.list[s] => u.list[s] = v.list[s]
<1>1. CASE event.type = "snapshot"
  BY <1>1 DEF Becomes
<1>2. CASE event.type # "snapshot"
  <2>1. c.nodes = d.nodes => u.nodes = v.nodes
    BY <1>2 DEF Becomes
  <2>2. ASSUME NEW s \in Servers, c.list[s] = d.list[s] PROVE u.list[s] = v.list[s]
    <3>1. CASE event.type \in {"server.created", "server.removed", "server.status"} /\ event.server = s
      BY <1>2, <2>2, <3>1 DEF Becomes
    <3>2. CASE ~(/\ event.type \in {"server.created", "server.removed", "server.status"}
                 /\ event.server = s)
      BY <1>2, <2>2, <3>2 DEF Becomes
    <3> QED
      BY <3>1, <3>2
  <2> QED
    BY <2>1, <2>2
<1> QED
  BY <1>1, <1>2

(***************************************************************************)
(* An event and the answer to a fetch, applied in either order, leave the  *)
(* same cache, except for what Undone names.                               *)
(***************************************************************************)
LEMMA EitherOrder ==
  ASSUME TypeOK, NEW b \in Browsers, NEW event \in Event, NEW a \in fetch[b],
         NEW c \in Cache, NEW d \in Cache, d = With(c, a),
         NEW u \in Cache, Becomes(c, event, u), NEW v \in Cache, Becomes(d, event, v),
         NEW r \in Cache, r = With(u, a)
  PROVE  /\ \A n \in Nodes \ Undone(b, event) : n \in v.nodes <=> n \in r.nodes
         /\ \A s \in Servers \ Undone(b, event) : v.list[s] = r.list[s]
<1>1. a \in Answer
  BY DEF TypeOK
<1>2. /\ d.nodes = IF a.of = "nodes" THEN a.nodes ELSE c.nodes
      /\ d.list = IF a.of = "servers" THEN a.list ELSE c.list
      /\ r.nodes = IF a.of = "nodes" THEN a.nodes ELSE u.nodes
      /\ r.list = IF a.of = "servers" THEN a.list ELSE u.list
      /\ a.of \in {"nodes", "servers"}
  BY <1>1, WithType
<1>3. event.type \in {"snapshot", "node.connected", "node.disconnected", "server.created",
                      "server.removed", "server.status"}
  BY DEF Event
<1>4. CASE a.of = "nodes"
  <2>1. \A n \in Nodes \ Undone(b, event) : n \in v.nodes <=> n \in d.nodes
    <3> SUFFICES ASSUME NEW n \in Nodes \ Undone(b, event) PROVE n \in v.nodes <=> n \in d.nodes
      OBVIOUS
    <3>1. event.type # "snapshot"
      BY <1>4 DEF Undone, Fetches, Items
    <3>2. event.type \in {"node.connected", "node.disconnected"} => event.node # n
      BY <1>4 DEF Undone, Fetches
    <3> QED
      BY <3>1, <3>2 DEF Becomes
  <2>2. \A s \in Servers : v.list[s] = u.list[s]
    <3>1. \A s \in Servers : c.list[s] = d.list[s]
      BY <1>2, <1>4
    <3>2. \A s \in Servers : c.list[s] = d.list[s] => u.list[s] = v.list[s]
      BY BecomesAlike
    <3> QED
      BY <3>1, <3>2
  <2> QED
    BY <1>2, <1>4, <2>1, <2>2
<1>5. CASE a.of = "servers"
  <2>1. \A s \in Servers \ Undone(b, event) : v.list[s] = d.list[s]
    <3> SUFFICES ASSUME NEW s \in Servers \ Undone(b, event) PROVE v.list[s] = d.list[s]
      OBVIOUS
    <3>1. event.type # "snapshot"
      BY <1>5 DEF Undone, Fetches, Items
    <3>2. event.type \in {"server.created", "server.removed", "server.status"} => event.server # s
      BY <1>5 DEF Undone, Fetches
    <3> QED
      BY <3>1, <3>2 DEF Becomes
  <2>2. v.nodes = u.nodes
    <3>1. d.nodes = c.nodes
      BY <1>2, <1>5
    <3> QED
      BY <3>1, BecomesAlike
  <2> QED
    BY <1>2, <1>5, <2>1, <2>2
<1> QED
  BY <1>2, <1>4, <1>5

LEMMA ReceiveCaught ==
  ASSUME IInv, Caught, NEW b \in Browsers, ReceiveEvent(b)
  PROVE  Caught'
<1>1. /\ cache \in [Browsers -> Cache] /\ channel \in [Browsers -> Seq(Event)]
      /\ entry \in [Browsers -> {"none", "events", "whole"}]
      /\ doubt \in [Browsers -> SUBSET Items] /\ TypeOK
      /\ UNCHANGED <<owner, nodes, row, told, writes, lookups, socket, fetch>>
      /\ Phase(b)' = Phase(b)
  BY DEF ReceiveEvent, system, IInv, TypeOK, Phase
<1>2. PICK q \in Seq(Event), p \in Seq(Event) :
        q = channel[b] /\ q # <<>> /\ p = Tail(q) /\ p = channel'[b]
  BY <1>1, HeadTailProperties DEF ReceiveEvent
<1>3. PICK before : /\ Ahead(q, before)
                    /\ Phase(b) = "open" => \E e \in Cache : Holds(b, e, before[1])
  BY <1>2 DEF Caught, Follows
<1>4. PICK event \in Event : event = Head(q)
  BY <1>2, <1>3, AheadOfTail
<1>5. PICK after : /\ Ahead(p, after) /\ after[1] \in [Cache -> Cache] /\ Plain(after[1])
                   /\ \A c \in Cache : before[1][c] = after[1][Updated(c, event)]
  <2>1. q # <<>> /\ Ahead(q, before)
    BY <1>2, <1>3
  <2>2. \E after : /\ Ahead(Tail(q), after) /\ after[1] \in [Cache -> Cache] /\ Plain(after[1])
                   /\ \A c \in Cache : before[1][c] = after[1][Updated(c, Head(q))]
    BY <2>1, AheadOfTail
  <2> QED
    BY <1>2, <1>4, <2>2
<1>6. PICK c \in Cache : c = cache[b]
  BY <1>1
<1>7. PICK w \in Cache : w = Updated(c, event) /\ Becomes(c, event, w)
  BY UpdatedBecomes
<1>8. /\ cache'[b] = w /\ doubt'[b] = doubt[b] \cup Undone(b, event)
      /\ entry'[b] = Entry(entry[b], event)
  BY <1>1, <1>2, <1>4, <1>6, <1>7 DEF ReceiveEvent
<1>9. Alone(b) /\ TellsOn /\ FitsOn(b)
  BY <1>1, <1>8, DoubtsGrow DEF Alone, ReceiveEvent
<1>10. ASSUME Phase(b) = "open", NEW e \in Cache, Holds(b, e, before[1])
       PROVE  \E d \in Cache : Holds(b, d, after[1])'
  <2>1. PICK u \in Cache : u = Updated(e, event) /\ Becomes(e, event, u)
    BY UpdatedBecomes
  <2>2. u.nodes = w.nodes /\ (entry'[b] = "whole" => u.list = w.list)
    <3>1. e.nodes = c.nodes
      BY <1>6, <1>10 DEF Holds
    <3>2. u.nodes = w.nodes
      <4>1. Becomes(c, event, w) /\ Becomes(e, event, u)
        BY <1>7, <2>1
      <4>2. CASE event.type = "snapshot"
        BY <4>1, <4>2 DEF Becomes
      <4>3. CASE event.type # "snapshot"
        BY <3>1, <4>1, <4>3 DEF Becomes
      <4> QED
        BY <4>2, <4>3
    <3>3. CASE event.type = "snapshot"
      BY <1>7, <2>1, <3>2, <3>3 DEF Becomes
    <3>4. CASE event.type # "snapshot"
      <4>1. entry'[b] = "whole" => entry[b] = "whole"
        BY <1>1, <1>8, <3>4 DEF Entry
      <4>2. entry[b] = "whole" => e = c
        BY <1>6, <1>10, <3>1 DEF Holds, Cache
      <4> QED
        BY <1>7, <2>1, <3>2, <4>1, <4>2
    <3> QED
      BY <3>3, <3>4
  <2>3. Fits(b, after[1][u])
    BY <1>5, <1>10, <2>1 DEF Holds
  <2>4. ASSUME NEW a \in fetch[b], NEW r \in Cache, r = With(u, a)
        PROVE  Fits(b, after[1][r])'
    <3>1. PICK d \in Cache : d = With(e, a)
      BY <1>1, WithType DEF TypeOK
    <3>2. PICK v \in Cache : v = Updated(d, event) /\ Becomes(d, event, v)
      BY UpdatedBecomes
    <3>3. Fits(b, after[1][v])
      BY <1>5, <1>10, <3>1, <3>2 DEF Holds
    <3>4. /\ \A n \in Nodes \ Undone(b, event) : n \in v.nodes <=> n \in r.nodes
          /\ \A s \in Servers \ Undone(b, event) : v.list[s] = r.list[s]
      BY <1>1, <2>1, <2>4, <3>1, <3>2, EitherOrder
    <3>5. PICK x \in Cache, y \in Cache : x = after[1][v] /\ y = after[1][r]
      BY <1>5
    <3>6. /\ \A n \in Nodes \ doubt'[b] : n \in x.nodes <=> n \in y.nodes
          /\ \A s \in Servers \ doubt'[b] : x.list[s] = y.list[s]
      BY <1>5, <1>8, <3>4, <3>5, PlainDepends
    <3>7. \A s \in Servers : \A z : Expected(s, z)' = Expected(s, z)
      BY <1>1 DEF Expected, Unwritten, Unpushed
    <3>8. Fits(b, y)'
      BY <1>1, <1>8, <3>3, <3>5, <3>6, <3>7 DEF Fits, NodesFit
    <3> QED
      BY <3>5, <3>8
  <2>5. PICK f \in SUBSET Answer : f = fetch[b] /\ f = fetch'[b]
    BY <1>1 DEF TypeOK
  <2>6. ASSUME NEW a \in f PROVE Fits(b, after[1][With(u, a)])'
    <3>1. PICK r \in Cache : r = With(u, a)
      BY WithType
    <3>2. Fits(b, after[1][r])'
      BY <2>4, <2>5, <3>1
    <3> QED
      BY <3>1, <3>2
  <2>7. Fits(b, after[1][u])'
    BY <1>9, <1>10, <2>3 DEF FitsOn
  <2>8. Holds(b, u, after[1])'
    BY <1>8, <2>2, <2>5, <2>6, <2>7 DEF Holds, With
  <2> QED
    BY <2>8 DEF Cache, Lists
<1>11. Ahead(p, after)'
  BY <1>5, <1>9, AheadOn
<1>12. PICK k : k = socket[b]
  OBVIOUS
<1>13. /\ Phase(b) = "listed" => Fits(b, k)'
       /\ Phase(b) = "joined" => NodesFit(b, k.nodes)'
  BY <1>9, <1>12 DEF FitsOn, Caught, Follows
<1>14. Phase(b) = "open" => \E d \in Cache : Holds(b, d, after[1])'
  BY <1>3, <1>10
<1>15. Follows(b)'
  BY <1>1, <1>2, <1>11, <1>12, <1>13, <1>14 DEF Follows, Cache, Lists
<1>16. Phase(b)' \notin {"closed", "refused"} => \A s \in Servers \ doubt'[b] : OneReport(s)
  BY <1>1, <1>8 DEF Caught, Trusted, Attached
<1> QED
  BY <1>9, <1>15, <1>16, AloneCaught

(***************************************************************************)
(* A list that is read now, with the events on the channel to come: where  *)
(* they set the server, it does not matter what was read; where they keep  *)
(* it or change its status, the row is there if the list shows it.         *)
(***************************************************************************)
LEMMA FetchExpected ==
  ASSUME NEW s \in Servers, Life(s), OneReport(s), ~Unwritten(s),
         told[s] \in {"none", "created", "removed"}, row[s] \in Statuses \cup {Absent},
         NEW after, ServerPlain(after, s), NEW c \in Cache, NEW d \in Cache,
         d.list[s] = row[s], Expected(s, after[c].list[s])
  PROVE  Expected(s, after[d].list[s])
<1>1. CASE Keeps(after, s)
  <2>1. after[d].list[s] = row[s]
    BY <1>1 DEF Keeps
  <2> QED
    BY <2>1, ListExpected
<1>2. ASSUME NEW x, Sets(after, s, x) PROVE Expected(s, after[d].list[s])
  <2>1. after[d].list[s] = after[c].list[s]
    BY <1>2 DEF Sets
  <2> QED
    BY <2>1
<1>3. ASSUME NEW x, Changes(after, s, x), told[s] # "none" PROVE Expected(s, after[d].list[s])
  <2>1. after[d].list[s] = IF row[s] = Absent THEN Absent ELSE x
    BY <1>3 DEF Changes
  <2>2. after[c].list[s] = IF c.list[s] = Absent THEN Absent ELSE x
    BY <1>3 DEF Changes
  <2>3. CASE row[s] = Absent
    BY <1>3, <2>1, <2>3 DEF Expected
  <2>4. CASE row[s] # Absent
    <3>1. told[s] = "created"
      BY <1>3, <2>4 DEF Life
    <3>2. after[c].list[s] # Absent
      BY <2>4, <3>1 DEF Expected
    <3>3. after[c].list[s] = x /\ after[d].list[s] = x
      BY <2>1, <2>2, <2>4, <3>2
    <3> QED
      BY <3>3
  <2> QED
    BY <2>3, <2>4
<1> QED
  BY <1>1, <1>2, <1>3 DEF ServerPlain

LEMMA FetchReadsCaught ==
  ASSUME IInv, Caught, NEW b \in Browsers, NEW what \in {"nodes", "servers"}, FetchReads(b, what)
  PROVE  Caught'
<1>1. /\ cache \in [Browsers -> Cache] /\ fetch \in [Browsers -> SUBSET Answer]
      /\ doubt \in [Browsers -> SUBSET Items] /\ nodes \subseteq Nodes /\ row \in Lists
      /\ told \in [Servers -> {"none", "created", "removed"}] /\ TypeOK
      /\ UNCHANGED <<owner, nodes, row, told, writes, lookups, socket, channel, cache, entry>>
      /\ Phase(b)' = Phase(b)
  BY DEF FetchReads, system, IInv, TypeOK, Phase
<1>2. /\ doubt[b] \subseteq doubt'[b]
      /\ what = "servers" => \A s \in Servers \ doubt'[b] : ~Unwritten(s)
  BY <1>1 DEF FetchReads, Unwritten
<1>3. Alone(b) /\ TellsOn /\ FitsOn(b)
  BY <1>1, <1>2, DoubtsGrow DEF Alone, FetchReads
<1>4. PICK q \in Seq(Event), f \in SUBSET Answer : q = channel[b] /\ f = fetch[b]
  BY <1>1 DEF TypeOK
<1>5. PICK after : Ahead(q, after) /\ (Phase(b) = "open" => \E e \in Cache : Holds(b, e, after[1]))
  BY <1>4 DEF Caught, Follows
<1>6. PICK answer \in Answer :
        /\ fetch'[b] = f \cup {answer} /\ answer.of = what
        /\ what = "nodes" => answer.nodes = nodes
        /\ what = "servers" => answer.list = ListFor(UserOf[b])
  <2>1. CASE what = "nodes"
    <3> DEFINE got == [of |-> "nodes", nodes |-> nodes]
    <3>1. fetch'[b] = f \cup {got}
      BY <1>1, <1>4, <2>1 DEF FetchReads
    <3>2. got \in Answer /\ got.of = "nodes" /\ got.nodes = nodes
      BY <1>1 DEF Answer
    <3> HIDE DEF got
    <3> QED
      BY <2>1, <3>1, <3>2
  <2>2. CASE what = "servers"
    <3>1. PICK l \in Lists : l = ListFor(UserOf[b])
      BY <1>1, ListForOwn
    <3> DEFINE got == [of |-> "servers", list |-> l]
    <3>2. fetch'[b] = f \cup {got}
      BY <1>1, <1>4, <2>2, <3>1 DEF FetchReads
    <3>3. got \in Answer /\ got.of = "servers" /\ got.list = l
      BY DEF Answer
    <3> HIDE DEF got
    <3> QED
      BY <2>2, <3>1, <3>2, <3>3
  <2> QED
    BY <2>1, <2>2
<1>7. Ahead(q, after)'
  BY <1>3, <1>5, AheadOn
<1>8. ASSUME Phase(b) = "open", NEW c \in Cache, Holds(b, c, after[1])
      PROVE  \E e \in Cache : Holds(b, e, after[1])'
  <2>1. PICK g : g = after[1] /\ g \in [Cache -> Cache] /\ Plain(g)
    BY <1>4, <1>5, AheadStarts
  <2>2. PICK d \in Cache : /\ d = With(c, answer)
                           /\ d.nodes = IF what = "nodes" THEN nodes ELSE c.nodes
                           /\ d.list = IF what = "nodes" THEN c.list ELSE ListFor(UserOf[b])
    BY <1>6, WithType
  <2>3. Fits(b, g[c]) /\ \A a \in f : Fits(b, g[With(c, a)])
    BY <1>4, <1>8, <2>1 DEF Holds
  <2>4. \A n \in Nodes \ doubt[b] : n \in g[d].nodes <=> n \in nodes
    <3> SUFFICES ASSUME NEW n \in Nodes \ doubt[b] PROVE n \in g[d].nodes <=> n \in nodes
      OBVIOUS
    <3>1. n \in g[c].nodes <=> n \in nodes
      BY <2>3 DEF Fits, NodesFit
    <3>2. n \in d.nodes <=> n \in IF what = "nodes" THEN nodes ELSE c.nodes
      BY <2>2
    <3>3. NodePlain(g, n)
      BY <2>1 DEF Plain
    <3> QED
      BY <3>1, <3>2, <3>3 DEF NodePlain
  <2>5. ASSUME NEW s \in Servers \ doubt'[b], owner[s] = UserOf[b] PROVE Expected(s, g[d].list[s])
    <3>1. Expected(s, g[c].list[s])
      BY <1>2, <2>3, <2>5 DEF Fits
    <3>2. CASE what = "nodes"
      <4>1. d.list[s] = c.list[s]
        BY <2>2, <3>2
      <4>2. g[d].list[s] = g[c].list[s]
        BY <2>1, <4>1, PlainDepends
      <4> QED
        BY <3>1, <4>2
    <3>3. CASE what = "servers"
      <4>1. Life(s) /\ OneReport(s) /\ ~Unwritten(s)
        BY <1>2, <1>8, <3>3 DEF Caught, Trusted, Attached
      <4>2. d.list[s] = row[s]
        BY <2>2, <2>5, <3>3 DEF ListFor
      <4>3. ServerPlain(g, s)
        BY <2>1 DEF Plain
      <4>4. row[s] \in Statuses \cup {Absent} /\ told[s] \in {"none", "created", "removed"}
        BY <1>1 DEF Lists
      <4> QED
        BY <3>1, <4>1, <4>2, <4>3, <4>4, FetchExpected
    <3> QED
      BY <3>2, <3>3
  <2>6. \A s \in Servers : \A z : Expected(s, z)' = Expected(s, z)
    BY <1>1 DEF Expected, Unwritten, Unpushed
  <2>7. PICK y : y = g[d]
    OBVIOUS
  <2>8. Fits(b, y)'
    BY <1>1, <1>2, <2>4, <2>5, <2>6, <2>7 DEF Fits, NodesFit
  <2>9. Fits(b, g[c])' /\ \A a \in f : Fits(b, g[With(c, a)])'
    BY <1>3, <1>8, <2>3 DEF FitsOn
  <2>10. PICK h : h = fetch'[b]
    OBVIOUS
  <2>11. \A a \in h : Fits(b, g[With(c, a)])'
    BY <1>6, <2>2, <2>7, <2>8, <2>9, <2>10
  <2>12. /\ c.nodes = cache'[b].nodes
         /\ entry'[b] = "whole" => c.list = cache'[b].list
    BY <1>1, <1>8 DEF Holds
  <2>13. Holds(b, c, g)'
    BY <2>9, <2>10, <2>11, <2>12 DEF Holds, With
  <2> QED
    BY <2>1, <2>13 DEF Cache, Lists
<1>9. PICK k : k = socket[b]
  OBVIOUS
<1>10. /\ Phase(b) = "listed" => Fits(b, k)'
       /\ Phase(b) = "joined" => NodesFit(b, k.nodes)'
  BY <1>3, <1>9 DEF FitsOn, Caught, Follows
<1>11. Phase(b) = "open" => \E e \in Cache : Holds(b, e, after[1])'
  BY <1>5, <1>8
<1>12. Follows(b)'
  BY <1>1, <1>4, <1>7, <1>9, <1>10, <1>11 DEF Follows, Cache, Lists
<1>13. Phase(b)' \notin {"closed", "refused"} => \A s \in Servers \ doubt'[b] : OneReport(s)
  BY <1>1, <1>2 DEF Caught, Trusted, Attached
<1> QED
  BY <1>3, <1>12, <1>13, AloneCaught

LEMMA InitCaught == Init => Caught
<1> SUFFICES ASSUME Init PROVE Caught
  OBVIOUS
<1>1. Attached = {}
  BY DEF Init, Attached, Phase
<1>2. \A b \in Browsers : Phase(b) = "closed" /\ channel[b] = <<>>
  BY DEF Init, Phase
<1>3. \A b \in Browsers : Follows(b)
  BY <1>2, ClosedFollows
<1>4. \A s \in Servers : Life(s)
  BY DEF Init, Life, InFlight
<1> QED
  BY <1>1, <1>3, <1>4 DEF Caught, Trusted

LEMMA StepCaught == IInv /\ Caught /\ [Next]_vars => Caught'
<1> SUFFICES ASSUME IInv, Caught, [Next]_vars PROVE Caught'
  OBVIOUS
<1>1. TellsOn /\ \A s \in Servers : Life(s)'
  BY LifeOn DEF Caught
<1>2. CASE UNCHANGED vars
  <2>1. UNCHANGED <<owner, nodes, row, told, writes, lookups, socket, channel, cache, entry, fetch, doubt>>
    BY <1>2 DEF vars, system, page
  <2>2. Attached' = Attached /\ \A s \in Servers : OneReport(s)' = OneReport(s)
    BY <2>1 DEF Attached, Phase, OneReport, Unwritten
  <2>3. Trusted'
    BY <2>1, <2>2 DEF Caught, Trusted
  <2>4. ASSUME NEW b \in Browsers PROVE Follows(b)'
    BY <2>1, DoubtsGrow, FollowsOn DEF Caught
  <2> QED
    BY <1>1, <2>3, <2>4 DEF Caught
<1>3. CASE \E n \in Nodes : NodeConnects(n) \/ NodeDisconnects(n)
  BY <1>1, <1>3, NodeCaught
<1>4. ASSUME NEW s \in Servers,
             \/ InsertRow(s) \/ AnnounceCreated(s) \/ DeleteRow(s) \/ AnnounceRemoved(s)
             \/ \E status \in Reported : ReportStatus(s, status)
      PROVE  Caught'
  BY <1>1, <1>4, RowCaught, AnnounceCaught
<1>5. CASE \E w \in writes : WriteStatus(w)
  BY <1>1, <1>5, RowCaught
<1>6. CASE \E w \in lookups : FindOwner(w) \/ PushStatus(w)
  BY <1>1, <1>6, RowCaught, PushStatusCaught
<1>7. ASSUME NEW b \in Browsers,
             \/ Connect(b) \/ Join(b) \/ Refuse(b) \/ List(b) \/ SendSnapshot(b) \/ Drop(b)
             \/ ReceiveEvent(b) \/ Discard(b)
             \/ \E answer \in fetch[b] : FetchArrives(b, answer) \/ FetchLost(b, answer)
             \/ \E what \in {"nodes", "servers"} : FetchReads(b, what)
      PROVE  Caught'
  BY <1>7, ConnectJoinCaught, EndCaught, ListCaught, SendSnapshotCaught, ReceiveCaught,
     FetchArrivesCaught, FetchReadsCaught, LostDiscardCaught
<1> QED
  BY <1>2, <1>3, <1>4, <1>5, <1>6, <1>7 DEF Next

LEMMA CaughtExplains == IInv /\ Caught => DriftIsExplained
<1> SUFFICES ASSUME IInv, Caught, NEW b \in Browsers, Drained(b)
             PROVE  /\ \A n \in Nodes \ doubt[b] : NodeShown(b, n)
                    /\ entry[b] = "whole" => \A s \in Servers \ doubt[b] : ServerShown(b, s)
  BY DEF DriftIsExplained
<1>1. PICK after : Ahead(<<>>, after) /\ \E e \in Cache : Holds(b, e, after[1])
  BY DEF Drained, Caught, Follows
<1>2. cache[b] \in Cache /\ told \in [Servers -> {"none", "created", "removed"}]
  BY DEF IInv, TypeOK
<1>3. PICK e \in Cache : after[1][e] = e /\ Holds(b, e, after[1])
  BY <1>1 DEF Ahead
<1>4. Fits(b, e) /\ e.nodes = cache[b].nodes /\ (entry[b] = "whole" => e.list = cache[b].list)
  BY <1>3 DEF Holds
<1>5. \A n \in Nodes \ doubt[b] : NodeShown(b, n)
  BY <1>4 DEF Fits, NodesFit, NodeShown
<1>6. ASSUME entry[b] = "whole", NEW s \in Servers \ doubt[b] PROVE ServerShown(b, s)
  <2>1. CASE owner[s] # UserOf[b]
    BY <2>1 DEF IInv, Private, Own, ServerShown, ListFor
  <2>2. CASE owner[s] = UserOf[b]
    <3>1. Expected(s, cache[b].list[s])
      BY <1>4, <1>6, <2>2 DEF Fits
    <3>2. Settled(s) /\ ~Unwritten(s) /\ ~Unpushed(s)
      BY DEF Drained, Settled, InFlight, Unwritten, Unpushed
    <3>3. cache[b].list[s] = row[s]
      BY <1>2, <3>1, <3>2 DEF Expected, Settled
    <3> QED
      BY <2>2, <3>3 DEF ServerShown, ListFor
  <2> QED
    BY <2>1, <2>2
<1> QED
  BY <1>5, <1>6

(***************************************************************************)
(* The snapshot of handleConnection, the events that were pushed since the *)
(* connection, and the fetches of useServers and useNodes leave a browser  *)
(* with what listForOwner and the registry hold, in any order in which     *)
(* handlers and queries can run, except about what `doubt` names: what     *)
(* changed behind a snapshot or a fetch, and overlapping status reports.   *)
(***************************************************************************)
THEOREM DriftAlwaysExplained == Spec => []DriftIsExplained
<1>1. Init => IInv /\ Caught
  BY InitIInv, InitCaught
<1>2. IInv /\ Caught /\ [Next]_vars => (IInv /\ Caught)'
  BY StepIInv, StepCaught
<1>3. IInv /\ Caught => DriftIsExplained
  BY CaughtExplains
<1> QED
  BY <1>1, <1>2, <1>3, PTL DEF Spec
=============================================================================
