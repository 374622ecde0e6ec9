----------------------------- MODULE Dashboard -----------------------------
(***************************************************************************)
(* The push channel to the browsers: DashboardGateway sends a snapshot to  *)
(* a browser that connects and an event for every change from then on;     *)
(* useDashboardSocket keeps the browser's query cache up to date with      *)
(* them, and the pages fetch the list of servers over REST now and then.   *)
(*                                                                         *)
(* Changes come from the rest of the system: nodes register and leave,     *)
(* rows are inserted and removed, agents report statuses.  A snapshot is   *)
(* put together around a database query, and a status report is written    *)
(* by one query and routed to its owner by another.                        *)
(***************************************************************************)
EXTENDS Naturals, Sequences

CONSTANTS Users, Browsers, Nodes, Servers,
          UserOf,      \* the user a browser's token belongs to
          Absent,      \* no such row, or not in the list
          Reported,    \* the statuses agents report; only their difference matters
          MaxEvents    \* bound: connections, fetches, status reports, nodes coming and going

ASSUME UserAssumption == UserOf \in [Browsers -> Users]

Statuses == {"creating"} \cup Reported
ASSUME AbsentAssumption == Absent \notin Statuses

Lists == [Servers -> Statuses \cup {Absent}]
Items == Servers \cup Nodes

\* DashboardEvent, without the lines of logs.
Event ==
  [type : {"snapshot"}, nodes : SUBSET Nodes, list : Lists] \cup
  [type : {"node.connected", "node.disconnected"}, node : Nodes] \cup
  [type : {"server.created", "server.removed"}, server : Servers] \cup
  [type : {"server.status"}, server : Servers, status : Reported]

\* A connection, from io() in the browser to the end of handleConnection.
Connection ==
  [phase : {"closed", "handshake", "refused", "joined", "open"}, nodes : SUBSET Nodes] \cup
  [phase : {"listed"}, nodes : SUBSET Nodes, list : Lists]

Cache == [nodes : SUBSET Nodes, list : Lists]

\* An answer that was read and has not arrived.
Answer == [of : {"nodes"}, nodes : SUBSET Nodes] \cup [of : {"servers"}, list : Lists]

VARIABLES
  owner,    \* GameServer.ownerId, whoever creates the server
  nodes,    \* NodeRegistryService.nodes
  row,      \* the status column, Absent without a row
  told,     \* what of a row's life was announced: none, created, removed
  writes,   \* handleStatus: updates under way
  lookups,  \* onServerStatus: owner queries under way
  socket,   \* a browser's connection, with what its snapshot holds so far
  channel,  \* events on their way to the browser, in order
  cache,    \* the browser's query cache: ['nodes'] and ['servers']
  entry,    \* ['servers']: no entry, one made by events alone, or one that held a whole list
  fetch,    \* a page's GET /nodes and GET /servers, from their queries on
  doubt,    \* history: what the browser may be wrong about
  events    \* how many events there were, of the kinds MaxEvents counts

system == <<owner, nodes, row, told, writes, lookups>>
page == <<cache, entry, fetch>>
vars == <<system, socket, channel, page, doubt, events>>

Init ==
  /\ owner \in [Servers -> Users]
  /\ nodes = {}
  /\ row = [s \in Servers |-> Absent]
  /\ told = [s \in Servers |-> "none"]
  /\ writes = {} /\ lookups = {}
  /\ socket = [b \in Browsers |-> [phase |-> "closed", nodes |-> {}]]
  /\ channel = [b \in Browsers |-> <<>>]
  /\ cache = [b \in Browsers |-> [nodes |-> {}, list |-> [s \in Servers |-> Absent]]]
  /\ entry = [b \in Browsers |-> "none"]
  /\ fetch = [b \in Browsers |-> {}]
  /\ doubt = [b \in Browsers |-> Items]
  /\ events = 0

\* ServersService.listForOwner
ListFor(u) == [s \in Servers |-> IF owner[s] = u THEN row[s] ELSE Absent]

Count == events < MaxEvents /\ events' = events + 1

\* Tells reports that overlap apart.
Fresh == CHOOSE k \in 1 .. MaxEvents : \A w \in writes \cup lookups : w.number # k

InFlight(s) == \E w \in writes \cup lookups : w.server = s

-----------------------------------------------------------------------------
(* DashboardGateway: events *)

Phase(b) == socket[b].phase
Attached == {b \in Browsers : Phase(b) \notin {"closed", "refused"}}
RoomAfterSnapshot(u) == {b \in Attached : UserOf[b] = u /\ Phase(b) = "open"}

Room(u) == {b \in Attached : UserOf[b] = u /\ Phase(b) # "handshake"}

\* `late` are the browsers whose snapshot was put together without this change
\* and is still to be sent: it will undo the event.
Push(targets, item, event, late) ==
  /\ channel' = [b \in Browsers |->
       IF b \in targets THEN Append(channel[b], event) ELSE channel[b]]
  /\ doubt' = [b \in Browsers |->
       IF b \in targets \cap late THEN doubt[b] \cup {item} ELSE doubt[b]]

PushNode(n, type) ==
  Push(Attached, n, [type |-> type, node |-> n],
       {b \in Browsers : Phase(b) \in {"joined", "listed"}})

PushServerToAll(s, event) ==
  Push(Attached, s, event, {b \in Browsers : Phase(b) = "listed"})

PushServer(s, event) ==
  Push(Room(owner[s]), s, event, {b \in Browsers : Phase(b) = "listed"})

\* handleRegister and handleDisconnect change the registry and emit at once.
NodeConnects(n) ==
  /\ Count
  /\ nodes' = nodes \cup {n}
  /\ PushNode(n, "node.connected")
  /\ UNCHANGED <<owner, row, told, writes, lookups, socket, page>>

NodeDisconnects(n) ==
  /\ n \in nodes
  /\ Count
  /\ nodes' = nodes \ {n}
  /\ PushNode(n, "node.disconnected")
  /\ UNCHANGED <<owner, row, told, writes, lookups, socket, page>>

\* ServersService.create and remove: the query, then the event.
InsertRow(s) ==
  /\ row[s] = Absent /\ told[s] = "none"
  /\ row' = [row EXCEPT ![s] = "creating"]
  /\ UNCHANGED <<owner, nodes, told, writes, lookups, socket, channel, page, doubt, events>>

AnnounceCreated(s) ==
  /\ row[s] # Absent /\ told[s] = "none"
  /\ told' = [told EXCEPT ![s] = "created"]
  /\ PushServer(s, [type |-> "server.created", server |-> s])
  /\ UNCHANGED <<owner, nodes, row, writes, lookups, socket, page, events>>

DeleteRow(s) ==
  /\ row[s] # Absent /\ told[s] = "created"
  /\ row' = [row EXCEPT ![s] = Absent]
  /\ UNCHANGED <<owner, nodes, told, writes, lookups, socket, channel, page, doubt, events>>

AnnounceRemoved(s) ==
  /\ row[s] = Absent /\ told[s] = "created"
  /\ told' = [told EXCEPT ![s] = "removed"]
  /\ PushServer(s, [type |-> "server.removed", server |-> s])
  /\ UNCHANGED <<owner, nodes, row, writes, lookups, socket, page, events>>

\* One report starts two queries.  Reports that overlap may be written in one
\* order and pushed in the other.
ReportStatus(s, status) ==
  /\ told[s] # "none"
  /\ Count
  /\ LET w == [server |-> s, status |-> status, number |-> Fresh, found |-> FALSE]
     IN  /\ writes' = writes \cup {w}
         /\ lookups' = lookups \cup {w}
  /\ doubt' = IF InFlight(s) THEN [b \in Browsers |-> doubt[b] \cup {s}] ELSE doubt
  /\ UNCHANGED <<owner, nodes, row, told, socket, channel, page>>

WriteStatus(w) ==
  /\ w \in writes
  /\ writes' = writes \ {w}
  /\ row' = IF row[w.server] = Absent THEN row
            ELSE [row EXCEPT ![w.server] = w.status]
  /\ UNCHANGED <<owner, nodes, told, lookups, socket, channel, page, doubt, events>>

\* getOwnerId: nobody is told about a server without a row.
FindOwner(w) ==
  /\ w \in lookups /\ ~w.found
  /\ lookups' = (lookups \ {w}) \cup
       (IF row[w.server] = Absent THEN {} ELSE {[w EXCEPT !.found = TRUE]})
  /\ UNCHANGED <<owner, nodes, row, told, writes, socket, channel, page, doubt, events>>

PushStatus(w) ==
  /\ w \in lookups /\ w.found
  /\ lookups' = lookups \ {w}
  /\ PushServer(w.server, [type   |-> "server.status", server |-> w.server,
                           status |-> w.status])
  /\ UNCHANGED <<owner, nodes, row, told, writes, socket, page, events>>

-----------------------------------------------------------------------------
(* DashboardGateway.handleConnection *)

Enter(b, phase) == socket' = [socket EXCEPT ![b].phase = phase]

Connect(b) ==
  /\ Phase(b) = "closed"
  /\ Count
  /\ Enter(b, "handshake")
  /\ doubt' = [doubt EXCEPT ![b] = {s \in Servers : InFlight(s)}]
  /\ UNCHANGED <<system, channel, page>>

\* verifyToken, join, and the list of nodes, read before the query is awaited.
Join(b) ==
  /\ Phase(b) = "handshake"
  /\ socket' = [socket EXCEPT ![b] = [phase |-> "joined", nodes |-> nodes]]
  /\ UNCHANGED <<system, channel, page, doubt, events>>

Refuse(b) ==
  /\ Phase(b) = "handshake"
  /\ Enter(b, "refused")
  /\ channel' = [channel EXCEPT ![b] = <<>>]
  /\ UNCHANGED <<system, page, doubt, events>>

List(b) ==
  /\ Phase(b) = "joined"
  /\ socket' = [socket EXCEPT ![b] =
       [phase |-> "listed", nodes |-> @.nodes, list |-> ListFor(UserOf[b])]]
  /\ doubt' = [doubt EXCEPT ![b] = @ \cup {w.server : w \in writes}]
  /\ UNCHANGED <<system, channel, page, events>>

SendSnapshot(b) ==
  /\ Phase(b) = "listed"
  /\ channel' = [channel EXCEPT ![b] = Append(@,
       [type |-> "snapshot", nodes |-> socket[b].nodes, list |-> socket[b].list])]
  /\ socket' = [socket EXCEPT ![b] = [phase |-> "open", nodes |-> {}]]
  /\ UNCHANGED <<system, page, doubt, events>>

Drop(b) ==
  /\ b \in Attached
  /\ socket' = [socket EXCEPT ![b] = [phase |-> "closed", nodes |-> {}]]
  /\ channel' = [channel EXCEPT ![b] = <<>>]
  /\ UNCHANGED <<system, page, doubt, events>>

-----------------------------------------------------------------------------
(* The browser: useDashboardSocket, useServers and useNodes *)

StatusFromType(list, event) ==
  [list EXCEPT ![event.server] = IF @ = Absent THEN Absent ELSE event.type]

StatusUpserts(list, event) == [list EXCEPT ![event.server] = event.status]

\* prev.map: a status never adds a server to the list.
Status(list, event) ==
  [list EXCEPT ![event.server] = IF @ = Absent THEN Absent ELSE event.status]

Updated(c, event) ==
  CASE event.type = "snapshot" -> [nodes |-> event.nodes, list |-> event.list]
    [] event.type = "node.connected" -> [c EXCEPT !.nodes = @ \cup {event.node}]
    [] event.type = "node.disconnected" -> [c EXCEPT !.nodes = @ \ {event.node}]
    [] event.type = "server.created" -> [c EXCEPT !.list[event.server] = "creating"]
    [] event.type = "server.status" -> [c EXCEPT !.list = Status(@, event)]
    [] event.type = "server.removed" -> [c EXCEPT !.list[event.server] = Absent]

\* (prev = []): without an entry, an event about a server makes one out of nothing.
Entry(held, event) ==
  CASE event.type = "snapshot" -> "whole"
    [] event.type \in {"server.created", "server.status", "server.removed"} ->
         IF held = "none" THEN "events" ELSE held
    [] OTHER -> held

Fetches(b, what) == \E a \in fetch[b] : a.of = what

\* What a fetched answer that is still to arrive will undo.
Undone(b, event) ==
  LET about == CASE event.type = "snapshot" -> Items
                 [] event.type \in {"node.connected", "node.disconnected"} -> {event.node}
                 [] OTHER -> {event.server}
  IN  {i \in about : \/ i \in Nodes /\ Fetches(b, "nodes")
                     \/ i \in Servers /\ Fetches(b, "servers")}

ReceiveEvent(b) ==
  /\ channel[b] # <<>>
  /\ channel' = [channel EXCEPT ![b] = Tail(@)]
  /\ cache' = [cache EXCEPT ![b] = Updated(@, Head(channel[b]))]
  /\ entry' = [entry EXCEPT ![b] = Entry(@, Head(channel[b]))]
  /\ doubt' = [doubt EXCEPT ![b] = @ \cup Undone(b, Head(channel[b]))]
  /\ UNCHANGED <<system, socket, fetch, events>>

\* The fallback fetch, and the refetch after an action of the user.
FetchReads(b, what) ==
  /\ ~Fetches(b, what)
  /\ Count
  /\ fetch' = [fetch EXCEPT ![b] = @ \cup
       {IF what = "nodes" THEN [of |-> "nodes", nodes |-> nodes]
        ELSE [of |-> "servers", list |-> ListFor(UserOf[b])]}]
  /\ doubt' = [doubt EXCEPT ![b] =
       @ \cup (IF what = "servers" THEN {w.server : w \in writes} ELSE {})]
  /\ UNCHANGED <<system, socket, channel, cache, entry>>

\* The cache with an answer in the place of the nodes or of the servers.
With(c, answer) ==
  IF answer.of = "nodes" THEN [c EXCEPT !.nodes = answer.nodes]
  ELSE [c EXCEPT !.list = answer.list]

FetchArrives(b, answer) ==
  /\ answer \in fetch[b]
  /\ cache' = [cache EXCEPT ![b] = With(@, answer)]
  /\ entry' = [entry EXCEPT ![b] = IF answer.of = "servers" THEN "whole" ELSE @]
  /\ fetch' = [fetch EXCEPT ![b] = @ \ {answer}]
  /\ UNCHANGED <<system, socket, channel, doubt, events>>

\* The request fails, or a later invalidation cancels it.
FetchLost(b, answer) ==
  /\ answer \in fetch[b]
  /\ fetch' = [fetch EXCEPT ![b] = @ \ {answer}]
  /\ UNCHANGED <<system, socket, channel, cache, entry, doubt, events>>

(***************************************************************************)
(* React Query drops ['servers'] when no page has used it for a while: the *)
(* creation form and the not-found page do not, though the connection is   *)
(* open on them.  It keeps a query that is being fetched, and ['nodes'],   *)
(* which the bar of every page behind the login uses.                      *)
(***************************************************************************)
Discard(b) ==
  /\ entry[b] # "none" /\ ~Fetches(b, "servers")
  /\ cache' = [cache EXCEPT ![b].list = [s \in Servers |-> Absent]]
  /\ entry' = [entry EXCEPT ![b] = "none"]
  /\ UNCHANGED <<system, socket, channel, fetch, doubt, events>>

Next ==
  \/ \E n \in Nodes : NodeConnects(n) \/ NodeDisconnects(n)
  \/ \E s \in Servers : \/ InsertRow(s) \/ AnnounceCreated(s)
                        \/ DeleteRow(s) \/ AnnounceRemoved(s)
                        \/ \E status \in Reported : ReportStatus(s, status)
  \/ \E w \in writes : WriteStatus(w)
  \/ \E w \in lookups : FindOwner(w) \/ PushStatus(w)
  \/ \E b \in Browsers :
       \/ Connect(b) \/ Join(b) \/ Refuse(b) \/ List(b) \/ SendSnapshot(b) \/ Drop(b)
       \/ ReceiveEvent(b) \/ Discard(b)
       \/ \E answer \in fetch[b] : FetchArrives(b, answer) \/ FetchLost(b, answer)
       \/ \E what \in {"nodes", "servers"} : FetchReads(b, what)

Spec == Init /\ [][Next]_vars

-----------------------------------------------------------------------------
TypeOK ==
  /\ owner \in [Servers -> Users]
  /\ nodes \subseteq Nodes
  /\ row \in Lists
  /\ told \in [Servers -> {"none", "created", "removed"}]
  /\ \A w \in writes \cup lookups : w.server \in Servers /\ w.status \in Reported
  /\ socket \in [Browsers -> Connection]
  /\ channel \in [Browsers -> Seq(Event)]
  /\ cache \in [Browsers -> Cache]
  /\ entry \in [Browsers -> {"none", "events", "whole"}]
  /\ fetch \in [Browsers -> SUBSET Answer]
  /\ doubt \in [Browsers -> SUBSET Items]

Settled(s) == /\ ~InFlight(s)
              /\ told[s] = IF row[s] # Absent THEN "created"
                           ELSE IF told[s] = "none" THEN "none" ELSE "removed"

\* Nothing is under way from the system to this browser.
Drained(b) == /\ Phase(b) = "open"
              /\ channel[b] = <<>>
              /\ fetch[b] = {}
              /\ \A s \in Servers : Settled(s)

NodeShown(b, n) == (n \in cache[b].nodes) <=> (n \in nodes)
ServerShown(b, s) == cache[b].list[s] = ListFor(UserOf[b])[s]

(***************************************************************************)
(* A browser that has caught up shows the truth, except about what changed *)
(* while a snapshot or a fetch that missed the change was on its way,      *)
(* about servers whose status reports overlapped, and for a list of        *)
(* servers that was dropped and then made again by an event, which is then *)
(* not kept current as useServers.ts:6-7 says.  These are all the ways in  *)
(* which the push channel and the caches drift apart.                      *)
(***************************************************************************)
DriftIsExplained ==
  \A b \in Browsers : Drained(b) =>
    /\ \A n \in Nodes \ doubt[b] : NodeShown(b, n)
    /\ entry[b] = "whole" => \A s \in Servers \ doubt[b] : ServerShown(b, s)

(***************************************************************************)
(* A connection heals: with nothing under way and no fetch to undo it, its *)
(* snapshot and events show the nodes that are connected.                  *)
(***************************************************************************)
ConnectionHeals ==
  \A b \in Browsers : Drained(b) => \A n \in Nodes : NodeShown(b, n)

(***************************************************************************)
(* No browser ever shows a server of another user, although all of them    *)
(* share one gateway: the rooms are right at every moment of a connection. *)
(***************************************************************************)
OnlyOwnServers ==
  \A b \in Browsers, s \in Servers :
    owner[s] # UserOf[b] => cache[b].list[s] = Absent

(***************************************************************************)
(* A server that was removed does not come back into a list through a      *)
(* status that is pushed late: it takes a snapshot or a fetch that was     *)
(* read before the removal.                                                *)
(***************************************************************************)
RemovedStaysRemoved ==
  [][\A b \in Browsers, s \in Servers :
       /\ cache[b].list[s] = Absent
       /\ cache'[b].list[s] # Absent
       /\ told[s] = "removed"
       => \/ Fetches(b, "servers")
          \/ Head(channel[b]).type \in {"snapshot", "server.created"}]_vars
=============================================================================
