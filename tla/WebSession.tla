----------------------------- MODULE WebSession -----------------------------
(***************************************************************************)
(* Who is logged in, in the tabs of one browser: AuthProvider keeps a copy *)
(* of two localStorage keys that all tabs write, client.ts takes the token *)
(* of a request from there and clears them on any 401, and React Query's   *)
(* ['servers'] outlives the session it was fetched for.  A tab runs one    *)
(* script at a time; between the two writes of a script, others run.  The  *)
(* effects of a render run with it, but not those of a new document: until *)
(* they have run, nobody listens to storage events.                        *)
(***************************************************************************)
EXTENDS Naturals, Sequences, FiniteSets

CONSTANTS Tabs, Users,
          Watched,      \* the tabs whose ['servers'] is followed: it concerns no other tab
          MaxLogins,    \* bound: the tokens ever issued
          MaxInFlight,  \* bound: the requests of all tabs in flight at a time
          None

ASSUME NoneAssumption == None \notin Users \cup Nat
ASSUME WatchedAssumption == Watched \subseteq Tabs
ASSUME BoundAssumption == MaxLogins \in Nat

VARIABLES
  issued,   \* the tokens: number k was issued to user issued[k], 0 is no token
  expired,  \* the tokens up to this one are no longer accepted: all live equally long
  storage,  \* localStorage: gamenest.token and gamenest.user
  state,    \* per tab, the state of AuthProvider
  changed,  \* per tab, whether a storage event is on its way to it
  mounting, \* per tab, whether the effects of its new document are still to run
  doing,    \* per tab, the token it stores, 0 while it clears, None between scripts
  page,     \* per tab: "login" (or signup), or, under RequireAuth, "list", a page that
            \* uses ['servers'], or "new", one that does not
  login,    \* per tab, how many login requests of each user are in flight
  sent,     \* per tab, the tokens of its other requests in flight
  fetch,    \* per tab, the token of the request whose answer ['servers'] awaits
  socket,   \* per tab, the token of the dashboard socket, and if a snapshot came
  cache,    \* per tab, the users ['servers'] was filled for, {} if there is no such entry
  missed,   \* history: per tab, an event came before its listener, which is news to it
  raced,    \* history: the last writes to storage were two tabs' at once
  ended,    \* history: after the last login, it expired, a logout, or a stray 401
  late      \* history: per tab, an answer for another user came after the snapshot

browser == <<state, changed, mounting, missed, doing, page, login, sent, fetch, socket, cache,
             late>>
vars == <<issued, expired, storage, browser, raced, ended>>

Tokens == 1 .. Len(issued)
Token == {0} \cup Tokens
Owner(k) == IF k = 0 THEN None ELSE issued[k]
LoggedOut == [token |-> 0, user |-> None]
NoSocket == [token |-> 0, up |-> FALSE]
NoLogins == [u \in Users |-> 0]
Pages == {"login", "list", "new"}

\* getStoredAuth: both keys, or nothing.
ReadState == IF storage.token = 0 \/ storage.user = None THEN LoggedOut ELSE storage

Init ==
  /\ issued = <<>> /\ expired = 0 /\ storage = LoggedOut
  /\ state = [t \in Tabs |-> LoggedOut]
  /\ changed = [t \in Tabs |-> FALSE]
  /\ mounting = [t \in Tabs |-> FALSE] /\ missed = [t \in Tabs |-> FALSE]
  /\ doing = [t \in Tabs |-> None]
  /\ page = [t \in Tabs |-> "login"]
  /\ login = [t \in Tabs |-> NoLogins]
  /\ sent = [t \in Tabs |-> {}]
  /\ fetch = [t \in Tabs |-> None]
  /\ socket = [t \in Tabs |-> NoSocket]
  /\ cache = [t \in Tabs |-> {}]
  /\ raced = FALSE /\ ended = FALSE /\ late = [t \in Tabs |-> FALSE]

Free(t) == doing[t] = None
Ready(t) == Free(t) /\ ~mounting[t]

InFlight ==
  Cardinality({l \in Tabs \X Users \X (1 .. MaxInFlight) : l[3] <= login[l[1]][l[2]]})
  + Cardinality({r \in Tabs \X Token : r[2] \in sent[r[1]]})

\* The storage event goes to every tab but the one that wrote.
Notify(t) == [s \in Tabs |-> changed[s] \/ s # t]

-----------------------------------------------------------------------------
(* Rendering *)

ConnectOnMount(t, p, token) ==
  IF p = "login" THEN NoSocket
  ELSE IF socket[t] = NoSocket THEN [token |-> token, up |-> FALSE] ELSE socket[t]

\* useDashboardSocket, mounted in Layout: a socket per token.
Connect(t, p, token) ==
  IF p = "login" THEN NoSocket
  ELSE IF socket[t].token = token THEN socket[t] ELSE [token |-> token, up |-> FALSE]

RenderUnguarded(t, auth, p) ==
  /\ state' = [state EXCEPT ![t] = auth]
  /\ page' = [page EXCEPT ![t] = p]
  /\ socket' = [socket EXCEPT ![t] = Connect(t, p, auth.token)]
  /\ late' = [late EXCEPT ![t] = @ /\ socket'[t].up]

\* The tab t gets the state auth, and goes to the page p if RequireAuth lets it.
Render(t, auth, p) ==
  LET shown == IF auth.user = None THEN "login" ELSE p
  IN  /\ state' = [state EXCEPT ![t] = auth]
      /\ page' = [page EXCEPT ![t] = shown]
      /\ socket' = [socket EXCEPT ![t] = Connect(t, shown, auth.token)]
      /\ late' = [late EXCEPT ![t] = @ /\ socket'[t].up]

Visit(t, p) ==
  /\ Ready(t) /\ Render(t, state[t], p)
  /\ UNCHANGED <<issued, expired, storage, changed, mounting, missed, doing, login, sent,
                 fetch, cache, raced, ended>>

\* The listener of storage events.
Sync(t) ==
  /\ Ready(t) /\ changed[t]
  /\ changed' = [changed EXCEPT ![t] = FALSE]
  /\ missed' = [missed EXCEPT ![t] = FALSE]
  /\ Render(t, ReadState, page[t])
  /\ UNCHANGED <<issued, expired, storage, mounting, doing, login, sent, fetch, cache, raced,
                 ended>>

\* A new document: its first render reads storage, and its cache is empty.
Reload(t, p) ==
  /\ Free(t)
  /\ state' = [state EXCEPT ![t] = ReadState]
  /\ page' = [page EXCEPT ![t] = IF ReadState.user = None THEN "login" ELSE p]
  /\ mounting' = [mounting EXCEPT ![t] = TRUE]
  /\ socket' = [socket EXCEPT ![t] = NoSocket]
  /\ changed' = [changed EXCEPT ![t] = FALSE]
  /\ missed' = [missed EXCEPT ![t] = FALSE]
  /\ login' = [login EXCEPT ![t] = NoLogins]
  /\ sent' = [sent EXCEPT ![t] = {}] /\ fetch' = [fetch EXCEPT ![t] = None]
  /\ cache' = [cache EXCEPT ![t] = {}] /\ late' = [late EXCEPT ![t] = FALSE]
  /\ UNCHANGED <<issued, expired, storage, doing, raced, ended>>

\* The effects of that render: from now on the tab listens, and its page has a socket.
Effects(t) ==
  /\ Free(t) /\ mounting[t]
  /\ mounting' = [mounting EXCEPT ![t] = FALSE]
  /\ socket' = [socket EXCEPT ![t] = Connect(t, page[t], state[t].token)]
  /\ UNCHANGED <<issued, expired, storage, state, changed, missed, doing, page, login, sent,
                 fetch, cache, raced, ended, late>>

\* A storage event that comes before them has no listener.
Miss(t) ==
  /\ Free(t) /\ mounting[t] /\ changed[t]
  /\ changed' = [changed EXCEPT ![t] = FALSE]
  /\ missed' = [missed EXCEPT ![t] = TRUE]
  /\ UNCHANGED <<issued, expired, storage, state, mounting, doing, page, login, sent, fetch,
                 socket, cache, raced, ended, late>>

-----------------------------------------------------------------------------
(* The two keys *)

\* The first write of setStoredAuth (k > 0) or of clearAuth (k = 0).
Write(t, k) ==
  /\ storage' = [storage EXCEPT !.token = k]
  /\ changed' = Notify(t)
  /\ doing' = [doing EXCEPT ![t] = k]
  /\ raced' = \E s \in Tabs \ {t} : ~Free(s)

FinishSilently(t) ==
  /\ ~Free(t)
  /\ LET auth == [token |-> doing[t], user |-> Owner(doing[t])]
     IN  /\ storage' = [storage EXCEPT !.user = auth.user]
         /\ Render(t, IF doing[t] = 0 THEN state[t] ELSE auth, "list")
  /\ changed' = Notify(t)
  /\ missed' = [missed EXCEPT ![t] = FALSE]
  /\ doing' = [doing EXCEPT ![t] = None]
  /\ UNCHANGED <<issued, expired, mounting, login, sent, fetch, cache, raced, ended>>

\* The second write.  After a login the provider takes the answer for its state
\* and the page moves on; clearAuth fires an event on which it reads storage,
\* where no user is left.
Finish(t) ==
  /\ ~Free(t)
  /\ LET auth == [token |-> doing[t], user |-> Owner(doing[t])]
     IN  /\ storage' = [storage EXCEPT !.user = auth.user]
         /\ Render(t, auth, "list")
  /\ changed' = Notify(t)
  /\ missed' = [missed EXCEPT ![t] = FALSE]
  /\ doing' = [doing EXCEPT ![t] = None]
  /\ UNCHANGED <<issued, expired, mounting, login, sent, fetch, cache, raced, ended>>

Logout(t) ==
  /\ Ready(t) /\ page[t] # "login"
  /\ Write(t, 0) /\ ended' = TRUE
  /\ UNCHANGED <<issued, expired, state, mounting, missed, page, login, sent, fetch, socket,
                 cache, late>>

\* A login, a registration or a Google login is sent, from a page that does not
\* ask whether somebody is logged in, or whether another login is under way: its
\* form waits for its own answer, but not Google's button, nor the form of a page
\* that was left and opened again.
Submit(t, u) ==
  /\ Ready(t) /\ page[t] = "login" /\ InFlight < MaxInFlight
  /\ login' = [login EXCEPT ![t][u] = @ + 1]
  /\ UNCHANGED <<issued, expired, storage, state, changed, mounting, missed, doing, page,
                 sent, fetch, socket, cache, raced, ended, late>>

LoggedIn(t, u) ==
  /\ Ready(t) /\ login[t][u] > 0 /\ Len(issued) < MaxLogins
  /\ issued' = Append(issued, u)
  /\ login' = [login EXCEPT ![t][u] = @ - 1]
  /\ Write(t, Len(issued')) /\ ended' = FALSE
  /\ UNCHANGED <<expired, state, mounting, missed, page, sent, fetch, socket, cache, late>>

\* A wrong password is a 401 like any other, another error changes nothing.
LoginRefused(t, u) ==
  /\ Ready(t) /\ login[t][u] > 0
  /\ login' = [login EXCEPT ![t][u] = @ - 1]
  /\ \/ Write(t, 0) /\ ended' = TRUE
     \/ UNCHANGED <<storage, changed, doing, raced, ended>>
  /\ UNCHANGED <<issued, expired, state, mounting, missed, page, sent, fetch, socket, cache,
                 late>>

-----------------------------------------------------------------------------
(* Requests, with the token that is stored when they are sent *)

\* useServers: on mount, or when ['servers'] is invalidated and a page uses it.  A
\* fetch that is under way is replaced only once the cache holds something.
Fetch(t) ==
  /\ t \in Watched /\ Ready(t) /\ page[t] = "list" /\ (fetch[t] = None \/ cache[t] # {})
  /\ InFlight < MaxInFlight
  /\ fetch' = [fetch EXCEPT ![t] = storage.token]
  /\ sent' = [sent EXCEPT ![t] = @ \cup {storage.token}]
  /\ UNCHANGED <<issued, expired, storage, state, changed, mounting, missed, doing, page,
                 login, socket, cache, raced, ended, late>>

\* Any other request of a page; what it does to servers other modules model.
Request(t) ==
  /\ Ready(t) /\ page[t] # "login" /\ InFlight < MaxInFlight
  /\ sent' = [sent EXCEPT ![t] = @ \cup {storage.token}]
  /\ UNCHANGED <<issued, expired, storage, state, changed, mounting, missed, doing, page,
                 login, fetch, socket, cache, raced, ended, late>>

\* The answer, if the API accepts the token: for useServers, for a query that was
\* replaced, or for another request.
Answer(t, k) ==
  /\ Ready(t) /\ k \in sent[t] /\ k > expired
  /\ sent' = [sent EXCEPT ![t] = @ \ {k}]
  /\ IF fetch[t] = k
     THEN /\ fetch' = [fetch EXCEPT ![t] = None]
          /\ cache' = [cache EXCEPT ![t] = {Owner(k)}]
          /\ late' = [late EXCEPT ![t] = socket[t].up /\ Owner(k) # Owner(socket[t].token)]
     ELSE UNCHANGED <<fetch, cache, late>>
  /\ UNCHANGED <<issued, expired, storage, state, changed, mounting, missed, doing, page,
                 login, socket, raced, ended>>

ClearOnAnyError(t, k) ==
  /\ Ready(t) /\ k \in sent[t]
  /\ sent' = [sent EXCEPT ![t] = @ \ {k}]
  /\ fetch' = [fetch EXCEPT ![t] = IF @ = k THEN None ELSE @]
  /\ Write(t, 0)
  /\ ended' = (ended \/ (k # storage.token /\ k <= expired))
  /\ UNCHANGED <<issued, expired, state, mounting, missed, page, login, socket, cache, late>>

\* A 401 clears whatever is stored by now.
Unauthorized(t, k) ==
  /\ Ready(t) /\ k \in sent[t] /\ k <= expired
  /\ sent' = [sent EXCEPT ![t] = @ \ {k}]
  /\ fetch' = [fetch EXCEPT ![t] = IF @ = k THEN None ELSE @]
  /\ Write(t, 0)
  /\ ended' = (ended \/ k # storage.token)
  /\ UNCHANGED <<issued, expired, state, mounting, missed, page, login, socket, cache, late>>

\* Any other error, or no answer at all.
Fail(t, k) ==
  /\ Ready(t) /\ k \in sent[t]
  /\ sent' = [sent EXCEPT ![t] = @ \ {k}]
  /\ fetch' = [fetch EXCEPT ![t] = IF @ = k THEN None ELSE @]
  /\ UNCHANGED <<issued, expired, storage, state, changed, mounting, missed, doing, page,
                 login, socket, cache, raced, ended, late>>

\* The socket connects, or connects again: the gateway checks the token then.
Snapshot(t) ==
  /\ t \in Watched /\ Ready(t) /\ socket[t].token > expired
  /\ socket' = [socket EXCEPT ![t].up = TRUE]
  /\ cache' = [cache EXCEPT ![t] = {Owner(socket[t].token)}]
  /\ late' = [late EXCEPT ![t] = FALSE]
  /\ UNCHANGED <<issued, expired, storage, state, changed, mounting, missed, doing, page,
                 login, sent, fetch, raced, ended>>

\* An event about a server of the socket's user: server.created adds it to whatever
\* is there, and each of them takes a list that is not there for an empty one.
Pushed(t) ==
  /\ Ready(t) /\ socket[t].up
  /\ cache' = [cache EXCEPT ![t] = @ \cup {Owner(socket[t].token)}]
  /\ UNCHANGED <<issued, expired, storage, state, changed, mounting, missed, doing, page,
                 login, sent, fetch, socket, raced, ended, late>>

\* React Query drops data that is not being fetched and that no mounted page has
\* used for a while, with or without a socket.
Discard(t) ==
  /\ Ready(t) /\ page[t] # "list" /\ fetch[t] = None
  /\ cache' = [cache EXCEPT ![t] = {}] /\ late' = [late EXCEPT ![t] = FALSE]
  /\ UNCHANGED <<issued, expired, storage, state, changed, mounting, missed, doing, page,
                 login, sent, fetch, socket, raced, ended>>

Expire ==
  /\ expired < Len(issued) /\ expired' = expired + 1
  /\ ended' = (ended \/ expired' = Len(issued))
  /\ UNCHANGED <<issued, storage, browser, raced>>

Next ==
  \/ \E t \in Tabs : \/ Effects(t) \/ Miss(t) \/ Sync(t) \/ Finish(t) \/ Logout(t)
                     \/ Fetch(t) \/ Request(t) \/ Snapshot(t) \/ Pushed(t) \/ Discard(t)
                     \/ \E u \in Users : Submit(t, u) \/ LoggedIn(t, u) \/ LoginRefused(t, u)
                     \/ \E p \in Pages : Visit(t, p) \/ Reload(t, p)
                     \/ \E k \in sent[t] : Answer(t, k) \/ Unauthorized(t, k) \/ Fail(t, k)
  \/ Expire

Spec == Init /\ [][Next]_vars

-----------------------------------------------------------------------------
Auth == [token : Token, user : Users \cup {None}]

TypeOK ==
  /\ issued \in Seq(Users) /\ Len(issued) <= MaxLogins /\ expired \in Token
  /\ storage \in Auth /\ state \in [Tabs -> Auth]
  /\ changed \in [Tabs -> BOOLEAN] /\ doing \in [Tabs -> Token \cup {None}]
  /\ mounting \in [Tabs -> BOOLEAN] /\ missed \in [Tabs -> BOOLEAN]
  /\ page \in [Tabs -> Pages] /\ login \in [Tabs -> [Users -> Nat]]
  /\ sent \in [Tabs -> SUBSET Token] /\ fetch \in [Tabs -> Token \cup {None}]
  /\ socket \in [Tabs -> [token : Token, up : BOOLEAN]] /\ cache \in [Tabs -> SUBSET Users]
  /\ raced \in BOOLEAN /\ ended \in BOOLEAN /\ late \in [Tabs -> BOOLEAN]
  /\ \A t \in Tabs : page[t] # "login" => state[t].token # 0

(***************************************************************************)
(* Once the storage events are delivered, every tab shows the session that *)
(* is stored, unless one came before the listener that is there for it     *)
(* (AuthProvider.tsx:24); and the user it shows is the one the API takes   *)
(* its requests for, unless two tabs wrote the two keys at the same time.  *)
(***************************************************************************)
TabsAgree ==
  (\A t \in Tabs : Free(t) /\ ~changed[t]) =>
    \A t \in Tabs : ~missed[t] =>
      /\ state[t] = ReadState
      /\ ~raced => state[t].user = Owner(storage.token)

(***************************************************************************)
(* A session that has not expired stays in storage until somebody logs out *)
(* or a 401 arrives that was not about it: for a wrong password, or for a  *)
(* request with an older token or with none.                               *)
(***************************************************************************)
LiveSessionIsKept ==
  ~ended => storage.token = Len(issued)

(***************************************************************************)
(* From the first snapshot of a tab's session on, ['servers'] holds the    *)
(* servers of its user only, dropped and filled again or not, unless an    *)
(* older session's answer comes after.                                     *)
(***************************************************************************)
CacheIsExplained ==
  \A t \in Tabs : socket[t].up =>
    /\ socket[t].token = state[t].token
    /\ ~late[t] => cache[t] \subseteq {Owner(socket[t].token)}

(***************************************************************************)
(* "Each user only sees and manages their own servers" (README.md:47):     *)
(* a page that shows ['servers'] shows those of the user who is logged in. *)
(***************************************************************************)
OwnServersOnly ==
  \A t \in Tabs : page[t] = "list" => cache[t] \subseteq {state[t].user}

=============================================================================
