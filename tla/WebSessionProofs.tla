-------------------------- MODULE WebSessionProofs --------------------------
(***************************************************************************)
(* Proofs about WebSession, for any tabs and users, and for any number of  *)
(* logins and requests in flight.                                          *)
(***************************************************************************)
EXTENDS WebSession, SequenceTheorems, TLAPS

(***************************************************************************)
(* What is stored about a user comes with a token, in every tab.           *)
(***************************************************************************)
Coherent == {a \in Auth : a.token = 0 <=> a.user = None}

Guarded == \A t \in Tabs : state[t] \in Coherent /\ (page[t] # "login" => state[t].user # None)

(***************************************************************************)
(* The two keys.  A tab that has written its first key and has not been    *)
(* told of anything since is the last writer of that key.  Without a race  *)
(* nobody else is writing, and the keys fit when nobody is.                *)
(***************************************************************************)
Quiet == \A t \in Tabs : Free(t)

LastWriter == \A t \in Tabs : ~Free(t) /\ ~changed[t] => storage.token = doing[t]

OneWriter ==
  ~raced => /\ \A t \in Tabs : ~Free(t) =>
                 storage.token = doing[t] /\ \A s \in Tabs \ {t} : Free(s)
            /\ Quiet => storage.user = Owner(storage.token)

\* A tab that no event is on its way to, or came too early for, has seen what is stored.
UpToDate == \A t \in Tabs : Quiet /\ ~changed[t] /\ ~missed[t] => state[t] = ReadState

(***************************************************************************)
(* A session that was not ended is the last one, and is accepted.          *)
(***************************************************************************)
Accepted == ~ended => /\ storage.token = Len(issued)
                      /\ Len(issued) > 0 => expired < Len(issued)

(***************************************************************************)
(* A dashboard socket is mounted on the pages under RequireAuth only, and  *)
(* belongs to the session that the tab shows.                              *)
(***************************************************************************)
Mounted ==
  \A t \in Tabs : /\ page[t] = "login" => socket[t] = NoSocket
                  /\ page[t] # "login" => \/ socket[t].token = state[t].token
                                          \/ mounting[t] /\ socket[t] = NoSocket

Cached ==
  \A t \in Tabs : socket[t].up /\ ~late[t] => cache[t] \subseteq {Owner(socket[t].token)}

IInv == /\ TypeOK /\ Guarded /\ LastWriter /\ OneWriter /\ UpToDate /\ Accepted
        /\ Mounted /\ Cached

-----------------------------------------------------------------------------
(* Tokens *)

\* What an unchanged list of tokens means stays what it was.
LEMMA SameTokens ==
  ASSUME issued' = issued
  PROVE  /\ Token' = Token /\ Auth' = Auth /\ Coherent' = Coherent
         /\ \A k : Owner(k)' = Owner(k)
<1>1. Token' = Token
  BY DEF Token, Tokens
<1>2. Auth' = Auth
  BY <1>1 DEF Auth
<1>3. Coherent' = Coherent
  BY <1>2 DEF Coherent
<1>4. \A k : Owner(k)' = Owner(k)
  BY DEF Owner
<1> QED
  BY <1>1, <1>2, <1>3, <1>4

\* A token more leaves the owners of the others alone.
LEMMA NewToken ==
  ASSUME issued \in Seq(Users), NEW u \in Users, issued' = Append(issued, u)
  PROVE  /\ issued' \in Seq(Users) /\ Len(issued) \in Nat /\ Len(issued') = Len(issued) + 1
         /\ Token \subseteq Token' /\ Auth \subseteq Auth' /\ Coherent \subseteq Coherent'
         /\ Len(issued') \in Token'
         /\ \A k \in Token : Owner(k)' = Owner(k)
<1>1. PICK k \in Nat : k = Len(issued)
  OBVIOUS
<1>2. /\ issued' \in Seq(Users) /\ Len(issued') = k + 1
      /\ \A i \in 1 .. k : issued'[i] = issued[i]
  BY <1>1
<1>3. Token = {0} \cup 1 .. k /\ Token' = {0} \cup 1 .. k + 1
  BY <1>1, <1>2 DEF Token, Tokens
<1>4. Token \subseteq Token' /\ k + 1 \in Token'
  BY <1>3
<1>5. Auth \subseteq Auth' /\ Coherent \subseteq Coherent'
  BY <1>4 DEF Auth, Coherent
<1>6. \A i \in Token : Owner(i)' = Owner(i)
  BY <1>2, <1>3 DEF Owner
<1> QED
  BY <1>1, <1>2, <1>4, <1>5, <1>6

\* A token stands for one user, and no token for none.
LEMMA Owners ==
  ASSUME issued \in Seq(Users)
  PROVE  /\ Token \subseteq Nat /\ None \notin Token /\ 0 \in Token
         /\ \A k \in Token : /\ k # 0 => Owner(k) \in Users
                             /\ [token |-> k, user |-> Owner(k)] \in Coherent
         /\ LoggedOut \in Coherent
<1>1. Token \subseteq Nat /\ None \notin Token /\ 0 \in Token
  BY NoneAssumption DEF Token, Tokens
<1>2. \A k \in Token : k # 0 => Owner(k) \in Users
  BY DEF Token, Tokens, Owner
<1>3. Owner(0) = None
  BY DEF Owner
<1>4. ASSUME NEW k \in Token PROVE [token |-> k, user |-> Owner(k)] \in Coherent
  <2>1. CASE k = 0
    BY <1>1, <1>3, <2>1 DEF Coherent, Auth
  <2>2. CASE k # 0
    BY <1>2, <2>2, NoneAssumption DEF Coherent, Auth
  <2> QED
    BY <2>1, <2>2
<1>5. LoggedOut \in Coherent
  BY <1>1 DEF LoggedOut, Coherent, Auth
<1> QED
  BY <1>1, <1>2, <1>4, <1>5

\* Reading the two keys gives a session or none.
LEMMA ReadIsCoherent ==
  ASSUME TypeOK
  PROVE  ReadState \in Coherent
<1>1. LoggedOut \in Coherent
  BY Owners DEF TypeOK
<1>2. storage.token # 0 /\ storage.user # None => storage \in Coherent
  BY DEF TypeOK, Coherent
<1> QED
  BY <1>1, <1>2 DEF ReadState

-----------------------------------------------------------------------------
(* Rendering and writing *)

\* Whatever a tab renders, its pages and its socket fit what it shows.
LEMMA RenderSafe ==
  ASSUME IInv, NEW t \in Tabs, NEW auth \in Coherent, NEW p \in Pages,
         Render(t, auth, p), UNCHANGED <<issued, mounting, cache>>
  PROVE  /\ state' = [state EXCEPT ![t] = auth]
         /\ state' \in [Tabs -> Auth] /\ page' \in [Tabs -> Pages]
         /\ socket' \in [Tabs -> [token : Token, up : BOOLEAN]] /\ late' \in [Tabs -> BOOLEAN]
         /\ \A s \in Tabs : page'[s] # "login" => state'[s].token # 0
         /\ Guarded' /\ Mounted' /\ Cached'
<1> DEFINE shown == IF auth.user = None THEN "login" ELSE p
           now == Connect(t, shown, auth.token)
<1>1. /\ state \in [Tabs -> Auth] /\ page \in [Tabs -> Pages]
      /\ socket \in [Tabs -> [token : Token, up : BOOLEAN]] /\ late \in [Tabs -> BOOLEAN]
      /\ issued \in Seq(Users)
  BY DEF IInv, TypeOK
<1>2. auth \in Auth /\ auth.token \in Token /\ (auth.user # None => auth.token # 0)
  BY DEF Coherent, Auth
<1>3. /\ NoSocket \in [token : Token, up : BOOLEAN]
      /\ [token |-> auth.token, up |-> FALSE] \in [token : Token, up : BOOLEAN]
      /\ NoSocket.up = FALSE
  BY <1>1, <1>2, Owners DEF NoSocket
<1>4. /\ now \in [token : Token, up : BOOLEAN]
      /\ shown = "login" => now = NoSocket
      /\ shown # "login" => now.token = auth.token
      /\ now.up => now = socket[t]
  BY <1>1, <1>3 DEF Connect
<1>5. shown \in Pages /\ (shown # "login" => auth.user # None)
  BY DEF Pages
<1>6. /\ state' = [state EXCEPT ![t] = auth] /\ page' = [page EXCEPT ![t] = shown]
      /\ socket' = [socket EXCEPT ![t] = now] /\ late' = [late EXCEPT ![t] = @ /\ socket'[t].up]
  BY DEF Render
<1> HIDE DEF shown, now
<1>7. /\ state'[t] = auth /\ page'[t] = shown /\ socket'[t] = now
      /\ \A s \in Tabs \ {t} : /\ state'[s] = state[s] /\ page'[s] = page[s]
                               /\ socket'[s] = socket[s] /\ late'[s] = late[s]
  BY <1>1, <1>6
<1>8. now.up \in BOOLEAN /\ (now.up => late'[t] = late[t])
  BY <1>1, <1>4, <1>6, <1>7
<1>9. /\ state' \in [Tabs -> Auth] /\ page' \in [Tabs -> Pages]
      /\ socket' \in [Tabs -> [token : Token, up : BOOLEAN]]
  BY <1>1, <1>2, <1>4, <1>5, <1>6
<1>10. late' \in [Tabs -> BOOLEAN]
  BY <1>1, <1>6
<1>11. Guarded'
  BY <1>5, <1>7, SameTokens DEF IInv, Guarded
<1>12. \A s \in Tabs : page'[s] # "login" => state'[s].token # 0
  BY <1>2, <1>5, <1>7 DEF IInv, TypeOK
<1>13. Mounted'
  BY <1>4, <1>5, <1>7 DEF IInv, Mounted
<1>14. Cached'
  <2>1. \A s \in Tabs : socket'[s].up /\ ~late'[s] =>
          socket[s].up /\ ~late[s] /\ socket'[s] = socket[s]
    BY <1>4, <1>7, <1>8
  <2> QED
    BY <2>1, SameTokens DEF IInv, Cached
<1> QED
  BY <1>6, <1>9, <1>10, <1>11, <1>12, <1>13, <1>14

\* The first key is written: this tab is its last writer, and the others hear of it.
LEMMA WriteSafe ==
  ASSUME IInv, NEW t \in Tabs, Free(t), NEW k \in Token', Write(t, k), UNCHANGED <<state, missed>>,
         issued' \in Seq(Users), Token \subseteq Token'
  PROVE  /\ storage' \in Auth' /\ storage'.token = k
         /\ changed' \in [Tabs -> BOOLEAN] /\ doing' \in [Tabs -> Token' \cup {None}]
         /\ raced' \in BOOLEAN
         /\ LastWriter' /\ OneWriter' /\ UpToDate'
<1>1. /\ storage \in [token : Token, user : Users \cup {None}]
      /\ changed \in [Tabs -> BOOLEAN] /\ doing \in [Tabs -> Token \cup {None}]
  BY DEF IInv, TypeOK, Auth
<1>2. k \in Nat /\ k # None
  <2>1. Token' \subseteq Nat
    BY DEF Token, Tokens
  <2> QED
    BY <2>1, NoneAssumption
<1>3. storage' = [storage EXCEPT !.token = k] /\ doing' = [doing EXCEPT ![t] = k]
  BY DEF Write
<1>4. /\ doing'[t] = k /\ \A s \in Tabs \ {t} : doing'[s] = doing[s]
      /\ storage'.token = k
      /\ \A s \in Tabs : changed'[s] = (changed[s] \/ s # t)
  BY <1>1, <1>3 DEF Write, Notify
<1>5. storage' \in Auth'
  <2>1. [storage EXCEPT !.token = k] \in [token : Token', user : Users \cup {None}]
    BY <1>1
  <2> QED
    BY <1>3, <2>1 DEF Auth
<1>6. changed' \in [Tabs -> BOOLEAN] /\ doing' \in [Tabs -> Token' \cup {None}]
  <2>1. doing \in [Tabs -> Token' \cup {None}]
    BY <1>1
  <2> QED
    BY <1>1, <1>3, <2>1 DEF Write, Notify
<1>7. raced' = \E s \in Tabs \ {t} : ~Free(s)
  BY DEF Write
<1>8. ~Free(t)' /\ ~Quiet'
  BY <1>2, <1>4 DEF Free, Quiet
<1>9. LastWriter' /\ UpToDate'
  BY <1>4, <1>8 DEF LastWriter, UpToDate
<1>10. OneWriter'
  BY <1>4, <1>7, <1>8 DEF OneWriter, Free
<1> QED
  BY <1>4, <1>5, <1>6, <1>7, <1>9, <1>10

\* A tab that does not write, and shows what it showed or what is stored.
LEMMA OthersWrite ==
  ASSUME IInv, UNCHANGED <<issued, storage, doing, raced>>,
         \A t \in Tabs :
           \/ /\ state'[t] = state[t] /\ changed'[t] = changed[t]
              /\ missed'[t] = missed[t]
           \/ state'[t] = ReadState /\ Free(t)
           \/ missed'[t] /\ Free(t)
  PROVE  LastWriter' /\ OneWriter' /\ UpToDate'
<1>1. /\ ReadState' = ReadState /\ Quiet' = Quiet /\ \A t \in Tabs : Free(t)' = Free(t)
  BY DEF ReadState, Quiet, Free
<1>2. LastWriter'
  BY <1>1 DEF IInv, LastWriter
<1>3. OneWriter'
  BY <1>1, SameTokens DEF IInv, OneWriter
<1>4. UpToDate'
  BY <1>1 DEF IInv, UpToDate
<1> QED
  BY <1>2, <1>3, <1>4

\* The other parts of the invariant, when tokens, keys and pages are left alone.
LEMMA QuietStep ==
  ASSUME IInv, UNCHANGED <<issued, expired, storage, doing, raced, ended, state, changed, mounting,
                   missed, page>>
  PROVE  Guarded' /\ LastWriter' /\ OneWriter' /\ UpToDate' /\ Accepted'
<1>1. Guarded'
  BY SameTokens DEF IInv, Guarded
<1>2. Accepted'
  BY DEF IInv, Accepted
<1> QED
  BY <1>1, <1>2, OthersWrite

-----------------------------------------------------------------------------
(* The steps *)

LEMMA VisitSyncSafe ==
  ASSUME IInv, NEW t \in Tabs
  PROVE  /\ \A p \in Pages : Visit(t, p) => IInv'
         /\ Sync(t) => IInv'
<1> USE DEF IInv
<1>1. ASSUME NEW auth \in Coherent, NEW p \in Pages, Free(t), Render(t, auth, p),
             auth = ReadState \/ (auth = state[t] /\ UNCHANGED <<changed, missed>>),
             \A s \in Tabs : s # t => changed'[s] = changed[s] /\ missed'[s] = missed[s],
             changed' \in [Tabs -> BOOLEAN], missed' \in [Tabs -> BOOLEAN],
             UNCHANGED <<issued, expired, storage, mounting, doing, login, sent, fetch, cache,
                         raced, ended>>
      PROVE  IInv'
  <2>1. /\ state' = [state EXCEPT ![t] = auth]
        /\ state' \in [Tabs -> Auth] /\ page' \in [Tabs -> Pages]
        /\ socket' \in [Tabs -> [token : Token, up : BOOLEAN]] /\ late' \in [Tabs -> BOOLEAN]
        /\ \A s \in Tabs : page'[s] # "login" => state'[s].token # 0
        /\ Guarded' /\ Mounted' /\ Cached'
    BY <1>1, RenderSafe
  <2>2. LastWriter' /\ OneWriter' /\ UpToDate'
    <3>1. \A s \in Tabs :
            \/ /\ state'[s] = state[s] /\ changed'[s] = changed[s]
               /\ missed'[s] = missed[s]
            \/ state'[s] = ReadState /\ Free(s)
      BY <1>1, <2>1 DEF TypeOK
    <3> QED
      BY <1>1, <3>1, OthersWrite
  <2>3. Accepted'
    BY <1>1 DEF Accepted
  <2>4. TypeOK'
    BY <1>1, <2>1, SameTokens DEF TypeOK
  <2> QED
    BY <2>1, <2>2, <2>3, <2>4
<1>2. ASSUME NEW p \in Pages, Visit(t, p) PROVE IInv'
  <2>1. /\ state[t] \in Coherent /\ changed \in [Tabs -> BOOLEAN]
        /\ missed \in [Tabs -> BOOLEAN]
    BY DEF Guarded, TypeOK
  <2>2. Free(t) /\ Render(t, state[t], p)
        /\ UNCHANGED <<issued, expired, storage, changed, mounting, missed, doing, login, sent,
                       fetch, cache, raced, ended>>
    BY <1>2 DEF Visit, Ready
  <2> QED
    BY <1>1, <2>1, <2>2
<1>3. ASSUME Sync(t) PROVE IInv'
  <2>1. ReadState \in Coherent /\ page[t] \in Pages /\ changed \in [Tabs -> BOOLEAN]
        /\ missed \in [Tabs -> BOOLEAN]
    BY ReadIsCoherent DEF TypeOK
  <2>2. /\ Free(t) /\ Render(t, ReadState, page[t]) /\ changed' = [changed EXCEPT ![t] = FALSE]
        /\ missed' = [missed EXCEPT ![t] = FALSE]
        /\ UNCHANGED <<issued, expired, storage, mounting, doing, login, sent, fetch, cache,
                       raced, ended>>
    BY <1>3 DEF Sync, Ready
  <2>3. /\ changed' \in [Tabs -> BOOLEAN] /\ missed' \in [Tabs -> BOOLEAN]
        /\ \A s \in Tabs : s # t => changed'[s] = changed[s] /\ missed'[s] = missed[s]
    BY <2>1, <2>2
  <2> QED
    BY <1>1, <2>1, <2>2, <2>3
<1> QED
  BY <1>2, <1>3

LEMMA ReloadSafe ==
  ASSUME IInv, NEW t \in Tabs, NEW p \in Pages, Reload(t, p)
  PROVE  IInv'
<1> USE DEF IInv
<1> DEFINE shown == IF ReadState.user = None THEN "login" ELSE p
<1>1. PICK auth \in Coherent : auth = ReadState
  BY ReadIsCoherent
<1>2. auth \in Auth /\ auth.token \in Token /\ (auth.user # None => auth.token # 0)
  BY DEF Coherent, Auth
<1>3. NoSocket \in [token : Token, up : BOOLEAN] /\ NoSocket.up = FALSE
  BY Owners DEF NoSocket, TypeOK
<1>4. /\ state' = [state EXCEPT ![t] = auth] /\ page' = [page EXCEPT ![t] = shown]
      /\ mounting' = [mounting EXCEPT ![t] = TRUE] /\ socket' = [socket EXCEPT ![t] = NoSocket]
      /\ changed' = [changed EXCEPT ![t] = FALSE] /\ missed' = [missed EXCEPT ![t] = FALSE]
      /\ login' = [login EXCEPT ![t] = NoLogins]
      /\ sent' = [sent EXCEPT ![t] = {}] /\ fetch' = [fetch EXCEPT ![t] = None]
      /\ cache' = [cache EXCEPT ![t] = {}] /\ late' = [late EXCEPT ![t] = FALSE]
      /\ Free(t) /\ UNCHANGED <<issued, expired, storage, doing, raced, ended>>
  BY <1>1 DEF Reload
<1>5. shown \in Pages /\ (shown # "login" => auth.user # None)
  BY <1>1 DEF Pages
<1> HIDE DEF shown
<1>6. /\ state'[t] = auth /\ page'[t] = shown /\ socket'[t] = NoSocket /\ mounting'[t]
      /\ \A s \in Tabs \ {t} : /\ state'[s] = state[s] /\ page'[s] = page[s]
                               /\ socket'[s] = socket[s] /\ late'[s] = late[s]
                               /\ mounting'[s] = mounting[s] /\ missed'[s] = missed[s]
                               /\ cache'[s] = cache[s] /\ changed'[s] = changed[s]
  BY <1>4 DEF TypeOK
<1>7. Guarded'
  BY <1>4, <1>5, <1>6, SameTokens DEF Guarded
<1>8. Mounted'
  BY <1>6 DEF Mounted
<1>9. Cached'
  BY <1>3, <1>4, <1>6, SameTokens DEF Cached
<1>10. LastWriter' /\ OneWriter' /\ UpToDate'
  BY <1>1, <1>4, <1>6, OthersWrite
<1>11. Accepted'
  BY <1>4 DEF Accepted
<1>12. TypeOK'
  <2>1. socket' \in [Tabs -> [token : Token, up : BOOLEAN]]
    BY <1>3, <1>4 DEF TypeOK
  <2>2. state' \in [Tabs -> Auth] /\ page' \in [Tabs -> Pages]
    BY <1>2, <1>4, <1>5 DEF TypeOK
  <2>3. \A s \in Tabs : page'[s] # "login" => state'[s].token # 0
    <3>1. \A s \in Tabs : page[s] # "login" => state[s].token # 0
      BY DEF TypeOK
    <3> QED
      BY <1>2, <1>5, <1>6, <3>1
  <2>4. /\ changed' \in [Tabs -> BOOLEAN] /\ mounting' \in [Tabs -> BOOLEAN]
        /\ missed' \in [Tabs -> BOOLEAN] /\ login' \in [Tabs -> [Users -> Nat]]
        /\ sent' \in [Tabs -> SUBSET Token] /\ fetch' \in [Tabs -> Token \cup {None}]
        /\ cache' \in [Tabs -> SUBSET Users] /\ late' \in [Tabs -> BOOLEAN]
    BY <1>4 DEF TypeOK, NoLogins
  <2> QED
    BY <1>4, <2>1, <2>2, <2>3, <2>4, SameTokens DEF TypeOK
<1> QED
  BY <1>7, <1>8, <1>9, <1>10, <1>11, <1>12

\* The tab starts to listen, on a page that gets its socket, or an event is too early.
LEMMA MountSafe ==
  ASSUME IInv, NEW t \in Tabs
  PROVE  /\ Effects(t) => IInv'
         /\ Miss(t) => IInv'
<1> USE DEF IInv
<1>1. /\ state \in [Tabs -> Auth] /\ page \in [Tabs -> Pages]
      /\ socket \in [Tabs -> [token : Token, up : BOOLEAN]] /\ issued \in Seq(Users)
      /\ mounting \in [Tabs -> BOOLEAN] /\ missed \in [Tabs -> BOOLEAN]
      /\ changed \in [Tabs -> BOOLEAN]
  BY DEF TypeOK
<1>2. ASSUME Effects(t) PROVE IInv'
  <2> DEFINE now == Connect(t, page[t], state[t].token)
  <2>1. /\ mounting' = [mounting EXCEPT ![t] = FALSE] /\ socket' = [socket EXCEPT ![t] = now]
        /\ UNCHANGED <<issued, expired, storage, state, changed, missed, doing, page, login, sent,
                       fetch, cache, raced, ended, late>>
    BY <1>2 DEF Effects
  <2>2. state[t].token \in Token
    BY <1>1 DEF Auth
  <2>3. /\ now \in [token : Token, up : BOOLEAN]
        /\ page[t] = "login" => now = NoSocket
        /\ page[t] # "login" => now.token = state[t].token
        /\ now.up => now = socket[t]
    BY <1>1, <2>2, Owners DEF Connect, NoSocket
  <2> HIDE DEF now
  <2>4. /\ socket'[t] = now
        /\ \A s \in Tabs \ {t} : socket'[s] = socket[s] /\ mounting'[s] = mounting[s]
    BY <1>1, <2>1
  <2>5. Mounted'
    BY <2>1, <2>3, <2>4 DEF Mounted
  <2>6. Cached'
    BY <2>1, <2>3, <2>4, SameTokens DEF Cached
  <2>7. Guarded' /\ Accepted'
    BY <2>1, SameTokens DEF Guarded, Accepted
  <2>8. LastWriter' /\ OneWriter' /\ UpToDate'
    BY <2>1, OthersWrite
  <2>9. TypeOK'
    BY <1>1, <2>1, <2>3, SameTokens DEF TypeOK
  <2> QED
    BY <2>5, <2>6, <2>7, <2>8, <2>9
<1>3. ASSUME Miss(t) PROVE IInv'
  <2>1. /\ Free(t) /\ changed' = [changed EXCEPT ![t] = FALSE]
        /\ missed' = [missed EXCEPT ![t] = TRUE]
        /\ UNCHANGED <<issued, expired, storage, state, mounting, doing, page, login, sent, fetch,
                       socket, cache, raced, ended, late>>
    BY <1>3 DEF Miss
  <2>2. /\ missed'[t] /\ \A s \in Tabs \ {t} : changed'[s] = changed[s] /\ missed'[s] = missed[s]
    BY <1>1, <2>1
  <2>3. LastWriter' /\ OneWriter' /\ UpToDate'
    BY <2>1, <2>2, OthersWrite
  <2>4. Guarded' /\ Accepted' /\ Mounted' /\ Cached'
    BY <2>1, SameTokens DEF Guarded, Accepted, Mounted, Cached
  <2>5. TypeOK'
    BY <1>1, <2>1, SameTokens DEF TypeOK
  <2> QED
    BY <2>3, <2>4, <2>5
<1> QED
  BY <1>2, <1>3

\* The second key: whoever was told of another writer meanwhile will read again.
LEMMA FinishSafe ==
  ASSUME IInv, NEW t \in Tabs, Finish(t)
  PROVE  IInv'
<1> USE DEF IInv
<1>1. PICK k \in Token : k = doing[t] /\ k # None
  BY DEF Finish, Free, TypeOK
<1>2. PICK auth \in Coherent : auth = [token |-> k, user |-> Owner(k)]
  BY Owners DEF TypeOK
<1>3. /\ ~Free(t) /\ storage' = [storage EXCEPT !.user = auth.user] /\ Render(t, auth, "list")
      /\ changed' = Notify(t) /\ missed' = [missed EXCEPT ![t] = FALSE]
      /\ doing' = [doing EXCEPT ![t] = None]
      /\ UNCHANGED <<issued, expired, mounting, login, sent, fetch, cache, raced, ended>>
  BY <1>1, <1>2 DEF Finish
<1>4. /\ state' = [state EXCEPT ![t] = auth]
      /\ state' \in [Tabs -> Auth] /\ page' \in [Tabs -> Pages]
      /\ socket' \in [Tabs -> [token : Token, up : BOOLEAN]] /\ late' \in [Tabs -> BOOLEAN]
      /\ \A s \in Tabs : page'[s] # "login" => state'[s].token # 0
      /\ Guarded' /\ Mounted' /\ Cached'
  BY <1>3, RenderSafe DEF Pages
<1>5. /\ storage' \in Auth /\ storage'.token = storage.token /\ storage'.user = Owner(k)
      /\ auth.token = k /\ auth.user = Owner(k)
  BY <1>2, <1>3 DEF TypeOK, Auth, Coherent
<1>6. /\ changed' \in [Tabs -> BOOLEAN] /\ doing' \in [Tabs -> Token \cup {None}]
      /\ \A s \in Tabs : changed'[s] = (changed[s] \/ s # t)
      /\ Free(t)' /\ \A s \in Tabs \ {t} : Free(s)' = Free(s) /\ doing'[s] = doing[s]
  BY <1>3 DEF TypeOK, Notify, Free
<1>7. TypeOK'
  BY <1>3, <1>4, <1>5, <1>6, SameTokens DEF TypeOK
<1>8. LastWriter'
  BY <1>6 DEF LastWriter
<1>9. OneWriter'
  <2> SUFFICES ASSUME ~raced PROVE /\ \A s \in Tabs : Free(s)'
                                   /\ storage'.user = Owner(storage'.token)
    BY <1>3, SameTokens DEF OneWriter, Quiet
  <2>1. storage.token = k /\ \A s \in Tabs \ {t} : Free(s)
    BY <1>1, <1>3 DEF OneWriter
  <2> QED
    BY <1>5, <1>6, <2>1
<1>10. UpToDate'
  <2> SUFFICES ASSUME ~changed'[t] PROVE state'[t] = ReadState'
    BY <1>6 DEF UpToDate
  <2>1. storage'.token = k
    BY <1>1, <1>3, <1>5, <1>6 DEF LastWriter
  <2>2. storage' = auth
    BY <1>5, <2>1 DEF Auth, Coherent
  <2>3. k = 0 => auth = LoggedOut
    BY <1>2 DEF Owner, LoggedOut
  <2>4. k # 0 => auth.user # None
    BY <1>5 DEF Coherent
  <2>5. state'[t] = auth
    BY <1>4 DEF TypeOK
  <2> QED
    BY <2>1, <2>2, <2>3, <2>4, <2>5 DEF ReadState, LoggedOut
<1>11. Accepted'
  BY <1>3, <1>5 DEF Accepted
<1> QED
  BY <1>4, <1>7, <1>8, <1>9, <1>10, <1>11

\* Clearing the keys ends the session, or a 401 that ends it has come.
LEMMA ClearSafe ==
  ASSUME IInv, NEW t \in Tabs, Free(t), Write(t, 0), ended' \in BOOLEAN,
         ~ended' => ~ended /\ Len(issued) = 0,
         UNCHANGED <<issued, expired, state, mounting, missed, page, socket, cache, late>>,
         login' \in [Tabs -> [Users -> Nat]], sent' \in [Tabs -> SUBSET Token],
         fetch' \in [Tabs -> Token \cup {None}]
  PROVE  IInv'
<1> USE DEF IInv
<1>1. /\ storage' \in Auth' /\ storage'.token = 0
      /\ changed' \in [Tabs -> BOOLEAN] /\ doing' \in [Tabs -> Token' \cup {None}]
      /\ raced' \in BOOLEAN
      /\ LastWriter' /\ OneWriter' /\ UpToDate'
  <2>1. 0 \in Token' /\ issued' \in Seq(Users) /\ Token \subseteq Token'
    BY Owners, SameTokens DEF TypeOK
  <2> QED
    BY <2>1, WriteSafe
<1>2. Accepted'
  BY <1>1 DEF Accepted
<1>3. Guarded' /\ Mounted' /\ Cached'
  BY SameTokens DEF Guarded, Mounted, Cached
<1>4. TypeOK'
  BY <1>1, SameTokens DEF TypeOK
<1> QED
  BY <1>1, <1>2, <1>3, <1>4

LEMMA LogoutSafe ==
  ASSUME IInv, NEW t \in Tabs
  PROVE  /\ Logout(t) => IInv'
         /\ \A u \in Users : LoginRefused(t, u) => IInv'
         /\ \A k \in sent[t] : Unauthorized(t, k) => IInv'
<1>1. /\ login \in [Tabs -> [Users -> Nat]] /\ sent \in [Tabs -> SUBSET Token]
      /\ fetch \in [Tabs -> Token \cup {None}] /\ ended \in BOOLEAN
  BY DEF IInv, TypeOK
<1>2. ASSUME Logout(t) PROVE IInv'
  BY <1>1, <1>2, ClearSafe DEF Logout, Ready
<1>3. ASSUME NEW u \in Users, LoginRefused(t, u) PROVE IInv'
  <2>1. login' \in [Tabs -> [Users -> Nat]]
    <3>1. login' = [login EXCEPT ![t][u] = @ - 1] /\ login[t][u] > 0
      BY <1>3 DEF LoginRefused
    <3>2. login[t][u] - 1 \in Nat
      BY <1>1, <3>1
    <3> QED
      BY <1>1, <3>1, <3>2
  <2>2. CASE Write(t, 0) /\ ended' = TRUE
    BY <1>1, <1>3, <2>1, <2>2, ClearSafe DEF LoginRefused, Ready
  <2>3. CASE UNCHANGED <<storage, changed, doing, raced, ended>>
    <3>1. UNCHANGED <<issued, expired, storage, doing, raced, ended, state, changed, mounting,
                      missed, page, sent, fetch, socket, cache, late>>
      BY <1>3, <2>3 DEF LoginRefused
    <3>2. Guarded' /\ LastWriter' /\ OneWriter' /\ UpToDate' /\ Accepted'
      BY <3>1, QuietStep
    <3>3. Mounted' /\ Cached' /\ TypeOK'
      BY <2>1, <3>1, SameTokens DEF IInv, Mounted, Cached, TypeOK
    <3> QED
      BY <3>2, <3>3 DEF IInv
  <2> QED
    BY <1>3, <2>2, <2>3 DEF LoginRefused
<1>4. ASSUME NEW k \in sent[t], Unauthorized(t, k) PROVE IInv'
  <2>1. /\ sent' = [sent EXCEPT ![t] = @ \ {k}]
        /\ fetch' = [fetch EXCEPT ![t] = IF @ = k THEN None ELSE @]
        /\ ended' = (ended \/ k # storage.token) /\ k <= expired /\ k \in Nat
    BY <1>1, <1>4, Owners DEF Unauthorized, IInv, TypeOK
  <2>2. sent' \in [Tabs -> SUBSET Token] /\ fetch' \in [Tabs -> Token \cup {None}]
    BY <1>1, <2>1
  <2>3. ~ended' => ~ended /\ Len(issued) = 0
    <3>1. Len(issued) \in Nat /\ expired \in Nat
      BY Owners DEF IInv, TypeOK
    <3>2. ~ended' => ~ended /\ k = Len(issued)
      BY <2>1 DEF IInv, Accepted
    <3> QED
      BY <2>1, <3>1, <3>2 DEF IInv, Accepted
  <2> QED
    BY <1>1, <1>4, <2>1, <2>2, <2>3, ClearSafe DEF Unauthorized, Ready
<1> QED
  BY <1>2, <1>3, <1>4

LEMMA LoggedInSafe ==
  ASSUME IInv, NEW t \in Tabs, NEW u \in Users, LoggedIn(t, u)
  PROVE  IInv'
<1> USE DEF IInv
<1>1. issued' = Append(issued, u) /\ login[t][u] > 0
  BY DEF LoggedIn
<1>2. /\ issued' \in Seq(Users) /\ Len(issued) \in Nat /\ Len(issued') = Len(issued) + 1
      /\ Token \subseteq Token' /\ Auth \subseteq Auth' /\ Coherent \subseteq Coherent'
      /\ Len(issued') \in Token'
      /\ \A k \in Token : Owner(k)' = Owner(k)
  BY <1>1, NewToken DEF TypeOK
<1>3. /\ Free(t) /\ Len(issued) < MaxLogins /\ login' = [login EXCEPT ![t][u] = @ - 1]
      /\ Write(t, Len(issued')) /\ ended' = FALSE
      /\ UNCHANGED <<expired, state, mounting, missed, page, sent, fetch, socket, cache, late>>
  BY DEF LoggedIn, Ready
<1>4. PICK k \in Token' : k = Len(issued')
  BY <1>2
<1>5. /\ storage' \in Auth' /\ storage'.token = k
      /\ changed' \in [Tabs -> BOOLEAN] /\ doing' \in [Tabs -> Token' \cup {None}]
      /\ raced' \in BOOLEAN
      /\ LastWriter' /\ OneWriter' /\ UpToDate'
  BY <1>2, <1>3, <1>4, WriteSafe
<1>6. Accepted'
  <2>1. expired \in Nat /\ expired <= Len(issued)
    BY <1>2 DEF TypeOK, Token, Tokens
  <2> QED
    BY <1>2, <1>3, <1>4, <1>5, <2>1 DEF Accepted
<1>7. Guarded' /\ Mounted'
  BY <1>2, <1>3 DEF Guarded, Mounted
<1>8. Cached'
  <2>1. \A s \in Tabs : Owner(socket[s].token)' = Owner(socket[s].token)
    <3>1. \A s \in Tabs : socket[s].token \in Token
      BY DEF TypeOK
    <3> QED
      BY <1>2, <1>3, <3>1 DEF Owner
  <2> QED
    BY <1>3, <2>1 DEF Cached
<1>9. TypeOK'
  <2>1. Len(issued') <= MaxLogins
    BY <1>2, <1>3, BoundAssumption
  <2>2. expired' \in Token' /\ state' \in [Tabs -> Auth'] /\ sent' \in [Tabs -> SUBSET Token']
        /\ fetch' \in [Tabs -> Token' \cup {None}]
        /\ socket' \in [Tabs -> [token : Token', up : BOOLEAN]]
    BY <1>2, <1>3 DEF TypeOK
  <2>3. login' \in [Tabs -> [Users -> Nat]]
    <3>1. login \in [Tabs -> [Users -> Nat]] /\ login[t][u] - 1 \in Nat
      BY <1>1 DEF TypeOK
    <3> QED
      BY <1>3, <3>1
  <2> QED
    BY <1>2, <1>3, <1>5, <2>1, <2>2, <2>3 DEF TypeOK
<1> QED
  BY <1>5, <1>6, <1>7, <1>8, <1>9

\* Requests are sent and fail without a trace but the requests in flight.
LEMMA RequestsSafe ==
  ASSUME IInv, NEW t \in Tabs
  PROVE  /\ \A u \in Users : Submit(t, u) => IInv'
         /\ Fetch(t) => IInv'
         /\ Request(t) => IInv'
         /\ \A k \in sent[t] : Fail(t, k) => IInv'
<1>1. ASSUME UNCHANGED <<issued, expired, storage, doing, raced, ended, state, changed, mounting,
                         missed, page, socket, cache, late>>,
             login' \in [Tabs -> [Users -> Nat]], sent' \in [Tabs -> SUBSET Token],
             fetch' \in [Tabs -> Token \cup {None}]
      PROVE  IInv'
  <2>1. Guarded' /\ LastWriter' /\ OneWriter' /\ UpToDate' /\ Accepted'
    BY <1>1, QuietStep
  <2>2. Mounted' /\ Cached' /\ TypeOK'
    BY <1>1, SameTokens DEF IInv, Mounted, Cached, TypeOK
  <2> QED
    BY <2>1, <2>2 DEF IInv
<1>2. /\ login \in [Tabs -> [Users -> Nat]] /\ sent \in [Tabs -> SUBSET Token]
      /\ fetch \in [Tabs -> Token \cup {None}] /\ storage.token \in Token
  BY DEF IInv, TypeOK, Auth
<1>3. ASSUME NEW u \in Users, Submit(t, u) PROVE IInv'
  <2>1. login' \in [Tabs -> [Users -> Nat]]
    BY <1>2, <1>3 DEF Submit
  <2> QED
    BY <1>1, <1>2, <1>3, <2>1 DEF Submit
<1>4. ASSUME Fetch(t) PROVE IInv'
  <2>1. sent' \in [Tabs -> SUBSET Token] /\ fetch' \in [Tabs -> Token \cup {None}]
    BY <1>2, <1>4 DEF Fetch
  <2> QED
    BY <1>1, <1>2, <1>4, <2>1 DEF Fetch
<1>5. ASSUME Request(t) PROVE IInv'
  <2>1. sent' \in [Tabs -> SUBSET Token]
    BY <1>2, <1>5 DEF Request
  <2> QED
    BY <1>1, <1>2, <1>5, <2>1 DEF Request
<1>6. ASSUME NEW k \in sent[t], Fail(t, k) PROVE IInv'
  <2>1. sent' \in [Tabs -> SUBSET Token] /\ fetch' \in [Tabs -> Token \cup {None}]
    BY <1>2, <1>6 DEF Fail
  <2> QED
    BY <1>1, <1>2, <1>6, <2>1 DEF Fail
<1> QED
  BY <1>3, <1>4, <1>5, <1>6

\* An answer for another user than the socket's is told apart, a snapshot and an
\* event are about the socket's user's own servers.
LEMMA CacheSafe ==
  ASSUME IInv, NEW t \in Tabs
  PROVE  /\ \A k \in sent[t] : Answer(t, k) => IInv'
         /\ Snapshot(t) => IInv'
         /\ Pushed(t) => IInv'
         /\ Discard(t) => IInv'
<1> USE DEF IInv
<1>1. /\ issued \in Seq(Users) /\ page \in [Tabs -> Pages]
      /\ socket \in [Tabs -> [token : Token, up : BOOLEAN]] /\ cache \in [Tabs -> SUBSET Users]
      /\ sent \in [Tabs -> SUBSET Token] /\ fetch \in [Tabs -> Token \cup {None}]
      /\ late \in [Tabs -> BOOLEAN] /\ expired \in Nat
  BY Owners DEF TypeOK
<1>2. ASSUME NEW k \in Token, k > expired PROVE Owner(k) \in Users
  <2>1. k \in Nat /\ (k # 0 => Owner(k) \in Users)
    BY <1>1, Owners
  <2> QED
    BY <1>1, <1>2, <2>1
<1>3. ASSUME UNCHANGED <<issued, expired, storage, doing, raced, ended, state, changed, mounting,
                         missed, page, login>>,
             socket' \in [Tabs -> [token : Token, up : BOOLEAN]],
             \A s \in Tabs : socket'[s] = socket[s]
                            \/ (page[s] # "login" /\ socket[s] # NoSocket
                                /\ socket'[s].token = socket[s].token),
             sent' \in [Tabs -> SUBSET Token], fetch' \in [Tabs -> Token \cup {None}],
             cache' \in [Tabs -> SUBSET Users], late' \in [Tabs -> BOOLEAN],
             \A s \in Tabs :
               \/ socket'[s] = socket[s] /\ late'[s] = late[s] /\ cache'[s] = cache[s]
               \/ (socket'[s].up /\ ~late'[s]) => cache'[s] \subseteq {Owner(socket'[s].token)}
      PROVE  IInv'
  <2>1. Guarded' /\ LastWriter' /\ OneWriter' /\ UpToDate' /\ Accepted'
    BY <1>3, QuietStep
  <2>2. TypeOK'
    BY <1>3, SameTokens DEF TypeOK
  <2>3. Mounted'
    BY <1>1, <1>3 DEF Mounted
  <2>4. Cached'
    BY <1>3, SameTokens DEF Cached
  <2> QED
    BY <2>1, <2>2, <2>3, <2>4
<1>4. ASSUME NEW k \in sent[t], Answer(t, k) PROVE IInv'
  <2>1. k \in Token /\ Owner(k) \in Users
    BY <1>1, <1>2, <1>4 DEF Answer
  <2>2. sent' \in [Tabs -> SUBSET Token]
    BY <1>1, <1>4 DEF Answer
  <2>3. CASE fetch[t] = k
    <3>1. /\ fetch' = [fetch EXCEPT ![t] = None] /\ cache' = [cache EXCEPT ![t] = {Owner(k)}]
          /\ late' = [late EXCEPT ![t] = socket[t].up /\ Owner(k) # Owner(socket[t].token)]
          /\ UNCHANGED <<issued, expired, storage, doing, raced, ended, state, changed, mounting,
                         missed, page, login, socket>>
      BY <1>4, <2>3 DEF Answer
    <3>2. /\ fetch' \in [Tabs -> Token \cup {None}] /\ cache' \in [Tabs -> SUBSET Users]
          /\ late' \in [Tabs -> BOOLEAN]
      BY <1>1, <2>1, <3>1
    <3>3. \A s \in Tabs \ {t} : late'[s] = late[s] /\ cache'[s] = cache[s]
      BY <1>1, <3>1
    <3>4. socket[t].up /\ ~late'[t] => cache'[t] \subseteq {Owner(socket[t].token)}
      BY <1>1, <3>1
    <3>5. \A s \in Tabs : socket'[s] = socket[s]
      BY <3>1
    <3>6. \A s \in Tabs :
            \/ socket'[s] = socket[s] /\ late'[s] = late[s] /\ cache'[s] = cache[s]
            \/ (socket'[s].up /\ ~late'[s]) => cache'[s] \subseteq {Owner(socket'[s].token)}
      BY <3>3, <3>4, <3>5
    <3> QED
      BY <1>1, <1>3, <2>2, <3>1, <3>2, <3>5, <3>6
  <2>4. CASE fetch[t] # k
    BY <1>1, <1>3, <1>4, <2>2, <2>4 DEF Answer
  <2> QED
    BY <2>3, <2>4
<1>5. ASSUME Snapshot(t) PROVE IInv'
  <2>1. /\ socket' = [socket EXCEPT ![t].up = TRUE] /\ late' = [late EXCEPT ![t] = FALSE]
        /\ cache' = [cache EXCEPT ![t] = {Owner(socket[t].token)}] /\ socket[t].token > expired
        /\ UNCHANGED <<issued, expired, storage, doing, raced, ended, state, changed, mounting,
                       missed, page, login, sent, fetch>>
    BY <1>5 DEF Snapshot
  <2>2. socket[t].token \in Token /\ Owner(socket[t].token) \in Users
    BY <1>1, <1>2, <2>1
  <2>3. /\ socket' \in [Tabs -> [token : Token, up : BOOLEAN]] /\ cache' \in [Tabs -> SUBSET Users]
        /\ late' \in [Tabs -> BOOLEAN]
    BY <1>1, <2>1, <2>2
  <2>4. page[t] # "login" /\ socket[t] # NoSocket
    <3>1. socket[t] # NoSocket
      BY <1>1, <2>1 DEF NoSocket
    <3> QED
      BY <1>1, <3>1 DEF Mounted
  <2>5. socket'[t].token = socket[t].token /\ cache'[t] \subseteq {Owner(socket'[t].token)}
    BY <1>1, <2>1
  <2>6. \A s \in Tabs \ {t} : socket'[s] = socket[s] /\ late'[s] = late[s] /\ cache'[s] = cache[s]
    BY <1>1, <2>1
  <2> QED
    BY <1>1, <1>3, <2>1, <2>3, <2>4, <2>5, <2>6
<1>6. ASSUME Pushed(t) PROVE IInv'
  <2>1. /\ socket[t].up /\ cache' = [cache EXCEPT ![t] = @ \cup {Owner(socket[t].token)}]
        /\ UNCHANGED <<issued, expired, storage, doing, raced, ended, state, changed, mounting,
                       missed, page, login, sent, fetch, socket, late>>
    BY <1>6 DEF Pushed
  <2>2. socket[t].token \in Token /\ Owner(socket[t].token) \in Users
    <3>1. page[t] # "login" /\ socket[t].token = state[t].token
      BY <1>1, <2>1 DEF Mounted, NoSocket
    <3> QED
      BY <1>1, <3>1, Owners DEF TypeOK
  <2>3. cache' \in [Tabs -> SUBSET Users]
    BY <1>1, <2>1, <2>2
  <2>4. ~late[t] => cache'[t] \subseteq {Owner(socket[t].token)}
    BY <1>1, <2>1 DEF Cached
  <2>5. \A s \in Tabs \ {t} : cache'[s] = cache[s]
    BY <1>1, <2>1
  <2> QED
    BY <1>1, <1>3, <2>1, <2>3, <2>4, <2>5
<1>7. ASSUME Discard(t) PROVE IInv'
  <2>1. /\ cache' = [cache EXCEPT ![t] = {}] /\ late' = [late EXCEPT ![t] = FALSE]
        /\ UNCHANGED <<issued, expired, storage, doing, raced, ended, state, changed, mounting,
                       missed, page, login, sent, fetch, socket>>
    BY <1>7 DEF Discard
  <2>2. cache' \in [Tabs -> SUBSET Users] /\ late' \in [Tabs -> BOOLEAN] /\ cache'[t] = {}
        /\ \A s \in Tabs \ {t} : cache'[s] = cache[s] /\ late'[s] = late[s]
    BY <1>1, <2>1
  <2> QED
    BY <1>1, <1>3, <2>1, <2>2
<1> QED
  BY <1>4, <1>5, <1>6, <1>7

\* Tokens expire in the order they were issued in.
LEMMA ExpireSafe ==
  ASSUME IInv, Expire
  PROVE  IInv'
<1>1. PICK n \in Nat : n = Len(issued)
  BY DEF IInv, TypeOK
<1>2. /\ Token = {0} \cup 1 .. n /\ expired \in Token /\ ended \in BOOLEAN
  BY <1>1 DEF IInv, TypeOK, Token, Tokens
<1>3. /\ expired < n /\ expired' = expired + 1 /\ ended' = (ended \/ expired' = n)
      /\ UNCHANGED <<issued, storage, browser, raced>>
  BY <1>1 DEF Expire
<1>4. expired' \in Token /\ ended' \in BOOLEAN
  BY <1>2, <1>3
<1>5. TypeOK'
  BY <1>3, <1>4, SameTokens DEF IInv, TypeOK, browser
<1>6. Accepted'
  <2> SUFFICES ASSUME ~ended' PROVE storage'.token = n /\ expired' < n
    BY <1>1, <1>3 DEF Accepted
  <2>1. ~ended /\ storage.token = n
    BY <1>1, <1>2, <1>3 DEF IInv, Accepted
  <2>2. expired' < n
    <3>1. expired \in Nat
      BY <1>2
    <3>2. expired' # n
      BY <1>2, <1>3
    <3> QED
      BY <1>3, <3>1, <3>2
  <2> QED
    BY <1>3, <2>1, <2>2
<1>7. Guarded' /\ Mounted' /\ Cached'
  BY <1>3, SameTokens DEF IInv, Guarded, Mounted, Cached, browser
<1>8. LastWriter' /\ OneWriter' /\ UpToDate'
  BY <1>3, OthersWrite DEF browser
<1> QED
  BY <1>5, <1>6, <1>7, <1>8 DEF IInv

-----------------------------------------------------------------------------
(* The theorems *)

LEMMA InitIInv == Init => IInv
<1> SUFFICES ASSUME Init PROVE IInv
  OBVIOUS
<1>1. /\ issued = <<>> /\ Len(issued) = 0 /\ issued \in Seq(Users)
  BY DEF Init
<1>2. Token = {0} /\ LoggedOut \in Auth /\ LoggedOut \in Coherent /\ LoggedOut.token = 0
  BY <1>1, Owners DEF Token, Tokens, LoggedOut, Auth, Coherent
<1>3. TypeOK
  <2>1. NoSocket \in [token : Token, up : BOOLEAN]
    BY <1>2 DEF NoSocket
  <2>2. Len(issued) <= MaxLogins /\ expired \in Token
    BY <1>1, <1>2, BoundAssumption DEF Init
  <2>3. /\ storage \in Auth /\ state \in [Tabs -> Auth]
        /\ socket \in [Tabs -> [token : Token, up : BOOLEAN]]
        /\ changed \in [Tabs -> BOOLEAN] /\ late \in [Tabs -> BOOLEAN]
        /\ mounting \in [Tabs -> BOOLEAN] /\ missed \in [Tabs -> BOOLEAN]
        /\ raced \in BOOLEAN /\ ended \in BOOLEAN
    BY <1>2, <2>1 DEF Init
  <2>4. /\ doing \in [Tabs -> Token \cup {None}] /\ page \in [Tabs -> Pages]
        /\ login \in [Tabs -> [Users -> Nat]] /\ sent \in [Tabs -> SUBSET Token]
        /\ fetch \in [Tabs -> Token \cup {None}] /\ cache \in [Tabs -> SUBSET Users]
    BY DEF Init, Pages, NoLogins
  <2>5. \A t \in Tabs : page[t] = "login"
    BY DEF Init
  <2> QED
    BY <1>1, <2>2, <2>3, <2>4, <2>5 DEF TypeOK
<1>4. Quiet
  BY DEF Init, Quiet, Free
<1>5. Guarded /\ Mounted
  BY <1>2 DEF Init, Guarded, Mounted
<1>6. LastWriter
  BY <1>4 DEF LastWriter, Quiet
<1>7. OneWriter
  BY <1>4 DEF Init, OneWriter, LoggedOut, Owner, Quiet
<1>8. UpToDate
  BY <1>2 DEF Init, UpToDate, ReadState
<1>9. Accepted
  BY <1>1, <1>2 DEF Init, Accepted
<1>10. Cached
  BY DEF Init, Cached, NoSocket
<1> QED
  BY <1>3, <1>5, <1>6, <1>7, <1>8, <1>9, <1>10 DEF IInv

LEMMA StepIInv == IInv /\ [Next]_vars => IInv'
<1> SUFFICES ASSUME IInv, [Next]_vars PROVE IInv'
  OBVIOUS
<1>1. CASE UNCHANGED vars
  <2>1. UNCHANGED <<issued, expired, storage, doing, raced, ended, state, changed, mounting,
                    missed, page, login, sent, fetch, socket, cache, late>>
    BY <1>1 DEF vars, browser
  <2>2. Guarded' /\ LastWriter' /\ OneWriter' /\ UpToDate' /\ Accepted'
    BY <2>1, QuietStep
  <2>3. Mounted' /\ Cached' /\ TypeOK'
    BY <2>1, SameTokens DEF IInv, Mounted, Cached, TypeOK
  <2> QED
    BY <2>2, <2>3 DEF IInv
<1>2. ASSUME NEW t \in Tabs,
             \/ Effects(t) \/ Miss(t) \/ Sync(t) \/ Finish(t) \/ Logout(t)
             \/ Fetch(t) \/ Request(t) \/ Snapshot(t) \/ Pushed(t) \/ Discard(t)
      PROVE  IInv'
  BY <1>2, MountSafe, VisitSyncSafe, FinishSafe, LogoutSafe, RequestsSafe, CacheSafe
<1>3. ASSUME NEW t \in Tabs, NEW u \in Users,
             Submit(t, u) \/ LoggedIn(t, u) \/ LoginRefused(t, u)
      PROVE  IInv'
  BY <1>3, RequestsSafe, LoggedInSafe, LogoutSafe
<1>4. ASSUME NEW t \in Tabs, NEW p \in Pages, Visit(t, p) \/ Reload(t, p) PROVE IInv'
  BY <1>4, VisitSyncSafe, ReloadSafe
<1>5. ASSUME NEW t \in Tabs, NEW k \in sent[t], Answer(t, k) \/ Unauthorized(t, k) \/ Fail(t, k)
      PROVE  IInv'
  BY <1>5, CacheSafe, LogoutSafe, RequestsSafe
<1>6. CASE Expire
  BY <1>6, ExpireSafe
<1> QED
  BY <1>1, <1>2, <1>3, <1>4, <1>5, <1>6 DEF Next

\* Every reachable state has the types the code relies on, and RequireAuth keeps
\* a tab that has no token on the login page.
THEOREM TypeCorrect == Spec => []TypeOK
<1>1. IInv => TypeOK
  BY DEF IInv
<1> QED
  BY <1>1, InitIInv, StepIInv, PTL DEF Spec

\* Once the storage events are delivered every tab shows what localStorage holds,
\* but a new document that one of them came too early for, and the user it shows
\* is the token's unless two tabs wrote at the same time.
THEOREM TabsConverge == Spec => []TabsAgree
<1>1. IInv => TabsAgree
  <2> SUFFICES ASSUME IInv, \A t \in Tabs : Free(t) /\ ~changed[t], NEW t \in Tabs, ~missed[t]
               PROVE  /\ state[t] = ReadState
                      /\ ~raced => state[t].user = Owner(storage.token)
    BY DEF TabsAgree
  <2>1. Quiet /\ state[t] = ReadState
    BY DEF IInv, Quiet, UpToDate
  <2>2. ASSUME ~raced PROVE ReadState.user = Owner(storage.token)
    <3>1. storage.user = Owner(storage.token)
      BY <2>1, <2>2 DEF IInv, OneWriter
    <3>2. storage.token = 0 => Owner(storage.token) = None
      BY DEF Owner
    <3> QED
      BY <3>1, <3>2 DEF ReadState, LoggedOut
  <2> QED
    BY <2>1, <2>2
<1> QED
  BY <1>1, InitIInv, StepIInv, PTL DEF Spec

\* A session stays stored until it expires, somebody logs out, or a 401 arrives
\* that was not about it: client.ts clears the keys on any.
THEOREM LiveSessionStays == Spec => []LiveSessionIsKept
<1>1. IInv => LiveSessionIsKept
  BY DEF IInv, Accepted, LiveSessionIsKept
<1> QED
  BY <1>1, InitIInv, StepIInv, PTL DEF Spec

\* A connected socket belongs to the session its tab shows, and ['servers'] holds
\* that user's servers only, however often it is dropped and filled again, unless
\* an older session's answer came later.
THEOREM CacheIsAlwaysExplained == Spec => []CacheIsExplained
<1>1. IInv => CacheIsExplained
  <2> SUFFICES ASSUME IInv, NEW t \in Tabs, socket[t].up
               PROVE  /\ socket[t].token = state[t].token
                      /\ ~late[t] => cache[t] \subseteq {Owner(socket[t].token)}
    BY DEF CacheIsExplained
  <2>1. page[t] # "login" /\ socket[t] # NoSocket
    BY DEF IInv, TypeOK, Mounted, NoSocket
  <2> QED
    BY <2>1 DEF IInv, Mounted, Cached
<1> QED
  BY <1>1, InitIInv, StepIInv, PTL DEF Spec

=============================================================================
