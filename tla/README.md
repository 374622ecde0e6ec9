# A TLA+ model of GameNest

GameNest runs dedicated game servers on machines its users own.  A control
plane (`apps/api`, NestJS with PostgreSQL) offers REST calls to a web dashboard
(`apps/web`, React) and keeps a socket.io connection from an agent
(`apps/agent`) on every node.  The agent carries out the control plane's
commands on the node's Docker daemon.

This directory holds TLA+ modules translated from that source, configurations
that check them with TLC, and proofs checked with TLAPS.  `PROJECT.json` lists
every definition with the lines it stands for, every run, every mutant and every
hazard.

## 1. The system

### Components

| Component | State it keeps | Operations |
|---|---|---|
| Host port allocation (`port-allocator.service.ts`) | none of its own: reads `game_servers.ports` | `allocate` |
| Server life cycle (`servers.controller.ts`, `servers.service.ts`) | rows of `game_servers`; handlers suspended at an `await`; a log buffer per server | `POST /servers`, `POST /servers/:id/start`, `stop`, `restart`, `DELETE /servers/:id`, `GET` lists and logs, `handleStatus`, `handleLog` |
| Command request/response (`node-command.service.ts`) | `pending`: promises and timers by request id | `send`, `handleAck`, `handleError`, timeout |
| Node registration (`nodes.gateway.ts`, `node-registry.service.ts`) | `nodes`: one registry entry per node, with its socket | `handleRegister`, `handleDisconnect`, `touchHeartbeat`, `getSocket`, `list` |
| Agent (`agent-connection.service.ts`, `docker.service.ts`) | the socket with its send buffer, the heartbeat timer, activations of `handleMessage`; containers in Docker | `handleConnect`, one command handler per verb, `send` |
| Dashboard channel (`dashboard.gateway.ts`, `useDashboardSocket.ts`, `useServers.ts`, `useNodes.ts`) | rooms; the browser's query cache | `handleConnection`, one handler per internal event, the reducer of the hook, fetches |
| Accounts (`auth.service.ts`) | `users` with unique columns `email` and `google_id` | `register`, `login`, `loginWithGoogle`, `verifyToken` |
| Templates (`templates.service.ts`, `resolve-env.ts`, `CreateServerPage.tsx`, `EnvVarField.tsx`) | `game_templates`, constant after start; the creation form | `getBySlug`, `resolveEnv`, `defaultsFor`, the controls of the form |
| Web session (`AuthProvider.tsx`, `auth-storage.ts`, `client.ts`) | two keys in `localStorage`; per tab a copy of them, the query cache, requests in flight | login, logout, 401, storage events, reload |
| Other pages, persistence client, bootstrap | none that matters here | - |

### How they interact

* Browser to control plane: REST calls.  A handler is a chain of `await`s, and
  other handlers run at each of them.
* Control plane to agent: `NodeCommandService.send` emits a command on the socket
  the registry has for the node and waits for `command.ack` or `command.error`,
  for 30 s at most.
* Agent to control plane: `agent.register`, heartbeats, `container.status`,
  `container.log` and answers, on one ordered connection.
* Inside the control plane: an event emitter.  A status report starts
  `ServersService.handleStatus` and `DashboardGateway.onServerStatus`, which run
  one database query each and do not wait for each other.
* Control plane to browser: one snapshot per connection, then events; log lines
  are events too, and a log panel fetches the buffer once when it is opened.
* Tab to tab: the tabs of a browser share the stored session; the one that writes
  causes a storage event in all others.

### What is hard

* *Interleaving.* Creations, user calls and status updates interleave at every
  database query; the agent does not wait for one command before it takes the
  next.
* *Failure.* Connections die and each end learns of it in its own time.  The
  control plane forgets the registry, the promises and the suspended handlers
  when it restarts; the agent forgets its activations; rows and containers
  survive.
* *Timeouts.* A command that timed out is not cancelled, and may be carried out
  after its caller has given up and cleaned up.
* *Ordering.* Queries run on a pool and commit in any order; events overtake
  snapshots and fetched lists.
* *Sharing.* Tabs of one browser write the same two keys, and answers to requests
  of an earlier session arrive in a later one.

### What makes it correct

* Ports: two servers of a node never hold the same host port; the range is used
  to its end and not beyond it.
* Life cycle: a call that succeeds had its effect; every call ends; no container
  without a row, no created server without a container; a status that is shown
  happened.
* Registration: the registry has the agent's current connection in the end, and
  never one that was handled as disconnected.
* Dashboard: a browser sees its user's servers only, and in the end sees what is
  there.
* Accounts: a token is for an account its caller has a claim to; an email and a
  Google identity have one account each.
* Logs: the buffer holds the last lines that arrived, and a panel misses or repeats
  a line only for a reason.
* Session: the tabs agree on who is logged in, a session that is alive is kept, and
  one user's servers are not shown to the next.
* Environment: a container gets the settings the form showed.

## 2. The modules

```
PortAllocator          the loop of allocate and a loop-free description of it
  HostPorts            creations and removals against the table of rows
    MCHostPorts        instances for TLC, with the templates' port lists
      CreationProofs   theorems: host ports, the loop of allocate, the form's settings
Templates              the games' settings, and how both programs write them
  CreateForm           a setting's way from the form to the container
NodeLink               what the rest of the system can rely on about a node's link
  AgentLink            the handshake; refines NodeLink
    AgentLinkProofs    its registry and the refinement, as theorems
  NodeAgent            the agent and Docker, on top of NodeLink
    ServerLifecycle    handlers, promises, rows and status updates, composed with
                       NodeAgent and PortAllocator; refines HostPorts
      MCServerLifecycle
      ServerLifecycleProofs   types, answers and statuses
        ServerRowsProofs      rows: the refinement, orphans, rows and containers
Dashboard              the push channel and the browser's cache
  MCDashboard
  DashboardProofs      types, whose servers a browser shows, removals, drift
LogTail                log lines, from a container to a panel in the browser
  LogTailProofs        the buffer, gaps and repeats
Accounts               registration and logins against the users table
  AccountsProofs
WebSession             the session that the tabs of a browser share
  MCWebSession
  WebSessionProofs     types, agreement of the tabs, live sessions, the cache
MCParts                HostPorts, CreateForm, LogTail and Accounts in one instance for TLC
```

`HostPorts` and `NodeLink` are the abstract specifications: what the allocator
promises to rows, and what registration promises to everybody else.  `CreateForm`,
`Dashboard`, `LogTail`, `Accounts` and `WebSession` stand beside the life cycle: what reaches
them from it (rows that come and go, reports, lines) is one action each.
`ServerLifecycle` does not repeat the handshake; it uses `NodeLink`'s actions,
and `AgentLink` shows that the handshake does no more than these.

### PortAllocator

`LoopBody` is one iteration of `allocate`, `Allocate` runs it over a template's
port list, `FirstFree` is `firstFree`.  `LowestFree(used, need)` describes the
result without a loop, as a set that is empty when the range is exhausted.  The
state machines use `LowestFree`, which their proofs can reason about directly;
`LoopAgrees` says that the two agree.
Parsing of `PORT_RANGE_START` and `PORT_RANGE_END` is left out.

### HostPorts

One creation per server: `Begin` (the node is connected), `PickPorts` (the
`findMany` of `usedPortsOnNode` with the synchronous loop on its result),
`InsertRow` (the insert), `TurnAway` (a 4xx), `RemoveRow`, and `Crash` of the
process.  Nothing holds the node between the two queries, as in the code.  The
field `saw` of a creation is a history: which rows its query returned.

### NodeLink and AgentLink

`NodeLink` has two variables per node: the agent's `link` (`up`, `broken` but not
noticed, `offline`) and the registry's view `reg` (`none`, `stale`, `live`).

`AgentLink` has the numbered connections of a node and what either end believes
of them (`client`, `conn`), messages in flight (`wire`, `reply`), the client's send
buffer (`outbox`), activations of `handleConnect` that wait for
`collectHostInfo` (`collecting`), the heartbeat timer, and `entry`, the registered
socket.  `Connect` sends the buffer before the connect event fires, as
socket.io-client does.  `Accept` and `Reject` are the two ends of
`handleRegister`; `Unregister` is `unregisterBySocketId`, which compares socket
ids.  When a connection dies, what is in flight on it is lost or still arrives
(`Remains`): bytes that the agent sent before it gave the connection up may be read
after those of the next one.  `overtaken` is a history: the nodes whose entry a
register message of an older connection took over, until the agent connects again.
`NodeLink` has `Overtake` for that step; `NodeAgent` repeats it as `LateRegister`,
one of the faults of `ServerLifecycle`.

### NodeAgent and ServerLifecycle

`NodeAgent` is `AgentConnectionService.handleMessage` with `runCommand`:
`ReceiveCommand` runs up to the first `await` (and reports `starting`, `stopping`
or `deleting` first), `DockerPerforms` and `DockerRefuses` are the Docker calls,
`Finish` sends the closing status and the answer.  Activations of one agent run
concurrently.  `Moves` says what each verb does to a container, `PortsFree` that
Docker refuses to start a container whose host port is taken.  Docker itself is
external: it is modelled from how `docker.service.ts` uses it.

The constant `Troubles` says what may go wrong in a run: `link` (connections break,
and register messages overtake each other), `api` and `agent` (a process dies),
`docker` (Docker refuses what it could do), `slow` (a command takes longer than its
timeout) and `late` (what was on its way outlives a death or a loss).  With `late`,
reports of a dead connection may still be read, before those of the next one
(`Outliving`), and a Docker call of an agent that died may still be carried out
(`Abandoned`, `DockerOutlives`); nobody reports what it did.

`ServerLifecycle` adds the control plane.  A step is what its event loop does
between two `await`s.

| Code | Definitions |
|---|---|
| `ServersController.create` | `BeginCreate`, `PickPorts`, `RangeExhausted`, `InsertRow`, `SendCreate`, `Continuation` (what follows each answer), `AfterFailure` (the catch block), `RemoveFailed` |
| `start`, `stop`, `restart`, `remove` | `LoadRow`, `SendRequest`, `ProceedRequest`, `ReloadRow`, `RemoveRow` |
| `NodeCommandService` | `Transmit`, `pending`, `Settle`, `Timeout`; a send to a node that is not registered rejects at once, one to a stale socket is lost |
| `ServersService.handleStatus` | `ReceiveReport` starts an update (`writes`), `ApplyStatus` is its commit, in any order |
| process death | `ApiRestart`, `AgentRestart`, `Disconnect` |

A command stands for its own request id, because one caller sends a verb once.
`performed` is a history of the commands Docker carried out.

### Dashboard

`Join`, `List` and `SendSnapshot` are `handleConnection`, cut at its `await`s: the
list of nodes is captured before the query and sent after it.  `Push` puts events
on the ordered channel of the browsers of a room.  `ReportStatus` starts the two
queries of a report, `WriteStatus` commits the one, `FindOwner` and `PushStatus`
are the other.  `Updated` is the switch of `useDashboardSocket`.  `FetchReads` and
`FetchArrives` are a fetch of `['nodes']` or `['servers']`: the fallback on mount,
or the refetch that `ServerDetailPage` starts after an action; one of each may be
under way, and `FetchLost` is one that fails or is cancelled.  `entry` tells a list of
servers from no list: `Discard` is React Query's garbage collection while a page that
does not use the list is open, and `Entry` is `(prev = [])`, by which an event makes a
list out of nothing.  `doubt` is a history: what a browser may be wrong about, and why.

### Templates and CreateForm

`Templates` has the two games of `TEMPLATE_DEFINITIONS` and the functions on a
setting: `DefaultsFor` (browser) and `DefaultToString` (API) write a default as text,
`OnChange` writes what a control is moved to, `Shown` is what a control shows for a
text, `ResolveEnv` picks from what the request has.  A text is a word or a number
with a unit, because that is what the conversions take apart.  `OtherEnv` is a
template with the kinds of field `EnvVarSchema` allows and the two games do not use:
`false` and 0 as defaults, no unit, no default in any kind of control, required
without a default.

`CreateForm` takes the templates as the constant `Schemas`; `WellFormed` is what a
field of one must satisfy, and TLC checks the three of `AllSchemas`.
Its state is the form's (`template`, `env`) with `OpenForm`, `ChangeTemplate` and
the effect that resets the settings (`Select`), `Move` for a control, `Submit`,
`Answer` with `resolveEnv` on the other side, `Fail`, and `Leave`.  Only the button
knows that a request is pending: the form can be edited until the answer comes, so
`sent` keeps what the request holds.  `asked` is a history: what the user set.  A
`range` or a `select` without a default shows its first setting while nothing is sent
for it; such a field is not `Settled` until it is moved, and nothing is said of it.

### LogTail

One server, one browser.  Line n is the nth line the container wrote.  `StreamLogs`
is the one `command.streamLogs` after a creation, with the `tail` of the past;
`Halt` and `AgentRestart` end the stream for good, as nothing sends the command
again.  `Receive` is the event `container.log`, which reaches both `handleLog`
(`Pushed`) and `onServerLog` (`lookups`, answered in any order by `Route`).
`DeleteRow` and `ForgetLogs` are `remove`, cut at its `await`.  `Open`, `CheckOwner`,
`GetLogs` and `FetchArrives` are the panel's fetch, `Appended` the reducer, which
drops lines while there is no data.  `got`, `base` and `early` are histories: what
the API received, what it had received when the panel's data was read, what was
pushed before the data came.  `MAX_LOG_LINES` and `tail` are constants.

### Accounts

A step is one query of `AuthService` with what the handler does up to the next:
`Register` and `InsertPassword`; `Login`; `Google`, `FindEmail`, and `Link` or
`Create`.  Unique columns refuse (`failed`, a 500).  `Normal` is `normalizeEmail` as a
function from what is typed to what is stored.  What `bcrypt` and Google's library
decide is a field of the call: the password matches or not, `valid` or not.  A row is
named after the call that made it.  `saw` is a history: the calls that were over
when this one began.

### WebSession

`storage` holds the two keys, which `Write` and `Finish` set one after the other;
`state` is the `useState` of `AuthProvider`, `changed` a storage event under way.
`Reload` is the first render of a new document, which reads storage; `Effects` are its
effects, which begin to listen and open the socket; a storage event in between has no
listener (`Miss`), and the history `missed` remembers it until the tab reads storage
again.  `Render` applies `RequireAuth` and, through `Connect`, the effect of
`useDashboardSocket`, which opens a socket per token.  `Submit`, `LoggedIn` and
`LoginRefused` are the three kinds of login, of which a page can have more than one
under way; `Fetch` and `Request` take the token that
is stored when they are sent, `Answer`, `Unauthorized` and `Fail` are the ways of
`request`.  `Unauthorized` clears whatever is stored, as `client.ts` does.  Tokens are
numbered in the order they were issued, so that they expire in this order.
`cache` is whose servers `['servers']` holds: `Snapshot` and `Answer` replace it,
`Pushed` adds to it, `Discard` is React Query's garbage collection, on every page but
those that show the list (`"list"`).  `late` is a history of answers for another user.

## 3. The runs

| Run | Shows | Bounds |
|---|---|---|
| `parts`: host ports | `ClashOnlyIfOverlapping`, `LoopAgrees`, types (`TypeOK`) | 3 creations, 2 nodes, 4 ports, templates of 1 to 3 ports: enough for two overlapping creations beside a third server whose removal frees ports, and for a range that is exhausted halfway through a template |
| `parts`: accounts | `TokenIsEarned`, `SplitOnlyByRelink`, `FailureMeansOverlap`, types (`AccountsTypeOK`) | 3 calls of any kind, 2 emails of which one is typed in two ways, 2 passwords, 2 Google identities: a race of two beside a third that was there before |
| `parts`: the form | `CreatedAsShown`, `DefaultsAgree` | the forms of three templates, with every setting of every control; while a request is under way and after it was refused, few edits (`FewEdits`) |
| `parts`: the log | `BufferIsTail`, `GapsAreExplained`, `RepeatsAreExplained`, types (`LogTypeOK`) | a buffer of 2 lines, 4 lines, a tail of 1, 2 openings of the panel, 1 fault: a buffer that overflows twice, a panel reopened, lines from before and after a removal or a restart |
| `host_ports_shared` | *violated*: `NoSharedHostPort` | as above, with 3 ports |
| `agent_link` | `EntryHasOpenSocket`, `RefinesNodeLink`, `ComesBack`, types | 2 nodes of which one has the secret, 3 connections and 2 faults, messages lost or late: a connection replaced twice, both ends dying in either order, a registration overtaken by an older one |
| `lifecycle_calm` | `RowOutlivesContainer`, `RowHasContainer` while nothing goes wrong | 1 server, 2 user calls with any verbs |
| `lifecycle_restarts` | `NoFalseSuccess`, `WaitersArePending`, `OrphansComeFromFailedCreates`, `StatusIsGrounded`, `RowHasContainer`, `RefinesHostPorts`, types | 1 server, 1 call, 2 faults of any kind, with what outlives them, a daemon that refuses; templates of 1 or 2 ports in a range of 1 |
| `lifecycle_answered` | `Answered`, `NoFalseSuccess`, `OrphansComeFromFailedCreates` with timeouts at any moment | 1 server, 1 delete, 1 death of the agent: enough for a stale registration, for one that is gone, and for an answer that never comes |
| `lifecycle_orphan` | *violated*: `RowOutlivesContainer` once commands can be slow | 1 server |
| `lifecycle_shown` | *violated*: `CreatedIsShownRunning` on a system in which nothing fails | 1 server |
| `dashboard` | `DriftIsExplained`, `OnlyOwnServers`, `RemovedStaysRemoved`, types | 1 browser, 1 server of its user or of another, 1 node, any 4 of: connections, fetches, reports, node changes |
| `dashboard_late` | *violated*: `ConnectionHeals` when nothing is fetched | the same |
| `web_session` | `TabsAgree`, `LiveSessionIsKept`, `CacheIsExplained`, types | 2 tabs, 2 users, 2 logins, 2 requests in flight: a session and its successor, with an answer to either; one tab is followed through every page and reload, the other logs in and out under it (`OthersStayOpen`) |
| `web_session_previous` | *violated*: `OwnServersOnly` | 1 tab, 2 users, 2 logins, 1 request in flight |

`MaxFaults`, `MaxConns`, `MaxBuffered`, `MaxEvents`, `MaxLines`, `MaxOpens`,
`MaxLogins` and `MaxInFlight` cap what would be unbounded; they stand in the guards of
the actions they bound.  Calls of the user and creations happen once each, so the
life cycle and the accounts need no further bound.  Deadlock is not checked: every
model but the form comes to rest when its bounded work is done.

`parts` is one run about four modules that share no state.  A behaviour of `MCParts`
has the steps of one of them, which loses nothing: each property speaks of one.

Two runs have a constraint.  `FewEdits`: a form is brought into every state before it
is sent, but edited after that only if few controls were moved before, and one at a
time; the texts of two settings do not depend on each other.  `OthersStayOpen` leaves
out what else the tab that is not watched may do: other pages and reloads, which do
nothing to the stored session, logins over its own session, several at once, and
requests.  It still logs in over a session it has not heard of, and still clears the
stored one with a logout or a wrong password; the watched tab does everything.  The
theorems of section 4 need neither.

The violated runs are five places in which the code does not do what one of its
comments, or the README, says:

1. `NoSharedHostPort`: `ServersController.create` reads the used ports and inserts
   its row in two queries.
2. `RowOutlivesContainer`: the catch block of `create` removes the row although
   the cleanup failed, or came before the container.
3. `CreatedIsShownRunning`: `handleStatus` starts updates without waiting for
   earlier ones.
4. `ConnectionHeals`: the snapshot's nodes are read before an `await` and sent after
   the events that were broadcast meanwhile.
5. `OwnServersOnly`: a logout leaves the query cache, so the next user is shown the
   servers of the one before until the first snapshot.

Other properties are written so that they hold, and say by their exceptions what
the code leaves open:

* `ClashOnlyIfOverlapping`, `OrphansComeFromFailedCreates`: shared ports come from
  overlapping creations only, containers without a row from failed creations only.
* `RowHasContainer`: a server whose container is gone has a DELETE that Docker
  carried out and whose caller was not told of success.  The next DELETE is refused
  by the agent, so such a row and its port stay.
* `ComesBack`: an overtaken node stays out of the registry until its connection
  breaks, although its agent sees nothing wrong.
* `DriftIsExplained`: a browser is wrong only about what raced with a snapshot, a
  fetch or overlapping reports, and while its list of servers is one that an event made
  out of nothing.  A snapshot overwrites the events that were pushed while it was put
  together, which is place 4.  The list made out of nothing is a defect of its own: when
  React Query has dropped the list, because the page was one that does not use it for
  longer than `gcTime`, the next event about a server stores a list of that server or of
  none, and `staleTime: Infinity` keeps it from being fetched, although `useServers.ts`
  says that the socket keeps the list current (lines 6-7).
* `TabsAgree`: a tab that an event reached before it listened is out of date until the
  next event or its own next login or logout, although the listener is there for
  "another tab logged in/out" (`AuthProvider.tsx:24`).  The gap is between the first
  render of a new document, which reads storage, and its effects.
* `GapsAreExplained`, `RepeatsAreExplained`: the fetched buffer and the pushed lines
  are not merged.  A line that is pushed before the buffer arrives is lost, one
  that is in both appears twice.
* `SplitOnlyByRelink`: `loginWithGoogle` replaces the `googleId` of the account with
  that email, also when another identity is linked to it.
* `LiveSessionIsKept`: a 401 that is not about the stored token ends the session all
  the same: a wrong password in another tab, or a request of an older session.
* `CacheIsExplained`: from the first snapshot of a session on, only an answer to an
  older session's request brings another user's servers back.  Before it, the list is
  whatever the user before left behind, which is place 5.

### Fairness

* `ApiFairness`: a handler that has begun goes on when its query is answered, and
  a timer that is not cleared fires.  Node's event loop and PostgreSQL give both;
  nothing is assumed of agents, so `Answered` holds with a node that never
  answers.
* `NodeFairness` (only in `CalmSpec`): agents, Docker and the updates make
  progress.  It makes the counterexample of `lifecycle_shown` a real one: nothing
  is stuck, and the status is wrong for ever.
* `Fairness` of `AgentLink`: the client reconnects for ever (`reconnection: true`
  without a limit), each end notices a dead connection by its pings, and a socket
  that has data is read.

## 4. The proofs

The theorems hold for any set of servers, nodes and callers, any port range and
any templates.  Their assumptions are the named `ASSUME`s of the modules, which TLC
evaluates in the runs: ports and needs are natural numbers, `NoRow` is not a row,
servers and requests are different things; `Trusted` are nodes; the bounds of
`AgentLink`, `LogTail` and `WebSession` are natural numbers, and a log buffer has
room for a line; in `Dashboard`, a browser's token belongs to a user and `Absent` is
no status; in `Accounts`, a normalized email is a fixed point of `Normal` and `None`
is no value of any column; in `WebSession`, `None` is neither a user nor a number, and
the tabs whose cache is watched are tabs; in `CreateForm`, there
is a template, and the default of a field is one that its control can show: a word of
the list of a `select`, a number of the scale of a `range`, as it is in every
template of `templates.service.ts`.

`AgentLinkProofs` proves `TypeCorrect`, `EntryIsOpen` (`[]EntryHasOpenSocket`),
and `RefinesLink` (`Spec => RefinesNodeLink`),
for any number of nodes, connections and faults.  What a step means to `NodeLink`
depends on what the two ends know of a connection, so the invariant adds `Sockets`:
only a node's last connection can be open, and only while its agent is on it, and
the gateway gives up none that is not cut.  With it, the entry that
`DetectDisconnect` drops is never the live one, which is what makes `ApiNotices`
enough; and `Entry` (the entry's socket is open at the gateway, and its node has the
secret) makes `Reject` a step that touches no entry.  One lemma per action says
what `NodeLink` sees of it (`ConnectStep`, `ReceiveStep`, `DetectStep`, `CutStep`,
...); `StepIInv` puts them together.

`CreationProofs` proves what a new server is given.

*Host ports*: `TypeCorrect` and `ClashImpliesOverlap`.  `ClashOnlyIfOverlapping`
alone is not inductive: it says nothing of a creation that has picked its ports and
not stored them.  The invariant adds

* `RowIsStored`: a row is what its creation stored, and that creation is over;
* `SawIsDisjoint`: the rows a creation saw belong to creations that are over, and
  those that still exist have none of its ports.

`PickPorts` establishes `SawIsDisjoint` because what `LowestFree` returns is free
(`LowestFreeIsFree`); no later step can break it, because a row that was seen is
never stored again.

*The loop*: `LoopComputes` says what `allocate` returns for any ports in use and any
list of container ports, and `LoopAlwaysAgrees` (`[]LoopAgrees`) that this is what
the state machines take for granted.  The induction over the list goes by the least
exception: a set of numbers has a least member (`Least`), so what holds at 0 and
passes from n to n + 1 has no exception (`NoException`).  `LoopInv` is what is
known after the container ports met so far: their host ports are the lowest free
ones, and one each, or there were too few.  `LoopStep` is one iteration; it rests on
`OneMore`: the lowest free port beside the n lowest ones makes the n + 1 lowest.

*Settings*: `CreatedIsAsShown` and `DefaultsAlwaysAgree`, for any well-formed templates.
`FormInv` says of the form, and of the request it sent, that they hold for every field
with a default or a moved control the text `OnChange` writes for it, and no others
(`FilledIn`): for a default because
`DefaultToString` and `DefaultsFor` write what moving the control there would
(`DefaultAsMoved`).  `resolveEnv` then keeps that text (`ResolvesTo`), and the
control shows what was set (`ShownOnChange`).

`ServerLifecycleProofs` proves `TypeCorrect`, `SuccessIsTrue`
(`[]NoFalseSuccess`), `WaitersHavePromises` (`[]WaitersArePending`) and
`StatusWasTrue` (`[]StatusIsGrounded`), for any `Troubles`: with every loss, late
answer, refusal and restart the model has, and however many of them, including
reports and Docker calls that outlive their connection or agent.

`TypeOK` is inductive as it stands, because the type of a report ties its kind to
the verbs that have such a status.  The three safety properties speak of the ends
of a conversation and say nothing of what is on its way; the invariant `IInv` adds

* `HonestReports`: a closing status or an acknowledgement on the connection, in
  the agent's send buffer or in the pool's updates, and a job whose Docker call was
  answered, stand for a command that Docker carried out;
* `OwnPromises`: a promise in the map belongs to the handler that waits for it,
  so that settling it (`Settle`) lets the right call go on and no other;
* `StartedAfterCreate`: a creation only sends `start` once its `create` was
  carried out, which is what makes its success stand for both commands.

The history `performed` only grows, so what is honest stays honest
(`StaysHonest`): the argument does not depend on the order of the queues or on
what a fault empties.  `AgentSafe` shows that handleMessage reports nothing else,
`CreationProceeds` and `RequestProceeds` that an honest acknowledgement leads to
an honest success, and `FaultSafe` that a restart takes the promises away together
with those who wait for them.

`ServerRowsProofs` proves four results about the table of servers on top of these.

`RefinesPorts` is the refinement: `Spec => RefinesHostPorts`.  Each step of a creation
maps to the action of `HostPorts` with its name, a user's delete and the cleanup to
`RemoveRow`, the death of the control plane to `Crash`, everything else to a stutter
(`CreateRefines`, `RequestRefines`, `ArrivalRefines`, `FaultRefines`).  It needs
`IInv` only to know that a handler that goes on was waiting for the answer it got.
With it, `ClashOnlyIfOverlapping` is a theorem about the rows of the whole system.

`OrphansAreExplained` needs to know where a create command can still be.  Its
invariant `Books` says: what Docker was told to delete is removed and stays so
(`DeletedIsRemoved`); while a creation has not sent its command there is no
container, and nothing on the way to any agent that could make one (`EarlyIsFresh`);
an inserted creation has its row (`InsertedHasRow`); only a delete removes a row on
behalf of a user (`RemovingDeletes`); and a server without a row is one whose
creation failed, whose container was removed, or which never had one
(`RowlessIsExplained`).

`CreatedHasContainer` (`[]RowHasContainer`) has two halves.  Whatever goes wrong, a
container that is gone was deleted by somebody: `Trail` follows a command, sent or
carried out, back to a caller that had come far enough to send it, so that the delete
was a creation's own, which has given up, or a user's, and a successful DELETE of a
user takes the row along (`DeletedHasNoRow`).  When nothing can go wrong, no such
DELETE is left without success: `Calm` says that a user's command is in one
place only - on its way, being run, or answered (`SentOnce`, `RunOnce`,
`AnswersAreLast`), that whoever sent it still waits for it (`UnderwayIsAwaited`), and
that an error means that Docker did nothing.

`CalmRowsOutlive` is `RowOutlivesContainer` for `Troubles = {}`, the assumption under
which it is checked; the run `lifecycle_orphan` shows that it needs it.
Overlapping creations can share a port even then, so that Docker refuses the start
of one and its creation cleans up.  `Orderly` says why that is
harmless: every agent is within reach (`WithinReach`), a refused command has
nothing left to do (`Futile`), only a creation that waits for its create can still get a
container (`OnlyCreatingCreates`), and one that removes its row has none
(`GivenUpIsGone`).

`AccountsProofs` proves all four properties of `Accounts`, for any number of
overlapping calls.  What the handlers learn from a query is out of date at the next
one; the invariant says how far: a row never changes its email and never goes
(`RowInv`), so what a look-up by email found is still right when `Link` uses it
(`PhaseInv`); a Google identity stands in one row (`UniqueInv`, from the column); an
identity that got a token is still linked unless another took its place (`LinkInv`,
which gives `SplitOnlyByRelink`); and a row that stands in the way of an insert or a
link came from a call that was not over when this one began (`OverlapInv`, which
gives `FailureMeansOverlap`).

`DashboardProofs` proves `TypeCorrect`, `ServersArePrivate` (`[]OnlyOwnServers`) and
`RemovalsLast` (`RemovedStaysRemoved`), for any users, browsers and servers.  The
caches alone say too little: another user's server could be in a snapshot that is
being put together, in an event on the channel or in an answer that has not
arrived.  `Private` says the same of all four; `PushOwn` shows that a push to a room
keeps it, `UpdatedOwn` that `useDashboardSocket` does, and `Undisturbed` that a
browser nothing happens to stays private because a server never changes its owner.

`DriftAlwaysExplained` (`[]DriftIsExplained`) is about the cache a browser will have once
its channel is empty.  That is the reducer run over the channel, so the invariant
`Follows` has a function per position of it (`Ahead`): the cache at the end as a function
of the cache at this point.  Of each node and server these functions do one of three
plain things (`Plain`): they keep it, replace it, or change the status of what is
there.  `Expected` is what the last cache must show of a server at any moment - not
just when nothing is under way - and allows for the row and the push of one report
to be ahead of each other; `OneReport` says that this is all that can differ unless
reports overlapped, which is one of the doubts.  A fetch may be answered before or
after any of the events: `EitherOrder` shows that for plain functions
both end in what is expected, `FetchExpected` that what it read is.  A browser may have
dropped its list meanwhile, which a fetch that read it or a snapshot makes good; so
`Follows` is about the cache the browser would have if it had not (`Holds`), and that is
its own as soon as it holds a whole list again.

`LogTailProofs` proves `TypeCorrect`, `BufferIsAlwaysTail`, `GapsAlwaysExplained` and
`RepeatsAlwaysExplained`, for a buffer of any size and any number of lines, openings and
faults.  What makes the buffer a tail is `InOrder`: the stream is asked for once, so
the lines still on the wire come after everything that ever reached the API, a
restart included.  `Gaps` extends `GapsAreExplained` to the time between the moment
the response is read and the moment it arrives.  `Repeats` rests on `PushedOnce` (a
line is looked up, on the channel or delivered, once) and `FetchedOnce`: a line that is
shown and still due to be pushed was in the response, and one that is shown twice is
not due any more.

`WebSessionProofs` proves `TypeCorrect`, `TabsConverge` (`[]TabsAgree`),
`LiveSessionStays` and `CacheIsAlwaysExplained`, for any number of tabs.  The two keys
are written one after the other, so between the two writes what a tab reads may be one
user's token with another's name.  The invariant says that a tab between its two
writes finds its own token stored as long as no event is due to it (`LastWriter`), that
without a race there is one such tab and the keys fit when there is none
(`OneWriter`), that once all writes are done a tab with no event due, and none that
came before it listened, has seen what is stored (`UpToDate`), that the stored token
is the latest and accepted until the session is ended (`Accepted`), that a page's
socket is its session's once the effects of its document have run (`Mounted`), and
that the cache has that socket's user's servers only, from its snapshot on, unless an
answer came late (`Cached`).

Every safety property that a passing run checks is a theorem for all values of the
constants, and so are both refinements.  Only model-checked is liveness
(`ComesBack`, `Answered`): fairness and `ENABLED` are out of the prover's reach.  The
five violated properties are refuted by the instance TLC finds.

## 5. What is not modelled

* Module wiring, configuration, migrations, layout: no state whose order matters.
  The upsert of the templates at start is one write of constant data.
* The name of a server: no property depends on it.  `GET` handlers change nothing.
* Node preselection and navigation in the pages.
* The order in which log lines are shown, and what a line says.
* `register` on the agent side reads a file with the node's id; the id is an
  identity here.
* Request ids, and what an answer says besides success or failure.
* In a tab, the effects of a later render run with it: only a new document is cut
  between its first render and its effects.
* Reports of a dead connection arrive all or not at all, before those of the next.
* The server's own death inside its container: the agent never reports it.
* How a password is hashed, and how Google's signature is verified.

## 6. The plan, and what is left of it

The modules were written in the order `PortAllocator`, `HostPorts`, `NodeLink`,
`AgentLink`, `NodeAgent`, `ServerLifecycle`, `Dashboard`, `Templates`, `CreateForm`,
`LogTail`, `Accounts`, `WebSession`, and then the theorems of section 4, component
by component.  All safety properties are proved.  Worth adding next:

1. `runAction` of `ServerDetailPage`, which turns a rejection into a message: what a
   page shows after a failed delete is a hazard no property covers.
2. The status of a server after Docker refused a command: no report corrects it.
