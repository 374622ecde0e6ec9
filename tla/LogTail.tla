------------------------------ MODULE LogTail ------------------------------
(***************************************************************************)
(* The log of one game server on its way to a log panel.  The agent        *)
(* follows the container's output after streamLogs and sends every line;   *)
(* ServersService keeps the last ones in memory; DashboardGateway looks up *)
(* the owner of every line, each in a query of its own, and pushes it.     *)
(* The panel fetches the buffer once and appends what is pushed to it.     *)
(*                                                                         *)
(* Line n is the nth line the container wrote.  MaxLines, MaxOpens and     *)
(* MaxFaults bound the lines written, the fetches and the faults.          *)
(***************************************************************************)
EXTENDS Naturals, Sequences, FiniteSetsExt, SequencesExt

CONSTANTS MaxLogLines,  \* MAX_LOG_LINES
          TailLines,    \* how much of the past `docker logs` is asked for
          Undefined,    \* no entry in the query cache
          MaxLines, MaxOpens, MaxFaults

ASSUME BufferAssumption == MaxLogLines \in Nat \ {0} /\ TailLines \in Nat
ASSUME BoundsAssumption == {MaxLines, MaxOpens, MaxFaults} \subseteq Nat

Lines == 1 .. MaxLines

VARIABLES
  written,  \* how many lines the container wrote
  running,  \* whether the container runs
  follow,   \* the agent's log stream: "none", "open", "ended"
  wire,     \* lines between the agent and the API, in order
  server,   \* its row: "kept", "deleted", "forgotten" once remove() is done
  logs,     \* ServersService.logs; <<>> also stands for no entry
  lookups,  \* onServerLog: lines whose owner is being looked up
  joined,   \* whether the browser's socket is in its user's room
  channel,  \* pushes on their way to the browser, in order
  panel,    \* the browser's query cache for ['server-logs', id]
  fetch,    \* GET /servers/:id/logs: "none", "asked", "owned", or the response
  got,      \* history: the lines the API received since `logs` was last empty
  base,     \* history: what `got` was when the panel's response was read
  early,    \* history: lines pushed to the browser before the response arrived
  opens, faults

source == <<written, running, follow>>
history == <<got, base, early>>
bounds == <<opens, faults>>
browser == <<joined, channel, panel>>
logVars == <<source, wire, server, logs, lookups, browser, fetch, history, bounds>>

LogInit ==
  /\ written = 0 /\ running = TRUE /\ follow = "none"
  /\ wire = <<>> /\ lookups = {}
  /\ server = "kept" /\ logs = <<>>
  /\ joined = TRUE /\ channel = <<>>
  /\ panel = Undefined /\ fetch = [pc |-> "none"]
  /\ got = {} /\ base = {} /\ early = {}
  /\ opens = 0 /\ faults = 0

LastOf(seq, n) == IF Len(seq) <= n THEN seq ELSE SubSeq(seq, Len(seq) - n + 1, Len(seq))

-----------------------------------------------------------------------------
(* The container and the agent that follows it *)

Write ==
  /\ running /\ written < MaxLines
  /\ written' = written + 1
  /\ wire' = IF follow = "open" THEN Append(wire, written') ELSE wire
  /\ UNCHANGED <<running, follow, server, logs, lookups, browser, fetch, history, bounds>>

StreamLogsAgain ==
  /\ running
  /\ follow' = "open"
  /\ wire' = wire \o LastOf([n \in 1 .. written |-> n], TailLines)
  /\ UNCHANGED <<written, running, server, logs, lookups, browser, fetch, history, bounds>>

\* command.streamLogs, sent only when the server is created.
StreamLogs ==
  /\ running /\ follow = "none"
  /\ follow' = "open"
  /\ wire' = wire \o LastOf([n \in 1 .. written |-> n], TailLines)
  /\ UNCHANGED <<written, running, server, logs, lookups, browser, fetch, history, bounds>>

\* The container stops and starts again; the stream ends with the first stop.
Halt ==
  /\ running /\ follow # "none"
  /\ running' = FALSE /\ follow' = "ended"
  /\ UNCHANGED <<written, wire, server, logs, lookups, browser, fetch, history, bounds>>

Resume ==
  /\ ~running
  /\ running' = TRUE
  /\ UNCHANGED <<written, follow, wire, server, logs, lookups, browser, fetch, history, bounds>>

-----------------------------------------------------------------------------
(* The API *)

PushedUnbounded(line) == Append(logs, line)

PushedOneShort(line) ==
  IF Len(logs) + 1 >= MaxLogLines THEN Tail(Append(logs, line)) ELSE Append(logs, line)

\* handleLog: the buffer keeps the last MAX_LOG_LINES lines.
Pushed(line) == LastOf(Append(logs, line), MaxLogLines)

\* container.log reaches handleLog and onServerLog, whatever became of the row.
Receive ==
  /\ wire # <<>>
  /\ wire' = Tail(wire)
  /\ logs' = Pushed(Head(wire))
  /\ lookups' = lookups \cup {Head(wire)}
  /\ got' = got \cup {Head(wire)}
  /\ UNCHANGED <<source, server, browser, fetch, base, early, bounds>>

\* The query for the owner of a line returns, in any order.
Route(line) ==
  /\ line \in lookups
  /\ lookups' = lookups \ {line}
  /\ channel' = IF server = "kept" /\ joined THEN Append(channel, line) ELSE channel
  /\ UNCHANGED <<source, wire, server, logs, joined, panel, fetch, history, bounds>>

\* ServersService.remove: the row first, then the buffer.
DeleteRow ==
  /\ server = "kept"
  /\ server' = "deleted"
  /\ UNCHANGED <<source, wire, logs, lookups, browser, fetch, history, bounds>>

ForgetLogs ==
  /\ server = "deleted"
  /\ server' = "forgotten"
  /\ logs' = <<>> /\ got' = {}
  /\ UNCHANGED <<source, wire, lookups, browser, fetch, base, early, bounds>>

-----------------------------------------------------------------------------
(* The panel *)

\* ServerLogs is mounted and nothing is cached.
Open ==
  /\ panel = Undefined /\ fetch.pc = "none" /\ opens < MaxOpens
  /\ fetch' = [pc |-> "asked"]
  /\ opens' = opens + 1
  /\ UNCHANGED <<source, wire, server, logs, lookups, browser, history, faults>>

\* getOwnedOrThrow returns the row, or there is none any more.
CheckOwner ==
  /\ fetch.pc = "asked"
  /\ fetch' = [pc |-> IF server = "kept" THEN "owned" ELSE "none"]
  /\ UNCHANGED <<source, wire, server, logs, lookups, browser, history, bounds>>

GetLogs ==
  /\ fetch.pc = "owned"
  /\ fetch' = [pc |-> "answered", lines |-> logs]
  /\ base' = got /\ early' = {}
  /\ UNCHANGED <<source, wire, server, logs, lookups, browser, got, bounds>>

FetchArrives ==
  /\ fetch.pc = "answered"
  /\ panel' = fetch.lines
  /\ fetch' = [pc |-> "none"]
  /\ UNCHANGED <<source, wire, server, logs, lookups, joined, channel, history, bounds>>

AppendedIfNewer(line) ==
  IF panel = Undefined \/ (panel # <<>> /\ line <= panel[Len(panel)]) THEN panel
  ELSE Append(panel, line)

\* server.log: appended only if the panel's data is there.
Appended(line) == IF panel = Undefined THEN Undefined ELSE Append(panel, line)

Deliver ==
  /\ channel # <<>>
  /\ channel' = Tail(channel)
  /\ panel' = Appended(Head(channel))
  /\ early' = IF panel = Undefined THEN early \cup {Head(channel)} ELSE early
  /\ UNCHANGED <<source, wire, server, logs, lookups, joined, fetch, got, base, bounds>>

\* The panel was closed long enough for its data to be dropped.
Discard ==
  /\ panel # Undefined
  /\ panel' = Undefined
  /\ base' = {} /\ early' = {}
  /\ UNCHANGED <<source, wire, server, logs, lookups, joined, channel, fetch, got, bounds>>

-----------------------------------------------------------------------------
(* Faults *)

\* The agent's connection breaks: what was in flight is lost, what waits in
\* the agent's send buffer is sent after the reconnection.
Cut ==
  /\ \E k \in DOMAIN wire : wire' = SubSeq(wire, k + 1, Len(wire))
  /\ UNCHANGED <<source, server, logs, lookups, browser, fetch, history>>

\* Nobody asks a new agent process to follow the log.
AgentRestart ==
  /\ follow = "open"
  /\ follow' = "ended" /\ wire' = <<>>
  /\ UNCHANGED <<written, running, server, logs, lookups, browser, fetch, history>>

Rejoin ==
  /\ ~joined
  /\ joined' = TRUE
  /\ UNCHANGED <<source, wire, server, logs, lookups, channel, panel, fetch, history, bounds>>

\* The browser's connection breaks; what is pushed until it is back is lost.
Drop ==
  /\ joined
  /\ joined' = FALSE /\ channel' = <<>>
  /\ UNCHANGED <<source, wire, server, logs, lookups, panel, fetch, history>>

\* The API dies: the buffer, the lookups, both connections and the request.
ApiRestart ==
  /\ \E k \in 0 .. Len(wire) : wire' = SubSeq(wire, k + 1, Len(wire))
  /\ logs' = <<>> /\ got' = {} /\ lookups' = {}
  /\ joined' = FALSE /\ channel' = <<>>
  /\ server' = IF server = "deleted" THEN "forgotten" ELSE server
  /\ fetch' = IF fetch.pc = "answered" THEN fetch ELSE [pc |-> "none"]
  /\ UNCHANGED <<source, panel, base, early>>

Fault ==
  /\ faults < MaxFaults
  /\ faults' = faults + 1
  /\ UNCHANGED opens
  /\ Cut \/ AgentRestart \/ Drop \/ ApiRestart

LogNext ==
  \/ Write \/ StreamLogs \/ Halt \/ Resume
  \/ Receive \/ (\E line \in lookups : Route(line)) \/ DeleteRow \/ ForgetLogs
  \/ Open \/ CheckOwner \/ GetLogs \/ FetchArrives \/ Deliver \/ Discard
  \/ Rejoin \/ Fault

LogSpec == LogInit /\ [][LogNext]_logVars

-----------------------------------------------------------------------------
LogTypeOK ==
  /\ written \in 0 .. MaxLines /\ running \in BOOLEAN
  /\ follow \in {"none", "open", "ended"}
  /\ {ToSet(wire), ToSet(logs), ToSet(channel), lookups, got, base, early} \subseteq SUBSET Lines
  /\ Len(logs) <= MaxLogLines
  /\ server \in {"kept", "deleted", "forgotten"} /\ joined \in BOOLEAN
  /\ panel # Undefined => ToSet(panel) \subseteq Lines
  /\ fetch.pc \in {"none", "asked", "owned", "answered"}
  /\ opens \in 0 .. MaxOpens /\ faults \in 0 .. MaxFaults

(***************************************************************************)
(* The buffer of handleLog is the tail of what arrived: the last           *)
(* MAX_LOG_LINES lines that came since the API started or forgot the       *)
(* server, each once and in the order the container wrote them.  Of a      *)
(* removed server it only holds lines that came after remove() was done.   *)
(***************************************************************************)
BufferIsTail ==
  /\ \A i, j \in DOMAIN logs : i < j => logs[i] < logs[j]
  /\ ToSet(logs) \subseteq got
  /\ \A l \in got \ ToSet(logs) : Len(logs) = MaxLogLines /\ l < logs[1]

(***************************************************************************)
(* A panel that is shown misses no line that reached the API after its     *)
(* data was read, except those pushed before that data arrived (nothing    *)
(* merges them in), and those of a connection that broke: the snapshot     *)
(* that heals the lists does not carry log lines.                          *)
(***************************************************************************)
GapsAreExplained ==
  panel # Undefined /\ faults = 0 /\ server = "kept" =>
    got \ base \subseteq ToSet(panel) \cup lookups \cup ToSet(channel) \cup early

(***************************************************************************)
(* A line is shown twice only if it was in the fetched buffer while its    *)
(* own push was still under way.                                           *)
(***************************************************************************)
RepeatsAreExplained ==
  panel # Undefined =>
    \A i, j \in DOMAIN panel : i < j /\ panel[i] = panel[j] =>
      /\ panel[i] \in base
      /\ \A k \in DOMAIN panel : panel[k] = panel[i] => k \in {i, j}
=============================================================================
