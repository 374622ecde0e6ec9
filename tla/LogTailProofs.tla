--------------------------- MODULE LogTailProofs ---------------------------
(***************************************************************************)
(* Proofs about LogTail, for a buffer of any size, any number of lines,    *)
(* fetches and faults, and owners looked up in any order.                  *)
(***************************************************************************)
EXTENDS LogTail, SequenceTheorems, TLAPS

Shown == IF panel = Undefined THEN {} ELSE ToSet(panel)

Snapshot == IF fetch.pc = "answered" THEN ToSet(fetch.lines) ELSE {}

\* What reached the API, and what is still due to be pushed.
Reached == got \cup base \cup lookups \cup ToSet(channel) \cup Shown \cup Snapshot

Pending == ToSet(wire) \cup lookups \cup ToSet(channel)

Increasing(q) == \A i, j \in DOMAIN q : i < j => q[i] < q[j]

Distinct(q) == \A i, j \in DOMAIN q : i # j => q[i] # q[j]

Responses == [pc : {"none", "asked", "owned"}] \cup [pc : {"answered"}, lines : Seq(Lines)]

Typed ==
  /\ written \in 0 .. MaxLines /\ running \in BOOLEAN
  /\ follow \in {"none", "open", "ended"}
  /\ wire \in Seq(Lines) /\ logs \in Seq(Lines) /\ channel \in Seq(Lines)
  /\ {lookups, got, base, early} \subseteq SUBSET Lines
  /\ Len(logs) <= MaxLogLines
  /\ server \in {"kept", "deleted", "forgotten"} /\ joined \in BOOLEAN
  /\ panel # Undefined => panel \in Seq(Lines)
  /\ fetch \in Responses
  /\ opens \in 0 .. MaxOpens /\ faults \in 0 .. MaxFaults

(***************************************************************************)
(* The stream is asked for once, so a line comes over the wire once: what  *)
(* is on the wire is in the container's order, and after everything that   *)
(* has come so far, also before a restart of the API.                      *)
(***************************************************************************)
InOrder ==
  /\ follow = "none" => ToSet(wire) \cup Reached = {}
  /\ Reached \cup ToSet(wire) \subseteq 1 .. written
  /\ Increasing(wire)
  /\ \A n \in ToSet(wire) : \A l \in Reached : l < n

\* A line is looked up or on the channel, never both, and there once.
PushedOnce == Distinct(channel) /\ ToSet(channel) \cap lookups = {}

\* A panel fetches only while it shows nothing.
FetchedOnce ==
  /\ fetch.pc # "none" => panel = Undefined
  /\ fetch.pc = "answered" => Increasing(fetch.lines) /\ ToSet(fetch.lines) \subseteq base

(***************************************************************************)
(* A line that the panel shows and that is still due to be pushed was in   *)
(* the response; one that is shown twice is not due any more.              *)
(***************************************************************************)
Repeats ==
  panel # Undefined =>
    /\ \A i \in DOMAIN panel : panel[i] \in Pending => panel[i] \in base
    /\ \A i, j \in DOMAIN panel : i < j /\ panel[i] = panel[j] =>
         /\ panel[i] \in base \ Pending
         /\ \A k \in DOMAIN panel : panel[k] = panel[i] => k \in {i, j}

\* GapsAreExplained from the moment the response is read.
Gaps ==
  faults = 0 =>
    /\ joined
    /\ server = "kept" /\ (panel # Undefined \/ fetch.pc = "answered") =>
         got \ base \subseteq Shown \cup lookups \cup ToSet(channel) \cup early

IInv == Typed /\ InOrder /\ BufferIsTail /\ PushedOnce /\ FetchedOnce /\ Repeats /\ Gaps
-----------------------------------------------------------------------------
(* Sequences of lines *)

LEMMA AppendFacts ==
  ASSUME NEW S, NEW q \in Seq(S), NEW e \in S
  PROVE  /\ Append(q, e) \in Seq(S) /\ Len(Append(q, e)) = Len(q) + 1 /\ Len(q) \in Nat
         /\ DOMAIN q = 1 .. Len(q) /\ DOMAIN Append(q, e) = 1 .. Len(q) + 1
         /\ \A i \in DOMAIN q : Append(q, e)[i] = q[i]
         /\ Append(q, e)[Len(q) + 1] = e
         /\ ToSet(Append(q, e)) = ToSet(q) \cup {e}
<1>1. /\ Append(q, e) \in Seq(S) /\ Len(Append(q, e)) = Len(q) + 1 /\ Len(q) \in Nat
      /\ DOMAIN q = 1 .. Len(q) /\ DOMAIN Append(q, e) = 1 .. Len(q) + 1
      /\ \A i \in 1 .. Len(q) : Append(q, e)[i] = q[i]
      /\ Append(q, e)[Len(q) + 1] = e
  BY LenProperties, AppendProperties
<1>2. ToSet(Append(q, e)) = ToSet(q) \cup {e}
  <2>1. ASSUME NEW x \in ToSet(Append(q, e)) PROVE x \in ToSet(q) \cup {e}
    <3>1. PICK i \in 1 .. Len(q) + 1 : x = Append(q, e)[i]
      BY <1>1 DEF ToSet
    <3>2. i \in 1 .. Len(q) \/ i = Len(q) + 1
      BY <1>1
    <3> QED
      BY <1>1, <3>1, <3>2 DEF ToSet
  <2>2. ASSUME NEW x \in ToSet(q) PROVE x \in ToSet(Append(q, e))
    <3>1. PICK i \in 1 .. Len(q) : x = q[i]
      BY <1>1 DEF ToSet
    <3>2. i \in 1 .. Len(q) + 1
      BY <1>1
    <3> QED
      BY <1>1, <3>1, <3>2 DEF ToSet
  <2>3. e \in ToSet(Append(q, e))
    <3>1. Len(q) + 1 \in 1 .. Len(q) + 1
      BY <1>1
    <3> QED
      BY <1>1, <3>1 DEF ToSet
  <2> QED
    BY <2>1, <2>2, <2>3
<1> QED
  BY <1>1, <1>2

LEMMA TailFacts ==
  ASSUME NEW S, NEW q \in Seq(S), q # <<>>
  PROVE  /\ Tail(q) \in Seq(S) /\ Len(Tail(q)) = Len(q) - 1 /\ Len(q) \in Nat /\ Len(q) > 0
         /\ DOMAIN q = 1 .. Len(q) /\ DOMAIN Tail(q) = 1 .. Len(q) - 1
         /\ \A i \in DOMAIN Tail(q) : i + 1 \in DOMAIN q /\ Tail(q)[i] = q[i + 1]
         /\ Head(q) = q[1] /\ Head(q) \in S
         /\ ToSet(q) = ToSet(Tail(q)) \cup {Head(q)}
<1>1. /\ Tail(q) \in Seq(S) /\ Len(Tail(q)) = Len(q) - 1 /\ Len(q) \in Nat /\ Len(q) > 0
      /\ DOMAIN q = 1 .. Len(q) /\ DOMAIN Tail(q) = 1 .. Len(q) - 1
      /\ \A i \in 1 .. Len(q) - 1 : Tail(q)[i] = q[i + 1]
      /\ Head(q) = q[1] /\ q[1] \in S
  BY LenProperties, HeadTailProperties, EmptySeq
<1>2. \A i \in 1 .. Len(q) - 1 : i + 1 \in 1 .. Len(q)
  BY <1>1
<1>3. ToSet(q) \subseteq ToSet(Tail(q)) \cup {Head(q)}
  <2>1. SUFFICES ASSUME NEW i \in 1 .. Len(q), i # 1
                 PROVE  q[i] \in ToSet(Tail(q))
    BY <1>1 DEF ToSet
  <2>2. i - 1 \in 1 .. Len(q) - 1 /\ (i - 1) + 1 = i
    BY <1>1, <2>1
  <2> QED
    BY <1>1, <2>2 DEF ToSet
<1>4. ToSet(Tail(q)) \cup {Head(q)} \subseteq ToSet(q)
  <2>1. 1 \in 1 .. Len(q)
    BY <1>1
  <2> QED
    BY <1>1, <1>2, <2>1 DEF ToSet
<1> QED
  BY <1>1, <1>2, <1>3, <1>4

LEMMA SuffixFacts ==
  ASSUME NEW S, NEW q \in Seq(S), NEW k \in 0 .. Len(q)
  PROVE  /\ SubSeq(q, k + 1, Len(q)) \in Seq(S)
         /\ Len(SubSeq(q, k + 1, Len(q))) = Len(q) - k /\ Len(q) \in Nat
         /\ DOMAIN q = 1 .. Len(q) /\ DOMAIN SubSeq(q, k + 1, Len(q)) = 1 .. Len(q) - k
         /\ \A i \in 1 .. Len(q) - k : /\ i + k \in 1 .. Len(q)
                                     /\ SubSeq(q, k + 1, Len(q))[i] = q[i + k]
         /\ ToSet(SubSeq(q, k + 1, Len(q))) \subseteq ToSet(q)
<1>1. PICK n \in Nat : n = Len(q)
  BY LenProperties
<1>2. PICK t : t = SubSeq(q, k + 1, n)
  OBVIOUS
<1>3. k \in Nat /\ k + 1 \in Int /\ n \in Int /\ k <= n
  <2>1. k \in 0 .. n
    BY <1>1
  <2> QED
    BY <2>1
<1>4. \A i \in k + 1 .. n : q[i] \in S
  <2>1. \A i \in k + 1 .. n : i \in 1 .. n
    BY <1>3
  <2> QED
    BY <1>1, <2>1, ElementOfSeq
<1>5. /\ t \in Seq(S) /\ Len(t) = IF k + 1 <= n THEN n - (k + 1) + 1 ELSE 0
      /\ \A i \in 1 .. n - (k + 1) + 1 : t[i] = q[(k + 1) + i - 1]
  BY <1>2, <1>3, <1>4, SubSeqProperties
<1>6. Len(t) = n - k
  BY <1>3, <1>5
<1>7. DOMAIN t = 1 .. n - k /\ DOMAIN q = 1 .. n
  BY <1>1, <1>5, <1>6, LenProperties
<1>8. \A i \in 1 .. n - k : i + k \in 1 .. n /\ t[i] = q[i + k]
  <2>1. SUFFICES ASSUME NEW i \in 1 .. n - k PROVE i + k \in 1 .. n /\ t[i] = q[i + k]
    OBVIOUS
  <2>2. i \in 1 .. n - (k + 1) + 1 /\ (k + 1) + i - 1 = i + k /\ i + k \in 1 .. n
    BY <1>3
  <2> QED
    BY <1>5, <2>2
<1>9. ToSet(t) \subseteq ToSet(q)
  BY <1>7, <1>8 DEF ToSet
<1> QED
  BY <1>1, <1>2, <1>5, <1>6, <1>7, <1>8, <1>9

LEMMA IncreasingParts ==
  ASSUME NEW q \in Seq(Lines), Increasing(q)
  PROVE  /\ Distinct(q)
         /\ \A k \in 0 .. Len(q) : Increasing(SubSeq(q, k + 1, Len(q)))
         /\ q # <<>> => Increasing(Tail(q)) /\ \A l \in ToSet(Tail(q)) : Head(q) < l
         /\ \A l \in Lines : (\A n \in ToSet(q) : n < l) => Increasing(Append(q, l))
<1>1. Len(q) \in Nat /\ DOMAIN q = 1 .. Len(q) /\ \A i \in DOMAIN q : q[i] \in Nat
  <2>1. \A l \in Lines : l \in Nat
    BY DEF Lines
  <2> QED
    BY <2>1, LenProperties, ElementOfSeq
<1>2. Distinct(q)
  BY <1>1 DEF Increasing, Distinct
<1>3. ASSUME NEW k \in 0 .. Len(q) PROVE Increasing(SubSeq(q, k + 1, Len(q)))
  <2>1. PICK t : t = SubSeq(q, k + 1, Len(q))
    OBVIOUS
  <2>2. DOMAIN t = 1 .. Len(q) - k /\ \A i \in DOMAIN t : i + k \in DOMAIN q /\ t[i] = q[i + k]
    BY <2>1, SuffixFacts
  <2>3. k \in Int
    BY <1>1, <1>3
  <2> QED
    BY <1>1, <2>1, <2>2, <2>3 DEF Increasing
<1>4. ASSUME q # <<>> PROVE Increasing(Tail(q)) /\ \A l \in ToSet(Tail(q)) : Head(q) < l
  <2>1. /\ DOMAIN Tail(q) = 1 .. Len(q) - 1 /\ Head(q) = q[1] /\ Len(q) > 0
        /\ \A i \in DOMAIN Tail(q) : i + 1 \in DOMAIN q /\ Tail(q)[i] = q[i + 1]
    BY <1>4, TailFacts
  <2>2. Increasing(Tail(q))
    BY <1>1, <2>1 DEF Increasing
  <2>3. \A i \in DOMAIN Tail(q) : q[1] < Tail(q)[i]
    BY <1>1, <2>1 DEF Increasing
  <2> QED
    BY <2>1, <2>2, <2>3 DEF ToSet
<1>5. ASSUME NEW l \in Lines, \A n \in ToSet(q) : n < l PROVE Increasing(Append(q, l))
  <2>1. /\ DOMAIN Append(q, l) = 1 .. Len(q) + 1 /\ Append(q, l)[Len(q) + 1] = l
        /\ \A i \in DOMAIN q : Append(q, l)[i] = q[i]
    BY AppendFacts
  <2>2. \A i \in DOMAIN q : q[i] < l
    BY <1>5 DEF ToSet
  <2>3. ASSUME NEW i \in 1 .. Len(q) + 1, NEW j \in 1 .. Len(q) + 1, i < j
        PROVE  Append(q, l)[i] < Append(q, l)[j]
    <3>1. i \in DOMAIN q
      BY <1>1, <2>3
    <3>2. CASE j \in DOMAIN q
      BY <2>1, <2>3, <3>1, <3>2 DEF Increasing
    <3>3. CASE j = Len(q) + 1
      BY <2>1, <2>2, <3>1, <3>3
    <3> QED
      BY <1>1, <3>2, <3>3
  <2> QED
    BY <2>1, <2>3 DEF Increasing
<1> QED
  BY <1>2, <1>3, <1>4, <1>5

LEMMA LastOfFacts ==
  ASSUME NEW S, NEW q \in Seq(S), NEW n \in Nat
  PROVE  \E k \in 0 .. Len(q) :
           /\ LastOf(q, n) = SubSeq(q, k + 1, Len(q))
           /\ k = IF Len(q) <= n THEN 0 ELSE Len(q) - n
<1>1. Len(q) \in Nat
  BY LenProperties
<1>2. CASE Len(q) <= n
  <2>1. LastOf(q, n) = SubSeq(q, 0 + 1, Len(q))
    BY <1>2, SubSeqFull DEF LastOf
  <2> QED
    BY <1>1, <1>2, <2>1
<1>3. CASE ~(Len(q) <= n)
  <2>1. LastOf(q, n) = SubSeq(q, (Len(q) - n) + 1, Len(q)) /\ Len(q) - n \in 0 .. Len(q)
    BY <1>1, <1>3 DEF LastOf
  <2> QED
    BY <1>3, <2>1
<1> QED
  BY <1>2, <1>3

\* What streamLogs first sends of the past.
LEMMA PastLines ==
  ASSUME written \in 0 .. MaxLines
  PROVE  LET past == LastOf([n \in 1 .. written |-> n], TailLines) IN
         past \in Seq(Lines) /\ Increasing(past) /\ ToSet(past) \subseteq 1 .. written
<1> DEFINE all == [n \in 1 .. written |-> n]
           past == LastOf(all, TailLines)
<1>1. written \in Nat /\ 1 .. written \subseteq Lines /\ TailLines \in Nat
  BY BoundsAssumption, BufferAssumption DEF Lines
<1>2. all \in Seq(1 .. written) /\ all \in Seq(Lines)
  BY <1>1
<1>3. DOMAIN all = 1 .. written /\ \A n \in DOMAIN all : all[n] = n
  OBVIOUS
<1>4. Increasing(all) /\ ToSet(all) \subseteq 1 .. written
  BY <1>3 DEF Increasing, ToSet
<1> HIDE DEF all
<1>5. PICK k \in 0 .. Len(all) : past = SubSeq(all, k + 1, Len(all))
  BY <1>1, <1>2, LastOfFacts
<1>6. past \in Seq(Lines) /\ Increasing(past) /\ ToSet(past) \subseteq 1 .. written
  <2>1. past \in Seq(Lines) /\ ToSet(past) \subseteq ToSet(all)
    BY <1>2, <1>5, SuffixFacts
  <2>2. Increasing(past)
    BY <1>2, <1>4, <1>5, IncreasingParts
  <2> QED
    BY <1>4, <2>1, <2>2
<1> QED
  BY <1>6 DEF all

\* handleLog: what Pushed keeps of the buffer and what it drops.
LEMMA PushedFacts ==
  ASSUME logs \in Seq(Lines), Len(logs) <= MaxLogLines, Increasing(logs),
         NEW line \in Lines, \A n \in ToSet(logs) : n < line
  PROVE  /\ Pushed(line) \in Seq(Lines) /\ Len(Pushed(line)) <= MaxLogLines
         /\ Increasing(Pushed(line)) /\ line \in ToSet(Pushed(line))
         /\ ToSet(Pushed(line)) \subseteq ToSet(logs) \cup {line}
         /\ \/ /\ Len(logs) < MaxLogLines
               /\ Pushed(line) = Append(logs, line)
            \/ /\ Len(logs) = MaxLogLines /\ Len(Pushed(line)) = MaxLogLines
               /\ ToSet(logs) \ ToSet(Pushed(line)) = {logs[1]}
               /\ logs[1] < Pushed(line)[1]
<1>1. PICK q : q = Append(logs, line)
  OBVIOUS
<1>2. PICK n \in Nat : n = Len(logs)
  BY LenProperties
<1>3. /\ q \in Seq(Lines) /\ Len(q) = n + 1
      /\ ToSet(q) = ToSet(logs) \cup {line} /\ Increasing(q)
      /\ q[n + 1] = line /\ \A i \in 1 .. n : q[i] = logs[i]
      /\ DOMAIN q = 1 .. n + 1 /\ DOMAIN logs = 1 .. n
  BY <1>1, <1>2, AppendFacts, IncreasingParts
<1>4. MaxLogLines \in Nat /\ MaxLogLines > 0 /\ n <= MaxLogLines
  BY <1>2, BufferAssumption
<1>5. q # <<>>
  BY <1>3, EmptySeq
<1>6. CASE n < MaxLogLines
  <2>1. Pushed(line) = q
    BY <1>1, <1>3, <1>4, <1>6 DEF Pushed, LastOf
  <2>2. n + 1 <= MaxLogLines /\ line \in ToSet(q)
    BY <1>3, <1>4, <1>6
  <2> QED
    BY <1>1, <1>2, <1>3, <1>6, <2>1, <2>2
<1>7. CASE n = MaxLogLines
  <2>1. Pushed(line) = SubSeq(q, 2, n + 1)
    <3>1. ~(n + 1 <= MaxLogLines) /\ (n + 1) - MaxLogLines + 1 = 2
      BY <1>4, <1>7
    <3> QED
      BY <1>1, <1>3, <3>1 DEF Pushed, LastOf
  <2>2. PICK t : t = Tail(q)
    OBVIOUS
  <2>3. Pushed(line) = t
    BY <1>3, <1>5, <2>1, <2>2, TailIsSubSeq
  <2>4. /\ t \in Seq(Lines) /\ Len(t) = (n + 1) - 1 /\ DOMAIN t = 1 .. (n + 1) - 1
        /\ \A i \in DOMAIN t : t[i] = q[i + 1]
        /\ Head(q) = q[1] /\ ToSet(q) = ToSet(t) \cup {Head(q)}
        /\ Increasing(t) /\ \A l \in ToSet(t) : Head(q) < l
    BY <1>3, <1>5, <2>2, TailFacts, IncreasingParts
  <2>5. (n + 1) - 1 = n /\ 1 \in 1 .. n /\ n \in 1 .. n
    BY <1>4, <1>7
  <2>6. /\ q[1] = logs[1] /\ logs[1] \in Nat /\ logs[1] \in ToSet(logs)
        /\ t[1] \in ToSet(t) /\ t[n] = line /\ line \in ToSet(t)
    <3>1. q[1] = logs[1] /\ logs[1] \in Lines /\ logs[1] \in ToSet(logs)
      BY <1>2, <1>3, <2>5, ElementOfSeq DEF ToSet
    <3>2. \A l \in Lines : l \in Nat
      BY DEF Lines
    <3>3. t[1] \in ToSet(t) /\ t[n] = line /\ line \in ToSet(t)
      BY <1>3, <2>4, <2>5 DEF ToSet
    <3> QED
      BY <3>1, <3>2, <3>3
  <2>7. logs[1] \notin ToSet(t) /\ logs[1] < t[1]
    BY <2>4, <2>6
  <2>8. ToSet(logs) \ ToSet(t) = {logs[1]}
    BY <1>3, <2>4, <2>6, <2>7
  <2> QED
    BY <1>2, <1>3, <1>4, <1>7, <2>3, <2>4, <2>5, <2>6, <2>7, <2>8
<1>8. n < MaxLogLines \/ n = MaxLogLines
  BY <1>4
<1> QED
  BY <1>6, <1>7, <1>8

-----------------------------------------------------------------------------
LEMMA InitIInv == LogInit => IInv
<1> SUFFICES ASSUME LogInit PROVE IInv
  OBVIOUS
<1>1. ToSet(<<>>) = {} /\ DOMAIN <<>> = {} /\ \A S : <<>> \in Seq(S)
  BY EmptySeq DEF ToSet
<1>2. Typed
  BY <1>1, BoundsAssumption, BufferAssumption, EmptySeq DEF LogInit, Typed, Responses
<1>3. Shown = {} /\ Snapshot = {} /\ Reached = {}
  BY <1>1 DEF LogInit, Shown, Snapshot, Reached
<1> QED
  BY <1>1, <1>2, <1>3 DEF LogInit, IInv, InOrder, BufferIsTail, PushedOnce, FetchedOnce, Repeats,
    Gaps, Increasing, Distinct

LEMMA StepTyped == Typed /\ BufferIsTail /\ InOrder /\ [LogNext]_logVars => Typed'
<1> SUFFICES ASSUME Typed, BufferIsTail, InOrder, [LogNext]_logVars PROVE Typed'
  OBVIOUS
<1> USE DEF Typed, source, history, bounds, browser, logVars
<1>0. <<>> \in Seq(Lines) /\ Len(<<>>) <= MaxLogLines
  BY BufferAssumption, EmptySeq
<1>1. CASE Write
  <2>1. written' \in 0 .. MaxLines /\ written' \in Lines
    BY <1>1, BoundsAssumption DEF Write, Lines
  <2>2. wire' \in Seq(Lines)
    BY <1>1, <2>1, AppendFacts DEF Write
  <2> QED
    BY <1>1, <2>1, <2>2 DEF Write
<1>2. CASE StreamLogs
  <2>1. wire' \in Seq(Lines)
    BY <1>2, PastLines, ConcatProperties DEF StreamLogs
  <2> QED
    BY <1>2, <2>1 DEF StreamLogs
<1>3. CASE Halt \/ Resume
  BY <1>3 DEF Halt, Resume
<1>4. CASE Receive
  <2>1. wire' \in Seq(Lines) /\ Head(wire) \in Lines /\ Head(wire) \in ToSet(wire)
    BY <1>4, TailFacts DEF Receive
  <2>2. Increasing(logs) /\ \A n \in ToSet(logs) : n < Head(wire)
    BY <2>1 DEF BufferIsTail, InOrder, Increasing, Reached
  <2>3. logs' \in Seq(Lines) /\ Len(logs') <= MaxLogLines
    BY <1>4, <2>1, <2>2, PushedFacts DEF Receive
  <2> QED
    BY <1>4, <2>1, <2>3 DEF Receive
<1>5. CASE \E line \in lookups : Route(line)
  <2>1. PICK line \in lookups : Route(line)
    BY <1>5
  <2>2. channel' \in Seq(Lines)
    BY <2>1, AppendFacts DEF Route
  <2> QED
    BY <2>1, <2>2 DEF Route
<1>6. CASE DeleteRow \/ ForgetLogs
  BY <1>0, <1>6 DEF DeleteRow, ForgetLogs
<1>7. CASE Open
  BY <1>7, BoundsAssumption DEF Open, Responses
<1>8. CASE CheckOwner \/ GetLogs
  BY <1>8 DEF CheckOwner, GetLogs, Responses
<1>9. CASE FetchArrives
  BY <1>9 DEF FetchArrives, Responses
<1>10. CASE Deliver
  <2>1. channel' \in Seq(Lines) /\ Head(channel) \in Lines
    BY <1>10, TailFacts DEF Deliver
  <2>2. panel' # Undefined => panel' \in Seq(Lines)
    BY <1>10, <2>1, AppendFacts DEF Deliver, Appended
  <2> QED
    BY <1>10, <2>1, <2>2 DEF Deliver
<1>11. CASE Discard \/ Rejoin
  BY <1>11 DEF Discard, Rejoin
<1>12. CASE Fault
  <2>1. faults' \in 0 .. MaxFaults /\ opens' = opens
    BY <1>12, BoundsAssumption DEF Fault
  <2>2. CASE Cut
    <3>1. PICK k \in DOMAIN wire : wire' = SubSeq(wire, k + 1, Len(wire))
      BY <2>2 DEF Cut
    <3>2. k \in 0 .. Len(wire)
      BY <3>1, LenProperties
    <3>3. wire' \in Seq(Lines)
      BY <3>1, <3>2, SuffixFacts
    <3> QED
      BY <2>1, <2>2, <3>3 DEF Cut
  <2>3. CASE AgentRestart \/ Drop
    BY <1>0, <2>1, <2>3 DEF AgentRestart, Drop
  <2>4. CASE ApiRestart
    <3>1. wire' \in Seq(Lines)
      BY <2>4, SuffixFacts DEF ApiRestart
    <3>2. fetch' \in Responses
      BY <2>4 DEF ApiRestart, Responses
    <3> QED
      BY <1>0, <2>1, <2>4, <3>1, <3>2 DEF ApiRestart
  <2> QED
    BY <1>12, <2>2, <2>3, <2>4 DEF Fault
<1>13. CASE UNCHANGED logVars
  BY <1>13
<1> QED
  BY <1>1, <1>2, <1>3, <1>4, <1>5, <1>6, <1>7, <1>8, <1>9, <1>10, <1>11, <1>12, <1>13 DEF LogNext

\* Nothing new comes in, at either end of the wire.
LEMMA NothingNew ==
  ASSUME InOrder, follow' = "none" => follow = "none", written' = written,
         Increasing(wire'), ToSet(wire') \subseteq ToSet(wire), Reached' \subseteq Reached
  PROVE  InOrder'
BY DEF InOrder

LEMMA StepInOrder == Typed /\ BufferIsTail /\ InOrder /\ [LogNext]_logVars => InOrder'
<1> SUFFICES ASSUME Typed, BufferIsTail, InOrder, [LogNext]_logVars PROVE InOrder'
  OBVIOUS
<1> USE DEF source, history, bounds, browser, logVars
<1>0. ToSet(<<>>) = {} /\ Increasing(<<>>)
  BY EmptySeq DEF ToSet, Increasing
<1>1. wire \in Seq(Lines) /\ Increasing(wire)
  BY DEF Typed, InOrder
<1>2. ASSUME NEW k \in 0 .. Len(wire), wire' = SubSeq(wire, k + 1, Len(wire))
      PROVE  Increasing(wire') /\ ToSet(wire') \subseteq ToSet(wire)
  BY <1>1, <1>2, SuffixFacts, IncreasingParts
<1>3. CASE Write
  <2>1. written' = written + 1 /\ written \in Nat /\ written' \in Lines
    BY <1>3, BoundsAssumption DEF Write, Typed, Lines
  <2>2. Reached' = Reached
    BY <1>3 DEF Write, Reached, Shown, Snapshot
  <2>3. CASE follow = "open"
    <3>1. wire' = Append(wire, written') /\ follow' = "open"
      BY <1>3, <2>3 DEF Write
    <3>2. \A n \in ToSet(wire) \cup Reached : n < written'
      BY <2>1 DEF InOrder
    <3>3. Increasing(wire') /\ ToSet(wire') = ToSet(wire) \cup {written'}
      BY <1>1, <2>1, <3>1, <3>2, AppendFacts, IncreasingParts
    <3> QED
      BY <2>1, <2>2, <3>1, <3>2, <3>3 DEF InOrder
  <2>4. CASE follow # "open"
    <3>1. wire' = wire /\ follow' = follow
      BY <1>3, <2>4 DEF Write
    <3> QED
      BY <2>1, <2>2, <3>1 DEF InOrder
  <2> QED
    BY <2>3, <2>4
<1>4. CASE StreamLogs
  <2>1. PICK past : past = LastOf([n \in 1 .. written |-> n], TailLines)
    OBVIOUS
  <2>2. past \in Seq(Lines) /\ Increasing(past) /\ ToSet(past) \subseteq 1 .. written
    BY <2>1, PastLines DEF Typed
  <2>3. ToSet(wire) = {} /\ Reached = {}
    BY <1>4 DEF StreamLogs, InOrder
  <2>4. wire = <<>>
    <3>1. ASSUME wire # <<>> PROVE Head(wire) \in ToSet(wire)
      BY <1>1, <3>1, TailFacts
    <3> QED
      BY <2>3, <3>1
  <2>5. wire' = past /\ written' = written /\ follow' = "open"
    BY <1>4, <2>1, <2>2, <2>4, ConcatEmptySeq DEF StreamLogs
  <2>6. Reached' = {}
    BY <1>4, <2>3 DEF StreamLogs, Reached, Shown, Snapshot
  <2> QED
    BY <2>2, <2>5, <2>6 DEF InOrder
<1>5. CASE Receive
  <2>1. /\ ToSet(wire) = ToSet(wire') \cup {Head(wire)} /\ Increasing(wire')
        /\ \A n \in ToSet(wire') : Head(wire) < n
    BY <1>1, <1>5, TailFacts, IncreasingParts DEF Receive
  <2>2. Reached' = Reached \cup {Head(wire)}
    BY <1>5 DEF Receive, Reached, Shown, Snapshot
  <2>3. written' = written /\ follow' = follow
    BY <1>5 DEF Receive
  <2> QED
    BY <2>1, <2>2, <2>3 DEF InOrder
<1>6. CASE \E line \in lookups : Route(line)
  <2>1. PICK line \in lookups : Route(line)
    BY <1>6
  <2>2. ToSet(channel') \subseteq ToSet(channel) \cup {line}
    BY <2>1, AppendFacts DEF Route, Typed
  <2>3. Reached' \subseteq Reached
    BY <2>1, <2>2 DEF Route, Reached, Shown, Snapshot
  <2> QED
    BY <1>1, <2>1, <2>3, NothingNew DEF Route
<1>7. CASE Halt \/ Resume \/ DeleteRow \/ ForgetLogs \/ Open \/ CheckOwner \/ Discard \/ Rejoin
  <2>1. Reached' \subseteq Reached
    BY <1>7 DEF Halt, Resume, DeleteRow, ForgetLogs, Open, CheckOwner, Discard, Rejoin,
      Reached, Shown, Snapshot
  <2> QED
    BY <1>1, <1>7, <2>1, NothingNew DEF Halt, Resume, DeleteRow, ForgetLogs, Open, CheckOwner,
      Discard, Rejoin
<1>8. CASE GetLogs
  <2>1. Snapshot' = ToSet(logs)
    BY <1>8 DEF GetLogs, Snapshot
  <2>2. Reached' \subseteq Reached
    BY <1>8, <2>1 DEF GetLogs, Reached, Shown, BufferIsTail
  <2> QED
    BY <1>1, <1>8, <2>2, NothingNew DEF GetLogs
<1>9. CASE FetchArrives
  <2>1. Shown' \subseteq Snapshot /\ Snapshot' = {}
    BY <1>9 DEF FetchArrives, Shown, Snapshot
  <2>2. Reached' \subseteq Reached
    BY <1>9, <2>1 DEF FetchArrives, Reached
  <2> QED
    BY <1>1, <1>9, <2>2, NothingNew DEF FetchArrives
<1>10. CASE Deliver
  <2>1. ToSet(channel) = ToSet(channel') \cup {Head(channel)} /\ Head(channel) \in Lines
    BY <1>10, TailFacts DEF Deliver, Typed
  <2>2. Shown' \subseteq Shown \cup {Head(channel)}
    BY <1>10, <2>1, AppendFacts DEF Deliver, Appended, Shown, Typed
  <2>3. Reached' \subseteq Reached
    BY <1>10, <2>1, <2>2 DEF Deliver, Reached, Snapshot
  <2> QED
    BY <1>1, <1>10, <2>3, NothingNew DEF Deliver
<1>11. CASE Fault
  <2>1. CASE Cut
    <3>1. PICK k \in DOMAIN wire : wire' = SubSeq(wire, k + 1, Len(wire))
      BY <2>1 DEF Cut
    <3>2. k \in 0 .. Len(wire)
      BY <1>1, <3>1, LenProperties
    <3>3. Reached' = Reached
      BY <2>1 DEF Cut, Reached, Shown, Snapshot
    <3> QED
      BY <1>2, <2>1, <3>1, <3>2, <3>3, NothingNew DEF Cut
  <2>2. CASE AgentRestart
    <3>1. Reached' = Reached
      BY <2>2 DEF AgentRestart, Reached, Shown, Snapshot
    <3> QED
      BY <1>0, <2>2, <3>1, NothingNew DEF AgentRestart
  <2>3. CASE Drop
    <3>1. Reached' \subseteq Reached
      BY <1>0, <2>3 DEF Drop, Reached, Shown, Snapshot
    <3> QED
      BY <1>1, <2>3, <3>1, NothingNew DEF Drop
  <2>4. CASE ApiRestart
    <3>1. Reached' \subseteq Reached
      BY <1>0, <2>4 DEF ApiRestart, Reached, Shown, Snapshot
    <3>2. Increasing(wire') /\ ToSet(wire') \subseteq ToSet(wire)
      BY <1>2, <2>4 DEF ApiRestart
    <3> QED
      BY <2>4, <3>1, <3>2, NothingNew DEF ApiRestart
  <2> QED
    BY <1>11, <2>1, <2>2, <2>3, <2>4 DEF Fault
<1>12. CASE UNCHANGED logVars
  <2>1. Reached' = Reached
    BY <1>12 DEF Reached, Shown, Snapshot
  <2> QED
    BY <1>1, <1>12, <2>1, NothingNew
<1> QED
  BY <1>3, <1>4, <1>5, <1>6, <1>7, <1>8, <1>9, <1>10, <1>11, <1>12 DEF LogNext

LEMMA StepBuffer == Typed /\ InOrder /\ BufferIsTail /\ [LogNext]_logVars => BufferIsTail'
<1> SUFFICES ASSUME Typed, InOrder, BufferIsTail, [LogNext]_logVars PROVE BufferIsTail'
  OBVIOUS
<1> USE DEF source, history, bounds, browser, logVars
<1>1. CASE Receive
  <2>1. PICK line : line = Head(wire)
    OBVIOUS
  <2>2. wire \in Seq(Lines) /\ wire # <<>> /\ logs \in Seq(Lines) /\ Len(logs) <= MaxLogLines
    BY <1>1 DEF Receive, Typed
  <2>3. line \in Lines /\ line \in ToSet(wire)
    BY <2>1, <2>2, TailFacts
  <2>4. logs' = Pushed(line) /\ got' = got \cup {line}
    BY <1>1, <2>1 DEF Receive
  <2>5. Increasing(logs) /\ \A n \in got : n < line
    BY <2>3 DEF BufferIsTail, Increasing, InOrder, Reached
  <2>6. \A n \in ToSet(logs) : n < line
    BY <2>5 DEF BufferIsTail
  <2>7. /\ logs' \in Seq(Lines) /\ Increasing(logs') /\ line \in ToSet(logs')
        /\ ToSet(logs') \subseteq ToSet(logs) \cup {line}
        /\ \/ Len(logs) < MaxLogLines /\ logs' = Append(logs, line)
           \/ /\ Len(logs) = MaxLogLines /\ Len(logs') = MaxLogLines
              /\ ToSet(logs) \ ToSet(logs') = {logs[1]}
              /\ logs[1] < logs'[1]
    BY <2>2, <2>3, <2>4, <2>5, <2>6, PushedFacts
  <2>8. ASSUME NEW l \in got' \ ToSet(logs') PROVE Len(logs') = MaxLogLines /\ l < logs'[1]
    <3>1. l \in got /\ l # line
      BY <2>4, <2>7, <2>8
    <3>2. CASE Len(logs) < MaxLogLines /\ logs' = Append(logs, line)
      <4>1. l \notin ToSet(logs)
        BY <2>2, <2>3, <2>8, <3>2, AppendFacts
      <4>2. Len(logs) \in Nat /\ Len(logs) = MaxLogLines
        BY <2>2, <3>1, <4>1, LenProperties DEF BufferIsTail
      <4> QED
        BY <3>2, <4>2
    <3>3. CASE /\ Len(logs) = MaxLogLines /\ Len(logs') = MaxLogLines
               /\ ToSet(logs) \ ToSet(logs') = {logs[1]}
               /\ logs[1] < logs'[1]
      <4>1. l = logs[1] \/ l \notin ToSet(logs)
        BY <2>8, <3>3
      <4>2. l = logs[1] \/ l < logs[1]
        BY <3>1, <4>1 DEF BufferIsTail
      <4>3. Len(logs) \in 1 .. Len(logs) /\ Len(logs') \in 1 .. Len(logs')
        BY <2>2, <2>7, <3>3, BufferAssumption
      <4>4. 1 \in 1 .. Len(logs) /\ 1 \in 1 .. Len(logs')
        BY <4>3
      <4>5. logs[1] \in Lines /\ logs'[1] \in Lines
        BY <2>2, <2>7, <4>4, ElementOfSeq
      <4>6. l \in Lines
        BY <3>1 DEF Typed
      <4> QED
        BY <3>3, <4>2, <4>5, <4>6 DEF Lines
    <3> QED
      BY <2>7, <3>2, <3>3
  <2>9. ToSet(logs') \subseteq got'
    BY <2>4, <2>7 DEF BufferIsTail
  <2> QED
    BY <2>7, <2>8, <2>9 DEF BufferIsTail, Increasing
<1>2. CASE ForgetLogs \/ (Fault /\ ApiRestart)
  <2>1. logs' = <<>> /\ got' = {}
    BY <1>2 DEF ForgetLogs, ApiRestart
  <2>2. DOMAIN logs' = {} /\ ToSet(logs') = {}
    BY <2>1 DEF ToSet
  <2> QED
    BY <2>1, <2>2 DEF BufferIsTail
<1>3. CASE UNCHANGED <<logs, got>>
  BY <1>3 DEF BufferIsTail
<1> QED
  BY <1>1, <1>2, <1>3 DEF LogNext, Write, StreamLogs, Halt, Resume, Route, DeleteRow, Open, CheckOwner,
    GetLogs, FetchArrives, Deliver, Discard, Rejoin, Fault, Cut, AgentRestart, Drop

LEMMA StepPushed == Typed /\ InOrder /\ PushedOnce /\ [LogNext]_logVars => PushedOnce'
<1> SUFFICES ASSUME Typed, InOrder, PushedOnce, [LogNext]_logVars PROVE PushedOnce'
  OBVIOUS
<1> USE DEF source, history, bounds, browser, logVars
<1>1. CASE Receive
  <2>1. Head(wire) \in ToSet(wire)
    BY <1>1, TailFacts DEF Receive, Typed
  <2>2. Head(wire) \notin ToSet(channel) /\ channel' = channel /\ lookups' = lookups \cup {Head(wire)}
    <3>1. \A l \in ToSet(channel) : l < Head(wire) /\ l \in Lines
      BY <2>1 DEF InOrder, Reached, Typed, ToSet
    <3> QED
      BY <1>1, <3>1 DEF Receive, Lines
  <2> QED
    BY <2>2 DEF PushedOnce
<1>2. CASE \E line \in lookups : Route(line)
  <2>1. PICK line \in lookups : Route(line)
    BY <1>2
  <2>2. CASE channel' = channel
    BY <2>1, <2>2 DEF Route, PushedOnce
  <2>3. CASE channel' = Append(channel, line)
    <3>1. /\ ToSet(channel') = ToSet(channel) \cup {line} /\ Len(channel) \in Nat
          /\ DOMAIN channel' = 1 .. Len(channel) + 1 /\ DOMAIN channel = 1 .. Len(channel)
          /\ channel'[Len(channel) + 1] = line /\ \A i \in DOMAIN channel : channel'[i] = channel[i]
      BY <2>1, <2>3, AppendFacts DEF Typed
    <3>2. \A i \in DOMAIN channel : channel[i] # line
      BY <2>1 DEF PushedOnce, ToSet
    <3>3. \A i \in DOMAIN channel' : i \in DOMAIN channel \/ i = Len(channel) + 1
      BY <3>1
    <3>4. Distinct(channel')
      BY <3>1, <3>2, <3>3 DEF PushedOnce, Distinct
    <3> QED
      BY <2>1, <3>1, <3>4 DEF PushedOnce, Route
  <2> QED
    BY <2>1, <2>2, <2>3 DEF Route
<1>3. CASE Deliver
  <2>1. /\ DOMAIN channel = 1 .. Len(channel) /\ Len(channel) \in Nat
        /\ \A i \in DOMAIN channel' : i + 1 \in DOMAIN channel /\ channel'[i] = channel[i + 1]
        /\ DOMAIN channel' = 1 .. Len(channel) - 1 /\ ToSet(channel') \subseteq ToSet(channel)
    BY <1>3, TailFacts DEF Deliver, Typed
  <2>2. \A i, j \in DOMAIN channel' : i # j => i + 1 # j + 1
    BY <2>1
  <2>3. Distinct(channel')
    BY <2>1, <2>2 DEF PushedOnce, Distinct
  <2> QED
    BY <1>3, <2>1, <2>3 DEF PushedOnce, Deliver
<1>4. CASE Fault /\ (Drop \/ ApiRestart)
  <2>1. channel' = <<>>
    BY <1>4 DEF Drop, ApiRestart
  <2>2. DOMAIN channel' = {} /\ ToSet(channel') = {}
    BY <2>1 DEF ToSet
  <2> QED
    BY <2>2 DEF PushedOnce, Distinct
<1>5. CASE UNCHANGED <<channel, lookups>>
  BY <1>5 DEF PushedOnce
<1> QED
  BY <1>1, <1>2, <1>3, <1>4, <1>5 DEF LogNext, Write, StreamLogs, Halt, Resume, DeleteRow, ForgetLogs,
    Open, CheckOwner, GetLogs, FetchArrives, Discard, Rejoin, Fault, Cut, AgentRestart

LEMMA StepFetched == Typed /\ BufferIsTail /\ FetchedOnce /\ [LogNext]_logVars => FetchedOnce'
<1> SUFFICES ASSUME Typed, BufferIsTail, FetchedOnce, [LogNext]_logVars PROVE FetchedOnce'
  OBVIOUS
<1> USE DEF source, history, bounds, browser, logVars
<1>1. CASE Open \/ CheckOwner \/ FetchArrives
  BY <1>1 DEF Open, CheckOwner, FetchArrives, FetchedOnce
<1>2. CASE GetLogs
  BY <1>2 DEF GetLogs, FetchedOnce, BufferIsTail, Increasing
<1>3. CASE Deliver
  BY <1>3 DEF Deliver, Appended, FetchedOnce
<1>4. CASE Discard
  BY <1>4 DEF Discard, FetchedOnce
<1>5. CASE Fault /\ ApiRestart
  BY <1>5 DEF ApiRestart, FetchedOnce
<1>6. CASE UNCHANGED <<fetch, panel, base>>
  BY <1>6 DEF FetchedOnce
<1> QED
  BY <1>1, <1>2, <1>3, <1>4, <1>5, <1>6 DEF LogNext, Write, StreamLogs, Halt, Resume, Receive, Route,
    DeleteRow, ForgetLogs, Rejoin, Fault, Cut, AgentRestart, Drop

\* Nothing of what is shown becomes due again.
LEMMA NothingDueAgain ==
  ASSUME Repeats, panel' = panel, base' = base,
         panel # Undefined => \A i \in DOMAIN panel : panel[i] \in Pending' => panel[i] \in Pending
  PROVE  Repeats'
BY DEF Repeats

\* A pushed line is appended: it is due no more, and was shown before only by the response.
LEMMA DeliverRepeats ==
  ASSUME Typed, InOrder, PushedOnce, Repeats, Deliver, panel # Undefined
  PROVE  Repeats'
<1>1. PICK l : l = Head(channel)
  OBVIOUS
<1>2. PICK n \in Nat : n = Len(panel)
  BY LenProperties DEF Typed
<1>3. /\ channel \in Seq(Lines) /\ channel # <<>> /\ panel \in Seq(Lines)
      /\ wire' = wire /\ lookups' = lookups /\ channel' = Tail(channel) /\ base' = base
  BY DEF Deliver, Typed, source, history, bounds, browser
<1>4. l \in Lines /\ l \in ToSet(channel) /\ ToSet(channel') \subseteq ToSet(channel)
  BY <1>1, <1>3, TailFacts
<1>5. /\ DOMAIN panel = 1 .. n /\ DOMAIN panel' = 1 .. n + 1 /\ panel'[n + 1] = l
      /\ \A i \in DOMAIN panel : panel'[i] = panel[i]
  BY <1>1, <1>2, <1>3, <1>4, AppendFacts DEF Deliver, Appended
<1>6. l \in Pending /\ Pending' \subseteq Pending
  BY <1>3, <1>4 DEF Pending
<1>7. l \notin Pending'
  <2>1. l \notin ToSet(channel')
    <3>1. /\ DOMAIN channel = 1 .. Len(channel) /\ Len(channel) \in Nat /\ Len(channel) > 0
          /\ \A i \in DOMAIN channel' : i + 1 \in DOMAIN channel /\ channel'[i] = channel[i + 1]
          /\ DOMAIN channel' = 1 .. Len(channel) - 1 /\ l = channel[1]
      BY <1>1, <1>3, TailFacts
    <3>2. 1 \in DOMAIN channel /\ \A i \in DOMAIN channel' : i + 1 # 1
      BY <3>1
    <3>3. \A i \in DOMAIN channel' : channel'[i] # l
      BY <3>1, <3>2 DEF PushedOnce, Distinct
    <3> QED
      BY <3>3 DEF ToSet
  <2>2. l \notin lookups
    BY <1>4 DEF PushedOnce
  <2>3. l \notin ToSet(wire)
    <3>1. \A m \in ToSet(wire) : l < m
      BY <1>4 DEF InOrder, Reached
    <3> QED
      BY <1>4, <3>1 DEF Lines
  <2> QED
    BY <1>3, <2>1, <2>2, <2>3 DEF Pending
<1>8. \A i \in DOMAIN panel' : i \in DOMAIN panel \/ i = n + 1
  BY <1>5
<1>9. \A i \in DOMAIN panel' : panel'[i] \in Pending' => panel'[i] \in base
  BY <1>5, <1>6, <1>7, <1>8 DEF Repeats
<1>10. ASSUME NEW i \in DOMAIN panel', NEW j \in DOMAIN panel', i < j, panel'[i] = panel'[j]
       PROVE  /\ panel'[i] \in base \ Pending'
              /\ \A k \in DOMAIN panel' : panel'[k] = panel'[i] => k \in {i, j}
  <2>1. i \in DOMAIN panel
    BY <1>5, <1>10
  <2>2. CASE j \in DOMAIN panel
    <3>1. panel[i] = panel[j]
      BY <1>5, <1>10, <2>1, <2>2
    <3>2. panel[i] \in base \ Pending /\ \A k \in DOMAIN panel : panel[k] = panel[i] => k \in {i, j}
      BY <1>10, <2>1, <2>2, <3>1 DEF Repeats
    <3> QED
      BY <1>5, <1>6, <1>8, <2>1, <3>2
  <2>3. CASE j = n + 1
    <3>1. panel[i] = l
      BY <1>5, <1>10, <2>1, <2>3
    <3>2. \A k \in DOMAIN panel : panel[k] = l => k = i
      <4>1. SUFFICES ASSUME NEW k \in DOMAIN panel, panel[k] = l, k < i \/ i < k PROVE FALSE
        BY <1>5, <2>1
      <4> QED
        BY <1>6, <2>1, <3>1, <4>1 DEF Repeats
    <3>3. panel[i] \in base
      BY <1>6, <2>1, <3>1 DEF Repeats
    <3> QED
      BY <1>5, <1>7, <1>8, <2>1, <2>3, <3>1, <3>2, <3>3
  <2> QED
    BY <1>8, <2>2, <2>3
<1> QED
  BY <1>3, <1>9, <1>10 DEF Repeats

LEMMA StepRepeats ==
  Typed /\ InOrder /\ PushedOnce /\ FetchedOnce /\ Repeats /\ [LogNext]_logVars => Repeats'
<1> SUFFICES ASSUME Typed, InOrder, PushedOnce, FetchedOnce, Repeats, [LogNext]_logVars PROVE Repeats'
  OBVIOUS
<1> USE DEF source, history, bounds, browser, logVars
<1>0. wire \in Seq(Lines) /\ channel \in Seq(Lines)
  BY DEF Typed
<1>1. CASE Write
  <2>1. written' \notin Reached /\ ToSet(wire') \subseteq ToSet(wire) \cup {written'}
    <3>1. written' = written + 1 /\ written' \in Lines /\ written \in Nat
      BY <1>1, BoundsAssumption DEF Write, Typed, Lines
    <3>2. written' \notin 1 .. written
      BY <3>1
    <3>3. Reached \subseteq 1 .. written
      BY DEF InOrder
    <3>4. ToSet(wire') \subseteq ToSet(wire) \cup {written'}
      BY <1>0, <1>1, <3>1, AppendFacts DEF Write
    <3> QED
      BY <3>2, <3>3, <3>4
  <2>2. panel # Undefined => \A i \in DOMAIN panel : panel[i] \in Reached
    BY DEF Reached, Shown, ToSet
  <2> QED
    BY <1>1, <2>1, <2>2, NothingDueAgain DEF Write, Pending
<1>2. CASE StreamLogs
  <2>1. Reached = {}
    BY <1>2 DEF StreamLogs, InOrder
  <2>2. panel # Undefined => DOMAIN panel = {}
    BY <2>1 DEF Reached, Shown, ToSet
  <2> QED
    BY <1>2, <2>2, NothingDueAgain DEF StreamLogs
<1>3. CASE Receive
  <2>1. ToSet(wire) = ToSet(wire') \cup {Head(wire)}
    BY <1>0, <1>3, TailFacts DEF Receive
  <2> QED
    BY <1>3, <2>1, NothingDueAgain DEF Receive, Pending
<1>4. CASE \E line \in lookups : Route(line)
  <2>1. PICK line \in lookups : Route(line)
    BY <1>4
  <2>2. ToSet(channel') \subseteq ToSet(channel) \cup {line}
    BY <1>0, <2>1, AppendFacts DEF Route, Typed
  <2> QED
    BY <2>1, <2>2, NothingDueAgain DEF Route, Pending
<1>5. CASE Halt \/ Resume \/ DeleteRow \/ ForgetLogs \/ Open \/ CheckOwner \/ Rejoin
  BY <1>5, NothingDueAgain DEF Halt, Resume, DeleteRow, ForgetLogs, Open, CheckOwner, Rejoin, Pending
<1>6. CASE GetLogs
  BY <1>6 DEF GetLogs, FetchedOnce, Repeats
<1>7. CASE FetchArrives
  <2>1. panel' = fetch.lines /\ base' = base /\ fetch.lines \in Seq(Lines)
    BY <1>7 DEF FetchArrives, Typed, Responses
  <2>2. Distinct(fetch.lines) /\ ToSet(fetch.lines) \subseteq base
    BY <1>7, <2>1, IncreasingParts DEF FetchArrives, FetchedOnce
  <2>3. \A i \in DOMAIN panel' : panel'[i] \in base
    BY <2>1, <2>2 DEF ToSet
  <2>4. DOMAIN panel' \subseteq Nat
    BY <2>1, LenProperties
  <2>5. \A i, j \in DOMAIN panel' : i < j => panel'[i] # panel'[j]
    BY <2>1, <2>2, <2>4 DEF Distinct
  <2> QED
    BY <2>1, <2>3, <2>5 DEF Repeats
<1>8. CASE Deliver
  <2>1. CASE panel = Undefined
    BY <1>8, <2>1 DEF Deliver, Appended, Repeats
  <2> QED
    BY <1>8, <2>1, DeliverRepeats
<1>9. CASE Discard
  BY <1>9 DEF Discard, Repeats
<1>10. CASE Fault
  <2>1. ToSet(<<>>) = {}
    BY DEF ToSet
  <2>2. ASSUME NEW k \in 0 .. Len(wire), wire' = SubSeq(wire, k + 1, Len(wire))
        PROVE  ToSet(wire') \subseteq ToSet(wire)
    BY <1>0, <2>2, SuffixFacts
  <2>3. ToSet(wire') \subseteq ToSet(wire)
    <3>1. CASE Cut
      <4>1. PICK k \in DOMAIN wire : wire' = SubSeq(wire, k + 1, Len(wire))
        BY <3>1 DEF Cut
      <4>2. k \in 0 .. Len(wire)
        BY <1>0, <4>1, LenProperties
      <4> QED
        BY <2>2, <4>1, <4>2
    <3>2. CASE AgentRestart \/ Drop
      BY <2>1, <3>2 DEF AgentRestart, Drop
    <3>3. CASE ApiRestart
      BY <2>2, <3>3 DEF ApiRestart
    <3> QED
      BY <1>10, <3>1, <3>2, <3>3 DEF Fault
  <2>4. /\ ToSet(channel') \subseteq ToSet(channel) /\ lookups' \subseteq lookups
        /\ panel' = panel /\ base' = base
    BY <1>10, <2>1 DEF Fault, Cut, AgentRestart, Drop, ApiRestart
  <2> QED
    BY <2>3, <2>4, NothingDueAgain DEF Pending
<1>11. CASE UNCHANGED logVars
  BY <1>11, NothingDueAgain DEF Pending
<1> QED
  BY <1>1, <1>2, <1>3, <1>4, <1>5, <1>6, <1>7, <1>8, <1>9, <1>10, <1>11 DEF LogNext

LEMMA StepGaps == Typed /\ FetchedOnce /\ Gaps /\ [LogNext]_logVars => Gaps'
<1> SUFFICES ASSUME Typed, FetchedOnce, Gaps, [LogNext]_logVars PROVE Gaps'
  OBVIOUS
<1> USE DEF source, history, bounds, browser, logVars
<1>1. CASE Receive
  BY <1>1 DEF Receive, Gaps, Shown
<1>2. CASE \E line \in lookups : Route(line)
  <2>1. PICK line \in lookups : Route(line)
    BY <1>2
  <2>2. server = "kept" /\ joined => ToSet(channel') = ToSet(channel) \cup {line}
    BY <2>1, AppendFacts DEF Route, Typed
  <2> QED
    BY <2>1, <2>2 DEF Route, Gaps, Shown
<1>3. CASE Write \/ StreamLogs \/ Halt \/ Resume \/ DeleteRow \/ ForgetLogs \/ Rejoin
  BY <1>3 DEF Write, StreamLogs, Halt, Resume, DeleteRow, ForgetLogs, Rejoin, Gaps, Shown
<1>4. CASE Open \/ CheckOwner
  BY <1>4 DEF Open, CheckOwner, FetchedOnce, Gaps, Shown
<1>5. CASE GetLogs
  BY <1>5 DEF GetLogs, Gaps
<1>6. CASE FetchArrives
  BY <1>6 DEF FetchArrives, FetchedOnce, Gaps, Shown
<1>7. CASE Deliver
  <2>1. ToSet(channel) = ToSet(channel') \cup {Head(channel)} /\ Head(channel) \in Lines
    BY <1>7, TailFacts DEF Deliver, Typed
  <2>2. CASE panel = Undefined
    BY <1>7, <2>1, <2>2 DEF Deliver, Appended, Gaps, Shown
  <2>3. CASE panel # Undefined
    <3>1. ToSet(panel') = ToSet(panel) \cup {Head(channel)}
      BY <1>7, <2>1, <2>3, AppendFacts DEF Deliver, Appended, Typed
    <3>2. fetch.pc = "none" /\ fetch' = fetch
      BY <1>7, <2>3 DEF Deliver, FetchedOnce
    <3> QED
      BY <1>7, <2>1, <2>3, <3>1, <3>2 DEF Deliver, Gaps, Shown
  <2> QED
    BY <2>2, <2>3
<1>8. CASE Discard
  BY <1>8 DEF Discard, FetchedOnce, Gaps
<1>9. CASE Fault
  <2>1. faults' # 0
    BY <1>9 DEF Fault, Typed
  <2> QED
    BY <2>1 DEF Gaps
<1>10. CASE UNCHANGED logVars
  BY <1>10 DEF Gaps, Shown
<1> QED
  BY <1>1, <1>2, <1>3, <1>4, <1>5, <1>6, <1>7, <1>8, <1>9, <1>10 DEF LogNext

LEMMA StepIInv == IInv /\ [LogNext]_logVars => IInv'
BY StepTyped, StepInOrder, StepBuffer, StepPushed, StepFetched, StepRepeats, StepGaps DEF IInv

-----------------------------------------------------------------------------
(***************************************************************************)
(* The log buffer, the responses and the panel hold lines the container    *)
(* wrote, and the buffer never exceeds MAX_LOG_LINES.                      *)
(***************************************************************************)
THEOREM TypeCorrect == LogSpec => []LogTypeOK
<1>1. IInv => LogTypeOK
  <2>1. \A q \in Seq(Lines) : ToSet(q) \subseteq Lines
    BY LenProperties, ElementOfSeq DEF ToSet
  <2> QED
    BY <2>1 DEF IInv, Typed, LogTypeOK, Responses
<1> QED
  BY <1>1, InitIInv, StepIInv, PTL DEF LogSpec

(***************************************************************************)
(* handleLog keeps the last MAX_LOG_LINES lines of what came since the     *)
(* buffer was last empty, in the container's order, whatever is cut off    *)
(* the wire and whenever the API restarts.                                 *)
(***************************************************************************)
THEOREM BufferIsAlwaysTail == LogSpec => []BufferIsTail
<1>1. IInv => BufferIsTail
  BY DEF IInv
<1> QED
  BY <1>1, InitIInv, StepIInv, PTL DEF LogSpec

(***************************************************************************)
(* While nothing breaks, a panel that is shown misses of the lines that    *)
(* came after its data was read only those pushed before it arrived.       *)
(***************************************************************************)
THEOREM GapsAlwaysExplained == LogSpec => []GapsAreExplained
<1>1. IInv => GapsAreExplained
  BY DEF IInv, Gaps, GapsAreExplained, Shown
<1> QED
  BY <1>1, InitIInv, StepIInv, PTL DEF LogSpec

(***************************************************************************)
(* A line is shown at most twice, and twice only if the fetched buffer     *)
(* held it while its own push was under way.                               *)
(***************************************************************************)
THEOREM RepeatsAlwaysExplained == LogSpec => []RepeatsAreExplained
<1>1. IInv => RepeatsAreExplained
  BY DEF IInv, Repeats, RepeatsAreExplained
<1> QED
  BY <1>1, InitIInv, StepIInv, PTL DEF LogSpec
=============================================================================
