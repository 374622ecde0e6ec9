--------------------------- MODULE PortAllocator ---------------------------
(***************************************************************************)
(* The host port algorithm of PortAllocatorService.  A template lists the  *)
(* container ports it needs, with repetitions (7 Days to Die lists 26900   *)
(* for tcp and again for udp); the service walks that list and gives every *)
(* container port it has not met yet the first host port of the range that *)
(* is not in use.                                                          *)
(*                                                                         *)
(* Allocate is that loop.  LowestFree describes its result without a loop: *)
(* the host ports handed out for `need` different container ports are the  *)
(* `need` lowest free ones.  The state machines of this project use        *)
(* LowestFree; LoopAgrees of MCHostPorts says that the two agree.          *)
(***************************************************************************)
EXTENDS Integers, FiniteSets, SequencesExt

CONSTANTS RangeStart,   \* PORT_RANGE_START
          RangeEnd      \* PORT_RANGE_END

ASSUME RangeAssumption == RangeStart \in Nat /\ RangeEnd \in Nat

HostRange == RangeStart .. RangeEnd

FirstFree(used) ==
  CHOOSE p \in HostRange \ used : \A q \in HostRange \ used : p <= q

(***************************************************************************)
(* The loop's state: `used` grows with every port handed out, `hostPort`   *)
(* remembers the choice per container port, `ok` is FALSE once firstFree   *)
(* has thrown because the range is exhausted.                              *)
(***************************************************************************)
LoopStart(used) == [ok |-> TRUE, used |-> used, hostPort |-> <<>>]

LoopBodyForgetsUsed(st, port) ==
  IF ~st.ok \/ port \in DOMAIN st.hostPort THEN st
  ELSE IF HostRange \subseteq st.used THEN [st EXCEPT !.ok = FALSE]
  ELSE [st EXCEPT !.hostPort = @ @@ (port :> FirstFree(st.used))]

LoopBody(st, port) ==
  IF ~st.ok \/ port \in DOMAIN st.hostPort THEN st
  ELSE IF HostRange \subseteq st.used THEN [st EXCEPT !.ok = FALSE]
  ELSE LET p == FirstFree(st.used)
       IN  [ok |-> TRUE, used |-> st.used \cup {p},
            hostPort |-> [c \in DOMAIN st.hostPort \cup {port} |->
                            IF c = port THEN p ELSE st.hostPort[c]]]

Allocate(used, ports) ==
  LET state[n \in 0 .. Len(ports)] ==
        IF n = 0 THEN LoopStart(used) ELSE LoopBody(state[n - 1], ports[n])
  IN  state[Len(ports)]

(***************************************************************************)
(* The possible results of allocating `need` host ports: one set, or none  *)
(* when the free part of the range is too small (BadRequestException).     *)
(***************************************************************************)
LowestFreePastEnd(used, need) ==
  LET free == (RangeStart .. RangeEnd + 1) \ used
  IN  {P \in SUBSET free : /\ Cardinality(P) = need
                           /\ \A p \in P, q \in free \ P : p < q}

LowestFree(used, need) ==
  LET free == HostRange \ used
  IN  {P \in SUBSET free : /\ Cardinality(P) = need
                           /\ \A p \in P, q \in free \ P : p < q}
=============================================================================
