---------------------------- MODULE MCHostPorts ----------------------------
(* Instances of HostPorts for TLC: the allocator's loop checked in every     *)
(* situation a creation can find it in, with the port lists of the templates *)
(* and others.                                                               *)
EXTENDS HostPorts, Templates

Symmetry == Permutations(Servers) \cup Permutations(Nodes)

\* The templates' lists and all shorter ones of the same container ports.
PortLists == {Minecraft.ports, SevenDays.ports} \cup BoundedSeq({25565, 26900, 26901}, 3)

(***************************************************************************)
(* PortAllocatorService.allocate walks a template's port list with a       *)
(* growing set of used ports.  Whatever rows it finds, it throws exactly   *)
(* when the range has too few free ports; otherwise every container port   *)
(* gets a host port of its own, protocols of one container port share it,  *)
(* and the host ports are the lowest free ones.                            *)
(***************************************************************************)
LoopAgrees ==
  \A s \in Servers, ports \in PortLists :
    create[s].pc = "reading" /\ Cardinality(ToSet(ports)) = create[s].need =>
      LET result == Allocate(UsedOn(create[s].node), ports)
          free   == LowestFree(UsedOn(create[s].node), create[s].need)
      IN  IF result.ok
          THEN /\ DOMAIN result.hostPort = ToSet(ports)
               /\ {result.hostPort[p] : p \in ToSet(ports)} \in free
          ELSE free = {}
=============================================================================
