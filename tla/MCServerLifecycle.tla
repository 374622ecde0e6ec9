------------------------- MODULE MCServerLifecycle -------------------------
(* Instances of ServerLifecycle for TLC. *)
EXTENDS ServerLifecycle, TLC

\* Servers and requests that behave alike.
Symmetry == Permutations(Servers) \cup Permutations(Requests)

\* Only one verb, to keep the graph of a liveness check small.
DeleteInit == Init /\ \A r \in Requests : request[r].verb = "delete"

DeleteSpec == DeleteInit /\ [][Next]_vars /\ ApiFairness
=============================================================================
