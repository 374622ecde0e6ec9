------------------------------ MODULE MCParts ------------------------------
(* Four parts of the system for TLC, in one instance: host ports, accounts,  *)
(* the creation form and the log of a server.  They share no state, so a     *)
(* behaviour has the steps of one of them; the others stay as they begin.    *)
EXTENDS MCHostPorts, CreateForm, Accounts, LogTail

CONSTANTS ann, Ann, bob   \* emails as typed: two ways to write one, and another

NormalizeEmail == (ann :> ann) @@ (Ann :> ann) @@ (bob :> bob)

VARIABLE part   \* the one that takes steps

\* Of a part that takes no steps, one beginning is enough.
First(S) == CHOOSE x \in S : TRUE

InitParts ==
  /\ part \in {"ports", "accounts", "form", "log"}
  /\ Init
  /\ part # "ports" =>
       \A s \in Servers : create[s].node = First(Nodes) /\ create[s].need = First(Needs)
  /\ input \in [Calls -> IF part = "accounts" THEN Input ELSE {First(Input)}]
  /\ AccountsInit
  /\ FormInit
  /\ LogInit

NextParts ==
  /\ UNCHANGED part
  /\ \/ part = "ports" /\ Next /\ UNCHANGED <<accountVars, formVars, logVars>>
     \/ part = "accounts" /\ AccountsNext /\ UNCHANGED <<hostVars, formVars, logVars>>
     \/ part = "form" /\ FormNext /\ UNCHANGED <<hostVars, accountVars, logVars>>
     \/ part = "log" /\ LogNext /\ UNCHANGED <<hostVars, accountVars, formVars>>

SpecParts ==
  InitParts /\ [][NextParts]_<<part, hostVars, accountVars, formVars, logVars>>

SymmetryOfCalls == Permutations(Calls)

\* While a request is under way, and after it was refused, only one control is moved or
\* the template changed, and only where the user had moved few: the texts do not depend
\* on each other.
FewEdits ==
  page \in {"pending", "refused"} /\ <<template, asked>> # <<sent.template, sent.asked>> =>
    /\ Cardinality(DOMAIN sent.asked) <= 1
    /\ Cardinality({k \in DOMAIN asked :
                      k \notin DOMAIN sent.asked \/ asked[k] # sent.asked[k]}) <= 1
=============================================================================
