----------------------------- MODULE MCWebSession -----------------------------
(* An instance of WebSession for TLC, which looks at one of two like users.   *)
EXTENDS WebSession, TLC

Symmetry == Permutations(Users)

\* The tabs that are not watched are there to log in and out under the others: all
\* their pages are alike, they do not log in over their own session or load a new
\* document, and they have no request in flight but one login.
OthersStayOpen ==
  \A t \in Tabs \ Watched :
    /\ page[t] = (IF state[t].user = None THEN "login" ELSE "list") /\ ~mounting[t]
    /\ sent[t] = {}
    /\ login[t] \in {NoLogins} \cup {[NoLogins EXCEPT ![u] = 1] : u \in Users}
=============================================================================
