---------------------------- MODULE MCDashboard ----------------------------
(* Instances of Dashboard for TLC: one browser, and servers of its user or *)
(* of another one.                                                         *)
EXTENDS Dashboard, TLC

CONSTANTS alice, bob, b1

BrowserUser == b1 :> alice

\* No page fetches anything: all a browser shows was pushed to it.
PushOnly == Init /\ [][Next /\ UNCHANGED fetch]_vars
=============================================================================
