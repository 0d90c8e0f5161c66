------------------------------ MODULE BusTraffic ------------------------------
(***************************************************************************)
(* The messages of bus.cpp, apart from how members find and send them: who *)
(* has sent how many, what waits, what was reported, and what a member may *)
(* rely on when it reports them.  A message is the n-th of a run of its    *)
(* sender.                                                                 *)
(***************************************************************************)
EXTENDS BusMesh, Sequences

VARIABLES
  sent,      \* how many of its messages each member has sent
  inbox,     \* what waits for each member from each sender, oldest first
  got,       \* the messages each member has reported since it was started
  run        \* how often each member was started again

busVars == <<sent, inbox, got, run>>

\* What waits for a member is never a message of its own, and never one that
\* it has reported already or that was sent before one it has reported, by
\* the same run of the sender; nor do two that wait stand in the wrong order.
\* It holds whatever members are stopped, started again and connected again.
Newer(msg, old) == (msg.from = old.from /\ msg.run = old.run) => old.n < msg.n

OnceInOrder ==
  \A m, k \in Members : \A i \in DOMAIN inbox[m][k] :
    /\ k # m
    /\ \A old \in got[m] : Newer(inbox[m][k][i], old)
    /\ \A j \in 1 .. i - 1 : Newer(inbox[m][k][i], inbox[m][k][j])

===============================================================================
