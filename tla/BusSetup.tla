------------------------------ MODULE BusSetup -------------------------------
(***************************************************************************)
(* How the members of a bus find each other: setupBus, run at the same     *)
(* time by every member.  A member listens, sleeps "for them all to get    *)
(* going", dials its targets one after the other and sleeps again.  A dial *)
(* is synchronous: it fails when the peer does not listen yet, and then    *)
(* checkstat ends the whole process of the caller.                         *)
(*                                                                         *)
(* The members are threads of one process (performance/bus.cpp) or         *)
(* processes of their own (bus.cpp): OneProcess says which.                *)
(***************************************************************************)
EXTENDS BusMesh

CONSTANT OneProcess

ASSUME OneProcessAssumption == OneProcess \in BOOLEAN

VARIABLES
  stage,      \* where each member is in setupBus
  pending,    \* the peers each member has still to dial
  links,      \* the connections that are up: <<dialer, listener>>
  punctual    \* does every sleep last as long as what it waits for?
              \* The code cannot know: it is chosen once, and both cases are explored.

setupVars == <<stage, pending, links, punctual>>

Stages == {"opened", "settling", "dialing", "ready", "exited"}

SetupTypeOK ==
  /\ stage \in [Members -> Stages]
  /\ pending \in [Members -> SUBSET Members]
  /\ links \subseteq Members \X Members
  /\ punctual \in BOOLEAN

SetupInit ==
  /\ stage = [m \in Members |-> "opened"]
  /\ pending = [m \in Members |-> DialTargets(m)]
  /\ links = {}
  /\ punctual \in BOOLEAN

------------------------------------------------------------------------------

Listening(m) == stage[m] \notin {"opened", "exited"}

Pipes(i, j) == {<<i, j>>, <<j, i>>} \cap links

\* The members that go down together when m calls exit.  What they had dialed
\* goes with them, and so do their connections.
Housemates(m) == IF OneProcess THEN Members ELSE {m}

Exit(m) ==
  /\ stage' = [k \in Members |-> IF k \in Housemates(m) THEN "exited" ELSE stage[k]]
  /\ pending' = [k \in Members |-> IF k \in Housemates(m) THEN DialTargets(k) ELSE pending[k]]
  /\ links' = {l \in links : l[1] \notin Housemates(m) /\ l[2] \notin Housemates(m)}
  /\ UNCHANGED punctual

Listen(m) ==
  /\ stage[m] = "opened"
  /\ stage' = [stage EXCEPT ![m] = "settling"]
  /\ UNCHANGED <<pending, links, punctual>>

\* A setupBus without its sleeps waits for nothing.
NoWait == TRUE

\* What sleep(2) is there for: "Wait for the bus to get populated".
Populated == \A k \in Members : stage[k] # "opened"

\* What the last sleep is there for: "Ensure everyone else is dialed".
EveryoneDialed ==
  \A k \in Members : stage[k] \notin {"opened", "settling"} /\ (stage[k] = "dialing" => pending[k] = {})

Settle(m) ==
  /\ stage[m] = "settling"
  /\ punctual => Populated
  /\ stage' = [stage EXCEPT ![m] = "dialing"]
  /\ UNCHANGED <<pending, links, punctual>>

NextTarget(m, p) == p \in pending[m] /\ \A q \in pending[m] : p <= q

Dial(m) ==
  /\ stage[m] = "dialing"
  /\ \E p \in pending[m] :
       /\ NextTarget(m, p)
       /\ Listening(p)
       /\ links' = links \cup {<<m, p>>}
       /\ pending' = [pending EXCEPT ![m] = @ \ {p}]
  /\ UNCHANGED <<stage, punctual>>

DialRefused(m) ==
  /\ stage[m] = "dialing"
  /\ \E p \in pending[m] : NextTarget(m, p) /\ ~Listening(p)
  /\ Exit(m)

\* The dial loop and the last sleep are over.
FinishSetup(m) ==
  /\ stage[m] = "dialing"
  /\ pending[m] = {}
  /\ punctual => EveryoneDialed
  /\ stage' = [stage EXCEPT ![m] = "ready"]
  /\ UNCHANGED <<pending, links, punctual>>

SetupStep(m) ==
  \/ Listen(m)
  \/ Settle(m)
  \/ Dial(m)
  \/ DialRefused(m)
  \/ FinishSetup(m)

------------------------------------------------------------------------------

\* No pair of members is ever joined by two connections, whoever dials first
\* and however the dials of setupBus interleave: a second one would deliver
\* every message of the pair twice.
OneLinkPerPair ==
  \A i, j \in Members : <<i, j>> \in links => i # j /\ <<j, i>> \notin links

==============================================================================
