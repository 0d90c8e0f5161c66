------------------------------- MODULE BusMesh -------------------------------
(***************************************************************************)
(* The shape of the bus: which member dials which.  Every member listens   *)
(* on its own URI; the dial rules below, which setupBus of bus.cpp and of  *)
(* performance/bus.cpp share, are meant to give a full mesh in which every *)
(* pair of members is joined by exactly one connection.  Members are the   *)
(* positions in the vector of URIs.                                        *)
(***************************************************************************)
EXTENDS Integers

CONSTANT BusSize    \* number of participants on the bus (argv[4], uris.size())

\* "number of participants on the bus. Must be at least 2" (performance/bus.cpp:14)
ASSUME BusSizeAssumption == BusSize \in Nat /\ BusSize >= 2

Members == 0 .. BusSize - 1

\* The members from `start` (me + 1) up to uris.end().
After(me) == {p \in Members : p > me}

\* Mutated forms of DialTargets: the loop of the first member runs up to
\* uris.end(), so that the last pair is dialed from both sides; or the last
\* member dials nobody, so that its pair with the first is not dialed at all.
DialTargetsToTheEnd(me) == IF After(me) # {} THEN After(me) ELSE {0}
DialTargetsOfNoLast(me) == IF me = 0 THEN After(me) \ {BusSize - 1} ELSE After(me)

\* The first member leaves the last one out, because the last member dials
\* the first; everybody between dials everyone after it.
DialTargets(me) ==
  IF me = 0 THEN After(me) \ {BusSize - 1}
  ELSE IF After(me) # {} THEN After(me)
  ELSE {0}

==============================================================================
