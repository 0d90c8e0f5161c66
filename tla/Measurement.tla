----------------------------- MODULE Measurement -----------------------------
(***************************************************************************)
(* What a timing program promises, whatever the pattern it times.  The     *)
(* clock runs while the workers receive; a worker counts as finished at    *)
(* most once; the clock stops only when every worker has finished, and     *)
(* only a stopped clock is reported.  A failing call ends the program      *)
(* without a report.                                                       *)
(***************************************************************************)
EXTENDS Naturals

CONSTANT Workers

VARIABLES
  clock,      \* "idle", "running" or "stopped"
  finished,   \* the workers that have received what they were to receive
  outcome     \* "busy", "reported" or "aborted"

vars == <<clock, finished, outcome>>

TypeOK ==
  /\ clock \in {"idle", "running", "stopped"}
  /\ finished \subseteq Workers
  /\ outcome \in {"busy", "reported", "aborted"}

Init ==
  /\ clock = "idle"
  /\ finished = {}
  /\ outcome = "busy"

Start ==
  /\ outcome = "busy"
  /\ clock = "idle"
  /\ clock' = "running"
  /\ UNCHANGED <<finished, outcome>>

Finish(w) ==
  /\ outcome = "busy"
  /\ clock = "running"
  /\ w \notin finished
  /\ finished' = finished \cup {w}
  /\ UNCHANGED <<clock, outcome>>

Stop ==
  /\ outcome = "busy"
  /\ clock = "running"
  /\ finished = Workers
  /\ clock' = "stopped"
  /\ UNCHANGED <<finished, outcome>>

Report ==
  /\ outcome = "busy"
  /\ clock = "stopped"
  /\ outcome' = "reported"
  /\ UNCHANGED <<clock, finished>>

\* Nobody reads the clock of a program that has failed.
Abort ==
  /\ outcome = "busy"
  /\ outcome' = "aborted"
  /\ clock' \in {"idle", "running", "stopped"}
  /\ UNCHANGED finished

Next == Start \/ (\E w \in Workers : Finish(w)) \/ Stop \/ Report \/ Abort

Spec == Init /\ [][Next]_vars

==============================================================================
