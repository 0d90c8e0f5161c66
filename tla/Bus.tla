--------------------------------- MODULE Bus ---------------------------------
(***************************************************************************)
(* bus.cpp: every member of the bus is a process of its own.  It sets up   *)
(* its part of the mesh, sends two messages to the bus and then reports    *)
(* what it receives until control-C.  Members are started by hand, and one *)
(* that was stopped, or that a refused dial has ended, may be started      *)
(* again.                                                                  *)
(***************************************************************************)
EXTENDS BusSetup, BusTraffic, FiniteSets, FiniteSetsExt

CONSTANTS
  QueueBound,    \* messages that nng holds for one member from one sender
  MaxStops       \* how often a member may be stopped, or started again (bounds the model)

ASSUME BusAssumption ==
  /\ ~OneProcess
  /\ QueueBound \in Nat \ {0}
  /\ MaxStops \in Nat

SendCount == 2     \* "Joined the bus", "I'll send another"

vars == <<setupVars, busVars>>

Messages == [from : Members, run : 0 .. MaxStops, n : 1 .. SendCount]

TypeOK ==
  /\ SetupTypeOK
  /\ sent \in [Members -> 0 .. SendCount]
  /\ inbox \in [Members -> [Members -> Seq(Messages)]]
  /\ got \in [Members -> SUBSET Messages]
  /\ run \in [Members -> 0 .. MaxStops]

NothingWaits == [k \in Members |-> <<>>]

Init ==
  /\ SetupInit
  /\ sent = [m \in Members |-> 0]
  /\ inbox = [m \in Members |-> NothingWaits]
  /\ got = [m \in Members |-> {}]
  /\ run = [m \in Members |-> 0]

------------------------------------------------------------------------------

\* Mutated form of Message: the second message is the first once more.
FirstAgain(m, n) == [from |-> m, run |-> run[m], n |-> 1]

Message(m, n) == [from |-> m, run |-> run[m], n |-> n]

\* A member gets one copy of a message per connection with the sender, as
\* long as there is room: the bus drops what does not fit.
Offer(q, msg, copies) ==
  q \o [k \in 1 .. Min({copies, QueueBound - Len(q)}) |-> msg]

\* A member whose process has exited holds nothing.
ForgetExited ==
  LET gone(k) == stage'[k] = "exited" IN
    /\ inbox' = [k \in Members |-> IF gone(k) THEN NothingWaits ELSE inbox[k]]
    /\ sent' = [k \in Members |-> IF gone(k) THEN 0 ELSE sent[k]]
    /\ got' = [k \in Members |-> IF gone(k) THEN {} ELSE got[k]]
    /\ UNCHANGED run

Setup(m) == SetupStep(m) /\ ForgetExited

SendBusMsg(m) ==
  /\ stage[m] = "ready"
  /\ sent[m] < SendCount
  /\ inbox' = [k \in Members |->
                 [inbox[k] EXCEPT ![m] = Offer(@, Message(m, sent[m] + 1), Cardinality(Pipes(m, k)))]]
  /\ sent' = [sent EXCEPT ![m] = @ + 1]
  /\ UNCHANGED <<setupVars, got, run>>

ReceiveBusMsg(m) ==
  /\ stage[m] = "ready"
  /\ sent[m] = SendCount
  /\ \E k \in Members :
       /\ inbox[m][k] # <<>>
       /\ got' = [got EXCEPT ![m] = @ \cup {Head(inbox[m][k])}]
       /\ inbox' = [inbox EXCEPT ![m][k] = Tail(@)]
  /\ UNCHANGED <<setupVars, sent, run>>

Restarts == MapThenSumSet(LAMBDA k : run[k], Members)

\* Control-C, or a call of nng that fails.
Kill(m) ==
  /\ stage[m] # "exited"
  /\ Restarts + Cardinality({k \in Members : stage[k] = "exited"}) < MaxStops
  /\ Exit(m)
  /\ ForgetExited

\* The user starts the member again: a new process, with nothing dialed.
Restart(m) ==
  /\ stage[m] = "exited"
  /\ Restarts < MaxStops
  /\ run' = [run EXCEPT ![m] = @ + 1]
  /\ stage' = [stage EXCEPT ![m] = "opened"]
  /\ UNCHANGED <<pending, links, punctual, sent, inbox, got>>

\* nng dials again, in the background, a peer that k had dialed and has lost.
Reconnect(k, m) ==
  /\ Listening(k) /\ Listening(m)
  /\ m \in DialTargets(k) \ pending[k]
  /\ <<k, m>> \notin links
  /\ links' = links \cup {<<k, m>>}
  /\ UNCHANGED <<stage, pending, punctual, busVars>>

Next ==
  \E m \in Members :
    \/ Setup(m)
    \/ SendBusMsg(m)
    \/ ReceiveBusMsg(m)
    \/ Kill(m)
    \/ Restart(m)
    \/ \E k \in Members : Reconnect(k, m)

\* A running process runs, and nng dials again; nobody has to stop a member or to
\* start it again.  Members cannot take steps for ever, so it is enough that some
\* step is taken while one can be.
Fairness ==
  WF_vars(\E m \in Members :
            \/ Setup(m)
            \/ SendBusMsg(m)
            \/ ReceiveBusMsg(m)
            \/ \E k \in Members : Reconnect(k, m))

Spec == Init /\ [][Next]_vars /\ Fairness

------------------------------------------------------------------------------

\* "all instances should receive the message sent by everyone but itself"
\* (Readme.md:39): it does when the sleeps are long enough, nobody is stopped, and
\* nng can hold both messages of a sender while the receiver still sends its own.
EverybodyHeard ==
  (QueueBound >= SendCount /\ punctual /\ [](\A m \in Members : stage[m] # "exited"))
  => <>(\A m, k \in Members : m # k =>
          {Message(k, n) : n \in 1 .. SendCount} \subseteq got[m])

\* The mesh heals: in the long run any two members that are set up are
\* connected, however often members were stopped and started again before.
MeshHeals ==
  <>[](\A i, j \in Members :
         (i # j /\ stage[i] = "ready" /\ stage[j] = "ready") => Pipes(i, j) # {})

==============================================================================
