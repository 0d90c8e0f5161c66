------------------------------ MODULE PerfReqRep ------------------------------
(***************************************************************************)
(* performance/reqrep.cpp: main requests, a thread replies.  The timing is *)
(* done twice, with big requests and with big replies; each has sockets    *)
(* and a replier thread of its own, on the same URI.                       *)
(***************************************************************************)
EXTENDS Integers

CONSTANT NMsg     \* requests of one timing (argv[2])

ASSUME NMsgAssumption == NMsg \in Nat

VARIABLES
  punctual,   \* are the sleeps long enough, main's and the repliers'?
  phase,      \* 1: big requests, 2: big replies
  main,       \* where main is in this phase
  asked,      \* requests main has sent in this phase
  got,        \* replies main has got in this phase
  replier,    \* per phase, where its thread is
  replied,    \* replies the thread of this phase has handed to nng
  request,    \* does nng hold a request for the replier?
  reply       \* "none", "unsent": nng holds a reply, or "sent": main's end has it

vars == <<punctual, phase, main, asked, got, replier, replied, request, reply>>

Phases == 1 .. 2

Init ==
  /\ punctual \in BOOLEAN
  /\ phase = 1
  /\ main = "sleeping"
  /\ asked = 0
  /\ got = 0
  /\ replier = [p \in Phases |-> IF p = 1 THEN "opened" ELSE "none"]
  /\ replied = 0
  /\ request = FALSE
  /\ reply = "none"

\* The phases whose replier has the URI.
Bound == {p \in Phases : replier[p] \in {"listening", "replying", "sleeping"}}

\* checkstat ends the process, and with it both threads.
Failed == main' = "failed" /\ UNCHANGED <<punctual, phase, asked, got, replier, replied, request, reply>>

------------------------------------------------------------------------------

\* nng_listen fails when the URI is taken.
Listen ==
  /\ main # "failed"
  /\ replier[phase] = "opened"
  /\ IF Bound = {}
     THEN /\ replier' = [replier EXCEPT ![phase] = IF NMsg = 0 THEN "sleeping" ELSE "listening"]
          /\ UNCHANGED <<punctual, phase, main, asked, got, replied, request, reply>>
     ELSE Failed

GetRequest ==
  /\ main # "failed"
  /\ replier[phase] = "listening"
  /\ request
  /\ request' = FALSE
  /\ replier' = [replier EXCEPT ![phase] = "replying"]
  /\ UNCHANGED <<punctual, phase, main, asked, got, replied, reply>>

\* Mutated forms of IsLast: the count of the loop is one too high, or one too low.
LoopsOnceMore(n) == n = NMsg + 1
LoopsOnceLess(n) == n >= NMsg - 1

IsLast(n) == n = NMsg

\* The thread hands its reply to nng; after the last one it sleeps.
Reply ==
  /\ main # "failed"
  /\ replier[phase] = "replying"
  /\ reply' = "unsent"
  /\ replied' = replied + 1
  /\ replier' = [replier EXCEPT ![phase] = IF IsLast(replied') THEN "sleeping" ELSE "listening"]
  /\ UNCHANGED <<punctual, phase, main, asked, got, request>>

\* nng sends the reply.
Flush ==
  /\ main # "failed"
  /\ reply = "unsent"
  /\ reply' = "sent"
  /\ UNCHANGED <<punctual, phase, main, asked, got, replier, replied, request>>

\* nng_close, "if we close right away our last reply may not be actually sent".
Close ==
  /\ main # "failed"
  /\ replier[phase] = "sleeping"
  /\ punctual => reply # "unsent"
  /\ replier' = [replier EXCEPT ![phase] = "closed"]
  /\ reply' = IF reply = "unsent" THEN "none" ELSE reply
  /\ UNCHANGED <<punctual, phase, main, asked, got, replied, request>>

------------------------------------------------------------------------------

\* The dial is refused when the thread does not listen yet or, as may be when
\* there is nothing to request, has closed before it.
Dial ==
  /\ main = "sleeping"
  /\ punctual => replier[phase] # "opened"
  /\ IF phase \in Bound
     THEN /\ main' = IF NMsg = 0 THEN "timed" ELSE "asking"
          /\ UNCHANGED <<punctual, phase, asked, got, replier, replied, request, reply>>
     ELSE Failed

Ask ==
  /\ main = "asking"
  /\ request' = TRUE
  /\ asked' = asked + 1
  /\ main' = "waiting"
  /\ UNCHANGED <<punctual, phase, got, replier, replied, reply>>

\* The clock is read after the last reply.
GetReply ==
  /\ main = "waiting"
  /\ reply = "sent"
  /\ reply' = "none"
  /\ got' = got + 1
  /\ main' = IF got' = NMsg THEN "timed" ELSE "asking"
  /\ UNCHANGED <<punctual, phase, asked, replier, replied, request>>

\* Mutated form of ReplierJoined: main goes on while the replier still sleeps.
NoJoin == TRUE

ReplierJoined == replier[phase] = "closed"

\* join, close, and the next phase or the report.
Join ==
  /\ main = "timed"
  /\ ReplierJoined
  /\ IF phase = 1
     THEN /\ phase' = 2
          /\ main' = "sleeping"
          /\ asked' = 0 /\ got' = 0 /\ replied' = 0
          /\ replier' = [replier EXCEPT ![2] = "opened"]
     ELSE /\ main' = "done"
          /\ UNCHANGED <<phase, asked, got, replied, replier>>
  /\ UNCHANGED <<punctual, request, reply>>

\* A call of nng fails for a reason of its own.
Fail ==
  /\ main \notin {"done", "failed"}
  /\ Failed

ReplierStep == Listen \/ GetRequest \/ Reply \/ Flush \/ Close
MainStep == Dial \/ Ask \/ GetReply \/ Join

Next == ReplierStep \/ MainStep \/ Fail

\* Both threads and nng run on; no call has to fail.
Spec == Init /\ [][Next]_vars /\ WF_vars(ReplierStep) /\ WF_vars(MainStep)

------------------------------------------------------------------------------

\* One request is answered by one reply: at most one of them is under way, and
\* a replier that has done its part has answered everything that main asked.
InStep ==
  /\ got <= replied /\ replied <= asked /\ asked <= got + 1
  /\ asked <= NMsg
  /\ request => (replied < asked /\ reply = "none")
  /\ replier[phase] \in {"sleeping", "closed"} => replied = NMsg

\* The timings do not meet: when the second replier opens, the first has
\* closed, so that the URI is free and no message of the first is under way.
PhasesApart ==
  /\ replier[2] # "none" => replier[1] = "closed"
  /\ main = "sleeping" => (~request /\ reply = "none")

\* When the sleeps are long enough, the program ends: no reply is lost by the
\* close, and neither main nor its join waits for ever.
RequestTimingsEnd == punctual ~> main \in {"done", "failed"}

==============================================================================
