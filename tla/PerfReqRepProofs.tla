--------------------------- MODULE PerfReqRepProofs ---------------------------
(***************************************************************************)
(* What holds of performance/reqrep.cpp for any number of requests: main   *)
(* and the replier stay in step, and the two timings do not meet.          *)
(***************************************************************************)
EXTENDS PerfReqRep, TLAPS

USE NMsgAssumption

ReplierStates == {"none", "opened", "listening", "replying", "sleeping", "closed"}

\* Every variable has its type.
TypeOK ==
  /\ punctual \in BOOLEAN
  /\ phase \in Phases
  /\ main \in {"sleeping", "asking", "waiting", "timed", "done", "failed"}
  /\ asked \in Nat /\ got \in Nat /\ replied \in Nat
  /\ replier \in [Phases -> ReplierStates]
  /\ request \in BOOLEAN
  /\ reply \in {"none", "unsent", "sent"}

\* No request is under way, or exactly one is: with nng, with the replier, or
\* answered by a reply that is with nng or was lost by the close.
Idle == asked = got /\ replied = got /\ ~request /\ reply = "none"
Requested == request /\ replied = got /\ reply = "none"
Replying == ~request /\ replied = got /\ reply = "none"
Replied == ~request /\ replied = got + 1

OneUnderWay ==
  \/ Idle /\ replier[phase] # "replying"
  \/ /\ asked = got + 1 /\ got < NMsg
     /\ \/ Requested /\ replier[phase] = "listening"
        \/ Replying /\ replier[phase] = "replying"
        \/ Replied /\ replier[phase] \in {"listening", "sleeping", "closed"}

\* What the place of main says of the counters.
MainInStep ==
  /\ got <= NMsg
  /\ main = "sleeping" => Idle /\ got = 0
  /\ main = "asking" => Idle /\ got < NMsg
  /\ main = "waiting" => asked = got + 1
  /\ main \in {"timed", "done"} => Idle /\ got = NMsg
  /\ main \in {"asking", "waiting", "timed", "done"} => replier[phase] # "opened"
  /\ main = "done" => replier[phase] = "closed"

\* What the place of the replier says of them.
ReplierInStep ==
  /\ replier[phase] # "none"
  /\ replier[phase] = "opened" => Idle /\ got = 0
  /\ replier[phase] \in {"listening", "replying"} => replied < NMsg
  /\ replier[phase] \in {"sleeping", "closed"} => replied = NMsg

\* One replier at a time.
OneReplier ==
  /\ phase = 1 => replier[2] = "none"
  /\ phase = 2 => replier[1] = "closed"

IInv == TypeOK /\ OneUnderWay /\ MainInStep /\ ReplierInStep /\ OneReplier

\* The initial states satisfy the invariant.
LEMMA InitInv == Init => IInv
<1>1. Init => ~request /\ request \in BOOLEAN
  BY Zenon DEF Init
<1>2. QED
  BY <1>1 DEF Init, IInv, TypeOK, OneUnderWay, MainInStep, ReplierInStep, OneReplier,
              Idle, Phases, ReplierStates

\* Every step of the replier's thread and of its end of nng keeps the invariant.
LEMMA ReplierKeepsInv == IInv /\ ReplierStep => IInv'
<1> SUFFICES ASSUME IInv, ReplierStep PROVE IInv'
  OBVIOUS
<1> USE DEF IInv, TypeOK, OneUnderWay, MainInStep, ReplierInStep, OneReplier,
            Idle, Requested, Replying, Replied, Phases, ReplierStates
<1>1. CASE Listen
  BY <1>1 DEF Listen, Failed
<1>2. CASE GetRequest
  <2>1. ~request' /\ request' \in BOOLEAN
    BY <1>2, Zenon DEF GetRequest
  <2>2. QED
    BY <1>2, <2>1 DEF GetRequest
<1>3. CASE Reply
  BY <1>3 DEF Reply, IsLast
<1>4. CASE Flush
  BY <1>4 DEF Flush
<1>5. CASE Close
  BY <1>5 DEF Close
<1>6. QED
  BY <1>1, <1>2, <1>3, <1>4, <1>5 DEF ReplierStep

\* Every step of main does.
LEMMA MainKeepsInv == IInv /\ (MainStep \/ Fail) => IInv'
<1> SUFFICES ASSUME IInv, MainStep \/ Fail PROVE IInv'
  OBVIOUS
<1> USE DEF IInv, TypeOK, OneUnderWay, MainInStep, ReplierInStep, OneReplier,
            Idle, Requested, Replying, Replied, Phases, ReplierStates
<1>1. CASE Dial
  BY <1>1 DEF Dial, Failed, Bound
<1>2. CASE Ask
  BY <1>2 DEF Ask
<1>3. CASE GetReply
  BY <1>3 DEF GetReply
<1>4. CASE Join
  BY <1>4 DEF Join, ReplierJoined
<1>5. CASE Fail
  BY <1>5 DEF Fail, Failed
<1>6. QED
  BY <1>1, <1>2, <1>3, <1>4, <1>5 DEF MainStep

\* The inductive invariant of reqrep.cpp.
THEOREM InductiveInvariant == Spec => []IInv
<1>1. IInv /\ [Next]_vars => IInv'
  <2>1. CASE Next
    BY <2>1, ReplierKeepsInv, MainKeepsInv DEF Next
  <2>2. CASE UNCHANGED vars
    BY <2>2 DEF vars, IInv, TypeOK, OneUnderWay, MainInStep, ReplierInStep, OneReplier,
                Idle, Requested, Replying, Replied
  <2>3. QED
    BY <2>1, <2>2
<1>2. QED
  BY InitInv, <1>1, PTL DEF Spec

\* requestor and replier stay in step: a reply answers the request before it.
THEOREM StaysInStep == Spec => []InStep
<1>1. IInv => InStep
  BY DEF IInv, InStep, TypeOK, OneUnderWay, MainInStep, ReplierInStep,
         Idle, Requested, Replying, Replied
<1>2. QED
  BY <1>1, InductiveInvariant, PTL

\* The URI is free and nothing is under way when the second timing begins.
THEOREM TimingsApart == Spec => []PhasesApart
<1>1. IInv => PhasesApart
  BY DEF IInv, PhasesApart, TypeOK, MainInStep, OneReplier, Idle, Phases
<1>2. QED
  BY <1>1, InductiveInvariant, PTL

------------------------------------------------------------------------------

\* Can a thread, or nng, take a step?  The guards of ReplierStep and MainStep.
CanStep ==
  \/ main # "failed" /\ \/ replier[phase] \in {"opened", "replying"}
                        \/ replier[phase] = "listening" /\ request
                        \/ replier[phase] = "sleeping" /\ (punctual => reply # "unsent")
                        \/ reply = "unsent"
  \/ main = "sleeping" /\ (punctual => replier[phase] # "opened")
  \/ main = "asking"
  \/ main = "waiting" /\ reply = "sent"
  \/ main = "timed" /\ ReplierJoined

\* A reply is lost by a close that did not wait for it.
LossNeedsHaste ==
  (main = "waiting" /\ replied = got + 1 /\ reply = "none")
    => (~punctual /\ replier[phase] = "closed")

LEMMA NoLossInTime == Spec => []LossNeedsHaste
<1>1. Init => LossNeedsHaste
  BY DEF Init, LossNeedsHaste
<1>2. ASSUME IInv, LossNeedsHaste, [Next]_vars PROVE LossNeedsHaste'
  <2> USE DEF IInv, TypeOK, LossNeedsHaste, OneUnderWay, MainInStep, ReplierInStep,
              Idle, Requested, Replying, Replied
  <2>1. CASE ReplierStep
    BY <1>2, <2>1 DEF ReplierStep, Listen, Failed, GetRequest, Reply, Flush, Close
  <2>2. CASE MainStep \/ Fail
    BY <1>2, <2>2 DEF MainStep, Fail, Failed, Dial, Ask, GetReply, Join
  <2>3. CASE UNCHANGED vars
    BY <1>2, <2>3 DEF vars
  <2>4. QED
    BY <1>2, <2>1, <2>2, <2>3 DEF Next
<1>3. QED
  BY <1>1, <1>2, InductiveInvariant, PTL DEF Spec

\* The only wait that may never end is that of main for a reply that the close
\* has lost; when the sleep before the close is long enough, there is none.
THEOREM WaitsEnd ==
  Spec => [](\/ main \in {"done", "failed"}
             \/ CanStep
             \/ /\ ~punctual /\ main = "waiting"
                /\ replier[phase] = "closed" /\ replied = NMsg /\ reply = "none")
<1> DEFINE Rests ==
             \/ main \in {"done", "failed"}
             \/ CanStep
             \/ /\ ~punctual /\ main = "waiting"
                /\ replier[phase] = "closed" /\ replied = NMsg /\ reply = "none"
<1>1. ASSUME LossNeedsHaste, IInv, main \notin {"done", "failed"}, ~CanStep
      PROVE  /\ ~punctual /\ main = "waiting"
             /\ replier[phase] = "closed" /\ replied = NMsg /\ reply = "none"
  <2>1. reply # "unsent" /\ main # "asking"
    BY <1>1 DEF CanStep
  <2>2. replier[phase] \in {"listening", "closed"} /\ (replier[phase] = "listening" => ~request)
    <3>1. replier[phase] \in ReplierStates /\ replier[phase] # "none"
      BY <1>1 DEF IInv, TypeOK, ReplierInStep
    <3>2. replier[phase] \notin {"opened", "replying", "sleeping"}
      BY <1>1, <2>1 DEF CanStep
    <3>3. replier[phase] = "listening" => ~request
      BY <1>1, Zenon DEF CanStep
    <3>4. QED
      BY <3>1, <3>2, <3>3 DEF ReplierStates
  <2>3. main # "sleeping"
    BY <1>1, <2>2 DEF CanStep
  <2>4. main # "timed"
    BY <1>1, <2>2 DEF CanStep, ReplierJoined, IInv, TypeOK, MainInStep, ReplierInStep, Idle
  <2>5. main = "waiting" /\ reply = "none"
    BY <1>1, <2>1, <2>3, <2>4 DEF CanStep, IInv, TypeOK
  <2>6. replier[phase] = "closed" /\ replied = got + 1 /\ ~request
    <3>1. asked = got + 1 /\ got \in Nat
      BY <1>1, <2>5 DEF IInv, TypeOK, MainInStep
    <3>2. ~Idle
      BY <3>1 DEF Idle
    <3>3. ~(Requested /\ replier[phase] = "listening")
      BY <2>2, Zenon DEF Requested
    <3>4. replier[phase] # "replying"
      BY <2>2
    <3>5. Replied /\ replier[phase] \in {"listening", "sleeping", "closed"} /\ got < NMsg
      BY <1>1, <3>2, <3>3, <3>4 DEF IInv, OneUnderWay
    <3>6. replier[phase] = "closed"
      BY <1>1, <2>5, <3>5 DEF LossNeedsHaste, Replied
    <3>7. QED
      BY <3>5, <3>6 DEF Replied
  <2>7. replied = NMsg
    BY <1>1, <2>6 DEF IInv, ReplierInStep
  <2>8. QED
    BY <1>1, <2>5, <2>6, <2>7 DEF LossNeedsHaste
<1>2. LossNeedsHaste /\ IInv => Rests
  BY <1>1
<1>3. QED
  BY <1>2, InductiveInvariant, NoLossInTime, PTL

\* The steps that are left: of a request and its reply five, and of the threads
\* of each timing five more.
InPhase == 5 * NMsg + 5

OfMain == IF main = "sleeping" THEN 2 ELSE 1

OfRequest == IF request THEN 4 ELSE 0

OfReplier ==
  IF replier[phase] = "opened" THEN 2 ELSE
  IF replier[phase] = "replying" THEN 4 ELSE
  IF replier[phase] = "closed" THEN 0 ELSE 1

OfReply == IF reply = "unsent" THEN 2 ELSE IF reply = "sent" THEN 1 ELSE 0

\* The phases after this one.
Ahead == IF phase = 1 THEN InPhase ELSE 0

OfExchange == OfRequest + OfReplier + OfReply

OfThreads == OfMain + 5 * (NMsg - asked) + OfExchange

Left ==
  IF main = "failed" THEN 0 ELSE
  IF main = "done" THEN 1 ELSE 1 + Ahead + OfThreads

\* The parts of Left are numbers.
Numbers ==
  /\ OfMain \in Nat /\ OfRequest \in Nat /\ OfReplier \in Nat /\ OfReply \in Nat
  /\ asked \in 0 .. NMsg
  /\ Ahead \in Nat /\ OfThreads \in Nat /\ Left \in Nat

LEMMA PartsAreNumbers == ASSUME IInv PROVE Numbers
<1>1. OfMain \in Nat /\ OfReplier \in Nat /\ OfReply \in Nat /\ InPhase \in Nat
  BY DEF OfMain, OfReplier, OfReply, InPhase
<1>2. OfRequest \in {0, 4}
  BY DEF OfRequest
<1>3. asked \in 0 .. NMsg
  BY DEF IInv, TypeOK, OneUnderWay, MainInStep, Idle
<1>4. OfThreads \in Nat
  BY <1>1, <1>2, <1>3 DEF OfThreads, OfExchange
<1>5. Ahead \in Nat
  BY <1>1 DEF Ahead
<1>6. Left \in Nat
  BY <1>4, <1>5 DEF Left
<1>7. QED
  BY <1>1, <1>2, <1>3, <1>4, <1>5, <1>6 DEF Numbers

\* They stay numbers.
LEMMA NumbersNext == IInv' => Numbers'
<1>1. IInv => Numbers
  BY PartsAreNumbers
<1>2. QED
  BY <1>1, PTL

\* A call that fails ends the process.
LEMMA NoneLeft == ASSUME IInv, main # "failed", main' = "failed" PROVE Left' < Left
<1>1. Left' = 0
  BY DEF Left
<1>2. Left > 0
  BY PartsAreNumbers, NumbersNext DEF Numbers, Left
<1>3. QED
  BY <1>1, <1>2, PartsAreNumbers, NumbersNext DEF Numbers

\* A step in a phase, by the parts.
LEMMA FewerInPhase ==
  ASSUME IInv, phase' = phase, main \notin {"done", "failed"}, main' \notin {"done", "failed"},
         NEW d \in Nat \ {0}, OfThreads' = OfThreads - d
  PROVE  Left' < Left
<1>1. OfThreads \in Nat /\ Ahead \in Nat /\ Ahead' = Ahead
  BY PartsAreNumbers DEF Numbers, Ahead, InPhase
<1>2. Left = 1 + Ahead + OfThreads /\ Left' = 1 + Ahead' + OfThreads'
  BY DEF Left
<1>3. QED
  BY <1>1, <1>2

\* Every step of the replier's thread and of its end of nng leaves fewer.
LEMMA ReplierCounts == ASSUME IInv, IInv', ReplierStep PROVE Left' < Left
<1>1. CASE main' = "failed"
  <2>1. main # "failed"
    BY DEF ReplierStep, Listen, GetRequest, Reply, Flush, Close
  <2>2. QED
    BY <1>1, <2>1, NoneLeft
<1>2. CASE main' # "failed"
  <2>1. main # "failed" /\ phase' = phase /\ main' = main /\ asked' = asked
    BY <1>2 DEF ReplierStep, Listen, GetRequest, Reply, Flush, Close, Failed
  <2>2. main # "done"
    BY DEF ReplierStep, Listen, GetRequest, Reply, Flush, Close, IInv, MainInStep, Idle
  <2>3. OfMain' = OfMain /\ OfMain \in Nat
    BY <2>1 DEF OfMain
  <2>4. replier \in [Phases -> ReplierStates] /\ phase \in Phases /\ asked \in 0 .. NMsg
    BY PartsAreNumbers, NumbersNext DEF Numbers, IInv, TypeOK
  <2>5. OfRequest \in Nat /\ OfReplier \in Nat /\ OfReply \in Nat
    BY PartsAreNumbers DEF Numbers
  <2>6. \E d \in 1 .. 4 : OfExchange' = OfExchange - d
    <3>1. CASE Listen
      <4>1. OfRequest' = OfRequest /\ OfReply' = OfReply
        BY <1>2, <3>1 DEF Listen, Failed, OfRequest, OfReply
      <4>2. OfReplier = 2 /\ OfReplier' = 1
        BY <1>2, <2>1, <2>4, <3>1 DEF Listen, Failed, OfReplier
      <4>3. QED
        BY <2>5, <4>1, <4>2 DEF OfExchange
    <3>2. CASE GetRequest
      <4>1. request /\ ~request'
        BY <3>2, Zenon DEF GetRequest
      <4>2. OfRequest = 4 /\ OfRequest' = 0
        BY <4>1 DEF OfRequest
      <4>3. OfReply' = OfReply
        BY <3>2 DEF GetRequest, OfReply
      <4>4. OfReplier = 1 /\ OfReplier' = 4
        BY <2>1, <2>4, <3>2 DEF GetRequest, OfReplier
      <4>5. QED
        BY <2>5, <4>2, <4>3, <4>4 DEF OfExchange
    <3>3. CASE Reply
      <4>1. OfRequest' = OfRequest
        BY <3>3 DEF Reply, OfRequest
      <4>2. OfReply = 0 /\ OfReply' = 2
        <5>1. reply = "none" /\ reply' = "unsent"
          BY <3>3 DEF Reply, IInv, OneUnderWay, Idle, Requested, Replying, Replied
        <5>2. QED
          BY <5>1 DEF OfReply
      <4>3. OfReplier = 4 /\ OfReplier' = 1
        BY <2>1, <2>4, <3>3 DEF Reply, OfReplier
      <4>4. QED
        BY <2>5, <4>1, <4>2, <4>3 DEF OfExchange
    <3>4. CASE Flush
      <4>1. OfRequest' = OfRequest /\ OfReplier' = OfReplier
        BY <3>4 DEF Flush, OfRequest, OfReplier
      <4>2. OfReply = 2 /\ OfReply' = 1
        BY <3>4 DEF Flush, OfReply
      <4>3. QED
        BY <2>5, <4>1, <4>2 DEF OfExchange
    <3>5. CASE Close
      <4>1. OfRequest' = OfRequest
        BY <3>5 DEF Close, OfRequest
      <4>2. OfReplier = 1 /\ OfReplier' = 0
        BY <2>1, <2>4, <3>5 DEF Close, OfReplier
      <4>3. OfReply' = OfReply \/ (OfReply = 2 /\ OfReply' = 0)
        BY <3>5 DEF Close, OfReply
      <4>4. QED
        BY <2>5, <4>1, <4>2, <4>3 DEF OfExchange
    <3>6. QED
      BY <3>1, <3>2, <3>3, <3>4, <3>5 DEF ReplierStep
  <2>7. PICK d \in 1 .. 4 : OfExchange' = OfExchange - d
    BY <2>6
  <2>8. OfThreads' = OfThreads - d
    <3>1. OfExchange \in Nat /\ OfExchange' = OfExchange - d
      BY <2>5, <2>7 DEF OfExchange
    <3>2. QED
      BY <2>1, <2>3, <2>4, <3>1 DEF OfThreads
  <2>9. QED
    BY <2>1, <2>2, <1>2, <2>8, FewerInPhase
<1>3. QED
  BY <1>1, <1>2

\* Every step of main does.
LEMMA MainCounts == ASSUME IInv, IInv', MainStep \/ Fail PROVE Left' < Left
<1>0. main \notin {"done", "failed"}
  BY DEF MainStep, Dial, Ask, GetReply, Join, Fail
<1>1. CASE main' = "failed"
  BY <1>0, <1>1, NoneLeft
<1>2. CASE Dial /\ main' # "failed"
  <2>1. phase' = phase /\ asked' = asked /\ OfRequest' = OfRequest /\ OfReplier' = OfReplier /\ OfReply' = OfReply
    BY <1>2 DEF Dial, Failed, OfRequest, OfReplier, OfReply
  <2>2. OfMain = 2 /\ OfMain' = 1 /\ main' \in {"asking", "timed"}
    BY <1>2 DEF Dial, Failed, OfMain
  <2>3. OfThreads' = OfThreads - 1
    BY <2>1, <2>2, PartsAreNumbers DEF Numbers, OfThreads, OfExchange
  <2>4. QED
    BY <1>0, <2>1, <2>2, <2>3, FewerInPhase
<1>3. CASE Ask
  <2>1. phase' = phase /\ asked' = asked + 1 /\ OfReplier' = OfReplier /\ OfReply' = OfReply
    BY <1>3 DEF Ask, OfReplier, OfReply
  <2>2. OfMain' = OfMain /\ main' = "waiting"
    BY <1>3 DEF Ask, OfMain
  <2>3. OfRequest = 0 /\ OfRequest' = 4
    <3>1. ~request /\ request'
      BY <1>3, Zenon DEF Ask, IInv, MainInStep, Idle
    <3>2. QED
      BY <3>1 DEF OfRequest
  <2>4. OfThreads' = OfThreads - 1
    BY <2>1, <2>2, <2>3, PartsAreNumbers DEF Numbers, OfThreads, OfExchange
  <2>5. QED
    BY <1>0, <2>1, <2>2, <2>4, FewerInPhase
<1>4. CASE GetReply
  <2>1. phase' = phase /\ asked' = asked /\ OfReplier' = OfReplier /\ OfRequest' = OfRequest
    BY <1>4 DEF GetReply, OfReplier, OfRequest
  <2>2. OfMain' = OfMain /\ main' \in {"asking", "timed"}
    BY <1>4 DEF GetReply, OfMain
  <2>3. OfReply = 1 /\ OfReply' = 0
    BY <1>4 DEF GetReply, OfReply
  <2>4. OfThreads' = OfThreads - 1
    BY <2>1, <2>2, <2>3, PartsAreNumbers DEF Numbers, OfThreads, OfExchange
  <2>5. QED
    BY <1>0, <2>1, <2>2, <2>4, FewerInPhase
<1>5. CASE Join /\ phase = 1
  <2>1. phase' = 2 /\ main' = "sleeping" /\ asked' = 0 /\ replier'[phase'] = "opened"
    BY <1>5 DEF Join, IInv, TypeOK, Phases
  <2>2. OfRequest' = 0 /\ OfReply' = 0
    <3>1. ~request' /\ reply' = "none"
      BY <1>5, Zenon DEF Join, IInv, MainInStep, Idle
    <3>2. QED
      BY <3>1 DEF OfRequest, OfReply
  <2>3. OfMain' = 2 /\ OfReplier' = 2
    BY <2>1 DEF OfMain, OfReplier
  <2>4. OfThreads' = 5 * NMsg + 4
    BY <2>1, <2>2, <2>3 DEF OfThreads, OfExchange
  <2>5. Left' = 5 * NMsg + 5
    <3>1. Ahead' = 0
      BY <2>1 DEF Ahead
    <3>2. Left' = 1 + Ahead' + OfThreads'
      BY <2>1 DEF Left
    <3>3. QED
      BY <2>4, <3>1, <3>2
  <2>6. Left >= 1 + InPhase
    BY <1>0, <1>5, PartsAreNumbers DEF Numbers, Left, Ahead, InPhase
  <2>7. QED
    BY <2>5, <2>6, PartsAreNumbers DEF Numbers, InPhase
<1>6. CASE Join /\ phase # 1
  <2>1. Left' = 1
    BY <1>6 DEF Join, Left
  <2>2. OfMain \in {1, 2}
    BY DEF OfMain
  <2>3. OfThreads >= 1
    BY <2>2, PartsAreNumbers, NumbersNext DEF Numbers, OfThreads, OfExchange
  <2>4. QED
    BY <1>0, <1>6, <2>1, <2>3, PartsAreNumbers, NumbersNext DEF Numbers, Left
<1>7. QED
  BY <1>1, <1>2, <1>3, <1>4, <1>5, <1>6 DEF MainStep, Fail, Failed

\* No thread goes round in circles: every step leaves fewer steps, of which
\* there are never more than 10 * NMsg + 10, whatever fails or comes too early.
THEOREM ComesToRest == Spec => [](Left \in 0 .. 10 * NMsg + 10) /\ [][Left' < Left]_vars
<1> DEFINE Bounded == Left \in 0 .. 10 * NMsg + 10
<1>1. Init => Bounded
  <2>1. ASSUME Init PROVE Left = 10 * NMsg + 10
    <3>1. OfRequest = 0
      BY <2>1 DEF Init, OfRequest
    <3>2. QED
      BY <2>1, <3>1 DEF Init, Phases, Left, Ahead, InPhase, OfMain, OfReplier, OfReply, OfThreads, OfExchange
  <2>2. QED
    BY <2>1
<1>2. IInv /\ IInv' /\ [Next]_vars => [Left' < Left]_vars
  BY ReplierCounts, MainCounts DEF Next
<1>3. UNCHANGED vars => Left' = Left
  BY DEF vars, Left, Ahead, InPhase, OfThreads, OfExchange, OfMain, OfRequest, OfReplier, OfReply
<1>4. IInv /\ IInv' /\ Bounded /\ [Next]_vars => Bounded'
  BY <1>2, <1>3, PartsAreNumbers, NumbersNext DEF Numbers
<1>5. QED
  BY <1>1, <1>2, <1>4, InductiveInvariant, PTL DEF Spec

==============================================================================
