---------------------------- MODULE PerfBusProofs ----------------------------
(***************************************************************************)
(* Proofs about the dial rules of the bus, about performance/bus.cpp and   *)
(* about bus.cpp, for a bus of any size, any number of messages and any    *)
(* capacity of the queues.                                                 *)
(***************************************************************************)
EXTENDS PerfBus, BusTraffic, SequenceTheorems, FiniteSetTheorems, TLAPS

\* The dial rules as arithmetic on the positions: the last member is the one
\* that has nobody after it.
LEMMA TargetsByPosition ==
  ASSUME NEW m \in Members, NEW p \in Members
  PROVE  p \in DialTargets(m) <=>
           \/ m = 0 /\ 0 < p /\ p < BusSize - 1
           \/ 0 < m /\ m < BusSize - 1 /\ m < p
           \/ m = BusSize - 1 /\ p = 0
<1>1. CASE m = 0
  BY <1>1, BusSizeAssumption DEF DialTargets, Members, After
<1>2. CASE m # 0 /\ m < BusSize - 1
  <2>1. BusSize - 1 \in After(m)
    BY <1>2, BusSizeAssumption DEF Members, After
  <2>2. p \in DialTargets(m) <=> p \in After(m)
    BY <1>2, <2>1 DEF DialTargets
  <2>3. QED
    BY <1>2, <2>2, BusSizeAssumption DEF Members, After
<1>3. CASE m = BusSize - 1
  <2>1. m # 0 /\ After(m) = {}
    BY <1>3, BusSizeAssumption DEF Members, After
  <2>2. p \in DialTargets(m) <=> p = 0
    BY <2>1 DEF DialTargets
  <2>3. QED
    BY <1>3, <2>2, BusSizeAssumption DEF Members
<1>4. QED
  BY <1>1, <1>2, <1>3, BusSizeAssumption DEF Members

\* Nobody dials itself, and a member dials members of the bus only.
LEMMA TargetsAreOthers ==
  ASSUME NEW m \in Members
  PROVE  DialTargets(m) \subseteq Members \ {m}
<1>1. DialTargets(m) \subseteq Members
  BY BusSizeAssumption DEF DialTargets, Members, After
<1>2. m \notin DialTargets(m)
  BY TargetsByPosition, BusSizeAssumption DEF Members
<1>3. QED
  BY <1>1, <1>2

\* The mesh is complete: of any two members one dials the other.  This is
\* what the loops of setupBus promise with "Set up the mesh" (bus.cpp:60).
THEOREM MeshComplete ==
  ASSUME NEW i \in Members, NEW j \in Members, i # j
  PROVE  j \in DialTargets(i) \/ i \in DialTargets(j)
  BY TargetsByPosition, BusSizeAssumption DEF Members

\* No two members dial each other, so that no pair gets two connections.
THEOREM MeshOnce ==
  ASSUME NEW i \in Members, NEW j \in Members, j \in DialTargets(i)
  PROVE  i \notin DialTargets(j)
  BY TargetsByPosition, BusSizeAssumption DEF Members

------------------------------------------------------------------------------

\* The threads of the program exit together.
ExitTogether ==
  (\E m \in Members : stage[m] = "exited") => \A k \in Members : stage[k] = "exited"

\* Connections are made by the dial rules only, and a member dials them all.
ByTheRules ==
  /\ \A m \in Members : pending[m] \subseteq DialTargets(m)
  /\ \A l \in links : l[2] \in DialTargets(l[1])
  /\ \A m \in Members : stage[m] = "ready" => pending[m] = {}

\* What sleeps that are long enough give.
SleepsSuffice ==
  punctual =>
    /\ (\E m \in Members : stage[m] \in {"dialing", "ready"}) => Populated
    /\ (\E m \in Members : stage[m] = "ready") => EveryoneDialed

\* A connection stays until one of its members closes or exits.
DialedStaysUp ==
  \A m \in Members : \A p \in DialTargets(m) \ pending[m] :
    (stage[m] # "exited" /\ phase[m] # "closed" /\ phase[p] # "closed") => <<m, p>> \in links

\* Main and the receivers go through phases of their own, once set up.
OwnPhases ==
  /\ phase[0] \in MainPhases
  /\ \A r \in Receivers : phase[r] \in ReceiverPhases
  /\ phase[0] # "waiting" => stage[0] \in {"ready", "exited"}
  /\ \A r \in Receivers : phase[r] # "collecting" => stage[r] \in {"ready", "exited"}

\* What main knows of the receivers, by the futures and by the join.
MainKnows ==
  /\ \A r \in Receivers : promise[r] # Unset => phase[r] # "collecting"
  /\ phase[0] \in {"timed", "joining", "closed"} => AllReady
  /\ phase[0] = "closed" => \A r \in Receivers : phase[r] = "closed"

\* The terminate message is the last one that main sends.
FlagIsLast ==
  phase[0] \notin {"joining", "closed"} =>
    \A r \in Receivers : \A i \in 1 .. Len(queue[r]) : queue[r][i] # EndFlag

\* Nothing is sent, and no receiver is done, before the clock runs.
QuietBeforeStart ==
  phase[0] = "waiting" =>
    \A r \in Receivers : queue[r] = <<>> /\ lastseq[r] = 0 /\ phase[r] = "collecting"

\* NoEarlyTerminate and TerminateReachesAll complete the inductive invariant.
IInv ==
  /\ TypeOK
  /\ ExitTogether
  /\ ByTheRules
  /\ SleepsSuffice
  /\ DialedStaysUp
  /\ OwnPhases
  /\ MainKnows
  /\ FlagIsLast
  /\ QuietBeforeStart
  /\ NoEarlyTerminate
  /\ TerminateReachesAll


------------------------------------------------------------------------------

\* Member 0 is main, and the others are the receivers.
LEMMA MembersFacts ==
  /\ 0 \in Members
  /\ Receivers \subseteq Members
  /\ \A m \in Members : m = 0 \/ m \in Receivers
  /\ 0 \notin Receivers
  BY BusSizeAssumption DEF Members, Receivers

\* What a message may be: sequence numbers are below the flag.
LEMMA MessageFacts ==
  /\ EndFlag \in Messages
  /\ 0 .. SeqBound \subseteq Messages
  /\ EndFlag \notin 0 .. SeqBound
  /\ Messages \subseteq Nat
  /\ Unset \notin Messages
  BY PerfBusAssumption DEF EndFlag, Messages, Unset

\* All threads of the process exit at once.
LEMMA ExitAll ==
  ASSUME NEW m \in Members, Exit(m)
  PROVE  /\ stage' = [k \in Members |-> "exited"]
         /\ pending' = [k \in Members |-> DialTargets(k)]
         /\ links' \subseteq links
         /\ punctual' = punctual
<1>1. Housemates(m) = Members
  BY PerfBusAssumption DEF Housemates
<1>2. QED
  BY <1>1 DEF Exit

\* The initial states have the right types.
LEMMA TypeInit == Init => TypeOK
<1>. SUFFICES ASSUME Init PROVE TypeOK
  OBVIOUS
<1>1. SetupTypeOK
  BY TargetsAreOthers DEF Init, SetupInit, SetupTypeOK, Stages
<1>2. QED
  BY <1>1, MessageFacts, PerfBusAssumption
  DEF Init, TypeOK, MainPhases, ReceiverPhases

\* The steps of setupBus keep the types of its variables.
LEMMA SetupTypeStep ==
  ASSUME SetupTypeOK, NEW m \in Members, SetupStep(m)
  PROVE  SetupTypeOK'
<1>1. CASE Listen(m)
  BY <1>1 DEF Listen, SetupTypeOK, Stages
<1>2. CASE Settle(m)
  BY <1>2 DEF Settle, SetupTypeOK, Stages
<1>3. CASE Dial(m)
  BY <1>3 DEF Dial, SetupTypeOK
<1>4. CASE DialRefused(m)
  <2>1. Exit(m)
    BY <1>4 DEF DialRefused
  <2>2. QED
    BY <2>1, ExitAll, TargetsAreOthers DEF SetupTypeOK, Stages
<1>5. CASE FinishSetup(m)
  BY <1>5 DEF FinishSetup, SetupTypeOK, Stages
<1>6. QED
  BY <1>1, <1>2, <1>3, <1>4, <1>5 DEF SetupStep

\* A broadcast keeps the type of the queues.
LEMMA BroadcastType ==
  ASSUME queue \in [Receivers -> Seq(Messages)], NEW msg \in Messages, Broadcast(msg)
  PROVE  queue' \in [Receivers -> Seq(Messages)]
  BY DEF Broadcast

\* Every step keeps the types.
LEMMA TypeStep == TypeOK /\ [Next]_vars => TypeOK'
<1>. SUFFICES ASSUME TypeOK, [Next]_vars PROVE TypeOK'
  OBVIOUS
<1>. USE MembersFacts DEF TypeOK, MainPhases, ReceiverPhases, InPhase, Become
<1>1. CASE UNCHANGED vars
  BY <1>1 DEF vars, setupVars, workVars, SetupTypeOK
<1>2. CASE StartClock
  BY <1>2 DEF StartClock, setupVars, SetupTypeOK
<1>3. CASE Spray
  <2>1. seq \in Messages /\ seq' \in 0 .. SeqBound
    BY <1>3, MessageFacts, PerfBusAssumption DEF Spray
  <2>2. queue' \in [Receivers -> Seq(Messages)]
    BY <1>3, <2>1, BroadcastType DEF Spray
  <2>3. QED
    BY <1>3, <2>1, <2>2 DEF Spray, setupVars, SetupTypeOK
<1>4. CASE Poll
  BY <1>4 DEF Poll, setupVars, SetupTypeOK
<1>5. CASE SendTerminate
  <2>1. queue' \in [Receivers -> Seq(Messages)]
    BY <1>5, MessageFacts, BroadcastType DEF SendTerminate
  <2>2. QED
    BY <1>5, <2>1 DEF SendTerminate, setupVars, SetupTypeOK
<1>6. CASE JoinAll
  BY <1>6 DEF JoinAll, SetupTypeOK
<1>7. ASSUME NEW r \in Receivers, Collect(r) PROVE TypeOK'
  BY <1>7 DEF Collect, setupVars, SetupTypeOK
<1>8. ASSUME NEW r \in Receivers, SetPromise(r) PROVE TypeOK'
  BY <1>8 DEF SetPromise, setupVars, SetupTypeOK
<1>9. ASSUME NEW r \in Receivers, AwaitEnd(r) PROVE TypeOK'
  BY <1>9 DEF AwaitEnd, setupVars, SetupTypeOK
<1>10. ASSUME NEW r \in Receivers, Close(r) PROVE TypeOK'
  BY <1>10 DEF Close, SetupTypeOK
<1>11. ASSUME NEW m \in Members, Setup(m) PROVE TypeOK'
  BY <1>11, SetupTypeStep DEF Setup, workVars
<1>12. ASSUME NEW m \in Members, CallFails(m) PROVE TypeOK'
  <2>1. SetupTypeOK'
    BY <1>12, ExitAll, TargetsAreOthers DEF CallFails, SetupTypeOK, Stages
  <2>2. QED
    BY <1>12, <2>1 DEF CallFails, workVars
<1>13. QED
  BY <1>1, <1>2, <1>3, <1>4, <1>5, <1>6, <1>7, <1>8, <1>9, <1>10, <1>11, <1>12
  DEF Next, MainStep, ReceiverStep

\* Every variable keeps its type.
THEOREM TypeCorrect == Spec => []TypeOK
  BY TypeInit, TypeStep, PTL DEF Spec

------------------------------------------------------------------------------

\* Seen from setupBus, a step either leaves the mesh alone but for the closing
\* of connections, or is a step of setupBus, or ends the process.
LEMMA StepKinds ==
  ASSUME [Next]_vars
  PROVE  \/ UNCHANGED <<stage, pending, punctual>> /\ links' \subseteq links
         \/ \E m \in Members : Setup(m)
         \/ \E m \in Members : Exit(m) /\ UNCHANGED workVars
<1>. USE DEF setupVars, vars
<1>1. CASE MainStep
  BY <1>1 DEF MainStep, StartClock, Spray, Poll, SendTerminate, JoinAll
<1>2. ASSUME NEW r \in Receivers, ReceiverStep(r)
      PROVE  UNCHANGED <<stage, pending, punctual>> /\ links' \subseteq links
  BY <1>2 DEF ReceiverStep, Collect, SetPromise, AwaitEnd, Close
<1>3. ASSUME NEW m \in Members, CallFails(m)
      PROVE  Exit(m) /\ UNCHANGED workVars
  BY <1>3 DEF CallFails
<1>4. QED
  BY <1>1, <1>2, <1>3 DEF Next

\* The invariants of setupBus, step by step.
LEMMA MeshStep ==
  ASSUME TypeOK, ExitTogether, ByTheRules, SleepsSuffice, NEW m \in Members, SetupStep(m)
  PROVE  ExitTogether' /\ ByTheRules' /\ SleepsSuffice'
<1>. USE DEF TypeOK, SetupTypeOK
<1>1. CASE Listen(m)
  <2>1. stage[m] = "opened" /\ stage' = [stage EXCEPT ![m] = "settling"]
    BY <1>1 DEF Listen
  <2>2. ExitTogether' /\ ByTheRules'
    BY <1>1, <2>1 DEF Listen, ExitTogether, ByTheRules
  <2>3. SleepsSuffice'
    BY <1>1, <2>1 DEF Listen, SleepsSuffice, Populated, EveryoneDialed
  <2>4. QED
    BY <2>2, <2>3
<1>2. CASE Settle(m)
  <2>1. stage[m] = "settling" /\ stage' = [stage EXCEPT ![m] = "dialing"]
    BY <1>2 DEF Settle
  <2>2. ExitTogether' /\ ByTheRules'
    BY <1>2, <2>1 DEF Settle, ExitTogether, ByTheRules
  <2>3. SleepsSuffice'
    BY <1>2, <2>1 DEF Settle, SleepsSuffice, Populated, EveryoneDialed
  <2>4. QED
    BY <2>2, <2>3
<1>3. CASE Dial(m)
  <2>1. PICK p \in pending[m] :
          /\ links' = links \cup {<<m, p>>}
          /\ pending' = [pending EXCEPT ![m] = @ \ {p}]
    BY <1>3 DEF Dial
  <2>2. p \in DialTargets(m)
    BY <2>1 DEF ByTheRules
  <2>3. ExitTogether'
    BY <1>3 DEF Dial, ExitTogether
  <2>4. ByTheRules'
    BY <1>3, <2>1, <2>2 DEF Dial, ByTheRules
  <2>5. SleepsSuffice'
    BY <1>3, <2>1 DEF Dial, SleepsSuffice, Populated, EveryoneDialed
  <2>6. QED
    BY <2>3, <2>4, <2>5
<1>4. CASE DialRefused(m)
  <2>1. Exit(m)
    BY <1>4 DEF DialRefused
  <2>2. QED
    BY <2>1, ExitAll DEF ExitTogether, ByTheRules, SleepsSuffice
<1>5. CASE FinishSetup(m)
  <2>1. /\ stage[m] = "dialing"
        /\ pending[m] = {}
        /\ stage' = [stage EXCEPT ![m] = "ready"]
        /\ UNCHANGED <<pending, links, punctual>>
        /\ punctual => EveryoneDialed
    BY <1>5 DEF FinishSetup
  <2>2. ExitTogether' /\ ByTheRules'
    BY <2>1 DEF ExitTogether, ByTheRules
  <2>3. SleepsSuffice'
    BY <2>1 DEF SleepsSuffice, Populated, EveryoneDialed
  <2>4. QED
    BY <2>2, <2>3
<1>6. QED
  BY <1>1, <1>2, <1>3, <1>4, <1>5 DEF SetupStep

\* What holds of the mesh during setupBus is kept by every step of the program.
LEMMA MeshInvariant ==
  ASSUME TypeOK, ExitTogether, ByTheRules, SleepsSuffice, [Next]_vars
  PROVE  ExitTogether' /\ ByTheRules' /\ SleepsSuffice'
<1>1. CASE UNCHANGED <<stage, pending, punctual>> /\ links' \subseteq links
  BY <1>1 DEF ExitTogether, ByTheRules, SleepsSuffice, Populated, EveryoneDialed
<1>2. ASSUME NEW m \in Members, Setup(m)
      PROVE  ExitTogether' /\ ByTheRules' /\ SleepsSuffice'
  BY <1>2, MeshStep DEF Setup
<1>3. ASSUME NEW m \in Members, Exit(m)
      PROVE  ExitTogether' /\ ByTheRules' /\ SleepsSuffice'
  BY <1>3, ExitAll DEF ExitTogether, ByTheRules, SleepsSuffice
<1>4. QED
  BY <1>1, <1>2, <1>3, StepKinds

\* The phases and what main knows of them.
LEMMA PhaseStep ==
  ASSUME TypeOK, OwnPhases, MainKnows, FlagIsLast, NoEarlyTerminate, ExitTogether, [Next]_vars
  PROVE  OwnPhases' /\ MainKnows'
<1>. USE MembersFacts, MessageFacts
     DEF TypeOK, SetupTypeOK, OwnPhases, MainKnows, InPhase, Become, MainPhases, ReceiverPhases, AllReady
<1>1. CASE UNCHANGED vars
  BY <1>1 DEF vars, setupVars, workVars
<1>2. CASE StartClock
  BY <1>2 DEF StartClock, setupVars
<1>3. CASE Spray
  BY <1>3 DEF Spray, setupVars
<1>4. CASE Poll
  BY <1>4 DEF Poll, setupVars
<1>5. CASE SendTerminate
  BY <1>5 DEF SendTerminate, setupVars
<1>6. CASE JoinAll
  BY <1>6 DEF JoinAll
<1>7. ASSUME NEW r \in Receivers, Collect(r) PROVE OwnPhases' /\ MainKnows'
  BY <1>7 DEF Collect, setupVars
<1>8. ASSUME NEW r \in Receivers, SetPromise(r) PROVE OwnPhases' /\ MainKnows'
  BY <1>8 DEF SetPromise, setupVars
<1>9. ASSUME NEW r \in Receivers, AwaitEnd(r) PROVE OwnPhases' /\ MainKnows'
  BY <1>9 DEF AwaitEnd, setupVars
<1>10. ASSUME NEW r \in Receivers, Close(r) PROVE OwnPhases' /\ MainKnows'
  BY <1>10 DEF Close
<1>11. ASSUME NEW m \in Members, Setup(m) PROVE OwnPhases' /\ MainKnows'
  <2>1. CASE \E k \in Members : Exit(k)
    BY <1>11, <2>1, ExitAll DEF Setup, workVars
  <2>2. CASE \A k \in Members : stage[k] \in {"ready", "exited"} => stage'[k] = stage[k]
    BY <1>11, <2>2 DEF Setup, workVars
  <2>3. QED
    BY <1>11, <2>1, <2>2 DEF Setup, SetupStep, Listen, Settle, Dial, DialRefused, FinishSetup
<1>12. ASSUME NEW m \in Members, CallFails(m) PROVE OwnPhases' /\ MainKnows'
  BY <1>12, ExitAll DEF CallFails, workVars
<1>13. QED
  BY <1>1, <1>2, <1>3, <1>4, <1>5, <1>6, <1>7, <1>8, <1>9, <1>10, <1>11, <1>12
  DEF Next, MainStep, ReceiverStep

\* A connection, once dialed, is only lost when one of its members closes or
\* exits.
LEMMA DialedStep ==
  ASSUME TypeOK, ByTheRules, OwnPhases, ExitTogether, DialedStaysUp, [Next]_vars
  PROVE  DialedStaysUp'
<1>. USE MembersFacts, TargetsAreOthers DEF TypeOK, SetupTypeOK, DialedStaysUp, InPhase, Become
<1>1. CASE UNCHANGED vars
  BY <1>1 DEF vars, setupVars, workVars
<1>2. CASE StartClock \/ Spray \/ Poll \/ SendTerminate
  BY <1>2 DEF StartClock, Spray, Poll, SendTerminate, setupVars
<1>3. CASE JoinAll
  BY <1>3 DEF JoinAll
<1>4. ASSUME NEW r \in Receivers, Collect(r) \/ SetPromise(r) \/ AwaitEnd(r)
      PROVE  DialedStaysUp'
  BY <1>4 DEF Collect, SetPromise, AwaitEnd, setupVars
<1>5. ASSUME NEW r \in Receivers, Close(r) PROVE DialedStaysUp'
  BY <1>5 DEF Close
<1>6. ASSUME NEW m \in Members, Setup(m) PROVE DialedStaysUp'
  <2>1. CASE Listen(m) \/ Settle(m) \/ FinishSetup(m)
    BY <1>6, <2>1 DEF Setup, workVars, Listen, Settle, FinishSetup
  <2>2. CASE Dial(m)
    BY <1>6, <2>2 DEF Setup, workVars, Dial
  <2>3. CASE DialRefused(m)
    BY <1>6, <2>3, ExitAll DEF DialRefused
  <2>4. QED
    BY <1>6, <2>1, <2>2, <2>3 DEF Setup, SetupStep
<1>7. ASSUME NEW m \in Members, CallFails(m) PROVE DialedStaysUp'
  BY <1>7, ExitAll DEF CallFails
<1>8. QED
  BY <1>1, <1>2, <1>3, <1>4, <1>5, <1>6, <1>7 DEF Next, MainStep, ReceiverStep

\* Appending brings nothing but what is appended.
LEMMA AppendAvoids ==
  ASSUME NEW q \in Seq(Messages), NEW msg \in Messages, msg # EndFlag,
         \A k \in 1 .. Len(q) : q[k] # EndFlag
  PROVE  \A k \in 1 .. Len(Append(q, msg)) : Append(q, msg)[k] # EndFlag
  OBVIOUS

\* A sequence number that main broadcasts brings no terminate message.
LEMMA FlagStep ==
  ASSUME TypeOK, OwnPhases, MainKnows, FlagIsLast, NoEarlyTerminate, [Next]_vars
  PROVE  FlagIsLast' /\ NoEarlyTerminate'
<1>. USE MembersFacts, MessageFacts
     DEF TypeOK, FlagIsLast, NoEarlyTerminate, InPhase, Become, MainPhases, ReceiverPhases
<1>1. CASE UNCHANGED vars
  BY <1>1 DEF vars, workVars
<1>2. CASE StartClock \/ Poll
  BY <1>2 DEF StartClock, Poll
<1>3. CASE Spray
  <2>1. phase[0] = "spraying" /\ phase' = [phase EXCEPT ![0] = "polling"] /\ lastseq' = lastseq
    BY <1>3 DEF Spray
  <2>2. ASSUME NEW r \in Receivers, NEW i \in 1 .. Len(queue'[r])
        PROVE  queue'[r][i] # EndFlag
    <3>1. queue[r] \in Seq(Messages) /\ seq # EndFlag
      OBVIOUS
    <3>2. queue'[r] \in {queue[r], Append(queue[r], seq)}
      BY <1>3 DEF Spray, Broadcast
    <3>3. \A k \in 1 .. Len(queue[r]) : queue[r][k] # EndFlag
      BY <2>1
    <3>4. seq \in Messages
      OBVIOUS
    <3>5. \A k \in 1 .. Len(Append(queue[r], seq)) : Append(queue[r], seq)[k] # EndFlag
      BY <3>1, <3>3, <3>4, AppendAvoids
    <3>6. CASE queue'[r] = queue[r]
      BY <3>3, <3>6
    <3>7. CASE queue'[r] = Append(queue[r], seq)
      BY <3>5, <3>7
    <3>8. QED
      BY <3>2, <3>6, <3>7
  <2>3. QED
    BY <2>1, <2>2
<1>4. CASE SendTerminate
  <2>1. \A r \in Receivers : phase[r] # "collecting"
    BY <1>4 DEF SendTerminate, MainKnows, AllReady
  <2>2. QED
    BY <1>4, <2>1 DEF SendTerminate
<1>5. CASE JoinAll
  BY <1>5 DEF JoinAll
<1>6. ASSUME NEW r \in Receivers, Collect(r) PROVE FlagIsLast' /\ NoEarlyTerminate'
  <2>1. \A i \in 1 .. Len(Tail(queue[r])) :
          i + 1 \in 1 .. Len(queue[r]) /\ Tail(queue[r])[i] = queue[r][i + 1]
    BY <1>6 DEF Collect
  <2>2. Head(queue[r]) # EndFlag
    BY <1>6 DEF Collect
  <2>3. QED
    BY <1>6, <2>1, <2>2 DEF Collect
<1>7. ASSUME NEW r \in Receivers, SetPromise(r) PROVE FlagIsLast' /\ NoEarlyTerminate'
  BY <1>7 DEF SetPromise
<1>8. ASSUME NEW r \in Receivers, AwaitEnd(r) PROVE FlagIsLast' /\ NoEarlyTerminate'
  <2>1. \A i \in 1 .. Len(Tail(queue[r])) :
          i + 1 \in 1 .. Len(queue[r]) /\ Tail(queue[r])[i] = queue[r][i + 1]
    BY <1>8 DEF AwaitEnd
  <2>2. QED
    BY <1>8, <2>1 DEF AwaitEnd
<1>9. ASSUME NEW r \in Receivers, Close(r) PROVE FlagIsLast' /\ NoEarlyTerminate'
  BY <1>9 DEF Close
<1>10. ASSUME NEW m \in Members, Setup(m) \/ CallFails(m) PROVE FlagIsLast' /\ NoEarlyTerminate'
  BY <1>10 DEF Setup, CallFails, workVars
<1>11. QED
  BY <1>1, <1>2, <1>3, <1>4, <1>5, <1>6, <1>7, <1>8, <1>9, <1>10 DEF Next, MainStep, ReceiverStep

\* As long as main waits, a receiver has nothing to do.
LEMMA QuietStep ==
  ASSUME TypeOK, OwnPhases, QuietBeforeStart, [Next]_vars
  PROVE  QuietBeforeStart'
<1>. USE MembersFacts, PerfBusAssumption
     DEF TypeOK, QuietBeforeStart, InPhase, Become, MainPhases, ReceiverPhases
<1>1. CASE UNCHANGED vars
  BY <1>1 DEF vars, workVars
<1>2. CASE MainStep
  BY <1>2 DEF MainStep, StartClock, Spray, Poll, SendTerminate, JoinAll
<1>3. ASSUME NEW r \in Receivers, ReceiverStep(r) PROVE QuietBeforeStart'
  BY <1>3 DEF ReceiverStep, Collect, SetPromise, AwaitEnd, Close
<1>4. ASSUME NEW m \in Members, Setup(m) \/ CallFails(m) PROVE QuietBeforeStart'
  BY <1>4 DEF Setup, CallFails, workVars
<1>5. QED
  BY <1>1, <1>2, <1>3, <1>4 DEF Next

\* The full mesh, from the dial rules and the sleeps.
LEMMA MeshIsUp ==
  ASSUME TypeOK, ByTheRules, SleepsSuffice, ExitTogether, DialedStaysUp
  PROVE  MeshUp
<1>. SUFFICES ASSUME punctual, NEW i \in Members, NEW j \in Members, i # j,
                     stage[i] = "ready", stage[j] # "exited",
                     phase[i] # "closed", phase[j] # "closed"
              PROVE  Pipes(i, j) # {}
  BY DEF MeshUp
<1>1. \A k \in Members : pending[k] = {}
  BY DEF SleepsSuffice, EveryoneDialed, ByTheRules, ExitTogether, TypeOK, SetupTypeOK, Stages
<1>2. CASE j \in DialTargets(i)
  BY <1>1, <1>2 DEF DialedStaysUp, Pipes
<1>3. CASE i \in DialTargets(j)
  BY <1>1, <1>3 DEF DialedStaysUp, Pipes
<1>4. QED
  BY <1>2, <1>3, MeshComplete

\* Once main joins, the terminate message is waiting for, or was taken by, every
\* receiver: it was sent to receivers that were all idle and connected.
LEMMA TerminateStep ==
  ASSUME IInv, TypeOK', MainKnows', ExitTogether', [Next]_vars
  PROVE  TerminateReachesAll'
<1>. USE MembersFacts, MessageFacts
     DEF IInv, TypeOK, TerminateReachesAll, Exited, InPhase, Become, MainPhases, ReceiverPhases
<1>1. CASE UNCHANGED vars
  BY <1>1 DEF vars, setupVars, workVars
<1>2. CASE StartClock \/ Spray \/ Poll \/ JoinAll
  BY <1>2 DEF StartClock, Spray, Poll, JoinAll
<1>3. CASE SendTerminate
  <2>1. SUFFICES ASSUME punctual, NEW r \in Receivers
                 PROVE  \E i \in 1 .. Len(queue'[r]) : queue'[r][i] = EndFlag
    BY <1>3 DEF SendTerminate, setupVars
  <2>2. InPhase(r, "awaiting") /\ queue[r] = <<>> /\ InPhase(0, "timed")
    BY <1>3, <2>1 DEF SendTerminate, EverybodyIdle
  <2>3. Pipes(0, r) # {}
    BY <2>1, <2>2, MeshIsUp DEF MeshUp
  <2>4. Len(queue[r]) < QueueBound
    BY <2>2, PerfBusAssumption
  <2>5. queue'[r] = Append(<<>>, EndFlag)
    BY <1>3, <2>2, <2>3, <2>4 DEF SendTerminate, Broadcast
  <2>6. Len(queue'[r]) = 1 /\ queue'[r][1] = EndFlag
    BY <2>5
  <2>7. QED
    BY <2>6
<1>4. ASSUME NEW r \in Receivers, Collect(r) PROVE TerminateReachesAll'
  <2>1. phase[0] \notin {"timed", "joining", "closed"}
    BY <1>4 DEF Collect, MainKnows, AllReady
  <2>2. QED
    BY <1>4, <2>1 DEF Collect
<1>5. ASSUME NEW r \in Receivers, SetPromise(r) PROVE TerminateReachesAll'
  BY <1>5 DEF SetPromise, setupVars
<1>6. ASSUME NEW r \in Receivers, AwaitEnd(r) PROVE TerminateReachesAll'
  <2>1. ASSUME phase[0] = "joining", Head(queue[r]) # EndFlag,
               NEW i \in 1 .. Len(queue[r]), queue[r][i] = EndFlag
        PROVE  i - 1 \in 1 .. Len(Tail(queue[r])) /\ Tail(queue[r])[i - 1] = EndFlag
    BY <1>6, <2>1 DEF AwaitEnd
  <2>2. SUFFICES ASSUME punctual, phase[0] = "joining", ~Exited, NEW t \in Receivers
                 PROVE  \/ phase'[t] \in {"leaving", "closed"}
                        \/ \E i \in 1 .. Len(queue'[t]) : queue'[t][i] = EndFlag
    BY <1>6 DEF AwaitEnd, setupVars
  <2>3. CASE t # r
    BY <1>6, <2>2, <2>3 DEF AwaitEnd
  <2>4. CASE t = r /\ Head(queue[r]) = EndFlag
    BY <1>6, <2>4 DEF AwaitEnd
  <2>5. CASE t = r /\ Head(queue[r]) # EndFlag
    <3>1. PICK i \in 1 .. Len(queue[r]) : queue[r][i] = EndFlag
      BY <1>6, <2>2, <2>5 DEF AwaitEnd
    <3>2. queue'[r] = Tail(queue[r])
      BY <1>6 DEF AwaitEnd
    <3>3. QED
      BY <2>1, <2>2, <2>5, <3>1, <3>2
  <2>6. QED
    BY <2>3, <2>4, <2>5
<1>7. ASSUME NEW r \in Receivers, Close(r) PROVE TerminateReachesAll'
  BY <1>7 DEF Close
<1>8. ASSUME NEW m \in Members, Setup(m) PROVE TerminateReachesAll'
  <2>1. UNCHANGED <<phase, queue>>
    BY <1>8 DEF Setup, workVars
  <2>2. CASE DialRefused(m)
    BY <2>2, ExitAll DEF DialRefused
  <2>3. CASE Listen(m) \/ Settle(m) \/ Dial(m) \/ FinishSetup(m)
    <3>1. punctual' = punctual /\ stage[m] # "exited"
      BY <2>3 DEF Listen, Settle, Dial, FinishSetup
    <3>2. ~Exited
      BY <3>1 DEF ExitTogether
    <3>3. QED
      BY <2>1, <3>1, <3>2
  <2>4. QED
    BY <1>8, <2>2, <2>3 DEF Setup, SetupStep
<1>9. ASSUME NEW m \in Members, CallFails(m) PROVE TerminateReachesAll'
  BY <1>9, ExitAll DEF CallFails
<1>10. QED
  BY <1>1, <1>2, <1>3, <1>4, <1>5, <1>6, <1>7, <1>8, <1>9 DEF Next, MainStep, ReceiverStep

------------------------------------------------------------------------------

\* The initial states satisfy the invariant.
LEMMA InitIInv == Init => IInv
<1>. SUFFICES ASSUME Init PROVE IInv
  OBVIOUS
<1>1. TypeOK
  BY TypeInit
<1>2. ExitTogether /\ ByTheRules /\ SleepsSuffice /\ DialedStaysUp
  BY DEF Init, SetupInit, ExitTogether, ByTheRules, SleepsSuffice, DialedStaysUp
<1>3. OwnPhases /\ MainKnows
  BY MembersFacts DEF Init, OwnPhases, MainKnows, MainPhases, ReceiverPhases
<1>4. FlagIsLast /\ NoEarlyTerminate
  BY MessageFacts, PerfBusAssumption DEF Init, FlagIsLast, NoEarlyTerminate, EndFlag
<1>5. QuietBeforeStart
  BY MembersFacts DEF Init, QuietBeforeStart
<1>6. TerminateReachesAll
  BY MembersFacts DEF Init, TerminateReachesAll
<1>7. QED
  BY <1>1, <1>2, <1>3, <1>4, <1>5, <1>6 DEF IInv

\* Every step keeps the invariant.
LEMMA IInvStep == IInv /\ [Next]_vars => IInv'
<1>. SUFFICES ASSUME IInv, [Next]_vars PROVE IInv'
  OBVIOUS
<1>1. TypeOK'
  BY TypeStep DEF IInv
<1>2. ExitTogether' /\ ByTheRules' /\ SleepsSuffice'
  BY MeshInvariant DEF IInv
<1>3. DialedStaysUp'
  BY DialedStep DEF IInv
<1>4. OwnPhases' /\ MainKnows'
  BY PhaseStep DEF IInv
<1>5. FlagIsLast' /\ NoEarlyTerminate'
  BY FlagStep DEF IInv
<1>6. TerminateReachesAll'
  BY <1>1, <1>2, <1>4, TerminateStep
<1>7. QuietBeforeStart'
  BY QuietStep DEF IInv
<1>8. QED
  BY <1>1, <1>2, <1>3, <1>4, <1>5, <1>6, <1>7 DEF IInv

\* The inductive invariant holds in every reachable state.
THEOREM InductiveInvariant == Spec => []IInv
  BY InitIInv, IInvStep, PTL DEF Spec

\* No two members are ever joined by two connections.
THEOREM OneLink == Spec => []OneLinkPerPair
<1>1. IInv => OneLinkPerPair
  BY MeshOnce, TargetsAreOthers DEF IInv, ByTheRules, OneLinkPerPair
<1>2. QED
  BY <1>1, InductiveInvariant, PTL

\* When the sleeps are long enough, no dial is refused.
THEOREM DialsSucceed == Spec => []NoDialRefused
<1>1. IInv => NoDialRefused
  BY TargetsAreOthers
  DEF IInv, NoDialRefused, SleepsSuffice, Populated, ByTheRules, ExitTogether, Listening
<1>2. QED
  BY <1>1, InductiveInvariant, PTL

\* When the sleeps are long enough, the mesh is complete when it is used.
THEOREM MeshReady == Spec => []MeshUp
<1>1. IInv => MeshUp
  BY MeshIsUp DEF IInv
<1>2. QED
  BY <1>1, InductiveInvariant, PTL

\* No receiver takes the terminate message for a sequence number.
THEOREM NotTerminatedEarly == Spec => []NoEarlyTerminate
<1>1. IInv => NoEarlyTerminate
  BY DEF IInv
<1>2. QED
  BY <1>1, InductiveInvariant, PTL

\* When the sleeps are long enough, the terminate message reaches everybody.
THEOREM TerminateArrives == Spec => []TerminateReachesAll
<1>1. IInv => TerminateReachesAll
  BY DEF IInv
<1>2. QED
  BY <1>1, InductiveInvariant, PTL

------------------------------------------------------------------------------

\* A step that moves no phase and no promise, and does not exit, is a stutter
\* of the measurement.
LEMMA StutterOfMeasurement ==
  ASSUME UNCHANGED <<phase, promise>>, Exited' <=> Exited
  PROVE  UNCHANGED M!vars
  BY DEF M!vars

\* Exiting aborts the measurement, at any time before the report.
LEMMA ExitAborts ==
  ASSUME IInv, NEW m \in Members, stage[m] # "exited", phase[m] # "closed",
         Exit(m), UNCHANGED workVars
  PROVE  M!Abort
<1>1. ~Exited /\ Exited'
  BY ExitAll, MembersFacts DEF IInv, Exited, ExitTogether
<1>2. phase[0] # "closed"
  BY MembersFacts DEF IInv, MainKnows
<1>3. QED
  BY <1>1, <1>2 DEF M!Abort, workVars

\* Every step is a step of the abstract measurement, or none of it.
LEMMA MeasurementStep ==
  ASSUME IInv, IInv', [Next]_vars
  PROVE  M!Next \/ UNCHANGED M!vars
<1>. USE MembersFacts, MessageFacts DEF IInv, TypeOK, SetupTypeOK, InPhase, Become, Exited
<1>1. CASE UNCHANGED vars
  BY <1>1, StutterOfMeasurement DEF vars, setupVars, workVars
<1>2. CASE StartClock
  BY <1>2 DEF StartClock, setupVars, M!Start, M!Next
<1>3. CASE Spray
  BY <1>3 DEF Spray, setupVars, M!vars
<1>4. CASE Poll
  <2>1. CASE AllReady
    BY <1>4, <2>1 DEF Poll, AllReady, setupVars, M!Stop, M!Next
  <2>2. CASE ~AllReady
    BY <1>4, <2>2 DEF Poll, setupVars, M!vars
  <2>3. QED
    BY <2>1, <2>2
<1>5. CASE SendTerminate
  BY <1>5 DEF SendTerminate, setupVars, M!vars
<1>6. CASE JoinAll
  BY <1>6 DEF JoinAll, M!Report, M!Next
<1>7. ASSUME NEW r \in Receivers, Collect(r) PROVE M!Next \/ UNCHANGED M!vars
  BY <1>7, StutterOfMeasurement DEF Collect, setupVars
<1>8. ASSUME NEW r \in Receivers, SetPromise(r) PROVE M!Next \/ UNCHANGED M!vars
  <2>1. promise[r] = Unset /\ promise'[r] # Unset
    BY <1>8 DEF SetPromise, MainKnows
  <2>2. {t \in Receivers : promise'[t] # Unset} = {t \in Receivers : promise[t] # Unset} \cup {r}
    BY <1>8, <2>1 DEF SetPromise
  <2>3. phase[0] \in {"spraying", "polling"}
    <3>1. phase[0] # "waiting"
      BY <1>8, PerfBusAssumption DEF SetPromise, QuietBeforeStart
    <3>2. phase[0] \notin {"timed", "joining", "closed"}
      BY <1>8 DEF SetPromise, MainKnows, AllReady
    <3>3. QED
      BY <3>1, <3>2 DEF OwnPhases, MainPhases
  <2>4. ~Exited /\ ~Exited'
    BY <1>8 DEF SetPromise, ExitTogether, setupVars
  <2>5. phase'[0] = phase[0]
    BY <1>8 DEF SetPromise
  <2>6. M!Finish(r)
    BY <2>1, <2>2, <2>3, <2>4, <2>5 DEF M!Finish
  <2>7. QED
    BY <2>6 DEF M!Next
<1>9. ASSUME NEW r \in Receivers, AwaitEnd(r) PROVE M!Next \/ UNCHANGED M!vars
  BY <1>9 DEF AwaitEnd, setupVars, M!vars
<1>10. ASSUME NEW r \in Receivers, Close(r) PROVE M!Next \/ UNCHANGED M!vars
  BY <1>10 DEF Close, M!vars
<1>11. ASSUME NEW m \in Members, Setup(m) PROVE M!Next \/ UNCHANGED M!vars
  <2>1. UNCHANGED workVars
    BY <1>11 DEF Setup
  <2>2. CASE DialRefused(m)
    BY <2>1, <2>2, ExitAborts DEF DialRefused, OwnPhases, MainKnows, MainPhases, ReceiverPhases, M!Next
  <2>3. CASE Listen(m) \/ Settle(m) \/ Dial(m) \/ FinishSetup(m)
    BY <2>1, <2>3, StutterOfMeasurement DEF Listen, Settle, Dial, FinishSetup, workVars
  <2>4. QED
    BY <1>11, <2>2, <2>3 DEF Setup, SetupStep
<1>12. ASSUME NEW m \in Members, CallFails(m) PROVE M!Next \/ UNCHANGED M!vars
  BY <1>12, ExitAborts DEF CallFails, M!Next
<1>13. QED
  BY <1>1, <1>2, <1>3, <1>4, <1>5, <1>6, <1>7, <1>8, <1>9, <1>10, <1>11, <1>12
  DEF Next, MainStep, ReceiverStep

\* The program implements a measurement: its clock runs until every receiver
\* has set its promise, and a report is made of a stopped clock only.
THEOREM KeepsTheMeasurement == Spec => BusIsMeasurement
<1>1. Init => M!Init
  BY MembersFacts DEF Init, SetupInit, M!Init, Exited
<1>2. IInv /\ IInv' /\ [Next]_vars => [M!Next]_(M!vars)
  BY MeasurementStep
<1>3. QED
  BY <1>1, <1>2, InductiveInvariant, PTL DEF Spec, BusIsMeasurement, M!Spec

------------------------------------------------------------------------------

\* Natural numbers have a least one among them.
LEMMA LeastOf ==
  ASSUME NEW S \in SUBSET Nat, S # {}
  PROVE  \E p \in S : \A q \in S : p <= q
<1> DEFINE R == {ss \in Nat \X Nat : ss[1] < ss[2]}
<1>1. OpToRel(<, Nat) = R
  BY Zenon DEF OpToRel
<1>2. IsWellFoundedOn(R, Nat)
  BY <1>1, NatLessThanWellFounded, Zenon
<1> HIDE DEF R
<1>3. PICK p \in S : \A q \in S : <<q, p>> \notin R
  BY <1>2, WFMin
<1>4. ASSUME NEW q \in S PROVE p <= q
  <2>1. q \in Nat /\ p \in Nat /\ <<q, p>> \notin R
    BY <1>3
  <2>2. <<q, p>> \in Nat \X Nat /\ <<q, p>>[1] = q /\ <<q, p>>[2] = p
    BY <2>1
  <2>3. ~(q < p)
    BY <2>1, <2>2 DEF R
  <2>4. QED
    BY <2>1, <2>3
<1>5. QED
  BY <1>4

\* Can a member take a step of setupBus?
CanSetUp(m) ==
  \/ stage[m] = "opened"
  \/ stage[m] = "settling" /\ (punctual => Populated)
  \/ stage[m] = "dialing" /\ \E p \in pending[m] : NextTarget(m, p)
  \/ stage[m] = "dialing" /\ pending[m] = {} /\ (punctual => EveryoneDialed)

\* Can main, or a receiver, that is set up take a step?  The guards of MainStep
\* and of ReceiverStep.
MainCanStep ==
  \/ InPhase(0, "waiting") \/ InPhase(0, "spraying") \/ InPhase(0, "polling")
  \/ InPhase(0, "timed") /\ (punctual => EverybodyIdle)
  \/ InPhase(0, "joining") /\ \A r \in Receivers : phase[r] = "closed"

CanStep(r) ==
  \/ InPhase(r, "collecting") /\ (lastseq[r] >= NMsg \/ queue[r] # <<>>)
  \/ InPhase(r, "awaiting") /\ queue[r] # <<>>
  \/ InPhase(r, "leaving")

\* The members do not wait for each other in setupBus: until all are ready, one
\* of them can go on.
LEMMA SetupGoesOn ==
  ASSUME TypeOK, ~\E m \in Members : stage[m] = "exited", NEW k \in Members, stage[k] # "ready"
  PROVE  \E m \in Members : CanSetUp(m)
<1> SUFFICES ASSUME \A m \in Members : ~CanSetUp(m) PROVE FALSE
  OBVIOUS
<1>1. \A m \in Members : stage[m] \in Stages /\ pending[m] \in SUBSET Members
  BY DEF TypeOK, SetupTypeOK
<1>2. Populated
  BY DEF CanSetUp, Populated
<1>3. \A m \in Members : stage[m] \in {"dialing", "ready"}
  BY <1>1, <1>2 DEF CanSetUp, Stages
<1>4. ASSUME NEW m \in Members, stage[m] = "dialing" PROVE pending[m] = {}
  <2>1. SUFFICES ASSUME pending[m] # {} PROVE FALSE
    OBVIOUS
  <2>2. pending[m] \in SUBSET Nat
    BY <1>1 DEF Members
  <2>3. PICK p \in pending[m] : \A q \in pending[m] : p <= q
    BY <2>1, <2>2, LeastOf
  <2>4. QED
    BY <1>4, <2>3 DEF CanSetUp, NextTarget
<1>5. EveryoneDialed
  BY <1>3, <1>4 DEF EveryoneDialed
<1>6. QED
  BY <1>3, <1>4, <1>5 DEF CanSetUp

\* No receiver leaves before main has sent the terminate message.
NobodyLeavesEarly ==
  phase[0] \notin {"joining", "closed"} =>
    \A r \in Receivers : phase[r] \in {"collecting", "awaiting"}

LEMMA NobodyLeaves == Spec => []NobodyLeavesEarly
<1>1. Init => NobodyLeavesEarly
  BY MembersFacts DEF Init, NobodyLeavesEarly
<1>2. ASSUME IInv, NobodyLeavesEarly, [Next]_vars PROVE NobodyLeavesEarly'
  <2> USE MembersFacts DEF InPhase, Become, NobodyLeavesEarly, MainPhases, ReceiverPhases
  <2>1. phase \in [Members -> MainPhases \cup ReceiverPhases]
    BY <1>2 DEF IInv, TypeOK
  <2>2. CASE UNCHANGED phase
    BY <1>2, <2>2
  <2>3. CASE MainStep
    BY <1>2, <2>1, <2>3 DEF MainStep, StartClock, Spray, Poll, SendTerminate, JoinAll
  <2>4. ASSUME NEW r \in Receivers, SetPromise(r) \/ Close(r) PROVE NobodyLeavesEarly'
    BY <1>2, <2>1, <2>4 DEF SetPromise, Close
  <2>5. ASSUME NEW r \in Receivers, AwaitEnd(r) PROVE NobodyLeavesEarly'
    <3>1. CASE phase[0] \in {"joining", "closed"}
      BY <1>2, <2>1, <2>5, <3>1 DEF AwaitEnd
    <3>2. CASE phase[0] \notin {"joining", "closed"}
      <4>1. queue[r] \in Seq(Messages) /\ queue[r] # <<>>
        BY <1>2, <2>5 DEF AwaitEnd, IInv, TypeOK
      <4>2. 1 \in 1 .. Len(queue[r]) /\ Head(queue[r]) = queue[r][1]
        BY <4>1
      <4>3. Head(queue[r]) # EndFlag
        BY <1>2, <3>2, <4>2 DEF IInv, FlagIsLast
      <4>4. QED
        BY <1>2, <2>1, <2>5, <4>3 DEF AwaitEnd
    <3>3. QED
      BY <3>1, <3>2
  <2>6. QED
    BY <1>2, <2>2, <2>3, <2>4, <2>5 DEF Next, ReceiverStep, Collect, Setup, CallFails, vars, workVars
<1>3. QED
  BY <1>1, <1>2, InductiveInvariant, PTL DEF Spec

\* The program can always go on, with one exception: its sleeps were too short,
\* the terminate message missed a receiver, that receiver waits for it, and main
\* for the receiver.  Whatever else the bus drops, nobody waits for it for ever.
THEOREM WaitsEnd ==
  Spec => [](
    \/ Exited \/ phase[0] = "closed"
    \/ MainCanStep
    \/ \E m \in Members : CanSetUp(m)
    \/ \E r \in Receivers : CanStep(r)
    \/ /\ ~punctual /\ InPhase(0, "joining")
       /\ \E r \in Receivers : InPhase(r, "awaiting") /\ queue[r] = <<>>)
<1> DEFINE Missed == /\ ~punctual /\ InPhase(0, "joining")
                     /\ \E r \in Receivers : InPhase(r, "awaiting") /\ queue[r] = <<>>
<1>1. ASSUME IInv, NobodyLeavesEarly, ~Exited, phase[0] # "closed", ~MainCanStep,
             \A m \in Members : ~CanSetUp(m), \A r \in Receivers : ~CanStep(r)
      PROVE  Missed
  <2>1. \A m \in Members : stage[m] = "ready"
    BY <1>1, SetupGoesOn, MembersFacts DEF IInv, ExitTogether, Exited
  <2>2. phase[0] \in {"timed", "joining"}
    BY <1>1, <2>1, MembersFacts DEF MainCanStep, InPhase, IInv, OwnPhases, MainPhases
  <2>3. ASSUME NEW r \in Receivers PROVE phase[r] \in {"awaiting", "closed"}
    BY <1>1, <2>1, <2>2, MembersFacts
       DEF CanStep, InPhase, IInv, OwnPhases, ReceiverPhases, MainKnows, AllReady
  <2>4. ASSUME NEW r \in Receivers, phase[r] = "awaiting" PROVE InPhase(r, "awaiting") /\ queue[r] = <<>>
    BY <1>1, <2>1, <2>4, MembersFacts DEF CanStep, InPhase
  <2>5. phase[0] = "joining"
    <3>1. ASSUME phase[0] = "timed" PROVE FALSE
      <4>1. \A r \in Receivers : phase[r] = "awaiting"
        BY <1>1, <2>3, <3>1 DEF NobodyLeavesEarly
      <4>2. EverybodyIdle
        BY <2>4, <4>1 DEF EverybodyIdle
      <4>3. QED
        BY <1>1, <2>1, <3>1, <4>2, MembersFacts DEF MainCanStep, InPhase
    <3>2. QED
      BY <2>2, <3>1
  <2>6. InPhase(0, "joining")
    BY <2>1, <2>5, MembersFacts DEF InPhase
  <2>7. PICK r \in Receivers : phase[r] = "awaiting"
    BY <1>1, <2>3, <2>6 DEF MainCanStep
  <2>8. InPhase(r, "awaiting") /\ queue[r] = <<>>
    BY <2>4, <2>7
  <2>9. ~punctual
    <3>1. 1 .. Len(queue[r]) = {}
      BY <2>8
    <3>2. QED
      BY <1>1, <2>5, <2>7, <3>1 DEF IInv, TerminateReachesAll
  <2>10. QED
    BY <2>6, <2>8, <2>9
<1>2. IInv /\ NobodyLeavesEarly =>
        \/ Exited \/ phase[0] = "closed" \/ MainCanStep
        \/ \E m \in Members : CanSetUp(m)
        \/ \E r \in Receivers : CanStep(r)
        \/ Missed
  BY <1>1
<1>3. QED
  BY <1>2, InductiveInvariant, NobodyLeaves, PTL

------------------------------------------------------------------------------

\* The sample, bus.cpp: its members are processes of their own, which are stopped
\* and started again.
CONSTANT MaxStops

B == INSTANCE Bus WITH OneProcess <- FALSE

\* The messages of all runs, however often members are started again.
AllMessages == [from : B!Members, run : Nat, n : 1 .. B!SendCount]

SampleTypes ==
  /\ B!SetupTypeOK
  /\ sent \in [B!Members -> 0 .. B!SendCount]
  /\ inbox \in [B!Members -> [B!Members -> Seq(AllMessages)]]
  /\ got \in [B!Members -> SUBSET AllMessages]
  /\ run \in [B!Members -> Nat]

\* Connections, and the dials that are left, follow the dial rules.
SampleRules ==
  /\ \A m \in B!Members : pending[m] \subseteq B!DialTargets(m)
  /\ \A l \in links : l[2] \in B!DialTargets(l[1])

\* What is under way, or was reported, has been sent by a run of its sender
\* that is over, or is among the messages that the present one has sent.
Sent(msg) ==
  \/ msg.run < run[msg.from]
  \/ /\ msg.run = run[msg.from]
     /\ stage[msg.from] = "exited" \/ msg.n <= sent[msg.from]

OnlyWhatWasSent ==
  \A m, k \in B!Members :
    /\ \A msg \in Range(inbox[m][k]) : msg.from = k /\ Sent(msg)
    /\ \A msg \in got[m] : Sent(msg)

\* What is under way is in order, and newer than what was reported.
InOrder(q) == \A a \in DOMAIN q : \A b \in 1 .. a - 1 : Newer(q[a], q[b])

NewerFollow ==
  \A m, k \in B!Members :
    /\ InOrder(inbox[m][k])
    /\ \A msg \in Range(inbox[m][k]) : k # m /\ \A old \in got[m] : Newer(msg, old)

SampleIInv ==
  /\ SampleTypes
  /\ SampleRules
  /\ OnlyWhatWasSent
  /\ NewerFollow

------------------------------------------------------------------------------

\* The dial rules are those of the timing.
LEMMA SameMesh ==
  /\ B!Members = Members
  /\ \A m \in Members : B!DialTargets(m) = DialTargets(m)
  BY DEF B!Members, B!DialTargets, B!After, Members, DialTargets, After

\* Whom a member dials is on the bus.
LEMMA TargetsAreMembers ==
  ASSUME NEW m \in B!Members
  PROVE  B!DialTargets(m) \subseteq B!Members
  BY SameMesh, TargetsAreOthers

\* Nobody dials itself, and of two members only one dials the other.
LEMMA DialedOneWay ==
  ASSUME NEW m \in B!Members, NEW k \in B!Members, k \in B!DialTargets(m)
  PROVE  k # m /\ m \notin B!DialTargets(k)
  BY SameMesh, TargetsAreOthers, MeshOnce

\* Sizes of sets are those of FiniteSets.
LEMMA SameCardinality == \A S : B!Cardinality(S) = Cardinality(S)
  BY DEF B!Cardinality, Cardinality

\* There is at most one connection between two members, and none from one to
\* itself.
LEMMA OnePipe ==
  ASSUME SampleIInv, NEW m \in B!Members, NEW k \in B!Members
  PROVE  /\ B!Cardinality(B!Pipes(m, k)) \in 0 .. 1
         /\ m = k => B!Cardinality(B!Pipes(m, k)) = 0
<1>1. \A i, j \in B!Members : <<i, j>> \in links => (i # j /\ <<j, i>> \notin links)
  <2>1. \A i, j \in B!Members : <<i, j>> \in links => j \in B!DialTargets(i)
    BY DEF SampleIInv, SampleRules
  <2>2. QED
    BY <2>1, DialedOneWay
<1>2. \/ B!Pipes(m, k) = {}
      \/ m # k /\ B!Pipes(m, k) = {<<m, k>>}
      \/ m # k /\ B!Pipes(m, k) = {<<k, m>>}
  BY <1>1 DEF B!Pipes
<1>3. /\ B!Cardinality({}) = 0
      /\ B!Cardinality({<<m, k>>}) = 1
      /\ B!Cardinality({<<k, m>>}) = 1
  BY SameCardinality, FS_EmptySet, FS_Singleton
<1>4. CASE B!Pipes(m, k) = {}
  BY <1>3, <1>4
<1>5. CASE m # k /\ (B!Pipes(m, k) = {<<m, k>>} \/ B!Pipes(m, k) = {<<k, m>>})
  BY <1>3, <1>5
<1>6. QED
  BY <1>2, <1>4, <1>5

\* A message that is offered over at most one connection comes at the end of the
\* queue, or not at all.
LEMMA OfferFacts ==
  ASSUME NEW q \in Seq(AllMessages), NEW msg \in AllMessages, NEW copies \in 0 .. 1
  PROVE  /\ B!Offer(q, msg, copies) \in Seq(AllMessages)
         /\ \/ B!Offer(q, msg, copies) = q
            \/ copies = 1 /\ B!Offer(q, msg, copies) = Append(q, msg)
<1> DEFINE room == QueueBound - Len(q)
           number == B!Min({copies, room})
           offered == [k \in 1 .. number |-> msg]
<1>1. room \in Int /\ number \in {copies, room} /\ number <= copies
  <2>1. room \in Int /\ copies \in Int
    BY PerfBusAssumption
  <2>2. \E x \in {copies, room} : \A y \in {copies, room} : x <= y
    BY <2>1
  <2>3. number \in {copies, room} /\ \A y \in {copies, room} : number <= y
    BY <2>2 DEF B!Min
  <2>4. QED
    BY <2>1, <2>3
<1>2. number \in Int
  BY <1>1
<1> HIDE DEF room, number
<1>3. CASE number <= 0
  <2>1. 1 .. number = {}
    BY <1>2, <1>3
  <2>2. offered = <<>>
    BY <2>1
  <2>3. QED
    BY <2>2, ConcatEmptySeq DEF B!Offer, number, room
<1>4. CASE number = 1
  <2>1. 1 .. number = 1 .. 1
    BY <1>4
  <2>2. offered = <<msg>>
    BY <2>1
  <2>3. q \o <<msg>> = Append(q, msg) /\ Append(q, msg) \in Seq(AllMessages)
    BY AppendIsConcat, AppendProperties
  <2>4. copies = 1
    BY <1>1, <1>4
  <2>5. QED
    BY <2>2, <2>3, <2>4 DEF B!Offer, number, room
<1>5. QED
  BY <1>1, <1>2, <1>3, <1>4

\* A message added to a queue.
LEMMA AppendFacts ==
  ASSUME NEW q \in Seq(AllMessages), NEW msg \in AllMessages
  PROVE  /\ Range(Append(q, msg)) = Range(q) \cup {msg}
         /\ (InOrder(q) /\ \A old \in Range(q) : Newer(msg, old)) => InOrder(Append(q, msg))
<1>1. DOMAIN q = 1 .. Len(q) /\ Len(q) \in Nat
  OBVIOUS
<1>2. /\ DOMAIN Append(q, msg) = 1 .. Len(q) + 1
      /\ \A a \in 1 .. Len(q) : Append(q, msg)[a] = q[a]
      /\ Append(q, msg)[Len(q) + 1] = msg
  BY AppendProperties
<1>3. Range(Append(q, msg)) = Range(q) \cup {msg}
  BY <1>1, <1>2 DEF Range
<1>4. ASSUME InOrder(q), \A old \in Range(q) : Newer(msg, old)
      PROVE  InOrder(Append(q, msg))
  <2> SUFFICES ASSUME NEW a \in 1 .. Len(q) + 1, NEW b \in 1 .. a - 1
               PROVE  Newer(Append(q, msg)[a], Append(q, msg)[b])
    BY <1>2 DEF InOrder
  <2>1. b \in 1 .. Len(q) /\ Append(q, msg)[b] = q[b] /\ q[b] \in Range(q)
    BY <1>1, <1>2 DEF Range
  <2>2. CASE a = Len(q) + 1
    BY <1>2, <1>4, <2>1, <2>2
  <2>3. CASE a \in 1 .. Len(q)
    BY <1>1, <1>2, <1>4, <2>1, <2>3 DEF InOrder
  <2>4. QED
    BY <2>2, <2>3
<1>5. QED
  BY <1>3, <1>4

\* The oldest message taken out of a queue.
LEMMA TailFacts ==
  ASSUME NEW q \in Seq(AllMessages), q # <<>>
  PROVE  /\ Tail(q) \in Seq(AllMessages)
         /\ Head(q) \in AllMessages /\ Head(q) \in Range(q)
         /\ Range(Tail(q)) \subseteq Range(q)
         /\ InOrder(q) => /\ InOrder(Tail(q))
                          /\ \A msg \in Range(Tail(q)) : Newer(msg, Head(q))
<1>1. /\ DOMAIN q = 1 .. Len(q) /\ Len(q) \in Nat \ {0}
      /\ Tail(q) \in Seq(AllMessages)
      /\ DOMAIN Tail(q) = 1 .. Len(q) - 1
      /\ \A a \in 1 .. Len(q) - 1 : Tail(q)[a] = q[a + 1]
      /\ Head(q) = q[1] /\ q[1] \in AllMessages
  BY HeadTailProperties, EmptySeq
<1>2. Range(Tail(q)) \subseteq Range(q) /\ Head(q) \in Range(q)
  <2>1. ASSUME NEW a \in 1 .. Len(q) - 1 PROVE Tail(q)[a] \in Range(q)
    <3>1. a + 1 \in 1 .. Len(q) /\ Tail(q)[a] = q[a + 1]
      BY <1>1
    <3>2. QED
      BY <1>1, <3>1 DEF Range
  <2>2. Head(q) \in Range(q)
    BY <1>1 DEF Range
  <2>3. QED
    BY <1>1, <2>1, <2>2 DEF Range
<1>3. ASSUME InOrder(q) PROVE InOrder(Tail(q))
  <2> SUFFICES ASSUME NEW a \in 1 .. Len(q) - 1, NEW b \in 1 .. a - 1
               PROVE  Newer(Tail(q)[a], Tail(q)[b])
    BY <1>1 DEF InOrder
  <2>1. a + 1 \in DOMAIN q /\ b + 1 \in 1 .. (a + 1) - 1 /\ b \in 1 .. Len(q) - 1
    BY <1>1
  <2>2. QED
    BY <1>1, <1>3, <2>1 DEF InOrder
<1>4. ASSUME InOrder(q), NEW msg \in Range(Tail(q)) PROVE Newer(msg, Head(q))
  <2>1. PICK a \in 1 .. Len(q) - 1 : msg = Tail(q)[a]
    BY <1>1 DEF Range
  <2>2. a + 1 \in DOMAIN q /\ 1 \in 1 .. (a + 1) - 1 /\ q[a + 1] = msg
    BY <1>1, <2>1
  <2>3. QED
    BY <1>1, <1>4, <2>2 DEF InOrder
<1>5. QED
  BY <1>1, <1>2, <1>3, <1>4

\* An empty queue is in order.
LEMMA EmptyFacts ==
  /\ \A S : <<>> \in Seq(S)
  /\ Range(<<>>) = {}
  /\ InOrder(<<>>)
  BY DEF Range, InOrder

------------------------------------------------------------------------------

\* The initial states satisfy the invariant.
LEMMA SampleInitInv == B!Init => SampleIInv
<1> SUFFICES ASSUME B!Init PROVE SampleIInv
  OBVIOUS
<1>2. \A m \in B!Members : B!DialTargets(m) \subseteq B!Members
  BY TargetsAreMembers
<1>3. SampleTypes
  <2>1. B!SetupTypeOK
    BY <1>2 DEF B!Init, B!SetupInit, B!SetupTypeOK, B!Stages
  <2>2. B!NothingWaits \in [B!Members -> Seq(AllMessages)]
    BY EmptyFacts DEF B!NothingWaits
  <2>3. QED
    BY <2>1, <2>2 DEF B!Init, SampleTypes, B!SendCount
<1>4. SampleRules
  BY DEF B!Init, B!SetupInit, SampleRules
<1>5. OnlyWhatWasSent /\ NewerFollow
  <2>1. \A m, k \in B!Members : inbox[m][k] = <<>> /\ got[m] = {}
    BY DEF B!Init, B!NothingWaits
  <2>2. QED
    BY <2>1, EmptyFacts DEF OnlyWhatWasSent, NewerFollow
<1>6. QED
  BY <1>3, <1>4, <1>5 DEF SampleIInv

\* What the invariant says of a message that waits, or was reported.
LEMMA WaitingFacts ==
  ASSUME SampleIInv, NEW m \in B!Members, NEW k \in B!Members
  PROVE  /\ inbox[m][k] \in Seq(AllMessages)
         /\ \A msg \in Range(inbox[m][k]) : msg \in AllMessages /\ msg.from = k /\ Sent(msg)
         /\ \A msg \in got[m] : msg \in AllMessages /\ Sent(msg)
<1>1. inbox[m][k] \in Seq(AllMessages) /\ got[m] \subseteq AllMessages
  BY DEF SampleIInv, SampleTypes
<1>2. Range(inbox[m][k]) \subseteq AllMessages
  BY <1>1, RangeOfSeq
<1>3. QED
  BY <1>1, <1>2 DEF SampleIInv, OnlyWhatWasSent

\* Setting up keeps the types and the dial rules, and nobody that has exited
\* comes back by it.
LEMMA SampleSetupFacts ==
  ASSUME SampleIInv, NEW m \in B!Members, B!SetupStep(m) \/ B!Exit(m)
  PROVE  B!SetupTypeOK' /\ SampleRules' /\ \A k \in B!Members : stage[k] = "exited" => stage'[k] = "exited"
<1> USE DEF SampleIInv, SampleTypes, B!SetupTypeOK, B!Stages
<1>1. CASE B!Exit(m)
  <2>1. \A k \in B!Members : B!DialTargets(k) \subseteq B!Members
    BY TargetsAreMembers
  <2>2. B!SetupTypeOK' /\ \A k \in B!Members : stage[k] = "exited" => stage'[k] = "exited"
    BY <1>1, <2>1 DEF B!Exit
  <2>3. SampleRules'
    BY <1>1 DEF B!Exit, SampleRules
  <2>4. QED
    BY <2>2, <2>3
<1>2. CASE B!Listen(m)
  BY <1>2 DEF B!Listen, SampleRules
<1>3. CASE B!Settle(m)
  BY <1>3 DEF B!Settle, SampleRules
<1>4. CASE B!Dial(m)
  <2>1. PICK p \in pending[m] :
          /\ links' = links \cup {<<m, p>>}
          /\ pending' = [pending EXCEPT ![m] = @ \ {p}]
    BY <1>4 DEF B!Dial
  <2>2. p \in B!DialTargets(m) /\ p \in B!Members
    BY <2>1 DEF SampleRules
  <2>3. SampleRules'
    BY <2>1, <2>2 DEF SampleRules
  <2>4. /\ pending' \in [B!Members -> SUBSET B!Members]
        /\ <<m, p>> \in B!Members \X B!Members /\ links' \subseteq B!Members \X B!Members
    <3>1. pending' \in [B!Members -> SUBSET B!Members]
      BY <2>1
    <3>2. links \subseteq B!Members \X B!Members /\ <<m, p>> \in B!Members \X B!Members
      BY <2>2
    <3>3. QED
      BY <2>1, <3>1, <3>2
  <2>5. QED
    BY <1>4, <2>3, <2>4 DEF B!Dial
<1>5. CASE B!FinishSetup(m)
  BY <1>5 DEF B!FinishSetup, SampleRules
<1>6. QED
  BY <1>1, <1>2, <1>3, <1>4, <1>5 DEF B!SetupStep, B!DialRefused

\* A member that is set up, refused or stopped: who exits forgets what it has,
\* and what it has sent remains sent.
LEMMA SetupKeepsInv ==
  ASSUME SampleIInv, NEW m \in B!Members, B!SetupStep(m) \/ B!Exit(m), B!ForgetExited
  PROVE  SampleIInv'
<1>1. B!SetupTypeOK' /\ SampleRules' /\ \A k \in B!Members : stage[k] = "exited" => stage'[k] = "exited"
  BY SampleSetupFacts
<1>2. /\ run' = run
      /\ \A k \in B!Members :
           \/ /\ stage'[k] = "exited"
              /\ inbox'[k] = B!NothingWaits /\ sent'[k] = 0 /\ got'[k] = {}
           \/ /\ stage'[k] # "exited" /\ stage[k] # "exited"
              /\ inbox'[k] = inbox[k] /\ sent'[k] = sent[k] /\ got'[k] = got[k]
  BY <1>1 DEF B!ForgetExited
<1>3. SampleTypes'
  <2>1. B!NothingWaits \in [B!Members -> Seq(AllMessages)]
    BY EmptyFacts DEF B!NothingWaits
  <2>2. inbox' \in [B!Members -> [B!Members -> Seq(AllMessages)]]
    BY <2>1 DEF SampleIInv, SampleTypes, B!ForgetExited
  <2>3. /\ sent' \in [B!Members -> 0 .. B!SendCount]
        /\ got' \in [B!Members -> SUBSET AllMessages]
        /\ run' \in [B!Members -> Nat]
    BY DEF SampleIInv, SampleTypes, B!ForgetExited, B!SendCount
  <2>4. QED
    BY <1>1, <2>2, <2>3 DEF SampleTypes
<1>4. \A msg \in AllMessages : Sent(msg) => Sent(msg)'
  BY <1>2 DEF Sent, AllMessages
<1>5. ASSUME NEW k \in B!Members, NEW j \in B!Members
      PROVE  \/ inbox'[k][j] = <<>> /\ got'[k] = {}
             \/ inbox'[k][j] = inbox[k][j] /\ got'[k] = got[k]
  BY <1>2 DEF B!NothingWaits
<1>6. \A k, j \in B!Members :
        /\ \A msg \in Range(inbox[k][j]) : msg \in AllMessages /\ msg.from = j /\ Sent(msg)
        /\ \A msg \in got[k] : msg \in AllMessages /\ Sent(msg)
  BY WaitingFacts
<1>7. OnlyWhatWasSent'
  BY <1>4, <1>5, <1>6, EmptyFacts DEF OnlyWhatWasSent
<1>8. NewerFollow'
  BY <1>5, EmptyFacts DEF SampleIInv, NewerFollow
<1>9. QED
  BY <1>1, <1>3, <1>7, <1>8 DEF SampleIInv

\* A message is newer than what its run has sent before, wherever that is.
LEMMA SendKeepsInv ==
  ASSUME SampleIInv, NEW m \in B!Members, B!SendBusMsg(m)
  PROVE  SampleIInv'
<1> DEFINE copies(k) == B!Cardinality(B!Pipes(m, k))
<1>1. PICK msg \in AllMessages :
        /\ msg = B!Message(m, sent[m] + 1)
        /\ msg.from = m /\ msg.run = run[m] /\ msg.n = sent[m] + 1
        /\ stage[m] # "exited" /\ sent[m] + 1 \in 1 .. B!SendCount
  <2>1. stage[m] = "ready" /\ sent[m] \in 0 .. B!SendCount /\ sent[m] < B!SendCount /\ run[m] \in Nat
    BY DEF SampleIInv, SampleTypes, B!SendBusMsg
  <2>2. sent[m] + 1 \in 1 .. B!SendCount
    BY <2>1 DEF B!SendCount
  <2>3. B!Message(m, sent[m] + 1) \in AllMessages
    BY <2>1, <2>2 DEF B!Message, AllMessages
  <2>4. /\ B!Message(m, sent[m] + 1).from = m
        /\ B!Message(m, sent[m] + 1).run = run[m]
        /\ B!Message(m, sent[m] + 1).n = sent[m] + 1
    BY DEF B!Message
  <2>5. QED
    BY <2>1, <2>2, <2>3, <2>4
<1>2. /\ UNCHANGED <<B!setupVars, got, run>>
      /\ sent' = [sent EXCEPT ![m] = @ + 1]
      /\ \A k \in B!Members :
           /\ inbox'[k] = [inbox[k] EXCEPT ![m] = B!Offer(inbox[k][m], msg, copies(k))]
      /\ inbox' = [k \in B!Members |->
                     [inbox[k] EXCEPT ![m] = B!Offer(inbox[k][m], msg, copies(k))]]
  BY <1>1 DEF B!SendBusMsg
<1> HIDE DEF copies
<1>3. \A k, j \in B!Members : inbox[k] \in [B!Members -> Seq(AllMessages)] /\ inbox[k][j] \in Seq(AllMessages)
  BY DEF SampleIInv, SampleTypes
<1>4. ASSUME NEW k \in B!Members
      PROVE  /\ B!Offer(inbox[k][m], msg, copies(k)) \in Seq(AllMessages)
             /\ \/ B!Offer(inbox[k][m], msg, copies(k)) = inbox[k][m]
                \/ k # m /\ B!Offer(inbox[k][m], msg, copies(k)) = Append(inbox[k][m], msg)
  <2>1. copies(k) \in 0 .. 1 /\ (m = k => copies(k) = 0)
    BY OnePipe DEF copies
  <2>2. inbox[k][m] \in Seq(AllMessages)
    BY <1>3
  <2>3. /\ B!Offer(inbox[k][m], msg, copies(k)) \in Seq(AllMessages)
        /\ \/ B!Offer(inbox[k][m], msg, copies(k)) = inbox[k][m]
           \/ copies(k) = 1 /\ B!Offer(inbox[k][m], msg, copies(k)) = Append(inbox[k][m], msg)
    BY <1>1, <2>1, <2>2, OfferFacts
  <2>4. QED
    BY <2>1, <2>3
<1>5. ASSUME NEW k \in B!Members, NEW j \in B!Members
      PROVE  \/ inbox'[k][j] = inbox[k][j]
             \/ j = m /\ k # m /\ inbox'[k][j] = Append(inbox[k][j], msg)
  BY <1>2, <1>3, <1>4
<1>6. SampleTypes'
  <2>1. inbox' \in [B!Members -> [B!Members -> Seq(AllMessages)]]
    BY <1>2, <1>3, <1>4
  <2>2. sent' \in [B!Members -> 0 .. B!SendCount]
    BY <1>1, <1>2 DEF SampleIInv, SampleTypes, B!SendCount
  <2>3. B!SetupTypeOK'
    BY <1>2 DEF SampleIInv, SampleTypes, B!SetupTypeOK, B!setupVars
  <2>4. QED
    BY <1>2, <2>1, <2>2, <2>3 DEF SampleIInv, SampleTypes
<1>7. SampleRules'
  BY <1>2 DEF SampleIInv, SampleRules, B!setupVars
<1>8. /\ Sent(msg)'
      /\ \A old \in AllMessages : Sent(old) => (Sent(old)' /\ Newer(msg, old))
  <2>1. /\ stage' = stage /\ run' = run /\ sent'[m] = sent[m] + 1
        /\ \A k \in B!Members : k # m => sent'[k] = sent[k]
        /\ \A k \in B!Members : sent[k] \in Int /\ run[k] \in Int
    BY <1>2 DEF SampleIInv, SampleTypes, B!setupVars, B!SendCount
  <2>2. Sent(msg)'
    <3>1. msg.run = run'[msg.from] /\ msg.n <= sent'[msg.from]
      BY <1>1, <2>1
    <3>2. QED
      BY <3>1 DEF Sent
  <2>3. ASSUME NEW old \in AllMessages, Sent(old)
        PROVE  Sent(old)' /\ Newer(msg, old)
    <3>1. old.from \in B!Members /\ old.run \in Int /\ old.n \in Int
      BY DEF AllMessages, B!SendCount
    <3>2. CASE old.from = m /\ old.run = run[m]
      BY <1>1, <2>1, <2>3, <3>1, <3>2 DEF Sent, Newer
    <3>3. CASE old.from = m /\ old.run # run[m]
      BY <1>1, <2>1, <2>3, <3>1, <3>3 DEF Sent, Newer
    <3>4. CASE old.from # m
      BY <1>1, <2>1, <2>3, <3>1, <3>4 DEF Sent, Newer
    <3>5. QED
      BY <3>2, <3>3, <3>4
  <2>4. QED
    BY <2>2, <2>3
<1>9. ASSUME NEW k \in B!Members, NEW j \in B!Members
      PROVE  \/ inbox'[k][j] = inbox[k][j]
             \/ /\ j = m /\ k # m
                /\ Range(inbox'[k][j]) = Range(inbox[k][j]) \cup {msg}
                /\ InOrder(inbox'[k][j])
  <2>1. CASE inbox'[k][j] = inbox[k][j]
    BY <2>1
  <2>2. CASE j = m /\ k # m /\ inbox'[k][j] = Append(inbox[k][j], msg)
    <3>1. inbox[k][j] \in Seq(AllMessages) /\ \A old \in Range(inbox[k][j]) : Newer(msg, old)
      BY <1>8, WaitingFacts
    <3>2. InOrder(inbox[k][j])
      BY DEF SampleIInv, NewerFollow
    <3>3. QED
      BY <1>1, <2>2, <3>1, <3>2, AppendFacts
  <2>3. QED
    BY <1>5, <2>1, <2>2
<1>10. \A k, j \in B!Members :
         /\ \A old \in Range(inbox[k][j]) : old.from = j /\ Sent(old)' /\ Newer(msg, old)
         /\ \A old \in got[k] : Sent(old)' /\ Newer(msg, old)
  BY <1>8, WaitingFacts
<1>11. OnlyWhatWasSent'
  <2>1. SUFFICES ASSUME NEW k \in B!Members, NEW j \in B!Members
                 PROVE  /\ \A other \in Range(inbox'[k][j]) : other.from = j /\ Sent(other)'
                        /\ \A other \in got'[k] : Sent(other)'
    BY DEF OnlyWhatWasSent
  <2>2. got'[k] = got[k]
    BY <1>2
  <2>3. \A other \in Range(inbox'[k][j]) : other.from = j /\ Sent(other)'
    BY <1>1, <1>8, <1>9, <1>10
  <2>4. \A other \in got'[k] : Sent(other)'
    BY <1>10, <2>2
  <2>5. QED
    BY <2>3, <2>4
<1>12. NewerFollow'
  <2>1. SUFFICES ASSUME NEW k \in B!Members, NEW j \in B!Members
                 PROVE  /\ InOrder(inbox'[k][j])
                        /\ \A other \in Range(inbox'[k][j]) :
                             j # k /\ \A old \in got'[k] : Newer(other, old)
    BY DEF NewerFollow, InOrder, Newer
  <2>2. got'[k] = got[k]
    BY <1>2
  <2>3. /\ InOrder(inbox[k][j])
        /\ \A other \in Range(inbox[k][j]) : j # k /\ \A old \in got[k] : Newer(other, old)
    BY DEF SampleIInv, NewerFollow
  <2>4. QED
    BY <1>9, <1>10, <2>2, <2>3
<1>13. QED
  BY <1>6, <1>7, <1>11, <1>12 DEF SampleIInv

\* What waits behind the message that is reported is newer.
LEMMA ReceiveKeepsInv ==
  ASSUME SampleIInv, NEW m \in B!Members, B!ReceiveBusMsg(m)
  PROVE  SampleIInv'
<1>1. PICK k \in B!Members :
        /\ inbox[m][k] # <<>>
        /\ got' = [got EXCEPT ![m] = @ \cup {Head(inbox[m][k])}]
        /\ inbox' = [inbox EXCEPT ![m][k] = Tail(@)]
        /\ UNCHANGED <<B!setupVars, sent, run>>
  BY DEF B!ReceiveBusMsg
<1> DEFINE q == inbox[m][k]
           msg == Head(q)
<1>2. /\ Tail(q) \in Seq(AllMessages) /\ msg \in AllMessages /\ msg \in Range(q)
      /\ Range(Tail(q)) \subseteq Range(q)
      /\ InOrder(Tail(q)) /\ \A other \in Range(Tail(q)) : Newer(other, msg)
  <2>1. q \in Seq(AllMessages) /\ q # <<>> /\ InOrder(q)
    BY <1>1 DEF SampleIInv, SampleTypes, NewerFollow
  <2> HIDE DEF q
  <2>2. QED
    BY <2>1, TailFacts
<1>3. /\ inbox'[m][k] = Tail(q)
      /\ got'[m] = got[m] \cup {msg}
      /\ \A i, j \in B!Members : (i # m \/ j # k) => inbox'[i][j] = inbox[i][j]
      /\ \A i \in B!Members : i # m => got'[i] = got[i]
      /\ inbox' \in [B!Members -> [B!Members -> Seq(AllMessages)]]
      /\ got' \in [B!Members -> SUBSET AllMessages]
  BY <1>1, <1>2 DEF SampleIInv, SampleTypes
<1>4. SampleTypes' /\ SampleRules'
  BY <1>1, <1>3 DEF SampleIInv, SampleTypes, B!SetupTypeOK, SampleRules, B!setupVars
<1>5. \A old : Sent(old)' <=> Sent(old)
  BY <1>1 DEF Sent, B!setupVars
<1>6. msg.from = k /\ Sent(msg)
  BY <1>2 DEF SampleIInv, OnlyWhatWasSent
<1>7. ASSUME NEW i \in B!Members, NEW j \in B!Members
      PROVE  /\ Range(inbox'[i][j]) \subseteq Range(inbox[i][j]) /\ InOrder(inbox'[i][j])
             /\ got'[i] = got[i] \/ (i = m /\ got'[i] = got[i] \cup {msg})
  <2>1. got'[i] = got[i] \/ (i = m /\ got'[i] = got[i] \cup {msg})
    <3>1. CASE i = m
      BY <1>3, <3>1
    <3>2. CASE i # m
      BY <1>3, <3>2
    <3>3. QED
      BY <3>1, <3>2
  <2>2. CASE i = m /\ j = k
    BY <1>2, <1>3, <2>1, <2>2
  <2>3. CASE i # m \/ j # k
    <3>1. inbox'[i][j] = inbox[i][j]
      BY <1>3, <2>3
    <3>2. InOrder(inbox[i][j])
      BY DEF SampleIInv, NewerFollow
    <3>3. QED
      BY <2>1, <3>1, <3>2
  <2>4. QED
    BY <2>2, <2>3
<1> HIDE DEF q, msg
<1>8. OnlyWhatWasSent'
  <2>1. \A i, j \in B!Members : \A other \in Range(inbox'[i][j]) : other.from = j /\ Sent(other)
    BY <1>7 DEF SampleIInv, OnlyWhatWasSent
  <2>2. \A i \in B!Members : \A other \in got'[i] : Sent(other)
    BY <1>6, <1>7 DEF SampleIInv, OnlyWhatWasSent
  <2>3. QED
    BY <1>5, <2>1, <2>2 DEF OnlyWhatWasSent
<1>9. NewerFollow'
  <2>1. SUFFICES ASSUME NEW i \in B!Members, NEW j \in B!Members, NEW other \in Range(inbox'[i][j]),
                        NEW old \in got'[i]
                 PROVE  Newer(other, old)
    BY <1>7 DEF SampleIInv, NewerFollow
  <2>2. other \in Range(inbox[i][j]) /\ other.from = j
    BY <1>7 DEF SampleIInv, OnlyWhatWasSent
  <2>3. CASE old \in got[i]
    BY <2>2, <2>3 DEF SampleIInv, NewerFollow
  <2>4. CASE i = m /\ old = msg /\ j = k
    BY <1>2, <1>3, <2>4
  <2>5. CASE old = msg /\ j # k
    BY <1>6, <2>2, <2>5 DEF Newer
  <2>6. QED
    BY <1>7, <2>3, <2>4, <2>5
<1>10. QED
  BY <1>4, <1>8, <1>9 DEF SampleIInv

\* The messages of a new run are told from those of the runs before.
LEMMA RestartKeepsInv ==
  ASSUME SampleIInv, NEW m \in B!Members, B!Restart(m)
  PROVE  SampleIInv'
<1>1. /\ stage[m] = "exited"
      /\ run' = [run EXCEPT ![m] = @ + 1]
      /\ stage' = [stage EXCEPT ![m] = "opened"]
      /\ UNCHANGED <<pending, links, punctual, sent, inbox, got>>
  BY DEF B!Restart
<1>2. SampleTypes' /\ SampleRules'
  <2>1. stage' \in [B!Members -> B!Stages] /\ run' \in [B!Members -> Nat]
    BY <1>1 DEF SampleIInv, SampleTypes, B!SetupTypeOK, B!Stages
  <2>2. B!SetupTypeOK'
    BY <1>1, <2>1 DEF SampleIInv, SampleTypes, B!SetupTypeOK
  <2>3. SampleTypes'
    BY <1>1, <2>1, <2>2 DEF SampleIInv, SampleTypes
  <2>4. SampleRules'
    BY <1>1, <2>1 DEF SampleIInv, SampleTypes, B!SetupTypeOK, SampleRules
  <2>5. QED
    BY <2>3, <2>4
<1>3. \A msg \in AllMessages : Sent(msg) => Sent(msg)'
  BY <1>1 DEF SampleIInv, SampleTypes, B!SetupTypeOK, Sent, AllMessages
<1>4. OnlyWhatWasSent'
  BY <1>1, <1>3, WaitingFacts DEF OnlyWhatWasSent
<1>5. NewerFollow'
  BY <1>1 DEF SampleIInv, NewerFollow
<1>6. QED
  BY <1>2, <1>4, <1>5 DEF SampleIInv

\* nng dials again only what the code has dialed.
LEMMA ReconnectKeepsInv ==
  ASSUME SampleIInv, NEW m \in B!Members, NEW k \in B!Members, B!Reconnect(k, m)
  PROVE  SampleIInv'
<1>1. /\ m \in B!DialTargets(k)
      /\ links' = links \cup {<<k, m>>}
      /\ UNCHANGED <<stage, pending, punctual, B!busVars>>
  BY DEF B!Reconnect
<1>2. SampleTypes' /\ SampleRules'
  <2>1. links' \subseteq B!Members \X B!Members
    BY <1>1 DEF SampleIInv, SampleTypes, B!SetupTypeOK
  <2>2. SampleTypes'
    BY <1>1, <2>1 DEF SampleIInv, SampleTypes, B!SetupTypeOK, B!busVars
  <2>3. SampleRules'
    BY <1>1 DEF SampleIInv, SampleRules
  <2>4. QED
    BY <2>2, <2>3
<1>3. OnlyWhatWasSent' /\ NewerFollow'
  BY <1>1 DEF SampleIInv, OnlyWhatWasSent, Sent, NewerFollow, B!busVars
<1>4. QED
  BY <1>2, <1>3 DEF SampleIInv

------------------------------------------------------------------------------

\* Every step of a member, of its user and of nng keeps the invariant.
LEMMA StepKeepsInv == SampleIInv /\ [B!Next]_B!vars => SampleIInv'
<1> SUFFICES ASSUME SampleIInv, [B!Next]_B!vars PROVE SampleIInv'
  OBVIOUS
<1>1. ASSUME NEW m \in B!Members, B!Setup(m) \/ B!Kill(m) PROVE SampleIInv'
  BY <1>1, SetupKeepsInv DEF B!Setup, B!Kill
<1>2. ASSUME NEW m \in B!Members, B!SendBusMsg(m) PROVE SampleIInv'
  BY <1>2, SendKeepsInv
<1>3. ASSUME NEW m \in B!Members, B!ReceiveBusMsg(m) PROVE SampleIInv'
  BY <1>3, ReceiveKeepsInv
<1>4. ASSUME NEW m \in B!Members, B!Restart(m) PROVE SampleIInv'
  BY <1>4, RestartKeepsInv
<1>5. ASSUME NEW m \in B!Members, NEW k \in B!Members, B!Reconnect(k, m) PROVE SampleIInv'
  BY <1>5, ReconnectKeepsInv
<1>6. CASE UNCHANGED B!vars
  BY <1>6 DEF B!vars, B!setupVars, B!busVars, SampleIInv, SampleTypes, B!SetupTypeOK, SampleRules,
              OnlyWhatWasSent, Sent, NewerFollow
<1>7. QED
  BY <1>1, <1>2, <1>3, <1>4, <1>5, <1>6 DEF B!Next

\* The inductive invariant of bus.cpp.
THEOREM SampleInvariant == B!Spec => []SampleIInv
  BY SampleInitInv, StepKeepsInv, PTL DEF B!Spec

\* Whatever members are stopped, started again and dialed again, by setupBus or
\* in the background: no two connections join the same pair.
THEOREM SampleOneLink == B!Spec => []OneLinkPerPair
<1>1. SampleIInv => OneLinkPerPair
  BY SameMesh, DialedOneWay DEF SampleIInv, SampleRules, OneLinkPerPair
<1>2. QED
  BY <1>1, SampleInvariant, PTL

\* No message of a run is reported twice or before an older one.
THEOREM OnceAndInOrder == B!Spec => []OnceInOrder
<1>1. SampleIInv => OnceInOrder
  <2> SUFFICES ASSUME SampleIInv, NEW m \in B!Members, NEW k \in B!Members, NEW i \in DOMAIN inbox[m][k]
               PROVE  /\ k # m
                      /\ \A old \in got[m] : Newer(inbox[m][k][i], old)
                      /\ \A j \in 1 .. i - 1 : Newer(inbox[m][k][i], inbox[m][k][j])
    BY SameMesh DEF OnceInOrder
  <2>1. inbox[m][k][i] \in Range(inbox[m][k])
    BY DEF Range
  <2>2. QED
    BY <2>1 DEF SampleIInv, NewerFollow, InOrder
<1>2. QED
  BY <1>1, SampleInvariant, PTL

==============================================================================
