------------------------------- MODULE PerfBus -------------------------------
(***************************************************************************)
(* performance/bus.cpp: the timing of a bus.  Member 0 is the main thread, *)
(* the other members are receiver threads of the same process.  Bus sends  *)
(* are not reliable, so member 0 sprays numbered messages until every      *)
(* receiver has set its promise, stops the clock, sleeps, sends one        *)
(* terminate message and joins the receivers.                              *)
(***************************************************************************)
EXTENDS BusSetup, Sequences

CONSTANTS
  NMsg,         \* a receiver is done at a sequence number of at least NMsg (argv[2])
  SeqBound,     \* the sequence counter saturates here: receivers only ask whether
                \* a number has reached NMsg
  QueueBound    \* messages that fit between the sender and one receiver

ASSUME PerfBusAssumption ==
  /\ OneProcess
  /\ NMsg \in Nat \ {0}     \* with 0, receivers would be done before the clock runs
  /\ SeqBound \in Nat /\ SeqBound >= NMsg
  /\ QueueBound \in Nat \ {0}

Receivers == Members \ {0}
EndFlag == SeqBound + 1     \* 0xffffffff, above every sequence number
Unset == -1                 \* a promise without a value

VARIABLES
  phase,      \* what each member does once it is set up
  seq,        \* the next sequence number of main
  queue,      \* what is on its way to each receiver, oldest first
  lastseq,    \* the last sequence number each receiver has read
  promise     \* the value of each receiver's promise

workVars == <<phase, seq, queue, lastseq, promise>>
vars == <<setupVars, workVars>>

MainPhases == {"waiting", "spraying", "polling", "timed", "joining", "closed"}
ReceiverPhases == {"collecting", "awaiting", "leaving", "closed"}
Messages == 0 .. EndFlag

TypeOK ==
  /\ SetupTypeOK
  /\ phase \in [Members -> MainPhases \cup ReceiverPhases]
  /\ seq \in 0 .. SeqBound
  /\ queue \in [Receivers -> Seq(Messages)]
  /\ lastseq \in [Receivers -> Messages]
  /\ promise \in [Receivers -> Messages \cup {Unset}]

Init ==
  /\ SetupInit
  /\ phase = [m \in Members |-> IF m = 0 THEN "waiting" ELSE "collecting"]
  /\ seq = 0
  /\ queue = [r \in Receivers |-> <<>>]
  /\ lastseq = [r \in Receivers |-> 0]
  /\ promise = [r \in Receivers |-> Unset]

------------------------------------------------------------------------------

\* nng_send on the bus: best effort.  It never blocks; a receiver without a
\* connection, or without room in its queue, does not get the message.
Broadcast(msg) ==
  queue' = [r \in Receivers |->
              IF Pipes(0, r) # {} /\ Len(queue[r]) < QueueBound
              THEN Append(queue[r], msg)
              ELSE queue[r]]

InPhase(m, p) == stage[m] = "ready" /\ phase[m] = p

Become(m, p) == phase' = [phase EXCEPT ![m] = p]

\* main reads the clock: "The bus should be ready".
StartClock ==
  /\ InPhase(0, "waiting")
  /\ Become(0, "spraying")
  /\ UNCHANGED <<setupVars, seq, queue, lastseq, promise>>

\* Mutated forms of Spray: a counter without its bound, and a main that sends
\* a fixed number of messages, as if the bus delivered each of them.
SprayUnbounded ==
  /\ InPhase(0, "spraying")
  /\ Broadcast(seq)
  /\ seq' = seq + 1
  /\ Become(0, "polling")
  /\ UNCHANGED <<setupVars, lastseq, promise>>

SprayFixedNumber == seq < SeqBound /\ SprayUnbounded

Spray ==
  /\ InPhase(0, "spraying")
  /\ Broadcast(seq)
  /\ seq' = IF seq < SeqBound THEN seq + 1 ELSE seq
  /\ Become(0, "polling")
  /\ UNCHANGED <<setupVars, lastseq, promise>>

\* Mutated form of AllReady: main is content with one future.
SomeReady == \E r \in Receivers : promise[r] # Unset

\* done == futures.size().  A promise that has a value keeps it, so counting
\* the futures one by one sees what counting them at once sees.
AllReady == \A r \in Receivers : promise[r] # Unset

Poll ==
  /\ InPhase(0, "polling")
  /\ Become(0, IF AllReady THEN "timed" ELSE "spraying")
  /\ UNCHANGED <<setupVars, seq, queue, lastseq, promise>>

\* Mutated form of EverybodyIdle: main does not sleep before it terminates.
NoSleep == TRUE

\* What the sleep before the terminate message is there for: "wait for
\* everything to get idle and live in their receive for the terminate msg".
EverybodyIdle == \A r \in Receivers : InPhase(r, "awaiting") /\ queue[r] = <<>>

SendTerminate ==
  /\ InPhase(0, "timed")
  /\ punctual => EverybodyIdle
  /\ Broadcast(EndFlag)
  /\ Become(0, "joining")
  /\ UNCHANGED <<setupVars, seq, lastseq, promise>>

\* main joins the receiver threads, closes its socket, reports and returns.
JoinAll ==
  /\ InPhase(0, "joining")
  /\ \A r \in Receivers : phase[r] = "closed"
  /\ Become(0, "closed")
  /\ links' = {l \in links : l[1] # 0 /\ l[2] # 0}
  /\ UNCHANGED <<stage, pending, punctual, seq, queue, lastseq, promise>>

------------------------------------------------------------------------------

Collect(r) ==
  /\ InPhase(r, "collecting")
  /\ lastseq[r] < NMsg
  /\ queue[r] # <<>>
  /\ lastseq' = [lastseq EXCEPT ![r] = Head(queue[r])]
  /\ queue' = [queue EXCEPT ![r] = Tail(@)]
  /\ UNCHANGED <<setupVars, phase, seq, promise>>

\* Mutated form of SetPromise: the promise is set before the first loop ends.
SetPromiseAtOnce(r) ==
  /\ InPhase(r, "collecting")
  /\ promise' = [promise EXCEPT ![r] = lastseq[r]]
  /\ Become(r, "awaiting")
  /\ UNCHANGED <<setupVars, seq, queue, lastseq>>

SetPromise(r) ==
  /\ InPhase(r, "collecting")
  /\ lastseq[r] >= NMsg
  /\ promise' = [promise EXCEPT ![r] = lastseq[r]]
  /\ Become(r, "awaiting")
  /\ UNCHANGED <<setupVars, seq, queue, lastseq>>

\* Mutated form of AwaitEnd: the second loop takes no notice of the flag.
AwaitForever(r) ==
  /\ InPhase(r, "awaiting")
  /\ queue[r] # <<>>
  /\ queue' = [queue EXCEPT ![r] = Tail(@)]
  /\ UNCHANGED <<setupVars, phase, seq, lastseq, promise>>

\* "other threads may still be not done so we might get a non terminate message"
AwaitEnd(r) ==
  /\ InPhase(r, "awaiting")
  /\ queue[r] # <<>>
  /\ queue' = [queue EXCEPT ![r] = Tail(@)]
  /\ Become(r, IF Head(queue[r]) = EndFlag THEN "leaving" ELSE "awaiting")
  /\ UNCHANGED <<setupVars, seq, lastseq, promise>>

\* sleep(2), nng_close: the receiver's connections and its queue are gone.
Close(r) ==
  /\ InPhase(r, "leaving")
  /\ Become(r, "closed")
  /\ links' = {l \in links : l[1] # r /\ l[2] # r}
  /\ queue' = [queue EXCEPT ![r] = <<>>]
  /\ UNCHANGED <<stage, pending, punctual, seq, lastseq, promise>>

\* Any nng call of any thread may fail: checkstat then ends the process.
CallFails(m) ==
  /\ stage[m] # "exited"
  /\ phase[m] # "closed"
  /\ Exit(m)
  /\ UNCHANGED workVars

------------------------------------------------------------------------------

MainStep == StartClock \/ Spray \/ Poll \/ SendTerminate \/ JoinAll

ReceiverStep(r) == Collect(r) \/ SetPromise(r) \/ AwaitEnd(r) \/ Close(r)

Setup(m) == SetupStep(m) /\ UNCHANGED workVars

Next ==
  \/ MainStep
  \/ \E r \in Receivers : ReceiverStep(r)
  \/ \E m \in Members : Setup(m) \/ CallFails(m)

\* Every thread that can run does run; nothing makes a call fail.
Fairness ==
  /\ WF_vars(MainStep)
  /\ \A r \in Receivers : WF_vars(ReceiverStep(r))
  /\ \A m \in Members : WF_vars(Setup(m))

Spec == Init /\ [][Next]_vars /\ Fairness

------------------------------------------------------------------------------

Exited == stage[0] = "exited"

\* When the sleeps are long enough, no dial meets a peer that does not listen
\* yet, which would end all the threads of the program.
NoDialRefused ==
  punctual =>
    \A m \in Members : stage[m] = "dialing" => \A p \in pending[m] : Listening(p)

\* When the sleeps are long enough, no member that is set up and still open is
\* without a connection to another such member: the dial rules together with
\* the order of listening, sleeping and dialing give the full mesh that main
\* relies on when it starts to spray.
MeshUp ==
  punctual =>
    \A i, j \in Members :
      (/\ i # j
       /\ stage[i] = "ready" /\ stage[j] # "exited"
       /\ phase[i] # "closed" /\ phase[j] # "closed")
      => Pipes(i, j) # {}

\* The terminate message is never on its way to, or taken by, a receiver that
\* still counts in its first loop.  Such a receiver would take 0xffffffff for
\* a sequence number, set its promise and wait for a second terminate message
\* that main never sends.
NoEarlyTerminate ==
  \A r \in Receivers :
    phase[r] = "collecting" =>
      /\ lastseq[r] # EndFlag
      /\ \A i \in 1 .. Len(queue[r]) : queue[r][i] # EndFlag

\* "As long as the terminate message can be received by every receiver, I think
\* this will be reliable": with sleeps that are long enough, once main joins,
\* every receiver has the terminate message in its queue or has acted on it.
TerminateReachesAll ==
  (punctual /\ phase[0] = "joining" /\ ~Exited) =>
    \A r \in Receivers :
      \/ phase[r] \in {"leaving", "closed"}
      \/ \E i \in 1 .. Len(queue[r]) : queue[r][i] = EndFlag

\* The clock is always stopped, even when the sleeps are too short and messages
\* are lost: main goes on spraying until every receiver has read a high number.
ClockStops == <>(phase[0] \in {"timed", "joining", "closed"} \/ Exited)

\* With sleeps that are long enough the program ends: no receiver is left
\* waiting for a message that will not come, and main is not left in a join.
BusRunEnds == punctual ~> (phase[0] = "closed" \/ Exited)

\* The program keeps the promise of a measurement: the clock is stopped only
\* after every receiver has set its promise, and only then is it reported.
M == INSTANCE Measurement WITH
       Workers  <- Receivers,
       clock    <- IF phase[0] = "waiting" THEN "idle"
                   ELSE IF phase[0] \in {"spraying", "polling"} THEN "running"
                   ELSE "stopped",
       finished <- {r \in Receivers : promise[r] # Unset},
       outcome  <- IF phase[0] = "closed" THEN "reported"
                   ELSE IF Exited THEN "aborted"
                   ELSE "busy"

BusIsMeasurement == M!Spec

==============================================================================
