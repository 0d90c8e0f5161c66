------------------------------- MODULE Pipeline -------------------------------
(***************************************************************************)
(* The push/pull pattern: push.cpp with pull.cpp, and                      *)
(* performance/pushpull.cpp.  The pusher listens and gives every message   *)
(* to one of the pullers that have room; a send blocks while none has.     *)
(*                                                                         *)
(* In the sample, pusher and pullers are processes: the pusher exits after *)
(* its last message, the user may start it again, and the pullers, which   *)
(* nng connects again, run until they are stopped.  In the timing, pullers *)
(* are threads of the pusher's process: after the data one end message per *)
(* puller is pushed, and a puller that gets one closes.                    *)
(***************************************************************************)
EXTENDS Integers, Sequences, SequencesExt, FiniteSets

CONSTANTS
  Pullers,
  NMsg,         \* data messages (MSG_COUNT of push.cpp, argv[2] of pushpull.cpp)
  QueueBound,   \* messages that nng holds between the pusher and one puller
  MaxRuns       \* how often the pusher of the sample is started (bounds the model)

ASSUME PipelineAssumption ==
  /\ IsFiniteSet(Pullers) /\ Pullers # {}
  /\ NMsg \in Nat
  /\ {QueueBound, MaxRuns} \subseteq Nat \ {0}

VARIABLES
  program,    \* "push" or "pushpull": which of the two programs runs
  pusher,     \* where the pusher's main is
  run,        \* how often the pusher was started
  sent,       \* data messages sent in this run
  ended,      \* end messages sent
  puller,     \* "new", "pulling", "hung", "closed" or "gone"
  connected,  \* the pullers that have a connection to the pusher
  queue,      \* the messages that nng holds for each puller, oldest first
  got         \* the data messages each puller has received

pusherVars == <<pusher, run, sent, ended>>
pullerVars == <<puller, connected, queue, got>>
vars == <<program, pusherVars, pullerVars>>

\* The data messages of all runs, in the order in which they are pushed.
Data == 1 .. MaxRuns * NMsg

\* Mutated form of Number: the number is not advanced.
SameNumber(n) == (run - 1) * NMsg + 1

Number(n) == (run - 1) * NMsg + n
End == MaxRuns * NMsg + 1       \* a message whose first byte is not 0
NPullers == Cardinality(Pullers)

TypeOK ==
  /\ program \in {"push", "pushpull"}
  /\ pusher \in {"opened", "listening", "pushing", "timed", "done", "exited", "failed"}
  /\ run \in 1 .. MaxRuns
  /\ sent \in 0 .. NMsg
  /\ ended \in 0 .. NPullers
  /\ puller \in [Pullers -> {"new", "pulling", "hung", "closed", "gone"}]
  /\ connected \subseteq Pullers
  /\ queue \in [Pullers -> Seq(Data \cup {End})]
  /\ got \in [Pullers -> SUBSET Data]

Init ==
  /\ program \in {"push", "pushpull"}
  /\ pusher = "opened"
  /\ run = 1
  /\ sent = 0
  /\ ended = 0
  /\ puller = [p \in Pullers |-> "new"]
  /\ connected = {}
  /\ queue = [p \in Pullers |-> <<>>]
  /\ got = [p \in Pullers |-> {}]

Listening == pusher \in {"listening", "pushing", "timed"}

------------------------------------------------------------------------------

Listen ==
  /\ pusher = "opened"
  /\ pusher' = "listening"
  /\ UNCHANGED <<program, run, sent, ended, pullerVars>>

\* sleep(2), or Enter: neither knows who has dialed.
StartPushing ==
  /\ pusher = "listening"
  /\ pusher' = "pushing"
  /\ UNCHANGED <<program, run, sent, ended, pullerVars>>

HasRoom(p) == p \in connected /\ Len(queue[p]) < QueueBound

\* nng_send on a push socket: pullers that have no room are passed over.
Give(msg) ==
  \E p \in Pullers :
    /\ HasRoom(p)
    /\ queue' = [queue EXCEPT ![p] = Append(@, msg)]

Push ==
  /\ pusher = "pushing"
  /\ sent < NMsg
  /\ Give(Number(sent + 1))
  /\ sent' = sent + 1
  /\ UNCHANGED <<program, pusher, run, ended, puller, connected, got>>

\* Mutated form of EndsDue: end messages are pushed between the data.
EndsAtOnce == ended < NPullers

EndsDue == sent = NMsg /\ ended < NPullers

PushEnd ==
  /\ program = "pushpull"
  /\ pusher = "pushing"
  /\ EndsDue
  /\ Give(End)
  /\ ended' = ended + 1
  /\ UNCHANGED <<program, pusher, run, sent, puller, connected, got>>

\* The pusher's process goes, without a flush: of what nng holds for a puller,
\* some of the newest messages may not have left the process.
ProcessGone ==
  /\ connected' = {}
  /\ queue' \in {q \in [Pullers -> UNION {Prefixes(queue[p]) : p \in Pullers}] :
                   \A p \in Pullers : q[p] \in Prefixes(queue[p])}
  /\ UNCHANGED <<program, run, sent, ended, puller, got>>

Exit ==
  /\ program = "push"
  /\ pusher = "pushing"
  /\ sent = NMsg
  /\ pusher' = "exited"
  /\ ProcessGone

\* Control-C, or a call of nng that fails, ends the pusher of the sample.
Kill ==
  /\ program = "push"
  /\ pusher \notin {"exited", "failed"}
  /\ pusher' = "failed"
  /\ ProcessGone

\* The user starts the pusher of the sample again.
Restart ==
  /\ pusher \in {"exited", "failed"}
  /\ program = "push"
  /\ run < MaxRuns
  /\ run' = run + 1
  /\ sent' = 0
  /\ pusher' = "opened"
  /\ UNCHANGED <<program, ended, pullerVars>>

\* Mutated form of AllJoined: the clock is read before the joins.
NoJoin == TRUE

AllJoined == \A p \in Pullers : puller[p] = "closed"

\* "include the joins in the timings"
JoinAll ==
  /\ pusher = "pushing"
  /\ ended = NPullers
  /\ AllJoined
  /\ pusher' = "timed"
  /\ UNCHANGED <<program, run, sent, ended, pullerVars>>

Report ==
  /\ pusher = "timed"
  /\ pusher' = "done"
  /\ UNCHANGED <<program, run, sent, ended, pullerVars>>

\* A call of nng fails in the timing: checkstat exits, and all threads go.
Fail ==
  /\ program = "pushpull"
  /\ pusher \notin {"done", "failed"}
  /\ pusher' = "failed"
  /\ puller' = [p \in Pullers |-> IF puller[p] = "closed" THEN "closed" ELSE "gone"]
  /\ connected' = {}
  /\ queue' = [p \in Pullers |-> <<>>]
  /\ UNCHANGED <<program, run, sent, ended, got>>

------------------------------------------------------------------------------

\* The threads of the timing are created after the listen; a process of the
\* sample whose dial is refused exits.
Dial(p) ==
  /\ puller[p] = "new"
  /\ program = "pushpull" => Listening
  /\ puller' = [puller EXCEPT ![p] = IF Listening THEN "pulling" ELSE "gone"]
  /\ connected' = IF Listening THEN connected \cup {p} ELSE connected
  /\ UNCHANGED <<program, pusherVars, queue, got>>

\* nng dials again, in the background, a pusher that went away.
Reconnect(p) ==
  /\ puller[p] \in {"pulling", "hung"}
  /\ p \notin connected
  /\ Listening
  /\ connected' = connected \cup {p}
  /\ UNCHANGED <<program, pusherVars, puller, queue, got>>

Receives(p) == puller[p] = "pulling" /\ queue[p] # <<>>

\* Mutated form of Pull: the loop is left out.
PullOnce(p) ==
  /\ Receives(p)
  /\ got[p] = {}
  /\ got' = [got EXCEPT ![p] = {Head(queue[p])}]
  /\ queue' = [queue EXCEPT ![p] = Tail(@)]
  /\ UNCHANGED <<program, pusherVars, puller, connected>>

Pull(p) ==
  /\ Receives(p)
  /\ Head(queue[p]) # End
  /\ got' = [got EXCEPT ![p] = @ \cup {Head(queue[p])}]
  /\ queue' = [queue EXCEPT ![p] = Tail(@)]
  /\ UNCHANGED <<program, pusherVars, puller, connected>>

\* The puller's end closes: what nng still holds for it is lost.
EndsAs(p, how) ==
  /\ puller' = [puller EXCEPT ![p] = how]
  /\ connected' = connected \ {p}
  /\ queue' = [queue EXCEPT ![p] = <<>>]
  /\ UNCHANGED <<program, pusherVars, got>>

\* Mutated form of PullEnd: the end message is skipped.
IgnoreEnd(p) ==
  /\ Receives(p)
  /\ Head(queue[p]) = End
  /\ queue' = [queue EXCEPT ![p] = Tail(@)]
  /\ UNCHANGED <<program, pusherVars, puller, connected, got>>

PullEnd(p) ==
  /\ Receives(p)
  /\ Head(queue[p]) = End
  /\ EndsAs(p, "closed")

\* A puller of the sample hangs, blocked on its output: it stays connected.
Hang(p) ==
  /\ program = "push"
  /\ puller[p] = "pulling"
  /\ puller' = [puller EXCEPT ![p] = "hung"]
  /\ UNCHANGED <<program, pusherVars, connected, queue, got>>

\* Control-C, or a call of nng that fails, ends a puller of the sample.
Leave(p) ==
  /\ program = "push"
  /\ puller[p] \in {"pulling", "hung"}
  /\ EndsAs(p, "gone")

PusherStep == Listen \/ StartPushing \/ Push \/ PushEnd \/ Exit \/ JoinAll \/ Report

PullerStep(p) == Pull(p) \/ PullEnd(p)

Next ==
  \/ PusherStep
  \/ Kill
  \/ Restart
  \/ Fail
  \/ \E p \in Pullers : Dial(p) \/ Reconnect(p) \/ PullerStep(p) \/ Hang(p) \/ Leave(p)

\* What runs, runs on, and nng tries to connect for ever.  The timing starts all
\* its pullers; nobody has to start those of the sample, or the pusher again.
Fairness ==
  /\ WF_vars(PusherStep)
  /\ \A p \in Pullers :
       /\ WF_vars(Reconnect(p))
       /\ WF_vars(PullerStep(p))
       /\ WF_vars(program = "pushpull" /\ Dial(p))

Spec == Init /\ [][Next]_vars /\ Fairness

------------------------------------------------------------------------------

\* "Each push goes to exactly one puller" (Readme.md:51): no data message is
\* received twice, by one puller or by two, or waits while it was received;
\* what waits for a puller waits in the order in which it was pushed, the
\* messages of an earlier run of the pusher before those of a later one.
OnePullerEach ==
  \A p, q \in Pullers :
    /\ p # q => got[p] \cap got[q] = {}
    /\ p # q => Range(queue[p]) \cap Range(queue[q]) \subseteq {End}
    /\ got[p] \cap Range(queue[q]) = {}
    /\ \A i, j \in DOMAIN queue[p] : (i < j /\ queue[p][j] # End) => queue[p][i] < queue[p][j]

\* A puller that closes while nng still holds messages for it takes end
\* messages with it, never data: the fear of pushpull.cpp:27 is unfounded for
\* the data.  In the sample nothing of a run is lost while nobody leaves and
\* the pusher runs, whoever hangs, and whatever earlier runs have left behind.
OnlyEndsAreLost ==
  (pusher \notin {"exited", "failed"} /\ \A p \in Pullers : puller[p] # "gone") =>
    \A n \in 1 .. sent : \E p \in Pullers : Number(n) \in got[p] \cup Range(queue[p])

\* main gets to its joins: no push blocks for ever, although pullers close
\* while end messages are still to be pushed.
AllArePushed ==
  program = "pushpull" ~> (sent = NMsg /\ ended = NPullers) \/ pusher = "failed"

\* Once every puller has an end message, or has closed, the timing ends.
EndsForAllEndTheRun ==
  (/\ program = "pushpull" /\ ended = NPullers
   /\ \A p \in Pullers : puller[p] = "closed" \/ End \in Range(queue[p]))
  ~> pusher \in {"done", "failed"}

\* As long as one puller pulls, every run of the pusher gets to its exit, whoever
\* hangs: nng's push passes over who has no room.  And pullers that are left from
\* an earlier run, whose dial was to a process that is gone, serve the next one.
PushGetsThrough ==
  \A p \in Pullers :
    (program = "push" /\ <>[](puller[p] = "pulling"))
      => (pusher = "pushing" ~> pusher \in {"exited", "failed"})

\* "Distribution is documented to be round robin which implies a live crashed
\* consumer will bring things to a halt (not tested)" (Readme.md:51): a puller that
\* hangs before the first push, and is not stopped, keeps the pusher from its exit
\* when each puller's share of the messages is more than nng holds for it.
CrashedConsumerHalts ==
  NMsg \div NPullers > QueueBound =>
    \A p \in Pullers :
      []((pusher = "listening" /\ p \in connected /\ puller[p] = "hung" /\ run = 1)
         => [](pusher = "exited" => puller[p] # "hung"))

\* The timing keeps the promise of a measurement: its clock stops only when
\* every puller has received its end message.
M == INSTANCE Measurement WITH
       Workers  <- Pullers,
       clock    <- IF program = "push" \/ pusher \in {"opened", "listening"} THEN "idle"
                   ELSE IF pusher = "pushing" THEN "running"
                   ELSE "stopped",
       finished <- {p \in Pullers : puller[p] = "closed"},
       outcome  <- IF pusher = "done" THEN "reported"
                   ELSE IF program = "pushpull" /\ pusher = "failed" THEN "aborted"
                   ELSE "busy"

PipelineIsMeasurement == M!Spec

==============================================================================
