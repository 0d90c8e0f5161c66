-------------------------------- MODULE PubSub --------------------------------
(***************************************************************************)
(* The publish/subscribe pattern: publisher.cpp with subscriber.cpp, and   *)
(* performance/pubsub.cpp.  A publication goes to everybody who has        *)
(* subscribed to it and never blocks: when a queue is full, nng drops an   *)
(* older message of it, never the new one.                                 *)
(*                                                                         *)
(* In the sample, processes subscribe to a topic, or to all, and receive   *)
(* until they are stopped; when the publisher is stopped and started again *)
(* nng connects them again.  In the timing, subscribers are threads of the *)
(* publisher's process that subscribe to all, and close when they get the  *)
(* last message, whose first byte is not 0.                                *)
(***************************************************************************)
EXTENDS Integers, Sequences, SequencesExt, FiniteSets

CONSTANTS
  Subscribers,
  NMsg,         \* messages published (argv[2]; in the sample it bounds the model)
  QueueBound,   \* messages that nng holds for one subscriber
  MaxRuns       \* how often the publisher of the sample is started (bounds the model)

ASSUME PubSubAssumption ==
  /\ IsFiniteSet(Subscribers)
  /\ NMsg \in Nat \ {0}     \* nmsg - 1 is unsigned
  /\ {QueueBound, MaxRuns} \subseteq Nat \ {0}

VARIABLES
  program,      \* "publisher" or "pubsub": which of the two programs runs
  punctual,     \* does the user hit Enter after everybody has subscribed?
  publisher,    \* where the publisher's main is
  run,          \* how often the publisher was started
  sent,         \* messages published in this run
  subscriber,   \* "new", "dialed", "subscribed", "closed" or "gone"
  connected,    \* the subscribers that have a connection to the publisher
  topic,        \* what each subscriber has subscribed to
  queue,        \* the messages that nng holds for each subscriber, oldest first
  latest        \* the message each subscriber has received last, or None

settings == <<program, punctual>>
publisherVars == <<publisher, run, sent>>
subscriberVars == <<subscriber, connected, topic, queue, latest>>
vars == <<settings, publisherVars, subscriberVars>>

\* The messages of all runs, in the order of publication.
Messages == 1 .. MaxRuns * NMsg
Number(n) == (run - 1) * NMsg + n
None == 0
LastMsg == NMsg
Topics == <<"NAME", "PID", "TIME">>     \* in the order of publish()
Everything == ""
\* What a user may pass: the topics of Readme.md:132-136, and those published.
Subscriptions == {"DATE", "PID", "NAME", "TIME", Everything}

TypeOK ==
  /\ program \in {"publisher", "pubsub"}
  /\ punctual \in BOOLEAN
  /\ publisher \in {"opened", "listening", "publishing", "timed", "done", "failed"}
  /\ run \in 1 .. MaxRuns
  /\ sent \in 0 .. NMsg
  /\ subscriber \in [Subscribers -> {"new", "dialed", "subscribed", "closed", "gone"}]
  /\ connected \subseteq Subscribers
  /\ topic \in [Subscribers -> Subscriptions]
  /\ queue \in [Subscribers -> Seq(Messages)]
  /\ latest \in [Subscribers -> Messages \cup {None}]

Init ==
  /\ program \in {"publisher", "pubsub"}
  /\ punctual \in IF program = "pubsub" THEN BOOLEAN ELSE {FALSE}
  /\ publisher = "opened"
  /\ run = 1
  /\ sent = 0
  /\ subscriber = [s \in Subscribers |-> "new"]
  /\ connected = {}
  /\ topic = [s \in Subscribers |-> Everything]
  /\ queue = [s \in Subscribers |-> <<>>]
  /\ latest = [s \in Subscribers |-> None]

Listening == publisher \in {"listening", "publishing", "timed"}

\* The topic of a message of the sample: publish() sends
\* them in turn, and a new run begins with the first.
Topic(n) == Topics[(((n - 1) % NMsg) % Len(Topics)) + 1]

\* Mutated form of Wants: a subscriber takes whatever is published.
WantsAll(s, n) == subscriber[s] = "subscribed"

\* Mutated form of Wants: the subscription is to what the last message is not.
WantsAllButLast(s, n) == subscriber[s] = "subscribed" /\ n % NMsg # 0

\* Does s take message n?  Before it subscribes it takes none.
Wants(s, n) ==
  /\ subscriber[s] = "subscribed"
  /\ program = "publisher" => topic[s] \in {Everything, Topic(n)}

------------------------------------------------------------------------------

Listen ==
  /\ publisher = "opened"
  /\ publisher' = "listening"
  /\ UNCHANGED <<settings, run, sent, subscriberVars>>

\* The sample publishes at once; the timing waits for the user's Enter.
StartPublishing ==
  /\ publisher = "listening"
  /\ (program = "pubsub" /\ punctual) => \A s \in Subscribers : subscriber[s] = "subscribed"
  /\ publisher' = "publishing"
  /\ UNCHANGED <<settings, run, sent, subscriberVars>>

\* The queues that nng may make of q to have room for a message: when there is
\* none, an older one goes, of the publisher's end or of the subscriber's.
Offered(q) == IF Len(q) < QueueBound THEN {q} ELSE {RemoveAt(q, i) : i \in DOMAIN q}

Accept(q, n) == {Append(k, n) : k \in Offered(q)}

\* What may become of the queue of s when n is published: whatever it has
\* subscribed to, the message is on its way.
Published(s, n) == IF s \in connected THEN Accept(queue[s], n) ELSE {queue[s]}

\* Each queue becomes one of those that the operator allows for its subscriber.
Queues(Allowed(_)) ==
  {q \in [Subscribers -> UNION {Allowed(s) : s \in Subscribers}] :
     \A s \in Subscribers : q[s] \in Allowed(s)}

\* nng_send on a pub socket.
Publish ==
  /\ publisher = "publishing"
  /\ sent < NMsg
  /\ sent' = sent + 1
  /\ queue' \in Queues(LAMBDA s : Published(s, Number(sent')))
  /\ UNCHANGED <<settings, publisher, run, subscriber, connected, topic, latest>>

\* Mutated form of AllJoined: the clock is read before the joins.
NoJoin == TRUE

AllJoined == \A s \in Subscribers : subscriber[s] = "closed"

JoinAll ==
  /\ program = "pubsub"
  /\ publisher = "publishing"
  /\ sent = NMsg
  /\ AllJoined
  /\ publisher' = "timed"
  /\ UNCHANGED <<settings, run, sent, subscriberVars>>

Report ==
  /\ publisher = "timed"
  /\ publisher' = "done"
  /\ UNCHANGED <<settings, run, sent, subscriberVars>>

\* A call of nng fails in the timing: checkstat exits, and all threads go.
Fail ==
  /\ program = "pubsub"
  /\ publisher \notin {"done", "failed"}
  /\ publisher' = "failed"
  /\ subscriber' = [s \in Subscribers |-> IF subscriber[s] = "closed" THEN "closed" ELSE "gone"]
  /\ connected' = {}
  /\ queue' = [s \in Subscribers |-> <<>>]
  /\ UNCHANGED <<settings, run, sent, topic, latest>>

\* Control-C, or a call of nng that fails, ends the publisher of the sample: the
\* newest of the messages that nng holds may not have left the process.
Kill ==
  /\ program = "publisher"
  /\ publisher # "failed"
  /\ publisher' = "failed"
  /\ connected' = {}
  /\ queue' \in Queues(LAMBDA s : Prefixes(queue[s]))
  /\ UNCHANGED <<settings, run, sent, subscriber, topic, latest>>

\* The user starts the publisher of the sample again.
Restart ==
  /\ program = "publisher"
  /\ publisher = "failed"
  /\ run < MaxRuns
  /\ run' = run + 1
  /\ sent' = 0
  /\ publisher' = "opened"
  /\ UNCHANGED <<settings, subscriberVars>>

------------------------------------------------------------------------------

\* The threads of the timing are created after the listen; a process of the
\* sample whose dial is refused exits.
Dial(s) ==
  /\ subscriber[s] = "new"
  /\ program = "pubsub" => Listening
  /\ subscriber' = [subscriber EXCEPT ![s] = IF Listening THEN "dialed" ELSE "gone"]
  /\ connected' = IF Listening THEN connected \cup {s} ELSE connected
  /\ UNCHANGED <<settings, publisherVars, topic, queue, latest>>

\* nng dials again, in the background, a publisher that went away.
Reconnect(s) ==
  /\ subscriber[s] \in {"dialed", "subscribed"}
  /\ s \notin connected
  /\ Listening
  /\ connected' = connected \cup {s}
  /\ UNCHANGED <<settings, publisherVars, subscriber, topic, queue, latest>>

Subscribe(s) ==
  /\ subscriber[s] = "dialed"
  /\ subscriber' = [subscriber EXCEPT ![s] = "subscribed"]
  /\ \E t \in Subscriptions :
       /\ program = "pubsub" => t = Everything
       /\ topic' = [topic EXCEPT ![s] = t]
  /\ UNCHANGED <<settings, publisherVars, connected, queue, latest>>

\* The subscriber's end of nng sorts out what arrives: a message that is on its
\* way while s subscribes may get through.
SortOut(s) ==
  /\ subscriber[s] \in {"dialed", "subscribed"}
  /\ queue[s] # <<>>
  /\ ~Wants(s, Head(queue[s]))
  /\ queue' = [queue EXCEPT ![s] = Tail(@)]
  /\ UNCHANGED <<settings, publisherVars, subscriber, connected, topic, latest>>

\* Mutated form of Ends: the first byte is not looked at.
NeverEnds(n) == FALSE

Ends(n) == program = "pubsub" /\ n = LastMsg

Receive(s) ==
  /\ queue[s] # <<>>
  /\ Wants(s, Head(queue[s]))
  /\ latest' = [latest EXCEPT ![s] = Head(queue[s])]
  /\ queue' = [queue EXCEPT ![s] = Tail(@)]
  /\ IF Ends(Head(queue[s]))
     THEN subscriber' = [subscriber EXCEPT ![s] = "closed"] /\ connected' = connected \ {s}
     ELSE UNCHANGED <<subscriber, connected>>
  /\ UNCHANGED <<settings, publisherVars, topic>>

\* Control-C, or a call of nng that fails, ends a subscriber of the sample.
Leave(s) ==
  /\ program = "publisher"
  /\ subscriber[s] \in {"dialed", "subscribed"}
  /\ subscriber' = [subscriber EXCEPT ![s] = "gone"]
  /\ connected' = connected \ {s}
  /\ queue' = [queue EXCEPT ![s] = <<>>]
  /\ UNCHANGED <<settings, publisherVars, topic, latest>>

PublisherStep == Listen \/ StartPublishing \/ Publish \/ JoinAll \/ Report

SubscriberStep(s) == Subscribe(s) \/ SortOut(s) \/ Receive(s)

Next ==
  \/ PublisherStep
  \/ Fail
  \/ Kill
  \/ Restart
  \/ \E s \in Subscribers : Dial(s) \/ Reconnect(s) \/ SubscriberStep(s) \/ Leave(s)

\* What runs, runs on, and nng tries to connect for ever.  The timing starts all
\* its subscribers; nobody has to start those of the sample, or the publisher
\* again.
Fairness ==
  /\ WF_vars(PublisherStep)
  /\ \A s \in Subscribers :
       /\ WF_vars(Reconnect(s))
       /\ WF_vars(SubscriberStep(s))
       /\ WF_vars(program = "pubsub" /\ Dial(s))

Spec == Init /\ [][Next]_vars /\ Fairness

------------------------------------------------------------------------------

\* A subscriber receives only what it has subscribed to, each message once and
\* in the order of publication, however many are dropped between, and however
\* often the publisher was started again since it subscribed.
OnlySubscribedInOrder ==
  \A s \in Subscribers :
    /\ (program = "publisher" /\ latest[s] # None) => topic[s] \in {Everything, Topic(latest[s])}
    /\ \A i, j \in DOMAIN queue[s] : i < j => queue[s][i] < queue[s][j]
    /\ \A i \in DOMAIN queue[s] : latest[s] < queue[s][i]

\* When everybody had subscribed before the start, nobody misses the last
\* message, however full the queues were: a subscriber that missed it would
\* keep main in its join for ever.
LastIsNeverDropped ==
  (program = "pubsub" /\ punctual /\ sent = NMsg /\ publisher # "failed") =>
    \A s \in Subscribers : subscriber[s] = "closed" \/ LastMsg \in Range(queue[s])

\* When everybody had subscribed before the start, the timing ends.
TimedSubscribersEnd ==
  (program = "pubsub" /\ punctual) ~> publisher \in {"done", "failed"}

\* A subscriber to everything that is connected before the last message is
\* published receives that message, whatever its queue has dropped, unless it or
\* the publisher is stopped: nobody is left with an old state of things.
LatestIsHeard ==
  \A s \in Subscribers :
    (/\ program = "publisher" /\ publisher = "publishing" /\ sent < NMsg
     /\ s \in connected /\ subscriber[s] = "subscribed" /\ topic[s] = Everything)
    ~> (latest[s] = Number(NMsg) \/ publisher = "failed" \/ subscriber[s] = "gone")

\* The timing keeps the promise of a measurement: its clock stops only when
\* every subscriber has received the last message.
M == INSTANCE Measurement WITH
       Workers  <- Subscribers,
       clock    <- IF program = "publisher" \/ publisher \in {"opened", "listening"} THEN "idle"
                   ELSE IF publisher = "publishing" THEN "running"
                   ELSE "stopped",
       finished <- {s \in Subscribers : subscriber[s] = "closed"},
       outcome  <- IF publisher = "done" THEN "reported"
                   ELSE IF program = "pubsub" /\ publisher = "failed" THEN "aborted"
                   ELSE "busy"

PubSubIsMeasurement == M!Spec

\* "Periodically publishes three message: DATE <datestring>, PID <processid>,
\* NAME <argv0>" (Readme.md:121-124): a round of publications has all three.
AdvertisedTopicsArePublished ==
  (program = "publisher" /\ sent >= Len(Topics)) =>
    {"DATE", "PID", "NAME"} \subseteq {Topic(n) : n \in 1 .. sent}

==============================================================================
