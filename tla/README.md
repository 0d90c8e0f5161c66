# TLA+ models of the nng examples

The repository shows the communication patterns of nng (nanomsg next generation)
with two sets of C++ programs: *samples* in `src/`, pairs of small processes that
a user starts by hand, and *timings* in `src/performance/`, single programs that
run both ends of a pattern as threads and measure it. None of them keeps data on
disk and none shares variables between threads apart from the promises of the
timed bus. What is hard about them is what happens between the ends: who has
dialed when, what a socket drops, who waits for whom, and what is lost when an
end closes. That is what is modelled here. nng itself is not part of the
repository; it is modelled from how the programs use it.

## 1. Inventory

| component | state it keeps | operations | what is hard | what makes it correct |
|---|---|---|---|---|
| timed bus, `performance/bus.cpp` | the stage of `setupBus` in each thread, the mesh of connections, main's sequence number and phase, a promise per receiver | listen, sleep, dial, spray, poll the futures, terminate, join | dials against listens, a bus that drops, one terminate message, joins | one connection per pair, no refused dial, nobody terminated early or never, the clock stops and is right |
| bus sample, `bus.cpp` | stage and mesh as above, messages sent and reported | setup, two sends, receive for ever | processes stopped and started again, nng's background dials | each message once and in order, everybody hears everybody, the mesh heals |
| survey sample, `surveyor.cpp`, `respondent.cpp` | number and lifetime of the outstanding survey, responses that wait | send a survey, print responses until time-out; get, select, reply | late responses, a lifetime that ends between two receives, a surveyor that is started again, texts without their NUL | responses belong to their survey, no timely response is lost, the next survey follows |
| timed survey, `performance/survey.cpp` | number of the survey, responses collected, responder threads, phase | two timings of surveys with an extra survey to end each | threads that dial late, closing with a response unsent | the last response is collected before its sender closes |
| request/reply sample, `reply.cpp`, `req.cpp` | the request being served | receive, process, send, exit on STOP; one request per client | a server that exits before its reply has left, or hangs; requests that nng sends again | a prompt server processes a request once, a running server answers everybody |
| timed request/reply, `performance/reqrep.cpp` | counters of both ends, phase | two timings on one URI | a close that loses the last reply, the URI of the first replier | the ends stay in step, the timings do not meet |
| pipeline sample and timing, `push.cpp`, `pull.cpp`, `performance/pushpull.cpp` | messages per puller | push, pull, end messages, close, joins | back-pressure, pullers that hang, closing with messages waiting, pullers that outlive their pusher | each message to one puller, nothing but end messages lost, no push blocks for ever |
| publish/subscribe sample and timing, `publisher.cpp`, `subscriber.cpp`, `performance/pubsub.cpp` | subscriptions, queue per subscriber | publish, subscribe, receive, the last message, joins | queues that drop, late subscribers, subscribers that outlive their publisher | only what was subscribed, in order; the last message is not dropped |
| pair sample and timing, `onetoones.cpp`, `onetoonec.cpp`, `performance/pair.cpp` | the one peer, messages both ways | echo and pid; send N and join | several clients for one socket, a client that leaves its answers behind, a client whose server has gone | a client gets its own message back and makes way; the thread gets all messages |
| `bus.sh` | none | starts `bus2`, which is not in the repository | | not modelled |
| Makefiles, `bustiming.sh` | none | | | not modelled |

Ends interact by messages only. Threads of a timing also interact by `join` and,
in the timed bus, by futures; and by `checkstat`, which calls `exit` and so ends
all of them.

## 2. Modules

| module | models | used by |
|---|---|---|
| `BusMesh` | the rules by which members of a bus choose whom to dial | `BusSetup` |
| `BusSetup` | `setupBus`, one action per call or sleep | `PerfBus`, `Bus` |
| `PerfBus` | `performance/bus.cpp` | `MCPerfBus` |
| `BusTraffic` | what the sample of the bus sends and reports, and the order it promises | `Bus` |
| `Bus` | `bus.cpp` | `MCBus` |
| `Measurement` | abstract: what a timing promises | implemented by `PerfBus`, `Pipeline`, `PubSub`, `Pair`, and by each timing of `PerfSurvey` |
| `MessageBody` | how the samples put a text into a message and read it back | `Survey` |
| `Survey` | `surveyor.cpp` with `respondent.cpp` | `MCSurvey` |
| `PerfSurvey` | `performance/survey.cpp` | `MCPerfSurvey` |
| `Requests` | `reply.cpp` with `req.cpp` | `MCRequests` |
| `PerfReqRep` | `performance/reqrep.cpp` | `MCPerfReqRep` |
| `Pipeline` | `push.cpp`, `pull.cpp`, `performance/pushpull.cpp` | `MCPipeline` |
| `PubSub` | `publisher.cpp`, `subscriber.cpp`, `performance/pubsub.cpp` | `MCPubSub` |
| `Pair` | `onetoones.cpp`, `onetoonec.cpp`, `performance/pair.cpp` | `MCPair` |
| `PerfBusProofs` (with `BusMesh`, `BusTraffic` and `Bus`), `SurveyProofs` (with `MessageBody`), `PerfSurveyProofs`, `RequestsProofs`, `PerfReqRepProofs`, `PipelineProofs`, `PubSubProofs`, `PairProofs` | theorems about the module of that name | |

In `Pipeline`, `PubSub` and `Pair` the variable `program` says which of the two programs
runs; it never changes. An action whose guard does not name `program` is common
to both. `PROJECT.json` gives for each definition the lines it translates.

State and actions follow the code in the same way everywhere. A variable such as
`stage`, `phase`, `pusher` or `main` is the place of a thread in its program.
Calls between two blocking points are one action, a call of nng that other
threads can observe is an action of its own, and a loop is an action that is
taken again. Threads that `checkstat` ends are moved to `"exited"`, `"gone"` or
`"failed"` together with their connections and messages, all in the step in which
the call fails. Every listening process of a sample can be stopped and started
again; the variable `connected` (`peer` in `Pair`) says which of the processes
that are left nng has connected to the new one, and messages of all runs are
numbered on, so that a message of an earlier run can be told from one of a later
run. Operators introduced with the words "mutated form" are not part
of a specification: each is a plausible mistake in the definition it is named
after, used to find out that a property would notice.

### What is assumed of nng

* *dial* is synchronous and fails when nobody listens; a connection that goes
  away later is dialed again in the background by the end that dialed it.
* *bus*: a send never blocks; a peer that is not connected or has no room does not
  get the message; it does not go to the sender, and goes twice over two
  connections.
* *survey*: a response to any but the outstanding survey is dropped; when the
  lifetime ends, a receive that is blocked fails with `NNG_ETIMEDOUT`, and one
  that is called later with `NNG_ESTATE`. A respondent's answer goes to the
  connection its survey came by, or nowhere.
* *push*: a message goes to any one connected puller that has room, and those that
  have none are passed over; the send blocks while nobody has room. This, and not a
  strict round robin, is what nng's push does; section 5 says where it matters.
* *pub*: a send never blocks; when a queue is full an older message goes, never the
  new one. The subscriber's end sorts out what it has not subscribed to, at any
  time before it is received (`SortOut`).
* *pair*: there is one peer; other connections are refused and tried again.
* *req*: a request is sent again when its connection goes away before the reply, and
  every minute without one. A resent request may reach a server that hangs over
  the first.
* *alloc* gives a body of zero bytes; *insert* puts bytes in front of what is there.
* *close* and *exit* do not flush. `performance/reqrep.cpp:110` and
  `performance/survey.cpp:24` say so, and `onetoones`, `push` and `reply` do not
  guard against it. Of the messages that a process had handed to nng when it
  ended, any number of the newest may be lost.

### Sleeps, the user and time

No model has a clock. A sleep that the code relies on is a guard that is there
only when the variable `punctual` is true: then the sleep lasts until what it
waits for has happened (all members listen; all subscribers have subscribed; nng
has sent the reply). When it is false the sleep may end at any time. Both cases
start from `Init`, so a property that does not name `punctual` holds whatever
the timing. The lifetime of a survey (`timely`) and the minute after which a request
is sent again (`prompt`, in `Requests`) are treated likewise.

## 3. Runs

All runs use weak fairness only: a thread that can take a step takes one
(operating systems schedule runnable threads), nng delivers and connects again in
the background, and the threads that main creates start. Nothing is assumed of users: nobody has to
start a process of a sample, to stop one or to start it again, or to hit Enter
late or early; a puller that hangs need not go on, and no call has to fail or to
succeed. In `Bus`, whose members cannot take steps for ever, one condition on all
their steps together is enough. Deadlock is not checked since all these systems
may stop: programs end, and samples wait for the next message.

| run | instance | question | answer |
|---|---|---|---|
| `perf_bus` | main and 3 receivers, NMsg 2, queues of 2 | does the timed bus set up its mesh, stop its clock, terminate everybody and end? | yes when the sleeps suffice; the clock stops, no receiver is terminated early and no pair is connected twice even when they do not. It implements `Measurement`. |
| `bus` | 3 members, queues of 2, one stop and one restart | does everyone hear everyone, and is the mesh right again after a restart? | everyone is heard when the sleeps suffice, nobody is stopped and a queue holds both messages of a member (`Readme.md:39`); there is never a double connection, messages stay in order and unique, and the mesh heals |
| `survey` | an even and an odd respondent, two runs of 3 surveys, queues of 2 | are responses attributed rightly, also after a restart; is the text of a survey read as it was sent; does the next survey follow? | yes; a lifetime that is long enough loses no answer |
| `survey_fails` | the same | is a time-out always a normal completion (`surveyor.cpp:87`)? | no, see section 5 |
| `perf_survey` | 3 responders, 2 surveys per timing | does the extra survey protect the last response? | yes, also when responders are late; the program ends when they are not and the responses are not too big. Each timing implements `Measurement`. |
| `requests` | 3 clients, one STOP, 3 starts, a server that answers within a minute or not | what do lost replies and requests sent again do? | a prompt server processes no request twice, and a server that runs on answers everybody |
| `perf_reqrep` | 5 requests per timing | do the ends stay in step and the timings apart? | yes; the program ends when the sleeps suffice |
| `pipeline` | 2 pullers, 3 messages, 2 runs, queues of 2 | who gets what, what is lost, who blocks, does the timing end? | each message goes to one puller, also across runs; data are lost only by a puller that leaves or by the exit of `push`; the timing always pushes everything, and ends if every puller gets an end message; one puller that pulls is enough for `push` to go on. It implements `Measurement`. |
| `pipeline_halts` | 2 pullers, 4 messages, 1 run, queues of 1 | does a live crashed consumer bring things to a halt (`Readme.md:51`)? | no, see section 5 |
| `pubsub` | 2 subscribers, 3 messages, 2 runs, queues of 2 | what may a full queue lose, and what a restart? | never the last message, so the timing ends if all had subscribed, and a subscriber of the sample is not left with an old one. It implements `Measurement`. |
| `pubsub_topics` | the same | are the advertised topics published (`Readme.md:121-124`)? | no, see section 5 |
| `pair` | 3 clients, 4 timed messages, 2 starts of the server, queues of 1 | do clients get their own message back, and who waits for ever? | the first yes, unless a client is stopped after it sent; who is connected before it sends is served; a client waits for ever only behind one that waits itself, or behind a jam that stopped clients left. The timing ends, and implements `Measurement`. |

*Bounds.* Four members are the least number of which one has peers on both sides
and a last member apart from itself, so that all three dial rules matter; restarts
multiply the states, so `bus` has three members, in which a restarted one
is dialed by one peer and dials another; a queue is full when both messages of one
run of a peer wait in it, and then drops those of the next run. In `pipeline_halts` the share of each
puller, two of four messages, is more than nng holds for it. Two pullers, or subscribers, are the
least number of which one can hang, leave or lag behind while another does not.
Queues of two messages fill up, overflow and lose messages that are not at an
end; there are more messages than fit into a queue. The pair has queues of one, so that
both directions can be full at once; with two its jam is out of reach. Three surveys go through the
cycle of three kinds, and the second run through it again. `SeqBound` lets the
sequence number of the timed bus saturate above NMsg: receivers only compare it.
`MaxStops`, `MaxStarts`, `MaxRuns` and `MaxSurveys` bound what users or endless
loops repeat, and two starts show all that a first run can leave to a second; in
the publish/subscribe sample NMsg is such a bound too. The counters `printed` of
`Survey` and `executed` of `Requests` saturate at 2, which is enough to tell that
something was done twice.

*What the harder properties say.* `TerminateReachesAll` explains why a single
terminate message over an unreliable bus is enough: the sleep empties the queues.
`OnlyEndsAreLost` answers the worry of `performance/pushpull.cpp:27`: a puller
that closes may take end messages along, and then another puller has none and the
join hangs (this is why `EndsForAllEndTheRun` has its condition), but no data.
`OncePerServer` has the word *server* in it because a STOP whose reply was lost is
sent again to the next server and stops that one too; and it is restricted to
servers that answer within a minute, because nng does not wait longer.
`LastIsNeverDropped` needs only that queues drop old messages first, not that they
are large; `LatestIsHeard` is its counterpart in the sample.

`Readme.md:51` expects that round robin "implies a live crashed consumer will bring
things to a halt (not tested)". `CrashedConsumerHalts` states that, and fails (section
5); `PushGetsThrough` says what holds instead, as far as nng's push is modelled
rightly: as long as one puller pulls, the pusher pushes everything and exits,
whatever the others do. One that hangs keeps what waits in its queue
(`OnlyEndsAreLost` counts that as not lost). Since pullers survive their pusher the
property also says that the next `push` finds them.

`OwnMessageComesBack` has two parts. As long as no client was stopped after it sent,
each gets its own message and the pid. Once one was, its echo may come to a client
that did not send it, and the server cannot tell; but no message comes to two.
`NextIsServed` is about the sentence that one
client exits, "allowing the next one to connect" (`Readme.md:111`). This fails in
exactly two situations. A client whose message went to a server that was then
stopped, or over a connection that was then refused, is connected once more by
nng, waits for answers that never come and keeps the only place (`Unanswered`). Or
both directions are full of what stopped clients left behind: the server waits for
room to send, the client that is connected waits for room too, and neither receives
(`Jammed`). The property says that there is no third. `EverybodyHeard` names the
room it needs, since a bus drops what does not fit.

`TimelyAnswersPrinted` depends on something that the surveyor does not seem to do
on purpose. Its surveys lack a terminating NUL, and respondents read them as C
strings; but `nng_msg_alloc` has already made room for as many zero bytes as
`nng_msg_insert` then puts in front of them. With a body that was allocated
empty, which would be more natural, respondents would depend on what follows it.

## 4. Proofs

TLAPS checks the following for every value of the constants that satisfies the
assumptions of the component's module. Every invariant was first checked by TLC on
the instances of section 3, and each proof has the same form: a lemma per action
(or group of actions) says that it keeps `IInv`; `InductiveInvariant` follows from
them, and the properties from it.

* `PerfBusProofs`. For a bus of any size the dial rules join any two members
  (`MeshComplete`) and no two twice (`MeshOnce`): the rules are three cases by
  position (first, middle, last); `TargetsByPosition` says what each case dials, and
  the theorems follow by arithmetic. Of the program, assuming that the members are
  threads of one process and that NMsg is positive: type correctness; `OneLink`,
  `DialsSucceed`, `MeshReady`, `NotTerminatedEarly`, `TerminateArrives`; and that
  `PerfBus` implements `Measurement`. None of these is inductive. The invariant
  `IInv` adds: that the threads exit together; that links and pending dials follow
  the dial rules; that a sleep that suffices leaves the others in the stages it
  waited for; that a connection stays up until an end closes; that main knows all
  promises are set when it stops spraying; that the terminate message is the last
  in a queue; and that nobody finishes before the clock runs. Each part is preserved
  by a lemma of its own that relies on the parts before it.
* `PerfBusProofs`, of the sample `bus.cpp`: `SampleOneLink` and `OnceAndInOrder`
  state `OneLinkPerPair` and `OnceInOrder`. `Bus` is there an instance, `B!Spec`, with
  OneProcess FALSE; the two properties are those of `BusSetup` and `BusTraffic`, whose
  variables are the instance's too. They hold for any number of members, restarts and dials that nng
  repeats, and queues of any size. The dial rules give at most one connection per
  pair (`DialedOneWay`, from `MeshOnce`), and so at most one copy of a message. That
  this copy is newer than all there is of its run needs `OnlyWhatWasSent`: a message
  that waits or was reported was sent by a run that is over, or is not beyond what
  the present run has sent; a restart keeps it since it begins a new run, and an
  exit since an exited member sends nothing.
* `PerfSurveyProofs`: `LastResponseIsCollected` for any number of responders and
  surveys, and that each of the two timings implements `Measurement`. The invariant
  says that a responder is one survey behind or has handled the current one, and
  that the number collected is the number of responders whose response to the
  current survey has been received. The step that needs it is the next survey: as
  many responses as responders means everybody's.
* `RequestsProofs`: `ProcessedOnce` for any number of clients and starts. The
  invariant says where a request can be, and that a client without a connection
  has nothing at the server that runs: it is what makes sending again harmless.
* `PerfReqRepProofs`: `StaysInStep` and `TimingsApart` for any number of requests,
  also none. The invariant lists the places where the one request may be: nowhere,
  with nng, with the replier, answered or lost by the close; the places of the two
  threads select among them.
* `PipelineProofs`: `EachToOnePuller` and `NoDataIsLost` for any number of pullers,
  messages and runs, and that the timing implements `Measurement`. That a message
  is in one place (`OnePlace`) is kept only because what is pushed is newer than all
  there is (`OnlyWhatWasSent`, which has to hold across runs: messages are numbered
  on); that a puller takes no data along when it closes needs that queues are in
  order and that an end message comes after all data, of whichever run
  (`QueuesInOrder`, `EndsAreLast`).
* `PubSubProofs`: `SubscribedInOrder`, `LastIsKept` and the refinement of
  `Measurement`, for queues of any size. `LastIsNeverDropped` is nearly inductive,
  since nng drops old messages first; but the queue must have got the last message,
  so the invariant adds that a subscriber has subscribed when the publisher begins
  (`AllAreThere`) and that a thread's connection does not go away
  (`ThreadsStayConnected`). The order needs that what waits is newer than what was
  read (`NewerFollow`), for which again everything must be older than the next
  message, whichever run publishes it.
* `SurveyProofs`: what respondents and the other samples read is the text that was
  written, for every text without a NUL (`SurveyTextIsRead`, `TextIsRead`; a survey
  must not be empty, an empty one has no zero byte behind it). With it,
  `AnswersAreRight` and, of the step that ends a survey, `TimelyAnswersAreHeard`, for
  any number of respondents, surveys, runs and any room in the queues. `OnePlace` and
  `AnsweredOnce` say that a survey and its response are in one place at a time:
  with the connection, the respondent, on the way back or printed, and never in two.
  `NothingIsLost` is the converse: while a survey is outstanding, who has it is
  connected to the surveyor that asked, and a response to it is on its way, has
  arrived or is printed, unless the respondent was stopped. `TimelyAnswersAreHeard`
  is what remains of it when nothing is on its way.
* `PairProofs`: `OwnMessage` for any number of clients and of starts of the server,
  and the refinement of `Measurement`. The socket has no notion of whose message it
  answers; that the echo goes to its sender follows from `OneExchange`: as long as
  no client was stopped after it sent, whatever is under way is one exchange, in one
  of seven stages, and it is that of the peer. Once a client was, `OneExchange` says
  nothing. `EchoedOnce` is about that case too: every message under way, or received, is
  of a client that has sent it, and is in one place only: with nng on the way to the
  server, with the server, with nng on the way back, or with one client. A connection that goes
  away only shortens the queues, and only `Send` adds a message, once per client.

The proofs that a timing implements `Measurement` map a sample to the initial
state of `Measurement` (it measures nothing), and split the steps of the timing
into those that start the clock, finish a participant, stop it, report, or end in
a failure; all the others stutter.

### Nobody waits for ever, and everything comes to rest

The fear of every one of these programs is a hang: a join for a thread that waits
for a message that was dropped, a blocked send, a survey nobody ends. That something
*eventually happens* cannot be proved here, but the two things it rests on can.

* `WaitsEnd`, for each of the six timings: in every reachable state the program is
  over, or a thread or nng can take a step, or it is in one of the hangs that the
  theorem names. `MainCanStep` and `CanStep` list the guards of the actions (they stand
  for ENABLED; TLC finds them equal to it on small instances). Where an action also
  chooses among outcomes a lemma shows that there is one: a publish always has a way to
  drop (`PublishNeverBlocks`), a set of pending dials has a least one (`LeastOf`).
* `ComesToRest`, for all but the bus, whose main sprays as long as it takes: what is
  left to do is a natural number, or one for main and one for every thread, and every
  step of the timing makes it less, main first. No step can be taken for ever.

Together they say that a run ends, or stops in a named hang, whatever the order of
the steps and whatever is lost; only that a scheduler takes a step that can be
taken, the weak fairness of section 3, is left to TLC. The hangs that remain are:

| timing | the only hang |
|---|---|
| `PerfBus` | the sleeps were too short, the terminate message missed a receiver, and main joins it |
| `PerfSurvey` | no surveys were asked for (`NReq` 0), and main joins a responder that was too late for the extra one |
| `PerfReqRep` | the sleep was too short, the close lost a reply, and main waits for it |
| `Pipeline` | all end messages are pushed, another puller has or took along the one that a puller waits for, and nng holds more than one message for a puller |
| `PubSub` | the user did not wait for the subscribers, one missed the last message, and main joins it |
| `Pair` | none |

None of them needs a new idea but each needs an invariant that no property asked for.
In `Pipeline` no push can block because no more pullers are told to end than end messages
were pushed (`OneEndEach`, by counting): while one is left to push, a puller is left to
take it. With queues of one the numbers are equal, and the hang cannot happen at all. In
`PerfBus` a member that waits in `setupBus` waits for one that can go on
(`SetupGoesOn`), and no receiver leaves before it is told to (`NobodyLeavesEarly`). In
`PerfSurvey` a thread that waits is waiting for a survey that is on its way or still to be
sent (`Awaited`), in `Pair` every message is served, or waits in the queue
(`NoMessageLost`). `PlaceIsFreed` is the same for the sample of `Pair`: while somebody
is kept waiting, the place is free, a step frees it, or it is one of the two
situations of `NextIsServed`.

Proofs that failed changed the models. With no requests at all the replier of
`PerfReqRep` may have closed before main dials, so that the dial fails. The jam of
`Pair` and the room that `EverybodyHeard` needs came up when TLC's bounds, which these
theorems do without, were varied.

Every invariant that a run checks is a theorem. Only model-checked are the liveness
properties: `EverybodyHeard`, `MeshHeals`, `ClockStops`, the end of a punctual timing
(`BusRunEnds`, `SurveyTimingsEnd`, `RequestTimingsEnd`, `TimedSubscribersEnd`,
`PairTimingEnds`), `NextSurveyFollows`, `RequestsAreAnswered`, `AllArePushed`, `EndsForAllEndTheRun`,
`PushGetsThrough`, `LatestIsHeard`, `ConnectedIsServed` and `NextIsServed`. They rest
on fairness, and so on ENABLED, which is out of the prover's reach. So is the
induction over data that would turn a measure into a number of steps.

## 5. Findings

* `surveyor.cpp` treats `NNG_ETIMEDOUT` as the end of a survey and any other error
  as fatal. If the lifetime ends while a response is being printed, the next
  receive fails with `NNG_ESTATE` and the surveyor exits (run `survey_fails`).
* `Readme.md:51` expects that "a live crashed consumer will bring things to a halt (not
  tested)", from a round robin distribution. In run `pipeline_halts` one of two
  pullers hangs, connected, before the first push; the other takes whatever the
  first has no room for, and the pusher exits. This rests on nng's push as modelled
  (section 2): `push.cpp` itself does nothing to distribute its messages, and with
  a strict round robin the expectation would be met.
* The topic `DATE` that `Readme.md:122` and `:133` advertise is published as `TIME`
  by `publisher.cpp:77` (run `pubsub_topics`).
* Not shown by a run: the comment at `performance/pushpull.cpp:18` speaks of "nmsgs -
  npullers messages with 0 as the first byte", followed by npullers end messages.
  `pusher` sends nmsg data messages and then the npullers end messages, which is
  what `Pipeline` models.

## 6. Not modelled

* Sizes of messages: a `msgSize` below 4 in the timed bus, and the size limit of the
  second survey socket except as the switch `oversize`. Texts other than those of
  surveys: nothing but the printing depends on them.
* Parameters for which a timing is meaningless: NMsg of 0 in `PerfBus`, `PubSub`
  and `Pair`, and numbers that a 32 bit sequence number does not reach.
* The memory that `performance/survey.cpp` never frees, and the arithmetic of the
  reports, which divides by the time that has passed.
* The minute after which nng sends a request again in `PerfReqRep`: its replier is a
  thread that answers at once. `Requests` has it.
* Partitions of the network: connections go away with the process of an end only.
* `bus.sh` and the build files.

## 7. Plan

The order was the timed bus, the setup and sample of the bus, the survey, then the
patterns that share `Measurement`, the remaining timings, and restarts of the
listening processes, and then theorems, those of the timings first. All that was planned is
done. What would be worth adding are theorems like `WaitsEnd` for the samples other
than the pair, which do not end and whose hangs depend on what their users do: that a
survey that is outstanding can always expire, or that a resent request reaches a
server that runs.
