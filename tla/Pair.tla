--------------------------------- MODULE Pair ---------------------------------
(***************************************************************************)
(* The pair pattern: onetoones.cpp with onetoonec.cpp, and                 *)
(* performance/pair.cpp.  A pair socket has one peer; the connection of    *)
(* anybody else is refused, and nng tries again in the background.         *)
(*                                                                         *)
(* In the sample, the server echoes each message and then sends its pid;   *)
(* a client, a process, sends one message, waits for two and exits.  The   *)
(* server may be stopped and started again.  In the timing, the listening  *)
(* end is a thread that receives NMsg messages and the client is main,     *)
(* which sends them and joins the thread.                                  *)
(***************************************************************************)
EXTENDS Integers, Sequences, SequencesExt, FiniteSets

CONSTANTS
  Clients,      \* in the timing, main is one of them and the others stay away
  NMsg,         \* messages of the timing (argv[2])
  QueueBound,   \* messages that nng holds in one direction
  MaxStarts,    \* how often the server of the sample is started (bounds the model)
  Nobody

ASSUME PairAssumption ==
  /\ IsFiniteSet(Clients) /\ Clients # {}
  /\ {NMsg, QueueBound, MaxStarts} \subseteq Nat \ {0}
  /\ Nobody \notin Clients

VARIABLES
  program,    \* "onetoone" or "pair": which of the two runs
  punctual,   \* is the sleep of pair.cpp long enough?
  server,     \* where the listening end is
  starts,     \* how often the listening end was started
  held,       \* the message the server has received and not yet echoed
  served,     \* messages the thread of the timing has received
  peer,       \* the client that is connected
  client,     \* where each client is
  sent,       \* messages each client has sent
  inbox,      \* the messages that nng holds for the listening end, oldest first
  outbox,     \* the messages that nng holds for whoever is the peer, oldest first
  got         \* the messages each client has received, in order

settings == <<program, punctual>>
serverVars == <<server, starts, held, served>>
linkVars == <<peer, inbox, outbox>>
clientVars == <<client, sent, got>>
vars == <<settings, serverVars, linkVars, clientVars>>

Pid == Nobody     \* the server's unsolicited message; a client's is the client
NoPeer == Nobody

TypeOK ==
  /\ program \in {"onetoone", "pair"}
  /\ punctual \in BOOLEAN
  /\ server \in {"opened", "serving", "echoing", "telling", "returned", "failed"}
  /\ starts \in 1 .. MaxStarts
  /\ held \in Clients \cup {Pid}
  /\ served \in 0 .. NMsg
  /\ peer \in Clients \cup {NoPeer}
  /\ client \in [Clients -> {"new", "dialed", "sending", "sent", "timed", "done", "gone"}]
  /\ sent \in [Clients -> 0 .. NMsg]
  /\ inbox \in Seq(Clients) /\ Len(inbox) <= QueueBound
  /\ outbox \in Seq(Clients \cup {Pid}) /\ Len(outbox) <= QueueBound
  /\ got \in [Clients -> Seq(Clients \cup {Pid})]
  /\ \A c \in Clients : Len(got[c]) <= 2

Init ==
  /\ program \in {"onetoone", "pair"}
  /\ punctual \in IF program = "pair" THEN BOOLEAN ELSE {FALSE}
  /\ server = "opened"
  /\ starts = 1
  /\ held = Pid
  /\ served = 0
  /\ peer = NoPeer
  /\ client = [c \in Clients |-> "new"]
  /\ sent = [c \in Clients |-> 0]
  /\ inbox = <<>>
  /\ outbox = <<>>
  /\ got = [c \in Clients |-> <<>>]

Listening == server \in {"serving", "echoing", "telling", "returned"}

\* The client's end of the connection closes: what nng has passed on for it
\* already, the oldest, and what it has not passed on yet, the newest, is lost.
\* The rest of the server's messages waits for the next peer.
Disconnect(c) ==
  IF peer = c
  THEN /\ peer' = NoPeer
       /\ inbox' \in Prefixes(inbox)
       /\ outbox' \in Suffixes(outbox)
  ELSE UNCHANGED linkVars

------------------------------------------------------------------------------

Listen ==
  /\ server = "opened"
  /\ server' = "serving"
  /\ UNCHANGED <<settings, starts, held, served, linkVars, clientVars>>

\* service() gets a message.
ServerReceive ==
  /\ program = "onetoone"
  /\ server = "serving"
  /\ inbox # <<>>
  /\ held' = Head(inbox)
  /\ inbox' = Tail(inbox)
  /\ server' = "echoing"
  /\ UNCHANGED <<settings, starts, served, peer, outbox, clientVars>>

\* nng_sendmsg of a message hands it to nng, and waits while there is no room.
ServerSend(msg, next) ==
  /\ Len(outbox) < QueueBound
  /\ outbox' = Append(outbox, msg)
  /\ server' = next
  /\ UNCHANGED <<settings, starts, held, served, peer, inbox, clientVars>>

\* Mutated form of Echo: the message is not the one that was received.
EchoPid == server = "echoing" /\ ServerSend(Pid, "telling")

Echo == server = "echoing" /\ ServerSend(held, "telling")

\* Mutated form of Tell: the unsolicited message is left out.
TellNothing ==
  /\ server = "telling"
  /\ server' = "serving"
  /\ UNCHANGED <<settings, starts, held, served, linkVars, clientVars>>

\* Mutated form of Tell: service() serves one message.
TellAndRest == server = "telling" /\ ServerSend(Pid, "returned")

Tell == server = "telling" /\ ServerSend(Pid, "serving")

\* Mutated form of AllReceived: the loop of the thread runs once more.
OneMoreReceived(n) == n = NMsg + 1

AllReceived(n) == n = NMsg

\* The thread of the timing counts its messages, and returns.
ReceiverReceive ==
  /\ program = "pair"
  /\ server = "serving"
  /\ inbox # <<>>
  /\ inbox' = Tail(inbox)
  /\ served' = served + 1
  /\ server' = IF AllReceived(served') THEN "returned" ELSE server
  /\ UNCHANGED <<settings, starts, held, peer, outbox, clientVars>>

\* A call of nng fails, or control-C.  In the timing main goes with it.
ServerFail ==
  /\ server # "failed"
  /\ program = "pair" => \A c \in Clients : client[c] \notin {"done", "gone"}
  /\ server' = "failed"
  /\ peer' = NoPeer /\ inbox' = <<>> /\ outbox' = <<>>
  /\ client' = [c \in Clients |-> IF program = "pair" THEN "gone" ELSE client[c]]
  /\ UNCHANGED <<settings, starts, held, served, sent, got>>

\* The user starts the server of the sample again.
Restart ==
  /\ program = "onetoone"
  /\ server = "failed"
  /\ starts < MaxStarts
  /\ starts' = starts + 1
  /\ server' = "opened"
  /\ UNCHANGED <<settings, held, served, linkVars, clientVars>>

------------------------------------------------------------------------------

\* The dial of a client that nobody listens to is refused, and it exits.
\* While there is a peer, nng connects only later (Connect).
Dial(c) ==
  /\ client[c] = "new"
  /\ program = "pair" =>
       /\ punctual => Listening
       /\ \A d \in Clients : client[d] = "new"
  /\ client' = [client EXCEPT ![c] = IF Listening THEN "dialed" ELSE "gone"]
  /\ peer' = IF Listening /\ peer = NoPeer THEN c ELSE peer
  /\ UNCHANGED <<settings, serverVars, sent, inbox, outbox, got>>

\* nng dials again, in the background, after a refusal or a lost connection.
Connect(c) ==
  /\ client[c] \in {"dialed", "sent"}
  /\ Listening
  /\ peer = NoPeer
  /\ peer' = c
  /\ UNCHANGED <<settings, serverVars, clientVars, inbox, outbox>>

\* main of the timing: the user hits Enter, and the clock starts.
StartSending(c) ==
  /\ program = "pair"
  /\ client[c] = "dialed"
  /\ client' = [client EXCEPT ![c] = "sending"]
  /\ UNCHANGED <<settings, serverVars, linkVars, sent, got>>

\* nng_send; the sample's client sends once.
Send(c) ==
  /\ peer = c
  /\ client[c] = IF program = "pair" THEN "sending" ELSE "dialed"
  /\ sent[c] < NMsg
  /\ Len(inbox) < QueueBound
  /\ inbox' = Append(inbox, c)
  /\ sent' = [sent EXCEPT ![c] = @ + 1]
  /\ client' = IF program = "onetoone" THEN [client EXCEPT ![c] = "sent"] ELSE client
  /\ UNCHANGED <<settings, serverVars, peer, outbox, got>>

\* What a client sends over a connection that is about to be refused is lost.
SendToNobody(c) ==
  /\ program = "onetoone"
  /\ peer \notin {c, NoPeer}
  /\ client[c] = "dialed"
  /\ client' = [client EXCEPT ![c] = "sent"]
  /\ sent' = [sent EXCEPT ![c] = @ + 1]
  /\ UNCHANGED <<settings, serverVars, linkVars, got>>

Receive(c) ==
  /\ peer = c
  /\ client[c] = "sent"
  /\ Len(got[c]) < 2
  /\ outbox # <<>>
  /\ got' = [got EXCEPT ![c] = Append(@, Head(outbox))]
  /\ outbox' = Tail(outbox)
  /\ UNCHANGED <<settings, serverVars, peer, client, sent, inbox>>

Exit(c) ==
  /\ client[c] = "sent"
  /\ Len(got[c]) = 2
  /\ client' = [client EXCEPT ![c] = "done"]
  /\ Disconnect(c)
  /\ UNCHANGED <<settings, serverVars, sent, got>>

\* Control-C, or a call of nng that fails, ends a client of the sample.
Leave(c) ==
  /\ program = "onetoone"
  /\ client[c] \in {"dialed", "sent"}
  /\ client' = [client EXCEPT ![c] = "gone"]
  /\ Disconnect(c)
  /\ UNCHANGED <<settings, serverVars, sent, got>>

\* Mutated form of ThreadReturned: the clock is read before the join.
NoJoin == TRUE

ThreadReturned == server = "returned"

\* "Ensures the sender got them all."
Join(c) ==
  /\ client[c] = "sending"
  /\ sent[c] = NMsg
  /\ ThreadReturned
  /\ client' = [client EXCEPT ![c] = "timed"]
  /\ UNCHANGED <<settings, serverVars, linkVars, sent, got>>

Report(c) ==
  /\ client[c] = "timed"
  /\ client' = [client EXCEPT ![c] = "done"]
  /\ UNCHANGED <<settings, serverVars, linkVars, sent, got>>

ServerStep == Listen \/ ServerReceive \/ Echo \/ Tell \/ ReceiverReceive

ClientStep(c) == StartSending(c) \/ Send(c) \/ Receive(c) \/ Exit(c) \/ Join(c) \/ Report(c)

Next ==
  \/ ServerStep
  \/ ServerFail
  \/ Restart
  \/ \E c \in Clients : Dial(c) \/ Connect(c) \/ ClientStep(c) \/ SendToNobody(c) \/ Leave(c)

\* What runs, runs on, nng tries to connect for ever, and main of the timing
\* dials.  Nobody has to start the clients of the sample, or its server again.
Fairness ==
  /\ WF_vars(ServerStep)
  /\ WF_vars(program = "pair" /\ \E c \in Clients : Dial(c))
  /\ \A c \in Clients : WF_vars(ClientStep(c)) /\ WF_vars(Connect(c))

Spec == Init /\ [][Next]_vars /\ Fairness

------------------------------------------------------------------------------

\* Has a client been stopped after it sent its message?
Disturbed == \E c \in Clients : client[c] = "gone" /\ sent[c] > 0

\* "Expect it back again" (onetoonec.cpp:2): as long as no client was stopped
\* after it sent, the first message that a client gets is its own and the
\* second the pid, although the server's socket is one for all clients.  The echo
\* that a stopped client leaves may go to another one, but never to two.
OwnMessageComesBack ==
  /\ Disturbed \/ \A c \in Clients : IsPrefix(got[c], <<c, Pid>>)
  /\ \A c, d, e \in Clients : (c \in Range(got[d]) /\ c \in Range(got[e])) => d = e

\* "Serially, several instances can run and exit" (Readme.md:111): who is
\* connected before it sends is served and exits, as long as nobody is stopped.
ConnectedIsServed ==
  \A c \in Clients :
    (program = "onetoone" /\ peer = c /\ client[c] = "dialed")
      ~> client[c] \in {"done", "gone"} \/ Disturbed \/ server = "failed"

\* The peer waits for answers to a message that went to nobody, or to a server
\* that is gone.
Unanswered(d) ==
  /\ peer = d /\ client[d] = "sent"
  /\ server = "serving" /\ inbox = <<>> /\ outbox = <<>>

\* The peer waits with its message for the server, and the server with an answer
\* for the peer: what stopped clients have left behind fills both directions.
Jammed(d) ==
  /\ peer = d /\ client[d] = "dialed"
  /\ server \in {"echoing", "telling"}
  /\ Len(inbox) = QueueBound /\ Len(outbox) = QueueBound

\* "Allowing the next one to connect" (Readme.md:111): if a client waits for ever
\* for its turn, then because of one that has the socket and waits itself, for
\* answers that nobody will send or for room that nobody will make.
NextIsServed ==
  \A c \in Clients :
    (program = "onetoone" /\ <>[](client[c] = "dialed" /\ Listening))
    => <>[](\E d \in Clients : Unanswered(d) \/ Jammed(d))

\* The timing ends when the sleep of main is long enough.
PairTimingEnds ==
  (program = "pair" /\ punctual) ~> server = "failed" \/ \E c \in Clients : client[c] = "done"

\* The timing keeps the promise of a measurement: its clock stops only when the
\* thread has received every message.
M == INSTANCE Measurement WITH
       Workers  <- {"receiver"},
       clock    <- IF program = "pair" /\ \E c \in Clients : client[c] = "sending" THEN "running"
                   ELSE IF program = "pair" /\ \E c \in Clients : client[c] \in {"timed", "done"} THEN "stopped"
                   ELSE "idle",
       finished <- IF program = "pair" /\ served = NMsg THEN {"receiver"} ELSE {},
       outcome  <- IF program = "pair" /\ \E c \in Clients : client[c] = "done" THEN "reported"
                   ELSE IF program = "pair" /\ \E c \in Clients : client[c] = "gone" THEN "aborted"
                   ELSE "busy"

PairIsMeasurement == M!Spec

==============================================================================
