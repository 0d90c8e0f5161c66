------------------------------ MODULE PairProofs ------------------------------
(***************************************************************************)
(* What holds of onetoones.cpp, onetoonec.cpp and performance/pair.cpp for *)
(* any number of clients and messages: as long as no client is stopped     *)
(* after it sent, each gets its own message and the pid; whoever is        *)
(* stopped, no message is echoed twice; and the timing is a measurement.   *)
(***************************************************************************)
EXTENDS Pair, SequenceTheorems, TLAPS

\* The sample: who has the server's socket has not exited, and who has not sent
\* has not received.
Serial ==
  program = "onetoone" =>
    /\ server # "returned"
    /\ peer # NoPeer => (client[peer] \in {"dialed", "sent"} /\ Listening)
    /\ \A c \in Clients :
         /\ client[c] \notin {"sending", "timed"}
         /\ client[c] \in {"new", "dialed"} => (sent[c] = 0 /\ got[c] = <<>>)
         /\ client[c] = "sent" => sent[c] > 0

\* Nothing is under way, neither in nng nor in the server.
AtRest == inbox = <<>> /\ outbox = <<>> /\ server \notin {"echoing", "telling"}

\* The exchange of c with the server, from its message to the pid.
Asked(c)  == /\ server = "serving" /\ inbox = <<c>>
             /\ outbox = <<>> /\ got[c] = <<>>
Held(c)   == /\ server = "echoing" /\ inbox = <<>> /\ held = c
             /\ outbox = <<>> /\ got[c] = <<>>
Echoed(c) == /\ server = "telling" /\ inbox = <<>>
             /\ <<got[c], outbox>> \in {<< <<>>, <<c>> >>, << <<c>>, <<>> >>}
Told(c)   == /\ server = "serving" /\ inbox = <<>>
             /\ <<got[c], outbox>> \in {<< <<>>, <<c, Pid>> >>, << <<c>>, <<Pid>> >>,
                                        << <<c, Pid>>, <<>> >>}

\* One exchange at a time, and that with the peer.
OneExchange ==
  (program = "onetoone" /\ ~Disturbed) =>
    /\ \A c \in Clients : got[c] \in {<<>>, <<c>>, <<c, Pid>>}
    /\ \/ AtRest
       \/ /\ peer \in Clients
          /\ client[peer] = "sent"
          /\ Asked(peer) \/ Held(peer) \/ Echoed(peer) \/ Told(peer)

\* The timing: main is the only client, and the thread returns when it has all
\* messages.
Timing ==
  program = "pair" =>
    /\ \A c, d \in Clients : \/ c = d \/ client[c] = "new" \/ client[d] = "new"
                             \/ client[c] = "gone" /\ client[d] = "gone"
    /\ \A c \in Clients : client[c] # "sent" /\ got[c] = <<>>
    /\ server \in {"opened", "serving", "returned", "failed"}
    /\ server \in {"opened", "serving"} => served < NMsg
    /\ server = "returned" => served = NMsg
    /\ server = "failed" => \A c \in Clients : client[c] = "gone"
    /\ \A c \in Clients : client[c] \in {"timed", "done"} => server = "returned"
    /\ (server = "serving" /\ inbox # <<>>) => \E c \in Clients : client[c] = "sending"
    /\ server = "opened" => (inbox = <<>> /\ peer = NoPeer)

IInv ==
  /\ TypeOK
  /\ Serial
  /\ OneExchange
  /\ Timing

------------------------------------------------------------------------------

\* The first message taken from a queue.
LEMMA TailFacts ==
  ASSUME NEW S, NEW q \in Seq(S), q # <<>>
  PROVE  /\ Head(q) \in S /\ Tail(q) \in Seq(S)
         /\ Len(q) \in Nat \ {0} /\ Len(Tail(q)) = Len(q) - 1
  BY HeadTailProperties, EmptySeq

\* A message added to a queue.
LEMMA AppendFacts ==
  ASSUME NEW S, NEW q \in Seq(S), NEW m \in S
  PROVE  /\ Append(q, m) \in Seq(S)
         /\ Len(q) \in Nat /\ Len(Append(q, m)) = Len(q) + 1
  BY AppendProperties

\* What a disconnection leaves of a queue.
LEMMA PartFacts ==
  ASSUME NEW S, NEW q \in Seq(S), NEW p \in Prefixes(q) \cup Suffixes(q)
  PROVE  p \in Seq(S) /\ Len(p) <= Len(q) /\ (q = <<>> => p = <<>>)
<1>1. Len(q) \in Nat
  OBVIOUS
<1>2. ASSUME NEW l \in 0 .. Len(q), p = SubSeq(q, 1, l)
      PROVE  p \in Seq(S) /\ Len(p) <= Len(q)
  BY <1>1, <1>2
<1>3. ASSUME NEW l \in 1 .. Len(q), p = SubSeq(q, l, Len(q))
      PROVE  p \in Seq(S) /\ Len(p) <= Len(q)
  BY <1>1, <1>3
<1>4. p \in Seq(S) /\ Len(p) <= Len(q)
  <2>1. CASE p \in Prefixes(q)
    BY <1>2, <2>1 DEF Prefixes
  <2>2. CASE p = <<>>
    BY <1>1, <2>2
  <2>3. CASE p \in Suffixes(q) \ {<<>>}
    BY <1>3, <2>3 DEF Suffixes
  <2>4. QED
    BY <2>1, <2>2, <2>3
<1>5. q = <<>> => p = <<>>
  BY <1>4, EmptySeq
<1>6. QED
  BY <1>4, <1>5

\* The messages of an exchange, one after the other.
LEMMA ExchangeFacts ==
  ASSUME NEW c \in Clients
  PROVE  /\ Head(<<c>>) = c /\ Tail(<<c>>) = <<>>
         /\ Head(<<Pid>>) = Pid /\ Tail(<<Pid>>) = <<>>
         /\ Head(<<c, Pid>>) = c /\ Tail(<<c, Pid>>) = <<Pid>>
         /\ Append(<<>>, c) = <<c>> /\ Append(<<>>, Pid) = <<Pid>>
         /\ Append(<<c>>, Pid) = <<c, Pid>>
         /\ <<c>> # <<>> /\ <<Pid>> # <<>> /\ <<c, Pid>> # <<>>
         /\ Len(<<>>) = 0 /\ Len(<<c>>) = 1 /\ Len(<<c, Pid>>) = 2
<1>1. /\ Head(<<c>>) = c /\ Tail(<<c>>) = <<>>
      /\ Head(<<Pid>>) = Pid /\ Tail(<<Pid>>) = <<>>
      /\ Head(<<c, Pid>>) = c
  OBVIOUS
<1>2. Tail(<<c, Pid>>) = <<Pid>>
  OBVIOUS
<1>3. Append(<<>>, c) = <<c>> /\ Append(<<>>, Pid) = <<Pid>>
  OBVIOUS
<1>4. Append(<<c>>, Pid) = <<c, Pid>>
  <2> DEFINE S == Clients \cup {Pid}
  <2>1. /\ <<c>> \in Seq(S) /\ Pid \in S /\ <<c, Pid>> \in Seq(S)
        /\ Len(<<c>>) = 1 /\ Len(<<c, Pid>>) = 2 /\ DOMAIN <<c>> = 1 .. 1
        /\ <<c>>[1] = c /\ <<c, Pid>>[1] = c /\ <<c, Pid>>[2] = Pid
    OBVIOUS
  <2> HIDE DEF S
  <2>2. /\ Append(<<c>>, Pid) \in Seq(S) /\ Len(Append(<<c>>, Pid)) = 2
        /\ Append(<<c>>, Pid)[1] = c /\ Append(<<c>>, Pid)[2] = Pid
    BY <2>1, AppendProperties
  <2>3. \A a \in 1 .. 2 : Append(<<c>>, Pid)[a] = <<c, Pid>>[a]
    BY <2>1, <2>2
  <2> DEFINE s == Append(<<c>>, Pid)
             t == <<c, Pid>>
  <2>4. s \in Seq(S) /\ t \in Seq(S) /\ Len(s) = 2 /\ Len(t) = 2 /\ \A a \in 1 .. 2 : s[a] = t[a]
    BY <2>1, <2>2, <2>3
  <2> HIDE DEF s, t
  <2>5. s = t
    BY <2>4, SeqEqual
  <2>6. QED
    BY <2>5 DEF s, t
<1>5. /\ <<c>> # <<>> /\ <<Pid>> # <<>> /\ <<c, Pid>> # <<>>
      /\ Len(<<>>) = 0 /\ Len(<<c>>) = 1 /\ Len(<<c, Pid>>) = 2
  OBVIOUS
<1>6. QED
  BY <1>1, <1>2, <1>3, <1>4, <1>5

\* The initial states satisfy the invariant.
LEMMA InitInv == Init => IInv
<1> SUFFICES ASSUME Init PROVE IInv
  OBVIOUS
<1>1. TypeOK
  <2>1. 1 \in 1 .. MaxStarts /\ 0 \in 0 .. NMsg /\ 0 <= QueueBound
    BY PairAssumption
  <2>2. \A S : <<>> \in Seq(S) /\ Len(<<>>) = 0
    OBVIOUS
  <2>3. 0 <= 2
    OBVIOUS
  <2>4. QED
    BY <2>1, <2>2, <2>3 DEF Init, TypeOK, Pid, NoPeer
<1>2. Serial /\ OneExchange
  BY DEF Init, Serial, OneExchange, AtRest
<1>3. Timing
  BY PairAssumption DEF Init, Timing
<1>4. QED
  BY <1>1, <1>2, <1>3 DEF IInv

------------------------------------------------------------------------------

\* The server of the sample takes a message, if there is one, and answers it.
LEMMA ServerReceiveKeepsInv == IInv /\ ServerReceive => IInv'
<1> SUFFICES ASSUME IInv, ServerReceive PROVE IInv'
  OBVIOUS
<1>1. /\ program = "onetoone" /\ server = "serving" /\ inbox # <<>>
      /\ held' = Head(inbox) /\ inbox' = Tail(inbox) /\ server' = "echoing"
      /\ UNCHANGED <<settings, starts, served, peer, outbox, clientVars>>
  BY DEF ServerReceive
<1>2. inbox \in Seq(Clients) /\ Len(inbox) <= QueueBound /\ QueueBound \in Nat
  BY PairAssumption DEF IInv, TypeOK
<1>3. TypeOK'
  <2>1. held' \in Clients /\ inbox' \in Seq(Clients) /\ Len(inbox') <= QueueBound
    BY <1>1, <1>2, TailFacts
  <2>2. QED
    BY <1>1, <2>1 DEF IInv, TypeOK, settings, clientVars
<1>4. Serial'
  BY <1>1 DEF IInv, Serial, Listening, settings, clientVars
<1>5. Timing'
  BY <1>1 DEF Timing, settings
<1>6. OneExchange'
  <2> SUFFICES ASSUME ~Disturbed
               PROVE  /\ \A c \in Clients : got[c] \in {<<>>, <<c>>, <<c, Pid>>}
                      /\ peer \in Clients /\ client[peer] = "sent" /\ Held(peer)'
    BY <1>1 DEF OneExchange, Disturbed, settings, clientVars
  <2>1. /\ \A c \in Clients : got[c] \in {<<>>, <<c>>, <<c, Pid>>}
        /\ peer \in Clients /\ client[peer] = "sent" /\ Asked(peer)
    BY <1>1 DEF IInv, OneExchange, AtRest, Held, Echoed, Told
  <2>2. Held(peer)'
    <3>1. Head(inbox) = peer /\ Tail(inbox) = <<>>
      BY <2>1, ExchangeFacts DEF Asked
    <3>2. QED
      BY <1>1, <2>1, <3>1 DEF Asked, Held, clientVars
  <2>3. QED
    BY <2>1, <2>2
<1>7. QED
  BY <1>3, <1>4, <1>5, <1>6 DEF IInv

\* It echoes the message that it holds, and tells its pid.
LEMMA ServerSendKeepsInv == IInv /\ (Echo \/ Tell) => IInv'
<1> SUFFICES ASSUME IInv, Echo \/ Tell PROVE IInv'
  OBVIOUS
<1>1. /\ \/ server = "echoing" /\ outbox' = Append(outbox, held) /\ server' = "telling"
         \/ server = "telling" /\ outbox' = Append(outbox, Pid) /\ server' = "serving"
      /\ Len(outbox) < QueueBound
      /\ UNCHANGED <<settings, starts, held, served, peer, inbox, clientVars>>
  BY DEF Echo, Tell, ServerSend
<1>2. program = "onetoone"
  BY <1>1 DEF IInv, TypeOK, Timing
<1>3. TypeOK'
  <2>1. /\ outbox \in Seq(Clients \cup {Pid}) /\ held \in Clients \cup {Pid} /\ QueueBound \in Nat
    BY PairAssumption DEF IInv, TypeOK
  <2>2. outbox' \in Seq(Clients \cup {Pid}) /\ Len(outbox') <= QueueBound
    <3>1. PICK m \in Clients \cup {Pid} : outbox' = Append(outbox, m)
      BY <1>1, <2>1
    <3>2. QED
      BY <1>1, <2>1, <3>1, AppendFacts
  <2>3. QED
    BY <1>1, <2>2 DEF IInv, TypeOK, settings, clientVars
<1>4. Serial'
  BY <1>1 DEF IInv, Serial, Listening, settings, clientVars
<1>5. Timing'
  BY <1>1, <1>2 DEF Timing, settings
<1>6. OneExchange'
  <2> SUFFICES ASSUME ~Disturbed
               PROVE  /\ \A c \in Clients : got[c] \in {<<>>, <<c>>, <<c, Pid>>}
                      /\ peer \in Clients /\ client[peer] = "sent"
                      /\ Echoed(peer)' \/ Told(peer)'
    BY <1>1 DEF OneExchange, Disturbed, settings, clientVars
  <2>1. /\ \A c \in Clients : got[c] \in {<<>>, <<c>>, <<c, Pid>>}
        /\ peer \in Clients /\ client[peer] = "sent"
        /\ \/ server = "echoing" /\ Held(peer)
           \/ server = "telling" /\ Echoed(peer)
    BY <1>1, <1>2 DEF IInv, OneExchange, AtRest, Asked, Held, Echoed, Told
  <2>2. CASE server = "echoing" /\ Held(peer)
    <3>1. outbox' = <<peer>> /\ server' = "telling" /\ got[peer] = <<>> /\ inbox = <<>>
      BY <1>1, <2>1, <2>2, ExchangeFacts DEF Held
    <3>2. Echoed(peer)'
      BY <1>1, <3>1 DEF Echoed, clientVars
    <3>3. QED
      BY <2>1, <3>2
  <2>3. CASE server = "telling" /\ Echoed(peer)
    <3>1. /\ server' = "serving" /\ inbox = <<>>
          /\ \/ got[peer] = <<>> /\ outbox' = <<peer, Pid>>
             \/ got[peer] = <<peer>> /\ outbox' = <<Pid>>
      BY <1>1, <2>1, <2>3, ExchangeFacts DEF Echoed
    <3>2. Told(peer)'
      BY <1>1, <3>1 DEF Told, clientVars
    <3>3. QED
      BY <2>1, <3>2
  <2>4. QED
    BY <2>1, <2>2, <2>3
<1>7. QED
  BY <1>3, <1>4, <1>5, <1>6 DEF IInv

\* The thread of the timing counts a message.
LEMMA ReceiverReceiveKeepsInv == IInv /\ ReceiverReceive => IInv'
<1> SUFFICES ASSUME IInv, ReceiverReceive PROVE IInv'
  OBVIOUS
<1>1. /\ program = "pair" /\ server = "serving" /\ inbox # <<>>
      /\ inbox' = Tail(inbox) /\ served' = served + 1
      /\ server' = IF served' = NMsg THEN "returned" ELSE "serving"
      /\ UNCHANGED <<settings, starts, held, peer, outbox, clientVars>>
  BY DEF ReceiverReceive, AllReceived
<1>2. served \in Nat /\ served < NMsg /\ NMsg \in Nat
  BY <1>1, PairAssumption DEF IInv, TypeOK, Timing
<1>3. TypeOK'
  <2>1. inbox \in Seq(Clients) /\ Len(inbox) <= QueueBound /\ QueueBound \in Nat
    BY PairAssumption DEF IInv, TypeOK
  <2>2. inbox' \in Seq(Clients) /\ Len(inbox') <= QueueBound
    BY <1>1, <2>1, TailFacts
  <2>3. served' \in 0 .. NMsg
    BY <1>1, <1>2
  <2>4. QED
    BY <1>1, <2>2, <2>3 DEF IInv, TypeOK, settings, clientVars
<1>4. Serial' /\ OneExchange'
  BY <1>1 DEF Serial, OneExchange, settings
<1>5. Timing'
  BY <1>1, <1>2 DEF IInv, Timing, settings, clientVars
<1>6. QED
  BY <1>3, <1>4, <1>5 DEF IInv

\* The server begins to listen, is stopped, or is started again.
LEMMA ServerGoesKeepsInv == IInv /\ (Listen \/ ServerFail \/ Restart) => IInv'
<1> SUFFICES ASSUME IInv, Listen \/ ServerFail \/ Restart PROVE IInv'
  OBVIOUS
<1>1. CASE Listen
  <2>1. TypeOK'
    BY <1>1 DEF Listen, IInv, TypeOK, settings, linkVars, clientVars
  <2>2. Serial'
    BY <1>1 DEF Listen, IInv, Serial, Listening, settings, linkVars, clientVars
  <2>3. OneExchange'
    BY <1>1 DEF Listen, IInv, OneExchange, AtRest, Asked, Held, Echoed, Told, Disturbed,
         settings, linkVars, clientVars
  <2>4. Timing'
    BY <1>1 DEF Listen, IInv, Timing, settings, linkVars, clientVars
  <2>5. QED
    BY <2>1, <2>2, <2>3, <2>4 DEF IInv
<1>2. CASE ServerFail
  <2>1. TypeOK'
    BY <1>2, PairAssumption DEF ServerFail, IInv, TypeOK, settings, NoPeer
  <2>2. Serial'
    BY <1>2 DEF ServerFail, IInv, TypeOK, Serial, Listening, settings
  <2>3. OneExchange'
    BY <1>2 DEF ServerFail, IInv, TypeOK, OneExchange, AtRest, Disturbed, settings
  <2>4. Timing'
    BY <1>2 DEF ServerFail, IInv, TypeOK, Timing, settings
  <2>5. QED
    BY <2>1, <2>2, <2>3, <2>4 DEF IInv
<1>3. CASE Restart
  <2>1. TypeOK'
    <3>1. starts' \in 1 .. MaxStarts
      BY <1>3, PairAssumption DEF Restart, IInv, TypeOK
    <3>2. QED
      BY <1>3, <3>1 DEF Restart, IInv, TypeOK, settings, linkVars, clientVars
  <2>2. Serial'
    BY <1>3 DEF Restart, IInv, Serial, Listening, settings, linkVars, clientVars
  <2>3. OneExchange'
    BY <1>3 DEF Restart, IInv, OneExchange, AtRest, Asked, Held, Echoed, Told, Disturbed,
         settings, linkVars, clientVars
  <2>4. Timing'
    BY <1>3 DEF Restart, Timing, settings
  <2>5. QED
    BY <2>1, <2>2, <2>3, <2>4 DEF IInv
<1>4. QED
  BY <1>1, <1>2, <1>3

------------------------------------------------------------------------------

\* A client that dials, or for which nng dials again, leaves what is under way.
LEMMA ConnectKeepsInv ==
  ASSUME IInv, NEW c \in Clients, Dial(c) \/ Connect(c)
  PROVE  IInv'
<1>1. CASE Dial(c)
  <2>1. /\ client[c] = "new"
        /\ program = "pair" => \A d \in Clients : client[d] = "new"
        /\ client' = [client EXCEPT ![c] = IF Listening THEN "dialed" ELSE "gone"]
        /\ peer' = IF Listening /\ peer = NoPeer THEN c ELSE peer
        /\ UNCHANGED <<settings, serverVars, sent, inbox, outbox, got>>
    BY <1>1 DEF Dial
  <2>2. /\ \A d \in Clients \ {c} : client'[d] = client[d]
        /\ client'[c] = IF Listening THEN "dialed" ELSE "gone"
    BY <2>1 DEF IInv, TypeOK
  <2>3. TypeOK'
    BY <2>1 DEF IInv, TypeOK, settings, serverVars
  <2>4. Serial'
    <3> SUFFICES ASSUME program = "onetoone" PROVE Serial'
      BY <2>1 DEF Serial, settings
    <3>1. Listening' <=> Listening
      BY <2>1 DEF Listening, serverVars
    <3>2. peer' # NoPeer => (client'[peer'] \in {"dialed", "sent"} /\ Listening)
      <4>1. CASE peer' = c /\ Listening /\ peer = NoPeer
        BY <2>2, <4>1
      <4>2. CASE peer' = peer
        BY <2>1, <2>2, <4>2 DEF IInv, TypeOK, Serial
      <4>3. QED
        BY <2>1, <4>1, <4>2
    <3>3. \A d \in Clients :
            /\ client'[d] \notin {"sending", "timed"}
            /\ client'[d] \in {"new", "dialed"} => (sent[d] = 0 /\ got[d] = <<>>)
            /\ client'[d] = "sent" => sent[d] > 0
      BY <2>1, <2>2 DEF IInv, Serial
    <3>4. QED
      BY <2>1, <3>1, <3>2, <3>3 DEF IInv, Serial, serverVars
  <2>5. OneExchange'
    <3> SUFFICES ASSUME program = "onetoone", ~Disturbed' PROVE OneExchange'
      BY <2>1 DEF OneExchange, settings
    <3>1. ~Disturbed
      BY <2>1, <2>2 DEF Disturbed
    <3>2. \A d \in Clients : got[d] \in {<<>>, <<d>>, <<d, Pid>>}
      BY <3>1 DEF IInv, OneExchange
    <3>3. CASE AtRest
      BY <2>1, <3>2, <3>3 DEF OneExchange, AtRest, serverVars
    <3>4. CASE peer \in Clients /\ client[peer] = "sent"
               /\ (Asked(peer) \/ Held(peer) \/ Echoed(peer) \/ Told(peer))
      <4>1. peer' = peer /\ client'[peer] = "sent"
        BY <2>1, <2>2, <3>4, PairAssumption DEF NoPeer
      <4>2. Asked(peer)' \/ Held(peer)' \/ Echoed(peer)' \/ Told(peer)'
        BY <2>1, <3>4, <4>1 DEF Asked, Held, Echoed, Told, serverVars
      <4>3. QED
        BY <2>1, <3>2, <3>4, <4>1, <4>2 DEF OneExchange
    <3>5. QED
      BY <3>1, <3>3, <3>4 DEF IInv, OneExchange
  <2>6. Timing'
    <3> SUFFICES ASSUME program = "pair" PROVE Timing'
      BY <2>1 DEF Timing, settings
    <3>1. server = "failed" => FALSE
      BY <2>1 DEF IInv, Timing
    <3>2. inbox # <<>> => server # "serving"
      BY <2>1 DEF IInv, Timing
    <3>3. server = "opened" => (peer' = NoPeer /\ inbox = <<>>)
      BY <2>1 DEF IInv, Timing, Listening
    <3>4. QED
      BY <2>1, <2>2, <3>1, <3>2, <3>3 DEF IInv, Timing, settings, serverVars
  <2>7. QED
    BY <2>3, <2>4, <2>5, <2>6 DEF IInv
<1>2. CASE Connect(c)
  <2>1. /\ client[c] \in {"dialed", "sent"} /\ Listening /\ peer = NoPeer /\ peer' = c
        /\ UNCHANGED <<settings, serverVars, clientVars, inbox, outbox>>
    BY <1>2 DEF Connect
  <2>2. TypeOK'
    BY <2>1 DEF IInv, TypeOK, settings, serverVars, clientVars
  <2>3. Serial'
    BY <2>1 DEF IInv, Serial, Listening, settings, serverVars, clientVars
  <2>4. OneExchange'
    BY <2>1, PairAssumption DEF IInv, OneExchange, AtRest, Disturbed, NoPeer, settings, serverVars, clientVars
  <2>5. Timing'
    BY <2>1 DEF IInv, Timing, Listening, settings, serverVars, clientVars
  <2>6. QED
    BY <2>2, <2>3, <2>4, <2>5 DEF IInv
<1>3. QED
  BY <1>1, <1>2

\* The message of a client begins an exchange; those of the timing are counted.
LEMMA SendKeepsInv ==
  ASSUME IInv, NEW c \in Clients, Send(c)
  PROVE  IInv'
<1>1. /\ peer = c
      /\ client[c] = IF program = "pair" THEN "sending" ELSE "dialed"
      /\ sent[c] < NMsg /\ Len(inbox) < QueueBound
      /\ inbox' = Append(inbox, c)
      /\ sent' = [sent EXCEPT ![c] = @ + 1]
      /\ client' = IF program = "onetoone" THEN [client EXCEPT ![c] = "sent"] ELSE client
      /\ UNCHANGED <<settings, serverVars, peer, outbox, got>>
  BY DEF Send
<1>2. /\ sent[c] \in Nat /\ NMsg \in Nat /\ QueueBound \in Nat /\ inbox \in Seq(Clients)
      /\ peer # NoPeer /\ sent'[c] = sent[c] + 1
      /\ \A d \in Clients \ {c} : sent'[d] = sent[d] /\ client'[d] = client[d]
  BY <1>1, PairAssumption DEF IInv, TypeOK, NoPeer
<1>3. TypeOK'
  <2>1. inbox' \in Seq(Clients) /\ Len(inbox') <= QueueBound
    BY <1>1, <1>2, AppendFacts
  <2>2. sent' \in [Clients -> 0 .. NMsg]
    BY <1>1, <1>2 DEF IInv, TypeOK
  <2>3. QED
    BY <1>1, <2>1, <2>2 DEF IInv, TypeOK, settings, serverVars
<1>4. CASE program = "onetoone"
  <2>1. /\ client[c] = "dialed" /\ client'[c] = "sent" /\ got[c] = <<>>
        /\ server \notin {"opened", "returned", "failed"}
    BY <1>1, <1>2, <1>4 DEF IInv, TypeOK, Serial, Listening
  <2>2. Serial'
    BY <1>1, <1>2, <1>4, <2>1 DEF IInv, Serial, Listening, settings, serverVars
  <2>3. OneExchange'
    <3> SUFFICES ASSUME ~Disturbed' PROVE OneExchange'
      BY DEF OneExchange
    <3>1. ~Disturbed
      BY <1>2, <2>1 DEF Disturbed
    <3>2. AtRest /\ \A d \in Clients : got[d] \in {<<>>, <<d>>, <<d, Pid>>}
      BY <1>1, <1>4, <2>1, <3>1 DEF IInv, OneExchange
    <3>3. Asked(c)'
      <4>1. server = "serving"
        BY <2>1, <3>2 DEF IInv, TypeOK, AtRest
      <4>2. inbox' = <<c>> /\ outbox = <<>>
        BY <1>1, <3>2, ExchangeFacts DEF AtRest
      <4>3. QED
        BY <1>1, <2>1, <4>1, <4>2 DEF Asked, serverVars
    <3>4. QED
      BY <1>1, <2>1, <3>2, <3>3 DEF OneExchange
  <2>4. Timing'
    BY <1>1, <1>4 DEF Timing, settings
  <2>5. QED
    BY <1>3, <2>2, <2>3, <2>4 DEF IInv
<1>5. CASE program = "pair"
  <2>1. Serial' /\ OneExchange'
    BY <1>1, <1>5 DEF Serial, OneExchange, settings
  <2>2. Timing'
    BY <1>1, <1>2, <1>5 DEF IInv, Timing, settings, serverVars
  <2>3. QED
    BY <1>3, <2>1, <2>2 DEF IInv
<1>6. QED
  BY <1>4, <1>5 DEF IInv, TypeOK

\* What goes to nobody changes nothing but its sender.
LEMMA SendToNobodyKeepsInv ==
  ASSUME IInv, NEW c \in Clients, SendToNobody(c)
  PROVE  IInv'
<1>1. /\ program = "onetoone" /\ peer # c /\ client[c] = "dialed"
      /\ client' = [client EXCEPT ![c] = "sent"]
      /\ sent' = [sent EXCEPT ![c] = @ + 1]
      /\ UNCHANGED <<settings, serverVars, linkVars, got>>
  BY DEF SendToNobody
<1>2. /\ sent[c] = 0 /\ sent'[c] = 1 /\ client'[c] = "sent"
      /\ \A d \in Clients \ {c} : sent'[d] = sent[d] /\ client'[d] = client[d]
  BY <1>1 DEF IInv, TypeOK, Serial
<1>3. TypeOK'
  <2>1. sent' \in [Clients -> 0 .. NMsg]
    BY <1>1, <1>2, PairAssumption DEF IInv, TypeOK
  <2>2. QED
    BY <1>1, <2>1 DEF IInv, TypeOK, settings, serverVars, linkVars
<1>4. Serial'
  <2>1. peer # NoPeer => (client'[peer] \in {"dialed", "sent"} /\ Listening')
    BY <1>1, <1>2 DEF IInv, TypeOK, Serial, Listening, serverVars
  <2>2. QED
    BY <1>1, <1>2, <2>1 DEF IInv, Serial, settings, serverVars, linkVars
<1>5. OneExchange'
  <2> SUFFICES ASSUME ~Disturbed' PROVE OneExchange'
    BY DEF OneExchange
  <2>1. ~Disturbed
    BY <1>1, <1>2 DEF Disturbed
  <2>2. UNCHANGED <<peer, server, held, inbox, outbox, got, program>>
    BY <1>1 DEF settings, serverVars, linkVars
  <2>3. AtRest => AtRest'
    BY <2>2 DEF AtRest
  <2>4. \A d \in Clients : (Asked(d) \/ Held(d) \/ Echoed(d) \/ Told(d)) =>
                             (Asked(d)' \/ Held(d)' \/ Echoed(d)' \/ Told(d)')
    BY <2>2 DEF Asked, Held, Echoed, Told
  <2>5. \A d \in Clients : (d = peer /\ client[d] = "sent") => client'[d] = "sent"
    BY <1>1, <1>2
  <2>6. QED
    BY <1>1, <2>1, <2>2, <2>3, <2>4, <2>5 DEF IInv, OneExchange
<1>6. Timing'
  BY <1>1 DEF Timing, settings
<1>7. QED
  BY <1>3, <1>4, <1>5, <1>6 DEF IInv

\* The peer gets what the server has sent, in order.
LEMMA ReceiveKeepsInv ==
  ASSUME IInv, NEW c \in Clients, Receive(c)
  PROVE  IInv'
<1>1. /\ peer = c /\ client[c] = "sent" /\ Len(got[c]) < 2 /\ outbox # <<>>
      /\ got' = [got EXCEPT ![c] = Append(@, Head(outbox))]
      /\ outbox' = Tail(outbox)
      /\ UNCHANGED <<settings, serverVars, peer, client, sent, inbox>>
  BY DEF Receive
<1>2. /\ program = "onetoone"
      /\ got[c] \in Seq(Clients \cup {Pid}) /\ outbox \in Seq(Clients \cup {Pid})
      /\ Len(outbox) <= QueueBound /\ QueueBound \in Nat
      /\ got'[c] = Append(got[c], Head(outbox))
      /\ \A d \in Clients \ {c} : got'[d] = got[d]
  BY <1>1, PairAssumption DEF IInv, TypeOK, Timing
<1>3. TypeOK'
  <2>1. outbox' \in Seq(Clients \cup {Pid}) /\ Len(outbox') <= QueueBound /\ Head(outbox) \in Clients \cup {Pid}
    BY <1>1, <1>2, TailFacts
  <2>2. got'[c] \in Seq(Clients \cup {Pid}) /\ Len(got'[c]) <= 2
    BY <1>1, <1>2, <2>1, AppendFacts
  <2>3. got' \in [Clients -> Seq(Clients \cup {Pid})] /\ \A d \in Clients : Len(got'[d]) <= 2
    BY <1>1, <1>2, <2>2 DEF IInv, TypeOK
  <2>4. QED
    BY <1>1, <2>1, <2>3 DEF IInv, TypeOK, settings, serverVars
<1>4. Serial'
  BY <1>1, <1>2 DEF IInv, Serial, Listening, settings, serverVars
<1>5. OneExchange'
  <2> SUFFICES ASSUME ~Disturbed PROVE OneExchange'
    BY <1>1 DEF OneExchange, Disturbed
  <2>1. \A d \in Clients : got[d] \in {<<>>, <<d>>, <<d, Pid>>}
    BY <1>2 DEF IInv, OneExchange
  <2>2. Echoed(c) \/ Told(c)
    BY <1>1, <1>2 DEF IInv, OneExchange, AtRest, Asked, Held
  <2>3. CASE Echoed(c)
    <3>1. got[c] = <<>> /\ outbox = <<c>> /\ server = "telling" /\ inbox = <<>>
      BY <1>1, <2>3 DEF Echoed
    <3>2. got'[c] = <<c>> /\ outbox' = <<>>
      BY <1>1, <1>2, <3>1, ExchangeFacts
    <3>3. Echoed(c)'
      BY <1>1, <3>1, <3>2 DEF Echoed, serverVars
    <3>4. QED
      BY <1>1, <1>2, <2>1, <3>2, <3>3 DEF OneExchange
  <2>4. CASE Told(c)
    <3>1. /\ server = "serving" /\ inbox = <<>>
          /\ \/ got[c] = <<>> /\ outbox = <<c, Pid>>
             \/ got[c] = <<c>> /\ outbox = <<Pid>>
      BY <1>1, <2>4 DEF Told
    <3>2. \/ got'[c] = <<c>> /\ outbox' = <<Pid>>
          \/ got'[c] = <<c, Pid>> /\ outbox' = <<>>
      BY <1>1, <1>2, <3>1, ExchangeFacts
    <3>3. Told(c)'
      BY <1>1, <3>1, <3>2 DEF Told, serverVars
    <3>4. QED
      BY <1>1, <1>2, <2>1, <3>2, <3>3 DEF OneExchange
  <2>5. QED
    BY <2>2, <2>3, <2>4
<1>6. Timing'
  BY <1>1, <1>2 DEF Timing, settings
<1>7. QED
  BY <1>3, <1>4, <1>5, <1>6 DEF IInv

\* What is under way to and from a client that goes is lost in part.
LEMMA DisconnectFacts ==
  ASSUME TypeOK, NEW c \in Clients, Disconnect(c)
  PROVE  /\ inbox' \in Seq(Clients) /\ Len(inbox') <= QueueBound
         /\ outbox' \in Seq(Clients \cup {Pid}) /\ Len(outbox') <= QueueBound
         /\ inbox = <<>> => inbox' = <<>>
         /\ outbox = <<>> => outbox' = <<>>
         /\ peer = c => peer' = NoPeer
         /\ peer # c => UNCHANGED linkVars
<1>1. /\ inbox \in Seq(Clients) /\ Len(inbox) <= QueueBound
      /\ outbox \in Seq(Clients \cup {Pid}) /\ Len(outbox) <= QueueBound /\ QueueBound \in Nat
  BY PairAssumption DEF TypeOK
<1>2. CASE peer = c
  <2>1. peer' = NoPeer /\ inbox' \in Prefixes(inbox) /\ outbox' \in Suffixes(outbox)
    BY <1>2 DEF Disconnect
  <2>2. /\ inbox' \in Seq(Clients) /\ Len(inbox') <= Len(inbox) /\ (inbox = <<>> => inbox' = <<>>)
        /\ Len(inbox) \in Nat /\ Len(inbox') \in Nat
    BY <1>1, <2>1, PartFacts, LenProperties
  <2>3. /\ outbox' \in Seq(Clients \cup {Pid}) /\ Len(outbox') <= Len(outbox)
        /\ outbox = <<>> => outbox' = <<>>
        /\ Len(outbox) \in Nat /\ Len(outbox') \in Nat
    BY <1>1, <2>1, PartFacts, LenProperties
  <2>4. QED
    BY <1>1, <1>2, <2>1, <2>2, <2>3
<1>3. CASE peer # c
  BY <1>1, <1>3 DEF Disconnect, linkVars
<1>4. QED
  BY <1>2, <1>3

\* A client that has all, or that is stopped, leaves the socket to the next.
LEMMA GoKeepsInv ==
  ASSUME IInv, NEW c \in Clients, Exit(c) \/ Leave(c)
  PROVE  IInv'
<1>1. /\ program = "onetoone"
      /\ Disconnect(c)
      /\ \/ client[c] = "sent" /\ Len(got[c]) = 2 /\ client' = [client EXCEPT ![c] = "done"]
         \/ client[c] \in {"dialed", "sent"} /\ client' = [client EXCEPT ![c] = "gone"]
      /\ UNCHANGED <<settings, serverVars, sent, got>>
  BY DEF Exit, Leave, IInv, TypeOK, Timing
<1>2. /\ inbox' \in Seq(Clients) /\ Len(inbox') <= QueueBound
      /\ outbox' \in Seq(Clients \cup {Pid}) /\ Len(outbox') <= QueueBound
      /\ inbox = <<>> => inbox' = <<>>
      /\ outbox = <<>> => outbox' = <<>>
      /\ peer = c => peer' = NoPeer
      /\ peer # c => UNCHANGED linkVars
  BY <1>1, DisconnectFacts DEF IInv
<1>3. /\ \A d \in Clients \ {c} : client'[d] = client[d]
      /\ client'[c] \in {"done", "gone"}
      /\ client' \in [Clients -> {"new", "dialed", "sending", "sent", "timed", "done", "gone"}]
  BY <1>1 DEF IInv, TypeOK
<1>4. peer' = NoPeer \/ (peer' = peer /\ peer # c)
  BY <1>2 DEF linkVars
<1>5. TypeOK'
  <2>1. peer' \in Clients \cup {NoPeer}
    BY <1>4 DEF IInv, TypeOK
  <2>2. QED
    BY <1>1, <1>2, <1>3, <2>1 DEF IInv, TypeOK, settings, serverVars
<1>6. Serial'
  <2>1. peer' # NoPeer => (client'[peer'] \in {"dialed", "sent"} /\ Listening')
    BY <1>1, <1>3, <1>4 DEF IInv, TypeOK, Serial, Listening, serverVars
  <2>2. QED
    BY <1>1, <1>3, <2>1 DEF IInv, Serial, settings, serverVars
<1>7. OneExchange'
  <2> SUFFICES ASSUME ~Disturbed' PROVE OneExchange'
    BY DEF OneExchange
  <2>1. ~Disturbed
    BY <1>1, <1>3 DEF Disturbed
  <2>2. \A d \in Clients : got[d] \in {<<>>, <<d>>, <<d, Pid>>}
    BY <1>1, <2>1 DEF IInv, OneExchange
  <2>3. CASE AtRest
    BY <1>1, <1>2, <2>2, <2>3 DEF OneExchange, AtRest, serverVars
  <2>4. CASE peer \in Clients \ {c} /\ client[peer] = "sent"
             /\ (Asked(peer) \/ Held(peer) \/ Echoed(peer) \/ Told(peer))
    <3>1. UNCHANGED <<server, held, peer, inbox, outbox, got>> /\ client'[peer] = "sent"
      BY <1>1, <1>2, <1>3, <2>4 DEF linkVars, serverVars
    <3>2. Asked(peer)' \/ Held(peer)' \/ Echoed(peer)' \/ Told(peer)'
      BY <2>4, <3>1 DEF Asked, Held, Echoed, Told
    <3>3. QED
      BY <2>2, <2>4, <3>1, <3>2 DEF OneExchange
  <2>5. CASE peer = c /\ client[c] = "sent" /\ (Asked(c) \/ Held(c) \/ Echoed(c) \/ Told(c))
    <3>1. sent[c] > 0
      BY <1>1, <2>5 DEF IInv, Serial
    <3>2. client'[c] # "gone"
      BY <1>1, <3>1 DEF Disturbed
    <3>3. Len(got[c]) = 2
      BY <1>1, <1>3, <3>2 DEF IInv, TypeOK
    <3>4. got[c] # <<>> /\ got[c] # <<c>>
      BY <3>3, ExchangeFacts
    <3>5. server = "serving" /\ inbox = <<>> /\ outbox = <<>>
      BY <2>5, <3>4 DEF Asked, Held, Echoed, Told
    <3>6. AtRest'
      BY <1>1, <1>2, <3>5 DEF AtRest, serverVars
    <3>7. QED
      BY <1>1, <2>2, <3>6 DEF OneExchange
  <2>6. QED
    BY <1>1, <2>1, <2>3, <2>4, <2>5 DEF IInv, OneExchange
<1>8. Timing'
  BY <1>1 DEF Timing, settings
<1>9. QED
  BY <1>5, <1>6, <1>7, <1>8 DEF IInv

\* main of the timing starts its clock, joins the thread and reports.
LEMMA MainKeepsInv ==
  ASSUME IInv, NEW c \in Clients, StartSending(c) \/ Join(c) \/ Report(c)
  PROVE  IInv'
<1>1. /\ program = "pair"
      /\ \/ client[c] = "dialed" /\ client' = [client EXCEPT ![c] = "sending"]
         \/ client[c] = "sending" /\ server = "returned" /\ client' = [client EXCEPT ![c] = "timed"]
         \/ client[c] = "timed" /\ client' = [client EXCEPT ![c] = "done"]
      /\ UNCHANGED <<settings, serverVars, linkVars, sent, got>>
  BY DEF StartSending, Join, Report, ThreadReturned, IInv, TypeOK, Serial
<1>2. \A d \in Clients \ {c} : client'[d] = client[d]
  BY <1>1 DEF IInv, TypeOK
<1>3. TypeOK'
  BY <1>1 DEF IInv, TypeOK, settings, serverVars, linkVars
<1>4. Serial' /\ OneExchange'
  BY <1>1 DEF Serial, OneExchange, settings
<1>5. Timing'
  <2>1. client'[c] \in {"sending", "timed", "done"} /\ (client'[c] # "sending" => server = "returned")
    BY <1>1 DEF IInv, TypeOK, Timing
  <2>2. client[c] \notin {"new", "gone"}
    BY <1>1
  <2>3. QED
    BY <1>1, <1>2, <2>1, <2>2 DEF IInv, Timing, settings, serverVars, linkVars
<1>6. QED
  BY <1>3, <1>4, <1>5 DEF IInv

------------------------------------------------------------------------------

\* A sequence that another one begins with is a prefix of it.
LEMMA BeginningIsPrefix ==
  ASSUME NEW S, NEW s \in Seq(S), NEW t \in Seq(S), Len(s) <= Len(t),
         \A a \in 1 .. Len(s) : s[a] = t[a]
  PROVE  IsPrefix(s, t)
<1> DEFINE u == SubSeq(s, 1, Len(s))
           v == SubSeq(t, 1, Len(s))
<1>1. /\ u \in Seq(S) /\ Len(u) = Len(s)
      /\ \A a \in 1 .. Len(s) : u[a] = s[a]
  OBVIOUS
<1>2. /\ v \in Seq(S) /\ Len(v) = Len(s)
      /\ \A a \in 1 .. Len(s) : v[a] = t[a]
  OBVIOUS
<1> HIDE DEF u, v
<1>3. u = v
  BY <1>1, <1>2, SeqEqual
<1>4. QED
  BY <1>3 DEF u, v, IsPrefix

\* Every step of the server and of a client keeps the invariant.
LEMMA StepKeepsInv == IInv /\ [Next]_vars => IInv'
<1> SUFFICES ASSUME IInv, [Next]_vars PROVE IInv'
  OBVIOUS
<1>1. CASE ServerStep
  BY <1>1, ServerGoesKeepsInv, ServerReceiveKeepsInv, ServerSendKeepsInv, ReceiverReceiveKeepsInv
     DEF ServerStep
<1>2. CASE ServerFail \/ Restart
  BY <1>2, ServerGoesKeepsInv
<1>3. ASSUME NEW c \in Clients, Dial(c) \/ Connect(c) \/ ClientStep(c) \/ SendToNobody(c) \/ Leave(c)
      PROVE  IInv'
  BY <1>3, ConnectKeepsInv, SendKeepsInv, SendToNobodyKeepsInv, ReceiveKeepsInv, GoKeepsInv,
     MainKeepsInv DEF ClientStep
<1>4. CASE UNCHANGED vars
  BY <1>4 DEF vars, settings, serverVars, linkVars, clientVars, IInv, TypeOK, Serial, Listening,
       OneExchange, AtRest, Asked, Held, Echoed, Told, Disturbed, Timing
<1>5. QED
  BY <1>1, <1>2, <1>3, <1>4 DEF Next

\* The inductive invariant: as long as no client was stopped after it sent, the
\* sample serves one exchange at a time, that of the connected client; and the
\* thread of the timing counts what main sends.
THEOREM InductiveInvariant == Spec => []IInv
<1>1. Init => IInv
  BY InitInv
<1>2. IInv /\ [Next]_vars => IInv'
  BY StepKeepsInv
<1>3. QED
  BY <1>1, <1>2, PTL DEF Spec

\* The variables keep to their types, and the queues to their bound.
THEOREM TypeCorrect == Spec => []TypeOK
<1>1. IInv => TypeOK
  BY DEF IInv
<1>2. QED
  BY <1>1, InductiveInvariant, PTL

------------------------------------------------------------------------------

\* Where the message of client c may be: with nng on its way to the server, with
\* the server, with nng on its way back, or with a client d.
Waits(c)  == c \in Range(inbox)
IsHeld(c) == server = "echoing" /\ held = c
Leaves(c) == c \in Range(outbox)
Has(d, c) == c \in Range(got[d])

NoTwins(q) == \A i, j \in DOMAIN q : (q[i] = q[j] /\ q[i] # Pid) => i = j

\* The message of c is in one of these places at most, and in none before c sent it.
Alone(c) ==
  /\ Waits(c) => ~IsHeld(c) /\ ~Leaves(c) /\ sent[c] > 0
  /\ IsHeld(c) => ~Leaves(c) /\ sent[c] > 0
  /\ Leaves(c) => sent[c] > 0
  /\ \A d \in Clients : Has(d, c) => ~Waits(c) /\ ~IsHeld(c) /\ ~Leaves(c) /\ sent[c] > 0
  /\ \A d, e \in Clients : Has(d, c) /\ Has(e, c) => d = e

\* Whoever is stopped: what is under way in the sample, or was received, is the
\* message of a client that has sent it, and there is one copy of it.
OneCopy ==
  program = "onetoone" =>
    /\ NoTwins(inbox) /\ NoTwins(outbox)
    /\ \A c \in Clients : Alone(c) /\ NoTwins(got[c])

\* Messages added to a queue, taken from it, and lost with a connection.
LEMMA QueueFacts ==
  ASSUME NEW S, NEW q \in Seq(S)
  PROVE  /\ \A m \in S : /\ Range(Append(q, m)) = Range(q) \cup {m}
                         /\ (NoTwins(q) /\ (m = Pid \/ m \notin Range(q))) => NoTwins(Append(q, m))
         /\ q # <<>> => /\ Head(q) \in Range(q) /\ Range(Tail(q)) \subseteq Range(q)
                        /\ NoTwins(q) => /\ NoTwins(Tail(q))
                                         /\ Head(q) # Pid => Head(q) \notin Range(Tail(q))
         /\ \A p \in Prefixes(q) \cup Suffixes(q) :
              Range(p) \subseteq Range(q) /\ (NoTwins(q) => NoTwins(p))
<1>1. DOMAIN q = 1 .. Len(q) /\ Len(q) \in Nat
  OBVIOUS
<1>2. ASSUME NEW m \in S
      PROVE  /\ Range(Append(q, m)) = Range(q) \cup {m}
             /\ (NoTwins(q) /\ (m = Pid \/ m \notin Range(q))) => NoTwins(Append(q, m))
  <2>1. /\ DOMAIN Append(q, m) = 1 .. Len(q) + 1
        /\ \A i \in 1 .. Len(q) : Append(q, m)[i] = q[i]
        /\ Append(q, m)[Len(q) + 1] = m
    BY AppendProperties
  <2>2. Range(Append(q, m)) = Range(q) \cup {m}
    BY <1>1, <2>1 DEF Range
  <2>3. ASSUME NoTwins(q), m = Pid \/ m \notin Range(q),
               NEW i \in 1 .. Len(q) + 1, NEW j \in 1 .. Len(q) + 1,
               Append(q, m)[i] = Append(q, m)[j], Append(q, m)[i] # Pid
        PROVE  i = j
    <3>1. \A k \in 1 .. Len(q) : q[k] \in Range(q)
      BY <1>1 DEF Range
    <3>2. CASE i \in 1 .. Len(q) /\ j \in 1 .. Len(q)
      BY <1>1, <2>1, <2>3, <3>2 DEF NoTwins
    <3>3. CASE i = Len(q) + 1 \/ j = Len(q) + 1
      BY <1>1, <2>1, <2>3, <3>1, <3>3
    <3>4. QED
      BY <1>1, <3>2, <3>3
  <2>4. QED
    BY <2>1, <2>2, <2>3 DEF NoTwins
<1>3. ASSUME q # <<>>
      PROVE  /\ Head(q) \in Range(q) /\ Range(Tail(q)) \subseteq Range(q)
             /\ NoTwins(q) => /\ NoTwins(Tail(q))
                              /\ Head(q) # Pid => Head(q) \notin Range(Tail(q))
  <2>1. /\ DOMAIN Tail(q) = 1 .. Len(q) - 1 /\ Len(q) \in Nat \ {0}
        /\ \A i \in 1 .. Len(q) - 1 : i + 1 \in 1 .. Len(q) /\ Tail(q)[i] = q[i + 1]
        /\ Head(q) = q[1] /\ 1 \in 1 .. Len(q)
    BY <1>3, HeadTailProperties, EmptySeq
  <2>2. Head(q) \in Range(q) /\ Range(Tail(q)) \subseteq Range(q)
    BY <1>1, <2>1 DEF Range
  <2>3. ASSUME NoTwins(q) PROVE NoTwins(Tail(q))
    <3> SUFFICES ASSUME NEW i \in 1 .. Len(q) - 1, NEW j \in 1 .. Len(q) - 1,
                        Tail(q)[i] = Tail(q)[j], Tail(q)[i] # Pid
                 PROVE  i = j
      BY <2>1 DEF NoTwins
    <3>1. i + 1 \in 1 .. Len(q) /\ j + 1 \in 1 .. Len(q) /\ q[i + 1] = q[j + 1] /\ q[i + 1] # Pid
      BY <2>1
    <3>2. i + 1 = j + 1
      BY <1>1, <2>3, <3>1 DEF NoTwins
    <3>3. QED
      BY <3>2
  <2>4. ASSUME NoTwins(q), Head(q) # Pid, Head(q) \in Range(Tail(q)) PROVE FALSE
    <3>1. PICK i \in 1 .. Len(q) - 1 : Head(q) = Tail(q)[i]
      BY <2>1, <2>4 DEF Range
    <3>2. q[1] = q[i + 1] /\ 1 \in DOMAIN q /\ i + 1 \in DOMAIN q
      BY <1>1, <2>1, <3>1
    <3>3. 1 = i + 1
      BY <2>1, <2>4, <3>2 DEF NoTwins
    <3>4. QED
      BY <3>3
  <2>5. QED
    BY <2>2, <2>3, <2>4
<1>4. ASSUME NEW p \in Prefixes(q) \cup Suffixes(q)
      PROVE  Range(p) \subseteq Range(q) /\ (NoTwins(q) => NoTwins(p))
  <2> DEFINE Is(k, l) == /\ DOMAIN p = 1 .. l
                         /\ \A i \in 1 .. l : k + i \in 1 .. Len(q) /\ p[i] = q[k + i]
  <2>1. PICK k \in Nat, l \in Nat : Is(k, l)
    <3>1. ASSUME NEW l \in 0 .. Len(q), p = SubSeq(q, 1, l) PROVE \E k, m \in Nat : Is(k, m)
      <4>1. DOMAIN p = 1 .. l /\ \A i \in 1 .. l : 0 + i \in 1 .. Len(q) /\ p[i] = q[0 + i]
        BY <1>1, <3>1
      <4>2. Is(0, l) /\ 0 \in Nat /\ l \in Nat
        BY <1>1, <4>1
      <4>3. QED
        BY <4>2
    <3>2. ASSUME NEW l \in 1 .. Len(q), p = SubSeq(q, l, Len(q))
          PROVE  \E k, m \in Nat : Is(k, m)
      <4>1. /\ DOMAIN p = 1 .. Len(q) - l + 1
            /\ \A i \in 1 .. Len(q) - l + 1 :
                 (l - 1) + i \in 1 .. Len(q) /\ p[i] = q[(l - 1) + i]
        BY <1>1, <3>2
      <4>2. l - 1 \in Nat /\ Len(q) - l + 1 \in Nat
        BY <1>1
      <4>3. Is(l - 1, Len(q) - l + 1)
        BY <4>1
      <4>4. QED
        BY <4>2, <4>3
    <3>3. ASSUME p = <<>> PROVE \E k, m \in Nat : Is(k, m)
      <4>1. Is(0, 0)
        BY <3>3
      <4>2. QED
        BY <4>1
    <3> HIDE DEF Is
    <3>4. CASE p \in Prefixes(q)
      BY <3>1, <3>4 DEF Prefixes
    <3>5. CASE p \in Suffixes(q)
      BY <3>2, <3>3, <3>5 DEF Suffixes
    <3>6. QED
      BY <1>4, <3>4, <3>5
  <2>2. Range(p) \subseteq Range(q)
    BY <1>1, <2>1 DEF Range
  <2>3. ASSUME NoTwins(q), NEW i \in DOMAIN p, NEW j \in DOMAIN p, p[i] = p[j], p[i] # Pid
        PROVE  i = j
    <3>1. k + i \in DOMAIN q /\ k + j \in DOMAIN q /\ q[k + i] = q[k + j] /\ q[k + i] # Pid
      BY <1>1, <2>1, <2>3
    <3>2. k + i = k + j
      BY <2>3, <3>1 DEF NoTwins
    <3>3. QED
      BY <2>1, <2>3, <3>2
  <2>4. QED
    BY <2>2, <2>3 DEF NoTwins
<1>5. QED
  BY <1>2, <1>3, <1>4

\* Where nothing is added, there is still one copy.
LEMMA NothingAdded ==
  ASSUME OneCopy, program = "onetoone", UNCHANGED got,
         NoTwins(inbox)' /\ NoTwins(outbox)',
         \A c \in Clients : /\ Waits(c)' => Waits(c)
                            /\ Leaves(c)' => Leaves(c)
                            /\ IsHeld(c)' => IsHeld(c)
                            /\ sent[c] > 0 => sent'[c] > 0
  PROVE  OneCopy'
BY DEF OneCopy, Alone, Has

\* Each step of the server and of the clients leaves every message in one place.
LEMMA StepKeepsOneCopy ==
  ASSUME IInv, OneCopy, [Next]_vars
  PROVE  OneCopy'
<1>1. program' = program
  BY DEF Next, ServerStep, ClientStep, Listen, ServerReceive, Echo, Tell, ServerSend,
         ReceiverReceive, ServerFail, Restart, Dial, Connect, StartSending, Send, SendToNobody,
         Receive, Exit, Leave, Join, Report, vars, settings
<1> SUFFICES ASSUME program = "onetoone" PROVE OneCopy'
  BY <1>1 DEF OneCopy
<1>2. /\ inbox \in Seq(Clients) /\ outbox \in Seq(Clients \cup {Pid})
      /\ got \in [Clients -> Seq(Clients \cup {Pid})] /\ sent \in [Clients -> 0 .. NMsg]
      /\ NMsg \in Nat /\ Pid \notin Clients
      /\ NoTwins(inbox) /\ NoTwins(outbox)
  BY PairAssumption DEF IInv, TypeOK, OneCopy, Pid
<1>3. CASE UNCHANGED vars \/ Listen \/ Restart \/ \E c \in Clients : Dial(c) \/ Connect(c)
  <2>1. UNCHANGED <<inbox, outbox, got, sent>> /\ \A c \in Clients : IsHeld(c)' => IsHeld(c)
    BY <1>3 DEF Listen, Restart, Dial, Connect, IsHeld, vars, serverVars, linkVars, clientVars
  <2>2. QED
    BY <1>2, <2>1, NothingAdded DEF Waits, Leaves
<1>4. CASE ServerFail
  <2>1. inbox' = <<>> /\ outbox' = <<>> /\ UNCHANGED <<got, sent>> /\ server' = "failed"
    BY <1>4 DEF ServerFail
  <2>2. NoTwins(<<>>) /\ Range(<<>>) = {}
    BY DEF NoTwins, Range
  <2>3. QED
    BY <1>2, <2>1, <2>2, NothingAdded DEF Waits, Leaves, IsHeld
<1>5. CASE ServerReceive
  <2>1. /\ server = "serving" /\ inbox # <<>> /\ held' = Head(inbox) /\ inbox' = Tail(inbox)
        /\ UNCHANGED <<outbox, got, sent>>
    BY <1>5 DEF ServerReceive, clientVars
  <2>2. PICK h \in Clients : h = Head(inbox) /\ h # Pid
    BY <1>2, <2>1, TailFacts
  <2>3. /\ h \in Range(inbox) /\ h \notin Range(Tail(inbox)) /\ NoTwins(Tail(inbox))
        /\ Range(Tail(inbox)) \subseteq Range(inbox)
    BY <1>2, <2>1, <2>2, QueueFacts
  <2>4. Waits(h) /\ ~Waits(h)' /\ \A c \in Clients : Waits(c)' => Waits(c)
    BY <2>1, <2>3 DEF Waits
  <2>5. \A c \in Clients : IsHeld(c)' => c = h
    BY <2>1, <2>2 DEF IsHeld
  <2>6. \A c, d \in Clients : (Leaves(c)' <=> Leaves(c)) /\ (Has(d, c)' <=> Has(d, c))
    BY <2>1 DEF Leaves, Has
  <2>7. Alone(h)'
    BY <1>2, <2>1, <2>2, <2>4, <2>6 DEF OneCopy, Alone
  <2>8. ASSUME NEW c \in Clients, c # h PROVE Alone(c)'
    BY <2>1, <2>4, <2>5, <2>6, <2>8 DEF OneCopy, Alone
  <2>9. QED
    BY <1>2, <2>1, <2>3, <2>7, <2>8 DEF OneCopy
<1>6. CASE Echo
  <2>1. PICK m \in Clients \cup {Pid} :
          /\ server = "echoing" /\ held = m /\ outbox' = Append(outbox, m) /\ server' = "telling"
          /\ UNCHANGED <<inbox, got, sent>>
    BY <1>6 DEF Echo, ServerSend, clientVars, IInv, TypeOK
  <2>2. m \in Clients => /\ IsHeld(m) /\ ~Leaves(m) /\ ~Waits(m) /\ sent[m] > 0
                         /\ \A d \in Clients : ~Has(d, m)
    BY <2>1 DEF IsHeld, Alone, OneCopy
  <2>3. /\ NoTwins(outbox)'
        /\ \A c \in Clients : Leaves(c)' => (Leaves(c) \/ c = m)
    BY <1>2, <2>1, <2>2, QueueFacts DEF Leaves
  <2>4. \A c, d \in Clients : /\ Waits(c)' <=> Waits(c)
                              /\ ~IsHeld(c)'
                              /\ Has(d, c)' <=> Has(d, c)
    BY <2>1 DEF Waits, IsHeld, Has
  <2>5. m \in Clients => Alone(m)'
    BY <2>1, <2>2, <2>4 DEF Alone
  <2>6. ASSUME NEW c \in Clients, c # m PROVE Alone(c)'
    BY <2>1, <2>3, <2>4, <2>6 DEF OneCopy, Alone
  <2>7. QED
    BY <1>2, <2>1, <2>3, <2>5, <2>6 DEF OneCopy
<1>7. CASE Tell
  <2>1. /\ server = "telling" /\ outbox' = Append(outbox, Pid) /\ server' = "serving"
        /\ UNCHANGED <<inbox, got, sent>>
    BY <1>7 DEF Tell, ServerSend, clientVars
  <2>2. NoTwins(outbox)' /\ \A c \in Clients : Leaves(c)' => Leaves(c)
    BY <1>2, <2>1, QueueFacts DEF Leaves
  <2>3. QED
    BY <1>2, <2>1, <2>2, NothingAdded DEF Waits, IsHeld
<1>8. ASSUME NEW c \in Clients, Send(c) PROVE OneCopy'
  <2>1. /\ client[c] = "dialed" /\ sent[c] = 0
        /\ inbox' = Append(inbox, c) /\ sent' = [sent EXCEPT ![c] = @ + 1]
        /\ UNCHANGED <<serverVars, outbox, got>>
    BY <1>8 DEF Send, IInv, Serial
  <2>2. /\ ~Waits(c) /\ ~IsHeld(c) /\ ~Leaves(c)
        /\ \A d \in Clients : ~Has(d, c)
    BY <2>1 DEF Alone, OneCopy
  <2>3. /\ NoTwins(inbox)'
        /\ \A d \in Clients : Waits(d)' => (Waits(d) \/ d = c)
    BY <1>2, <2>1, <2>2, QueueFacts DEF Waits
  <2>4. \A d, e \in Clients : /\ IsHeld(d)' <=> IsHeld(d)
                              /\ Leaves(d)' <=> Leaves(d)
                              /\ Has(e, d)' <=> Has(e, d)
    BY <2>1 DEF IsHeld, Leaves, Has, serverVars
  <2>5. sent'[c] > 0 /\ \A d \in Clients : sent[d] > 0 => sent'[d] > 0
    BY <1>2, <2>1
  <2>6. Alone(c)'
    BY <2>2, <2>4, <2>5 DEF Alone
  <2>7. ASSUME NEW d \in Clients \ {c} PROVE Alone(d)'
    BY <2>3, <2>4, <2>5, <2>7 DEF OneCopy, Alone
  <2>8. QED
    BY <1>2, <2>1, <2>3, <2>6, <2>7 DEF OneCopy
<1>9. ASSUME NEW c \in Clients, SendToNobody(c) PROVE OneCopy'
  <2>1. /\ sent' = [sent EXCEPT ![c] = @ + 1]
        /\ UNCHANGED <<serverVars, inbox, outbox, got>>
    BY <1>9 DEF SendToNobody, linkVars
  <2>2. \A d \in Clients : sent[d] > 0 => sent'[d] > 0
    BY <1>2, <2>1
  <2>3. QED
    BY <1>2, <2>1, <2>2, NothingAdded DEF Waits, Leaves, IsHeld, serverVars
<1>10. ASSUME NEW c \in Clients, Receive(c) PROVE OneCopy'
  <2>1. /\ outbox # <<>> /\ outbox' = Tail(outbox)
        /\ got' = [got EXCEPT ![c] = Append(@, Head(outbox))]
        /\ UNCHANGED <<serverVars, inbox, sent>>
    BY <1>10 DEF Receive
  <2>2. PICK m \in Clients \cup {Pid} : m = Head(outbox)
    BY <1>2, <2>1, TailFacts
  <2>3. /\ m \in Range(outbox) /\ NoTwins(Tail(outbox))
        /\ m # Pid => m \notin Range(Tail(outbox))
        /\ Range(Tail(outbox)) \subseteq Range(outbox)
    BY <1>2, <2>1, <2>2, QueueFacts
  <2>4. /\ m \in Clients => Leaves(m) /\ ~Leaves(m)'
        /\ \A d \in Clients : Leaves(d)' => Leaves(d)
    BY <1>2, <2>1, <2>3 DEF Leaves
  <2>5. m \in Clients => /\ ~Waits(m) /\ ~IsHeld(m) /\ sent[m] > 0
                         /\ \A e \in Clients : ~Has(e, m)
    BY <2>4 DEF OneCopy, Alone
  <2>6. got'[c] = Append(got[c], m) /\ \A e \in Clients \ {c} : got'[e] = got[e]
    BY <1>2, <2>1, <2>2
  <2>7. \A d, e \in Clients : Has(e, d)' => (Has(e, d) \/ (e = c /\ d = m))
    <3>1. Range(got'[c]) = Range(got[c]) \cup {m}
      BY <1>2, <2>6, QueueFacts
    <3>2. QED
      BY <2>6, <3>1 DEF Has
  <2>8. \A d \in Clients : NoTwins(got'[d])
    <3>1. NoTwins(got[c]) /\ (m = Pid \/ m \notin Range(got[c]))
      BY <2>5 DEF OneCopy, Has
    <3>2. NoTwins(got'[c])
      BY <1>2, <2>6, <3>1, QueueFacts
    <3>3. QED
      BY <2>6, <3>2 DEF OneCopy
  <2>9. \A d \in Clients : (Waits(d)' <=> Waits(d)) /\ (IsHeld(d)' <=> IsHeld(d))
    BY <2>1 DEF Waits, IsHeld, serverVars
  <2>10. m \in Clients => Alone(m)'
    BY <2>1, <2>4, <2>5, <2>7, <2>9 DEF Alone
  <2>11. ASSUME NEW d \in Clients, d # m PROVE Alone(d)'
    BY <2>1, <2>4, <2>7, <2>9, <2>11 DEF OneCopy, Alone
  <2>12. QED
    BY <1>2, <2>1, <2>3, <2>8, <2>10, <2>11 DEF OneCopy
<1>11. ASSUME NEW c \in Clients, Exit(c) \/ Leave(c) PROVE OneCopy'
  <2>1. Disconnect(c) /\ UNCHANGED <<serverVars, sent, got>>
    BY <1>11 DEF Exit, Leave
  <2>2. \/ UNCHANGED <<inbox, outbox>>
        \/ inbox' \in Prefixes(inbox) /\ outbox' \in Suffixes(outbox)
    BY <2>1 DEF Disconnect, linkVars
  <2>3. /\ NoTwins(inbox)' /\ NoTwins(outbox)'
        /\ Range(inbox') \subseteq Range(inbox) /\ Range(outbox') \subseteq Range(outbox)
    BY <1>2, <2>2, QueueFacts
  <2>4. QED
    BY <2>1, <2>3, NothingAdded DEF Waits, Leaves, IsHeld, serverVars
<1>12. ASSUME ReceiverReceive \/ \E c \in Clients : StartSending(c) \/ Join(c) \/ Report(c) PROVE FALSE
  BY <1>12 DEF ReceiverReceive, StartSending, Join, Report, IInv, Serial
<1>13. QED
  BY <1>3, <1>4, <1>5, <1>6, <1>7, <1>8, <1>9, <1>10, <1>11, <1>12 DEF Next, ServerStep, ClientStep

\* What a client that was stopped leaves behind is its own message or the pid,
\* and no message comes back twice, or to two clients: each is in one place at a
\* time, whoever is stopped and however often the server is started.
THEOREM EchoedOnce == Spec => []OneCopy
<1>1. Init => OneCopy
  BY DEF Init, OneCopy, Alone, Waits, IsHeld, Leaves, Has, NoTwins, Range
<1>2. IInv /\ OneCopy /\ [Next]_vars => OneCopy'
  BY StepKeepsOneCopy
<1>3. QED
  BY <1>1, <1>2, InductiveInvariant, PTL DEF Spec

\* While no client was stopped after it sent, every client gets its own message
\* first and then the server's pid, in whatever order clients come; and whoever is
\* stopped, no message comes back to two clients.
THEOREM OwnMessage == Spec => []OwnMessageComesBack
<1>1. IInv => (Disturbed \/ \A c \in Clients : IsPrefix(got[c], <<c, Pid>>))
  <2> SUFFICES ASSUME IInv, ~Disturbed, NEW c \in Clients PROVE IsPrefix(got[c], <<c, Pid>>)
    OBVIOUS
  <2>1. got[c] \in {<<>>, <<c>>, <<c, Pid>>}
    BY DEF IInv, TypeOK, OneExchange, Timing
  <2> DEFINE S == Clients \cup {Pid}
             t == <<c, Pid>>
  <2>2. ASSUME NEW s \in {<<>>, <<c>>, <<c, Pid>>}
        PROVE  /\ s \in Seq(S) /\ t \in Seq(S) /\ Len(s) <= Len(t)
               /\ \A a \in 1 .. Len(s) : s[a] = t[a]
    <3>1. CASE s = <<>>
      BY <3>1
    <3>2. CASE s = <<c>>
      BY <3>2
    <3>3. CASE s = <<c, Pid>>
      BY <3>3
    <3>4. QED
      BY <3>1, <3>2, <3>3
  <2> HIDE DEF S, t
  <2>3. IsPrefix(got[c], t)
    BY <2>1, <2>2, BeginningIsPrefix
  <2>4. QED
    BY <2>3 DEF t
<1>2. IInv /\ OneCopy =>
        \A c, d, e \in Clients : (c \in Range(got[d]) /\ c \in Range(got[e])) => d = e
  <2> SUFFICES ASSUME IInv, OneCopy, NEW c \in Clients, NEW d \in Clients, NEW e \in Clients,
                      c \in Range(got[d]), c \in Range(got[e])
               PROVE  d = e
    OBVIOUS
  <2>1. CASE program = "onetoone"
    BY <2>1 DEF OneCopy, Alone, Has
  <2>2. CASE program = "pair"
    BY <2>2 DEF IInv, Timing, Range
  <2>3. QED
    BY <2>1, <2>2 DEF IInv, TypeOK
<1>3. IInv /\ OneCopy => OwnMessageComesBack
  BY <1>1, <1>2 DEF OwnMessageComesBack
<1>4. QED
  BY <1>3, InductiveInvariant, EchoedOnce, PTL

------------------------------------------------------------------------------

\* The sample measures nothing.
LEMMA SampleMeasuresNothing ==
  ASSUME program = "onetoone", program' = program
  PROVE  UNCHANGED M!vars
  BY DEF M!vars

\* Every step is a step of the measurement, or none of it.
LEMMA MeasurementStep ==
  ASSUME IInv, [Next]_vars
  PROVE  M!Next \/ UNCHANGED M!vars
<1>1. program' = program
  BY DEF Next, ServerStep, ClientStep, Listen, ServerReceive, Echo, Tell, ServerSend,
         ReceiverReceive, ServerFail, Restart, Dial, Connect, StartSending, Send, SendToNobody,
         Receive, Exit, Leave, Join, Report, vars, settings
<1>2. CASE program = "onetoone"
  BY <1>1, <1>2, SampleMeasuresNothing
<1>3. CASE program = "pair"
  <2> USE <1>1, <1>3
  <2>1. CASE UNCHANGED vars \/ Listen
    BY <2>1 DEF vars, settings, serverVars, clientVars, Listen, M!vars
  <2>2. CASE ReceiverReceive
    <3>1. PICK c \in Clients : client[c] = "sending"
      BY <2>2 DEF ReceiverReceive, IInv, Timing
    <3>2. \A d \in Clients : client[d] \notin {"timed", "done", "gone"}
      BY <3>1 DEF IInv, Timing
    <3>3. served # NMsg /\ client' = client
      BY <2>2, PairAssumption DEF ReceiverReceive, clientVars, IInv, TypeOK, Timing
    <3>4. CASE served' = NMsg
      <4>1. M!Finish("receiver")
        BY <3>1, <3>2, <3>3, <3>4 DEF M!Finish
      <4>2. QED
        BY <4>1 DEF M!Next
    <3>5. CASE served' # NMsg
      BY <3>3, <3>5 DEF M!vars
    <3>6. QED
      BY <3>4, <3>5
  <2>3. CASE ServerFail
    <3>1. /\ \A c \in Clients : client[c] \notin {"done", "gone"} /\ client'[c] = "gone"
          /\ served' = served
      BY <2>3 DEF ServerFail
    <3>2. M!Abort
      BY <3>1, PairAssumption DEF M!Abort
    <3>3. QED
      BY <3>2 DEF M!Next
  <2>4. ASSUME NEW c \in Clients, Dial(c) PROVE M!Next \/ UNCHANGED M!vars
    <3>1. /\ \A d \in Clients : client[d] = "new"
          /\ \A d \in Clients \ {c} : client'[d] = "new"
          /\ client'[c] = IF Listening THEN "dialed" ELSE "gone"
          /\ served' = served
      BY <2>4 DEF Dial, IInv, TypeOK, serverVars
    <3>2. CASE Listening
      <4>1. \A d \in Clients : client'[d] \in {"new", "dialed"}
        BY <3>1, <3>2
      <4>2. QED
        BY <3>1, <4>1 DEF M!vars
    <3>3. CASE ~Listening
      <4>1. client'[c] = "gone" /\ \A d \in Clients : client'[d] \in {"new", "gone"}
        BY <3>1, <3>3
      <4>2. M!Abort
        BY <3>1, <4>1 DEF M!Abort
      <4>3. QED
        BY <4>2 DEF M!Next
    <3>4. QED
      BY <3>2, <3>3
  <2>5. ASSUME NEW c \in Clients, Connect(c) \/ Send(c) PROVE UNCHANGED M!vars
    BY <2>5 DEF Connect, Send, serverVars, clientVars, M!vars
  <2>6. ASSUME NEW c \in Clients, StartSending(c) \/ Join(c) \/ Report(c) PROVE M!Next
    <3>1. client[c] \in {"dialed", "sending", "timed"} /\ served' = served
      BY <2>6 DEF StartSending, Join, Report, serverVars
    <3>2. \A d \in Clients \ {c} : client[d] = "new" /\ client'[d] = "new"
      BY <2>6, <3>1 DEF StartSending, Join, Report, IInv, TypeOK, Timing
    <3>3. CASE StartSending(c)
      <4>1. client[c] = "dialed" /\ client'[c] = "sending"
        BY <3>3 DEF StartSending, IInv, TypeOK
      <4>2. M!Start
        BY <3>1, <3>2, <4>1 DEF M!Start
      <4>3. QED
        BY <4>2 DEF M!Next
    <3>4. CASE Join(c)
      <4>1. client[c] = "sending" /\ client'[c] = "timed" /\ served = NMsg
        BY <3>4 DEF Join, ThreadReturned, IInv, TypeOK, Timing
      <4>2. M!Stop
        BY <3>1, <3>2, <4>1 DEF M!Stop
      <4>3. QED
        BY <4>2 DEF M!Next
    <3>5. CASE Report(c)
      <4>1. client[c] = "timed" /\ client'[c] = "done"
        BY <3>5 DEF Report, IInv, TypeOK
      <4>2. M!Report
        BY <3>1, <3>2, <4>1 DEF M!Report
      <4>3. QED
        BY <4>2 DEF M!Next
    <3>6. QED
      BY <2>6, <3>3, <3>4, <3>5
  <2>7. ASSUME ServerReceive \/ Echo \/ Tell \/ Restart PROVE FALSE
    BY <2>7 DEF ServerReceive, Echo, Tell, Restart, IInv, Timing
  <2>8. ASSUME NEW c \in Clients, SendToNobody(c) \/ Receive(c) \/ Exit(c) \/ Leave(c) PROVE FALSE
    BY <2>8 DEF SendToNobody, Receive, Exit, Leave, IInv, Timing
  <2>9. QED
    BY <2>1, <2>2, <2>3, <2>4, <2>5, <2>6, <2>7, <2>8 DEF Next, ServerStep, ClientStep
<1>4. QED
  BY <1>2, <1>3 DEF IInv, TypeOK

\* The timing stops its clock only when the thread has received every message.
THEOREM KeepsTheMeasurement == Spec => PairIsMeasurement
<1>1. Init => M!Init
  <2>1. ASSUME Init PROVE 0 # NMsg /\ served = 0 /\ \A c \in Clients : client[c] = "new"
    BY <2>1, PairAssumption DEF Init
  <2>2. QED
    BY <2>1 DEF M!Init
<1>2. IInv /\ [Next]_vars => [M!Next]_(M!vars)
  BY MeasurementStep
<1>3. QED
  BY <1>1, <1>2, InductiveInvariant, PTL DEF Spec, PairIsMeasurement, M!Spec

------------------------------------------------------------------------------

\* The timing loses no message: what main has sent, the thread has received or
\* nng holds, and the connection stays.
NothingLost ==
  program = "pair" =>
    /\ (\A c \in Clients : client[c] = "new") => (served = 0 /\ inbox = <<>> /\ peer = NoPeer)
    /\ \A c \in Clients : client[c] \in {"new", "dialed"} => sent[c] = 0
    /\ \A c \in Clients : client[c] \in {"dialed", "sending", "timed", "done"} =>
         (peer = c /\ sent[c] = served + Len(inbox))

LEMMA NoMessageLost == Spec => []NothingLost
<1>1. Init => NothingLost
  BY PairAssumption DEF Init, NothingLost
<1>2. ASSUME IInv, NothingLost, [Next]_vars PROVE NothingLost'
  <2>1. CASE UNCHANGED vars
    BY <1>2, <2>1 DEF vars, settings, serverVars, linkVars, clientVars, NothingLost
  <2>2. CASE Next /\ program # "pair"
    <3>1. program' # "pair"
      BY <2>2 DEF Next, ServerStep, ClientStep, Listen, ServerReceive, Echo, Tell, ServerSend,
           ReceiverReceive, ServerFail, Restart, Dial, Connect, StartSending, Send, SendToNobody,
           Receive, Exit, Leave, Join, Report, settings
    <3>2. QED
      BY <3>1 DEF NothingLost
  <2> SUFFICES ASSUME Next, program = "pair" PROVE NothingLost'
    BY <1>2, <2>1, <2>2
  <2>3. /\ client \in [Clients -> {"new", "dialed", "sending", "sent", "timed", "done", "gone"}]
        /\ sent \in [Clients -> 0 .. NMsg] /\ served \in Nat
        /\ inbox \in Seq(Clients) /\ Len(inbox) \in Nat
        /\ NoPeer \notin Clients
    BY <1>2, PairAssumption DEF IInv, TypeOK, NoPeer
  <2>4. CASE Listen
    BY <1>2, <2>4 DEF Listen, linkVars, clientVars, settings, NothingLost
  <2>5. CASE ServerReceive \/ Echo \/ Tell \/ Restart
    BY <1>2, <2>5 DEF ServerReceive, Echo, Tell, Restart, IInv, Timing
  <2>6. CASE ReceiverReceive
    <3>1. /\ served' = served + 1 /\ Len(inbox') = Len(inbox) - 1
          /\ UNCHANGED <<program, peer, client, sent>>
      BY <2>3, <2>6, TailFacts DEF ReceiverReceive, clientVars, settings
    <3>2. ~ \A c \in Clients : client[c] = "new"
      BY <1>2, <2>6 DEF ReceiverReceive, NothingLost
    <3>3. QED
      BY <1>2, <2>3, <3>1, <3>2 DEF NothingLost
  <2>7. CASE ServerFail
    <3>1. \A c \in Clients : client'[c] = "gone"
      BY <2>7 DEF ServerFail
    <3>2. QED
      BY <3>1, PairAssumption DEF NothingLost
  <2>8. ASSUME NEW c \in Clients, Dial(c) PROVE NothingLost'
    <3>1. /\ \A d \in Clients : client[d] = "new" /\ sent[d] = 0
          /\ served = 0 /\ inbox = <<>> /\ peer = NoPeer
      BY <1>2, <2>8 DEF Dial, NothingLost
    <3>2. /\ UNCHANGED <<program, served, inbox, sent>>
          /\ client' = [client EXCEPT ![c] = IF Listening THEN "dialed" ELSE "gone"]
          /\ peer' = IF Listening THEN c ELSE NoPeer
      BY <2>8, <3>1 DEF Dial, settings, serverVars
    <3>3. \A d \in Clients \ {c} : client'[d] = "new"
      BY <2>3, <3>1, <3>2
    <3>4. client'[c] = "gone" \/ (client'[c] = "dialed" /\ peer' = c)
      BY <2>3, <3>2
    <3>5. sent[c] = served + Len(inbox)
      BY <3>1
    <3>6. client'[c] # "new"
      BY <3>4
    <3>7. QED
      BY <3>1, <3>2, <3>3, <3>4, <3>5, <3>6 DEF NothingLost
  <2>9. ASSUME NEW c \in Clients, Connect(c) PROVE NothingLost'
    BY <1>2, <2>3, <2>9 DEF Connect, NothingLost, IInv, Timing
  <2>10. ASSUME NEW c \in Clients, StartSending(c) \/ Join(c) \/ Report(c) PROVE NothingLost'
    <3>1. /\ UNCHANGED <<program, served, inbox, peer, sent>>
          /\ client[c] \in {"dialed", "sending", "timed"}
          /\ client'[c] \in {"sending", "timed", "done"}
          /\ \A d \in Clients \ {c} : client'[d] = client[d]
      BY <2>3, <2>10 DEF StartSending, Join, Report, settings, serverVars, linkVars
    <3>2. QED
      BY <1>2, <3>1 DEF NothingLost
  <2>11. ASSUME NEW c \in Clients, Send(c) PROVE NothingLost'
    <3>1. /\ UNCHANGED <<program, served, peer, client>>
          /\ client[c] = "sending"
          /\ sent' = [sent EXCEPT ![c] = @ + 1]
          /\ Len(inbox') = Len(inbox) + 1
      BY <2>3, <2>11, AppendFacts DEF Send, settings, serverVars
    <3>2. sent'[c] = sent[c] + 1 /\ \A d \in Clients \ {c} : sent'[d] = sent[d]
      BY <2>3, <3>1
    <3>3. sent[c] = served + Len(inbox) /\ peer = c
      BY <1>2, <3>1 DEF NothingLost
    <3>4. sent'[c] = served + Len(inbox')
      BY <2>3, <3>1, <3>2, <3>3
    <3>5. \A d \in Clients \ {c} : client[d] \in {"dialed", "sending", "timed", "done"} => peer = d
      BY <1>2 DEF NothingLost
    <3>6. \A d \in Clients \ {c} : client[d] \in {"new", "dialed"} => sent[d] = 0
      BY <1>2 DEF NothingLost
    <3>7. QED
      BY <3>1, <3>2, <3>3, <3>4, <3>5, <3>6 DEF NothingLost
  <2>12. ASSUME NEW c \in Clients, Receive(c) \/ Exit(c) \/ SendToNobody(c) \/ Leave(c) PROVE NothingLost'
    BY <1>2, <2>12 DEF Receive, Exit, SendToNobody, Leave, IInv, Timing
  <2>13. QED
    BY <2>4, <2>5, <2>6, <2>7, <2>8, <2>9, <2>10, <2>11, <2>12 DEF Next, ServerStep, ClientStep
<1>3. QED
  BY <1>1, <1>2, InductiveInvariant, PTL DEF Spec

\* Can the thread of the timing, or its main, c, take a step?  The guards of
\* ServerStep, and of Dial and ClientStep.
ServerCanStep ==
  \/ server = "opened"
  \/ server = "serving" /\ inbox # <<>>

ClientCanStep(c) ==
  \/ /\ \A d \in Clients : client[d] = "new"
     /\ punctual => Listening
  \/ client[c] \in {"dialed", "timed"}
  \/ /\ client[c] = "sending" /\ peer = c
     /\ sent[c] < NMsg /\ Len(inbox) < QueueBound
  \/ client[c] = "sending" /\ sent[c] = NMsg /\ ThreadReturned

\* The timing can go on until it has ended, with whatever sleep before the dial
\* and however short a queue: main never waits for a thread that has returned,
\* nor the thread for a message that was sent.
THEOREM WaitsEnd ==
  Spec => [](program = "pair" =>
    \/ server = "failed"
    \/ ServerCanStep
    \/ \E c \in Clients : client[c] \in {"done", "gone"} \/ ClientCanStep(c))
<1> DEFINE Rests == \/ server = "failed"
                    \/ ServerCanStep
                    \/ \E c \in Clients : client[c] \in {"done", "gone"} \/ ClientCanStep(c)
<1>1. ASSUME IInv, NothingLost, program = "pair", ~Rests PROVE FALSE
  <2>1. /\ client \in [Clients -> {"new", "dialed", "sending", "sent", "timed", "done", "gone"}]
        /\ sent \in [Clients -> 0 .. NMsg] /\ served \in 0 .. NMsg
        /\ inbox \in Seq(Clients) /\ Len(inbox) \in Nat
        /\ NMsg \in Nat \ {0} /\ QueueBound \in Nat \ {0} /\ Clients # {}
    <3>1. inbox \in Seq(Clients)
      BY <1>1 DEF IInv, TypeOK
    <3>2. /\ client \in [Clients -> {"new", "dialed", "sending", "sent", "timed", "done", "gone"}]
          /\ sent \in [Clients -> 0 .. NMsg] /\ served \in 0 .. NMsg
      BY <1>1 DEF IInv, TypeOK
    <3>3. NMsg \in Nat \ {0} /\ QueueBound \in Nat \ {0} /\ Clients # {}
      BY PairAssumption
    <3>4. QED
      BY <3>1, <3>2, <3>3
  <2>2. server \in {"serving", "returned"} /\ Listening
    BY <1>1 DEF ServerCanStep, Listening, IInv, Timing
  <2>3. ~ \A d \in Clients : client[d] = "new"
    BY <1>1, <2>1, <2>2 DEF ClientCanStep
  <2>4. PICK c \in Clients : client[c] # "new"
    BY <2>3
  <2>5. client[c] \notin {"done", "gone"} /\ ~ClientCanStep(c)
    BY <1>1
  <2>6. client[c] = "sending"
    BY <1>1, <2>1, <2>4, <2>5 DEF ClientCanStep, IInv, Timing
  <2>7. peer = c /\ sent[c] = served + Len(inbox) /\ sent[c] \in 0 .. NMsg
    BY <1>1, <2>1, <2>6 DEF NothingLost
  <2>8. CASE server = "returned"
    <3>1. served = NMsg
      BY <1>1, <2>8 DEF IInv, Timing
    <3>2. sent[c] = NMsg
      BY <2>1, <2>7, <3>1
    <3>3. QED
      BY <2>5, <2>6, <2>8, <3>2 DEF ClientCanStep, ThreadReturned
  <2>9. CASE server = "serving"
    <3>1. served < NMsg
      BY <1>1, <2>9 DEF IInv, Timing
    <3>2. inbox = <<>>
      BY <1>1, <2>9 DEF ServerCanStep
    <3>3. sent[c] < NMsg /\ Len(inbox) < QueueBound
      BY <2>1, <2>7, <3>1, <3>2
    <3>4. QED
      BY <2>5, <2>6, <2>7, <3>3 DEF ClientCanStep
  <2>10. QED
    BY <2>2, <2>8, <2>9
<1>2. IInv /\ NothingLost => (program = "pair" => Rests)
  BY <1>1
<1>3. QED
  BY <1>2, InductiveInvariant, NoMessageLost, PTL

\* What is left of the timing for the thread, and for main.
OfServer == IF server = "failed" THEN 0
            ELSE (IF server = "opened" THEN 1 ELSE 0) + (NMsg - served)

OfClient(c) ==
  IF client[c] = "new" THEN NMsg + 4 ELSE
  IF client[c] = "dialed" THEN NMsg + 3 ELSE
  IF client[c] = "sending" THEN NMsg - sent[c] + 2 ELSE
  IF client[c] = "timed" THEN 1 ELSE 0

\* Somebody has less left, and nobody has more.
Fewer ==
  /\ OfServer' <= OfServer
  /\ \A c \in Clients : OfClient(c)' <= OfClient(c)
  /\ OfServer' < OfServer \/ \E c \in Clients : OfClient(c)' < OfClient(c)

\* What is left is a number.
LEMMA PartsAreNumbers ==
  ASSUME IInv
  PROVE  /\ OfServer \in 0 .. NMsg + 1
         /\ \A c \in Clients : OfClient(c) \in 0 .. NMsg + 4
<1>1. NMsg \in Nat /\ served \in 0 .. NMsg /\ \A c \in Clients : sent[c] \in 0 .. NMsg
  BY PairAssumption DEF IInv, TypeOK
<1>2. OfServer \in 0 .. NMsg + 1
  BY <1>1 DEF OfServer
<1>3. ASSUME NEW c \in Clients PROVE OfClient(c) \in 0 .. NMsg + 4
  BY <1>1 DEF OfClient
<1>4. QED
  BY <1>2, <1>3

\* A step of the thread.
LEMMA ServerCounts ==
  ASSUME IInv, program = "pair", ServerStep PROVE Fewer
<1>1. NMsg \in Nat /\ served \in 0 .. NMsg
  BY PairAssumption DEF IInv, TypeOK
<1>2. CASE Listen
  <2>1. OfServer' = OfServer - 1
    BY <1>1, <1>2 DEF Listen, OfServer
  <2>2. \A c \in Clients : OfClient(c)' = OfClient(c)
    BY <1>2 DEF Listen, clientVars, OfClient
  <2>3. QED
    BY <2>1, <2>2, PartsAreNumbers DEF Fewer
<1>3. CASE ReceiverReceive
  <2>1. OfServer' = OfServer - 1
    BY <1>1, <1>3 DEF ReceiverReceive, OfServer
  <2>2. \A c \in Clients : OfClient(c)' = OfClient(c)
    BY <1>3 DEF ReceiverReceive, clientVars, OfClient
  <2>3. QED
    BY <2>1, <2>2, PartsAreNumbers DEF Fewer
<1>4. CASE ServerReceive \/ Echo \/ Tell
  BY <1>4 DEF ServerReceive, Echo, Tell, IInv, Timing
<1>5. QED
  BY <1>2, <1>3, <1>4 DEF ServerStep

\* The end of the process.
LEMMA EndCounts ==
  ASSUME IInv, program = "pair", ServerFail PROVE Fewer
<1>1. OfServer' = 0 /\ \A c \in Clients : OfClient(c)' = 0
  BY DEF ServerFail, OfServer, OfClient
<1>2. PICK c \in Clients : TRUE
  BY PairAssumption
<1>3. NMsg \in Nat /\ sent[c] \in 0 .. NMsg
  BY PairAssumption DEF IInv, TypeOK
<1>4. client[c] \in {"new", "dialed", "sending", "timed"}
  BY DEF ServerFail, IInv, TypeOK, Timing
<1>5. OfClient(c) > 0
  BY <1>3, <1>4 DEF OfClient
<1>6. OfClient(c)' < OfClient(c)
  BY <1>1, <1>5
<1>7. QED
  BY <1>1, <1>6, PartsAreNumbers DEF Fewer

\* A step of main.
LEMMA ClientCounts ==
  ASSUME IInv, NothingLost, program = "pair", NEW c \in Clients,
         Dial(c) \/ Connect(c) \/ ClientStep(c) \/ SendToNobody(c) \/ Leave(c)
  PROVE  Fewer
<1>1. /\ client \in [Clients -> {"new", "dialed", "sending", "sent", "timed", "done", "gone"}]
      /\ sent \in [Clients -> 0 .. NMsg] /\ NMsg \in Nat
  BY PairAssumption DEF IInv, TypeOK
<1>2. client[c] # "sent" /\ (client[c] = "dialed" => peer = c) /\ NoPeer \notin Clients
  BY PairAssumption DEF IInv, Timing, NothingLost, NoPeer
<1>3. \/ Dial(c) \/ StartSending(c) \/ Send(c) \/ Join(c) \/ Report(c)
  BY <1>2 DEF Connect, ClientStep, Receive, Exit, SendToNobody, Leave
<1>4. /\ UNCHANGED serverVars
      /\ \A d \in Clients \ {c} : client'[d] = client[d] /\ sent'[d] = sent[d]
  BY <1>1, <1>3 DEF Dial, StartSending, Send, Join, Report
<1>5. OfServer' = OfServer
  BY <1>4 DEF serverVars, OfServer
<1>6. \A d \in Clients \ {c} : OfClient(d)' = OfClient(d)
  BY <1>4 DEF OfClient
<1>7. sent[c] \in 0 .. NMsg
  BY <1>1
<1>8. OfClient(c)' = OfClient(c) - 1 \/ OfClient(c)' = OfClient(c) - (NMsg + 4)
  <2>1. CASE Dial(c)
    <3>1. client[c] = "new" /\ (client'[c] = "dialed" \/ client'[c] = "gone")
      BY <1>1, <2>1 DEF Dial
    <3>2. OfClient(c) = NMsg + 4 /\ (OfClient(c)' = NMsg + 3 \/ OfClient(c)' = 0)
      BY <3>1 DEF OfClient
    <3>3. QED
      BY <1>1, <3>2
  <2>2. CASE StartSending(c)
    <3>1. client[c] = "dialed" /\ client'[c] = "sending" /\ sent' = sent
      BY <1>1, <2>2 DEF StartSending
    <3>2. sent[c] = 0
      BY <3>1, <2>2 DEF StartSending, NothingLost
    <3>3. QED
      BY <1>1, <3>1, <3>2 DEF OfClient
  <2>3. CASE Send(c)
    <3>1. client[c] = "sending" /\ client'[c] = "sending" /\ sent'[c] = sent[c] + 1
      BY <1>1, <2>3 DEF Send
    <3>2. QED
      BY <1>1, <1>7, <3>1 DEF OfClient
  <2>4. CASE Join(c)
    <3>1. client[c] = "sending" /\ client'[c] = "timed" /\ sent[c] = NMsg
      BY <1>1, <2>4 DEF Join
    <3>2. QED
      BY <1>1, <3>1 DEF OfClient
  <2>5. CASE Report(c)
    <3>1. client[c] = "timed" /\ client'[c] = "done"
      BY <1>1, <2>5 DEF Report
    <3>2. QED
      BY <3>1 DEF OfClient
  <2>6. QED
    BY <1>3, <2>1, <2>2, <2>3, <2>4, <2>5
<1>9. OfClient(c)' < OfClient(c)
  BY <1>1, <1>8, PartsAreNumbers
<1>10. ASSUME NEW d \in Clients PROVE OfClient(d)' <= OfClient(d)
  <2>1. CASE d = c
    BY <1>1, <1>8, <2>1, PartsAreNumbers
  <2>2. CASE d # c
    BY <1>6, <2>2, PartsAreNumbers
  <2>3. QED
    BY <2>1, <2>2
<1>11. QED
  BY <1>5, <1>9, <1>10, PartsAreNumbers DEF Fewer

\* The timing comes to rest: a step of the thread, of main or of nng leaves less
\* to do to whoever takes it, and no more to the other.
THEOREM ComesToRest ==
  Spec => /\ [](/\ OfServer \in 0 .. NMsg + 1
                /\ \A c \in Clients : OfClient(c) \in 0 .. NMsg + 4)
          /\ [][program = "pair" => Fewer]_vars
<1>1. IInv /\ NothingLost /\ [Next]_vars => [program = "pair" => Fewer]_vars
  <2>1. ASSUME IInv, NothingLost, Next, program = "pair" PROVE Fewer
    <3>1. CASE Restart
      BY <2>1, <3>1 DEF Restart
    <3>2. QED
      BY <2>1, <3>1, ServerCounts, EndCounts, ClientCounts DEF Next
  <2>2. QED
    BY <2>1
<1>2. QED
  BY <1>1, PartsAreNumbers, InductiveInvariant, NoMessageLost, PTL DEF Spec

------------------------------------------------------------------------------

\* Can the server of the sample, or the client that has its socket, go on?
EchoCanStep ==
  \/ server = "serving" /\ inbox # <<>>
  \/ server \in {"echoing", "telling"} /\ Len(outbox) < QueueBound

PeerCanStep(d) ==
  /\ peer = d
  /\ \/ client[d] = "dialed" /\ Len(inbox) < QueueBound
     \/ client[d] = "sent" /\ (Len(got[d]) = 2 \/ outbox # <<>>)

\* The safety part of NextIsServed, for any number of clients and queues of any
\* size: while the server listens, it or its peer can go on or the place is
\* free, unless the peer is one that nobody answers, or the queues are full of
\* what clients left behind that were stopped after they had sent.
THEOREM PlaceIsFreed ==
  Spec => []((program = "onetoone" /\ Listening) =>
               \/ peer = NoPeer
               \/ EchoCanStep
               \/ \E d \in Clients : PeerCanStep(d) \/ Unanswered(d) \/ (Jammed(d) /\ Disturbed))
<1> DEFINE Goes == \/ peer = NoPeer
                   \/ EchoCanStep
                   \/ \E d \in Clients : PeerCanStep(d) \/ Unanswered(d) \/ (Jammed(d) /\ Disturbed)
<1>1. ASSUME IInv, program = "onetoone", Listening, peer # NoPeer, ~EchoCanStep,
             \A d \in Clients : ~PeerCanStep(d) /\ ~Unanswered(d)
      PROVE  \E d \in Clients : Jammed(d) /\ Disturbed
  <2>1. /\ peer \in Clients /\ client[peer] \in {"dialed", "sent"}
        /\ server \in {"serving", "echoing", "telling"}
        /\ inbox \in Seq(Clients) /\ Len(inbox) \in 0 .. QueueBound
        /\ outbox \in Seq(Clients \cup {Pid}) /\ Len(outbox) \in 0 .. QueueBound
        /\ QueueBound \in Nat \ {0}
    <3>1. peer \in Clients /\ client[peer] \in {"dialed", "sent"} /\ server # "returned"
      BY <1>1 DEF IInv, TypeOK, Serial
    <3>2. server \in {"serving", "echoing", "telling"}
      BY <1>1, <3>1 DEF Listening
    <3>3. QueueBound \in Nat \ {0}
      BY PairAssumption
    <3>4. inbox \in Seq(Clients) /\ Len(inbox) \in 0 .. QueueBound
      BY <1>1, <3>3 DEF IInv, TypeOK
    <3>5. outbox \in Seq(Clients \cup {Pid}) /\ Len(outbox) \in 0 .. QueueBound
      BY <1>1, <3>3 DEF IInv, TypeOK
    <3>6. QED
      BY <3>1, <3>2, <3>3, <3>4, <3>5
  <2>2. client[peer] = "dialed" /\ Len(inbox) = QueueBound
    <3>1. CASE client[peer] = "sent"
      <4>1. outbox = <<>>
        BY <1>1, <2>1, <3>1 DEF PeerCanStep
      <4>2. server = "serving" /\ inbox = <<>>
        BY <1>1, <2>1, <4>1 DEF EchoCanStep
      <4>3. QED
        BY <1>1, <2>1, <3>1, <4>1, <4>2 DEF Unanswered
    <3>2. CASE client[peer] = "dialed"
      BY <1>1, <2>1, <3>2 DEF PeerCanStep
    <3>3. QED
      BY <2>1, <3>1, <3>2
  <2>3. inbox # <<>>
    BY <2>1, <2>2
  <2>4. server \in {"echoing", "telling"} /\ Len(outbox) = QueueBound
    BY <1>1, <2>1, <2>3 DEF EchoCanStep
  <2>5. Disturbed
    BY <1>1, <2>2, <2>3 DEF IInv, OneExchange, AtRest
  <2>6. QED
    BY <2>1, <2>2, <2>4, <2>5 DEF Jammed
<1>2. IInv => ((program = "onetoone" /\ Listening) => Goes)
  BY <1>1
<1>3. QED
  BY <1>2, InductiveInvariant, PTL

==============================================================================
