----------------------------- MODULE PubSubProofs -----------------------------
(***************************************************************************)
(* What holds of publisher.cpp, subscriber.cpp and performance/pubsub.cpp  *)
(* for any number of subscribers, messages and runs, and for queues of any *)
(* size: messages come in order, the last one of the timing is not         *)
(* dropped, and the timing is a measurement.                               *)
(***************************************************************************)
EXTENDS PubSub, SequenceTheorems, TLAPS

InOrder(q) == \A i, j \in DOMAIN q : i < j => q[i] < q[j]

\* The last message of all runs so far.
LastSent == Number(sent)

\* What is under way, or was received, has been published.
OnlyWhatWasSent ==
  \A s \in Subscribers :
    /\ \A m \in Range(queue[s]) : m <= LastSent
    /\ latest[s] <= LastSent

\* What is under way is in order, and newer than what was received.
NewerFollow ==
  \A s \in Subscribers :
    /\ InOrder(queue[s])
    /\ \A m \in Range(queue[s]) : latest[s] < m

\* Only who has subscribed has received, and that by its topic.
ByTopic ==
  \A s \in Subscribers :
    latest[s] # None =>
      /\ subscriber[s] \notin {"new", "dialed"}
      /\ program = "publisher" => topic[s] \in {Everything, Topic(latest[s])}

\* Where the threads of the timing can be.
Places ==
  /\ program = "pubsub" => run = 1
  /\ program = "publisher" =>
       (publisher \notin {"timed", "done"} /\ \A s \in Subscribers : subscriber[s] # "closed")
  /\ (program = "pubsub" /\ sent > 0) => publisher \notin {"opened", "listening"}
  /\ publisher \in {"timed", "done"} => AllJoined
  /\ (program = "pubsub" /\ publisher = "failed") =>
       \A s \in Subscribers : subscriber[s] \in {"closed", "gone"}

\* The user waits with the Enter until all have subscribed, and threads stay
\* connected.
AllAreThere ==
  (program = "pubsub" /\ punctual /\ publisher \notin {"opened", "listening", "failed"}) =>
    \A s \in Subscribers : subscriber[s] \in {"subscribed", "closed"}

ThreadsStayConnected ==
  \A s \in Subscribers :
    (program = "pubsub" /\ subscriber[s] \in {"dialed", "subscribed"}) => s \in connected

IInv ==
  /\ TypeOK
  /\ OnlyWhatWasSent
  /\ NewerFollow
  /\ ByTopic
  /\ Places
  /\ AllAreThere
  /\ ThreadsStayConnected
  /\ LastIsNeverDropped

------------------------------------------------------------------------------

\* Messages are numbered on from run to run.
LEMMA MessageFacts ==
  /\ Messages \subseteq Nat
  /\ None \in Nat /\ \A m \in Messages : None < m
  /\ LastMsg \in Nat \ {0}
  /\ TypeOK => /\ LastSent \in Nat
               /\ \A n \in 1 .. NMsg : Number(n) \in Messages
               /\ \A n \in 1 .. NMsg : Number(n) = n - sent + LastSent
               /\ run = 1 => LastSent = sent
<1>1. MaxRuns * NMsg \in Nat
  BY PubSubAssumption
<1>2. ASSUME TypeOK
      PROVE  /\ LastSent \in Nat
             /\ \A n \in 1 .. NMsg : Number(n) \in Messages
             /\ \A n \in 1 .. NMsg : Number(n) = n - sent + LastSent
             /\ run = 1 => LastSent = sent
  <2>1. run \in 1 .. MaxRuns /\ sent \in 0 .. NMsg /\ NMsg \in Nat /\ MaxRuns \in Nat
    BY <1>2, PubSubAssumption DEF TypeOK
  <2>2. (run - 1) * NMsg \in Nat /\ run * NMsg = (run - 1) * NMsg + NMsg
    BY <2>1
  <2>3. run * NMsg <= MaxRuns * NMsg
    BY <2>1
  <2>4. run = 1 => (run - 1) * NMsg = 0
    BY <2>1
  <2>5. QED
    BY <1>1, <2>1, <2>2, <2>3, <2>4 DEF LastSent, Number, Messages
<1>3. QED
  BY <1>1, <1>2, PubSubAssumption DEF Messages, None, LastMsg

\* Messages are natural numbers, and None is less than each.
LEMMA MessageTypes ==
  ASSUME NEW m \in Messages
  PROVE  m \in Nat /\ 0 < m
  BY MessageFacts DEF None

\* A number of messages of earlier runs and of this one.
LEMMA NumberIsNat ==
  ASSUME NEW a \in Nat \ {0}, NEW b \in Nat, NEW c \in Nat
  PROVE  (a - 1) * b + c \in Nat
<1>1. a - 1 \in Nat
  OBVIOUS
<1>2. \A d \in Nat : d * b \in Nat
  OBVIOUS
<1>3. (a - 1) * b \in Nat
  BY <1>1, <1>2
<1> DEFINE e == (a - 1) * b
<1>4. e \in Nat
  BY <1>3
<1> HIDE DEF e
<1>5. e + c \in Nat
  BY <1>4
<1>6. QED
  BY <1>5 DEF e

\* A message added to a queue.
LEMMA AppendFacts ==
  ASSUME NEW q \in Seq(Messages), NEW m \in Messages
  PROVE  /\ Append(q, m) \in Seq(Messages)
         /\ Range(Append(q, m)) = Range(q) \cup {m}
         /\ (InOrder(q) /\ \A k \in Range(q) : k < m) => InOrder(Append(q, m))
<1>1. DOMAIN q = 1 .. Len(q) /\ Len(q) \in Nat
  OBVIOUS
<1>2. /\ Append(q, m) \in Seq(Messages)
      /\ DOMAIN Append(q, m) = 1 .. Len(q) + 1
      /\ \A i \in 1 .. Len(q) : Append(q, m)[i] = q[i]
      /\ Append(q, m)[Len(q) + 1] = m
  BY AppendProperties
<1>3. Range(Append(q, m)) = Range(q) \cup {m}
  BY <1>1, <1>2 DEF Range
<1>4. ASSUME InOrder(q), \A k \in Range(q) : k < m
      PROVE  InOrder(Append(q, m))
  <2> SUFFICES ASSUME NEW i \in 1 .. Len(q) + 1, NEW j \in 1 .. Len(q) + 1, i < j
               PROVE  Append(q, m)[i] < Append(q, m)[j]
    BY <1>2 DEF InOrder
  <2>1. i \in 1 .. Len(q) /\ q[i] \in Range(q)
    BY <1>1 DEF Range
  <2>2. CASE j = Len(q) + 1
    BY <1>2, <1>4, <2>1, <2>2
  <2>3. CASE j \in 1 .. Len(q)
    BY <1>1, <1>2, <1>4, <2>1, <2>3 DEF InOrder
  <2>4. QED
    BY <2>2, <2>3
<1>5. QED
  BY <1>2, <1>3, <1>4

\* What is left of a queue is a queue of some of its messages, in order.
Left(r, q) ==
  /\ r \in Seq(Messages)
  /\ Range(r) \subseteq Range(q)
  /\ InOrder(q) => InOrder(r)

\* An increasing choice of places leaves a queue in order.
LEMMA PlacesFacts ==
  ASSUME NEW q \in Seq(Messages), NEW r \in Seq(Messages), NEW f \in [1 .. Len(r) -> 1 .. Len(q)],
         \A i \in 1 .. Len(r) : r[i] = q[f[i]],
         \A i, j \in 1 .. Len(r) : i < j => f[i] < f[j]
  PROVE  Left(r, q)
<1>1. DOMAIN q = 1 .. Len(q) /\ DOMAIN r = 1 .. Len(r)
  OBVIOUS
<1>2. Range(r) \subseteq Range(q)
  BY <1>1 DEF Range
<1>3. InOrder(q) => InOrder(r)
  BY <1>1 DEF InOrder
<1>4. QED
  BY <1>2, <1>3 DEF Left

\* Losing the oldest message.
LEMMA TailFacts ==
  ASSUME NEW q \in Seq(Messages), q # <<>>
  PROVE  /\ Left(Tail(q), q)
         /\ Head(q) \in Messages
         /\ Range(q) = Range(Tail(q)) \cup {Head(q)}
         /\ InOrder(q) => \A m \in Range(Tail(q)) : Head(q) < m
<1>1. /\ DOMAIN q = 1 .. Len(q) /\ Len(q) \in Nat \ {0}
      /\ Tail(q) \in Seq(Messages)
      /\ Len(Tail(q)) = Len(q) - 1
      /\ DOMAIN Tail(q) = 1 .. Len(q) - 1
      /\ \A i \in 1 .. Len(q) - 1 : Tail(q)[i] = q[i + 1]
      /\ Head(q) = q[1] /\ q[1] \in Messages
  BY HeadTailProperties, EmptySeq
<1>2. Left(Tail(q), q)
  <2> DEFINE f == [i \in 1 .. Len(q) - 1 |-> i + 1]
  <2>1. /\ f \in [1 .. Len(Tail(q)) -> 1 .. Len(q)]
        /\ \A i \in 1 .. Len(Tail(q)) : Tail(q)[i] = q[f[i]]
        /\ \A i, j \in 1 .. Len(Tail(q)) : i < j => f[i] < f[j]
    BY <1>1
  <2> HIDE DEF f
  <2>2. QED
    BY <1>1, <2>1, PlacesFacts
<1>3. Range(q) = Range(Tail(q)) \cup {Head(q)}
  <2>1. ASSUME NEW i \in 1 .. Len(q) PROVE q[i] \in Range(Tail(q)) \cup {Head(q)}
    <3>1. CASE i = 1
      BY <1>1, <3>1
    <3>2. CASE i - 1 \in 1 .. Len(q) - 1
      <4>1. Tail(q)[i - 1] = q[i]
        BY <1>1, <3>2
      <4>2. QED
        BY <1>1, <3>2, <4>1 DEF Range
    <3>3. QED
      BY <1>1, <3>1, <3>2
  <2>2. Head(q) \in Range(q)
    BY <1>1 DEF Range
  <2>3. QED
    BY <1>1, <1>2, <2>1, <2>2 DEF Range, Left
<1>4. ASSUME InOrder(q), NEW m \in Range(Tail(q)) PROVE Head(q) < m
  <2>1. PICK i \in 1 .. Len(q) - 1 : m = Tail(q)[i]
    BY <1>1 DEF Range
  <2>2. 1 \in DOMAIN q /\ i + 1 \in DOMAIN q /\ 1 < i + 1 /\ q[i + 1] = m
    BY <1>1, <2>1
  <2>3. QED
    BY <1>1, <1>4, <2>2 DEF InOrder
<1>5. QED
  BY <1>1, <1>2, <1>3, <1>4

\* Losing the newest messages.
LEMMA PrefixFacts ==
  ASSUME NEW q \in Seq(Messages), NEW r \in Prefixes(q)
  PROVE  Left(r, q)
<1>1. PICK l \in 0 .. Len(q) : r = SubSeq(q, 1, l)
  BY DEF Prefixes
<1> DEFINE f == [i \in 1 .. l |-> i]
<1>2. /\ r \in Seq(Messages) /\ Len(r) = l
      /\ f \in [1 .. Len(r) -> 1 .. Len(q)]
      /\ \A i \in 1 .. Len(r) : r[i] = q[f[i]]
      /\ \A i, j \in 1 .. Len(r) : i < j => f[i] < f[j]
  BY <1>1
<1> HIDE DEF f
<1>3. QED
  BY <1>2, PlacesFacts

\* Losing any message to have room for another.
LEMMA OfferedFacts ==
  ASSUME NEW q \in Seq(Messages), NEW r \in Offered(q)
  PROVE  Left(r, q)
<1>1. CASE r = q
  BY <1>1 DEF Left
<1>2. ASSUME NEW k \in 1 .. Len(q), r = RemoveAt(q, k) PROVE Left(r, q)
  <2> DEFINE f == [i \in 1 .. Len(q) - 1 |-> IF i < k THEN i ELSE i + 1]
  <2>1. r = SubSeq(q, 1, k - 1) \o SubSeq(q, k + 1, Len(q))
    BY <1>2 DEF RemoveAt
  <2>2. /\ SubSeq(q, 1, k - 1) \in Seq(Messages)
        /\ Len(SubSeq(q, 1, k - 1)) = k - 1
        /\ \A i \in 1 .. k - 1 : SubSeq(q, 1, k - 1)[i] = q[i]
    OBVIOUS
  <2>3. /\ SubSeq(q, k + 1, Len(q)) \in Seq(Messages)
        /\ Len(SubSeq(q, k + 1, Len(q))) = Len(q) - k
        /\ \A i \in 1 .. Len(q) - k : SubSeq(q, k + 1, Len(q))[i] = q[k + i]
    OBVIOUS
  <2>4. /\ r \in Seq(Messages) /\ Len(r) = Len(q) - 1
        /\ \A i \in 1 .. Len(r) : r[i] = q[f[i]]
    <3> DEFINE s == SubSeq(q, 1, k - 1)
               t == SubSeq(q, k + 1, Len(q))
    <3> HIDE DEF s, t
    <3>1. /\ r = s \o t /\ s \in Seq(Messages) /\ t \in Seq(Messages)
          /\ Len(s) = k - 1 /\ Len(t) = Len(q) - k
          /\ \A i \in 1 .. k - 1 : s[i] = q[i]
          /\ \A i \in 1 .. Len(q) - k : t[i] = q[k + i]
      BY <2>1, <2>2, <2>3 DEF s, t
    <3>2. r \in Seq(Messages) /\ Len(r) = Len(q) - 1
      BY <3>1
    <3>3. ASSUME NEW i \in 1 .. Len(r) PROVE r[i] = q[f[i]]
      <4>1. CASE i < k
        BY <3>1, <3>2, <4>1
      <4>2. CASE i >= k
        <5>1. i - (k - 1) \in 1 .. Len(t) /\ r[i] = t[i - (k - 1)]
          BY <3>1, <3>2, <4>2
        <5>2. k + (i - (k - 1)) = i + 1
          OBVIOUS
        <5>3. QED
          BY <3>1, <3>2, <4>2, <5>1, <5>2
      <4>3. QED
        BY <4>1, <4>2
    <3>4. QED
      BY <3>2, <3>3
  <2>5. /\ f \in [1 .. Len(r) -> 1 .. Len(q)]
        /\ \A i, j \in 1 .. Len(r) : i < j => f[i] < f[j]
    BY <2>4
  <2> HIDE DEF f
  <2>6. QED
    BY <2>4, <2>5, PlacesFacts
<1>3. QED
  BY <1>1, <1>2 DEF Offered

\* An empty queue.
LEMMA EmptyFacts ==
  <<>> \in Seq(Messages) /\ Range(<<>>) = {} /\ InOrder(<<>>)
  BY DEF Range, InOrder

------------------------------------------------------------------------------

\* Messages may be lost at will, and numbers go on: order is kept.
LEMMA LossKeepsOrder ==
  ASSUME IInv, TypeOK', LastSent <= LastSent', UNCHANGED latest,
         \A s \in Subscribers : Left(queue'[s], queue[s])
  PROVE  OnlyWhatWasSent' /\ NewerFollow'
<1>1. LastSent \in Nat /\ LastSent' \in Nat
  <2>1. LastSent \in Nat
    BY MessageFacts DEF IInv
  <2>2. run' \in Nat \ {0} /\ sent' \in Nat /\ NMsg \in Nat
    BY PubSubAssumption DEF TypeOK
  <2>3. (run' - 1) * NMsg + sent' \in Nat
    BY <2>2, NumberIsNat
  <2>4. LastSent' \in Nat
    BY <2>3 DEF LastSent, Number
  <2>5. QED
    BY <2>1, <2>4
<1>2. \A s \in Subscribers : Range(queue[s]) \subseteq Nat /\ latest[s] \in Nat
  BY MessageFacts, RangeOfSeq DEF IInv, TypeOK
<1>3. OnlyWhatWasSent'
  <2>1. ASSUME NEW s \in Subscribers, NEW m \in Range(queue[s]) \cup {latest[s]}
        PROVE  m <= LastSent'
    <3>1. m \in Nat /\ m <= LastSent
      BY <1>2, <2>1 DEF IInv, OnlyWhatWasSent
    <3>2. QED
      BY <1>1, <3>1
  <2>2. \A s \in Subscribers : Range(queue'[s]) \subseteq Range(queue[s])
    BY DEF Left
  <2>3. QED
    BY <2>1, <2>2 DEF OnlyWhatWasSent
<1>4. NewerFollow'
  BY DEF IInv, NewerFollow, Left
<1>5. QED
  BY <1>3, <1>4

\* A queue that is left alone.
LEMMA SameIsLeft ==
  ASSUME TypeOK, UNCHANGED queue
  PROVE  \A s \in Subscribers : Left(queue'[s], queue[s])
  BY DEF TypeOK, Left

\* The initial states satisfy the invariant.
LEMMA InitInv == Init => IInv
<1> SUFFICES ASSUME Init PROVE IInv
  OBVIOUS
<1>1. TypeOK
  <2>1. 1 \in 1 .. MaxRuns /\ 0 \in 0 .. NMsg
    BY PubSubAssumption
  <2>2. Everything \in Subscriptions /\ <<>> \in Seq(Messages)
    BY EmptyFacts DEF Subscriptions
  <2>3. QED
    BY <2>1, <2>2 DEF Init, TypeOK
<1>2. OnlyWhatWasSent /\ NewerFollow
  <2>1. LastSent \in Nat
    BY <1>1, MessageFacts
  <2>2. \A s \in Subscribers : queue[s] = <<>> /\ latest[s] = 0
    BY DEF Init, None
  <2>3. 0 <= LastSent
    BY <2>1
  <2>4. QED
    BY <2>2, <2>3, EmptyFacts DEF OnlyWhatWasSent, NewerFollow
<1>3. ByTopic /\ Places /\ AllAreThere /\ ThreadsStayConnected
  BY DEF Init, ByTopic, Places, AllAreThere, ThreadsStayConnected
<1>4. LastIsNeverDropped
  BY PubSubAssumption DEF Init, LastIsNeverDropped
<1>5. QED
  BY <1>1, <1>2, <1>3, <1>4 DEF IInv

\* main, between its sends, keeps the invariant.
LEMMA MainKeepsInv == IInv /\ (Listen \/ StartPublishing \/ JoinAll \/ Report) => IInv'
<1> SUFFICES ASSUME IInv, Listen \/ StartPublishing \/ JoinAll \/ Report PROVE IInv'
  OBVIOUS
<1>1. UNCHANGED <<settings, run, sent, subscriberVars>>
  BY DEF Listen, StartPublishing, JoinAll, Report
<1>2. TypeOK'
  BY <1>1 DEF Listen, StartPublishing, JoinAll, Report, IInv, TypeOK, settings, subscriberVars
<1>3. OnlyWhatWasSent' /\ NewerFollow'
  <2>1. LastSent <= LastSent'
    BY <1>1, MessageFacts DEF IInv, LastSent, Number
  <2>2. QED
    BY <1>1, <1>2, <2>1, LossKeepsOrder, SameIsLeft DEF subscriberVars, IInv
<1>4. ByTopic' /\ ThreadsStayConnected'
  BY <1>1 DEF IInv, ByTopic, ThreadsStayConnected, settings, subscriberVars
<1>5. Places'
  BY <1>1 DEF Listen, StartPublishing, JoinAll, Report, IInv, Places, AllJoined, settings,
       subscriberVars
<1>6. AllAreThere'
  BY <1>1 DEF Listen, StartPublishing, JoinAll, Report, IInv, AllAreThere, settings,
       subscriberVars
<1>7. LastIsNeverDropped'
  <2>1. publisher # "failed"
    BY DEF Listen, StartPublishing, JoinAll, Report
  <2>2. QED
    BY <1>1, <2>1 DEF IInv, LastIsNeverDropped, settings, subscriberVars
<1>8. QED
  BY <1>2, <1>3, <1>4, <1>5, <1>6, <1>7 DEF IInv

\* A new message goes behind the others, and to every thread of the timing.
LEMMA PublishKeepsInv == IInv /\ Publish => IInv'
<1> SUFFICES ASSUME IInv, Publish PROVE IInv'
  OBVIOUS
<1> DEFINE n == Number(sent + 1)
<1>1. /\ publisher = "publishing" /\ sent < NMsg /\ sent' = sent + 1
      /\ sent \in 0 .. NMsg /\ NMsg \in Nat
      /\ UNCHANGED <<program, punctual, publisher, run, subscriber, connected, topic, latest>>
  BY PubSubAssumption DEF Publish, settings, IInv, TypeOK
<1>2. /\ \A s \in Subscribers : queue'[s] \in Published(s, n)
      /\ DOMAIN queue' = Subscribers
  BY <1>1 DEF Publish, Queues, Number
<1>3. n \in Messages /\ n = LastSent + 1 /\ LastSent' = n /\ LastSent \in Nat /\ n \in Nat
  <2>1. sent + 1 \in 1 .. NMsg
    BY <1>1
  <2>2. n \in Messages /\ n = (sent + 1) - sent + LastSent /\ LastSent \in Nat
    BY <2>1, MessageFacts DEF IInv
  <2>3. LastSent' = n
    BY <1>1 DEF LastSent, Number
  <2>4. QED
    BY <1>1, <2>2, <2>3
<1> HIDE DEF n
<1>4. ASSUME NEW s \in Subscribers
      PROVE  /\ Range(queue[s]) \subseteq Nat /\ latest[s] \in Nat
             /\ \A m \in Range(queue[s]) \cup {latest[s]} : m < n
  <2>1. Range(queue[s]) \subseteq Nat /\ latest[s] \in Nat
    BY MessageFacts, RangeOfSeq DEF IInv, TypeOK
  <2>2. QED
    BY <1>3, <2>1 DEF IInv, OnlyWhatWasSent
<1>5. ASSUME NEW s \in Subscribers
      PROVE  /\ queue'[s] \in Seq(Messages)
             /\ Range(queue'[s]) \subseteq Range(queue[s]) \cup {n}
             /\ InOrder(queue'[s])
             /\ s \in connected => n \in Range(queue'[s])
  <2>1. queue[s] \in Seq(Messages) /\ InOrder(queue[s])
    BY DEF IInv, TypeOK, NewerFollow
  <2>2. CASE queue'[s] = queue[s] /\ s \notin connected
    BY <2>1, <2>2
  <2>3. ASSUME NEW k \in Offered(queue[s]), queue'[s] = Append(k, n)
        PROVE  /\ queue'[s] \in Seq(Messages)
               /\ Range(queue'[s]) \subseteq Range(queue[s]) \cup {n}
               /\ InOrder(queue'[s])
               /\ n \in Range(queue'[s])
    <3>1. k \in Seq(Messages) /\ Range(k) \subseteq Range(queue[s]) /\ InOrder(k)
      BY <2>1, OfferedFacts DEF Left
    <3>2. \A m \in Range(k) : m < n
      BY <1>4, <3>1
    <3>3. QED
      BY <1>3, <2>3, <3>1, <3>2, AppendFacts
  <2>4. QED
    BY <1>2, <2>2, <2>3 DEF Published, Accept
<1>6. TypeOK'
  <2>1. queue' \in [Subscribers -> Seq(Messages)]
    BY <1>2, <1>5 DEF Publish, Queues
  <2>2. QED
    BY <1>1, <2>1 DEF IInv, TypeOK
<1>7. OnlyWhatWasSent'
  <2>1. ASSUME NEW s \in Subscribers, NEW m \in Range(queue'[s]) \cup {latest'[s]}
        PROVE  m <= LastSent'
    <3>1. m \in Range(queue[s]) \cup {latest[s]} \cup {n}
      BY <1>1, <1>5
    <3>2. m \in Nat /\ (m < n \/ m = n)
      BY <1>3, <1>4, <3>1
    <3>3. QED
      BY <1>3, <3>2
  <2>2. QED
    BY <2>1 DEF OnlyWhatWasSent
<1>8. NewerFollow'
  <2>1. ASSUME NEW s \in Subscribers, NEW m \in Range(queue'[s]) PROVE latest'[s] < m
    BY <1>1, <1>4, <1>5 DEF IInv, NewerFollow
  <2>2. QED
    BY <1>5, <2>1 DEF NewerFollow
<1>9. ByTopic' /\ Places' /\ AllAreThere' /\ ThreadsStayConnected'
  BY <1>1 DEF IInv, ByTopic, Places, AllJoined, AllAreThere, ThreadsStayConnected
<1>10. LastIsNeverDropped'
  <2> SUFFICES ASSUME program = "pubsub", punctual, sent' = NMsg, NEW s \in Subscribers,
                      subscriber[s] # "closed"
               PROVE  LastMsg \in Range(queue'[s])
    BY <1>1 DEF LastIsNeverDropped
  <2>1. s \in connected
    BY <1>1 DEF IInv, AllAreThere, ThreadsStayConnected
  <2>2. n = LastMsg
    <3>1. run = 1 /\ NMsg \in 1 .. NMsg
      BY PubSubAssumption DEF IInv, Places
    <3>2. LastSent = sent
      BY <3>1, MessageFacts DEF IInv
    <3>3. QED
      BY <1>1, <1>3, <3>2 DEF LastMsg
  <2>3. QED
    BY <1>5, <2>1, <2>2
<1>11. QED
  BY <1>6, <1>7, <1>8, <1>9, <1>10 DEF IInv

\* The end of a publisher may take the newest messages with it, or all.
LEMMA EndKeepsInv == IInv /\ (Fail \/ Kill) => IInv'
<1> SUFFICES ASSUME IInv, Fail \/ Kill PROVE IInv'
  OBVIOUS
<1>1. /\ UNCHANGED <<program, punctual, run, sent, topic, latest>>
      /\ publisher' = "failed" /\ connected' = {}
      /\ DOMAIN queue' = Subscribers
  BY DEF Fail, Kill, Queues, settings
<1>2. ASSUME NEW s \in Subscribers PROVE Left(queue'[s], queue[s])
  <2>1. queue[s] \in Seq(Messages)
    BY DEF IInv, TypeOK
  <2>2. CASE Fail
    BY <2>2, EmptyFacts DEF Fail, Left
  <2>3. CASE Kill
    BY <2>1, <2>3, PrefixFacts DEF Kill, Queues
  <2>4. QED
    BY <2>2, <2>3
<1>3. /\ subscriber' \in [Subscribers -> {"new", "dialed", "subscribed", "closed", "gone"}]
      /\ \A s \in Subscribers : /\ subscriber[s] \notin {"new", "dialed"} =>
                                     subscriber'[s] \notin {"new", "dialed"}
                                /\ program = "publisher" => subscriber'[s] = subscriber[s]
                                /\ program = "pubsub" => subscriber'[s] \in {"closed", "gone"}
  BY DEF Fail, Kill, IInv, TypeOK
<1>4. TypeOK'
  <2>1. queue' \in [Subscribers -> Seq(Messages)]
    BY <1>1, <1>2 DEF Left, Fail, Kill, Queues
  <2>2. QED
    BY <1>1, <1>3, <2>1 DEF IInv, TypeOK
<1>5. OnlyWhatWasSent' /\ NewerFollow'
  <2>1. LastSent <= LastSent'
    BY <1>1, MessageFacts DEF IInv, LastSent, Number
  <2>2. QED
    BY <1>1, <1>2, <1>4, <2>1, LossKeepsOrder
<1>6. ByTopic' /\ AllAreThere' /\ ThreadsStayConnected' /\ LastIsNeverDropped'
  BY <1>1, <1>3 DEF IInv, ByTopic, AllAreThere, ThreadsStayConnected, LastIsNeverDropped
<1>7. Places'
  BY <1>1, <1>3 DEF IInv, Places, AllJoined
<1>8. QED
  BY <1>4, <1>5, <1>6, <1>7 DEF IInv

\* The numbers of a new run are greater than those of the run before.
LEMMA RestartKeepsInv == IInv /\ Restart => IInv'
<1> SUFFICES ASSUME IInv, Restart PROVE IInv'
  OBVIOUS
<1>1. /\ program = "publisher" /\ run < MaxRuns /\ run' = run + 1 /\ sent' = 0
      /\ publisher' = "opened"
      /\ UNCHANGED <<program, punctual, subscriber, connected, topic, queue, latest>>
  BY DEF Restart, settings, subscriberVars
<1>2. TypeOK'
  BY <1>1, PubSubAssumption DEF IInv, TypeOK
<1>3. LastSent <= LastSent'
  <2>1. run \in Nat /\ NMsg \in Nat /\ sent \in 0 .. NMsg
    BY PubSubAssumption DEF IInv, TypeOK
  <2>2. LastSent' = run * NMsg
    BY <1>1, <2>1 DEF LastSent, Number
  <2>3. run * NMsg = (run - 1) * NMsg + NMsg /\ (run - 1) * NMsg \in Int
    BY <2>1
  <2>4. QED
    BY <2>1, <2>2, <2>3 DEF LastSent, Number
<1>4. OnlyWhatWasSent' /\ NewerFollow'
  BY <1>1, <1>2, <1>3, LossKeepsOrder, SameIsLeft DEF IInv
<1>5. ByTopic' /\ Places' /\ AllAreThere' /\ ThreadsStayConnected' /\ LastIsNeverDropped'
  BY <1>1 DEF IInv, ByTopic, Places, AllAreThere, ThreadsStayConnected, LastIsNeverDropped
<1>6. QED
  BY <1>2, <1>4, <1>5 DEF IInv

\* So does a subscriber that connects, or subscribes.
LEMMA JoinKeepsInv ==
  ASSUME NEW s \in Subscribers, IInv, Dial(s) \/ Reconnect(s) \/ Subscribe(s) PROVE IInv'
<1>1. UNCHANGED <<program, punctual, publisher, run, sent, queue, latest>>
  BY DEF Dial, Reconnect, Subscribe, settings, publisherVars
<1>2. TypeOK'
  BY DEF Dial, Reconnect, Subscribe, settings, publisherVars, IInv, TypeOK
<1>3. OnlyWhatWasSent' /\ NewerFollow'
  <2>1. LastSent <= LastSent'
    BY <1>1, MessageFacts DEF IInv, LastSent, Number
  <2>2. QED
    BY <1>1, <1>2, <2>1, LossKeepsOrder, SameIsLeft DEF IInv
<1>4. ByTopic'
  BY <1>1 DEF Dial, Reconnect, Subscribe, IInv, TypeOK, ByTopic
<1>5. Places'
  <2>1. \A t \in Subscribers : subscriber'[t] = "closed" <=> subscriber[t] = "closed"
    BY DEF Dial, Reconnect, Subscribe, IInv, TypeOK
  <2>2. (program = "pubsub" /\ publisher = "failed") => subscriber' = subscriber
    BY DEF Dial, Reconnect, Subscribe, IInv, Places, Listening
  <2>3. QED
    BY <1>1, <2>1, <2>2 DEF IInv, Places, AllJoined
<1>6. AllAreThere'
  BY <1>1 DEF Dial, Reconnect, Subscribe, IInv, TypeOK, AllAreThere
<1>7. ThreadsStayConnected'
  BY <1>1 DEF Dial, Reconnect, Subscribe, IInv, TypeOK, ThreadsStayConnected
<1>8. LastIsNeverDropped'
  <2>1. \A t \in Subscribers : subscriber[t] = "closed" => subscriber'[t] = "closed"
    BY DEF Dial, Reconnect, Subscribe, IInv, TypeOK
  <2>2. QED
    BY <1>1, <2>1 DEF IInv, LastIsNeverDropped
<1>9. QED
  BY <1>2, <1>3, <1>4, <1>5, <1>6, <1>7, <1>8 DEF IInv

\* What a subscriber does not want goes; in the timing that happens to no thread
\* that has subscribed.
LEMMA LossKeepsInv ==
  ASSUME NEW s \in Subscribers, IInv, SortOut(s) \/ Leave(s) PROVE IInv'
<1>1. /\ UNCHANGED <<program, punctual, publisher, run, sent, topic, latest>>
      /\ subscriber[s] \in {"dialed", "subscribed"}
      /\ \A t \in Subscribers \ {s} : queue'[t] = queue[t] /\ subscriber'[t] = subscriber[t]
      /\ subscriber'[s] = subscriber[s] \/ (subscriber'[s] = "gone" /\ program = "publisher")
      /\ program = "pubsub" => (SortOut(s) /\ UNCHANGED <<subscriber, connected>>)
      /\ connected' \subseteq connected
  BY DEF SortOut, Leave, settings, publisherVars, IInv, TypeOK
<1>2. Left(queue'[s], queue[s])
  <2>1. queue[s] \in Seq(Messages)
    BY DEF IInv, TypeOK
  <2>2. CASE SortOut(s)
    BY <2>1, <2>2, TailFacts DEF SortOut, IInv, TypeOK
  <2>3. CASE Leave(s)
    BY <2>3, EmptyFacts DEF Leave, Left, IInv, TypeOK
  <2>4. QED
    BY <2>2, <2>3
<1>3. \A t \in Subscribers : Left(queue'[t], queue[t])
  BY <1>1, <1>2 DEF IInv, TypeOK, Left
<1>4. TypeOK'
  <2>1. queue' \in [Subscribers -> Seq(Messages)]
    BY <1>3 DEF SortOut, Leave, Left, IInv, TypeOK
  <2>2. QED
    BY <1>1, <2>1 DEF SortOut, Leave, IInv, TypeOK
<1>5. OnlyWhatWasSent' /\ NewerFollow'
  <2>1. LastSent <= LastSent'
    BY <1>1, MessageFacts DEF IInv, LastSent, Number
  <2>2. QED
    BY <1>1, <1>3, <1>4, <2>1, LossKeepsOrder
<1>6. ByTopic'
  BY <1>1 DEF IInv, ByTopic
<1>7. Places'
  BY <1>1 DEF IInv, Places, AllJoined
<1>8. AllAreThere' /\ ThreadsStayConnected'
  BY <1>1 DEF SortOut, Leave, IInv, AllAreThere, ThreadsStayConnected
<1>9. LastIsNeverDropped'
  <2> SUFFICES ASSUME program = "pubsub", punctual, sent = NMsg, publisher # "failed"
               PROVE  FALSE
    BY <1>1 DEF LastIsNeverDropped
  <2>1. publisher \notin {"opened", "listening"}
    BY PubSubAssumption DEF IInv, Places
  <2>2. subscriber[s] = "subscribed"
    BY <1>1, <2>1 DEF IInv, AllAreThere
  <2>3. QED
    BY <1>1, <2>2 DEF SortOut, Wants
<1>10. QED
  BY <1>4, <1>5, <1>6, <1>7, <1>8, <1>9 DEF IInv

\* What is received is older than all that waits.
LEMMA ReceiveKeepsInv == ASSUME NEW s \in Subscribers, IInv, Receive(s) PROVE IInv'
<1> DEFINE m == Head(queue[s])
<1>1. /\ UNCHANGED <<program, punctual, publisher, run, sent, topic>>
      /\ queue[s] # <<>>
      /\ subscriber[s] = "subscribed"
      /\ program = "publisher" => topic[s] \in {Everything, Topic(m)}
      /\ latest' = [latest EXCEPT ![s] = m]
      /\ queue' = [queue EXCEPT ![s] = Tail(@)]
      /\ \A t \in Subscribers \ {s} : subscriber'[t] = subscriber[t]
      /\ IF program = "pubsub" /\ m = LastMsg
         THEN subscriber'[s] = "closed" /\ connected' = connected \ {s}
         ELSE UNCHANGED <<subscriber, connected>>
  BY DEF Receive, Wants, Ends, settings, publisherVars, IInv, TypeOK
<1>2. /\ queue \in [Subscribers -> Seq(Messages)]
      /\ latest \in [Subscribers -> Messages \cup {None}]
  BY DEF IInv, TypeOK
<1>3. /\ Left(Tail(queue[s]), queue[s]) /\ m \in Messages
      /\ Range(queue[s]) = Range(Tail(queue[s])) \cup {m}
      /\ \A k \in Range(Tail(queue[s])) : m < k
  BY <1>1, <1>2, TailFacts DEF IInv, NewerFollow
<1>4. /\ queue'[s] = Tail(queue[s]) /\ latest'[s] = m
      /\ \A t \in Subscribers \ {s} : queue'[t] = queue[t] /\ latest'[t] = latest[t]
  BY <1>1, <1>2
<1> HIDE DEF m
<1>5. TypeOK'
  <2>1. queue' \in [Subscribers -> Seq(Messages)]
    BY <1>1, <1>2, <1>3 DEF Left
  <2>2. subscriber' \in [Subscribers -> {"new", "dialed", "subscribed", "closed", "gone"}]
    BY DEF Receive, IInv, TypeOK
  <2>3. QED
    BY <1>1, <1>2, <1>3, <2>1, <2>2 DEF IInv, TypeOK
<1>6. OnlyWhatWasSent'
  <2>1. LastSent' = LastSent
    BY <1>1 DEF LastSent, Number
  <2>2. QED
    BY <1>3, <1>4, <2>1 DEF IInv, OnlyWhatWasSent
<1>7. NewerFollow'
  BY <1>3, <1>4 DEF IInv, NewerFollow, Left
<1>8. ByTopic'
  BY <1>1, <1>4 DEF IInv, ByTopic
<1>9. Places'
  BY <1>1 DEF IInv, Places, AllJoined
<1>10. AllAreThere' /\ ThreadsStayConnected'
  BY <1>1 DEF IInv, AllAreThere, ThreadsStayConnected
<1>11. LastIsNeverDropped'
  BY <1>1, <1>3, <1>4 DEF IInv, LastIsNeverDropped
<1>12. QED
  BY <1>5, <1>6, <1>7, <1>8, <1>9, <1>10, <1>11 DEF IInv

------------------------------------------------------------------------------

\* Every step keeps the invariant.
LEMMA StepKeepsInv == IInv /\ [Next]_vars => IInv'
<1> SUFFICES ASSUME IInv, [Next]_vars PROVE IInv'
  OBVIOUS
<1>1. CASE UNCHANGED vars
  BY <1>1 DEF vars, settings, publisherVars, subscriberVars, IInv, TypeOK, OnlyWhatWasSent,
       NewerFollow, ByTopic, Places, AllJoined, AllAreThere, ThreadsStayConnected,
       LastIsNeverDropped, LastSent, Number
<1>2. CASE PublisherStep
  BY <1>2, MainKeepsInv, PublishKeepsInv DEF PublisherStep
<1>3. CASE Fail \/ Kill \/ Restart
  BY <1>3, EndKeepsInv, RestartKeepsInv
<1>4. ASSUME NEW s \in Subscribers, Dial(s) \/ Reconnect(s) \/ SubscriberStep(s) \/ Leave(s)
      PROVE  IInv'
  BY <1>4, JoinKeepsInv, LossKeepsInv, ReceiveKeepsInv DEF SubscriberStep
<1>5. QED
  BY <1>1, <1>2, <1>3, <1>4 DEF Next

\* What is under way is published, newer than what was received, and in order;
\* threads of a punctual timing are all there.
THEOREM InductiveInvariant == Spec => []IInv
<1>1. QED
  BY InitInv, StepKeepsInv, PTL DEF Spec

\* Every variable keeps its type.
THEOREM TypeCorrect == Spec => []TypeOK
<1>1. IInv => TypeOK
  BY DEF IInv
<1>2. QED
  BY <1>1, InductiveInvariant, PTL

\* A subscriber gets what it has subscribed to, in order, over several runs.
THEOREM SubscribedInOrder == Spec => []OnlySubscribedInOrder
<1>1. IInv => OnlySubscribedInOrder
  BY DEF IInv, ByTopic, NewerFollow, InOrder, OnlySubscribedInOrder, Range
<1>2. QED
  BY <1>1, InductiveInvariant, PTL

\* Queues of any size keep the last message of a punctual timing.
THEOREM LastIsKept == Spec => []LastIsNeverDropped
<1>1. IInv => LastIsNeverDropped
  BY DEF IInv
<1>2. QED
  BY <1>1, InductiveInvariant, PTL

------------------------------------------------------------------------------

\* In the sample nothing is measured.
LEMMA SampleMeasuresNothing ==
  ASSUME IInv, IInv', program = "publisher", program' = program
  PROVE  UNCHANGED M!vars
<1>1. /\ \A s \in Subscribers : subscriber[s] # "closed" /\ subscriber'[s] # "closed"
      /\ publisher # "done" /\ publisher' # "done"
  BY DEF IInv, Places
<1>2. QED
  BY <1>1 DEF M!vars

\* Every step is a step of the measurement, or none of it.
LEMMA MeasurementStep ==
  ASSUME IInv, IInv', [Next]_vars
  PROVE  M!Next \/ UNCHANGED M!vars
<1>1. program' = program
  BY DEF Next, PublisherStep, SubscriberStep, Listen, StartPublishing, Publish, JoinAll, Report,
         Fail, Kill, Restart, Dial, Reconnect, Subscribe, SortOut, Receive, Leave, vars, settings
<1>2. CASE program = "publisher"
  BY <1>1, <1>2, SampleMeasuresNothing
<1>3. CASE program = "pubsub"
  <2> USE <1>3
  <2>1. CASE UNCHANGED vars \/ Listen \/ Publish
    BY <2>1 DEF vars, settings, publisherVars, subscriberVars, Listen, Publish, M!vars
  <2>2. CASE StartPublishing
    BY <2>2 DEF StartPublishing, settings, subscriberVars, M!Next, M!Start
  <2>3. CASE JoinAll
    BY <2>3 DEF JoinAll, AllJoined, settings, subscriberVars, M!Next, M!Stop
  <2>4. CASE Report
    BY <2>4 DEF Report, settings, subscriberVars, M!Next, M!Report
  <2>5. CASE Fail
    <3>1. \A s \in Subscribers : subscriber'[s] = "closed" <=> subscriber[s] = "closed"
      BY <2>5 DEF Fail
    <3>2. QED
      BY <2>5, <3>1 DEF Fail, settings, M!Next, M!Abort
  <2>6. ASSUME NEW s \in Subscribers, Dial(s) \/ Reconnect(s) \/ Subscribe(s) \/ SortOut(s)
        PROVE  UNCHANGED M!vars
    <3>1. /\ \A t \in Subscribers : subscriber'[t] = "closed" <=> subscriber[t] = "closed"
          /\ UNCHANGED <<program, publisher>>
      BY <2>6 DEF Dial, Reconnect, Subscribe, SortOut, settings, publisherVars, IInv, TypeOK
    <3>2. QED
      BY <3>1 DEF M!vars
  <2>7. ASSUME NEW s \in Subscribers, Receive(s) PROVE M!Next \/ UNCHANGED M!vars
    <3>1. /\ subscriber[s] = "subscribed" /\ queue[s] # <<>>
          /\ UNCHANGED <<program, publisher>>
      BY <2>7 DEF Receive, Wants, settings, publisherVars
    <3>2. CASE ~Ends(Head(queue[s]))
      BY <2>7, <3>1, <3>2 DEF Receive, M!vars
    <3>3. CASE Ends(Head(queue[s]))
      <4>1. sent > 0
        <5>1. Head(queue[s]) \in Range(queue[s]) /\ Head(queue[s]) \in Messages
          BY <3>1, TailFacts DEF IInv, TypeOK
        <5>2. Head(queue[s]) <= LastSent /\ LastSent = sent
          BY <5>1, MessageFacts DEF IInv, OnlyWhatWasSent, Places
        <5>3. Head(queue[s]) \in Nat /\ 0 < Head(queue[s]) /\ sent \in Nat
          BY <5>1, MessageTypes, PubSubAssumption DEF IInv, TypeOK
        <5>4. QED
          BY <5>2, <5>3
      <4>2. publisher = "publishing"
        BY <3>1, <4>1 DEF IInv, TypeOK, Places, AllJoined
      <4>3. /\ subscriber' = [subscriber EXCEPT ![s] = "closed"]
            /\ {t \in Subscribers : subscriber'[t] = "closed"}
                 = {t \in Subscribers : subscriber[t] = "closed"} \cup {s}
        BY <2>7, <3>3 DEF Receive, IInv, TypeOK
      <4>4. M!Finish(s)
        BY <3>1, <4>2, <4>3 DEF M!Finish
      <4>5. QED
        BY <4>4 DEF M!Next
    <3>4. QED
      BY <3>2, <3>3
  <2>8. QED
    BY <2>1, <2>2, <2>3, <2>4, <2>5, <2>6, <2>7
       DEF Next, PublisherStep, SubscriberStep, Kill, Restart, Leave
<1>4. QED
  BY <1>2, <1>3 DEF IInv, TypeOK

\* The timing stops its clock only when every thread has the last message.
THEOREM KeepsTheMeasurement == Spec => PubSubIsMeasurement
<1>1. Init => M!Init
  BY DEF Init, M!Init
<1>2. IInv /\ IInv' /\ [Next]_vars => [M!Next]_(M!vars)
  BY MeasurementStep
<1>3. QED
  BY <1>1, <1>2, InductiveInvariant, PTL DEF Spec, PubSubIsMeasurement, M!Spec

------------------------------------------------------------------------------

\* A publication is always taken: there is a way to make room for it.
LEMMA PublishNeverBlocks ==
  ASSUME IInv, NEW n
  PROVE  \E q \in [Subscribers -> UNION {Published(s, n) : s \in Subscribers}] :
           \A s \in Subscribers : q[s] \in Published(s, n)
<1>1. ASSUME NEW s \in Subscribers PROVE Published(s, n) # {}
  <2>1. queue[s] \in Seq(Messages)
    BY DEF IInv, TypeOK
  <2>2. Offered(queue[s]) # {}
    <3>1. CASE Len(queue[s]) < QueueBound
      BY <3>1 DEF Offered
    <3>2. CASE ~(Len(queue[s]) < QueueBound)
      <4>1. Len(queue[s]) \in Nat /\ DOMAIN queue[s] = 1 .. Len(queue[s])
        BY <2>1
      <4>2. 1 \in DOMAIN queue[s]
        BY <3>2, <4>1, PubSubAssumption
      <4>3. QED
        BY <3>2, <4>2 DEF Offered
    <3>3. QED
      BY <3>1, <3>2
  <2>3. PICK k : k \in Offered(queue[s])
    BY <2>2
  <2>4. Append(k, n) \in Accept(queue[s], n)
    BY <2>3 DEF Accept
  <2>5. QED
    BY <2>4 DEF Published
<1> DEFINE q == [s \in Subscribers |-> CHOOSE r : r \in Published(s, n)]
<1>2. \A s \in Subscribers : q[s] \in Published(s, n)
  BY <1>1
<1>3. q \in [Subscribers -> UNION {Published(s, n) : s \in Subscribers}]
  BY <1>2
<1>4. QED
  BY <1>2, <1>3

\* Can main, a thread or nng take a step of the timing?  The guards of
\* PublisherStep, Dial and SubscriberStep; Publish has no other (PublishNeverBlocks).
MainCanStep ==
  \/ publisher \in {"opened", "timed"}
  \/ publisher = "listening" /\ (punctual => \A s \in Subscribers : subscriber[s] = "subscribed")
  \/ publisher = "publishing" /\ (sent < NMsg \/ AllJoined)

CanStep(s) ==
  \/ subscriber[s] = "new" /\ Listening
  \/ subscriber[s] = "dialed"
  \/ subscriber[s] = "subscribed" /\ queue[s] # <<>>

\* In the timing a thread ends with the last message, or with the process.
ThreadsEndInTime ==
  program = "pubsub" =>
    \A s \in Subscribers : /\ subscriber[s] = "closed" => sent = NMsg
                           /\ subscriber[s] = "gone" => publisher = "failed"

LEMMA EndInTime == Spec => []ThreadsEndInTime
<1>1. Init => ThreadsEndInTime
  BY DEF Init, ThreadsEndInTime
<1>2. ASSUME IInv, ThreadsEndInTime, [Next]_vars PROVE ThreadsEndInTime'
  <2> SUFFICES ASSUME program' = "pubsub", NEW s \in Subscribers
               PROVE  /\ subscriber'[s] = "closed" => sent' = NMsg
                      /\ subscriber'[s] = "gone" => publisher' = "failed"
    BY DEF ThreadsEndInTime
  <2>1. program = "pubsub"
    BY <1>2 DEF Next, PublisherStep, SubscriberStep, Listen, StartPublishing, Publish, JoinAll,
         Report, Fail, Kill, Restart, Dial, Reconnect, Subscribe, SortOut, Receive, Leave, vars, settings
  <2>2. /\ subscriber[s] = "closed" => sent = NMsg
        /\ subscriber[s] = "gone" => publisher = "failed"
    BY <1>2, <2>1 DEF ThreadsEndInTime
  <2>3. CASE PublisherStep
    BY <1>2, <2>2, <2>3 DEF PublisherStep, Listen, StartPublishing, Publish, JoinAll, Report,
         subscriberVars, IInv, TypeOK
  <2>4. CASE Fail
    BY <2>2, <2>4 DEF Fail
  <2>5. CASE Kill \/ Restart
    BY <2>1, <2>5 DEF Kill, Restart
  <2>6. ASSUME NEW t \in Subscribers, Dial(t) \/ Reconnect(t) \/ Subscribe(t) \/ SortOut(t) \/ Leave(t)
        PROVE  /\ subscriber'[s] = "closed" => sent' = NMsg
               /\ subscriber'[s] = "gone" => publisher' = "failed"
    BY <1>2, <2>1, <2>2, <2>6 DEF Dial, Reconnect, Subscribe, SortOut, Leave, publisherVars, IInv, TypeOK
  <2>7. ASSUME NEW t \in Subscribers, Receive(t)
        PROVE  /\ subscriber'[s] = "closed" => sent' = NMsg
               /\ subscriber'[s] = "gone" => publisher' = "failed"
    <3>1. UNCHANGED <<publisher, sent>> /\ subscriber \in [Subscribers -> {"new", "dialed", "subscribed", "closed", "gone"}]
      BY <1>2, <2>7 DEF Receive, publisherVars, IInv, TypeOK
    <3>2. CASE ~Ends(Head(queue[t]))
      BY <2>2, <2>7, <3>1, <3>2 DEF Receive
    <3>3. CASE Ends(Head(queue[t]))
      <4>1. Head(queue[t]) = NMsg /\ queue[t] \in Seq(Messages) /\ queue[t] # <<>>
        BY <1>2, <2>7, <3>3 DEF Receive, Ends, LastMsg, IInv, TypeOK
      <4>2. NMsg <= LastSent
        BY <1>2, <4>1, TailFacts DEF IInv, OnlyWhatWasSent
      <4>3. LastSent = sent
        BY <1>2, <2>1, MessageFacts DEF IInv, Places
      <4>4. sent = NMsg
        BY <1>2, <4>2, <4>3, PubSubAssumption DEF IInv, TypeOK
      <4>5. subscriber'[s] = "gone" => subscriber[s] = "gone"
        BY <2>7, <3>1, <3>3 DEF Receive
      <4>6. QED
        BY <2>2, <3>1, <4>4, <4>5
    <3>4. QED
      BY <3>2, <3>3
  <2>8. CASE UNCHANGED vars
    BY <2>2, <2>8 DEF vars, publisherVars, subscriberVars
  <2>9. QED
    BY <1>2, <2>3, <2>4, <2>5, <2>6, <2>7, <2>8 DEF Next, SubscriberStep
<1>3. QED
  BY <1>1, <1>2, InductiveInvariant, PTL DEF Spec

\* The timing can always go on, with one exception: a thread that subscribed so
\* late that it missed the last message waits for it, and main for the thread.
\* When the user waited with the Enter, no thread is late.
THEOREM WaitsEnd ==
  Spec => [](program = "pubsub" =>
    \/ publisher \in {"done", "failed"}
    \/ MainCanStep
    \/ \E s \in Subscribers : CanStep(s)
    \/ /\ ~punctual /\ publisher = "publishing" /\ sent = NMsg
       /\ \E s \in Subscribers : subscriber[s] = "subscribed" /\ queue[s] = <<>>)
<1> DEFINE Late == /\ ~punctual /\ publisher = "publishing" /\ sent = NMsg
                   /\ \E s \in Subscribers : subscriber[s] = "subscribed" /\ queue[s] = <<>>
<1>1. ASSUME IInv, ThreadsEndInTime, program = "pubsub", publisher \notin {"done", "failed"},
             ~MainCanStep, \A s \in Subscribers : ~CanStep(s)
      PROVE  Late
  <2>1. publisher \in {"listening", "publishing"} /\ Listening
    BY <1>1 DEF MainCanStep, Listening, IInv, TypeOK
  <2>2. ASSUME NEW s \in Subscribers
        PROVE  subscriber[s] = "closed" \/ (subscriber[s] = "subscribed" /\ queue[s] = <<>>)
    BY <1>1, <2>1 DEF CanStep, ThreadsEndInTime, IInv, TypeOK
  <2>3. publisher = "publishing"
    <3>1. ASSUME publisher = "listening" PROVE FALSE
      <4>1. sent # NMsg
        BY <1>1, <3>1, PubSubAssumption DEF IInv, Places, TypeOK
      <4>2. \A s \in Subscribers : subscriber[s] = "subscribed"
        BY <1>1, <2>2, <4>1 DEF ThreadsEndInTime
      <4>3. QED
        BY <1>1, <3>1, <4>2 DEF MainCanStep
    <3>2. QED
      BY <2>1, <3>1
  <2>4. sent = NMsg /\ ~AllJoined
    BY <1>1, <2>3, PubSubAssumption DEF MainCanStep, IInv, TypeOK
  <2>5. PICK s \in Subscribers : subscriber[s] = "subscribed" /\ queue[s] = <<>>
    BY <2>2, <2>4 DEF AllJoined
  <2>6. ~punctual
    <3>1. Range(queue[s]) = {}
      BY <2>5 DEF Range
    <3>2. QED
      BY <1>1, <2>3, <2>4, <2>5, <3>1 DEF IInv, LastIsNeverDropped
  <2>7. QED
    BY <2>3, <2>4, <2>5, <2>6
<1>2. IInv /\ ThreadsEndInTime =>
        (program = "pubsub" => \/ publisher \in {"done", "failed"}
                               \/ MainCanStep
                               \/ \E s \in Subscribers : CanStep(s)
                               \/ Late)
  BY <1>1
<1>3. QED
  BY <1>2, InductiveInvariant, EndInTime, PTL

\* What is left of the timing for main, and for a thread and its end of nng.
OfMain ==
  IF publisher = "opened" THEN NMsg + 4 ELSE
  IF publisher = "listening" THEN NMsg + 3 ELSE
  IF publisher = "publishing" THEN NMsg - sent + 2 ELSE
  IF publisher = "timed" THEN 1 ELSE 0

PlaceOf(s) ==
  IF subscriber[s] = "new" THEN 3 ELSE
  IF subscriber[s] = "dialed" THEN 2 ELSE
  IF subscriber[s] = "subscribed" THEN 1 ELSE 0

OfThread(s) == PlaceOf(s) + Len(queue[s])

\* Main has less left, or it has as much and a thread has less.
Fewer ==
  \/ OfMain' < OfMain
  \/ /\ OfMain' = OfMain
     /\ \A s \in Subscribers : OfThread(s)' <= OfThread(s)
     /\ \E s \in Subscribers : OfThread(s)' < OfThread(s)

\* A step of main, by which it has less left.
LEMMA MainCounts ==
  ASSUME IInv, program = "pubsub", PublisherStep \/ Fail PROVE OfMain' < OfMain
<1>1. sent \in 0 .. NMsg /\ NMsg \in Nat
  BY PubSubAssumption DEF IInv, TypeOK
<1>2. CASE Listen
  BY <1>1, <1>2 DEF Listen, OfMain
<1>3. CASE StartPublishing
  <2>1. sent' = sent
    BY <1>3 DEF StartPublishing
  <2>2. QED
    BY <1>1, <1>3, <2>1 DEF StartPublishing, OfMain
<1>4. CASE Publish
  BY <1>1, <1>4 DEF Publish, OfMain
<1>5. CASE JoinAll
  BY <1>1, <1>5 DEF JoinAll, OfMain
<1>6. CASE Report
  BY <1>1, <1>6 DEF Report, OfMain
<1>7. CASE Fail
  <2>1. OfMain' = 0
    BY <1>7 DEF Fail, OfMain
  <2>2. OfMain > 0
    BY <1>1, <1>7 DEF Fail, OfMain, IInv, TypeOK
  <2>3. QED
    BY <2>1, <2>2
<1>8. QED
  BY <1>2, <1>3, <1>4, <1>5, <1>6, <1>7 DEF PublisherStep

\* A step of a thread, by which it has less left and nobody more.
LEMMA ThreadCounts ==
  ASSUME IInv, program = "pubsub", NEW s \in Subscribers,
         Dial(s) \/ Reconnect(s) \/ SubscriberStep(s) \/ Leave(s)
  PROVE  Fewer
<1>1. /\ subscriber \in [Subscribers -> {"new", "dialed", "subscribed", "closed", "gone"}]
      /\ queue \in [Subscribers -> Seq(Messages)]
  BY DEF IInv, TypeOK
<1>2. ASSUME NEW t \in Subscribers
      PROVE  Len(queue[t]) \in Nat /\ PlaceOf(t) \in Nat /\ OfThread(t) \in Nat
  BY <1>1 DEF PlaceOf, OfThread
<1>3. OfMain' = OfMain
  BY DEF Dial, Reconnect, SubscriberStep, Subscribe, SortOut, Receive, Leave, OfMain, publisherVars
<1>4. ASSUME NEW t \in Subscribers, t # s PROVE OfThread(t)' = OfThread(t)
  <2>1. subscriber'[t] = subscriber[t]
    BY <1>1, <1>4 DEF Dial, Reconnect, SubscriberStep, Subscribe, SortOut, Receive, Leave
  <2>2. queue'[t] = queue[t]
    BY <1>1, <1>4 DEF Dial, Reconnect, SubscriberStep, Subscribe, SortOut, Receive, Leave
  <2>3. QED
    BY <2>1, <2>2 DEF OfThread, PlaceOf
<1>5. \E d \in Nat \ {0} : OfThread(s)' = OfThread(s) - d
  <2>1. CASE Dial(s)
    <3>1. queue'[s] = queue[s] /\ subscriber[s] = "new" /\ subscriber'[s] \in {"dialed", "gone"}
      BY <1>1, <2>1 DEF Dial
    <3>2. PlaceOf(s) = 3 /\ (PlaceOf(s)' = 2 \/ PlaceOf(s)' = 0)
      BY <3>1 DEF PlaceOf
    <3>3. OfThread(s)' = OfThread(s) - 1 \/ OfThread(s)' = OfThread(s) - 3
      BY <1>2, <3>1, <3>2 DEF OfThread
    <3>4. QED
      BY <3>3
  <2>2. CASE Reconnect(s)
    BY <2>2 DEF Reconnect, IInv, ThreadsStayConnected
  <2>3. CASE Subscribe(s)
    <3>1. queue'[s] = queue[s] /\ subscriber[s] = "dialed" /\ subscriber'[s] = "subscribed"
      BY <1>1, <2>3 DEF Subscribe
    <3>2. PlaceOf(s) = 2 /\ PlaceOf(s)' = 1
      BY <3>1 DEF PlaceOf
    <3>3. OfThread(s)' = OfThread(s) - 1
      BY <1>2, <3>1, <3>2 DEF OfThread
    <3>4. QED
      BY <3>3
  <2>4. CASE SortOut(s) \/ Receive(s)
    <3>1. queue[s] # <<>> /\ queue'[s] = Tail(queue[s])
      BY <1>1, <2>4 DEF SortOut, Receive
    <3>2. Len(queue'[s]) = Len(queue[s]) - 1
      BY <1>1, <3>1, HeadTailProperties
    <3>3. subscriber'[s] \in {subscriber[s], "closed"}
      BY <1>1, <2>4 DEF SortOut, Receive
    <3>4. PlaceOf(s)' = PlaceOf(s) \/ PlaceOf(s)' = 0
      BY <3>3 DEF PlaceOf
    <3>5. OfThread(s)' = OfThread(s) - 1 \/ OfThread(s)' = OfThread(s) - (1 + PlaceOf(s))
      BY <1>2, <3>2, <3>4 DEF OfThread
    <3>6. 1 \in Nat \ {0} /\ 1 + PlaceOf(s) \in Nat \ {0}
      BY <1>2
    <3>7. QED
      BY <3>5, <3>6
  <2>5. CASE Leave(s)
    BY <2>5 DEF Leave
  <2>6. QED
    BY <2>1, <2>2, <2>3, <2>4, <2>5 DEF SubscriberStep
<1>6. OfThread(s)' < OfThread(s)
  <2>1. PICK d \in Nat \ {0} : OfThread(s)' = OfThread(s) - d
    BY <1>5
  <2>2. QED
    BY <1>2, <2>1
<1>7. ASSUME NEW t \in Subscribers PROVE OfThread(t)' <= OfThread(t)
  <2>1. CASE t = s
    <3>1. PICK d \in Nat \ {0} : OfThread(s)' = OfThread(s) - d
      BY <1>5
    <3>2. QED
      BY <1>2, <2>1, <3>1
  <2>2. CASE t # s
    BY <1>2, <1>4, <2>2
  <2>3. QED
    BY <2>1, <2>2
<1>8. QED
  BY <1>3, <1>6, <1>7 DEF Fewer

\* The timing comes to rest: every step leaves less to do, in an order with no
\* endless descent (main first, then thread by thread), whatever is dropped,
\* comes too late or fails.
THEOREM ComesToRest ==
  Spec => /\ [](/\ OfMain \in 0 .. NMsg + 4
                /\ \A s \in Subscribers : OfThread(s) \in Nat)
          /\ [][program = "pubsub" => Fewer]_vars
<1>1. IInv => /\ OfMain \in 0 .. NMsg + 4
              /\ \A s \in Subscribers : OfThread(s) \in Nat
  <2>1. ASSUME IInv PROVE OfMain \in 0 .. NMsg + 4
    BY <2>1, PubSubAssumption DEF IInv, TypeOK, OfMain
  <2>2. ASSUME IInv, NEW s \in Subscribers PROVE OfThread(s) \in Nat
    BY <2>2 DEF IInv, TypeOK, OfThread, PlaceOf
  <2>3. QED
    BY <2>1, <2>2
<1>2. IInv /\ [Next]_vars => [program = "pubsub" => Fewer]_vars
  <2>1. ASSUME IInv, Next, program = "pubsub" PROVE Fewer
    <3>1. CASE PublisherStep \/ Fail
      BY <2>1, <3>1, MainCounts DEF Fewer
    <3>2. CASE Kill \/ Restart
      BY <2>1, <3>2 DEF Kill, Restart
    <3>3. ASSUME NEW s \in Subscribers, Dial(s) \/ Reconnect(s) \/ SubscriberStep(s) \/ Leave(s)
          PROVE  Fewer
      BY <2>1, <3>3, ThreadCounts
    <3>4. QED
      BY <2>1, <3>1, <3>2, <3>3 DEF Next
  <2>2. QED
    BY <2>1
<1>3. QED
  BY <1>1, <1>2, InductiveInvariant, PTL DEF Spec

==============================================================================
