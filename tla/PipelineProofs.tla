---------------------------- MODULE PipelineProofs ----------------------------
(***************************************************************************)
(* What holds of push.cpp, pull.cpp and performance/pushpull.cpp for any   *)
(* number of pullers, messages and runs: each message goes to one puller,  *)
(* nothing but end messages is lost, and the timing is a measurement.      *)
(***************************************************************************)
EXTENDS Pipeline, SequenceTheorems, FiniteSetTheorems, TLAPS

Messages == Data \cup {End}

\* Data are sorted, and nothing but end messages follows an end message.
InOrder(q) == \A i, j \in DOMAIN q : (i < j /\ q[j] # End) => q[i] < q[j]

\* The last data message of all runs so far.
LastSent == Number(sent)

\* What is under way, or has been received, has been pushed.
OnlyWhatWasSent ==
  \A p \in Pullers :
    /\ \A m \in Range(queue[p]) : m = End \/ m <= LastSent
    /\ \A m \in got[p] : m <= LastSent

QueuesInOrder == \A p \in Pullers : InOrder(queue[p])

\* A message is in one place.
OnePlace ==
  \A p, q \in Pullers :
    /\ p # q => got[p] \cap got[q] = {}
    /\ p # q => Range(queue[p]) \cap Range(queue[q]) \subseteq {End}
    /\ got[p] \cap Range(queue[q]) = {}

\* The end messages of the timing come when all data has been pushed.
EndsAreLast ==
  /\ ended > 0 => (program = "pushpull" /\ sent = NMsg)
  /\ \A p \in Pullers : End \in Range(queue[p]) => (ended > 0 /\ puller[p] # "closed")

\* How far the two programs can be.
Places ==
  /\ \A p \in connected : puller[p] \in {"pulling", "hung"}
  /\ program = "pushpull" => (run = 1 /\ pusher # "exited")
  /\ program = "push" =>
       (pusher \notin {"timed", "done"} /\ \A p \in Pullers : puller[p] # "closed")
  /\ ended > 0 => pusher \in {"pushing", "timed", "done", "failed"}
  /\ pusher \in {"timed", "done"} => AllJoined
  /\ (program = "pushpull" /\ pusher = "failed") =>
       \A p \in Pullers : puller[p] \in {"closed", "gone"}

IInv ==
  /\ TypeOK
  /\ OnlyWhatWasSent
  /\ QueuesInOrder
  /\ OnePlace
  /\ EndsAreLast
  /\ OnlyEndsAreLost
  /\ Places

------------------------------------------------------------------------------

\* Data messages are numbers below the end message, also in the last run.
LEMMA MessageFacts ==
  /\ Messages \subseteq Nat
  /\ End \in Nat /\ End \notin Data
  /\ \A m \in Data : m < End
  /\ NPullers \in Nat \ {0}
  /\ TypeOK => /\ LastSent \in Nat
               /\ Number(0) \in Nat /\ Number(0) + sent = LastSent
               /\ \A n \in 1 .. NMsg : Number(n) \in Data
               /\ LastSent <= run * NMsg
<1>1. MaxRuns * NMsg \in Nat
  BY PipelineAssumption
<1>2. NPullers \in Nat \ {0}
  BY PipelineAssumption, FS_CardinalityType, FS_EmptySet DEF NPullers
<1>3. ASSUME TypeOK
      PROVE  /\ LastSent \in Nat
             /\ Number(0) \in Nat /\ Number(0) + sent = LastSent
             /\ \A n \in 1 .. NMsg : Number(n) \in Data
             /\ LastSent <= run * NMsg
  <2>1. run \in 1 .. MaxRuns /\ sent \in 0 .. NMsg /\ NMsg \in Nat /\ MaxRuns \in Nat
    BY <1>3, PipelineAssumption DEF TypeOK
  <2>2. (run - 1) * NMsg \in Nat /\ run * NMsg = (run - 1) * NMsg + NMsg
    BY <2>1
  <2>3. run * NMsg <= MaxRuns * NMsg
    BY <2>1
  <2>4. QED
    BY <1>1, <2>1, <2>2, <2>3 DEF LastSent, Number, Data
<1>4. QED
  BY <1>1, <1>2, <1>3 DEF Messages, Data, End

\* A message added to a queue.
LEMMA AppendFacts ==
  ASSUME NEW q \in Seq(Messages), NEW m \in Messages
  PROVE  /\ Append(q, m) \in Seq(Messages)
         /\ Range(Append(q, m)) = Range(q) \cup {m}
         /\ (InOrder(q) /\ \A k \in Range(q) : m # End => k < m) => InOrder(Append(q, m))
<1>1. DOMAIN q = 1 .. Len(q) /\ Len(q) \in Nat
  OBVIOUS
<1>2. /\ Append(q, m) \in Seq(Messages)
      /\ DOMAIN Append(q, m) = 1 .. Len(q) + 1
      /\ \A i \in 1 .. Len(q) : Append(q, m)[i] = q[i]
      /\ Append(q, m)[Len(q) + 1] = m
  BY AppendProperties
<1>3. Range(Append(q, m)) = Range(q) \cup {m}
  BY <1>1, <1>2 DEF Range
<1>4. ASSUME InOrder(q), \A k \in Range(q) : m # End => k < m
      PROVE  InOrder(Append(q, m))
  <2> SUFFICES ASSUME NEW i \in 1 .. Len(q) + 1, NEW j \in 1 .. Len(q) + 1,
                      i < j, Append(q, m)[j] # End
               PROVE  Append(q, m)[i] < Append(q, m)[j]
    BY <1>2 DEF InOrder
  <2>1. i \in 1 .. Len(q) /\ q[i] \in Range(q)
    BY <1>1 DEF Range
  <2>2. CASE j = Len(q) + 1
    BY <1>2, <1>4, <2>1, <2>2
  <2>3. CASE j \in 1 .. Len(q)
    BY <1>1, <1>2, <1>4, <2>1, <2>3 DEF InOrder
  <2>4. QED
    BY <2>2, <2>3
<1>5. QED
  BY <1>2, <1>3, <1>4

\* The oldest message taken out of a queue.
LEMMA TailFacts ==
  ASSUME NEW q \in Seq(Messages), q # <<>>
  PROVE  /\ Tail(q) \in Seq(Messages)
         /\ Head(q) \in Messages
         /\ Range(q) = Range(Tail(q)) \cup {Head(q)}
         /\ InOrder(q) => /\ InOrder(Tail(q))
                          /\ \A m \in Range(Tail(q)) : m # End => Head(q) < m
<1>1. /\ DOMAIN q = 1 .. Len(q) /\ Len(q) \in Nat \ {0}
      /\ Tail(q) \in Seq(Messages)
      /\ DOMAIN Tail(q) = 1 .. Len(q) - 1
      /\ \A i \in 1 .. Len(q) - 1 : Tail(q)[i] = q[i + 1]
      /\ Head(q) = q[1] /\ q[1] \in Messages
  BY HeadTailProperties, EmptySeq
<1>2. Range(q) = Range(Tail(q)) \cup {Head(q)}
  <2>1. ASSUME NEW i \in 1 .. Len(q) PROVE q[i] \in Range(Tail(q)) \cup {Head(q)}
    <3>1. CASE i = 1
      BY <1>1, <3>1
    <3>2. CASE i - 1 \in 1 .. Len(q) - 1
      <4>1. Tail(q)[i - 1] = q[i]
        BY <1>1, <3>2
      <4>2. QED
        BY <1>1, <3>2, <4>1 DEF Range
    <3>3. QED
      BY <1>1, <3>1, <3>2
  <2>2. ASSUME NEW i \in 1 .. Len(q) - 1 PROVE Tail(q)[i] \in Range(q)
    <3>1. i + 1 \in 1 .. Len(q) /\ Tail(q)[i] = q[i + 1]
      BY <1>1
    <3>2. QED
      BY <1>1, <3>1 DEF Range
  <2>3. Head(q) \in Range(q)
    BY <1>1 DEF Range
  <2>4. QED
    BY <1>1, <2>1, <2>2, <2>3 DEF Range
<1>3. ASSUME InOrder(q) PROVE InOrder(Tail(q))
  <2> SUFFICES ASSUME NEW i \in 1 .. Len(q) - 1, NEW j \in 1 .. Len(q) - 1,
                      i < j, Tail(q)[j] # End
               PROVE  Tail(q)[i] < Tail(q)[j]
    BY <1>1 DEF InOrder
  <2>1. i + 1 \in DOMAIN q /\ j + 1 \in DOMAIN q /\ i + 1 < j + 1
    BY <1>1
  <2>2. QED
    BY <1>1, <1>3, <2>1 DEF InOrder
<1>4. ASSUME InOrder(q), NEW m \in Range(Tail(q)), m # End PROVE Head(q) < m
  <2>1. PICK i \in 1 .. Len(q) - 1 : m = Tail(q)[i]
    BY <1>1 DEF Range
  <2>2. 1 \in DOMAIN q /\ i + 1 \in DOMAIN q /\ 1 < i + 1 /\ q[i + 1] = m
    BY <1>1, <2>1
  <2>3. QED
    BY <1>1, <1>4, <2>2 DEF InOrder
<1>5. QED
  BY <1>1, <1>2, <1>3, <1>4

\* The newest messages of a queue lost.
LEMMA PrefixFacts ==
  ASSUME NEW q \in Seq(Messages), NEW r \in Prefixes(q)
  PROVE  /\ r \in Seq(Messages)
         /\ Range(r) \subseteq Range(q)
         /\ InOrder(q) => InOrder(r)
<1>1. PICK l \in 0 .. Len(q) : r = SubSeq(q, 1, l)
  BY DEF Prefixes
<1>2. /\ r \in Seq(Messages)
      /\ DOMAIN r = 1 .. l
      /\ \A i \in 1 .. l : r[i] = q[i]
      /\ DOMAIN q = 1 .. Len(q) /\ Len(q) \in Nat
  BY <1>1
<1>3. Range(r) \subseteq Range(q)
  BY <1>2 DEF Range
<1>4. InOrder(q) => InOrder(r)
  BY <1>2 DEF InOrder
<1>5. QED
  BY <1>2, <1>3, <1>4

\* An empty queue is in order.
LEMMA EmptyFacts ==
  <<>> \in Seq(Messages) /\ Range(<<>>) = {} /\ InOrder(<<>>)
  BY DEF Range, InOrder

------------------------------------------------------------------------------

\* The initial states satisfy the invariant.
LEMMA InitInv == Init => IInv
<1> SUFFICES ASSUME Init PROVE IInv
  OBVIOUS
<1>2. TypeOK
  BY PipelineAssumption, MessageFacts, EmptyFacts DEF Init, TypeOK
<1>3. OnlyWhatWasSent /\ QueuesInOrder /\ OnePlace /\ EndsAreLast
  BY EmptyFacts DEF Init, OnlyWhatWasSent, QueuesInOrder, OnePlace, EndsAreLast
<1>4. OnlyEndsAreLost /\ Places
  BY DEF Init, OnlyEndsAreLost, Places
<1>5. QED
  BY <1>2, <1>3, <1>4 DEF IInv

\* The steps that neither hand over nor take a message.
Plain ==
  \/ Listen \/ StartPushing \/ JoinAll \/ Report
  \/ \E p \in Pullers : Dial(p) \/ Reconnect(p) \/ Hang(p)

\* They keep the invariant.
LEMMA PlainKeepsInv == IInv /\ Plain => IInv'
<1> SUFFICES ASSUME IInv, Plain PROVE IInv'
  OBVIOUS
<1> USE MessageFacts
<1>1. /\ UNCHANGED <<program, run, sent, ended, queue, got>>
      /\ \A p \in Pullers : (puller'[p] = "closed") <=> (puller[p] = "closed")
      /\ \A p \in Pullers : puller[p] = "gone" => puller'[p] = "gone"
      /\ pusher' \in {"exited", "failed"} <=> pusher \in {"exited", "failed"}
  BY DEF Plain, Listen, StartPushing, JoinAll, Report, Dial, Reconnect, Hang, pullerVars,
         pusherVars, IInv, TypeOK
<1>2. TypeOK'
  BY DEF Plain, Listen, StartPushing, JoinAll, Report, Dial, Reconnect, Hang, pullerVars,
         pusherVars, IInv, TypeOK
<1>3. OnlyWhatWasSent' /\ QueuesInOrder' /\ OnePlace' /\ EndsAreLast'
  BY <1>1 DEF IInv, OnlyWhatWasSent, QueuesInOrder, OnePlace, EndsAreLast, LastSent, Number
<1>4. OnlyEndsAreLost'
  BY <1>1 DEF IInv, OnlyEndsAreLost, Number
<1>5. Places'
  <2>1. CASE Listen \/ StartPushing
    BY <2>1 DEF Listen, StartPushing, pullerVars, IInv, Places, EndsAreLast, AllJoined
  <2>2. CASE JoinAll \/ Report
    BY <2>2 DEF JoinAll, Report, pullerVars, IInv, Places, EndsAreLast, AllJoined
  <2>3. CASE \E p \in Pullers : Dial(p) \/ Reconnect(p) \/ Hang(p)
    BY <2>3 DEF Dial, Reconnect, Hang, Listening, pusherVars, IInv, TypeOK, Places, AllJoined
  <2>4. QED
    BY <2>1, <2>2, <2>3 DEF Plain
<1>6. QED
  BY <1>2, <1>3, <1>4, <1>5 DEF IInv

\* A data message that is pushed is new, and greater than all others.
LEMMA PushKeepsInv == IInv /\ Push => IInv'
<1> SUFFICES ASSUME IInv, Push PROVE IInv'
  OBVIOUS
<1> USE MessageFacts
<1> DEFINE m == Number(sent + 1)
<1>1. PICK p \in Pullers :
        HasRoom(p) /\ queue' = [queue EXCEPT ![p] = Append(@, m)]
  BY DEF Push, Give
<1>2. /\ m \in Data /\ m = LastSent + 1 /\ m # End /\ m \in Messages
      /\ LastSent' = m /\ LastSent \in Nat
      /\ sent < NMsg /\ sent' = sent + 1 /\ sent \in 0 .. NMsg
      /\ UNCHANGED <<program, pusher, run, ended, puller, connected, got>>
  <2>1. LastSent' = Number(sent + 1) /\ Number(sent + 1) = LastSent + 1
    BY PipelineAssumption DEF Push, IInv, TypeOK, LastSent, Number
  <2>2. sent < NMsg /\ sent \in 0 .. NMsg /\ sent + 1 \in 1 .. NMsg
    BY PipelineAssumption DEF Push, IInv, TypeOK
  <2>3. QED
    BY <2>1, <2>2 DEF Push, IInv, Messages
<1>3. queue \in [Pullers -> Seq(Messages)]
  BY DEF IInv, TypeOK, Messages
<1>4. /\ Range(queue'[p]) = Range(queue[p]) \cup {m}
      /\ queue'[p] \in Seq(Messages)
      /\ (\A k \in Range(queue[p]) : k < m) => InOrder(queue'[p])
      /\ \A q \in Pullers \ {p} : queue'[q] = queue[q]
  BY <1>1, <1>2, <1>3, AppendFacts DEF IInv, QueuesInOrder
<1> HIDE DEF m
<1>5. ended = 0 /\ \A q \in Pullers : End \notin Range(queue[q])
  BY <1>2 DEF IInv, TypeOK, EndsAreLast
<1>6. /\ \A q \in Pullers : \A k \in Range(queue[q]) : k < m
      /\ \A q \in Pullers : \A k \in got[q] : k < m
  <2>1. ASSUME NEW q \in Pullers, NEW k \in Range(queue[q]) \cup got[q] PROVE k \in Nat
    BY <1>3, RangeOfSeq DEF IInv, TypeOK, Messages
  <2>2. ASSUME NEW q \in Pullers, NEW k \in Range(queue[q]) \cup got[q] PROVE k <= LastSent
    BY <1>5 DEF IInv, OnlyWhatWasSent
  <2>3. ASSUME NEW k \in Nat, k <= LastSent PROVE k < m
    BY <1>2, <2>3
  <2>4. QED
    BY <2>1, <2>2, <2>3, Zenon
<1>7. TypeOK'
  <2>1. queue' \in [Pullers -> Seq(Data \cup {End})]
    BY <1>1, <1>2, <1>3, AppendFacts DEF Messages
  <2>2. QED
    BY <1>2, <2>1, PipelineAssumption DEF IInv, TypeOK
<1>8. OnlyWhatWasSent'
  <2>1. ASSUME NEW q \in Pullers, NEW k \in Range(queue'[q]) \cup got'[q] PROVE k <= LastSent'
    <3>1. k \in Range(queue[q]) \cup got[q] \cup {m}
      BY <1>2, <1>4
    <3>2. Range(queue[q]) \cup got[q] \subseteq Nat
      BY <1>3, RangeOfSeq DEF IInv, TypeOK, Messages
    <3>3. k \in Nat /\ (k < m \/ k = m)
      BY <1>2, <1>6, <3>1, <3>2
    <3>4. QED
      BY <1>2, <3>3
  <2>2. QED
    BY <2>1 DEF OnlyWhatWasSent
<1>9. QueuesInOrder'
  BY <1>4, <1>6 DEF IInv, QueuesInOrder
<1>10. OnePlace'
  <2>1. m \in Nat
    BY <1>2
  <2>2. \A q \in Pullers : m \notin Range(queue[q]) /\ m \notin got[q]
    BY <1>6, <2>1
  <2>3. \A q \in Pullers : Range(queue'[q]) = Range(queue[q]) \cup (IF q = p THEN {m} ELSE {})
    BY <1>4
  <2>4. got' = got
    BY <1>2
  <2> HIDE MessageFacts
  <2>5. QED
    BY <2>2, <2>3, <2>4 DEF IInv, OnePlace
<1>11. EndsAreLast'
  BY <1>2, <1>4, <1>5 DEF IInv, EndsAreLast
<1>12. OnlyEndsAreLost'
  <2>1. /\ \A n \in 1 .. sent' : n \in 1 .. sent \/ n = sent + 1
        /\ \A n : Number(n)' = Number(n)
    BY <1>2 DEF Number
  <2>2. \A q \in Pullers : Range(queue[q]) \subseteq Range(queue'[q])
    BY <1>4
  <2>3. Number(sent + 1) \in Range(queue'[p])
    BY <1>4 DEF m
  <2>4. QED
    BY <1>2, <2>1, <2>2, <2>3 DEF IInv, OnlyEndsAreLost
<1>13. Places'
  BY <1>2 DEF IInv, Places, AllJoined
<1>14. QED
  BY <1>7, <1>8, <1>9, <1>10, <1>11, <1>12, <1>13 DEF IInv

\* End messages follow the data.
LEMMA PushEndKeepsInv == IInv /\ PushEnd => IInv'
<1> SUFFICES ASSUME IInv, PushEnd PROVE IInv'
  OBVIOUS
<1> USE MessageFacts
<1>1. PICK p \in Pullers :
        HasRoom(p) /\ queue' = [queue EXCEPT ![p] = Append(@, End)]
  BY DEF PushEnd, Give
<1>2. /\ program = "pushpull" /\ pusher = "pushing" /\ sent = NMsg
      /\ ended < NPullers /\ ended' = ended + 1
      /\ puller[p] # "closed"
      /\ UNCHANGED <<program, pusher, run, sent, puller, connected, got>>
  BY <1>1 DEF PushEnd, EndsDue, HasRoom, IInv, Places
<1>3. queue \in [Pullers -> Seq(Messages)] /\ End \in Messages
  BY DEF IInv, TypeOK, Messages
<1>4. /\ Range(queue'[p]) = Range(queue[p]) \cup {End}
      /\ queue'[p] \in Seq(Messages)
      /\ InOrder(queue'[p])
      /\ \A q \in Pullers \ {p} : queue'[q] = queue[q]
  BY <1>1, <1>3, AppendFacts DEF IInv, QueuesInOrder
<1>5. TypeOK'
  <2>1. queue' \in [Pullers -> Seq(Data \cup {End})]
    BY <1>1, <1>3, AppendFacts DEF Messages
  <2>2. QED
    BY <1>2, <2>1 DEF IInv, TypeOK
<1>6. OnlyWhatWasSent' /\ QueuesInOrder'
  BY <1>2, <1>4 DEF IInv, OnlyWhatWasSent, QueuesInOrder, LastSent, Number
<1>7. OnePlace'
  <2>1. \A q \in Pullers : End \notin got[q]
    BY DEF IInv, TypeOK
  <2>2. \A q \in Pullers :
          got'[q] = got[q] /\ Range(queue'[q]) \subseteq Range(queue[q]) \cup {End}
    BY <1>2, <1>4
  <2>3. SUFFICES ASSUME NEW q \in Pullers, NEW r \in Pullers
                 PROVE  /\ q # r => got'[q] \cap got'[r] = {}
                        /\ q # r => Range(queue'[q]) \cap Range(queue'[r]) \subseteq {End}
                        /\ got'[q] \cap Range(queue'[r]) = {}
    BY DEF OnePlace
  <2>4. /\ q # r => got[q] \cap got[r] = {}
        /\ q # r => Range(queue[q]) \cap Range(queue[r]) \subseteq {End}
        /\ got[q] \cap Range(queue[r]) = {}
    BY DEF IInv, OnePlace
  <2>5. QED
    BY <2>1, <2>2, <2>4
<1>8. EndsAreLast'
  <2>1. ended' > 0 /\ program' = "pushpull" /\ sent' = NMsg
    BY <1>2 DEF IInv, TypeOK
  <2>2. \A q \in Pullers : End \in Range(queue'[q]) => puller'[q] # "closed"
    BY <1>2, <1>4 DEF IInv, EndsAreLast
  <2>3. QED
    BY <2>1, <2>2 DEF EndsAreLast
<1>9. OnlyEndsAreLost'
  <2>1. \A q \in Pullers : Range(queue[q]) \subseteq Range(queue'[q])
    BY <1>4
  <2>2. QED
    BY <1>2, <2>1 DEF IInv, OnlyEndsAreLost, Number
<1>10. Places'
  BY <1>2 DEF IInv, Places, AllJoined
<1>11. QED
  BY <1>5, <1>6, <1>7, <1>8, <1>9, <1>10 DEF IInv

\* The pusher of the sample ends: whatever is lost of the queues, what is left is
\* in order and in one place.
LEMMA ProcessGoneKeepsInv == IInv /\ (Exit \/ Kill) => IInv'
<1> SUFFICES ASSUME IInv, Exit \/ Kill PROVE IInv'
  OBVIOUS
<1>1. /\ ProcessGone
      /\ program = "push"
      /\ pusher' \in {"exited", "failed"}
  BY DEF Exit, Kill
<1>2. /\ UNCHANGED <<program, run, sent, ended, puller, got>>
      /\ connected' = {}
      /\ queue' \in [Pullers -> UNION {Prefixes(queue[p]) : p \in Pullers}]
      /\ \A p \in Pullers : queue'[p] \in Prefixes(queue[p])
  BY <1>1 DEF ProcessGone
<1>3. \A p \in Pullers : /\ queue'[p] \in Seq(Messages)
                         /\ Range(queue'[p]) \subseteq Range(queue[p])
                         /\ InOrder(queue'[p])
  <2>1. queue \in [Pullers -> Seq(Messages)]
    BY DEF IInv, TypeOK, Messages
  <2>2. QED
    BY <1>2, <2>1, PrefixFacts DEF IInv, QueuesInOrder
<1>4. TypeOK'
  <2>1. queue' \in [Pullers -> Seq(Data \cup {End})]
    BY <1>2, <1>3 DEF Messages
  <2>2. QED
    BY <1>1, <1>2, <2>1 DEF IInv, TypeOK
<1>5. OnlyWhatWasSent' /\ QueuesInOrder'
  BY <1>2, <1>3 DEF IInv, OnlyWhatWasSent, QueuesInOrder, LastSent, Number
<1>6. OnePlace' /\ EndsAreLast'
  BY <1>2, <1>3 DEF IInv, OnePlace, EndsAreLast
<1>7. OnlyEndsAreLost'
  BY <1>1 DEF OnlyEndsAreLost
<1>8. Places'
  BY <1>1, <1>2 DEF IInv, TypeOK, Places, EndsAreLast, AllJoined
<1>9. QED
  BY <1>4, <1>5, <1>6, <1>7, <1>8 DEF IInv

\* The numbers of a new run are greater than those of the run before.
LEMMA RestartKeepsInv == IInv /\ Restart => IInv'
<1> SUFFICES ASSUME IInv, Restart PROVE IInv'
  OBVIOUS
<1> USE MessageFacts
<1>1. /\ program = "push" /\ run < MaxRuns /\ run' = run + 1 /\ sent' = 0
      /\ pusher' = "opened"
      /\ UNCHANGED <<program, ended, puller, connected, queue, got>>
  BY DEF Restart, pullerVars
<1>2. TypeOK'
  BY <1>1, PipelineAssumption DEF IInv, TypeOK
<1>3. LastSent \in Nat /\ LastSent' \in Nat /\ LastSent <= LastSent'
  <2>1. LastSent' = run * NMsg
    BY <1>1, PipelineAssumption DEF LastSent, Number, IInv, TypeOK
  <2>2. run * NMsg \in Nat
    BY PipelineAssumption DEF IInv, TypeOK
  <2>3. QED
    BY <2>1, <2>2 DEF IInv
<1>4. OnlyWhatWasSent'
  <2>1. \A p \in Pullers : Range(queue[p]) \subseteq Nat /\ got[p] \subseteq Nat
    BY RangeOfSeq DEF IInv, TypeOK, Messages
  <2>2. QED
    BY <1>1, <1>3, <2>1 DEF IInv, OnlyWhatWasSent
<1>5. QueuesInOrder' /\ OnePlace'
  BY <1>1 DEF IInv, QueuesInOrder, OnePlace
<1>6. ended = 0
  BY <1>1 DEF IInv, EndsAreLast, TypeOK
<1>7. EndsAreLast' /\ OnlyEndsAreLost' /\ Places'
  BY <1>1, <1>6 DEF IInv, EndsAreLast, OnlyEndsAreLost, Places
<1>8. QED
  BY <1>2, <1>4, <1>5, <1>7 DEF IInv

\* All threads of the timing end at once.
LEMMA FailKeepsInv == IInv /\ Fail => IInv'
<1> SUFFICES ASSUME IInv, Fail PROVE IInv'
  OBVIOUS
<1>1. TypeOK'
  BY EmptyFacts DEF Fail, IInv, TypeOK, Messages
<1>2. OnlyWhatWasSent' /\ QueuesInOrder' /\ OnePlace' /\ EndsAreLast'
  BY EmptyFacts
     DEF Fail, IInv, TypeOK, OnlyWhatWasSent, QueuesInOrder, OnePlace, EndsAreLast, LastSent, Number
<1>3. OnlyEndsAreLost' /\ Places'
  BY DEF Fail, IInv, TypeOK, OnlyEndsAreLost, Places, EndsAreLast, AllJoined
<1>4. QED
  BY <1>1, <1>2, <1>3 DEF IInv

\* A puller takes its oldest message: it is in no queue any more.
LEMMA PullKeepsInv == ASSUME NEW p \in Pullers, IInv, Pull(p) PROVE IInv'
<1> USE MessageFacts
<1> DEFINE m == Head(queue[p])
<1>1. /\ queue[p] # <<>> /\ m # End
      /\ got' = [got EXCEPT ![p] = @ \cup {m}]
      /\ queue' = [queue EXCEPT ![p] = Tail(@)]
      /\ UNCHANGED <<program, pusher, run, sent, ended, puller, connected>>
  BY DEF Pull, Receives, pusherVars
<1>2. queue \in [Pullers -> Seq(Messages)] /\ got \in [Pullers -> SUBSET Data]
  BY DEF IInv, TypeOK, Messages
<1>3. /\ queue'[p] \in Seq(Messages) /\ m \in Messages
      /\ Range(queue[p]) = Range(queue'[p]) \cup {m}
      /\ InOrder(queue'[p])
      /\ \A k \in Range(queue'[p]) : k # End => m < k
      /\ got'[p] = got[p] \cup {m}
      /\ \A q \in Pullers \ {p} : queue'[q] = queue[q] /\ got'[q] = got[q]
  BY <1>1, <1>2, TailFacts DEF IInv, QueuesInOrder
<1> HIDE DEF m
<1>4. m \in Data /\ m \in Nat /\ m \notin Range(queue'[p])
  BY <1>1, <1>3 DEF Messages
<1>5. TypeOK'
  <2>1. queue' \in [Pullers -> Seq(Data \cup {End})]
    BY <1>1, <1>2, <1>3 DEF Messages
  <2>2. QED
    BY <1>1, <1>2, <1>4, <2>1 DEF IInv, TypeOK
<1>6. OnlyWhatWasSent' /\ QueuesInOrder'
  BY <1>1, <1>3 DEF IInv, OnlyWhatWasSent, QueuesInOrder, LastSent, Number
<1>7. OnePlace'
  <2>1. ASSUME NEW q \in Pullers \ {p} PROVE m \notin Range(queue[q]) /\ m \notin got[q]
    <3>1. /\ Range(queue[p]) \cap Range(queue[q]) \subseteq {End}
          /\ got[q] \cap Range(queue[p]) = {}
      BY DEF IInv, OnePlace
    <3>2. m \in Range(queue[p]) /\ m # End
      BY <1>1, <1>3
    <3>3. QED
      BY <3>1, <3>2
  <2>2. SUFFICES ASSUME NEW q \in Pullers, NEW r \in Pullers
                 PROVE  /\ q # r => got'[q] \cap got'[r] = {}
                        /\ q # r => Range(queue'[q]) \cap Range(queue'[r]) \subseteq {End}
                        /\ got'[q] \cap Range(queue'[r]) = {}
    BY DEF OnePlace
  <2>3. /\ q # r => got[q] \cap got[r] = {}
        /\ q # r => Range(queue[q]) \cap Range(queue[r]) \subseteq {End}
        /\ got[q] \cap Range(queue[r]) = {}
    BY DEF IInv, OnePlace
  <2>4. /\ got'[p] = got[p] \cup {m} /\ Range(queue'[p]) \subseteq Range(queue[p])
        /\ \A o \in Pullers \ {p} : queue'[o] = queue[o] /\ got'[o] = got[o]
    BY <1>3
  <2>5. CASE q # p /\ r # p
    BY <2>3, <2>4, <2>5
  <2>6. CASE q = p /\ r # p
    BY <2>1, <2>3, <2>4, <2>6
  <2>7. CASE q # p /\ r = p
    BY <2>1, <2>3, <2>4, <2>7
  <2>8. CASE q = p /\ r = p
    BY <1>4, <2>3, <2>4, <2>8
  <2>9. QED
    BY <2>5, <2>6, <2>7, <2>8
<1>8. EndsAreLast'
  BY <1>1, <1>3 DEF IInv, EndsAreLast
<1>9. OnlyEndsAreLost'
  <2>1. \A q \in Pullers : got[q] \cup Range(queue[q]) \subseteq got'[q] \cup Range(queue'[q])
    BY <1>3
  <2>2. QED
    BY <1>1, <2>1 DEF IInv, OnlyEndsAreLost, Number
<1>10. Places'
  BY <1>1 DEF IInv, Places, AllJoined
<1>11. QED
  BY <1>5, <1>6, <1>7, <1>8, <1>9, <1>10 DEF IInv

\* A puller ends with its queue: it holds no data if it ends for an end message.
LEMMA EndKeepsInv ==
  ASSUME NEW p \in Pullers, IInv, PullEnd(p) \/ Leave(p) PROVE IInv'
<1> USE MessageFacts
<1>1. PICK how \in {"closed", "gone"} :
        /\ EndsAs(p, how)
        /\ how = "closed" => PullEnd(p)
        /\ how = "gone" => Leave(p)
  BY DEF PullEnd, Leave
<1>2. /\ queue' = [queue EXCEPT ![p] = <<>>]
      /\ puller' = [puller EXCEPT ![p] = how]
      /\ connected' = connected \ {p}
      /\ puller[p] \in {"pulling", "hung"}
      /\ UNCHANGED <<program, pusher, run, sent, ended, got>>
  BY <1>1 DEF EndsAs, PullEnd, Leave, Receives, pusherVars
<1>3. queue \in [Pullers -> Seq(Messages)] /\ puller'[p] = how
  BY <1>2 DEF IInv, TypeOK, Messages
<1>4. /\ queue'[p] \in Seq(Messages) /\ Range(queue'[p]) = {} /\ InOrder(queue'[p])
      /\ \A q \in Pullers \ {p} : queue'[q] = queue[q]
  BY <1>2, <1>3, EmptyFacts
<1>5. TypeOK'
  <2>1. queue' \in [Pullers -> Seq(Data \cup {End})]
    BY <1>2, <1>3, <1>4 DEF Messages
  <2>2. QED
    BY <1>2, <2>1 DEF IInv, TypeOK
<1>6. OnlyWhatWasSent' /\ QueuesInOrder' /\ OnePlace'
  BY <1>2, <1>4 DEF IInv, OnlyWhatWasSent, QueuesInOrder, OnePlace, LastSent, Number
<1>7. EndsAreLast'
  BY <1>2, <1>4 DEF IInv, TypeOK, EndsAreLast
<1>8. OnlyEndsAreLost'
  <2>1. CASE how = "gone"
    BY <1>3, <2>1 DEF OnlyEndsAreLost
  <2>2. CASE how = "closed"
    <3>1. \A m \in Range(queue[p]) : m = End
      <4>1. queue[p] # <<>> /\ Head(queue[p]) = End
        BY <1>1, <2>2 DEF PullEnd, Receives
      <4>2. /\ Range(queue[p]) = Range(Tail(queue[p])) \cup {End}
            /\ \A m \in Range(Tail(queue[p])) : m # End => End < m
        BY <1>3, <4>1, TailFacts DEF IInv, QueuesInOrder
      <4>3. Range(queue[p]) \subseteq Messages
        BY <1>3, RangeOfSeq
      <4>4. QED
        BY <4>2, <4>3 DEF Messages
    <3>2. \A n \in 1 .. sent : Number(n) # End
      BY PipelineAssumption DEF IInv, TypeOK
    <3>3. \A q \in Pullers : puller'[q] # "gone" => puller[q] # "gone"
      BY <1>2 DEF IInv, TypeOK
    <3>4. QED
      BY <1>2, <1>4, <3>1, <3>2, <3>3 DEF IInv, OnlyEndsAreLost, Number
  <2>3. QED
    BY <2>1, <2>2
<1>9. Places'
  <2>1. how = "closed" => program = "pushpull"
    <3>1. SUFFICES ASSUME how = "closed" PROVE program = "pushpull"
      OBVIOUS
    <3>2. queue[p] # <<>> /\ Head(queue[p]) = End
      BY <1>1, <3>1 DEF PullEnd, Receives
    <3>3. End \in Range(queue[p])
      BY <1>3, <3>2, TailFacts
    <3>4. QED
      BY <3>3 DEF IInv, EndsAreLast
  <2>2. QED
    BY <1>2, <2>1 DEF IInv, TypeOK, Places, AllJoined
<1>10. QED
  BY <1>5, <1>6, <1>7, <1>8, <1>9 DEF IInv

------------------------------------------------------------------------------

\* Every step keeps the invariant.
LEMMA StepKeepsInv == IInv /\ [Next]_vars => IInv'
<1> SUFFICES ASSUME IInv, [Next]_vars PROVE IInv'
  OBVIOUS
<1>1. CASE UNCHANGED vars
  BY <1>1 DEF vars, pusherVars, pullerVars, IInv, TypeOK, OnlyWhatWasSent, QueuesInOrder, OnePlace,
       EndsAreLast, OnlyEndsAreLost, Places, AllJoined, LastSent, Number
<1>2. CASE Plain
  BY <1>2, PlainKeepsInv
<1>3. CASE Push \/ PushEnd
  BY <1>3, PushKeepsInv, PushEndKeepsInv
<1>4. CASE Exit \/ Kill \/ Restart \/ Fail
  BY <1>4, ProcessGoneKeepsInv, RestartKeepsInv, FailKeepsInv
<1>5. ASSUME NEW p \in Pullers, Pull(p) \/ PullEnd(p) \/ Leave(p) PROVE IInv'
  BY <1>5, PullKeepsInv, EndKeepsInv
<1>6. QED
  BY <1>1, <1>2, <1>3, <1>4, <1>5 DEF Next, PusherStep, PullerStep, Plain

\* Where messages are and what the pullers know of the end, in every state of
\* both programs.
THEOREM InductiveInvariant == Spec => []IInv
<1>1. QED
  BY InitInv, StepKeepsInv, PTL DEF Spec

\* Every variable keeps its type.
THEOREM TypeCorrect == Spec => []TypeOK
<1>1. IInv => TypeOK
  BY DEF IInv
<1>2. QED
  BY <1>1, InductiveInvariant, PTL

\* Each push goes to exactly one puller, in order, also over several runs.
THEOREM EachToOnePuller == Spec => []OnePullerEach
<1>1. IInv => OnePullerEach
  BY DEF IInv, OnePlace, QueuesInOrder, InOrder, OnePullerEach
<1>2. QED
  BY <1>1, InductiveInvariant, PTL

\* The pullers of the timing take nothing but end messages with them.
THEOREM NoDataIsLost == Spec => []OnlyEndsAreLost
<1>1. IInv => OnlyEndsAreLost
  BY DEF IInv
<1>2. QED
  BY <1>1, InductiveInvariant, PTL

------------------------------------------------------------------------------

\* The initial states are those of a measurement.
LEMMA InitMeasures == Init => M!Init
  BY DEF Init, M!Init

\* A step that leaves alone what the measurement is read from.
LEMMA StutterOfMeasurement ==
  ASSUME UNCHANGED <<program, pusher, puller>>
  PROVE  UNCHANGED M!vars
  BY DEF M!vars

\* In the sample nothing is measured.
LEMMA SampleMeasuresNothing ==
  ASSUME IInv, IInv', program = "push", program' = program
  PROVE  UNCHANGED M!vars
<1>1. /\ \A p \in Pullers : puller[p] # "closed" /\ puller'[p] # "closed"
      /\ pusher # "done" /\ pusher' # "done"
  BY DEF IInv, Places
<1>2. QED
  BY <1>1 DEF M!vars

\* Every step is a step of the measurement, or none of it.
LEMMA MeasurementStep ==
  ASSUME IInv, IInv', [Next]_vars
  PROVE  M!Next \/ UNCHANGED M!vars
<1>1. program' = program
  BY DEF Next, PusherStep, PullerStep, Listen, StartPushing, Push, PushEnd, Exit, JoinAll, Report,
         Kill, Restart, Fail, ProcessGone, Dial, Reconnect, Pull, PullEnd, EndsAs, Hang, Leave, vars
<1>2. CASE program = "push"
  BY <1>1, <1>2, SampleMeasuresNothing
<1>3. CASE program = "pushpull"
  <2> USE <1>3
  <2>1. CASE UNCHANGED vars \/ Listen \/ Push \/ PushEnd
    BY <2>1 DEF vars, pusherVars, pullerVars, Listen, Push, PushEnd, M!vars
  <2>2. CASE StartPushing
    BY <2>2 DEF StartPushing, pullerVars, M!Next, M!Start
  <2>3. CASE JoinAll
    BY <2>3 DEF JoinAll, AllJoined, pullerVars, M!Next, M!Stop
  <2>4. CASE Report
    BY <2>4 DEF Report, pullerVars, M!Next, M!Report
  <2>5. CASE Fail
    <3>1. \A p \in Pullers : puller'[p] = "closed" <=> puller[p] = "closed"
      BY <2>5 DEF Fail
    <3>2. QED
      BY <2>5, <3>1 DEF Fail, M!Next, M!Abort
  <2>6. ASSUME NEW p \in Pullers, Dial(p) \/ Reconnect(p) \/ Pull(p)
        PROVE  UNCHANGED M!vars
    <3>1. /\ \A q \in Pullers : puller'[q] = "closed" <=> puller[q] = "closed"
          /\ UNCHANGED <<program, pusher>>
      BY <2>6 DEF Dial, Reconnect, Pull, pusherVars, IInv, TypeOK
    <3>2. QED
      BY <3>1 DEF M!vars
  <2>7. ASSUME NEW p \in Pullers, PullEnd(p) PROVE M!Finish(p)
    <3>1. /\ puller[p] = "pulling" /\ queue[p] # <<>> /\ Head(queue[p]) = End
          /\ puller' = [puller EXCEPT ![p] = "closed"]
          /\ UNCHANGED <<program, pusher>>
      BY <2>7 DEF PullEnd, Receives, EndsAs, pusherVars
    <3>2. ended > 0
      <4>1. queue[p] \in Seq(Messages)
        BY DEF IInv, TypeOK, Messages
      <4>2. End \in Range(queue[p])
        BY <3>1, <4>1, TailFacts
      <4>3. QED
        BY <4>2 DEF IInv, EndsAreLast
    <3>3. pusher = "pushing"
      BY <3>1, <3>2 DEF IInv, Places, AllJoined
    <3>4. {q \in Pullers : puller'[q] = "closed"} = {q \in Pullers : puller[q] = "closed"} \cup {p}
      BY <3>1 DEF IInv, TypeOK
    <3>5. QED
      BY <3>1, <3>3, <3>4 DEF M!Finish
  <2>8. QED
    BY <2>1, <2>2, <2>3, <2>4, <2>5, <2>6, <2>7
       DEF Next, PusherStep, PullerStep, Exit, Kill, Restart, Hang, Leave, M!Next
<1>4. QED
  BY <1>2, <1>3 DEF IInv, TypeOK

\* The timing stops its clock only when every puller has its end message.
THEOREM KeepsTheMeasurement == Spec => PipelineIsMeasurement
<1>1. Init => M!Init
  BY InitMeasures
<1>2. IInv /\ IInv' /\ [Next]_vars => [M!Next]_(M!vars)
  BY MeasurementStep
<1>3. QED
  BY <1>1, <1>2, InductiveInvariant, PTL DEF Spec, PipelineIsMeasurement, M!Spec

------------------------------------------------------------------------------

\* The pullers that have an end message, or had one and are closed.
Told == {p \in Pullers : puller[p] = "closed" \/ End \in Range(queue[p])}

\* No more pullers are told than end messages were pushed; as many, while nng
\* holds but one message for each.
OneEndEach ==
  /\ Cardinality(Told) <= ended
  /\ (QueueBound = 1 /\ pusher # "failed") => Cardinality(Told) = ended

\* In the timing a puller never loses its connection: it closes, or the process ends.
ThreadsEndInTime ==
  program = "pushpull" =>
    \A p \in Pullers : /\ puller[p] # "hung"
                       /\ puller[p] = "pulling" => p \in connected
                       /\ puller[p] = "gone" => pusher = "failed"

\* One more in a finite set.
LEMMA OneMore ==
  ASSUME NEW S, IsFiniteSet(S), NEW x
  PROVE  /\ Cardinality(S \cup {x}) \in Nat
         /\ Cardinality(S \cup {x}) <= Cardinality(S) + 1
         /\ x \notin S => Cardinality(S \cup {x}) = Cardinality(S) + 1
<1>1. Cardinality(S) \in Nat
  BY FS_CardinalityType
<1>2. Cardinality(S \cup {x}) = IF x \in S THEN Cardinality(S) ELSE Cardinality(S) + 1
  BY FS_AddElement
<1>3. CASE x \in S
  <2>1. Cardinality(S \cup {x}) = Cardinality(S)
    BY <1>2, <1>3
  <2>2. QED
    BY <1>1, <1>3, <2>1
<1>4. CASE x \notin S
  <2>1. Cardinality(S \cup {x}) = Cardinality(S) + 1
    BY <1>2, <1>4
  <2>2. QED
    BY <1>1, <1>4, <2>1
<1>5. QED
  BY <1>3, <1>4

\* The pullers that are told can be counted.
LEMMA ToldFacts == IsFiniteSet(Told) /\ Cardinality(Told) \in Nat
<1>1. Told \subseteq Pullers
  BY DEF Told
<1>2. QED
  BY <1>1, PipelineAssumption, FS_Subset, FS_CardinalityType

\* Every end message tells one puller, whichever it is given to.
LEMMA OneEndEachAlways == Spec => []OneEndEach
<1>1. Init => OneEndEach
  <2> SUFFICES ASSUME Init PROVE OneEndEach
    OBVIOUS
  <2>1. Told = {}
    BY EmptyFacts DEF Init, Told
  <2>2. QED
    BY <2>1, FS_EmptySet DEF Init, OneEndEach
<1>2. ASSUME IInv, OneEndEach, [Next]_vars PROVE OneEndEach'
  <2>1. CASE PushEnd
    <3>1. PICK p \in Pullers :
            HasRoom(p) /\ queue' = [queue EXCEPT ![p] = Append(@, End)]
      BY <2>1 DEF PushEnd, Give
    <3>2. UNCHANGED puller /\ ended' = ended + 1
      BY <2>1 DEF PushEnd
    <3>3. queue \in [Pullers -> Seq(Messages)] /\ End \in Messages
      BY <1>2 DEF IInv, TypeOK, Messages
    <3>4. /\ Range(queue'[p]) = Range(queue[p]) \cup {End}
          /\ \A q \in Pullers \ {p} : queue'[q] = queue[q]
      BY <3>1, <3>3, AppendFacts
    <3>5. Told' = Told \cup {p}
      BY <3>2, <3>4 DEF Told
    <3>6. /\ Cardinality(Told') \in Nat
          /\ Cardinality(Told') <= Cardinality(Told) + 1
          /\ p \notin Told => Cardinality(Told') = Cardinality(Told) + 1
      BY <3>5, ToldFacts, OneMore
    <3>7. QueueBound = 1 => p \notin Told
      <4>1. SUFFICES ASSUME QueueBound = 1 PROVE p \notin Told
        OBVIOUS
      <4>2. p \in connected /\ Len(queue[p]) < 1 /\ Len(queue[p]) \in Nat
        BY <3>1, <3>3, <4>1 DEF HasRoom
      <4>3. queue[p] = <<>>
        BY <3>3, <4>2, EmptySeq
      <4>4. puller[p] # "closed"
        BY <1>2, <4>2 DEF IInv, Places
      <4>5. QED
        BY <4>3, <4>4, EmptyFacts DEF Told
    <3>8. ended \in Nat
      BY <1>2, MessageFacts DEF IInv, TypeOK
    <3>9. Cardinality(Told') <= ended'
      BY <1>2, <3>2, <3>6, <3>8, ToldFacts DEF OneEndEach
    <3>10. (QueueBound = 1 /\ pusher' # "failed") => Cardinality(Told') = ended'
      <4>1. pusher' = pusher
        BY <2>1 DEF PushEnd
      <4>2. QED
        BY <1>2, <3>2, <3>6, <3>7, <4>1 DEF OneEndEach
    <3>11. QED
      BY <3>9, <3>10 DEF OneEndEach
  <2>2. ASSUME Told' = Told, ended' = ended, pusher' = "failed" \/ pusher # "failed"
        PROVE  OneEndEach'
    BY <1>2, <2>2 DEF OneEndEach
  <2>3. CASE Push
    <3>1. PICK p \in Pullers : queue' = [queue EXCEPT ![p] = Append(@, Number(sent + 1))]
      BY <2>3 DEF Push, Give
    <3>2. UNCHANGED <<puller, ended>> /\ sent + 1 \in 1 .. NMsg
      BY <1>2, <2>3, PipelineAssumption DEF Push, IInv, TypeOK
    <3>3. Number(sent + 1) \in Messages /\ Number(sent + 1) # End
      BY <1>2, <3>2, MessageFacts DEF IInv, Messages
    <3>4. queue \in [Pullers -> Seq(Messages)]
      BY <1>2 DEF IInv, TypeOK, Messages
    <3>5. /\ Range(queue'[p]) = Range(queue[p]) \cup {Number(sent + 1)}
          /\ \A q \in Pullers \ {p} : queue'[q] = queue[q]
      BY <3>1, <3>3, <3>4, AppendFacts
    <3>6. Told' = Told
      BY <3>2, <3>3, <3>5 DEF Told
    <3>7. QED
      BY <2>2, <2>3, <3>2, <3>6 DEF Push
  <2>4. CASE Plain \/ UNCHANGED vars
    <3>1. /\ UNCHANGED <<ended, queue>>
          /\ \A p \in Pullers : puller'[p] = "closed" <=> puller[p] = "closed"
          /\ pusher' = "failed" \/ pusher # "failed"
      BY <1>2, <2>4 DEF Plain, Listen, StartPushing, JoinAll, Report, Dial, Reconnect, Hang,
           pullerVars, pusherVars, vars, IInv, TypeOK
    <3>2. Told' = Told
      BY <3>1 DEF Told
    <3>3. QED
      BY <2>2, <3>1, <3>2
  <2>5. CASE program' = "push"
    <3>1. program' = "push" /\ ended' = 0 /\ Told' = {}
      BY <2>5, StepKeepsInv, <1>2, MessageFacts DEF IInv, TypeOK, EndsAreLast, Places, Told
    <3>2. QED
      BY <3>1, FS_EmptySet DEF OneEndEach
  <2>6. CASE Fail
    <3>1. /\ ended' = ended
          /\ \A p \in Pullers : puller'[p] = "closed" => puller[p] = "closed"
          /\ pusher' = "failed" /\ \A p \in Pullers : queue'[p] = <<>>
      BY <1>2, <2>6 DEF Fail, IInv, TypeOK
    <3>2. Told' \subseteq Told
      BY <3>1, EmptyFacts DEF Told
    <3>3. Cardinality(Told') <= Cardinality(Told) /\ Cardinality(Told') \in Nat
      BY <3>2, ToldFacts, FS_Subset, FS_CardinalityType
    <3>4. ended \in Nat
      BY <1>2, MessageFacts DEF IInv, TypeOK
    <3>5. QED
      BY <1>2, <3>1, <3>3, <3>4, ToldFacts DEF OneEndEach
  <2>7. ASSUME NEW p \in Pullers, Pull(p) PROVE OneEndEach'
    <3>1. /\ queue[p] # <<>> /\ queue' = [queue EXCEPT ![p] = Tail(@)]
          /\ Head(queue[p]) # End
          /\ UNCHANGED <<pusher, puller, ended>>
      BY <2>7 DEF Pull, Receives, pusherVars
    <3>2. queue \in [Pullers -> Seq(Messages)]
      BY <1>2 DEF IInv, TypeOK, Messages
    <3>3. /\ Range(queue[p]) = Range(queue'[p]) \cup {Head(queue[p])}
          /\ \A q \in Pullers \ {p} : queue'[q] = queue[q]
      BY <3>1, <3>2, TailFacts
    <3>4. Told' = Told
      BY <3>1, <3>3 DEF Told
    <3>5. QED
      BY <2>2, <3>1, <3>4
  <2>8. ASSUME NEW p \in Pullers, PullEnd(p) PROVE OneEndEach'
    <3>1. /\ queue' = [queue EXCEPT ![p] = <<>>] /\ UNCHANGED <<pusher, ended>>
          /\ puller' = [puller EXCEPT ![p] = "closed"]
          /\ queue[p] # <<>> /\ Head(queue[p]) = End
      BY <2>8 DEF PullEnd, EndsAs, Receives, pusherVars
    <3>2. /\ queue \in [Pullers -> Seq(Messages)]
          /\ puller'[p] = "closed"
          /\ \A q \in Pullers \ {p} : queue'[q] = queue[q] /\ puller'[q] = puller[q]
      BY <1>2, <3>1 DEF IInv, TypeOK, Messages
    <3>3. End \in Range(queue[p])
      BY <3>1, <3>2, TailFacts
    <3>4. Told' = Told
      BY <3>2, <3>3 DEF Told
    <3>5. QED
      BY <2>2, <3>1, <3>4
  <2>9. program = "push" => program' = "push"
    BY <1>2 DEF Next, PusherStep, PullerStep, Listen, StartPushing, Push, PushEnd, Exit, JoinAll, Report,
         Kill, Restart, Fail, ProcessGone, Dial, Reconnect, Pull, PullEnd, EndsAs, Hang, Leave, vars
  <2>10. QED
    BY <1>2, <2>1, <2>3, <2>4, <2>5, <2>6, <2>7, <2>8, <2>9
       DEF Next, PusherStep, PullerStep, Plain, Exit, Kill, Restart, Leave
<1>3. QED
  BY <1>1, <1>2, InductiveInvariant, PTL DEF Spec

LEMMA EndInTime == Spec => []ThreadsEndInTime
<1>1. Init => ThreadsEndInTime
  BY DEF Init, ThreadsEndInTime
<1>2. ASSUME IInv, ThreadsEndInTime, [Next]_vars PROVE ThreadsEndInTime'
  <2> SUFFICES ASSUME program' = "pushpull" PROVE ThreadsEndInTime'
    BY DEF ThreadsEndInTime
  <2>1. program = "pushpull"
    BY <1>2 DEF Next, PusherStep, PullerStep, Listen, StartPushing, Push, PushEnd, Exit, JoinAll, Report,
         Kill, Restart, Fail, ProcessGone, Dial, Reconnect, Pull, PullEnd, EndsAs, Hang, Leave, vars
  <2>2. CASE UNCHANGED vars \/ Listen \/ StartPushing \/ Push \/ PushEnd \/ JoinAll \/ Report
    BY <1>2, <2>1, <2>2 DEF ThreadsEndInTime, vars, pullerVars, pusherVars, Listen, StartPushing, Push,
         PushEnd, JoinAll, Report
  <2>3. CASE Fail
    BY <2>3, <1>2 DEF Fail, ThreadsEndInTime, IInv, TypeOK
  <2>4. ASSUME NEW p \in Pullers, Dial(p) \/ Reconnect(p) \/ Pull(p) \/ PullEnd(p)
        PROVE  ThreadsEndInTime'
    BY <1>2, <2>1, <2>4 DEF ThreadsEndInTime, Dial, Reconnect, Pull, PullEnd, EndsAs, pusherVars,
         IInv, TypeOK
  <2>5. QED
    BY <1>2, <2>1, <2>2, <2>3, <2>4 DEF Next, PusherStep, PullerStep, Exit, Kill, Restart, Hang, Leave
<1>3. QED
  BY <1>1, <1>2, InductiveInvariant, PTL DEF Spec

\* Can main or a puller of the timing take a step?  The guards of PusherStep,
\* Dial and PullerStep.
MainCanStep ==
  \/ pusher \in {"opened", "listening", "timed"}
  \/ /\ pusher = "pushing"
     /\ \/ (sent < NMsg \/ EndsDue) /\ \E p \in Pullers : HasRoom(p)
        \/ ended = NPullers /\ AllJoined

CanStep(p) ==
  \/ puller[p] = "new" /\ Listening
  \/ Receives(p)

\* A puller that is not told yet makes room or has room.
LEMMA OneGoesOn ==
  ASSUME IInv, ThreadsEndInTime, program = "pushpull", Listening, NEW p \in Pullers, puller[p] # "closed"
  PROVE  CanStep(p) \/ (puller[p] = "pulling" /\ queue[p] = <<>> /\ HasRoom(p))
<1>1. puller[p] \in {"new", "pulling"}
  BY DEF ThreadsEndInTime, IInv, TypeOK, Listening
<1>2. CASE puller[p] = "new"
  BY <1>2 DEF CanStep
<1>3. CASE puller[p] = "pulling"
  <2>1. p \in connected
    BY <1>3 DEF ThreadsEndInTime
  <2>2. CASE queue[p] = <<>>
    BY <1>3, <2>1, <2>2, PipelineAssumption DEF HasRoom
  <2>3. CASE queue[p] # <<>>
    BY <1>3, <2>3 DEF CanStep, Receives
  <2>4. QED
    BY <2>2, <2>3
<1>4. QED
  BY <1>1, <1>2, <1>3

\* The timing can always go on, with one exception: all end messages are pushed,
\* and one puller got, or took with it, more than one of them, so that another
\* waits for its own, and main for that puller.  It takes an nng that holds more
\* than one message for a puller; and no push blocks for ever.
THEOREM WaitsEnd ==
  Spec => [](program = "pushpull" =>
    \/ pusher \in {"done", "failed"}
    \/ MainCanStep
    \/ \E p \in Pullers : CanStep(p)
    \/ /\ QueueBound > 1 /\ pusher = "pushing" /\ sent = NMsg /\ ended = NPullers
       /\ \E p \in Pullers : puller[p] = "pulling" /\ queue[p] = <<>>)
<1> DEFINE Untold == /\ QueueBound > 1 /\ pusher = "pushing" /\ sent = NMsg /\ ended = NPullers
                     /\ \E p \in Pullers : puller[p] = "pulling" /\ queue[p] = <<>>
<1>1. ASSUME IInv, ThreadsEndInTime, OneEndEach, program = "pushpull",
             pusher \notin {"done", "failed"}, ~MainCanStep, \A p \in Pullers : ~CanStep(p)
      PROVE  Untold
  <2>1. pusher = "pushing" /\ Listening
    BY <1>1 DEF MainCanStep, Listening, IInv, TypeOK, Places
  <2>2. ASSUME NEW p \in Pullers, puller[p] # "closed"
        PROVE  puller[p] = "pulling" /\ queue[p] = <<>> /\ HasRoom(p)
    BY <1>1, <2>1, <2>2, OneGoesOn
  <2>3. sent \in 0 .. NMsg /\ ended \in 0 .. NPullers /\ NMsg \in Nat /\ NPullers \in Nat
    BY <1>1, PipelineAssumption, MessageFacts DEF IInv, TypeOK
  <2>4. ASSUME ended < NPullers PROVE FALSE
    <3>1. Told # Pullers
      BY <1>1, <2>3, <2>4, ToldFacts DEF OneEndEach, NPullers
    <3>2. PICK p \in Pullers : puller[p] # "closed"
      BY <3>1 DEF Told
    <3>3. HasRoom(p)
      BY <2>2, <3>2
    <3>4. sent < NMsg \/ EndsDue
      BY <2>3, <2>4 DEF EndsDue
    <3>5. QED
      BY <1>1, <2>1, <3>3, <3>4 DEF MainCanStep
  <2>5. ended = NPullers /\ ended > 0
    BY <2>3, <2>4, MessageFacts
  <2>6. sent = NMsg
    BY <1>1, <2>5 DEF IInv, EndsAreLast
  <2>7. ~AllJoined
    BY <1>1, <2>1, <2>5 DEF MainCanStep
  <2>8. PICK p \in Pullers : puller[p] = "pulling" /\ queue[p] = <<>>
    BY <2>2, <2>7 DEF AllJoined
  <2>9. QueueBound > 1
    <3>1. ASSUME QueueBound = 1 PROVE FALSE
      <4>1. Cardinality(Told) = Cardinality(Pullers)
        BY <1>1, <2>5, <3>1 DEF OneEndEach, NPullers
      <4>2. Told \subseteq Pullers /\ IsFiniteSet(Pullers)
        BY PipelineAssumption DEF Told
      <4>3. Told = Pullers
        BY <4>1, <4>2, FS_Subset
      <4>4. p \notin Told
        BY <2>8, EmptyFacts DEF Told
      <4>5. QED
        BY <4>3, <4>4
    <3>2. QED
      BY <3>1, PipelineAssumption
  <2>10. QED
    BY <2>1, <2>5, <2>6, <2>8, <2>9
<1>2. IInv /\ ThreadsEndInTime /\ OneEndEach =>
        (program = "pushpull" => \/ pusher \in {"done", "failed"}
                                 \/ MainCanStep
                                 \/ \E p \in Pullers : CanStep(p)
                                 \/ Untold)
  BY <1>1
<1>3. QED
  BY <1>2, InductiveInvariant, EndInTime, OneEndEachAlways, PTL

\* What is left of the timing for main, and for a puller and its end of nng.
OfMain ==
  IF pusher = "opened" THEN NMsg + NPullers + 4 ELSE
  IF pusher = "listening" THEN NMsg + NPullers + 3 ELSE
  IF pusher = "pushing" THEN (NMsg - sent) + (NPullers - ended) + 2 ELSE
  IF pusher = "timed" THEN 1 ELSE 0

PlaceOf(p) ==
  IF puller[p] = "new" THEN 2 ELSE
  IF puller[p] = "pulling" THEN 1 ELSE 0

OfThread(p) == PlaceOf(p) + Len(queue[p])

\* Main has less left, or it has as much and a puller has less.
Fewer ==
  \/ OfMain' < OfMain
  \/ /\ OfMain' = OfMain
     /\ \A p \in Pullers : OfThread(p)' <= OfThread(p)
     /\ \E p \in Pullers : OfThread(p)' < OfThread(p)

\* A step of main, by which it has less left.
LEMMA MainCounts ==
  ASSUME IInv, program = "pushpull", PusherStep \/ Fail PROVE OfMain' < OfMain
<1>1. sent \in 0 .. NMsg /\ NMsg \in Nat /\ ended \in 0 .. NPullers /\ NPullers \in Nat
  BY PipelineAssumption, MessageFacts DEF IInv, TypeOK
<1>2. CASE Listen
  BY <1>1, <1>2 DEF Listen, OfMain
<1>3. CASE StartPushing
  <2>1. sent' = sent /\ ended' = ended
    BY <1>3 DEF StartPushing
  <2>2. QED
    BY <1>1, <1>3, <2>1 DEF StartPushing, OfMain
<1>4. CASE Push
  BY <1>1, <1>4 DEF Push, OfMain
<1>5. CASE PushEnd
  BY <1>1, <1>5 DEF PushEnd, OfMain
<1>6. CASE JoinAll
  BY <1>1, <1>6 DEF JoinAll, OfMain
<1>7. CASE Report
  BY <1>1, <1>7 DEF Report, OfMain
<1>8. CASE Fail
  <2>1. OfMain' = 0
    BY <1>8 DEF Fail, OfMain
  <2>2. OfMain > 0
    BY <1>1, <1>8 DEF Fail, OfMain, IInv, TypeOK, Places
  <2>3. QED
    BY <2>1, <2>2
<1>9. QED
  BY <1>2, <1>3, <1>4, <1>5, <1>6, <1>7, <1>8 DEF PusherStep, Exit

\* A step of a puller, by which it has less left and nobody more.
LEMMA PullerCounts ==
  ASSUME IInv, ThreadsEndInTime, program = "pushpull", NEW p \in Pullers,
         Dial(p) \/ Reconnect(p) \/ PullerStep(p) \/ Hang(p) \/ Leave(p)
  PROVE  Fewer
<1>1. /\ puller \in [Pullers -> {"new", "pulling", "hung", "closed", "gone"}]
      /\ queue \in [Pullers -> Seq(Messages)]
  BY DEF IInv, TypeOK, Messages
<1>2. ASSUME NEW t \in Pullers
      PROVE  Len(queue[t]) \in Nat /\ PlaceOf(t) \in Nat /\ OfThread(t) \in Nat
  BY <1>1 DEF PlaceOf, OfThread
<1>3. OfMain' = OfMain
  BY DEF Dial, Reconnect, PullerStep, Pull, PullEnd, EndsAs, Hang, Leave, OfMain, pusherVars
<1>4. ASSUME NEW t \in Pullers, t # p PROVE OfThread(t)' = OfThread(t)
  <2>1. puller'[t] = puller[t]
    BY <1>1, <1>4 DEF Dial, Reconnect, PullerStep, Pull, PullEnd, EndsAs, Hang, Leave
  <2>2. queue'[t] = queue[t]
    BY <1>1, <1>4 DEF Dial, Reconnect, PullerStep, Pull, PullEnd, EndsAs, Hang, Leave
  <2>3. QED
    BY <2>1, <2>2 DEF OfThread, PlaceOf
<1>5. \E d \in Nat \ {0} : OfThread(p)' = OfThread(p) - d
  <2>1. CASE Dial(p)
    <3>1. queue'[p] = queue[p] /\ puller[p] = "new" /\ puller'[p] \in {"pulling", "gone"}
      BY <1>1, <2>1 DEF Dial
    <3>2. PlaceOf(p) = 2 /\ (PlaceOf(p)' = 1 \/ PlaceOf(p)' = 0)
      BY <3>1 DEF PlaceOf
    <3>3. OfThread(p)' = OfThread(p) - 1 \/ OfThread(p)' = OfThread(p) - 2
      BY <1>2, <3>1, <3>2 DEF OfThread
    <3>4. QED
      BY <3>3
  <2>2. CASE Reconnect(p) \/ Hang(p) \/ Leave(p)
    BY <2>2 DEF Reconnect, Hang, Leave, ThreadsEndInTime
  <2>3. CASE Pull(p)
    <3>1. queue[p] # <<>> /\ queue'[p] = Tail(queue[p]) /\ puller'[p] = puller[p]
      BY <1>1, <2>3 DEF Pull, Receives
    <3>2. Len(queue'[p]) = Len(queue[p]) - 1
      BY <1>1, <3>1, HeadTailProperties
    <3>3. PlaceOf(p)' = PlaceOf(p)
      BY <3>1 DEF PlaceOf
    <3>4. OfThread(p)' = OfThread(p) - 1
      BY <1>2, <3>2, <3>3 DEF OfThread
    <3>5. QED
      BY <3>4
  <2>4. CASE PullEnd(p)
    <3>1. /\ puller[p] = "pulling" /\ puller'[p] = "closed"
          /\ queue'[p] = <<>>
      BY <1>1, <2>4 DEF PullEnd, Receives, EndsAs
    <3>2. PlaceOf(p) = 1 /\ PlaceOf(p)' = 0 /\ Len(queue'[p]) = 0
      BY <3>1 DEF PlaceOf
    <3>3. OfThread(p)' = 0 /\ OfThread(p) = 1 + Len(queue[p])
      BY <1>2, <3>2 DEF OfThread
    <3>4. OfThread(p)' = OfThread(p) - (1 + Len(queue[p])) /\ 1 + Len(queue[p]) \in Nat \ {0}
      BY <1>2, <3>3
    <3>5. QED
      BY <3>4
  <2>5. QED
    BY <2>1, <2>2, <2>3, <2>4 DEF PullerStep
<1>6. OfThread(p)' < OfThread(p)
  <2>1. PICK d \in Nat \ {0} : OfThread(p)' = OfThread(p) - d
    BY <1>5
  <2>2. QED
    BY <1>2, <2>1
<1>7. ASSUME NEW t \in Pullers PROVE OfThread(t)' <= OfThread(t)
  <2>1. CASE t = p
    <3>1. PICK d \in Nat \ {0} : OfThread(p)' = OfThread(p) - d
      BY <1>5
    <3>2. QED
      BY <1>2, <2>1, <3>1
  <2>2. CASE t # p
    BY <1>2, <1>4, <2>2
  <2>3. QED
    BY <2>1, <2>2
<1>8. QED
  BY <1>3, <1>6, <1>7 DEF Fewer

\* The timing comes to rest: every step leaves less to do, in an order with no
\* endless descent (main first, then puller by puller), whichever pullers get
\* the messages and whatever fails.
THEOREM ComesToRest ==
  Spec => /\ [](/\ OfMain \in 0 .. NMsg + NPullers + 4
                /\ \A p \in Pullers : OfThread(p) \in Nat)
          /\ [][program = "pushpull" => Fewer]_vars
<1>1. IInv => /\ OfMain \in 0 .. NMsg + NPullers + 4
              /\ \A p \in Pullers : OfThread(p) \in Nat
  <2>1. ASSUME IInv PROVE OfMain \in 0 .. NMsg + NPullers + 4
    BY <2>1, PipelineAssumption, MessageFacts DEF IInv, TypeOK, OfMain
  <2>2. ASSUME IInv, NEW p \in Pullers PROVE OfThread(p) \in Nat
    BY <2>2 DEF IInv, TypeOK, OfThread, PlaceOf
  <2>3. QED
    BY <2>1, <2>2
<1>2. IInv /\ ThreadsEndInTime /\ [Next]_vars => [program = "pushpull" => Fewer]_vars
  <2>1. ASSUME IInv, ThreadsEndInTime, Next, program = "pushpull" PROVE Fewer
    <3>1. CASE PusherStep \/ Fail
      BY <2>1, <3>1, MainCounts DEF Fewer
    <3>2. CASE Kill \/ Restart
      BY <2>1, <3>2 DEF Kill, Restart
    <3>3. ASSUME NEW p \in Pullers,
                 Dial(p) \/ Reconnect(p) \/ PullerStep(p) \/ Hang(p) \/ Leave(p)
          PROVE  Fewer
      BY <2>1, <3>3, PullerCounts
    <3>4. QED
      BY <2>1, <3>1, <3>2, <3>3 DEF Next
  <2>2. QED
    BY <2>1
<1>3. QED
  BY <1>1, <1>2, InductiveInvariant, EndInTime, PTL DEF Spec

==============================================================================
