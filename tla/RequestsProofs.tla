---------------------------- MODULE RequestsProofs ----------------------------
(***************************************************************************)
(* What holds of reply.cpp and req.cpp for any number of clients and of    *)
(* starts of the server: a server that answers within a minute processes   *)
(* nobody's request twice.                                                 *)
(***************************************************************************)
EXTENDS Requests, FiniteSetTheorems, TLAPS

\* Every variable has its type.
TypeOK ==
  /\ prompt \in BOOLEAN
  /\ server \in {"down", "serving", "replying", "stopping"}
  /\ starts \in Nat
  /\ asker \subseteq Clients
  /\ client \in [Clients -> {"new", "dialed", "asked", "answered", "gone"}]
  /\ connected \subseteq Clients
  /\ requests \subseteq Clients
  /\ replies \subseteq Clients
  /\ executed \in [Clients -> Nat]

\* The server has at most one request, and that only while it replies.
OneAsker ==
  /\ server # "replying" => asker = {}
  /\ \A c, d \in asker : c = d

\* Where the request of c may be, and what the server has done about it.
InStep(c) ==
  /\ c \in requests => c \in connected
  /\ c \in requests => c \notin asker
  /\ c \in requests \cup asker => executed[c] = 0
  /\ executed[c] <= 1
  /\ client[c] \in {"new", "dialed"} => (executed[c] = 0 /\ c \notin requests \cup asker)
  /\ (Up /\ c \notin connected /\ client[c] = "asked") => (executed[c] = 0 /\ c \notin asker)

IInv == TypeOK /\ OneAsker /\ (prompt => \A c \in Clients : InStep(c))

\* The initial states satisfy the invariant.
LEMMA InitInv == Init => IInv
  BY DEF Init, IInv, TypeOK, OneAsker, InStep, Up

\* The end of the server leaves nothing of its own behind.
LEMMA ServerGoneKeepsInv == IInv /\ ServerGone => IInv'
  BY DEF ServerGone, IInv, TypeOK, OneAsker, InStep, Up

\* What the server does keeps the invariant.
LEMMA ServerKeepsInv == IInv /\ (Start \/ Kill \/ ServerStep) => IInv'
<1> SUFFICES ASSUME IInv, Start \/ Kill \/ ServerStep PROVE IInv'
  OBVIOUS
<1>1. CASE Start
  BY <1>1 DEF Start, linkVars, IInv, TypeOK, OneAsker, InStep, Up
<1>2. CASE Kill \/ Stop
  BY <1>2, ServerGoneKeepsInv DEF Kill, Stop
<1>3. CASE GetRequest
  BY <1>3 DEF GetRequest, Remaining, IInv, TypeOK, OneAsker, InStep, Up
<1>4. CASE ProcessRequest
  <2>1. TypeOK' /\ OneAsker'
    BY <1>4 DEF ProcessRequest, IInv, TypeOK, OneAsker
  <2>2. ASSUME prompt, NEW c \in Clients PROVE InStep(c)'
    <3>1. InStep(c)
      BY <2>2 DEF IInv
    <3>2. CASE c \in asker
      BY <1>4, <3>1, <3>2 DEF ProcessRequest, IInv, TypeOK, InStep, Up
    <3>3. CASE c \notin asker
      BY <1>4, <3>1, <3>3 DEF ProcessRequest, IInv, TypeOK, InStep, Up
    <3>4. QED
      BY <3>2, <3>3
  <2>3. QED
    BY <1>4, <2>1, <2>2 DEF ProcessRequest, IInv
<1>5. QED
  BY <1>1, <1>2, <1>3, <1>4 DEF ServerStep

\* What a client does, or nng for it, keeps the invariant.
LEMMA ClientKeepsInv ==
  ASSUME NEW c \in Clients, IInv, Dial(c) \/ ClientStep(c) \/ Resend(c) \/ Leave(c)
  PROVE  IInv'
<1> USE DEF serverVars, IInv, TypeOK, OneAsker, InStep, Up
<1>1. CASE Dial(c)
  BY <1>1 DEF Dial
<1>2. CASE Ask(c)
  BY <1>2 DEF Ask
<1>3. CASE Reconnect(c)
  BY <1>3 DEF Reconnect, SentAgain
<1>4. CASE Resend(c)
  BY <1>4 DEF Resend
<1>5. CASE GetReply(c)
  BY <1>5 DEF GetReply, Disconnect
<1>6. CASE Leave(c)
  BY <1>6 DEF Leave, Disconnect
<1>7. QED
  BY <1>1, <1>2, <1>3, <1>4, <1>5, <1>6 DEF ClientStep

\* The inductive invariant of reply.cpp and req.cpp.
THEOREM InductiveInvariant == Spec => []IInv
<1>1. IInv /\ [Next]_vars => IInv'
  <2>1. CASE Next
    BY <2>1, ServerKeepsInv, ClientKeepsInv DEF Next
  <2>2. CASE UNCHANGED vars
    BY <2>2 DEF vars, serverVars, linkVars, IInv, TypeOK, OneAsker, InStep, Up
  <2>3. QED
    BY <2>1, <2>2
<1>2. QED
  BY InitInv, <1>1, PTL DEF Spec

\* A server that answers within a minute processes the request of a client at
\* most once (reply.cpp:100-112), however often nng sends it again.
THEOREM ProcessedOnce == Spec => []OncePerServer
<1>1. IInv => OncePerServer
  <2> SUFFICES ASSUME IInv, prompt, NEW c \in Clients
               PROVE  executed[c] + Cardinality({c} \cap (requests \cup asker)) <= 1
    BY DEF OncePerServer
  <2>1. InStep(c) /\ executed[c] \in Nat
    BY DEF IInv, TypeOK
  <2>2. CASE c \in requests \cup asker
    <3>1. {c} \cap (requests \cup asker) = {c}
      BY <2>2
    <3>2. Cardinality({c} \cap (requests \cup asker)) = 1
      BY <3>1, FS_Singleton
    <3>3. executed[c] = 0
      BY <2>1, <2>2 DEF InStep
    <3>4. QED
      BY <3>2, <3>3
  <2>3. CASE c \notin requests \cup asker
    <3>1. {c} \cap (requests \cup asker) = {}
      BY <2>3
    <3>2. Cardinality({c} \cap (requests \cup asker)) = 0
      BY <3>1, FS_EmptySet
    <3>3. executed[c] <= 1
      BY <2>1 DEF InStep
    <3>4. QED
      BY <2>1, <3>2, <3>3
  <2>4. QED
    BY <2>2, <2>3
<1>2. QED
  BY <1>1, InductiveInvariant, PTL

==============================================================================
