------------------------------- MODULE Requests -------------------------------
(***************************************************************************)
(* The request/reply sample: reply.cpp, the server, and req.cpp, a client  *)
(* that makes one request and exits.  STOP ends the server; the user may   *)
(* start it again.  A request whose connection goes away before its reply  *)
(* came is sent again by nng, once there is a server to send it to.        *)
(***************************************************************************)
EXTENDS Integers, FiniteSets

CONSTANTS
  Clients,
  Stoppers,     \* the clients that request STOP; DATE, PID and others are alike
  MaxStarts     \* how often the user starts the server

ASSUME RequestsAssumption ==
  /\ IsFiniteSet(Clients)
  /\ Stoppers \subseteq Clients
  /\ MaxStarts \in Nat

VARIABLES
  prompt,       \* is a request always answered within a minute, after which nng
                \* sends it again?  The code leaves this default as it is.
  server,       \* "down", "serving", "replying" or, after STOP, "stopping"
  starts,       \* how often the server was started
  asker,        \* the clients whose request the server has got and not answered
  client,       \* "new", "dialed", "asked", "answered" or "gone"
  connected,    \* the clients that have a connection to the server
  requests,     \* the clients whose request nng holds for the server
  replies,      \* the clients for whom nng holds a reply
  executed      \* how often this server has processed the request of each client,
                \* up to twice

serverVars == <<server, starts, asker>>
linkVars == <<connected, requests, replies>>
vars == <<prompt, serverVars, client, linkVars, executed>>

Init ==
  /\ prompt \in BOOLEAN
  /\ server = "down"
  /\ starts = 0
  /\ asker = {}
  /\ client = [c \in Clients |-> "new"]
  /\ connected = {}
  /\ requests = {}
  /\ replies = {}
  /\ executed = [c \in Clients |-> 0]

Up == server # "down"

\* A client process ends, and its connection with it.
Disconnect(c) ==
  /\ connected' = connected \ {c}
  /\ requests' = requests \ {c}
  /\ replies' = replies \ {c}

\* The server process ends.  Nothing is flushed: a reply that nng has taken may
\* have left the process, or not.
ServerGone ==
  /\ server' = "down"
  /\ asker' = {}
  /\ connected' = {}
  /\ requests' = {}
  /\ replies' \in SUBSET replies
  /\ UNCHANGED <<prompt, starts, client, executed>>

------------------------------------------------------------------------------

Start ==
  /\ server = "down"
  /\ starts < MaxStarts
  /\ server' = "serving"
  /\ starts' = starts + 1
  /\ executed' = [c \in Clients |-> 0]
  /\ UNCHANGED <<prompt, asker, client, linkVars>>

Remaining(c) == requests \ {c}

GetRequest ==
  /\ server = "serving"
  /\ \E c \in requests :
       /\ asker' = {c}
       /\ requests' = Remaining(c)
  /\ server' = "replying"
  /\ UNCHANGED <<prompt, starts, client, connected, replies, executed>>

\* Mutated form of ProcessRequest: the receive is outside of the server's loop.
ProcessAgain ==
  /\ server = "replying"
  /\ executed' = [c \in Clients |-> IF c \in asker THEN 2 ELSE executed[c]]
  /\ replies' = replies \cup (asker \cap connected)
  /\ UNCHANGED <<prompt, server, starts, asker, client, connected, requests>>

\* processRequest: the reply goes to the connection that the request came from,
\* and to nobody if it is gone.
ProcessRequest ==
  /\ server = "replying"
  /\ executed' = [c \in Clients |->
                    IF c \in asker /\ executed[c] < 2 THEN executed[c] + 1 ELSE executed[c]]
  /\ replies' = replies \cup (asker \cap connected)
  /\ asker' = {}
  /\ server' = IF asker \cap Stoppers # {} THEN "stopping" ELSE "serving"
  /\ UNCHANGED <<prompt, starts, client, connected, requests>>

Stop ==
  /\ server = "stopping"
  /\ ServerGone

\* Control-C, or a call of nng that fails.
Kill ==
  /\ server \in {"serving", "replying"}
  /\ ServerGone

------------------------------------------------------------------------------

\* A client whose dial is refused exits.
Dial(c) ==
  /\ client[c] = "new"
  /\ client' = [client EXCEPT ![c] = IF Up THEN "dialed" ELSE "gone"]
  /\ connected' = IF Up THEN connected \cup {c} ELSE connected
  /\ UNCHANGED <<prompt, serverVars, requests, replies, executed>>

\* nng_sendmsg on a req socket waits for a connection.
Ask(c) ==
  /\ client[c] = "dialed"
  /\ c \in connected
  /\ client' = [client EXCEPT ![c] = "asked"]
  /\ requests' = requests \cup {c}
  /\ UNCHANGED <<prompt, serverVars, connected, replies, executed>>

SentAgain(c) == IF client[c] = "asked" THEN {c} ELSE {}

\* nng connects again in the background, and sends the request again.
Reconnect(c) ==
  /\ Up
  /\ client[c] \in {"dialed", "asked"}
  /\ c \notin connected \cup replies
  /\ connected' = connected \cup {c}
  /\ requests' = requests \cup SentAgain(c)
  /\ UNCHANGED <<prompt, serverVars, client, replies, executed>>

\* nng sends a request again that was not answered for a minute.
Resend(c) ==
  /\ ~prompt
  /\ client[c] = "asked"
  /\ c \in connected
  /\ c \notin requests
  /\ requests' = requests \cup {c}
  /\ UNCHANGED <<prompt, serverVars, client, connected, replies, executed>>

GetReply(c) ==
  /\ client[c] = "asked"
  /\ c \in replies
  /\ client' = [client EXCEPT ![c] = "answered"]
  /\ Disconnect(c)
  /\ UNCHANGED <<prompt, serverVars, executed>>

\* Control-C, or a call of nng that fails.
Leave(c) ==
  /\ client[c] \in {"dialed", "asked"}
  /\ client' = [client EXCEPT ![c] = "gone"]
  /\ Disconnect(c)
  /\ UNCHANGED <<prompt, serverVars, executed>>

ServerStep == GetRequest \/ ProcessRequest \/ Stop

ClientStep(c) == Ask(c) \/ Reconnect(c) \/ GetReply(c)

Next ==
  \/ Start
  \/ Kill
  \/ ServerStep
  \/ \E c \in Clients : Dial(c) \/ ClientStep(c) \/ Resend(c) \/ Leave(c)

\* What runs, runs on, and nng tries to connect for ever.  Nobody has to start
\* the server or a client, and nothing has to fail.
Fairness ==
  /\ WF_vars(ServerStep)
  /\ \A c \in Clients : WF_vars(ClientStep(c))

Spec == Init /\ [][Next]_vars /\ Fairness

------------------------------------------------------------------------------

\* A server that answers within a minute processes the request of a client at
\* most once: nng sends a request again only to a server that has not processed
\* it.  That the next server processes it too is what happens to a STOP whose
\* reply was lost.
OncePerServer ==
  prompt =>
    \A c \in Clients : executed[c] + Cardinality({c} \cap (requests \cup asker)) <= 1

\* Who has asked is answered by a server that runs on, whichever of several
\* starts it is and whatever the ones before have lost.
RequestsAreAnswered ==
  \A c \in Clients : <>[](server \in {"serving", "replying"}) =>
                     (client[c] = "asked" ~> client[c] \in {"answered", "gone"})

==============================================================================
