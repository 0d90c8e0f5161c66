----------------------------- MODULE MessageBody -----------------------------
(***************************************************************************)
(* How the samples put a text into the body of a message and read it back. *)
(* All of them allocate a body and then insert the bytes in front of what  *)
(* was allocated, and all read the body as a C string.  The surveyor alone *)
(* inserts no terminating NUL.                                             *)
(***************************************************************************)
EXTENDS Integers, Sequences

NUL == "NUL"
Junk == "Junk"     \* what may happen to follow a body in memory

\* nng_msg_alloc: a body of l bytes, all zero.
Alloc(l) == [k \in 1 .. l |-> NUL]

\* nng_msg_insert: the bytes go in front of the body.
Insert(bytes, body) == bytes \o body

\* Mutated form of SurveyBody: the body is allocated empty, since the insert
\* makes it as long as it has to be.
TightBody(text) == Insert(text, Alloc(0))

\* send of the surveyor: l = strlen(msg) bytes are allocated and inserted.
SurveyBody(text) == Insert(text, Alloc(Len(text)))

\* The senders of the other samples: l = size() + 1.
TextBody(text) == Insert(Append(text, NUL), Alloc(Len(text) + 1))

\* The bytes before the first NUL, or all if there is none.
UpToNUL(body) ==
  SubSeq(body, 1, CHOOSE n \in 0 .. Len(body) :
                    /\ \A k \in 1 .. n : body[k] # NUL
                    /\ n < Len(body) => body[n + 1] = NUL)

\* What (const char*)(nng_msg_body(pMsg)) may read as: without a NUL in the body
\* it depends on the memory behind it.
Readings(body) ==
  IF \E k \in 1 .. Len(body) : body[k] = NUL
  THEN {UpToNUL(body)}
  ELSE {body, Append(body, Junk)}

==============================================================================
