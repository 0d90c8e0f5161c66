----------------------------- MODULE SurveyProofs -----------------------------
(***************************************************************************)
(* What holds of surveyor.cpp and respondent.cpp for any number of         *)
(* respondents, surveys and runs: what is read is what was written, and a  *)
(* response is printed once, under the survey it answers; and what the     *)
(* texts of all samples read as (MessageBody).                             *)
(***************************************************************************)
EXTENDS Survey, SequenceTheorems, TLAPS

------------------------------------------------------------------------------

\* A body that begins with the text and goes on with a NUL reads as the text.
LEMMA ReadsUpToNUL ==
  ASSUME NEW Chars, NUL \notin Chars, NEW text \in Seq(Chars),
         NEW body \in Seq(Chars \cup {NUL}),
         Len(body) > Len(text),
         \A k \in 1 .. Len(text) : body[k] = text[k],
         body[Len(text) + 1] = NUL
  PROVE  Readings(body) = {text}
<1> DEFINE Cut(n) == /\ \A k \in 1 .. n : body[k] # NUL
                     /\ n < Len(body) => body[n + 1] = NUL
           n0 == CHOOSE n \in 0 .. Len(body) : Cut(n)
<1>1. Len(text) \in 0 .. Len(body) /\ Cut(Len(text))
  <2>1. \A k \in 1 .. Len(text) : text[k] \in Chars
    OBVIOUS
  <2>2. \A k \in 1 .. Len(text) : body[k] # NUL
    BY <2>1
  <2> QED
    BY <2>2
<1>2. n0 \in 0 .. Len(body) /\ Cut(n0)
  <2> HIDE DEF Cut
  <2> QED
    BY <1>1
<1>3. n0 = Len(text)
  <2>1. /\ n0 \in 0 .. Len(body)
        /\ \A k \in 1 .. n0 : body[k] # NUL
        /\ n0 < Len(body) => body[n0 + 1] = NUL
    BY <1>2
  <2>2. Len(text) \in Nat /\ Len(body) \in Nat
    OBVIOUS
  <2> HIDE DEF n0
  <2>3. n0 < Len(text) => FALSE
    <3>1. SUFFICES ASSUME n0 < Len(text) PROVE FALSE
      OBVIOUS
    <3>2. n0 + 1 \in 1 .. Len(text)
      BY <2>1, <2>2, <3>1
    <3>3. body[n0 + 1] # NUL
      BY <1>1, <3>2
    <3> QED
      BY <2>1, <2>2, <3>1, <3>3
  <2>4. n0 > Len(text) => FALSE
    BY <2>1, <2>2
  <2> QED
    BY <2>1, <2>2, <2>3, <2>4
<1>4. UpToNUL(body) = SubSeq(body, 1, Len(text))
  BY <1>3 DEF UpToNUL
<1>5. SubSeq(body, 1, Len(text)) = text
  OBVIOUS
<1>6. Len(text) + 1 \in 1 .. Len(body)
  OBVIOUS
<1> QED
  BY <1>4, <1>5, <1>6 DEF Readings

\* A respondent reads the text of a survey although the surveyor does not
\* terminate it: the allocated half of the body does.
THEOREM SurveyTextIsRead ==
  ASSUME NEW Chars, NUL \notin Chars, NEW text \in Seq(Chars), text # <<>>
  PROVE  Readings(SurveyBody(text)) = {text}
<1>1. Alloc(Len(text)) \in Seq({NUL}) /\ Len(Alloc(Len(text))) = Len(text)
  BY DEF Alloc
<1>2. /\ SurveyBody(text) \in Seq(Chars \cup {NUL})
      /\ Len(SurveyBody(text)) = Len(text) + Len(text)
      /\ \A k \in 1 .. Len(text) : SurveyBody(text)[k] = text[k]
  BY <1>1 DEF SurveyBody, Insert
<1>3. SurveyBody(text)[Len(text) + 1] = NUL
  BY <1>1 DEF SurveyBody, Insert, Alloc
<1>4. Len(SurveyBody(text)) > Len(text)
  BY <1>2
<1> QED
  BY <1>2, <1>3, <1>4, ReadsUpToNUL

\* What the other samples send is read as it was written, the empty text too.
THEOREM TextIsRead ==
  ASSUME NEW Chars, NUL \notin Chars, NEW text \in Seq(Chars)
  PROVE  Readings(TextBody(text)) = {text}
<1>1. Alloc(Len(text) + 1) \in Seq({NUL}) /\ Len(Alloc(Len(text) + 1)) = Len(text) + 1
  BY DEF Alloc
<1> DEFINE bytes == Append(text, NUL)
<1>2. /\ bytes \in Seq(Chars \cup {NUL})
      /\ Len(bytes) = Len(text) + 1
      /\ \A k \in 1 .. Len(text) : bytes[k] = text[k]
      /\ bytes[Len(text) + 1] = NUL
  OBVIOUS
<1>3. /\ TextBody(text) \in Seq(Chars \cup {NUL})
      /\ Len(TextBody(text)) > Len(text)
      /\ \A k \in 1 .. Len(text) : TextBody(text)[k] = text[k]
      /\ TextBody(text)[Len(text) + 1] = NUL
  <2> HIDE DEF bytes
  <2>1. TextBody(text) = bytes \o Alloc(Len(text) + 1)
    BY DEF TextBody, Insert, bytes
  <2> QED
    BY <1>1, <1>2, <2>1
<1> QED
  BY <1>3, ReadsUpToNUL

------------------------------------------------------------------------------

\* No element comes twice.
Once(q) == \A a, b \in DOMAIN q : q[a] = q[b] => a = b

\* Is survey n, or the response of r to it, still on its way?
OnItsWay(r, n) ==
  \/ n \in Range(inbox[r]) \cup Range(answers[r])
  \/ respondent[r] = "answering" /\ answering[r] = n

\* What is under way, or was received, is no newer than the last survey.
OnlyWhatWasSent ==
  \A r \in Respondents :
    /\ \A n \in Range(inbox[r]) \cup Range(answers[r]) : n <= Number(i)
    /\ answering[r] <= Number(i)
    /\ respondent[r] = "new" => answering[r] = NoSurvey

\* A survey and the response to it are in one place.
OnePlace ==
  \A r \in Respondents :
    /\ Once(inbox[r]) /\ Once(answers[r])
    /\ Range(inbox[r]) \cap Range(answers[r]) = {}
    /\ respondent[r] = "answering" => answering[r] \notin Range(inbox[r]) \cup Range(answers[r])

\* Only who belongs to the audience answers.
FromAudience ==
  \A r \in Respondents :
    /\ \A n \in Range(answers[r]) : r \in Audience(n)
    /\ respondent[r] = "answering" => (answering[r] \in Surveys /\ r \in Audience(answering[r]))

\* The survey that is outstanding is the last one sent, while main receives.
Lifetime ==
  /\ outstanding # NoSurvey =>
       (i >= 1 /\ outstanding = Number(i) /\ surveyor \in {"busy", "blocked"})
  /\ outstanding = NoSurvey => arrived = <<>>
  /\ surveyor = "blocked" => arrived = <<>>

\* Who has answered the last survey does not answer it again.
AnsweredOnce ==
  /\ Once(arrived)
  /\ \A r \in Range(arrived) :
       printed[r] = 0 /\ r \in Audience(Number(i)) /\ ~OnItsWay(r, Number(i))
  /\ \A r \in Respondents : printed[r] # 0 =>
       printed[r] = 1 /\ r \in Audience(Number(i)) /\ ~OnItsWay(r, Number(i))

\* The response to the outstanding survey goes back over the connection by which
\* the survey came, and is not lost while the respondent lives.
NothingIsLost ==
  outstanding # NoSurvey =>
    \A r \in Respondents : Dialed(r) =>
      /\ outstanding \in Range(inbox[r]) \cup {answering[r]} => r \in connected
      /\ (answering[r] = outstanding /\ r \in Audience(outstanding)) =>
           \/ OnItsWay(r, outstanding)
           \/ r \in Range(arrived)
           \/ printed[r] = 1

IInv ==
  /\ TypeOK
  /\ OnlyWhatWasSent
  /\ OnePlace
  /\ FromAudience
  /\ Lifetime
  /\ AnsweredOnce
  /\ NothingIsLost

------------------------------------------------------------------------------

\* A message added to a queue.
LEMMA AppendFacts ==
  ASSUME NEW S, NEW q \in Seq(S), NEW m \in S
  PROVE  /\ Append(q, m) \in Seq(S)
         /\ Range(Append(q, m)) = Range(q) \cup {m}
         /\ (Once(q) /\ m \notin Range(q)) => Once(Append(q, m))
<1>1. /\ Append(q, m) \in Seq(S)
      /\ DOMAIN q = 1 .. Len(q) /\ Len(q) \in Nat
      /\ DOMAIN Append(q, m) = 1 .. Len(q) + 1
      /\ \A a \in 1 .. Len(q) : Append(q, m)[a] = q[a]
      /\ Append(q, m)[Len(q) + 1] = m
  BY AppendProperties
<1>2. Range(Append(q, m)) = Range(q) \cup {m}
  BY <1>1 DEF Range
<1>3. ASSUME Once(q), m \notin Range(q) PROVE Once(Append(q, m))
  <2>1. \A a \in 1 .. Len(q) : q[a] # m
    BY <1>1, <1>3 DEF Range
  <2>2. QED
    BY <1>1, <1>3, <2>1 DEF Once
<1>4. QED
  BY <1>1, <1>2, <1>3

\* The first message taken from a queue.
LEMMA TailFacts ==
  ASSUME NEW S, NEW q \in Seq(S), q # <<>>
  PROVE  /\ Tail(q) \in Seq(S)
         /\ Head(q) \in S
         /\ Range(q) = Range(Tail(q)) \cup {Head(q)}
         /\ Once(q) => (Once(Tail(q)) /\ Head(q) \notin Range(Tail(q)))
<1>1. /\ DOMAIN q = 1 .. Len(q) /\ Len(q) \in Nat \ {0}
      /\ Tail(q) \in Seq(S)
      /\ DOMAIN Tail(q) = 1 .. Len(q) - 1
      /\ \A a \in 1 .. Len(q) - 1 : Tail(q)[a] = q[a + 1]
      /\ Head(q) = q[1] /\ q[1] \in S
  BY HeadTailProperties, EmptySeq
<1>2. Range(q) = Range(Tail(q)) \cup {Head(q)}
  <2>1. ASSUME NEW a \in 1 .. Len(q) PROVE q[a] \in Range(Tail(q)) \cup {Head(q)}
    <3>1. CASE a = 1
      BY <1>1, <3>1
    <3>2. CASE a - 1 \in 1 .. Len(q) - 1
      <4>1. Tail(q)[a - 1] = q[a]
        BY <1>1, <3>2
      <4>2. QED
        BY <1>1, <3>2, <4>1 DEF Range
    <3>3. QED
      BY <1>1, <3>1, <3>2
  <2>2. Head(q) \in Range(q) /\ Range(Tail(q)) \subseteq Range(q)
    BY <1>1 DEF Range
  <2>3. QED
    BY <1>1, <2>1, <2>2 DEF Range
<1>3. ASSUME Once(q) PROVE Once(Tail(q)) /\ Head(q) \notin Range(Tail(q))
  <2>1. \A a \in 1 .. Len(q) - 1 : a + 1 \in DOMAIN q /\ 1 \in DOMAIN q /\ a + 1 # 1
    BY <1>1
  <2>2. Head(q) \notin Range(Tail(q))
    BY <1>1, <1>3, <2>1 DEF Once, Range
  <2>3. Once(Tail(q))
    BY <1>1, <1>3, <2>1 DEF Once
  <2>4. QED
    BY <2>2, <2>3
<1>4. QED
  BY <1>1, <1>2, <1>3

\* What is left of a queue of which the newest messages are lost.
LEMMA PrefixFacts ==
  ASSUME NEW S, NEW q \in Seq(S), NEW p \in Prefixes(q)
  PROVE  /\ p \in Seq(S)
         /\ Range(p) \subseteq Range(q)
         /\ Once(q) => Once(p)
<1>1. PICK l \in 0 .. Len(q) : p = SubSeq(q, 1, l)
  BY DEF Prefixes
<1>2. /\ p \in Seq(S) /\ DOMAIN p = 1 .. l
      /\ \A a \in 1 .. l : p[a] = q[a]
      /\ 1 .. l \subseteq DOMAIN q
  BY <1>1
<1>3. QED
  BY <1>2 DEF Once, Range

\* An empty queue.
LEMMA EmptyFacts ==
  /\ \A S : <<>> \in Seq(S)
  /\ Range(<<>>) = {}
  /\ Once(<<>>)
  BY DEF Range, Once

------------------------------------------------------------------------------

\* Surveys are numbered on from run to run.
LEMMA NumberFacts ==
  ASSUME TypeOK
  PROVE  /\ Surveys \subseteq Nat \ {NoSurvey}
         /\ Number(i) \in Nat /\ Number(0) \in Nat
         /\ Number(0) + i = Number(i)
         /\ Number(i + 1) = Number(i) + 1
         /\ i < MaxSurveys => Number(i + 1) \in Surveys
         /\ Number(i) <= run * MaxSurveys
<1>1. /\ run \in 1 .. MaxRuns /\ i \in 0 .. MaxSurveys
      /\ MaxRuns \in Nat \ {0} /\ MaxSurveys \in Nat \ {0}
  BY SurveyAssumption DEF TypeOK
<1>2. (run - 1) * MaxSurveys \in Nat /\ run * MaxSurveys = (run - 1) * MaxSurveys + MaxSurveys
  BY <1>1
<1>3. run * MaxSurveys <= MaxRuns * MaxSurveys /\ MaxRuns * MaxSurveys \in Nat
  BY <1>1
<1> DEFINE before == (run - 1) * MaxSurveys
           now == run * MaxSurveys
           all == MaxRuns * MaxSurveys
<1>4. /\ before \in Nat /\ now = before + MaxSurveys /\ now <= all /\ all \in Nat
      /\ Surveys = 1 .. all
      /\ \A n : Number(n) = before + n
  BY <1>2, <1>3 DEF Surveys, Number
<1> HIDE DEF before, all
<1>5. QED
  BY <1>1, <1>4 DEF NoSurvey

\* A survey is one of the three, and its audience is who responds to it.
LEMMA TextFacts ==
  ASSUME NEW n \in Surveys
  PROVE  /\ Text(n) \in {ALL, EVEN, ODD}
         /\ \A r \in Respondents : Responds(r, Text(n)) <=> r \in Audience(n)
         /\ Readings(SurveyBody(Text(n))) = {Text(n)}
<1>1. n - 1 \in Nat /\ MaxSurveys \in Nat \ {0}
  <2>1. MaxRuns * MaxSurveys \in Nat
    BY SurveyAssumption
  <2>2. QED
    BY <2>1, SurveyAssumption DEF Surveys
<1>2. (n - 1) % MaxSurveys \in Nat
  BY <1>1
<1>3. ((n - 1) % MaxSurveys) % 3 \in 0 .. 2
  BY <1>2
<1>4. Text(n) \in {ALL, EVEN, ODD}
  BY <1>3 DEF Text
<1>5. ALL[1] = "A" /\ EVEN[1] = "E" /\ ODD[1] = "O"
  BY DEF ALL, EVEN, ODD
<1>6. ALL # EVEN /\ ALL # ODD /\ EVEN # ODD
  BY <1>5
<1>7. \A r \in Respondents : Responds(r, Text(n)) <=> r \in Audience(n)
  BY <1>4, <1>6, SurveyAssumption DEF Responds, Audience
<1> DEFINE Letters == {"A", "L", "E", "V", "N", "O", "D"}
<1>8. /\ ALL \in Seq(Letters) /\ ALL # <<>>
      /\ EVEN \in Seq(Letters) /\ EVEN # <<>>
      /\ ODD \in Seq(Letters) /\ ODD # <<>>
  BY DEF ALL, EVEN, ODD
<1>9. NUL \notin Letters
  BY DEF NUL
<1> HIDE DEF Letters
<1>10. Readings(SurveyBody(Text(n))) = {Text(n)}
  BY <1>4, <1>8, <1>9, SurveyTextIsRead
<1>11. QED
  BY <1>4, <1>7, <1>10

------------------------------------------------------------------------------

\* The initial states satisfy the invariant.
LEMMA InitInv == Init => IInv
<1> SUFFICES ASSUME Init PROVE IInv
  OBVIOUS
<1>1. TypeOK
  <2>1. 1 \in 1 .. MaxRuns /\ 0 \in 0 .. MaxSurveys
    BY SurveyAssumption
  <2>2. QED
    BY <2>1, EmptyFacts DEF Init, TypeOK
<1>2. OnlyWhatWasSent
  <2>1. 0 <= Number(i)
    BY <1>1, NumberFacts
  <2>2. QED
    BY <2>1, EmptyFacts DEF Init, OnlyWhatWasSent, NoSurvey
<1>3. OnePlace /\ FromAudience
  BY EmptyFacts DEF Init, OnePlace, FromAudience
<1>4. Lifetime /\ AnsweredOnce /\ NothingIsLost
  BY EmptyFacts DEF Init, Lifetime, AnsweredOnce, NothingIsLost
<1>5. QED
  BY <1>1, <1>2, <1>3, <1>4 DEF IInv

\* Starting to listen, and the end of a lifetime, keep the invariant.
LEMMA ListenAndExpireKeepInv == IInv /\ (Listen \/ Expire) => IInv'
<1> SUFFICES ASSUME IInv, Listen \/ Expire PROVE IInv'
  OBVIOUS
<1>1. /\ UNCHANGED <<run, i, printed, respondentVars, timely>>
      /\ \/ UNCHANGED <<outstanding, arrived>>
         \/ outstanding' = NoSurvey /\ arrived' = <<>>
      /\ surveyor' = surveyor \/ surveyor' = "asleep"
      /\ surveyor' = "asleep" => outstanding' = NoSurvey
  BY DEF IInv, Lifetime, Listen, Expire
<1>2. TypeOK'
  BY <1>1, EmptyFacts DEF IInv, TypeOK, respondentVars
<1>3. OnlyWhatWasSent' /\ OnePlace' /\ FromAudience'
  BY <1>1 DEF IInv, OnlyWhatWasSent, OnePlace, FromAudience, respondentVars, Number
<1>4. Lifetime'
  BY <1>1 DEF IInv, Lifetime, Number
<1>5. AnsweredOnce'
  BY <1>1, EmptyFacts DEF IInv, AnsweredOnce, OnItsWay, respondentVars, Number
<1>6. NothingIsLost'
  BY <1>1 DEF IInv, NothingIsLost, OnItsWay, Dialed, respondentVars
<1>7. QED
  BY <1>2, <1>3, <1>4, <1>5, <1>6 DEF IInv

\* So does a survey that is sent: nobody has seen it before.
LEMMA SendSurveyKeepsInv == IInv /\ SendSurvey => IInv'
<1> SUFFICES ASSUME IInv, SendSurvey PROVE IInv'
  OBVIOUS
<1> DEFINE n == Number(i + 1)
<1>1. /\ Number(i)' = n /\ outstanding' = n
      /\ n \in Surveys /\ n # NoSurvey /\ n \in Nat
      /\ Number(i) \in Nat /\ Number(i) < n
      /\ i' = i + 1 /\ i' \in 1 .. MaxSurveys
  <2>1. i < MaxSurveys /\ i' = i + 1 /\ outstanding' = Number(i') /\ run' = run
    BY DEF SendSurvey
  <2>2. i \in Nat /\ MaxSurveys \in Nat
    BY SurveyAssumption DEF IInv, TypeOK
  <2>3. n \in Surveys /\ n = Number(i) + 1 /\ Number(i) \in Nat /\ Surveys \subseteq Nat \ {NoSurvey}
    BY <2>1, NumberFacts DEF IInv
  <2>4. Number(i)' = n /\ outstanding' = n
    BY <2>1 DEF Number
  <2> HIDE DEF n
  <2>5. QED
    BY <2>1, <2>2, <2>3, <2>4
<1> HIDE DEF n
<1>2. \A r \in Respondents :
        /\ inbox'[r] = inbox[r] \/ (r \in connected /\ inbox'[r] = Append(inbox[r], n))
        /\ inbox[r] \in Seq(Surveys)
  BY <1>1 DEF SendSurvey, IInv, TypeOK
<1>3. \A r \in Respondents :
        /\ \A m \in Range(inbox[r]) \cup Range(answers[r]) : m \in Nat /\ m < n
        /\ answering[r] \in Nat /\ answering[r] < n
  <2>1. ASSUME NEW r \in Respondents, NEW m \in Range(inbox[r]) \cup Range(answers[r]) \cup {answering[r]}
        PROVE  m \in Nat /\ m < n
    <3>1. Range(inbox[r]) \subseteq Surveys /\ Range(answers[r]) \subseteq Surveys
      BY RangeOfSeq DEF IInv, TypeOK
    <3>2. m \in Nat /\ m <= Number(i)
      BY <2>1, <3>1, NumberFacts DEF IInv, OnlyWhatWasSent, TypeOK, NoSurvey
    <3>3. QED
      BY <1>1, <3>2
  <2>2. QED
    BY <2>1
<1>4. \A r \in Respondents :
        /\ inbox'[r] \in Seq(Surveys)
        /\ Range(inbox'[r]) \subseteq Range(inbox[r]) \cup {n}
        /\ n \in Range(inbox'[r]) => r \in connected
        /\ Once(inbox'[r])
  <2> SUFFICES ASSUME NEW r \in Respondents
               PROVE  /\ inbox'[r] \in Seq(Surveys)
                      /\ Range(inbox'[r]) \subseteq Range(inbox[r]) \cup {n}
                      /\ n \in Range(inbox'[r]) => r \in connected
                      /\ Once(inbox'[r])
    OBVIOUS
  <2>1. n \notin Range(inbox[r])
    BY <1>1, <1>3
  <2>2. Once(inbox[r])
    BY DEF IInv, OnePlace
  <2>3. CASE inbox'[r] = inbox[r]
    BY <1>2, <2>1, <2>2, <2>3
  <2>4. CASE r \in connected /\ inbox'[r] = Append(inbox[r], n)
    <3>1. inbox[r] \in Seq(Surveys) /\ n \in Surveys
      BY <1>1, <1>2
    <3>2. QED
      BY <2>1, <2>2, <2>4, <3>1, AppendFacts
  <2>5. QED
    BY <1>2, <2>3, <2>4
<1>5. UNCHANGED <<run, respondent, connected, answering, answers, timely>>
  BY DEF SendSurvey
<1>6. arrived' = <<>> /\ printed' = [r \in Respondents |-> 0] /\ surveyor' = "busy"
  BY DEF SendSurvey
<1>7. TypeOK'
  <2>1. inbox' \in [Respondents -> Seq(Surveys)]
    BY <1>4 DEF SendSurvey
  <2>2. i' \in 0 .. MaxSurveys
    BY <1>1
  <2>3. QED
    BY <1>1, <1>5, <1>6, <2>1, <2>2, EmptyFacts DEF IInv, TypeOK
<1>8. OnlyWhatWasSent'
  <2>1. ASSUME NEW r \in Respondents, NEW m \in Range(inbox'[r]) \cup Range(answers[r]) \cup {answering[r]}
        PROVE  m <= n
    <3>1. m = n \/ (m \in Nat /\ m < n)
      BY <1>3, <1>4, <2>1
    <3>2. QED
      BY <1>1, <3>1
  <2>2. QED
    BY <1>1, <1>5, <2>1 DEF IInv, OnlyWhatWasSent
<1>9. OnePlace'
  <2>1. \A r \in Respondents : n \notin Range(answers[r]) /\ answering[r] # n
    BY <1>1, <1>3
  <2>2. QED
    BY <1>4, <1>5, <2>1 DEF IInv, OnePlace
<1>10. FromAudience'
  BY <1>5 DEF IInv, FromAudience
<1>11. Lifetime'
  BY <1>1, <1>6 DEF Lifetime
<1>12. AnsweredOnce'
  BY <1>6, EmptyFacts DEF AnsweredOnce
<1>13. NothingIsLost'
  <2>1. \A r \in Respondents : answering[r] # n
    BY <1>1, <1>3
  <2>2. QED
    BY <1>1, <1>4, <1>5, <2>1 DEF NothingIsLost
<1>14. QED
  BY <1>7, <1>8, <1>9, <1>10, <1>11, <1>12, <1>13 DEF IInv

\* A response that is counted is the first of its sender.
LEMMA PrintFacts ==
  ASSUME TypeOK, NEW r \in Respondents, printed[r] = 0, PrintResponse(r)
  PROVE  printed' = [printed EXCEPT ![r] = 1]
  BY DEF TypeOK, PrintResponse

\* A response that is received, or none, keeps the invariant.
LEMMA ReceiveKeepsInv == IInv /\ ReceiveAndPrint => IInv'
<1> SUFFICES ASSUME IInv, ReceiveAndPrint PROVE IInv'
  OBVIOUS
<1>1. UNCHANGED <<run, i, outstanding, respondentVars, timely>> /\ surveyor = "busy" /\ outstanding # NoSurvey
  BY DEF ReceiveAndPrint
<1>2. OnlyWhatWasSent' /\ OnePlace' /\ FromAudience'
  BY <1>1 DEF IInv, OnlyWhatWasSent, OnePlace, FromAudience, respondentVars, Number
<1>3. CASE arrived = <<>>
  <2>1. surveyor' = "blocked" /\ UNCHANGED <<arrived, printed>>
    BY <1>3 DEF ReceiveAndPrint
  <2>2. TypeOK'
    BY <1>1, <2>1 DEF IInv, TypeOK, respondentVars
  <2>3. Lifetime' /\ AnsweredOnce' /\ NothingIsLost'
    BY <1>1, <1>3, <2>1
       DEF IInv, Lifetime, AnsweredOnce, NothingIsLost, OnItsWay, Dialed, respondentVars, Number
  <2>4. QED
    BY <1>2, <2>2, <2>3 DEF IInv
<1>4. CASE arrived # <<>>
  <2> DEFINE r == Head(arrived)
  <2>1. PrintResponse(r) /\ arrived' = Tail(arrived) /\ surveyor' = surveyor
    BY <1>4 DEF ReceiveAndPrint
  <2>2. /\ r \in Respondents /\ arrived' \in Seq(Respondents)
        /\ Range(arrived) = Range(arrived') \cup {r}
        /\ Once(arrived') /\ r \notin Range(arrived')
    BY <1>4, <2>1, TailFacts DEF IInv, TypeOK, AnsweredOnce
  <2>3. printed[r] = 0 /\ r \in Audience(Number(i)) /\ ~OnItsWay(r, Number(i))
    BY <2>2 DEF IInv, AnsweredOnce
  <2> HIDE DEF r
  <2>4. printed' = [printed EXCEPT ![r] = 1] /\ printed \in [Respondents -> 0 .. 2]
    BY <2>1, <2>2, <2>3, PrintFacts DEF IInv, TypeOK
  <2>5. TypeOK'
    BY <1>1, <2>1, <2>2, <2>4 DEF IInv, TypeOK, respondentVars
  <2>6. Lifetime'
    BY <1>1, <2>1 DEF IInv, Lifetime, Number
  <2>7. AnsweredOnce'
    BY <1>1, <2>2, <2>3, <2>4 DEF IInv, AnsweredOnce, OnItsWay, respondentVars, Number
  <2>8. NothingIsLost'
    BY <1>1, <2>2, <2>4 DEF IInv, NothingIsLost, OnItsWay, Dialed, respondentVars
  <2>9. QED
    BY <1>2, <2>5, <2>6, <2>7, <2>8 DEF IInv
<1>5. QED
  BY <1>3, <1>4

\* The surveyor may end at any time, and loses what was on its way.
LEMMA EndKeepsInv == IInv /\ (FailToReceive \/ Kill) => IInv'
<1> SUFFICES ASSUME IInv, FailToReceive \/ Kill PROVE IInv'
  OBVIOUS
<1>1. ProcessGone /\ surveyor' \in {"failed", "killed"}
  BY DEF FailToReceive, Kill
<1>2. /\ outstanding' = NoSurvey /\ arrived' = <<>> /\ connected' = {}
      /\ answers' = [r \in Respondents |-> <<>>]
      /\ UNCHANGED <<run, i, printed, respondent, answering, timely>>
  BY <1>1 DEF ProcessGone
<1>3. /\ inbox' \in [Respondents -> UNION {Prefixes(inbox[r]) : r \in Respondents}]
      /\ \A r \in Respondents : inbox'[r] \in Prefixes(inbox[r])
  BY <1>1 DEF ProcessGone
<1>4. \A r \in Respondents :
        /\ inbox'[r] \in Seq(Surveys)
        /\ Range(inbox'[r]) \subseteq Range(inbox[r])
        /\ Once(inbox'[r])
  <2>1. \A r \in Respondents : inbox[r] \in Seq(Surveys) /\ Once(inbox[r])
    BY DEF IInv, TypeOK, OnePlace
  <2>2. QED
    BY <1>3, <2>1, PrefixFacts
<1>5. \A r \in Respondents : Range(answers'[r]) = {} /\ Once(answers'[r]) /\ answers'[r] \in Seq(Surveys)
  BY <1>2, EmptyFacts
<1>6. TypeOK'
  <2>1. inbox' \in [Respondents -> Seq(Surveys)]
    BY <1>3, <1>4
  <2>2. answers' \in [Respondents -> Seq(Surveys)]
    BY <1>2, EmptyFacts
  <2>3. QED
    BY <1>1, <1>2, <2>1, <2>2, EmptyFacts DEF IInv, TypeOK
<1>7. OnlyWhatWasSent'
  BY <1>2, <1>4, <1>5 DEF IInv, OnlyWhatWasSent, Number
<1>8. OnePlace' /\ FromAudience'
  BY <1>2, <1>4, <1>5 DEF IInv, OnePlace, FromAudience
<1>9. Lifetime' /\ NothingIsLost'
  BY <1>1, <1>2 DEF Lifetime, NothingIsLost
<1>10. AnsweredOnce'
  BY <1>2, <1>4, <1>5, EmptyFacts DEF IInv, AnsweredOnce, OnItsWay, Number
<1>11. QED
  BY <1>6, <1>7, <1>8, <1>9, <1>10 DEF IInv

\* It is started again with higher numbers.
LEMMA RestartKeepsInv == IInv /\ Restart => IInv'
<1> SUFFICES ASSUME IInv, Restart PROVE IInv'
  OBVIOUS
<1>1. /\ surveyor \in {"failed", "killed"} /\ surveyor' = "opened"
      /\ run < MaxRuns /\ run' = run + 1 /\ i' = 0
      /\ printed' = [r \in Respondents |-> 0]
      /\ UNCHANGED <<outstanding, arrived, respondentVars, timely>>
  BY DEF Restart
<1>2. outstanding = NoSurvey /\ arrived = <<>>
  BY <1>1 DEF IInv, Lifetime
<1>3. TypeOK'
  <2>1. run' \in 1 .. MaxRuns /\ i' \in 0 .. MaxSurveys
    BY <1>1, SurveyAssumption DEF IInv, TypeOK
  <2>2. QED
    BY <1>1, <2>1 DEF IInv, TypeOK, respondentVars
<1>4. Number(i) \in Nat /\ Number(i)' \in Nat /\ Number(i) <= Number(i)'
  <2>1. Number(i) <= run * MaxSurveys /\ Number(i) \in Nat
    BY NumberFacts DEF IInv
  <2>2. Number(i)' = run * MaxSurveys
    <3>1. run \in Nat /\ MaxSurveys \in Nat
      BY SurveyAssumption DEF IInv, TypeOK
    <3>2. (run + 1) - 1 = run
      BY <3>1
    <3>3. run * MaxSurveys \in Nat
      BY <3>1
    <3>4. QED
      BY <1>1, <3>2, <3>3 DEF Number
  <2>3. run * MaxSurveys \in Nat
    BY SurveyAssumption DEF IInv, TypeOK
  <2>4. QED
    BY <2>1, <2>2, <2>3
<1>5. OnlyWhatWasSent'
  <2>1. ASSUME NEW r \in Respondents, NEW m \in Range(inbox[r]) \cup Range(answers[r]) \cup {answering[r]}
        PROVE  m <= Number(i)'
    <3>1. Range(inbox[r]) \subseteq Surveys /\ Range(answers[r]) \subseteq Surveys
      BY RangeOfSeq DEF IInv, TypeOK
    <3>2. m \in Nat /\ m <= Number(i)
      BY <2>1, <3>1, NumberFacts DEF IInv, OnlyWhatWasSent, TypeOK, NoSurvey
    <3>3. QED
      BY <1>4, <3>2
  <2>2. QED
    BY <1>1, <2>1 DEF IInv, OnlyWhatWasSent, respondentVars
<1>6. OnePlace' /\ FromAudience'
  BY <1>1 DEF IInv, OnePlace, FromAudience, respondentVars
<1>7. Lifetime' /\ AnsweredOnce' /\ NothingIsLost'
  BY <1>1, <1>2, EmptyFacts DEF Lifetime, AnsweredOnce, NothingIsLost
<1>8. QED
  BY <1>3, <1>5, <1>6, <1>7 DEF IInv

\* A respondent that dials in, or is connected again.
LEMMA ConnectKeepsInv ==
  ASSUME IInv, NEW r \in Respondents, Dial(r) \/ Reconnect(r)
  PROVE  IInv'
<1>1. /\ UNCHANGED <<surveyorVars, inbox, answering, answers, timely>>
      /\ connected \subseteq connected' /\ connected' \subseteq Respondents
      /\ respondent' \in [Respondents -> {"new", "waiting", "answering", "gone"}]
      /\ \A t \in Respondents : /\ respondent'[t] = "answering" <=> respondent[t] = "answering"
                                /\ respondent'[t] = "new" => respondent[t] = "new"
  BY DEF Dial, Reconnect, IInv, TypeOK
<1>2. TypeOK'
  BY <1>1 DEF IInv, TypeOK, surveyorVars
<1>3. OnlyWhatWasSent' /\ OnePlace' /\ FromAudience'
  BY <1>1 DEF IInv, OnlyWhatWasSent, OnePlace, FromAudience, surveyorVars, Number
<1>4. Lifetime' /\ AnsweredOnce'
  <2>1. \A t \in Respondents : OnItsWay(t, Number(i))' <=> OnItsWay(t, Number(i))
    BY <1>1 DEF OnItsWay, surveyorVars, Number
  <2>2. Range(arrived) \subseteq Respondents
    BY RangeOfSeq DEF IInv, TypeOK
  <2>3. Number(i)' = Number(i) /\ UNCHANGED surveyorVars
    BY <1>1 DEF surveyorVars, Number
  <2>4. Lifetime'
    BY <2>3 DEF IInv, Lifetime, surveyorVars
  <2>5. AnsweredOnce'
    BY <2>1, <2>2, <2>3 DEF IInv, AnsweredOnce, surveyorVars
  <2>6. QED
    BY <2>4, <2>5
<1>5. NothingIsLost'
  <2> SUFFICES ASSUME outstanding # NoSurvey, NEW t \in Respondents, Dialed(t)'
               PROVE  /\ outstanding \in Range(inbox[t]) \cup {answering[t]} => t \in connected'
                      /\ (answering[t] = outstanding /\ t \in Audience(outstanding)) =>
                           \/ OnItsWay(t, outstanding)
                           \/ t \in Range(arrived)
                           \/ printed[t] = 1
    BY <1>1 DEF NothingIsLost, OnItsWay, surveyorVars
  <2>1. CASE Dialed(t)
    BY <1>1, <2>1 DEF IInv, NothingIsLost
  <2>2. CASE ~Dialed(t)
    <3>1. respondent[t] = "new" /\ t = r /\ Dial(r) /\ Up
      BY <2>2 DEF Dial, Reconnect, Dialed, IInv, TypeOK
    <3>2. t \in connected' /\ answering[t] # outstanding
      BY <3>1 DEF Dial, IInv, OnlyWhatWasSent
    <3>3. QED
      BY <3>2
  <2>3. QED
    BY <2>1, <2>2
<1>6. QED
  BY <1>2, <1>3, <1>4, <1>5 DEF IInv

\* What a respondent does leaves the others alone.
OthersAlone(r) ==
  \A t \in Respondents \ {r} :
    /\ respondent'[t] = respondent[t] /\ inbox'[t] = inbox[t]
    /\ answering'[t] = answering[t] /\ answers'[t] = answers[t]
    /\ t \in connected' <=> t \in connected

\* A survey that is received is one that the respondent belongs to, or not.
LEMMA GetSurveyKeepsInv ==
  ASSUME IInv, NEW r \in Respondents, GetSurvey(r)
  PROVE  IInv'
<1> DEFINE n == Head(inbox[r])
<1>1. /\ respondent[r] = "waiting" /\ inbox[r] # <<>>
      /\ inbox[r] \in Seq(Surveys) /\ Once(inbox[r])
      /\ UNCHANGED <<surveyorVars, connected, answers, timely>>
  BY DEF GetSurvey, IInv, TypeOK, OnePlace
<1>2. /\ n \in Surveys
      /\ Tail(inbox[r]) \in Seq(Surveys)
      /\ Range(inbox[r]) = Range(Tail(inbox[r])) \cup {n}
      /\ Once(Tail(inbox[r])) /\ n \notin Range(Tail(inbox[r]))
  BY <1>1, TailFacts
<1> HIDE DEF n
<1>3. /\ inbox' = [inbox EXCEPT ![r] = Tail(@)]
      /\ answering' = [answering EXCEPT ![r] = n]
      /\ respondent' = [respondent EXCEPT ![r] = IF r \in Audience(n) THEN "answering" ELSE "waiting"]
  BY <1>2, TextFacts DEF GetSurvey, n
<1>4. /\ inbox'[r] = Tail(inbox[r]) /\ answering'[r] = n
      /\ respondent'[r] = "answering" <=> r \in Audience(n)
      /\ respondent'[r] \in {"answering", "waiting"}
      /\ OthersAlone(r)
  BY <1>1, <1>3 DEF IInv, TypeOK, OthersAlone
<1>5. TypeOK'
  BY <1>1, <1>2, <1>3 DEF IInv, TypeOK, surveyorVars
<1>6. OnlyWhatWasSent'
  <2>1. Number(i)' = Number(i)
    BY <1>1 DEF surveyorVars, Number
  <2>2. QED
    BY <1>1, <1>2, <1>4, <2>1 DEF IInv, OnlyWhatWasSent, OthersAlone
<1>7. OnePlace'
  BY <1>1, <1>2, <1>4 DEF IInv, OnePlace, OthersAlone
<1>8. FromAudience'
  BY <1>1, <1>2, <1>4 DEF IInv, FromAudience, OthersAlone
<1>9. Lifetime'
  BY <1>1 DEF IInv, Lifetime, surveyorVars, Number
<1>10. \A t \in Respondents, m \in Nat : OnItsWay(t, m)' => OnItsWay(t, m)
  BY <1>1, <1>2, <1>4 DEF OnItsWay, OthersAlone
<1>11. AnsweredOnce'
  <2>1. Number(i)' = Number(i) /\ Number(i) \in Nat
    BY <1>1, NumberFacts DEF surveyorVars, Number, IInv
  <2>2. arrived' = arrived /\ printed' = printed /\ arrived \in Seq(Respondents)
    BY <1>1 DEF surveyorVars, IInv, TypeOK
  <2>3. Range(arrived) \subseteq Respondents
    BY <2>2, RangeOfSeq
  <2>4. QED
    BY <1>10, <2>1, <2>2, <2>3 DEF IInv, AnsweredOnce
<1>12. NothingIsLost'
  <2> SUFFICES ASSUME outstanding # NoSurvey, NEW t \in Respondents, Dialed(t)'
               PROVE  /\ outstanding \in Range(inbox'[t]) \cup {answering'[t]} => t \in connected
                      /\ (answering'[t] = outstanding /\ t \in Audience(outstanding)) =>
                           \/ OnItsWay(t, outstanding)'
                           \/ t \in Range(arrived)
                           \/ printed[t] = 1
    BY <1>1 DEF NothingIsLost, surveyorVars
  <2>1. CASE t = r
    <3>1. /\ Dialed(t)
          /\ t \in Audience(n) => respondent'[t] = "answering"
          /\ inbox'[t] = Tail(inbox[t]) /\ answering'[t] = n
          /\ Range(inbox'[t]) \cup {n} = Range(inbox[t])
      BY <1>1, <1>2, <1>4, <2>1 DEF Dialed
    <3>2. outstanding \in Range(inbox[t]) => t \in connected
      BY <3>1 DEF IInv, NothingIsLost
    <3>3. (answering'[t] = outstanding /\ t \in Audience(outstanding)) => OnItsWay(t, outstanding)'
      BY <1>1, <3>1 DEF OnItsWay, surveyorVars
    <3>4. QED
      BY <3>1, <3>2, <3>3
  <2>2. CASE t # r
    <3>1. Dialed(t) /\ inbox'[t] = inbox[t] /\ answering'[t] = answering[t]
      BY <1>4, <2>2 DEF Dialed, OthersAlone
    <3>2. OnItsWay(t, outstanding) => OnItsWay(t, outstanding)'
      BY <1>1, <1>4, <2>2 DEF OnItsWay, OthersAlone, surveyorVars
    <3>3. QED
      BY <3>1, <3>2 DEF IInv, NothingIsLost
  <2>3. QED
    BY <2>1, <2>2
<1>13. QED
  BY <1>5, <1>6, <1>7, <1>8, <1>9, <1>11, <1>12 DEF IInv

\* A response is sent by who belongs to the audience, or not at all.
LEMMA ReplyKeepsInv ==
  ASSUME IInv, NEW r \in Respondents, Reply(r)
  PROVE  IInv'
<1> DEFINE n == answering[r]
           live == r \in connected /\ n > Number(0)
<1>1. /\ respondent[r] = "answering" /\ n \in Surveys
      /\ n \notin Range(inbox[r]) \cup Range(answers[r]) /\ r \in Audience(n)
      /\ answers[r] \in Seq(Surveys) /\ Once(answers[r])
      /\ UNCHANGED <<surveyorVars, connected, inbox, answering, timely>>
  BY DEF Reply, IInv, TypeOK, OnePlace, FromAudience
<1>2. /\ respondent' = [respondent EXCEPT ![r] = "waiting"]
      /\ answers' = IF live THEN [answers EXCEPT ![r] = Append(@, n)] ELSE answers
  BY DEF Reply
<1> HIDE DEF n, live
<1>3. /\ respondent'[r] = "waiting"
      /\ live => answers'[r] = Append(answers[r], n)
      /\ ~live => answers'[r] = answers[r]
      /\ OthersAlone(r)
  BY <1>1, <1>2 DEF IInv, TypeOK, OthersAlone
<1>4. /\ answers'[r] \in Seq(Surveys) /\ Once(answers'[r])
      /\ Range(answers[r]) \subseteq Range(answers'[r])
      /\ Range(answers'[r]) \subseteq Range(answers[r]) \cup {n}
      /\ live => n \in Range(answers'[r])
  <2>1. CASE live
    <3> DEFINE q == answers[r]
    <3>1. /\ q \in Seq(Surveys) /\ Once(q) /\ n \in Surveys /\ n \notin Range(q)
          /\ answers'[r] = Append(q, n)
      BY <1>1, <1>3, <2>1
    <3> HIDE DEF q
    <3>2. /\ Append(q, n) \in Seq(Surveys) /\ Once(Append(q, n))
          /\ Range(Append(q, n)) = Range(q) \cup {n}
      BY <3>1, AppendFacts
    <3>3. QED
      BY <3>1, <3>2 DEF q
  <2>2. CASE ~live
    BY <1>1, <1>3, <2>2
  <2>3. QED
    BY <2>1, <2>2
<1>5. TypeOK'
  <2>1. respondent' \in [Respondents -> {"new", "waiting", "answering", "gone"}]
    BY <1>2 DEF IInv, TypeOK
  <2>2. answers' \in [Respondents -> Seq(Surveys)]
    <3>1. answers \in [Respondents -> Seq(Surveys)]
      BY DEF IInv, TypeOK
    <3>2. QED
      BY <1>2, <1>3, <1>4, <3>1
  <2>3. QED
    BY <1>1, <2>1, <2>2 DEF IInv, TypeOK, surveyorVars
<1>6. OnlyWhatWasSent'
  <2>1. Number(i)' = Number(i)
    BY <1>1 DEF surveyorVars, Number
  <2>2. n <= Number(i)
    BY DEF IInv, OnlyWhatWasSent, n
  <2>3. QED
    BY <1>1, <1>3, <1>4, <2>1, <2>2 DEF IInv, OnlyWhatWasSent, OthersAlone
<1>7. OnePlace'
  BY <1>1, <1>3, <1>4 DEF IInv, OnePlace, OthersAlone
<1>8. FromAudience'
  BY <1>1, <1>3, <1>4 DEF IInv, FromAudience, OthersAlone
<1>9. Lifetime'
  BY <1>1 DEF IInv, Lifetime, surveyorVars, Number
<1>10. \A t \in Respondents, m \in Nat : OnItsWay(t, m)' => OnItsWay(t, m)
  BY <1>1, <1>3, <1>4 DEF OnItsWay, OthersAlone, n
<1>11. AnsweredOnce'
  <2>1. Number(i)' = Number(i) /\ Number(i) \in Nat
    BY <1>1, NumberFacts DEF surveyorVars, Number, IInv
  <2>2. arrived' = arrived /\ printed' = printed /\ arrived \in Seq(Respondents)
    BY <1>1 DEF surveyorVars, IInv, TypeOK
  <2>3. Range(arrived) \subseteq Respondents
    BY <2>2, RangeOfSeq
  <2>4. QED
    BY <1>10, <2>1, <2>2, <2>3 DEF IInv, AnsweredOnce
<1>12. NothingIsLost'
  <2> SUFFICES ASSUME outstanding # NoSurvey, NEW t \in Respondents, Dialed(t)'
               PROVE  /\ outstanding \in Range(inbox[t]) \cup {answering[t]} => t \in connected
                      /\ (answering[t] = outstanding /\ t \in Audience(outstanding)) =>
                           \/ OnItsWay(t, outstanding)'
                           \/ t \in Range(arrived)
                           \/ printed[t] = 1
    BY <1>1 DEF NothingIsLost, surveyorVars
  <2>1. CASE t = r
    <3>1. /\ outstanding \in Range(inbox[r]) \cup {n} => r \in connected
          /\ (n # outstanding /\ answering[r] = outstanding) => FALSE
      BY <1>1 DEF IInv, NothingIsLost, Dialed, n
    <3>2. ASSUME n = outstanding PROVE live
      <4>1. outstanding = Number(i) /\ i >= 1 /\ Number(0) + i = Number(i)
        BY NumberFacts DEF IInv, Lifetime
      <4>2. i \in Nat /\ Number(0) \in Nat /\ Number(i) \in Nat
        BY NumberFacts, SurveyAssumption DEF IInv, TypeOK
      <4>3. outstanding > Number(0)
        BY <4>1, <4>2
      <4>4. QED
        BY <3>1, <3>2, <4>3 DEF live
    <3>3. n = outstanding => OnItsWay(r, outstanding)'
      BY <1>1, <1>4, <3>2 DEF OnItsWay, surveyorVars
    <3>4. QED
      BY <2>1, <3>1, <3>3 DEF n
  <2>2. CASE t # r
    <3>1. Dialed(t)
      BY <1>3, <2>2 DEF Dialed, OthersAlone
    <3>2. OnItsWay(t, outstanding) => OnItsWay(t, outstanding)'
      BY <1>1, <1>3, <2>2 DEF OnItsWay, OthersAlone, surveyorVars
    <3>3. QED
      BY <3>1, <3>2 DEF IInv, NothingIsLost
  <2>3. QED
    BY <2>1, <2>2
<1>13. QED
  BY <1>5, <1>6, <1>7, <1>8, <1>9, <1>11, <1>12 DEF IInv

\* Who leaves is asked no more, and may still be heard.
LEMMA LeaveKeepsInv ==
  ASSUME IInv, NEW r \in Respondents, Leave(r)
  PROVE  IInv'
<1>1. /\ respondent' = [respondent EXCEPT ![r] = "gone"]
      /\ connected' = connected \ {r}
      /\ inbox' = [inbox EXCEPT ![r] = <<>>]
      /\ answers' \in {answers, [answers EXCEPT ![r] = <<>>]}
      /\ UNCHANGED <<surveyorVars, answering, timely>>
  BY DEF Leave
<1>2. /\ respondent'[r] = "gone" /\ inbox'[r] = <<>> /\ answers'[r] \in {answers[r], <<>>}
      /\ OthersAlone(r)
  BY <1>1 DEF IInv, TypeOK, OthersAlone
<1>3. /\ Range(answers'[r]) \subseteq Range(answers[r]) /\ Once(answers'[r])
      /\ Range(inbox'[r]) = {} /\ Once(inbox'[r])
  BY <1>2, EmptyFacts DEF IInv, OnePlace
<1>4. TypeOK'
  <2>1. /\ inbox' \in [Respondents -> Seq(Surveys)]
        /\ answers' \in [Respondents -> Seq(Surveys)]
    BY <1>1, EmptyFacts DEF IInv, TypeOK
  <2>2. QED
    BY <1>1, <2>1 DEF IInv, TypeOK, surveyorVars
<1>5. OnlyWhatWasSent'
  <2>1. Number(i)' = Number(i)
    BY <1>1 DEF surveyorVars, Number
  <2>2. QED
    BY <1>1, <1>2, <1>3, <2>1 DEF IInv, OnlyWhatWasSent, OthersAlone
<1>6. OnePlace' /\ FromAudience'
  BY <1>1, <1>2, <1>3 DEF IInv, OnePlace, FromAudience, OthersAlone
<1>7. Lifetime'
  BY <1>1 DEF IInv, Lifetime, surveyorVars, Number
<1>8. \A t \in Respondents, m \in Nat : OnItsWay(t, m)' => OnItsWay(t, m)
  BY <1>1, <1>2, <1>3 DEF OnItsWay, OthersAlone
<1>9. AnsweredOnce'
  <2>1. Number(i)' = Number(i) /\ Number(i) \in Nat
    BY <1>1, NumberFacts DEF surveyorVars, Number, IInv
  <2>2. arrived' = arrived /\ printed' = printed /\ arrived \in Seq(Respondents)
    BY <1>1 DEF surveyorVars, IInv, TypeOK
  <2>3. Range(arrived) \subseteq Respondents
    BY <2>2, RangeOfSeq
  <2>4. QED
    BY <1>8, <2>1, <2>2, <2>3 DEF IInv, AnsweredOnce
<1>10. NothingIsLost'
  BY <1>1, <1>2 DEF IInv, NothingIsLost, Dialed, OnItsWay, OthersAlone, surveyorVars
<1>11. QED
  BY <1>4, <1>5, <1>6, <1>7, <1>9, <1>10 DEF IInv

\* A response that arrives is counted, kept, or dropped.
LEMMA ArriveKeepsInv ==
  ASSUME IInv, NEW r \in Respondents, Arrive(r)
  PROVE  IInv'
<1> DEFINE n == Head(answers[r])
<1>1. /\ answers[r] # <<>> /\ answers[r] \in Seq(Surveys) /\ Once(answers[r])
      /\ answers' = [answers EXCEPT ![r] = Tail(@)]
      /\ UNCHANGED <<run, i, outstanding, respondent, connected, inbox, answering, timely>>
  BY DEF Arrive, IInv, TypeOK, OnePlace
<1>2. /\ n \in Surveys
      /\ Tail(answers[r]) \in Seq(Surveys)
      /\ Range(answers[r]) = Range(Tail(answers[r])) \cup {n}
      /\ Once(Tail(answers[r])) /\ n \notin Range(Tail(answers[r]))
  BY <1>1, TailFacts
<1>3. answers'[r] = Tail(answers[r]) /\ OthersAlone(r)
  BY <1>1 DEF IInv, TypeOK, OthersAlone
<1>4. \/ n = outstanding /\ surveyor = "blocked" /\ PrintResponse(r) /\ surveyor' = "busy" /\ arrived' = arrived
      \/ n = outstanding /\ surveyor # "blocked" /\ arrived' = Append(arrived, r) /\ UNCHANGED <<surveyor, printed>>
      \/ n # outstanding /\ UNCHANGED <<surveyor, printed, arrived>>
  BY DEF Arrive
<1> HIDE DEF n
<1>5. Number(i)' = Number(i) /\ Number(i) \in Nat
  BY <1>1, NumberFacts DEF Number, IInv
<1>6. OnlyWhatWasSent' /\ OnePlace' /\ FromAudience'
  <2>1. /\ respondent' = respondent /\ inbox' = inbox /\ answering' = answering
        /\ Range(answers'[r]) \subseteq Range(answers[r]) /\ Once(answers'[r])
        /\ \A t \in Respondents \ {r} : answers'[t] = answers[t]
    BY <1>1, <1>2, <1>3 DEF OthersAlone
  <2>2. OnlyWhatWasSent'
    BY <1>5, <2>1 DEF IInv, OnlyWhatWasSent
  <2>3. OnePlace'
    BY <2>1 DEF IInv, OnePlace
  <2>4. FromAudience'
    BY <2>1 DEF IInv, FromAudience
  <2>5. QED
    BY <2>2, <2>3, <2>4
<1>7. \A t \in Respondents, m \in Nat : OnItsWay(t, m)' => OnItsWay(t, m)
  BY <1>1, <1>2, <1>3 DEF OnItsWay, OthersAlone
<1>8. arrived \in Seq(Respondents) /\ Range(arrived) \subseteq Respondents
  BY RangeOfSeq DEF IInv, TypeOK
<1>9. answers' \in [Respondents -> Seq(Surveys)]
  BY <1>1, <1>2 DEF IInv, TypeOK
<1>10. \A t \in Respondents : (outstanding # n \/ t # r) =>
         (OnItsWay(t, outstanding) => OnItsWay(t, outstanding)')
  BY <1>1, <1>2, <1>3 DEF OnItsWay, OthersAlone
<1>11. CASE n # outstanding
  <2>1. UNCHANGED <<surveyor, printed, arrived>>
    BY <1>4, <1>11
  <2>2. TypeOK' /\ Lifetime'
    BY <1>1, <1>5, <1>9, <2>1 DEF IInv, TypeOK, Lifetime
  <2>3. AnsweredOnce'
    BY <1>5, <1>7, <1>8, <2>1 DEF IInv, AnsweredOnce
  <2>4. NothingIsLost'
    BY <1>1, <1>10, <1>11, <2>1 DEF IInv, NothingIsLost, Dialed
  <2>5. QED
    BY <1>6, <2>2, <2>3, <2>4 DEF IInv
<1>12. CASE n = outstanding
  <2>1. outstanding # NoSurvey /\ outstanding = Number(i)
    BY <1>2, <1>12, NumberFacts DEF IInv, Lifetime
  <2>2. OnItsWay(r, Number(i)) /\ r \in Audience(Number(i))
    BY <1>2, <1>12, <2>1 DEF OnItsWay, IInv, FromAudience
  <2>3. printed[r] = 0 /\ r \notin Range(arrived)
    BY <2>2 DEF IInv, AnsweredOnce
  <2>4. ~OnItsWay(r, Number(i))'
    <3>1. /\ n \notin Range(inbox[r]) /\ n \notin Range(Tail(answers[r]))
          /\ respondent[r] = "answering" => answering[r] # n
      BY <1>2 DEF IInv, OnePlace
    <3>2. QED
      BY <1>1, <1>3, <1>5, <1>12, <2>1, <3>1 DEF OnItsWay
  <2>5. CASE surveyor = "blocked"
    <3>1. surveyor' = "busy" /\ arrived' = arrived /\ printed' = [printed EXCEPT ![r] = 1]
      BY <1>4, <1>12, <2>3, <2>5, PrintFacts DEF IInv
    <3>2. printed \in [Respondents -> 0 .. 2] /\ printed'[r] = 1
      BY <3>1 DEF IInv, TypeOK
    <3>3. TypeOK' /\ Lifetime'
      BY <1>1, <1>5, <1>9, <3>1, <3>2 DEF IInv, TypeOK, Lifetime
    <3>4. AnsweredOnce'
      BY <1>5, <1>7, <1>8, <2>2, <2>3, <2>4, <3>1, <3>2 DEF IInv, AnsweredOnce
    <3>5. NothingIsLost'
      BY <1>1, <1>10, <3>1, <3>2 DEF IInv, NothingIsLost, Dialed
    <3>6. QED
      BY <1>6, <3>3, <3>4, <3>5 DEF IInv
  <2>6. CASE surveyor # "blocked"
    <3>1. arrived' = Append(arrived, r) /\ UNCHANGED <<surveyor, printed>>
      BY <1>4, <1>12, <2>6
    <3>2. arrived' \in Seq(Respondents) /\ Range(arrived') = Range(arrived) \cup {r} /\ Once(arrived')
      BY <1>8, <2>3, <3>1, AppendFacts DEF IInv, AnsweredOnce
    <3>3. TypeOK' /\ Lifetime'
      BY <1>1, <1>5, <1>9, <2>1, <2>6, <3>1, <3>2 DEF IInv, TypeOK, Lifetime
    <3>4. AnsweredOnce'
      BY <1>5, <1>7, <1>8, <2>2, <2>3, <2>4, <3>1, <3>2 DEF IInv, AnsweredOnce
    <3>5. NothingIsLost'
      BY <1>1, <1>10, <3>1, <3>2 DEF IInv, NothingIsLost, Dialed
    <3>6. QED
      BY <1>6, <3>3, <3>4, <3>5 DEF IInv
  <2>7. QED
    BY <2>5, <2>6
<1>13. QED
  BY <1>11, <1>12

------------------------------------------------------------------------------

\* Every step of the surveyor, of a respondent and of nng keeps the invariant.
LEMMA NextInv == IInv /\ [Next]_vars => IInv'
<1> SUFFICES ASSUME IInv, [Next]_vars PROVE IInv'
  OBVIOUS
<1>1. CASE Listen \/ Expire
  BY <1>1, ListenAndExpireKeepInv
<1>2. CASE SendSurvey
  BY <1>2, SendSurveyKeepsInv
<1>3. CASE ReceiveAndPrint
  BY <1>3, ReceiveKeepsInv
<1>4. CASE FailToReceive \/ Kill
  BY <1>4, EndKeepsInv
<1>5. CASE Restart
  BY <1>5, RestartKeepsInv
<1>6. ASSUME NEW r \in Respondents,
             Dial(r) \/ Reconnect(r) \/ RespondentStep(r) \/ Arrive(r) \/ Leave(r)
      PROVE  IInv'
  BY <1>6, ConnectKeepsInv, GetSurveyKeepsInv, ReplyKeepsInv, ArriveKeepsInv, LeaveKeepsInv
     DEF RespondentStep
<1>7. CASE UNCHANGED vars
  BY <1>7 DEF vars, surveyorVars, respondentVars, IInv, TypeOK, OnlyWhatWasSent, OnePlace,
       FromAudience, Lifetime, AnsweredOnce, NothingIsLost, OnItsWay, Dialed, Number
<1>8. QED
  BY <1>1, <1>2, <1>3, <1>4, <1>5, <1>6, <1>7 DEF Next, SurveyorStep

\* The inductive invariant: a survey, and the response to it, is in one place
\* between the surveyor's send and its print.
THEOREM InductiveInvariant == Spec => []IInv
<1>1. Init => IInv
  BY InitInv
<1>2. IInv /\ [Next]_vars => IInv'
  BY NextInv
<1>3. QED
  BY <1>1, <1>2, PTL DEF Spec

\* The variables keep to their types.
THEOREM TypeCorrect == Spec => []TypeOK
<1>1. IInv => TypeOK
  BY DEF IInv
<1>2. QED
  BY <1>1, InductiveInvariant, PTL

\* What the surveyor prints under a survey answers that survey, is printed once,
\* and comes from its audience.
THEOREM AnswersAreRight == Spec => []RightAnswers
<1>1. IInv => RightAnswers
  BY DEF IInv, AnsweredOnce, RightAnswers
<1>2. QED
  BY <1>1, InductiveInvariant, PTL

\* A lifetime that is long enough ends when the response of everybody who was
\* asked, and is still there, has been printed.
LEMMA ExpireAfterAnswers ==
  ASSUME IInv, Expire, timely, NEW r \in Audience(Number(i)), Dialed(r), answering[r] = Number(i)
  PROVE  printed[r] = 1
<1>1. AllIn /\ outstanding # NoSurvey
  BY DEF Expire
<1>2. outstanding = Number(i) /\ arrived = <<>> /\ i >= 1
  BY <1>1 DEF IInv, Lifetime, AllIn
<1>3. r \in Respondents
  <2>1. outstanding \in Surveys
    BY <1>1 DEF IInv, TypeOK
  <2>2. QED
    BY <1>2, <2>1, TextFacts, SurveyAssumption DEF Audience
<1>4. respondent[r] = "waiting" /\ inbox[r] = <<>> /\ answers[r] = <<>>
  BY <1>1, <1>3 DEF AllIn
<1>5. ~OnItsWay(r, outstanding) /\ r \notin Range(arrived)
  BY <1>2, <1>4, EmptyFacts DEF OnItsWay
<1>6. QED
  BY <1>1, <1>2, <1>3, <1>5 DEF IInv, NothingIsLost

\* Whoever got a survey of which the lifetime is long enough is heard, however
\* the responses come in.
THEOREM TimelyAnswersAreHeard == Spec => TimelyAnswersPrinted
<1> DEFINE EndsWell == timely /\ surveyor = "blocked" /\ surveyor' = "asleep"
           AllPrinted == \A r \in Audience(Number(i)) :
                           (Dialed(r) /\ answering[r] = Number(i)) => printed[r] = 1
<1>1. IInv /\ [Next]_vars => [EndsWell => AllPrinted]_vars
  <2> SUFFICES ASSUME IInv, [Next]_vars, EndsWell PROVE AllPrinted
    OBVIOUS
  <2>1. Expire
    BY DEF Next, SurveyorStep, RespondentStep, Listen, SendSurvey, ReceiveAndPrint, FailToReceive,
         Kill, Restart, Dial, Reconnect, GetSurvey, Reply, Arrive, Leave, surveyorVars, vars
  <2>2. QED
    BY <2>1, ExpireAfterAnswers
<1>2. QED
  BY <1>1, InductiveInvariant, PTL DEF Spec, TimelyAnswersPrinted

==============================================================================
