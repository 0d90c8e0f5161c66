-------------------------------- MODULE Survey --------------------------------
(***************************************************************************)
(* surveyor.cpp and respondent.cpp.  The surveyor listens, sleeps, sends   *)
(* the next of the surveys ALL, EVEN and ODD, and prints responses until a *)
(* receive fails.  Respondents dial in at any time, answer the surveys     *)
(* they belong to and may be stopped at any time, as may the surveyor,     *)
(* which is then started again: nng connects those that are left again.    *)
(*                                                                         *)
(* nng numbers the surveys, drops a response to any but the outstanding    *)
(* one, and ends the outstanding survey when its lifetime is over: a       *)
(* receive that is blocked then fails with NNG_ETIMEDOUT, and one that is  *)
(* called afterwards fails with NNG_ESTATE.                                *)
(***************************************************************************)
EXTENDS MessageBody, SequencesExt

CONSTANTS
  Respondents,   \* the processes that may dial in
  EvenPids,      \* those with an even pid
  MaxSurveys,    \* surveys sent in a run (bounds the model: the code never stops)
  MaxRuns,       \* how often the surveyor is started (bounds the model)
  QueueBound     \* surveys that fit between the surveyor and one respondent

ASSUME SurveyAssumption ==
  /\ EvenPids \subseteq Respondents
  /\ {MaxSurveys, MaxRuns, QueueBound} \subseteq Nat \ {0}

VARIABLES
  surveyor,      \* "opened", "asleep", "busy", "blocked" in a receive, "failed" or "killed"
  run,           \* how often the surveyor was started
  i,             \* the surveys sent so far in this run
  outstanding,   \* the number of the survey that is still alive, or NoSurvey
  arrived,       \* the responses that nng holds for the surveyor, by respondent
  printed,       \* how often the surveyor has printed a response of each
                 \* respondent under its last survey, up to twice
  respondent,    \* "new", "waiting", "answering" or "gone"
  connected,     \* the respondents that have a connection to the surveyor
  inbox,         \* the surveys on their way to each respondent, oldest first
  answering,     \* the survey each respondent has received last
  answers,       \* the responses on their way to the surveyor, oldest first
  timely         \* is each survey's lifetime long enough for all its responses?
                 \* The code cannot know: it is chosen once, and both are explored.

surveyorVars == <<surveyor, run, i, outstanding, arrived, printed>>
respondentVars == <<respondent, connected, inbox, answering, answers>>
vars == <<surveyorVars, respondentVars, timely>>

\* The surveys of all runs, in the order in which they are sent.
Surveys == 1 .. MaxRuns * MaxSurveys
Number(n) == (run - 1) * MaxSurveys + n
NoSurvey == 0

TypeOK ==
  /\ surveyor \in {"opened", "asleep", "busy", "blocked", "failed", "killed"}
  /\ run \in 1 .. MaxRuns
  /\ i \in 0 .. MaxSurveys
  /\ outstanding \in {NoSurvey} \cup Surveys
  /\ arrived \in Seq(Respondents)
  /\ printed \in [Respondents -> 0 .. 2]
  /\ respondent \in [Respondents -> {"new", "waiting", "answering", "gone"}]
  /\ connected \subseteq Respondents
  /\ inbox \in [Respondents -> Seq(Surveys)]
  /\ answering \in [Respondents -> {NoSurvey} \cup Surveys]
  /\ answers \in [Respondents -> Seq(Surveys)]
  /\ timely \in BOOLEAN

Init ==
  /\ surveyor = "opened"
  /\ run = 1
  /\ i = 0
  /\ outstanding = NoSurvey
  /\ arrived = <<>>
  /\ printed = [r \in Respondents |-> 0]
  /\ respondent = [r \in Respondents |-> "new"]
  /\ connected = {}
  /\ inbox = [r \in Respondents |-> <<>>]
  /\ answering = [r \in Respondents |-> NoSurvey]
  /\ answers = [r \in Respondents |-> <<>>]
  /\ timely \in BOOLEAN

------------------------------------------------------------------------------

ALL == <<"A", "L", "L">>
EVEN == <<"E", "V", "E", "N">>
ODD == <<"O", "D", "D">>

\* The text of survey n: each run goes through the three in turn.
Text(n) == <<ALL, EVEN, ODD>>[(((n - 1) % MaxSurveys) % 3) + 1]

\* Mutated form of Responds: the pid is looked at for odd surveys only.
RespondsToEven(r, survey) == survey \in {ALL, EVEN} \/ (survey = ODD /\ r \notin EvenPids)

Responds(r, survey) ==
  \/ survey = ALL
  \/ survey = EVEN /\ r \in EvenPids
  \/ survey = ODD /\ r \notin EvenPids

Dialed(r) == respondent[r] \in {"waiting", "answering"}

Up == surveyor \in {"asleep", "busy", "blocked"}

Listen ==
  /\ surveyor = "opened"
  /\ surveyor' = "asleep"
  /\ UNCHANGED <<run, i, outstanding, arrived, printed, respondentVars, timely>>

\* sleep(5) is over; the survey goes to whoever is connected and has room.
SendSurvey ==
  /\ surveyor = "asleep"
  /\ i < MaxSurveys
  /\ i' = i + 1
  /\ outstanding' = Number(i')
  /\ arrived' = <<>>
  /\ printed' = [r \in Respondents |-> 0]
  /\ inbox' = [r \in Respondents |->
                 IF r \in connected /\ Len(inbox[r]) < QueueBound
                 THEN Append(inbox[r], outstanding')
                 ELSE inbox[r]]
  /\ surveyor' = "busy"
  /\ UNCHANGED <<run, respondent, connected, answering, answers, timely>>

PrintResponse(r) ==
  printed' = [printed EXCEPT ![r] = IF @ < 2 THEN @ + 1 ELSE @]

ReceiveAndPrint ==
  /\ surveyor = "busy"
  /\ outstanding # NoSurvey
  /\ IF arrived = <<>>
     THEN surveyor' = "blocked" /\ UNCHANGED <<arrived, printed>>
     ELSE PrintResponse(Head(arrived)) /\ arrived' = Tail(arrived) /\ UNCHANGED surveyor
  /\ UNCHANGED <<run, i, outstanding, respondentVars, timely>>

\* The surveyor's process ends: responses on their way to it are lost, and of
\* the surveys it has sent some may be.
ProcessGone ==
  /\ outstanding' = NoSurvey
  /\ arrived' = <<>>
  /\ connected' = {}
  /\ answers' = [r \in Respondents |-> <<>>]
  /\ inbox' \in {q \in [Respondents -> UNION {Prefixes(inbox[r]) : r \in Respondents}] :
                   \A r \in Respondents : q[r] \in Prefixes(inbox[r])}
  /\ UNCHANGED <<run, i, printed, respondent, answering, timely>>

\* nng_recvmsg fails with NNG_ESTATE: an error other than NNG_ETIMEDOUT ends the
\* program.
FailToReceive ==
  /\ surveyor = "busy"
  /\ outstanding = NoSurvey
  /\ surveyor' = "failed"
  /\ ProcessGone

\* Control-C, or another call of nng that fails.
Kill ==
  /\ surveyor \notin {"failed", "killed"}
  /\ surveyor' = "killed"
  /\ ProcessGone

\* The user starts the surveyor again.
Restart ==
  /\ surveyor \in {"failed", "killed"}
  /\ run < MaxRuns
  /\ run' = run + 1
  /\ i' = 0
  /\ printed' = [r \in Respondents |-> 0]
  /\ surveyor' = "opened"
  /\ UNCHANGED <<outstanding, arrived, respondentVars, timely>>

\* A response reaches the surveyor's nng: handed to a blocked receive at once,
\* kept for a later one, or dropped if it is not for the outstanding survey.
Arrive(r) ==
  /\ answers[r] # <<>>
  /\ answers' = [answers EXCEPT ![r] = Tail(@)]
  /\ \/ /\ Head(answers[r]) = outstanding
        /\ surveyor = "blocked"
        /\ PrintResponse(r)
        /\ surveyor' = "busy"
        /\ UNCHANGED arrived
     \/ /\ Head(answers[r]) = outstanding
        /\ surveyor # "blocked"
        /\ arrived' = Append(arrived, r)
        /\ UNCHANGED <<surveyor, printed>>
     \/ /\ Head(answers[r]) # outstanding
        /\ UNCHANGED <<surveyor, printed, arrived>>
  /\ UNCHANGED <<run, i, outstanding, respondent, connected, inbox, answering, timely>>

\* Mutated forms of AllIn: the lifetime ends early; or no lifetime is ever
\* over, as without the NNG_OPT_SURVEYOR_SURVEYTIME of main.
TooEarly == TRUE
NeverOver == FALSE

\* What the lifetime is there for: whoever got the survey has dealt with it and
\* the surveyor has printed all responses.
AllIn ==
  /\ surveyor = "blocked"
  /\ \A r \in Respondents :
       Dialed(r) => (respondent[r] = "waiting" /\ inbox[r] = <<>> /\ answers[r] = <<>>)

\* The survey's lifetime is over: "timed out is a normal completion".
Expire ==
  /\ outstanding # NoSurvey
  /\ timely => AllIn
  /\ outstanding' = NoSurvey
  /\ arrived' = <<>>
  /\ surveyor' = IF surveyor = "blocked" THEN "asleep" ELSE surveyor
  /\ UNCHANGED <<run, i, printed, respondentVars, timely>>

------------------------------------------------------------------------------

\* nng_dial fails, and ends the respondent, if nobody listens.
Dial(r) ==
  /\ respondent[r] = "new"
  /\ respondent' = [respondent EXCEPT ![r] = IF Up THEN "waiting" ELSE "gone"]
  /\ connected' = IF Up THEN connected \cup {r} ELSE connected
  /\ UNCHANGED <<surveyorVars, inbox, answering, answers, timely>>

\* nng dials again, in the background, a surveyor that went away.
Reconnect(r) ==
  /\ Dialed(r)
  /\ r \notin connected
  /\ Up
  /\ connected' = connected \cup {r}
  /\ UNCHANGED <<surveyorVars, respondent, inbox, answering, answers, timely>>

\* getmsg, and the decision of main.
GetSurvey(r) ==
  /\ respondent[r] = "waiting"
  /\ inbox[r] # <<>>
  /\ inbox' = [inbox EXCEPT ![r] = Tail(@)]
  /\ answering' = [answering EXCEPT ![r] = Head(inbox[r])]
  /\ \E survey \in Readings(SurveyBody(Text(Head(inbox[r])))) :
       respondent' = [respondent EXCEPT ![r] =
                        IF Responds(r, survey) THEN "answering" ELSE "waiting"]
  /\ UNCHANGED <<surveyorVars, connected, answers, timely>>

\* nng answers the survey that was received last, over the connection it came
\* by: it drops the response if that is gone.
Reply(r) ==
  /\ respondent[r] = "answering"
  /\ answers' = IF r \in connected /\ answering[r] > Number(0)
                THEN [answers EXCEPT ![r] = Append(@, answering[r])]
                ELSE answers
  /\ respondent' = [respondent EXCEPT ![r] = "waiting"]
  /\ UNCHANGED <<surveyorVars, connected, inbox, answering, timely>>

\* Control-C, or a call that fails: what the respondent had sent may still
\* arrive, or be lost.
Leave(r) ==
  /\ Dialed(r)
  /\ respondent' = [respondent EXCEPT ![r] = "gone"]
  /\ connected' = connected \ {r}
  /\ inbox' = [inbox EXCEPT ![r] = <<>>]
  /\ answers' \in {answers, [answers EXCEPT ![r] = <<>>]}
  /\ UNCHANGED <<surveyorVars, answering, timely>>

SurveyorStep == Listen \/ SendSurvey \/ ReceiveAndPrint \/ FailToReceive

RespondentStep(r) == GetSurvey(r) \/ Reply(r)

Next ==
  \/ SurveyorStep
  \/ Expire
  \/ Kill
  \/ Restart
  \/ \E r \in Respondents :
       Dial(r) \/ Reconnect(r) \/ RespondentStep(r) \/ Arrive(r) \/ Leave(r)

\* Every process runs, the network delivers, nng connects again and the
\* lifetime's timer fires; nobody has to be stopped or started.
Fairness ==
  /\ WF_vars(SurveyorStep)
  /\ WF_vars(Expire)
  /\ \A r \in Respondents :
       WF_vars(RespondentStep(r)) /\ WF_vars(Arrive(r)) /\ WF_vars(Reconnect(r))

Spec == Init /\ [][Next]_vars /\ Fairness

------------------------------------------------------------------------------

\* Who is asked by survey n: everybody, those with an even pid, or the others.
Audience(n) ==
  CASE Text(n) = ALL  -> Respondents
    [] Text(n) = EVEN -> EvenPids
    [] Text(n) = ODD  -> Respondents \ EvenPids

\* A response is printed under the survey it answers, once, and only if its
\* sender belongs to the survey's audience.  Late responses to an earlier
\* survey, or to a surveyor that was stopped, are never taken for responses to
\* the current one, even though a response carries nothing but a pid.
RightAnswers ==
  \A r \in Respondents :
    printed[r] # 0 => (printed[r] = 1 /\ r \in Audience(Number(i)))

\* When lifetimes are long enough, a survey that ends normally has printed the
\* response of everybody in its audience who got it and was not stopped.
TimelyAnswersPrinted ==
  [][(timely /\ surveyor = "blocked" /\ surveyor' = "asleep") =>
       \A r \in Audience(Number(i)) :
         (Dialed(r) /\ answering[r] = Number(i)) => printed[r] = 1]_vars

\* Every survey comes to an end: the surveyor sleeps until the next one, unless
\* it ends.
NextSurveyFollows ==
  surveyor \in {"busy", "blocked"} ~> surveyor \in {"asleep", "failed", "killed"}

\* "timed out is a normal completion" (surveyor.cpp:87), and "After the survey
\* expires, sometime later a different survey is sent" (Readme.md:158): a survey
\* of which a response was printed does not end with a failure of the surveyor.
AnsweredSurveyEndsWell ==
  surveyor = "failed" => \A r \in Respondents : printed[r] = 0

==============================================================================
