------------------------------ MODULE PerfSurvey ------------------------------
(***************************************************************************)
(* performance/survey.cpp: main surveys threads that all respond.  The     *)
(* timing is done twice, with big surveys and with big responses; each has *)
(* a socket and responder threads of its own.  After NReq surveys that     *)
(* main collects the responses to, it sends an extra one, which tells the  *)
(* responders to close.                                                    *)
(***************************************************************************)
EXTENDS Integers, FiniteSets

CONSTANTS
  Responders,   \* the threads of one phase
  NReq          \* surveys of one timing (argv[2])

ASSUME PerfSurveyAssumption ==
  /\ IsFiniteSet(Responders)
  /\ NReq \in Nat

VARIABLES
  punctual,   \* is the sleep long enough, and the survey time?
  oversize,   \* are the big responses above nng's default for RECVMAXSZ?
  phase,      \* 1: big surveys, 2: big responses
  main,       \* where main is in this phase
  current,    \* the number of the last survey; NReq + 1 is the extra one
  collected,  \* responses main has received to the current survey
  responder,  \* where each thread of this phase is
  handled,    \* surveys each thread has responded to
  survey,     \* the survey that nng holds for each thread; 0: none
  answering,  \* the survey that each thread has read
  response,   \* the survey that the response under way of each thread is to
  received    \* of the responses of each thread, how many main has received

settings == <<punctual, oversize, phase>>
mainVars == <<main, current, collected>>
messages == <<survey, answering, response, received>>
vars == <<settings, mainVars, responder, handled, messages>>

None == [r \in Responders |-> 0]
NResp == Cardinality(Responders)
Extra == NReq + 1

\* The responders and the socket of a phase are new.
NewPhase ==
  /\ main' = "sleeping"
  /\ current' = 0
  /\ collected' = 0
  /\ responder' = [r \in Responders |-> "new"]
  /\ handled' = None /\ survey' = None /\ answering' = None
  /\ response' = None /\ received' = None

Init ==
  /\ punctual \in BOOLEAN
  /\ oversize \in BOOLEAN
  /\ phase = 1
  /\ main = "sleeping"
  /\ current = 0
  /\ collected = 0
  /\ responder = [r \in Responders |-> "new"]
  /\ handled = None /\ survey = None /\ answering = None
  /\ response = None /\ received = None

Running == main \in {"sleeping", "ready", "collecting", "joining"}

\* Without setOptions on the second socket, what is too big is dropped.
TooBig == phase = 2 /\ oversize

------------------------------------------------------------------------------

\* The responders have dialed by the end of main's sleep, or not.
Awake ==
  /\ main = "sleeping"
  /\ punctual => \A r \in Responders : responder[r] = "ready"
  /\ main' = "ready"
  /\ UNCHANGED <<settings, current, collected, responder, handled, messages>>

\* Mutated form of AllCollected: an off-by-one in the loop.
OneMoreCollected == collected = NResp + 1

AllCollected == collected = NResp

\* A survey goes to the threads that have dialed.  A new one ends the one
\* before: a response to that is ignored.
SendSurvey ==
  /\ \/ main = "ready"
     \/ main = "collecting" /\ AllCollected
  /\ current' = current + 1
  /\ collected' = 0
  /\ main' = IF current' = Extra THEN "joining" ELSE "collecting"
  /\ survey' = [r \in Responders |-> IF responder[r] = "ready" THEN current' ELSE survey[r]]
  /\ UNCHANGED <<settings, responder, handled, answering, response, received>>

\* The loop of survey(): one response.
Collect(r) ==
  /\ main = "collecting"
  /\ ~AllCollected
  /\ response[r] = current
  /\ ~TooBig
  /\ response' = [response EXCEPT ![r] = 0]
  /\ collected' = collected + 1
  /\ received' = [received EXCEPT ![r] = @ + 1]
  /\ UNCHANGED <<settings, main, current, responder, handled, survey, answering>>

\* nng does away with a response: nobody waits for it, or it is too big.
Discard(r) ==
  /\ Running
  /\ response[r] # 0
  /\ response[r] # current \/ main = "joining" \/ TooBig
  /\ response' = [response EXCEPT ![r] = 0]
  /\ UNCHANGED <<settings, mainVars, responder, handled, survey, answering, received>>

\* The survey expires before all responses are there: checkstat exits.
Expire ==
  /\ main = "collecting"
  /\ ~AllCollected
  /\ ~punctual \/ TooBig
  /\ main' = "expired"
  /\ UNCHANGED <<settings, current, collected, responder, handled, messages>>

\* Mutated form of AllClosed: the threads are cleared without a join.
NoJoin == TRUE

AllClosed == \A r \in Responders : responder[r] = "closed"

\* The joins and the close; then the next phase begins, or all clocks are read.
Join ==
  /\ main = "joining"
  /\ AllClosed
  /\ IF phase = 1
     THEN phase' = 2 /\ NewPhase
     ELSE main' = "timed" /\ UNCHANGED <<phase, current, collected, responder, handled, messages>>
  /\ UNCHANGED <<punctual, oversize>>

Report ==
  /\ main = "timed"
  /\ main' = "done"
  /\ UNCHANGED <<settings, current, collected, responder, handled, messages>>

\* A call of nng fails for a reason of its own.
Fail ==
  /\ Running
  /\ main' = "failed"
  /\ UNCHANGED <<settings, current, collected, responder, handled, messages>>

------------------------------------------------------------------------------

\* main listens before it creates the threads.
Dial(r) ==
  /\ Running
  /\ responder[r] = "new"
  /\ responder' = [responder EXCEPT ![r] = "ready"]
  /\ UNCHANGED <<settings, mainVars, handled, messages>>

\* The loop of responder(): a survey is read,
GetSurvey(r) ==
  /\ Running
  /\ responder[r] = "ready"
  /\ survey[r] # 0
  /\ answering[r] = 0
  /\ handled[r] < NReq
  /\ answering' = [answering EXCEPT ![r] = survey[r]]
  /\ survey' = [survey EXCEPT ![r] = 0]
  /\ UNCHANGED <<settings, mainVars, responder, handled, response, received>>

\* and responded to.
Respond(r) ==
  /\ Running
  /\ responder[r] = "ready"
  /\ answering[r] # 0
  /\ response' = [response EXCEPT ![r] = answering[r]]
  /\ answering' = [answering EXCEPT ![r] = 0]
  /\ handled' = [handled EXCEPT ![r] = @ + 1]
  /\ UNCHANGED <<settings, mainVars, responder, survey, received>>

\* Mutated form of HasExtra: the thread does not wait for the extra survey.
AtOnce(r) == TRUE

\* Is the extra survey there to be read?
HasExtra(r) == survey[r] # 0

\* The extra survey: the thread closes, and a response that nng has not sent
\* yet is lost.
GetExtra(r) ==
  /\ Running
  /\ responder[r] = "ready"
  /\ HasExtra(r)
  /\ answering[r] = 0
  /\ handled[r] = NReq
  /\ responder' = [responder EXCEPT ![r] = "closed"]
  /\ survey' = [survey EXCEPT ![r] = 0]
  /\ response' = [response EXCEPT ![r] = 0]
  /\ UNCHANGED <<settings, mainVars, handled, answering, received>>

ResponderStep(r) == Dial(r) \/ GetSurvey(r) \/ Respond(r) \/ GetExtra(r)

MainStep == Awake \/ SendSurvey \/ (\E r \in Responders : Collect(r)) \/ Expire \/ Join \/ Report

Next ==
  \/ MainStep
  \/ Fail
  \/ \E r \in Responders : ResponderStep(r) \/ Discard(r)

\* All threads run on; no call has to fail.
Spec == Init /\ [][Next]_vars /\ WF_vars(MainStep) /\ \A r \in Responders : WF_vars(ResponderStep(r))

------------------------------------------------------------------------------

\* "This ensures the surveyor got the last response before the respondent
\* exits" (performance/survey.cpp:27-28), however the threads are scheduled.
LastResponseFirst ==
  \A r \in Responders : responder[r] = "closed" => received[r] = NReq

\* "We don't need to worry about a timout" (performance/survey.cpp:4-5): when
\* the responders have dialed in time and the second socket takes their
\* responses, every survey gets all its responses and the program ends.
SurveyTimingsEnd == (punctual /\ ~oversize) ~> main \in {"done", "failed"}

\* Each of the two timings keeps the promise of a measurement: a clock stops only
\* when all responders of its phase have closed, and no time is reported when a
\* survey of either phase lost a response.
Clock(p) ==
  IF phase < p \/ (phase = p /\ main \in {"sleeping", "ready"}) THEN "idle"
  ELSE IF phase = p /\ main \in {"collecting", "joining"} THEN "running"
  ELSE "stopped"

Finished(p) == {r \in Responders : phase > p \/ (phase = p /\ responder[r] = "closed")}

Outcome ==
  IF main = "done" THEN "reported"
  ELSE IF main \in {"expired", "failed"} THEN "aborted"
  ELSE "busy"

Big == INSTANCE Measurement WITH
         Workers <- Responders, clock <- Clock(1), finished <- Finished(1), outcome <- Outcome
Small == INSTANCE Measurement WITH
           Workers <- Responders, clock <- Clock(2), finished <- Finished(2), outcome <- Outcome

SurveysAreMeasurements == Big!Spec /\ Small!Spec

==============================================================================
