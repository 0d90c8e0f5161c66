--------------------------- MODULE PerfSurveyProofs ---------------------------
(***************************************************************************)
(* What holds of performance/survey.cpp for any number of responders and   *)
(* of surveys: nobody closes before main has got its last response.        *)
(***************************************************************************)
EXTENDS PerfSurvey, FiniteSetTheorems, TLAPS

MainStates == {"sleeping", "ready", "collecting", "joining", "timed", "done", "expired", "failed"}

\* Every variable has its type.
TypeOK ==
  /\ punctual \in BOOLEAN /\ oversize \in BOOLEAN
  /\ phase \in 1 .. 2
  /\ main \in MainStates
  /\ current \in 0 .. Extra
  /\ collected \in Nat
  /\ responder \in [Responders -> {"new", "ready", "closed"}]
  /\ handled \in [Responders -> 0 .. NReq]
  /\ survey \in [Responders -> 0 .. Extra]
  /\ answering \in [Responders -> 0 .. NReq]
  /\ response \in [Responders -> 0 .. NReq]
  /\ received \in [Responders -> 0 .. NReq]

\* A survey is with nng, or read, or responded to, and a responder has handled
\* all surveys before it; main has the responses to them.
InStep(r) ==
  /\ current - 1 <= received[r] /\ received[r] <= handled[r] /\ handled[r] <= current
  /\ survey[r] # 0 => (survey[r] = current /\ handled[r] = current - 1 /\ answering[r] = 0)
  /\ answering[r] # 0 => (answering[r] = current /\ handled[r] = current - 1)
  /\ response[r] # 0 => (response[r] = current /\ handled[r] = current /\ received[r] = current - 1)
  /\ responder[r] = "closed" => current = Extra

\* Those whose response to the current survey main has collected.
Counted == {r \in Responders : received[r] = current}

MainInStep ==
  /\ main \in {"sleeping", "ready"} => current = 0
  /\ main = "collecting" => (1 <= current /\ current <= NReq /\ collected = Cardinality(Counted))
  /\ main \in {"joining", "timed", "done"} => current = Extra
  /\ main \in {"timed", "done"} => phase = 2

IInv == TypeOK /\ (\A r \in Responders : InStep(r)) /\ MainInStep

\* When main has as many responses as there are responders, it has everybody's.
LEMMA CountedAll ==
  ASSUME IInv, main = "collecting", AllCollected
  PROVE  \A r \in Responders : received[r] = current
<1>1. Counted \subseteq Responders /\ Cardinality(Counted) = Cardinality(Responders)
  BY DEF Counted, IInv, MainInStep, AllCollected, NResp
<1>2. Counted = Responders
  BY <1>1, FS_Subset, PerfSurveyAssumption
<1>3. QED
  BY <1>2 DEF Counted

\* The initial states satisfy the invariant.
LEMMA InitInv == Init => IInv
  BY PerfSurveyAssumption
     DEF Init, IInv, TypeOK, MainStates, Extra, None, InStep, MainInStep

\* A new survey finds every response to the one before collected.
LEMMA SendSurveyKeepsInv == IInv /\ SendSurvey => IInv'
<1> SUFFICES ASSUME IInv, SendSurvey PROVE IInv'
  OBVIOUS
<1> USE PerfSurveyAssumption
<1>1. \A r \in Responders : received[r] = current /\ handled[r] = current
  <2>1. CASE main = "ready"
    BY <2>1 DEF IInv, TypeOK, InStep, MainInStep
  <2>2. CASE main = "collecting" /\ AllCollected
    BY <2>2, CountedAll DEF IInv, TypeOK, InStep
  <2>3. QED
    BY <2>1, <2>2 DEF SendSurvey
<1>2. current \in 0 .. NReq
  BY DEF SendSurvey, IInv, MainInStep, TypeOK
<1>3. TypeOK'
  BY <1>2 DEF SendSurvey, settings, messages, IInv, TypeOK, MainStates, Extra
<1>4. \A r \in Responders : InStep(r)'
  BY <1>1, <1>2 DEF SendSurvey, IInv, TypeOK, InStep, Extra
<1>5. MainInStep'
  <2>1. Counted' = {}
    BY <1>1, <1>2 DEF SendSurvey, Counted
  <2>2. Cardinality(Counted') = 0
    BY <2>1, FS_EmptySet
  <2>3. QED
    BY <2>2, <1>2 DEF SendSurvey, MainInStep, Extra
<1>6. QED
  BY <1>3, <1>4, <1>5 DEF IInv

\* A response is counted once.
LEMMA CollectKeepsInv == ASSUME NEW r \in Responders, IInv, Collect(r) PROVE IInv'
<1> USE PerfSurveyAssumption
<1>1. 1 <= current /\ current <= NReq /\ received[r] = current - 1 /\ handled[r] = current
  BY DEF Collect, IInv, TypeOK, InStep, MainInStep
<1>2. received' = [received EXCEPT ![r] = current]
  BY <1>1 DEF Collect, IInv, TypeOK
<1>3. TypeOK'
  BY <1>1, <1>2 DEF Collect, settings, messages, IInv, TypeOK
<1>4. \A q \in Responders : InStep(q)'
  BY <1>1, <1>2 DEF Collect, IInv, TypeOK, InStep, Extra
<1>5. MainInStep'
  <2>1. Counted' = Counted \cup {r} /\ r \notin Counted
    BY <1>1, <1>2 DEF Collect, Counted, IInv, TypeOK
  <2>2. IsFiniteSet(Counted)
    BY FS_Subset DEF Counted
  <2>3. Cardinality(Counted') = Cardinality(Counted) + 1
    BY <2>1, <2>2, FS_AddElement
  <2>4. QED
    BY <2>3 DEF Collect, MainInStep, IInv
<1>6. QED
  BY <1>3, <1>4, <1>5 DEF IInv

\* What main does besides keeps the invariant.
LEMMA MainKeepsInv == IInv /\ (MainStep \/ Fail) => IInv'
<1> SUFFICES ASSUME IInv, MainStep \/ Fail PROVE IInv'
  OBVIOUS
<1> USE PerfSurveyAssumption
<1>1. CASE Awake
  BY <1>1 DEF Awake, settings, messages, IInv, TypeOK, MainStates, InStep, MainInStep
<1>2. CASE Expire
  BY <1>2 DEF Expire, settings, messages, IInv, TypeOK, MainStates, InStep, MainInStep
<1>3. CASE Fail
  BY <1>3 DEF Fail, settings, messages, IInv, TypeOK, MainStates, InStep, MainInStep
<1>4. CASE Join
  <2>1. CASE phase = 1
    BY <1>4, <2>1 DEF Join, NewPhase, None, Extra, IInv, TypeOK, MainStates, InStep, MainInStep
  <2>2. CASE phase # 1
    BY <1>4, <2>2 DEF Join, messages, IInv, TypeOK, MainStates, InStep, MainInStep
  <2>3. QED
    BY <2>1, <2>2
<1>5. CASE Report
  BY <1>5 DEF Report, settings, messages, IInv, TypeOK, MainStates, InStep, MainInStep
<1>6. QED
  BY <1>1, <1>2, <1>3, <1>4, <1>5, SendSurveyKeepsInv, CollectKeepsInv DEF MainStep

\* What a responder, or nng with its response, does keeps the invariant.
LEMMA ResponderKeepsInv ==
  ASSUME NEW r \in Responders, IInv, ResponderStep(r) \/ Discard(r)
  PROVE  IInv'
<1> USE PerfSurveyAssumption DEF settings, mainVars, messages, IInv, TypeOK, InStep, Extra
<1>1. CASE Dial(r)
  BY <1>1 DEF Dial, MainInStep, Counted
<1>2. CASE GetSurvey(r)
  BY <1>2 DEF GetSurvey, MainInStep, Counted
<1>3. CASE Respond(r)
  BY <1>3 DEF Respond, MainInStep, Counted
<1>4. CASE GetExtra(r)
  BY <1>4 DEF GetExtra, HasExtra, MainInStep, Counted
<1>5. CASE Discard(r)
  BY <1>5 DEF Discard, MainInStep, Counted
<1>6. QED
  BY <1>1, <1>2, <1>3, <1>4, <1>5 DEF ResponderStep

\* The inductive invariant of survey.cpp.
THEOREM InductiveInvariant == Spec => []IInv
<1>1. IInv /\ [Next]_vars => IInv'
  <2>1. CASE Next
    BY <2>1, MainKeepsInv, ResponderKeepsInv DEF Next
  <2>2. CASE UNCHANGED vars
    BY <2>2 DEF vars, settings, mainVars, messages, IInv, TypeOK, InStep, MainInStep, Counted
  <2>3. QED
    BY <2>1, <2>2
<1>2. QED
  BY InitInv, <1>1, PTL DEF Spec

\* "This ensures the surveyor got the last response before the respondent
\* exits" (performance/survey.cpp:27-28).
THEOREM LastResponseIsCollected == Spec => []LastResponseFirst
<1>1. IInv => LastResponseFirst
  BY PerfSurveyAssumption DEF IInv, TypeOK, InStep, LastResponseFirst, Extra
<1>2. QED
  BY <1>1, InductiveInvariant, PTL

------------------------------------------------------------------------------

\* What a step of a measurement may do with the clock, the finished responders
\* and the outcome of phase p.
Stays(p) == UNCHANGED <<Clock(p), Finished(p), Outcome>>
Starts(p) ==
  /\ Outcome = "busy" /\ Clock(p) = "idle" /\ Clock(p)' = "running"
  /\ UNCHANGED <<Finished(p), Outcome>>
Finishes(p, r) ==
  /\ Outcome = "busy" /\ Clock(p) = "running"
  /\ r \notin Finished(p) /\ Finished(p)' = Finished(p) \cup {r}
  /\ UNCHANGED <<Clock(p), Outcome>>
Stops(p) ==
  /\ Outcome = "busy" /\ Clock(p) = "running" /\ Clock(p)' = "stopped"
  /\ Finished(p) = Responders
  /\ UNCHANGED <<Finished(p), Outcome>>
Reports(p) ==
  /\ Outcome = "busy" /\ Outcome' = "reported" /\ Clock(p) = "stopped"
  /\ UNCHANGED <<Clock(p), Finished(p)>>
Aborts(p) ==
  /\ Outcome = "busy" /\ Outcome' = "aborted"
  /\ Clock(p)' \in {"idle", "running", "stopped"}
  /\ UNCHANGED Finished(p)
Measures(p) ==
  Stays(p) \/ Starts(p) \/ (\E r \in Responders : Finishes(p, r)) \/ Stops(p) \/ Reports(p) \/ Aborts(p)

\* The steps of main, in either phase.
LEMMA MainMeasures ==
  ASSUME NEW p \in 1 .. 2, IInv, MainStep \/ Fail
  PROVE  Measures(p)
<1> USE DEF IInv, TypeOK, MainStates, MainInStep
<1>1. CASE Awake
  BY <1>1 DEF Awake, settings, messages, Clock, Finished, Outcome, Measures, Stays
<1>2. CASE SendSurvey
  <2>1. Finished(p)' = Finished(p)
    BY <1>2 DEF SendSurvey, settings, Finished
  <2>2. Outcome = "busy" /\ Outcome' = "busy"
    BY <1>2 DEF SendSurvey, Outcome
  <2>3. Clock(p)' = Clock(p) \/ (Clock(p) = "idle" /\ Clock(p)' = "running")
    BY <1>2 DEF SendSurvey, settings, Clock
  <2>4. QED
    BY <2>1, <2>2, <2>3 DEF Measures, Stays, Starts
<1>3. ASSUME NEW r \in Responders, Collect(r) PROVE Measures(p)
  BY <1>3 DEF Collect, settings, Clock, Finished, Outcome, Measures, Stays
<1>4. CASE Join
  <2>1. Outcome = "busy" /\ Outcome' = "busy"
    BY <1>4 DEF Join, NewPhase, Outcome
  <2>2. CASE phase = p
    <3>1. Clock(p) = "running" /\ Clock(p)' = "stopped"
      BY <1>4, <2>2 DEF Join, NewPhase, Clock
    <3>2. Finished(p) = Responders /\ Finished(p)' = Responders
      BY <1>4, <2>2 DEF Join, NewPhase, AllClosed, Finished
    <3>3. QED
      BY <2>1, <3>1, <3>2 DEF Measures, Stops
  <2>3. CASE phase # p
    <3>1. Clock(p)' = Clock(p)
      BY <1>4, <2>3 DEF Join, NewPhase, Clock
    <3>2. Finished(p)' = Finished(p)
      BY <1>4, <2>3 DEF Join, NewPhase, Finished
    <3>3. QED
      BY <2>1, <3>1, <3>2 DEF Measures, Stays
  <2>4. QED
    BY <2>2, <2>3
<1>5. CASE Report
  BY <1>5 DEF Report, settings, messages, Clock, Finished, Outcome, Measures, Reports
<1>6. CASE Expire \/ Fail
  <2>1. Outcome = "busy" /\ Outcome' = "aborted"
    BY <1>6 DEF Expire, Fail, Running, Outcome
  <2>2. Clock(p)' \in {"idle", "running", "stopped"}
    BY DEF Clock
  <2>3. Finished(p)' = Finished(p)
    BY <1>6 DEF Expire, Fail, settings, Finished
  <2>4. QED
    BY <2>1, <2>2, <2>3 DEF Measures, Aborts
<1>7. QED
  BY <1>1, <1>2, <1>3, <1>4, <1>5, <1>6 DEF MainStep

\* A responder that closes has read the extra survey: main is in its joins, and
\* the clock runs.
LEMMA ResponderMeasures ==
  ASSUME NEW p \in 1 .. 2, NEW r \in Responders, IInv, IInv', ResponderStep(r) \/ Discard(r)
  PROVE  Measures(p)
<1>1. UNCHANGED <<settings, mainVars>>
  BY DEF ResponderStep, Dial, GetSurvey, Respond, GetExtra, Discard
<1>2. Clock(p)' = Clock(p) /\ Outcome' = Outcome
  BY <1>1 DEF settings, mainVars, Clock, Outcome
<1>3. CASE GetExtra(r)
  <2>1. responder'[r] = "closed" /\ responder[r] # "closed" /\ Running
    BY <1>3 DEF GetExtra, IInv, TypeOK
  <2>2. main = "joining"
    BY <1>1, <2>1, PerfSurveyAssumption
       DEF mainVars, Running, IInv, TypeOK, InStep, MainInStep, Extra
  <2>3. CASE phase = p
    <3>1. Clock(p) = "running" /\ Outcome = "busy"
      BY <2>2, <2>3 DEF Clock, Outcome, IInv, TypeOK
    <3>2. r \notin Finished(p) /\ Finished(p)' = Finished(p) \cup {r}
      BY <1>1, <1>3, <2>1, <2>3 DEF GetExtra, settings, Finished, IInv, TypeOK
    <3>3. QED
      BY <1>2, <3>1, <3>2 DEF Measures, Finishes
  <2>4. CASE phase # p
    BY <1>1, <1>2, <2>4 DEF settings, Finished, Measures, Stays
  <2>5. QED
    BY <2>3, <2>4
<1>4. CASE ~GetExtra(r)
  <2>1. \A q \in Responders : responder'[q] = "closed" <=> responder[q] = "closed"
    BY <1>4 DEF ResponderStep, Dial, GetSurvey, Respond, Discard, IInv, TypeOK
  <2>2. Finished(p)' = Finished(p)
    BY <1>1, <2>1 DEF settings, Finished
  <2>3. QED
    BY <1>2, <2>2 DEF Measures, Stays
<1>5. QED
  BY <1>3, <1>4

\* In either phase the clock stops only when every responder has closed, and a
\* time is reported of stopped clocks only.
THEOREM KeepsTheMeasurement == Spec => SurveysAreMeasurements
<1>1. ASSUME NEW p \in 1 .. 2, IInv, IInv', [Next]_vars
      PROVE  Measures(p)
  <2>1. CASE UNCHANGED vars
    BY <2>1 DEF vars, settings, mainVars, Clock, Finished, Outcome, Measures, Stays
  <2>2. QED
    BY <1>1, <2>1, MainMeasures, ResponderMeasures DEF Next
<1>2. ASSUME NEW p \in 1 .. 2, Init
      PROVE  Clock(p) = "idle" /\ Finished(p) = {} /\ Outcome = "busy"
  BY <1>2 DEF Init, Clock, Finished, Outcome
<1>3. IInv /\ IInv' /\ [Next]_vars => [Big!Next]_(Big!vars)
  BY <1>1 DEF Measures, Stays, Starts, Finishes, Stops, Reports, Aborts,
     Big!Next, Big!Start, Big!Finish, Big!Stop, Big!Report, Big!Abort, Big!vars
<1>4. IInv /\ IInv' /\ [Next]_vars => [Small!Next]_(Small!vars)
  BY <1>1 DEF Measures, Stays, Starts, Finishes, Stops, Reports, Aborts,
     Small!Next, Small!Start, Small!Finish, Small!Stop, Small!Report, Small!Abort, Small!vars
<1>5. Init => Big!Init /\ Small!Init
  BY <1>2 DEF Big!Init, Small!Init
<1>6. QED
  BY <1>3, <1>4, <1>5, InductiveInvariant, PTL DEF Spec, SurveysAreMeasurements, Big!Spec, Small!Spec

------------------------------------------------------------------------------

\* What the threads that main waits for hold: who has not responded has the
\* survey, or the response is under way, unless a sleep was too short or the
\* response is too big; and the extra survey reaches everybody, unless a sleep
\* was too short and it is the only one.
Awaited(r) ==
  /\ responder[r] = "new" => handled[r] = 0
  /\ (punctual /\ main \in {"ready", "collecting", "joining"}) => responder[r] # "new"
  /\ (punctual /\ ~TooBig /\ main = "collecting" /\ received[r] # current)
       => (survey[r] # 0 \/ answering[r] # 0 \/ response[r] # 0)
  /\ ((punctual \/ NReq > 0) /\ main = "joining" /\ responder[r] # "closed")
       => (responder[r] = "ready" /\ survey[r] # 0)

LEMMA AwaitedAtFirst == Init => \A r \in Responders : Awaited(r)
  BY DEF Init, None, Awaited

LEMMA MainKeepsAwaited ==
  ASSUME IInv, NEW r \in Responders, Awaited(r), MainStep \/ Fail
  PROVE  Awaited(r)'
<1> USE PerfSurveyAssumption
<1>1. CASE Awake
  <2>1. /\ main' = "ready" /\ (punctual => responder[r] = "ready")
        /\ UNCHANGED <<punctual, responder, handled>>
    BY <1>1 DEF Awake, settings
  <2>2. QED
    BY <2>1 DEF Awaited
<1>2. CASE SendSurvey
  <2>1. /\ main \in {"ready", "collecting"} /\ main' \in {"collecting", "joining"}
        /\ current' = current + 1
        /\ survey'[r] = IF responder[r] = "ready" THEN current + 1 ELSE survey[r]
        /\ UNCHANGED <<punctual, responder, handled>>
    BY <1>2 DEF SendSurvey, settings
  <2>2. current \in 0 .. NReq /\ responder[r] \in {"new", "ready"}
    BY <1>2, <2>1 DEF SendSurvey, IInv, TypeOK, InStep, MainInStep, Extra
  <2>3. responder[r] = "ready" => survey'[r] # 0
    BY <2>1, <2>2
  <2>4. punctual => responder[r] = "ready"
    BY <2>1, <2>2 DEF Awaited
  <2>5. (NReq > 0 /\ main' = "joining") => responder[r] = "ready"
    <3>1. ASSUME NReq > 0, main' = "joining" PROVE handled[r] # 0
      <4>1. current = NReq
        BY <1>2, <2>2, <3>1 DEF SendSurvey, Extra
      <4>2. main = "collecting" /\ AllCollected
        BY <1>2, <2>1, <3>1, <4>1 DEF SendSurvey, IInv, MainInStep
      <4>3. received[r] = NReq
        BY <4>1, <4>2, CountedAll
      <4>4. QED
        BY <3>1, <4>3 DEF IInv, TypeOK, InStep
    <3>2. QED
      BY <2>2, <3>1 DEF Awaited
  <2>6. QED
    BY <2>1, <2>3, <2>4, <2>5 DEF Awaited
<1>3. ASSUME NEW q \in Responders, Collect(q) PROVE Awaited(r)'
  <2>1. /\ UNCHANGED <<settings, main, current, responder, handled, survey, answering>>
        /\ main = "collecting"
        /\ r # q => response'[r] = response[r] /\ received'[r] = received[r]
    BY <1>3 DEF Collect, IInv, TypeOK
  <2>2. received'[q] = current
    <3>1. received[q] = current - 1 /\ received'[q] = received[q] + 1 /\ current \in Nat
      BY <1>3 DEF Collect, IInv, TypeOK, InStep, MainInStep
    <3>2. QED
      BY <3>1
  <2>3. QED
    BY <2>1, <2>2 DEF Awaited, TooBig, settings
<1>4. CASE Expire \/ Fail
  <2>1. main' \in {"expired", "failed"} /\ UNCHANGED <<responder, handled>>
    BY <1>4 DEF Expire, Fail
  <2>2. QED
    BY <2>1 DEF Awaited
<1>5. CASE Join
  BY <1>5 DEF Join, NewPhase, None, Awaited
<1>6. CASE Report
  BY <1>6 DEF Report, Awaited
<1>7. QED
  BY <1>1, <1>2, <1>3, <1>4, <1>5, <1>6 DEF MainStep

LEMMA ResponderKeepsAwaited ==
  ASSUME IInv, NEW r \in Responders, Awaited(r), NEW q \in Responders, ResponderStep(q) \/ Discard(q)
  PROVE  Awaited(r)'
<1> USE PerfSurveyAssumption
<1>1. UNCHANGED <<settings, mainVars>>
  BY DEF ResponderStep, Dial, GetSurvey, Respond, GetExtra, Discard
<1>2. CASE r # q
  <2>1. /\ responder'[r] = responder[r] /\ handled'[r] = handled[r] /\ survey'[r] = survey[r]
        /\ answering'[r] = answering[r] /\ response'[r] = response[r] /\ received'[r] = received[r]
    BY <1>2 DEF ResponderStep, Dial, GetSurvey, Respond, GetExtra, Discard, messages, IInv, TypeOK
  <2>2. QED
    BY <1>1, <2>1 DEF Awaited, TooBig, settings, mainVars
<1>3. CASE r = q
  <2>1. CASE Dial(r)
    <3>1. responder[r] = "new" /\ responder'[r] = "ready" /\ UNCHANGED <<handled, messages>>
      BY <2>1 DEF Dial, IInv, TypeOK
    <3>2. QED
      BY <1>1, <3>1 DEF Awaited, TooBig, settings, mainVars, messages
  <2>2. CASE GetSurvey(r)
    <3>1. /\ responder[r] = "ready" /\ answering'[r] # 0 /\ survey[r] # 0 /\ handled[r] < NReq
          /\ UNCHANGED <<responder, handled>>
      BY <2>2 DEF GetSurvey, IInv, TypeOK
    <3>2. main # "joining"
      BY <3>1 DEF IInv, TypeOK, InStep, MainInStep, Extra
    <3>3. QED
      BY <1>1, <3>1, <3>2 DEF Awaited, settings, mainVars
  <2>3. CASE Respond(r)
    <3>1. /\ responder[r] = "ready" /\ response'[r] # 0
          /\ UNCHANGED <<responder, survey>>
      BY <2>3 DEF Respond, IInv, TypeOK
    <3>2. QED
      BY <1>1, <3>1 DEF Awaited, settings, mainVars
  <2>4. CASE GetExtra(r)
    <3>1. responder'[r] = "closed" /\ survey[r] # 0 /\ handled[r] = NReq
      BY <2>4 DEF GetExtra, HasExtra, IInv, TypeOK
    <3>2. main # "collecting"
      BY <3>1 DEF IInv, TypeOK, InStep, MainInStep
    <3>3. QED
      BY <1>1, <3>1, <3>2 DEF Awaited, mainVars
  <2>5. CASE Discard(r)
    <3>1. /\ response[r] # current \/ main = "joining" \/ TooBig
          /\ response[r] # 0
          /\ UNCHANGED <<responder, handled, survey, answering>>
      BY <2>5 DEF Discard
    <3>2. main # "collecting" \/ TooBig
      BY <3>1 DEF IInv, InStep
    <3>3. QED
      BY <1>1, <3>1, <3>2 DEF Awaited, TooBig, settings, mainVars
  <2>6. QED
    BY <1>3, <2>1, <2>2, <2>3, <2>4, <2>5 DEF ResponderStep
<1>4. QED
  BY <1>2, <1>3

LEMMA AwaitedAlways == Spec => [](\A r \in Responders : Awaited(r))
<1>1. ASSUME IInv, \A r \in Responders : Awaited(r), [Next]_vars
      PROVE  (\A r \in Responders : Awaited(r))'
  <2>1. CASE UNCHANGED vars
    BY <1>1, <2>1 DEF vars, settings, mainVars, messages, Awaited, TooBig
  <2>2. CASE Next
    BY <1>1, <2>2, MainKeepsAwaited, ResponderKeepsAwaited DEF Next
  <2>3. QED
    BY <1>1, <2>1, <2>2
<1>2. QED
  BY <1>1, AwaitedAtFirst, InductiveInvariant, PTL DEF Spec

\* Can main, or nng for it, take a step, or the thread r?  The guards of MainStep
\* and of ResponderStep.
MainCanStep ==
  \/ main \in {"ready", "timed"}
  \/ main = "sleeping" /\ (punctual => \A r \in Responders : responder[r] = "ready")
  \/ main = "collecting" /\ AllCollected
  \/ /\ main = "collecting" /\ ~AllCollected
     /\ ~punctual \/ TooBig \/ \E r \in Responders : response[r] = current
  \/ main = "joining" /\ AllClosed

CanStep(r) ==
  /\ Running
  /\ \/ responder[r] = "new"
     \/ responder[r] = "ready" /\ (survey[r] # 0 \/ answering[r] # 0)

\* The only wait that may never end is that of main for a thread that missed the
\* extra survey, when that was the only one and the sleep before it too short.
THEOREM WaitsEnd ==
  Spec => [](\/ main \in {"done", "expired", "failed"}
             \/ MainCanStep
             \/ \E r \in Responders : CanStep(r)
             \/ /\ NReq = 0 /\ ~punctual /\ main = "joining"
                /\ \E r \in Responders : responder[r] = "ready" /\ survey[r] = 0)
<1> DEFINE Missed == /\ NReq = 0 /\ ~punctual /\ main = "joining"
                     /\ \E r \in Responders : responder[r] = "ready" /\ survey[r] = 0
<1>1. ASSUME IInv, \A r \in Responders : Awaited(r), main \notin {"done", "expired", "failed"},
             ~MainCanStep, \A r \in Responders : ~CanStep(r)
      PROVE  Missed
  <2>1. main \in {"sleeping", "collecting", "joining"} /\ Running
    BY <1>1 DEF MainCanStep, Running, IInv, TypeOK, MainStates
  <2>2. ASSUME NEW r \in Responders
        PROVE  \/ responder[r] = "closed" /\ current = Extra
               \/ responder[r] = "ready" /\ survey[r] = 0 /\ answering[r] = 0
    BY <1>1, <2>1 DEF CanStep, IInv, TypeOK, InStep
  <2>3. main # "sleeping"
    BY <1>1, <2>2, PerfSurveyAssumption DEF MainCanStep, IInv, MainInStep, Extra
  <2>4. main # "collecting"
    <3>1. ASSUME main = "collecting" PROVE FALSE
      <4>1. punctual /\ ~TooBig /\ ~AllCollected /\ \A r \in Responders : response[r] # current
        BY <1>1, <3>1 DEF MainCanStep
      <4>2. PICK r \in Responders : received[r] # current
        <5>1. ASSUME \A r \in Responders : received[r] = current PROVE FALSE
          <6>1. Counted = Responders
            BY <5>1 DEF Counted
          <6>2. QED
            BY <1>1, <3>1, <4>1, <6>1 DEF IInv, MainInStep, AllCollected, NResp
        <5>2. QED
          BY <5>1
      <4>3. current # Extra
        BY <1>1, <3>1, PerfSurveyAssumption DEF IInv, TypeOK, MainInStep, Extra
      <4>4. responder[r] = "ready" /\ survey[r] = 0 /\ answering[r] = 0
        BY <2>2, <4>3
      <4>5. response[r] = 0
        BY <1>1, <4>1 DEF IInv, InStep
      <4>6. QED
        BY <1>1, <3>1, <4>1, <4>2, <4>4, <4>5 DEF Awaited
    <3>2. QED
      BY <3>1
  <2>5. main = "joining" /\ ~AllClosed
    BY <1>1, <2>1, <2>3, <2>4 DEF MainCanStep
  <2>6. PICK r \in Responders : responder[r] = "ready" /\ survey[r] = 0
    BY <2>2, <2>5 DEF AllClosed
  <2>7. ~punctual /\ NReq = 0
    BY <1>1, <2>5, <2>6, PerfSurveyAssumption DEF Awaited
  <2>8. QED
    BY <2>5, <2>6, <2>7
<1>2. IInv /\ (\A r \in Responders : Awaited(r)) =>
        (\/ main \in {"done", "expired", "failed"}
         \/ MainCanStep
         \/ \E r \in Responders : CanStep(r)
         \/ Missed)
  BY <1>1
<1>3. QED
  BY <1>2, InductiveInvariant, AwaitedAlways, PTL

\* What is left of both timings for main, and of this one for a thread and for
\* nng with its messages.
OfMain ==
  LET ahead == IF phase = 1 THEN NReq + 5 ELSE 0 IN
    IF main = "sleeping" THEN ahead + NReq + 5 ELSE
    IF main = "ready" THEN ahead + NReq + 4 ELSE
    IF main = "collecting" THEN ahead + NReq + 3 - current ELSE
    IF main = "joining" THEN ahead + 2 ELSE
    IF main = "timed" THEN 1 ELSE 0

PlaceOf(r) == IF responder[r] = "new" THEN 2 ELSE IF responder[r] = "ready" THEN 1 ELSE 0

OfThread(r) ==
  PlaceOf(r) + (IF survey[r] # 0 THEN 3 ELSE 0)
  + (IF answering[r] # 0 THEN 2 ELSE 0) + (IF response[r] # 0 THEN 1 ELSE 0)

\* Main has less left, or it has as much and a thread has less.
Fewer ==
  \/ OfMain' < OfMain
  \/ /\ OfMain' = OfMain
     /\ \A r \in Responders : OfThread(r)' <= OfThread(r)
     /\ \E r \in Responders : OfThread(r)' < OfThread(r)

\* One thread, or its message, has less left, and main and the others as much.
LEMMA OneCounts ==
  ASSUME OfMain' = OfMain, NEW r \in Responders,
         \A q \in Responders : OfThread(q) \in 0 .. 8,
         NEW d \in 1 .. 8, OfThread(r)' = OfThread(r) - d,
         \A q \in Responders \ {r} : OfThread(q)' = OfThread(q)
  PROVE  Fewer
<1>1. OfThread(r)' < OfThread(r)
  OBVIOUS
<1>2. ASSUME NEW q \in Responders PROVE OfThread(q)' <= OfThread(q)
  <2>1. CASE q = r
    BY <2>1
  <2>2. CASE q # r
    BY <2>2
  <2>3. QED
    BY <2>1, <2>2
<1>3. QED
  BY <1>1, <1>2 DEF Fewer

\* What is left is a number.
LEMMA PartsAreNumbers ==
  IInv => /\ OfMain \in 0 .. 2 * NReq + 10
          /\ \A r \in Responders : OfThread(r) \in 0 .. 8
<1>1. ASSUME IInv PROVE OfMain \in 0 .. 2 * NReq + 10
  <2>1. NReq \in Nat /\ (main = "collecting" => current \in 1 .. NReq)
    BY <1>1, PerfSurveyAssumption DEF IInv, TypeOK, MainInStep
  <2>2. QED
    BY <2>1 DEF OfMain
<1>2. ASSUME IInv, NEW r \in Responders PROVE OfThread(r) \in 0 .. 8
  BY <1>2 DEF OfThread, PlaceOf
<1>3. QED
  BY <1>1, <1>2

\* A step of main, or of nng for it.
LEMMA MainCounts == ASSUME IInv, MainStep \/ Fail PROVE Fewer
<1>1. NReq \in Nat /\ phase \in 1 .. 2 /\ (main = "collecting" => current \in 1 .. NReq)
  BY PerfSurveyAssumption DEF IInv, TypeOK, MainInStep
<1>2. CASE Awake
  <2>1. main = "sleeping" /\ main' = "ready" /\ phase' = phase
    BY <1>2 DEF Awake, settings
  <2>2. QED
    BY <1>1, <2>1 DEF OfMain, Fewer
<1>3. CASE SendSurvey
  <2>1. phase' = phase /\ current' = current + 1
    BY <1>3 DEF SendSurvey, settings
  <2>2. CASE main = "ready"
    <3>1. current = 0
      BY <2>2 DEF IInv, MainInStep
    <3>2. main' = "joining" \/ (main' = "collecting" /\ current' = 1)
      BY <1>3, <2>1, <3>1 DEF SendSurvey
    <3>3. QED
      BY <1>1, <2>1, <2>2, <3>2 DEF OfMain, Fewer
  <2>3. CASE main = "collecting"
    <3>1. current' = Extra => main' = "joining"
      BY <1>3 DEF SendSurvey
    <3>2. current' # Extra => main' = "collecting"
      BY <1>3 DEF SendSurvey
    <3>3. QED
      BY <1>1, <2>1, <2>3, <3>1, <3>2 DEF OfMain, Fewer, Extra
  <2>4. QED
    BY <1>3, <2>2, <2>3 DEF SendSurvey
<1>4. ASSUME NEW r \in Responders, Collect(r) PROVE Fewer
  <2>1. OfMain' = OfMain
    BY <1>4 DEF Collect, settings, OfMain
  <2>2. response[r] # 0 /\ response'[r] = 0
    BY <1>1, <1>4 DEF Collect, IInv, TypeOK
  <2>3. OfThread(r)' = OfThread(r) - 1
    BY <1>4, <2>2 DEF Collect, OfThread, PlaceOf
  <2>4. \A q \in Responders \ {r} : OfThread(q)' = OfThread(q)
    BY <1>4 DEF Collect, IInv, TypeOK, OfThread, PlaceOf
  <2>5. QED
    BY <2>1, <2>3, <2>4, OneCounts, PartsAreNumbers
<1>5. CASE Join
  <2>1. CASE phase = 1
    <3>1. main = "joining" /\ main' = "sleeping" /\ phase' = 2
      BY <1>5, <2>1 DEF Join, NewPhase
    <3>2. QED
      BY <1>1, <2>1, <3>1 DEF OfMain, Fewer
  <2>2. CASE phase = 2
    <3>1. main = "joining" /\ main' = "timed" /\ phase' = 2
      BY <1>5, <2>2 DEF Join
    <3>2. QED
      BY <1>1, <2>2, <3>1 DEF OfMain, Fewer
  <2>3. QED
    BY <1>1, <2>1, <2>2
<1>6. CASE Report \/ Expire \/ Fail
  <2>1. main \in {"sleeping", "ready", "collecting", "joining", "timed"} /\ main' \in {"done", "expired", "failed"}
    BY <1>6 DEF Report, Expire, Fail, Running
  <2>2. OfMain' = 0
    BY <2>1 DEF OfMain
  <2>3. OfMain > 0
    BY <1>1, <2>1 DEF OfMain
  <2>4. QED
    BY <2>2, <2>3 DEF Fewer
<1>7. QED
  BY <1>2, <1>3, <1>4, <1>5, <1>6 DEF MainStep

\* A step of a thread, or of nng with its response.
LEMMA ResponderCounts ==
  ASSUME IInv, NEW r \in Responders, ResponderStep(r) \/ Discard(r) PROVE Fewer
<1>1. UNCHANGED <<settings, mainVars>>
  BY DEF ResponderStep, Dial, GetSurvey, Respond, GetExtra, Discard
<1>2. OfMain' = OfMain
  BY <1>1 DEF settings, mainVars, OfMain
<1>3. ASSUME NEW q \in Responders \ {r} PROVE OfThread(q)' = OfThread(q)
  <2>1. responder'[q] = responder[q] /\ survey'[q] = survey[q]
        /\ answering'[q] = answering[q] /\ response'[q] = response[q]
    BY DEF ResponderStep, Dial, GetSurvey, Respond, GetExtra, Discard, messages, IInv, TypeOK
  <2>2. QED
    BY <2>1 DEF OfThread, PlaceOf
<1>4. \E d \in 1 .. 8 : OfThread(r)' = OfThread(r) - d
  <2>1. CASE Dial(r)
    <3>1. responder[r] = "new" /\ responder'[r] = "ready" /\ UNCHANGED messages
      BY <2>1 DEF Dial, IInv, TypeOK
    <3>2. OfThread(r)' = OfThread(r) - 1
      BY <3>1 DEF messages, OfThread, PlaceOf
    <3>3. QED
      BY <3>2
  <2>2. CASE GetSurvey(r)
    <3>1. /\ survey[r] # 0 /\ survey'[r] = 0 /\ answering[r] = 0 /\ answering'[r] # 0
          /\ UNCHANGED <<responder, response>>
      BY <2>2 DEF GetSurvey, IInv, TypeOK
    <3>2. OfThread(r)' = OfThread(r) - 1
      BY <3>1 DEF OfThread, PlaceOf
    <3>3. QED
      BY <3>2
  <2>3. CASE Respond(r)
    <3>1. /\ answering[r] # 0 /\ answering'[r] = 0 /\ response'[r] # 0
          /\ UNCHANGED <<responder, survey>>
      BY <2>3 DEF Respond, IInv, TypeOK
    <3>2. OfThread(r)' = OfThread(r) - 1 \/ OfThread(r)' = OfThread(r) - 2
      BY <3>1 DEF OfThread, PlaceOf
    <3>3. QED
      BY <3>2
  <2>4. CASE GetExtra(r)
    <3>1. /\ responder[r] = "ready" /\ responder'[r] = "closed"
          /\ survey[r] # 0 /\ survey'[r] = 0 /\ response'[r] = 0
          /\ UNCHANGED answering
      BY <2>4 DEF GetExtra, HasExtra, IInv, TypeOK
    <3>2. OfThread(r)' = OfThread(r) - 4 \/ OfThread(r)' = OfThread(r) - 5
      BY <3>1 DEF OfThread, PlaceOf
    <3>3. QED
      BY <3>2
  <2>5. CASE Discard(r)
    <3>1. /\ response[r] # 0 /\ response'[r] = 0
          /\ UNCHANGED <<responder, survey, answering>>
      BY <2>5 DEF Discard, IInv, TypeOK
    <3>2. OfThread(r)' = OfThread(r) - 1
      BY <3>1 DEF OfThread, PlaceOf
    <3>3. QED
      BY <3>2
  <2>6. QED
    BY <2>1, <2>2, <2>3, <2>4, <2>5 DEF ResponderStep
<1>5. PICK d \in 1 .. 8 : OfThread(r)' = OfThread(r) - d
  BY <1>4
<1>6. QED
  BY <1>2, <1>3, <1>5, OneCounts, PartsAreNumbers

\* Both timings come to rest: every step leaves less to do, in an order with no
\* endless descent (main first, then thread by thread), whatever is missed,
\* dropped, too late or fails.
THEOREM ComesToRest ==
  Spec => /\ [](/\ OfMain \in 0 .. 2 * NReq + 10
                /\ \A r \in Responders : OfThread(r) \in 0 .. 8)
          /\ [][Fewer]_vars
<1>1. IInv /\ [Next]_vars => [Fewer]_vars
  BY MainCounts, ResponderCounts DEF Next
<1>2. QED
  BY <1>1, PartsAreNumbers, InductiveInvariant, PTL DEF Spec

==============================================================================
