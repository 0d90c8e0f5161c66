------------------------------- MODULE MCSurvey -------------------------------
(***************************************************************************)
(* One respondent with an even pid and one with an odd pid; each run sends *)
(* each kind of survey.                                                    *)
(***************************************************************************)
EXTENDS Survey
==============================================================================
