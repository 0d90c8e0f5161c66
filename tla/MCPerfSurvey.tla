----------------------------- MODULE MCPerfSurvey -----------------------------
(***************************************************************************)
(* Both timings with three responders.                                     *)
(***************************************************************************)
EXTENDS PerfSurvey
==============================================================================
