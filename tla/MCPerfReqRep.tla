----------------------------- MODULE MCPerfReqRep -----------------------------
(***************************************************************************)
(* Both timings with a few requests each.                                  *)
(***************************************************************************)
EXTENDS PerfReqRep
==============================================================================
