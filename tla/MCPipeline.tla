------------------------------ MODULE MCPipeline ------------------------------
(***************************************************************************)
(* Both programs of the push/pull pattern with two pullers.                *)
(***************************************************************************)
EXTENDS Pipeline
==============================================================================
