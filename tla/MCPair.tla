-------------------------------- MODULE MCPair --------------------------------
(***************************************************************************)
(* Both programs of the pair pattern; the clients come serially or at once.*)
(***************************************************************************)
EXTENDS Pair
==============================================================================
