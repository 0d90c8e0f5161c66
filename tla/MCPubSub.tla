------------------------------- MODULE MCPubSub -------------------------------
(***************************************************************************)
(* Both programs of the publish/subscribe pattern.                         *)
(***************************************************************************)
EXTENDS PubSub
==============================================================================
