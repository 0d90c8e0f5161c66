------------------------------ MODULE MCRequests ------------------------------
(***************************************************************************)
(* Three clients, one of which stops the server, and three starts.         *)
(***************************************************************************)
EXTENDS Requests
==============================================================================
