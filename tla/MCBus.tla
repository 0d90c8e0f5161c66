-------------------------------- MODULE MCBus --------------------------------
(***************************************************************************)
(* bus.cpp with a vector of three URIs; one member may be stopped and      *)
(* started again.                                                          *)
(***************************************************************************)
EXTENDS Bus
==============================================================================
