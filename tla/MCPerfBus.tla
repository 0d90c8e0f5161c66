------------------------------ MODULE MCPerfBus ------------------------------
(***************************************************************************)
(* performance/bus.cpp with a main thread and BusSize - 1 receivers.       *)
(***************************************************************************)
EXTENDS PerfBus
==============================================================================
