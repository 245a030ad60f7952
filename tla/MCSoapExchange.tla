--------------------------- MODULE MCSoapExchange ---------------------------
(***************************************************************************)
(* Bounded instances of SoapExchange: one client with two calls, one of a   *)
(* one-way operation, to services that share their Fault objects, of which  *)
(* one may be empty.  The properties of the composition do not look at HTTP *)
(* statuses, so that these objects are created without one.                 *)
(***************************************************************************)
EXTENDS SoapExchange

CONSTANTS call1, call2

MCFaultStatus == [f \in Faults |-> 0]
=============================================================================
