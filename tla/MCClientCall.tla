---------------------------- MODULE MCClientCall ----------------------------
(***************************************************************************)
(* Bounded instances of ClientCall: two clients of one WSDL object, which    *)
(* make two calls, one of them of a one-way operation.                      *)
(***************************************************************************)
EXTENDS ClientCall

CONSTANTS call1, call2, h1
=============================================================================
