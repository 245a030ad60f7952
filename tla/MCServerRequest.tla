-------------------------- MODULE MCServerRequest --------------------------
(* Bounded instance of ServerRequest: two requests whose services share one *)
(* Fault object that was created with a status code, two callback calls per *)
(* request.                                                                 *)
EXTENDS ServerRequest

MCFaultStatus == [f \in Faults |-> 401]
=============================================================================
