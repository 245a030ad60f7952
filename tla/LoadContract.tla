---------------------------- MODULE LoadContract ----------------------------
(***************************************************************************)
(* What src/src/soap.js and src/src/parser/wsdl.js promise to those who     *)
(* open a WSDL, without a word on how documents are read, cached or merged: *)
(* every call is answered once, with all the documents that its document    *)
(* reaches through imports, or with an error if one of them is defective.   *)
(***************************************************************************)
CONSTANTS
  Calls,       \* calls of createClient or WSDL.open
  Docs,        \* WSDL and XSD documents, by location
  Root,        \* the document that each call asks for
  Imported     \* the documents that each document includes or imports

VARIABLES
  outcome,     \* of each call: "none", "pending", "wsdl" or "error"
  found,       \* the documents in the definitions that a call was given
  defective    \* the documents that cannot be read or used, or not always

contractVars == <<outcome, found, defective>>

\* The least set that holds d and what its members import.
Reach(d) ==
  {e \in Docs : \A S \in SUBSET Docs :
     d \in S /\ (\A x \in S : Imported[x] \subseteq S) => e \in S}

ContractInit ==
  /\ outcome = [c \in Calls |-> "none"]
  /\ found = [c \in Calls |-> {}]
  /\ defective \in SUBSET Docs

Ask(c) ==
  /\ outcome[c] = "none"
  /\ outcome' = [outcome EXCEPT ![c] = "pending"]
  /\ UNCHANGED <<found, defective>>

Succeed(c) ==
  /\ outcome[c] = "pending"
  /\ outcome' = [outcome EXCEPT ![c] = "wsdl"]
  /\ found' = [found EXCEPT ![c] = Reach(Root[c])]
  /\ UNCHANGED defective

Fail(c) ==
  /\ outcome[c] = "pending"
  /\ Reach(Root[c]) \cap defective # {}
  /\ outcome' = [outcome EXCEPT ![c] = "error"]
  /\ UNCHANGED <<found, defective>>

ContractNext == \E c \in Calls : Ask(c) \/ Succeed(c) \/ Fail(c)

Contract ==
  /\ ContractInit
  /\ [][ContractNext]_contractVars
  /\ \A c \in Calls : WF_contractVars(Succeed(c) \/ Fail(c))
=============================================================================
