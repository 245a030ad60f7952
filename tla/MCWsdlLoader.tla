---------------------------- MODULE MCWsdlLoader ----------------------------
(***************************************************************************)
(* Bounded instances of WsdlLoader: calls that ask for the same document or  *)
(* for three, and four documents, of which some import each other.          *)
(***************************************************************************)
EXTENDS WsdlLoader

CONSTANTS c1, c2, c3, c4, k, top, left, right, base

MCRoot == [c \in Calls |-> top]

\* top imports left and right, which both import base; left and base import
\* each other.
MCImports ==
  [d \in Docs |->
     CASE d = top -> <<left, right>>
       [] d = left -> <<base>>
       [] d = right -> <<base>>
       [] d = base -> <<left>>]

\* Two calls without a cache of their own, and a third one, of WSDL.open, with
\* the cache k, where two documents wait to be loaded.
OpenGiven == [c \in Calls |-> IF c = c3 THEN k ELSE None]
OpenPreloaded == [x \in UserCaches |-> {top, base}]

\* All calls pass k, in which all documents but one wait to be loaded.
SharedRoot ==
  [c \in Calls |->
     CASE c = c2 -> base [] c = c4 -> left [] OTHER -> top]
SharedGiven == [c \in Calls |-> k]
SharedPreloaded == [x \in UserCaches |-> Docs \ {right}]
=============================================================================
