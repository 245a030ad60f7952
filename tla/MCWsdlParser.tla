---------------------------- MODULE MCWsdlParser ----------------------------
(***************************************************************************)
(* Bounded instance of WsdlParser: documents of up to five elements that    *)
(* become objects, four deep, with two namespaces and with a prefix that has *)
(* two meanings, which are interchangeable.                                 *)
(***************************************************************************)
EXTENDS WsdlParser, TLC

CONSTANTS uri1, uri2

MCSymmetry == Permutations({uri1, uri2})
=============================================================================
