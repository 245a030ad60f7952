---------------------------- MODULE MCXmlReader ----------------------------
(***************************************************************************)
(* Bounded instance of XmlReader: messages of four elements, an Envelope,  *)
(* a Body, Faults, and items which may be nil, have an id or refer to one. *)
(***************************************************************************)
EXTENDS XmlReader

CONSTANTS item, label1

MCMarks ==
  [name \in Names |->
     CASE name = item -> {"nil", "id", "href"}
       [] OTHER -> {}]
=============================================================================
