---------------------------- MODULE MCXsdDescribe ----------------------------
(* A small schema: a global element g with an anonymous type, complex types  *)
(* t1 and t2, of which t2 may extend t1, and a named group.                   *)
EXTENDS XsdDescribe

CONSTANTS g, u, p0, r, at, t1, p1, ea, gr, t2, cc, x, p2, eb, gd, p3, ec

MCNodes == {g, u, p0, r, at, t1, p1, ea, gr, t2, cc, x, p2, eb, gd, p3, ec}

MCClass == [n \in MCNodes |->
  CASE n \in {g, r, ea, eb, ec}       -> "element"
    [] n \in {u, t1, t2}           -> "complexType"
    [] n \in {p0, p1, p2, p3}      -> "particle"
    [] n \in {gr, gd}              -> "group"
    [] n = cc                      -> "content"
    [] n = x                       -> "extension"
    [] n = at                      -> "attribute"]

MCKids == [n \in MCNodes |->
  CASE n = g  -> <<u>>
    [] n = u  -> <<p0, at>>
    [] n = p0 -> <<r>>
    [] n = t1 -> <<p1>>
    [] n = p1 -> <<ea, gr>>
    [] n = t2 -> <<cc>>
    [] n = cc -> <<x>>
    [] n = x  -> <<p2>>
    [] n = p2 -> <<eb>>
    [] n = gd -> <<p3>>
    [] n = p3 -> <<ec>>
    [] OTHER  -> <<>>]

MCDepth == [n \in MCNodes |->
  CASE n \in {g, t1, t2, gd}         -> 0
    [] n \in {u, p1, cc, p3}         -> 1
    [] n \in {p0, at, ea, gr, x, ec} -> 2
    [] n \in {r, p2}                 -> 3
    [] n = eb                        -> 4]

MCLinks ==
  {[n \in MCNodes |->
     CASE n = r  -> toR
       [] n = ea  -> toA
       [] n = eb  -> toB
       [] n = ec  -> toC
       [] n = x  -> t1
       [] n = gr -> gd
       [] OTHER  -> None] :
   toR \in {t1, t2}, toA \in {None, t1, t2, g}, toB \in {t1, t2, g}, toC \in {None, t2}}

MCRepeatable == {r, p2}
MCTypeTable == <<t2, t1>>
MCRoots == {g}
==============================================================================
