----------------------------- MODULE MCOperations -----------------------------
(* Two operations o1 and o2.  All that o1 may declare, and some of what o2    *)
(* may, with an own style that differs from the binding's.                    *)
EXTENDS Operations

CONSTANTS o1, o2, e, f, p

MCOrder == <<o1, o2>>
MCElements == {Name(o1, ""), Name(o2, ""), Name(e, ""), Name(f, ""),
               Name(o1, "Response"), Name(o2, "Out")}
MCPartNames == {p}
MCInner == [n \in MCElements |->
              CASE n = Name(o1, "")         -> p
                [] n = Name(o1, "Response") -> Name(f, "")
                [] n = Name(e, "")          -> Name(e, "")
                [] OTHER                    -> None]

Part(element) == [name |-> p, element |-> element]

MCWsdls ==
  {[style |-> s,
    ops |-> (o1 :> [style |-> own, use |-> u, in |-> in, select |-> sel, out |-> out,
                    outSelect |-> outSel, outName |-> outName, faults |-> fault, headers |-> <<Part(Name(f, ""))>>]
          @@ o2 :> [style |-> "", use |-> "literal", in |-> in2, select |-> None,
                    out |-> <<Part(Name(o2, "Out"))>>, outSelect |-> None, outName |-> None,
                    faults |-> "element", headers |-> <<>>])] :
    s \in {"document", "rpc", None},
    own \in {"", "document", "rpc"},
    u \in {"literal", "encoded"},
    in \in {None, <<>>, <<Part(None)>>, <<Part(Name(o1, ""))>>,
            <<Part(Name(e, "")), Part(Name(o2, ""))>>},
    sel \in {None, <<2, 1>>, <<1>>},
    out \in {None, <<>>, <<Part(None)>>, <<Part(Name(o1, "Response"))>>,
             <<Part(Name(e, ""))>>, <<Part(Name(f, "")), Part(Name(e, ""))>>},
    outSel \in {None, <<2>>},
    outName \in {None, Name(e, "Response")},
    fault \in {"type", "empty"},
    in2 \in {<<Part(Name(o2, ""))>>, <<Part(Name(e, ""))>>}}
===============================================================================
