---------------------------- MODULE MCRestrictions ----------------------------
(* Types with facets for numbers and types with facets for texts; numbers and *)
(* numerals about the places where they get one more digit, and the short      *)
(* texts over a letter, a space and a newline.                                 *)
EXTENDS Restrictions, SequencesExt

Unrestricted ==
  [base |-> "string", minExclusive |-> Unset, minInclusive |-> Unset,
   maxExclusive |-> Unset, maxInclusive |-> Unset, fractionDigits |-> Unset,
   totalDigits |-> Unset, length |-> Unset, minLength |-> Unset, maxLength |-> Unset,
   whiteSpace |-> Unset, pattern |-> Unset, enumeration |-> Unset]

MCRestrictions ==
  {[Unrestricted EXCEPT !.base = base, !.minExclusive = low, !.minInclusive = least,
                        !.maxExclusive = high, !.maxInclusive = most,
                        !.fractionDigits = fraction, !.totalDigits = total,
                        !.maxLength = long] :
     base \in {"number", "derived"}, low \in {Unset, 0}, least \in {Unset}, long \in {Unset, 3},
     high \in {Unset, 10}, most \in {Unset, 9}, fraction \in {Unset, 0, 1},
     total \in {Unset, 1, 2, 3}}
  \cup
  {[Unrestricted EXCEPT !.base = base, !.length = length, !.minLength = short,
                        !.maxLength = long, !.whiteSpace = space, !.pattern = pattern,
                        !.enumeration = values] :
     base \in {"string", "number", "derived"}, length \in {Unset, 2}, short \in {Unset, 1},
     long \in {Unset, 2}, space \in {Unset, "preserve", "replace", "collapse"},
     pattern \in {Unset, {<<Letter, Letter>>, <<9>>}},
     values \in {Unset, {<<Letter>>, <<Letter, Space>>, <<9>>}}}

MCNumbers == {0, 40, 90, 96, 100, 120, 900, 994, 996, 1000, 1134}

MCTexts == SeqOf({Letter, Space, Newline}, 3) \cup {<<9>>, <<1, 0>>, <<0, Dot, 9>>, <<9, Dot, 9, 4>>, <<Dot>>, <<Space, 9>>}
===============================================================================
