----------------------------- MODULE Restrictions -----------------------------
(***************************************************************************)
(* Restriction.enforce, by which XMLHandler.jsonToXml checks the value of a *)
(* simple type before it is written (with the option enforceRestrictions).  *)
(*                                                                         *)
(* The method goes through the facets in a fixed order, and some of them   *)
(* change the value that the next ones see: a number becomes a text with   *)
(* toFixed, a text is normalised.  Each stage is an action; `val' is what   *)
(* the next stage sees.  At the end the value is sent as text, or an error *)
(* names the facets that it violates.                                      *)
(*                                                                         *)
(* Numbers are not negative and are counted in hundredths; the ties that   *)
(* toFixed rounds by the binary form of a number are left out.  Texts are  *)
(* sequences of characters, in the order of their codes.                   *)
(***************************************************************************)
EXTENDS Integers, Sequences, FiniteSets

CONSTANTS
  Restrictions,  \* the restrictions of simple types
  Numbers,       \* the numbers that a user may give, in hundredths
  Texts,         \* the texts that a user may give
  Unset          \* undefined

Newline == -3
Space   == -2
Dot     == -1
Digits  == 0..9
Letter  == 10
Chars   == {Newline, Space, Dot, Letter} \cup Digits

ASSUME RestrictionsAssumption ==
  /\ \A n \in Numbers : n \in Nat /\ n % 10 # 5 /\ n % 100 # 50
  /\ Texts \subseteq Seq(Chars)
  /\ \A r \in Restrictions :
       /\ r.base \in {"number", "string", "derived"}
       /\ \A f \in {"minExclusive", "minInclusive", "maxExclusive", "maxInclusive",
                   "fractionDigits", "totalDigits", "length", "minLength", "maxLength"} :
            r[f] \in Nat \cup {Unset}
       /\ r.whiteSpace \in {Unset, "preserve", "replace", "collapse"}

VARIABLES
  facets,     \* the restriction
  given,      \* the value of the user
  val,        \* the value, as the next stage sees it
  stage,      \* the next stage
  violated    \* the facets that were found violated

enforceVars == <<facets, given, val, stage, violated>>

Number(n) == [kind |-> "number", hundredths |-> n, chars |-> <<>>]
Text(s)   == [kind |-> "text", hundredths |-> 0, chars |-> s]

IsNumber(v) == v.kind = "number"
Has(f) == facets[f] # Unset

---------------------------------------------------------------------------
(* Numbers and texts.                                                      *)

\* The decimal digits of a whole number.
Decimal(n) ==
  LET upTo[k \in 0..n] == IF k < 10 THEN <<k>> ELSE Append(upTo[k \div 10], k % 10)
  IN upTo[n]

\* The text of a number of hundredths with `places' fraction digits.
Written(n, places) ==
  LET digit(i) == CASE i = 1 -> (n % 100) \div 10 [] i = 2 -> n % 10 [] OTHER -> 0 IN
  Decimal(n \div 100) \o
    (IF places = 0 THEN <<>> ELSE <<Dot>> \o [i \in 1..places |-> digit(i)])

\* Number.prototype.toFixed.
Fixed(n, places) ==
  Written(CASE places = 0 -> ((n + 50) \div 100) * 100
            [] places = 1 -> ((n + 5) \div 10) * 10
            [] OTHER      -> n, places)

\* The text of a number without needless zeros.
Plain(n) == Written(n, IF n % 100 = 0 THEN 0 ELSE IF n % 10 = 0 THEN 1 ELSE 2)

TextOf(v) == IF IsNumber(v) THEN Plain(v.hundredths) ELSE v.chars

\* The order of JavaScript's strings.
Before(s, t) ==
  \/ Len(s) < Len(t) /\ SubSeq(t, 1, Len(s)) = s
  \/ \E i \in 1..Len(s) : /\ i <= Len(t) /\ s[i] < t[i]
                          /\ \A j \in 1..(i - 1) : s[j] = t[j]

\* The operators < of JavaScript for a value and the text of a facet, a whole
\* number: of numbers, if the value is one, else of texts.
Less(v, whole) ==
  IF IsNumber(v) THEN v.hundredths < whole * 100
  ELSE Before(v.chars, Plain(whole * 100))

\* Mutant: greater or equal.
NotLess(v, whole) == ~Less(v, whole)

Greater(v, whole) ==
  IF IsNumber(v) THEN v.hundredths > whole * 100
  ELSE Before(Plain(whole * 100), v.chars)

\* What isNaN takes for a number: blank space, or a numeral with such around it.
IsNumeral(s) ==
  LET solid == {i \in 1..Len(s) : s[i] \notin {Space, Newline}} IN
  \/ solid = {}
  \/ /\ \A i, k \in solid : i..k \subseteq solid
     /\ \A i \in solid : s[i] \in Digits \cup {Dot}
     /\ \E i \in solid : s[i] # Dot
     /\ Cardinality({i \in solid : s[i] = Dot}) <= 1

Occurs(c, s) == \E i \in 1..Len(s) : s[i] = c

\* The digits after the last dot.
FractionDigits(s) ==
  IF Occurs(Dot, s)
    THEN Len(s) - (CHOOSE i \in 1..Len(s) : s[i] = Dot /\ \A j \in (i + 1)..Len(s) : s[j] # Dot)
    ELSE 0

\* The characters without the first dot, and then without the space at the ends.
TotalDigits(s) ==
  LET first == {i \in 1..Len(s) : s[i] = Dot /\ \A j \in 1..(i - 1) : s[j] # Dot}
      solid == {i \in (1..Len(s)) \ first : s[i] \notin {Space, Newline}}
  IN Cardinality({i \in (1..Len(s)) \ first : \E j, k \in solid : j <= i /\ i <= k})

\* Mutant: only the first newline is replaced.
FirstReplaced(s) ==
  [i \in 1..Len(s) |->
     IF s[i] = Newline /\ \A j \in 1..(i - 1) : s[j] # Newline THEN Space ELSE s[i]]

Replaced(s) == [i \in 1..Len(s) |-> IF s[i] = Newline THEN Space ELSE s[i]]

\* Runs of spaces become one, those at the ends none.
Collapsed(s) ==
  LET r == Replaced(s)
      kept(i) == r[i] # Space \/ (/\ \E j \in 1..(i - 1) : r[j] # Space
                                  /\ i < Len(r) /\ r[i + 1] # Space)
      upTo[i \in 0..Len(r)] ==
        IF i = 0 THEN <<>> ELSE IF kept(i) THEN Append(upTo[i - 1], r[i]) ELSE upTo[i - 1]
  IN upTo[Len(r)]

---------------------------------------------------------------------------
(* The stages.                                                             *)

EnforceInit ==
  /\ facets \in Restrictions
  /\ given \in {Number(n) : n \in Numbers} \cup {Text(s) : s \in Texts}
  /\ val = given
  /\ stage = "base"
  /\ violated = {}

\* A violation is noted if the facet is there and the condition holds.
Note(facet, condition) == IF Has(facet) /\ condition THEN {facet} ELSE {}

Go(from, to) == stage = from /\ stage' = to /\ UNCHANGED <<facets, given>>

\* A built-in base makes a text of a value, or asks for a number.
Base ==
  /\ Go("base", "bounds")
  /\ val' = IF facets.base = "string" THEN Text(TextOf(val)) ELSE val
  /\ violated' = IF facets.base = "number" /\ ~IsNumber(val) /\ ~IsNumeral(val.chars)
                   THEN {"base"} ELSE {}

Bounds ==
  /\ Go("bounds", "fraction")
  /\ violated' = violated
       \cup Note("minExclusive", ~Greater(val, facets.minExclusive))
       \cup Note("maxInclusive", Greater(val, facets.maxInclusive))
       \cup Note("minInclusive", Less(val, facets.minInclusive))
       \cup Note("maxExclusive", ~Less(val, facets.maxExclusive))
  /\ UNCHANGED val

Fraction ==
  /\ Go("fraction", "total")
  /\ IF Has("fractionDigits") /\ IsNumber(val)
       THEN val' = Text(Fixed(val.hundredths, facets.fractionDigits)) /\ UNCHANGED violated
       ELSE /\ violated' = violated \cup
                 Note("fractionDigits", FractionDigits(val.chars) > facets.fractionDigits)
            /\ UNCHANGED val

IntegerDigits(n) == Len(Decimal(n \div 100))

\* Mutant: a number keeps as many fraction digits as it may have digits.
TotalOfFraction(v) == Text(Fixed(v.hundredths, facets.totalDigits))

\* A number gets as many fraction digits as are left.
Shortened(v) == Text(Fixed(v.hundredths, facets.totalDigits - IntegerDigits(v.hundredths)))

Total ==
  /\ Go("total", "length")
  /\ IF Has("totalDigits") /\ IsNumber(val)
       THEN IF IntegerDigits(val.hundredths) > facets.totalDigits
              THEN violated' = violated \cup {"totalDigits"} /\ UNCHANGED val
              ELSE val' = Shortened(val) /\ UNCHANGED violated
       ELSE /\ violated' = violated \cup
                 Note("totalDigits", TotalDigits(val.chars) > facets.totalDigits)
            /\ UNCHANGED val

\* A number has no length: it is never the right one, nor too long or too short.
Length ==
  /\ Go("length", "whiteSpace")
  /\ violated' = violated
       \cup Note("length", IsNumber(val) \/ Len(val.chars) # facets.length)
       \cup Note("maxLength", ~IsNumber(val) /\ Len(val.chars) > facets.maxLength)
       \cup Note("minLength", ~IsNumber(val) /\ Len(val.chars) < facets.minLength)
  /\ UNCHANGED val

\* The type asks for texts to be normalised.
Normalises == facets.whiteSpace \in {"replace", "collapse"}

\* Only a text can be normalised, a number makes it raise.
WhiteSpace ==
  /\ stage = "whiteSpace"
  /\ stage' = IF Normalises /\ IsNumber(val) THEN "raised" ELSE "values"
  /\ val' = CASE IsNumber(val) \/ ~Normalises -> val
              [] facets.whiteSpace = "replace" /\ ~IsNumber(val) -> Text(Replaced(val.chars))
              [] facets.whiteSpace = "collapse" /\ ~IsNumber(val) -> Text(Collapsed(val.chars))
  /\ UNCHANGED <<facets, given, violated>>

\* The values of an enumeration are texts.
InEnumeration(v) == ~IsNumber(v) /\ v.chars \in facets.enumeration

\* A pattern is searched in the text of the value: it stands for the texts, one
\* of which must be found.
FitsPattern(v) ==
  \E s \in facets.pattern, i \in 0..Len(TextOf(v)) :
    i + Len(s) <= Len(TextOf(v)) /\ SubSeq(TextOf(v), i + 1, i + Len(s)) = s

PatternAndEnumeration ==
  /\ stage = "values"
  /\ LET found == violated \cup Note("pattern", ~FitsPattern(val))
                           \cup Note("enumeration", ~InEnumeration(val)) IN
     /\ violated' = found
     /\ stage' = IF found = {} THEN "sent" ELSE "refused"
  /\ UNCHANGED <<facets, given, val>>

EnforceNext == Base \/ Bounds \/ Fraction \/ Total \/ Length \/ WhiteSpace \/ PatternAndEnumeration

EnforceSpec == EnforceInit /\ [][EnforceNext]_enforceVars

---------------------------------------------------------------------------
(* Properties.                                                             *)

\* The number that a numeral stands for, in hundredths.
ValueOf(s) ==
  LET point == Len(s) - FractionDigits(s)
      whole[i \in 0..point] ==
        IF i = 0 THEN 0 ELSE IF s[i] = Dot THEN whole[i - 1] ELSE 10 * whole[i - 1] + s[i]
      digit(i) == IF i <= FractionDigits(s) THEN s[point + i] ELSE 0
  IN 100 * whole[point] + 10 * digit(1) + digit(2)

\* What XML Schema says of the number that is sent; `strictly' if the bounds may
\* not be reached.
WithinBounds(n, strictly) ==
  LET far(low, high) == IF strictly THEN low < high ELSE low <= high IN
  /\ Has("minInclusive") => facets.minInclusive * 100 <= n
  /\ Has("maxInclusive") => n <= facets.maxInclusive * 100
  /\ Has("minExclusive") => far(facets.minExclusive * 100, n)
  /\ Has("maxExclusive") => far(n, facets.maxExclusive * 100)

\* The digits that count: zeros at the ends do not.
WithinDigits(n) ==
  LET plain == Plain(n) IN
  /\ Has("fractionDigits") => FractionDigits(plain) <= facets.fractionDigits
  /\ Has("totalDigits") =>
       TotalDigits(plain) - (IF n < 100 /\ n > 0 THEN 1 ELSE 0) <= facets.totalDigits

\* What XML Schema says of the white space, the length and the value of a text.
IsNormalised(s) ==
  /\ Normalises => ~Occurs(Newline, s)
  /\ facets.whiteSpace = "collapse" =>
       \A i \in 1..Len(s) : s[i] = Space => i \notin {1, Len(s)} /\ s[i + 1] # Space

HasValidLength(s) ==
  /\ Has("length") => Len(s) = facets.length
  /\ Has("maxLength") => Len(s) <= facets.maxLength
  /\ Has("minLength") => Len(s) >= facets.minLength

IsListed(s) == Has("enumeration") => s \in facets.enumeration

Sent == TextOf(val)

\* To round a number gave it one more digit before the point.
Carried ==
  IsNumber(given) /\ IntegerDigits(ValueOf(Sent)) > IntegerDigits(given.hundredths)

\* A number that is sent is within the bounds of its type, which to round it may
\* only reach, and has no more digits than it may, unless rounding gives it one
\* more (restriction.js:119-163: bounds are checked before rounding, digits in
\* the middle of it).
NumberIsValid ==
  (stage = "sent" /\ IsNumber(given) /\ facets.base # "string") =>
    /\ WithinBounds(ValueOf(Sent), FALSE)
    /\ Carried \/ WithinDigits(ValueOf(Sent))

\* A text that is sent is normalised and one of the values of its type, and it
\* has a valid length unless its white space was changed: the lengths are those
\* before that (restriction.js:165-201).
TextIsValid ==
  (stage = "sent" /\ given.kind = "text") =>
    /\ IsNormalised(Sent)
    /\ IsListed(Sent)
    /\ Len(Sent) = Len(given.chars) => HasValidLength(Sent)

HasNumericFacet ==
  \E f \in {"minExclusive", "minInclusive", "maxExclusive", "maxInclusive",
           "fractionDigits", "totalDigits"} : Has(f)

\* A value that the type allows is not refused.  Exempt are numbers that would be
\* padded to more digits than they may have, numbers with facets for texts and
\* texts with facets for numbers, and texts whose white space is still to be
\* normalised (restriction.js:101-208).
ValidIsSent ==
  stage \in {"refused", "raised"} =>
    IF IsNumber(given) /\ facets.base # "string"
      THEN \/ ~WithinBounds(given.hundredths, TRUE)
           \/ ~WithinDigits(given.hundredths)
           \/ /\ Has("fractionDigits") /\ Has("totalDigits")
              /\ IntegerDigits(given.hundredths) + facets.fractionDigits > facets.totalDigits
           \/ Normalises
           \/ \E f \in {"length", "minLength", "maxLength", "pattern", "enumeration"} : Has(f)
      ELSE \/ ~HasValidLength(given.chars) \/ ~IsListed(given.chars)
           \/ given.kind = "number"
           \/ facets.base = "number" \/ HasNumericFacet \/ Has("pattern")
           \/ ~IsNormalised(given.chars)
===============================================================================
