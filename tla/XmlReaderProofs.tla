-------------------------- MODULE XmlReaderProofs --------------------------
(***************************************************************************)
(* Proofs about XmlReader, for messages of any size and any names, marks    *)
(* and labels: the object of an element has just the elements below it, the *)
(* multi-reference values are merged into all that refer to them, and a     *)
(* Fault is raised.                                                         *)
(*                                                                          *)
(* The handlers of sax work on the top of `stack' alone.  That an object's  *)
(* fields are in the order of the message needs the shape of the stack      *)
(* (StackOK): it is a path of the message, and what has ended below an      *)
(* element of it came before the element above it on the stack.             *)
(***************************************************************************)
EXTENDS XmlReader, TLAPS, SequenceTheorems

---------------------------------------------------------------------------
(* The inductive invariant.                                                *)

Ids == {Root} \cup Elements

Kinds == {"undefined", "null", "text", "object"}

Marked == [attribute : {"none", "nil", "id", "href", "other"}, label : {Root} \cup Labels]

Fields == [Names -> [array : BOOLEAN, items : Seq(Nat)]]

Objects == [is : Kinds, fields : Fields, texts : Seq(Texts)]

\* The types; what is below no element yet is the undefined object.
TypesOK ==
  /\ phase \in {"reading", "returned", "raised"}
  /\ element \in Seq([name : Names, attributes : Marked, above : Nat])
  /\ Len(element) <= MaxElements
  /\ object \in [Ids -> Objects]
  /\ stack \in Seq(Nat)
  /\ refs \in [Labels -> [hrefs : SUBSET Nat, object : Nat]]
  /\ \A i \in Made : element[i].attributes \in Attributes(element[i].name)

\* An object is what its attributes and its content make of it.
ObjectOK(i) ==
  /\ object[i].is # "object" => object[i].fields = NoFields
  /\ object[i].is \in {"undefined", "null"} => object[i].texts = <<>>
  /\ i \in Made /\ element[i].attributes.attribute \in {"id", "href", "other"} =>
       object[i].is = "object"
  /\ i \notin {Root} \cup Made => object[i] = Undefined

ObjectsOK ==
  /\ \A i \in Ids : ObjectOK(i)
  /\ object[Root].is = "object"

OnStack(i) == \E k \in 1..Len(stack) : stack[k] = i

\* The stack is a path of the message, from its root object on, and what is not
\* on it came earlier than what is.
StackOK ==
  /\ \A k \in 1..Len(stack) : stack[k] \in {Root} \cup Made
  /\ Len(stack) >= 1 => stack[1] = Root
  /\ \A k, l \in 1..Len(stack) : k < l => stack[k] < stack[l]
  /\ \A k \in 2..Len(stack) : element[stack[k]].above = stack[k - 1]
  /\ \A i \in Made : element[i].above \in {Root} \cup Made /\ element[i].above < i
  /\ \A i \in Made, k \in 2..Len(stack) :
       element[i].above = stack[k - 1] => OnStack(i) \/ i < stack[k]
  /\ \A i \in Made : element[i].above = Root => i = 1

\* The entry of a label has the elements that refer to it and, once it has
\* ended, the one element that has it.
RefsOK ==
  /\ \A i \in Made : element[i].attributes.attribute = "href" =>
       i \in refs[element[i].attributes.label].hrefs
  /\ \A l \in Labels : \A i \in refs[l].hrefs :
       i \in Made /\ element[i].attributes = [attribute |-> "href", label |-> l]
  /\ \A l \in Labels :
       refs[l].object # Root =>
         /\ refs[l].object \in Made
         /\ element[refs[l].object].attributes = [attribute |-> "id", label |-> l]
  /\ \A i, j \in Made :
       /\ element[i].attributes = element[j].attributes
       /\ element[i].attributes.attribute = "id"
       => i = j
  /\ phase = "reading" =>
       \A i \in Made :
         element[i].attributes.attribute = "id" /\ ~OnStack(i) =>
           refs[element[i].attributes.label].object = i

\* Once an element has ended, the one above it is an object, or nil.
Parents ==
  phase = "reading" =>
    /\ Len(stack) >= 1
    /\ \A i \in Made : ~OnStack(i) => object[element[i].above].is \in {"null", "object"}

IInv ==
  /\ TypesOK
  /\ ObjectsOK
  /\ StackOK
  /\ RefsOK
  /\ Parents
  /\ FieldsAreElements
  /\ HrefsAreMerged

---------------------------------------------------------------------------
(* Lemmas.                                                                 *)

\* What the assumption on the constants says that the proofs use.
LEMMA ConstantsLemma ==
  /\ Root = 0 /\ Root \notin Labels /\ Root \notin Elements
  /\ Elements \subseteq Nat /\ Ids \subseteq Nat
  /\ MaxElements \in Nat
BY ReaderAssumption DEF ReaderAssumption, Root, Elements, Ids

\* The attributes of an element, one way of seeing them.
LEMMA AttributesLemma ==
  ASSUME NEW name \in Names, NEW a \in Attributes(name)
  PROVE  /\ a \in Marked
         /\ a.attribute \in {"none", "nil", "other"} => a.label = Root
         /\ a.attribute \in {"id", "href"} => a.label \in Labels /\ a.label # Root
         /\ a.attribute \in {"none"} \cup Marks[name]
<1> USE ConstantsLemma
<1>1. Marks[name] \subseteq {"nil", "id", "href", "other"}
  BY ReaderAssumption DEF ReaderAssumption
<1>2. CASE a = Plain
  BY <1>2 DEF Plain, Marked
<1>3. CASE a \in [attribute : Marks[name] \cap {"nil", "other"}, label : {Root}]
  BY <1>1, <1>3 DEF Marked
<1>4. CASE a \in [attribute : Marks[name] \cap {"id", "href"}, label : Labels]
  BY <1>1, <1>4 DEF Marked
<1> QED
  BY <1>2, <1>3, <1>4 DEF Attributes

\* An element of the message.
LEMMA ElementLemma ==
  ASSUME TypesOK, NEW i \in Made
  PROVE  /\ element[i].name \in Names
         /\ element[i].attributes \in Attributes(element[i].name)
         /\ element[i].attributes \in Marked
<1>1. element[i] \in [name : Names, attributes : Marked, above : Nat]
  <2> DEFINE S == [name : Names, attributes : Marked, above : Nat]
  <2>1. element \in Seq(S)
    BY DEF TypesOK
  <2> HIDE DEF S
  <2>2. element[i] \in S
    BY <2>1 DEF Made
  <2> QED
    BY <2>2 DEF S
<1> QED
  BY <1>1 DEF TypesOK

\* The undefined object.
LEMMA UndefinedLemma ==
  /\ NoFields \in Fields
  /\ \A x \in Names : NoFields[x].items = <<>> /\ ~NoFields[x].array
  /\ Undefined \in Objects
  /\ Undefined.is = "undefined" /\ Undefined.fields = NoFields /\ Undefined.texts = <<>>
BY DEF NoFields, Fields, Undefined, Objects, Kinds

\* The types of an object with another nature, another field or another text.
LEMMA ObjectLemma ==
  ASSUME NEW o \in Objects, NEW kind \in Kinds
  PROVE  LET p == [o EXCEPT !.is = kind]
         IN  p \in Objects /\ p.is = kind /\ p.fields = o.fields /\ p.texts = o.texts
BY DEF Objects

\* The elements of a sequence.
LEMMA ToSetLemma ==
  ASSUME NEW s \in Seq(Nat)
  PROVE  \A j : j \in ToSet(s) <=> \E k \in 1..Len(s) : s[k] = j
BY DEF ToSet

\* The positions on the stack.
LEMMA OnStackLemma ==
  ASSUME TypesOK
  PROVE  \A i : i \in ToSet(stack) <=> OnStack(i)
BY DEF TypesOK, ToSet, OnStack

\* At the beginning there is the root object.
LEMMA InitIInv == Init => IInv
<1> SUFFICES ASSUME Init
             PROVE  IInv
  OBVIOUS
<1> USE ConstantsLemma
<1>0. element = <<>> /\ Len(element) = 0 /\ Made = {} /\ stack = <<Root>> /\ Len(stack) = 1
      /\ stack[1] = Root /\ phase = "reading"
  BY DEF Init, Made
<1>1. \A i \in Ids : object[i] = IF i = Root THEN [Undefined EXCEPT !.is = "object"] ELSE Undefined
  BY DEF Init, Ids
<1>2. /\ object[Root] \in Objects
      /\ object[Root].is = "object" /\ object[Root].fields = NoFields
      /\ object[Root].texts = <<>>
  <2>1. Root \in Ids /\ "object" \in Kinds
    BY DEF Ids, Kinds
  <2>2. object[Root] = [Undefined EXCEPT !.is = "object"]
    BY <1>1, <2>1
  <2>3. Undefined \in Objects
    BY UndefinedLemma
  <2> QED
    BY <2>1, <2>2, <2>3, UndefinedLemma, ObjectLemma
<1>3. TypesOK
  <2>1. object \in [Ids -> Objects]
    <3>1. \A i \in Ids : object[i] \in Objects
      BY <1>1, <1>2, UndefinedLemma
    <3> QED
      BY <3>1 DEF Init, Ids
  <2>2. refs \in [Labels -> [hrefs : SUBSET Nat, object : Nat]]
    BY DEF Init
  <2>3. element \in Seq([name : Names, attributes : Marked, above : Nat])
    BY <1>0
  <2>4. stack \in Seq(Nat)
    BY <1>0
  <2> QED
    BY <1>0, <2>1, <2>2, <2>3, <2>4 DEF TypesOK
<1>4. ObjectsOK
  <2>1. \A i \in Ids : ObjectOK(i)
    BY <1>0, <1>1, <1>2, UndefinedLemma DEF ObjectOK
  <2> QED
    BY <1>2, <2>1 DEF ObjectsOK
<1>5. StackOK
  BY <1>0 DEF StackOK
<1>6. RefsOK
  BY <1>0 DEF RefsOK, Init
<1>7. Parents
  BY <1>0 DEF Parents
<1>8. FieldsAreElements
  <2> SUFFICES ASSUME NEW i \in {Root} \cup Made, NEW x \in Names
               PROVE  LET field == object[i].fields[x] IN
                      /\ ToSet(field.items) = Closed(i, x)
                      /\ InOrder(field.items)
                      /\ field.array <=> Len(field.items) > (IF x \in Many THEN 0 ELSE 1)
    BY DEF FieldsAreElements
  <2>1. object[i].fields[x].items = <<>> /\ ~object[i].fields[x].array
    BY <1>0, <1>2, UndefinedLemma
  <2>2. Closed(i, x) = {}
    BY <1>0 DEF Closed
  <2>3. ToSet(<<>>) = {} /\ Len(<<>>) = 0
    BY DEF ToSet
  <2> QED
    BY <2>1, <2>2, <2>3 DEF InOrder
<1>9. HrefsAreMerged
  BY <1>0 DEF HrefsAreMerged
<1> QED
  BY <1>3, <1>4, <1>5, <1>6, <1>7, <1>8, <1>9 DEF IInv

---------------------------------------------------------------------------
(* onopentag.                                                              *)

\* The new element is the last one and on top of the stack; nothing has ended.
LEMMA OpenTagIInv ==
  ASSUME IInv, NEW name \in Names, NEW a \in Attributes(name), OpenTag(name, a)
  PROVE  IInv'
<1> USE ConstantsLemma
<1> DEFINE n == Len(element)
           i == n + 1
           L == Len(stack)
           new == [name |-> name, attributes |-> a, above |-> Top]
<1>0. TypesOK /\ ObjectsOK /\ StackOK /\ RefsOK /\ Parents /\ FieldsAreElements
  BY DEF IInv
<1>1. /\ phase = "reading" /\ phase' = "reading"
      /\ i \in Elements
      /\ L = 1 => element = <<>>
      /\ a.attribute = "id" => \A j \in Made : element[j].attributes # a
      /\ element' = Append(element, new)
      /\ object' = [object EXCEPT ![i].is = Kind(a)]
      /\ stack' = Append(stack, i)
      /\ refs' = IF a.label = Root THEN refs ELSE [refs EXCEPT ![a.label] = Entry(@, a, i)]
  BY DEF OpenTag, Made
<1>2. /\ n \in Nat /\ L \in Nat /\ L >= 1
      /\ element \in Seq([name : Names, attributes : Marked, above : Nat])
      /\ stack \in Seq(Nat) /\ stack[L] \in Nat /\ Top = stack[L]
      /\ object \in [Ids -> Objects]
      /\ i \in Ids /\ i \notin Made /\ i # Root /\ i \notin {Root} \cup Made
  <2>1. /\ n \in Nat /\ L \in Nat /\ L >= 1
        /\ element \in Seq([name : Names, attributes : Marked, above : Nat])
        /\ stack \in Seq(Nat)
        /\ object \in [Ids -> Objects]
    BY <1>0, <1>1 DEF TypesOK, Parents
  <2>2. stack[L] \in Nat /\ Top = stack[L]
    <3>1. stack \in Seq(Nat) /\ L \in 1..Len(stack)
      BY <2>1
    <3> HIDE DEF L
    <3>2. stack[L] \in Nat
      BY <3>1
    <3> QED
      BY <3>2 DEF L, Top, Last
  <2>3. i \in Ids /\ i \notin Made /\ i # Root
    BY <1>1, <2>1 DEF Ids, Made
  <2> QED
    BY <2>1, <2>2, <2>3
<1>3. /\ a \in Marked
      /\ a.attribute \in {"none", "nil", "other"} => a.label = Root
      /\ a.attribute \in {"id", "href"} => a.label \in Labels /\ a.label # Root
  BY AttributesLemma
<1>4. /\ Len(element') = i
      /\ Made' = Made \cup {i}
      /\ element'[i] = new
      /\ \A j \in Made : element'[j] = element[j]
      /\ element' \in Seq([name : Names, attributes : Marked, above : Nat])
  <2>1. new \in [name : Names, attributes : Marked, above : Nat]
    BY <1>2, <1>3
  <2> HIDE DEF new
  <2>2. /\ Len(element') = i
        /\ element'[i] = new
        /\ \A j \in 1..n : element'[j] = element[j]
        /\ element' \in Seq([name : Names, attributes : Marked, above : Nat])
    BY <1>1, <1>2, <2>1
  <2>3. Made' = 1..i
    BY <2>2 DEF Made
  <2>4. 1..i = (1..n) \cup {i}
    BY <1>2
  <2> QED
    BY <2>2, <2>3, <2>4 DEF Made
<1>5. /\ Len(stack') = L + 1
      /\ stack'[L + 1] = i
      /\ \A k \in 1..L : stack'[k] = stack[k]
      /\ stack' \in Seq(Nat)
  BY <1>1, <1>2
<1>12. \A k \in 1..(L + 1) : k \in 1..L \/ k = L + 1
  BY <1>2
<1>6. \A j : OnStack(j)' <=> OnStack(j) \/ j = i
  <2>1. L + 1 \in 1..(L + 1) /\ \A k \in 1..L : k \in 1..(L + 1)
    BY <1>2
  <2> HIDE DEF L, i
  <2>2. \A j : OnStack(j) <=> \E k \in 1..L : stack[k] = j
    BY DEF OnStack, L
  <2>3. \A j : OnStack(j)' <=> \E k \in 1..(L + 1) : stack'[k] = j
    BY <1>5 DEF OnStack
  <2> QED
    BY <1>5, <1>12, <2>1, <2>2, <2>3
<1>7. /\ object' \in [Ids -> Objects]
      /\ \A j \in Ids : j # i => object'[j] = object[j]
      /\ object'[i].is = Kind(a) /\ object'[i].fields = NoFields /\ object'[i].texts = <<>>
  <2>1. object[i] = Undefined
    BY <1>0, <1>2 DEF ObjectsOK, ObjectOK
  <2>2. Kind(a) \in Kinds
    BY DEF Kind, Kinds
  <2> DEFINE o == [Undefined EXCEPT !.is = Kind(a)]
  <2>3. o \in Objects /\ o.is = Kind(a) /\ o.fields = NoFields /\ o.texts = <<>>
    BY <2>2, UndefinedLemma, ObjectLemma
  <2>4. object' = [object EXCEPT ![i] = o]
    BY <1>1, <1>2, <2>1
  <2> HIDE DEF o
  <2> QED
    BY <1>2, <2>3, <2>4
<1>8. TypesOK'
  <2>1. refs' \in [Labels -> [hrefs : SUBSET Nat, object : Nat]]
    <3>1. refs \in [Labels -> [hrefs : SUBSET Nat, object : Nat]]
      BY <1>0 DEF TypesOK
    <3>2. CASE a.label = Root
      BY <1>1, <3>1, <3>2
    <3>3. CASE a.label # Root
      <4>1. a.label \in Labels /\ refs[a.label] \in [hrefs : SUBSET Nat, object : Nat]
        BY <1>3, <3>1, <3>3 DEF Marked
      <4>2. Entry(refs[a.label], a, i) \in [hrefs : SUBSET Nat, object : Nat]
        BY <1>2, <4>1 DEF Entry
      <4>3. refs' = [refs EXCEPT ![a.label] = Entry(refs[a.label], a, i)]
        BY <1>1, <3>3
      <4> QED
        BY <3>1, <4>2, <4>3
    <3> QED
      BY <3>2, <3>3
  <2>2. \A j \in Made' : element'[j].attributes \in Attributes(element'[j].name)
    <3> TAKE j \in Made'
    <3>1. CASE j = i
      BY <1>4, <3>1
    <3>2. CASE j \in Made
      BY <1>0, <1>4, <3>2 DEF TypesOK
    <3> QED
      BY <1>4, <3>1, <3>2
  <2>3. Len(element') <= MaxElements
    BY <1>1, <1>4 DEF Elements
  <2> QED
    BY <1>1, <1>4, <1>5, <1>7, <2>1, <2>2, <2>3 DEF TypesOK
<1>9. ObjectsOK'
  <2>1. ASSUME NEW j \in Ids
        PROVE  ObjectOK(j)'
    <3>1. CASE j = i
      <4>1. /\ object'[i].is \in {"undefined", "null"} => object'[i].texts = <<>>
            /\ object'[i].is # "object" => object'[i].fields = NoFields
        BY <1>7
      <4>2. element'[i].attributes.attribute \in {"id", "href", "other"} => object'[i].is = "object"
        BY <1>4, <1>7 DEF Kind
      <4> QED
        BY <1>4, <3>1, <4>1, <4>2 DEF ObjectOK
    <3>2. CASE j # i
      <4>1. ObjectOK(j)
        BY <1>0 DEF ObjectsOK
      <4>2. object'[j] = object[j]
        BY <1>7, <3>2
      <4> QED
        BY <1>4, <3>2, <4>1, <4>2 DEF ObjectOK
    <3> QED
      BY <3>1, <3>2
  <2>2. object'[Root].is = "object"
    BY <1>0, <1>2, <1>7 DEF ObjectsOK, Ids
  <2> QED
    BY <2>1, <2>2 DEF ObjectsOK
<1> HIDE DEF new
<1>10. Top \in {Root} \cup Made /\ Top < i
  BY <1>0, <1>2 DEF StackOK, Made
<1>11. new.above = Top /\ new.attributes = a /\ new.name = name
  BY DEF new
<1>13. StackOK'
  <2>1. \A k \in 1..(L + 1) : stack'[k] \in {Root} \cup Made'
    BY <1>0, <1>4, <1>5, <1>12 DEF StackOK
  <2>2. stack'[1] = Root
    BY <1>0, <1>2, <1>5 DEF StackOK
  <2>3. \A k, l \in 1..(L + 1) : k < l => stack'[k] < stack'[l]
    <3> SUFFICES ASSUME NEW k \in 1..(L + 1), NEW l \in 1..(L + 1), k < l
                 PROVE  stack'[k] < stack'[l]
      OBVIOUS
    <3>1. k \in 1..L
      BY <1>2
    <3>2. CASE l = L + 1
      <4>1. stack[k] \in {Root} \cup Made
        BY <1>0, <3>1 DEF StackOK
      <4>2. stack[k] < i
        BY <1>2, <4>1 DEF Made
      <4> QED
        BY <1>5, <3>1, <3>2, <4>2
    <3>3. CASE l \in 1..L
      BY <1>0, <1>5, <3>1, <3>3 DEF StackOK
    <3> QED
      BY <1>12, <3>2, <3>3
  <2>4. \A k \in 2..(L + 1) : element'[stack'[k]].above = stack'[k - 1]
    <3> TAKE k \in 2..(L + 1)
    <3>1. CASE k = L + 1
      BY <1>2, <1>4, <1>5, <1>11, <3>1
    <3>2. CASE k # L + 1
      <4>1. k \in 2..L /\ k \in 1..L /\ k - 1 \in 1..L /\ 1 \in 1..L /\ 1 < k
        BY <1>2, <3>2
      <4>2. stack[k] \in Made
        <5>1. stack[1] < stack[k] /\ stack[k] \in {Root} \cup Made /\ stack[1] = Root
          BY <1>0, <4>1 DEF StackOK
        <5> QED
          BY <5>1
      <4> QED
        BY <1>0, <1>4, <1>5, <4>1, <4>2 DEF StackOK
    <3> QED
      BY <3>1, <3>2
  <2>5. \A j \in Made' : element'[j].above \in {Root} \cup Made' /\ element'[j].above < j
    BY <1>0, <1>4, <1>10, <1>11 DEF StackOK
  <2>6. \A j \in Made', k \in 2..(L + 1) :
          element'[j].above = stack'[k - 1] => OnStack(j)' \/ j < stack'[k]
    <3> SUFFICES ASSUME NEW j \in Made', NEW k \in 2..(L + 1), j # i,
                        element'[j].above = stack'[k - 1]
                 PROVE  OnStack(j)' \/ j < stack'[k]
      BY <1>6
    <3>1. j \in Made /\ element'[j] = element[j]
      BY <1>4
    <3>2. CASE k = L + 1
      BY <1>2, <1>5, <3>1, <3>2 DEF Made
    <3>3. CASE k # L + 1
      <4>1. k \in 2..L /\ k \in 1..L /\ k - 1 \in 1..L
        BY <1>2, <3>3
      <4>2. OnStack(j) \/ j < stack[k]
        BY <1>0, <1>5, <3>1, <4>1 DEF StackOK
      <4> QED
        BY <1>5, <1>6, <4>1, <4>2
    <3> QED
      BY <3>2, <3>3
  <2>7. \A j \in Made' : element'[j].above = Root => j = 1
    <3> SUFFICES ASSUME Top = Root
                 PROVE  i = 1
      BY <1>0, <1>4, <1>11 DEF StackOK
    <3>1. L = 1
      <4> SUFFICES ASSUME L # 1
                   PROVE  FALSE
        OBVIOUS
      <4>1. 1 \in 1..L /\ L \in 1..L /\ 1 < L
        <5>1. L \in Nat /\ L >= 1
          BY <1>2
        <5> HIDE DEF L
        <5> QED
          BY <5>1
      <4>2. stack[1] < stack[L] /\ stack[1] = Root
        BY <1>0, <4>1 DEF StackOK
      <4> QED
        BY <1>2, <4>2
    <3> QED
      BY <1>1, <3>1
  <2> QED
    BY <1>5, <2>1, <2>2, <2>3, <2>4, <2>5, <2>6, <2>7 DEF StackOK
<1>14. RefsOK'
  <2>1. \A l \in Labels :
          /\ refs'[l].object = refs[l].object
          /\ \A j : j \in refs'[l].hrefs <=>
               j \in refs[l].hrefs \/ (j = i /\ a = [attribute |-> "href", label |-> l])
    <3> TAKE l \in Labels
    <3>1. refs \in [Labels -> [hrefs : SUBSET Nat, object : Nat]]
      BY <1>0 DEF TypesOK
    <3>2. CASE a.label = l /\ a.attribute = "href"
      <4>1. a.label # Root /\ a = [attribute |-> "href", label |-> l]
        BY <1>3, <3>2 DEF Marked
      <4>2. refs'[l] = Entry(refs[l], a, i)
        BY <1>1, <3>1, <3>2, <4>1
      <4>3. refs[l] \in [hrefs : SUBSET Nat, object : Nat]
        BY <3>1
      <4>4. Entry(refs[l], a, i) = [refs[l] EXCEPT !.hrefs = @ \cup {i}]
        BY <3>2 DEF Entry
      <4>5. /\ refs'[l].object = refs[l].object
            /\ refs'[l].hrefs = refs[l].hrefs \cup {i}
        BY <4>2, <4>3, <4>4
      <4> QED
        BY <4>1, <4>5
    <3>3. CASE ~(a.label = l /\ a.attribute = "href")
      <4>1. refs'[l] = refs[l]
        BY <1>1, <3>1, <3>3 DEF Entry
      <4>2. a # [attribute |-> "href", label |-> l]
        BY <3>3
      <4> QED
        BY <4>1, <4>2
    <3> QED
      BY <3>2, <3>3
  <2>2. \A j \in Made' : element'[j].attributes.attribute = "href" =>
          j \in refs'[element'[j].attributes.label].hrefs
    <3> SUFFICES ASSUME NEW j \in Made', element'[j].attributes.attribute = "href"
                 PROVE  j \in refs'[element'[j].attributes.label].hrefs
      OBVIOUS
    <3>1. CASE j = i
      <4>1. a.label \in Labels /\ a = [attribute |-> "href", label |-> a.label]
        BY <1>3, <1>4, <1>11, <3>1 DEF Marked
      <4> QED
        BY <1>4, <1>11, <2>1, <3>1, <4>1
    <3>2. CASE j \in Made
      <4>1. element'[j] = element[j] /\ element[j].attributes \in Attributes(element[j].name)
            /\ element[j].name \in Names
        BY <1>0, <1>4, <3>2, ElementLemma
      <4>2. element[j].attributes.label \in Labels
        BY <4>1, AttributesLemma
      <4>3. j \in refs[element[j].attributes.label].hrefs
        BY <1>0, <3>2, <4>1 DEF RefsOK
      <4> QED
        BY <2>1, <4>1, <4>2, <4>3
    <3> QED
      BY <1>4, <3>1, <3>2
  <2>3. \A l \in Labels : \A j \in refs'[l].hrefs :
          j \in Made' /\ element'[j].attributes = [attribute |-> "href", label |-> l]
    <3> SUFFICES ASSUME NEW l \in Labels, NEW j \in refs'[l].hrefs
                 PROVE  j \in Made' /\ element'[j].attributes = [attribute |-> "href", label |-> l]
      OBVIOUS
    <3>1. CASE j \in refs[l].hrefs
      BY <1>0, <1>4, <3>1 DEF RefsOK
    <3>2. CASE j = i /\ a = [attribute |-> "href", label |-> l]
      BY <1>4, <1>11, <3>2
    <3> QED
      BY <2>1, <3>1, <3>2
  <2>4. \A l \in Labels :
          refs'[l].object # Root =>
            /\ refs'[l].object \in Made'
            /\ element'[refs'[l].object].attributes = [attribute |-> "id", label |-> l]
    BY <1>0, <1>4, <2>1 DEF RefsOK
  <2>5. \A j, k \in Made' :
          /\ element'[j].attributes = element'[k].attributes
          /\ element'[j].attributes.attribute = "id"
          => j = k
    <3> SUFFICES ASSUME NEW j \in Made', NEW k \in Made',
                        element'[j].attributes = element'[k].attributes,
                        element'[j].attributes.attribute = "id"
                 PROVE  j = k
      OBVIOUS
    <3>1. CASE j \in Made /\ k \in Made
      BY <1>0, <1>4, <3>1 DEF RefsOK
    <3>2. CASE j = i /\ k \in Made
      BY <1>1, <1>4, <1>11, <3>2
    <3>3. CASE j \in Made /\ k = i
      BY <1>1, <1>4, <1>11, <3>3
    <3> QED
      BY <1>4, <3>1, <3>2, <3>3
  <2>6. \A j \in Made' :
          element'[j].attributes.attribute = "id" /\ ~OnStack(j)' =>
            refs'[element'[j].attributes.label].object = j
    <3> SUFFICES ASSUME NEW j \in Made', element'[j].attributes.attribute = "id", ~OnStack(j)'
                 PROVE  refs'[element'[j].attributes.label].object = j
      OBVIOUS
    <3>1. j \in Made /\ ~OnStack(j)
      BY <1>4, <1>6
    <3>2. element'[j] = element[j] /\ element[j].attributes \in Attributes(element[j].name)
          /\ element[j].name \in Names
      BY <1>0, <1>4, <3>1, ElementLemma
    <3>3. element[j].attributes.label \in Labels
      BY <3>2, AttributesLemma
    <3> QED
      BY <1>0, <1>1, <2>1, <3>1, <3>2, <3>3 DEF RefsOK
  <2> QED
    BY <2>2, <2>3, <2>4, <2>5, <2>6 DEF RefsOK
<1>15. Parents'
  <2> SUFFICES ASSUME NEW j \in Made', ~OnStack(j)'
               PROVE  object'[element'[j].above].is \in {"null", "object"}
    BY <1>2, <1>5 DEF Parents
  <2>1. j \in Made /\ ~OnStack(j) /\ element'[j] = element[j]
    BY <1>4, <1>6
  <2>2. element[j].above \in {Root} \cup Made
    <3>1. StackOK
      BY <1>0
    <3> QED
      BY <2>1, <3>1 DEF StackOK
  <2>3. element[j].above \in Ids /\ element[j].above # i
    BY <1>0, <1>2, <2>2 DEF Made, Ids, Elements
  <2> QED
    BY <1>0, <1>1, <1>7, <2>1, <2>2, <2>3 DEF Parents
<1>16. FieldsAreElements'
  <2> SUFFICES ASSUME NEW j \in {Root} \cup Made', NEW x \in Names, object'[j].is # "null"
               PROVE  LET field == object'[j].fields[x] IN
                      /\ ToSet(field.items) = Closed(j, x)'
                      /\ InOrder(field.items)
                      /\ field.array <=> Len(field.items) > (IF x \in Many THEN 0 ELSE 1)
    BY <1>1 DEF FieldsAreElements, InOrder
  <2>1. \A k : k \in ToSet(stack) <=> OnStack(k)
    BY <1>0, OnStackLemma
  <2>2. \A k : k \in ToSet(stack)' <=> OnStack(k)'
    BY <1>5, ToSetLemma DEF OnStack
  <2>3. Closed(j, x)' = {k \in Made : element[k].above = j /\ element[k].name = x /\ ~OnStack(k)}
    <3>1. Closed(j, x)' = {k \in Made' : /\ element'[k].above = j /\ element'[k].name = x
                                        /\ k \notin ToSet(stack)'}
      BY DEF Closed
    <3>2. i \notin Closed(j, x)'
      BY <1>6, <2>2, <3>1
    <3> QED
      BY <1>2, <1>4, <1>6, <2>2, <3>1, <3>2
  <2>4. CASE j = i
    <3>1. Closed(j, x)' = {}
      <4> SUFFICES ASSUME NEW k \in Made, element[k].above = i
                   PROVE  FALSE
        BY <2>3, <2>4
      <4>1. element[k].above < k /\ k <= n /\ k \in Nat
        BY <1>0, <1>2 DEF StackOK, Made
      <4> QED
        BY <1>2, <4>1
    <3>2. object'[j].fields[x].items = <<>> /\ ~object'[j].fields[x].array
      BY <1>7, <2>4, UndefinedLemma
    <3>3. ToSet(<<>>) = {} /\ Len(<<>>) = 0
      BY DEF ToSet
    <3> QED
      BY <3>1, <3>2, <3>3 DEF InOrder
  <2>5. CASE j # i
    <3>1. j \in {Root} \cup Made /\ j \in Ids /\ object'[j] = object[j]
      <4>1. j \in {Root} \cup Made /\ n <= MaxElements
        BY <1>0, <1>4, <2>5 DEF TypesOK
      <4>2. j \in Ids
        BY <1>2, <4>1 DEF Ids, Elements, Made
      <4> QED
        BY <1>7, <2>5, <4>1, <4>2
    <3>2. Closed(j, x)' = Closed(j, x)
      BY <2>1, <2>3 DEF Closed
    <3> QED
      BY <1>0, <1>1, <3>1, <3>2 DEF FieldsAreElements
  <2> QED
    BY <2>4, <2>5
<1>17. HrefsAreMerged'
  BY <1>1 DEF HrefsAreMerged
<1> QED
  BY <1>8, <1>9, <1>13, <1>14, <1>15, <1>16, <1>17 DEF IInv

---------------------------------------------------------------------------
(* onclosetag.                                                             *)

\* The stack without its top.
LEMMA FrontLemma ==
  ASSUME IInv, phase = "reading", Len(stack) > 1, stack' = Front(stack), UNCHANGED element
  PROVE  /\ Top = stack[Len(stack)] /\ Top \in Made /\ OnStack(Top)
         /\ element[Top].above = stack[Len(stack) - 1]
         /\ stack[Len(stack) - 1] \in {Root} \cup Made
         /\ stack[Len(stack) - 1] < Top
         /\ stack' \in Seq(Nat)
         /\ Len(stack') >= 1
         /\ Made' = Made
         /\ \A j : OnStack(j)' <=> OnStack(j) /\ j # Top
         /\ \A j \in Made : element[j].above = stack[Len(stack) - 1] => OnStack(j) \/ j < Top
         /\ StackOK'
<1> USE ConstantsLemma
<1> DEFINE L == Len(stack)
           M == L - 1
<1>1. L \in Nat /\ L > 1 /\ stack \in Seq(Nat)
  BY DEF IInv, TypesOK
<1>2. /\ L \in 1..L /\ L \in 2..L /\ M \in 1..L /\ M \in Nat /\ M >= 1 /\ M < L /\ L - 1 = M
      /\ 1 \in 1..L
      /\ \A k \in 1..M : k \in 1..L /\ k # L
      /\ \A k \in 2..M : k \in 2..L /\ k - 1 \in 1..M /\ k \in 1..M
      /\ \A k \in 1..L : k \in 1..M \/ k = L
      /\ 1 < L
  <2>1. L \in Nat /\ L > 1
    BY <1>1
  <2> HIDE DEF L
  <2> QED
    BY <2>1
<1>3. /\ stack' \in Seq(Nat)
      /\ Len(stack') = M
      /\ \A k \in 1..M : stack'[k] = stack[k]
  <2>1. stack' = SubSeq(stack, 1, M)
    BY DEF Front
  <2> QED
    BY <1>1, <2>1
<1>4. StackOK
  BY DEF IInv
<1>5. Top = stack[L] /\ stack[L] \in {Root} \cup Made /\ stack[1] < stack[L] /\ stack[1] = Root
  BY <1>2, <1>4 DEF StackOK, Top, Last
<1>6. Made' = Made /\ Made \subseteq Nat
  BY DEF Made
<1>7. Top \in Made /\ OnStack(Top)
  BY <1>2, <1>5, <1>6 DEF OnStack
<1>8. element[Top].above = stack[M] /\ stack[M] \in {Root} \cup Made /\ stack[M] < Top
  BY <1>2, <1>4, <1>5 DEF StackOK
<1> HIDE DEF L, M
<1>9. \A k \in 1..M : stack[k] < Top
  BY <1>2, <1>4, <1>5 DEF StackOK, L
<1>10. \A k \in 1..M : stack[k] # Top
  <2> TAKE k \in 1..M
  <2>1. stack[k] \in Nat /\ Top \in Nat /\ stack[k] < Top
    BY <1>1, <1>2, <1>5, <1>9 DEF L
  <2> QED
    BY <2>1
<1>11. \A j : OnStack(j)' <=> OnStack(j) /\ j # Top
  <2>1. \A j : OnStack(j) <=> \E k \in 1..L : stack[k] = j
    BY DEF OnStack, L
  <2>2. \A j : OnStack(j)' <=> \E k \in 1..M : stack'[k] = j
    BY <1>3 DEF OnStack
  <2> QED
    BY <1>2, <1>3, <1>5, <1>10, <2>1, <2>2
<1>12. \A j \in Made : element[j].above = stack[M] => OnStack(j) \/ j < Top
  BY <1>2, <1>4, <1>5 DEF StackOK, L
<1>13. StackOK'
  <2>1. \A k \in 1..M : stack'[k] \in {Root} \cup Made'
    BY <1>2, <1>3, <1>4, <1>6 DEF StackOK, L
  <2>2. stack'[1] = Root
    BY <1>2, <1>3, <1>5
  <2>3. \A k, l \in 1..M : k < l => stack'[k] < stack'[l]
    BY <1>2, <1>3, <1>4 DEF StackOK, L
  <2>4. \A k \in 2..M : element'[stack'[k]].above = stack'[k - 1]
    BY <1>2, <1>3, <1>4 DEF StackOK, L
  <2>5. \A j \in Made' : element'[j].above \in {Root} \cup Made' /\ element'[j].above < j
    BY <1>4, <1>6 DEF StackOK
  <2>6. \A j \in Made', k \in 2..M :
          element'[j].above = stack'[k - 1] => OnStack(j)' \/ j < stack'[k]
    <3> SUFFICES ASSUME NEW j \in Made, NEW k \in 2..M, element[j].above = stack[k - 1]
                 PROVE  OnStack(j)' \/ j < stack[k]
      BY <1>2, <1>3, <1>6
    <3>1. OnStack(j) \/ j < stack[k]
      BY <1>2, <1>4 DEF StackOK, L
    <3>2. j = Top => j < stack[k]
      <4> SUFFICES ASSUME j = Top
                   PROVE  FALSE
        OBVIOUS
      <4>1. stack[k - 1] = stack[M] /\ k - 1 \in 1..L /\ M \in 1..L /\ k - 1 < M
        BY <1>2, <1>8
      <4>2. stack[k - 1] < stack[M]
        BY <1>4, <4>1 DEF StackOK, L
      <4>3. stack[M] \in Nat
        <5>1. \A n \in {Root} \cup Made : n \in Nat
          BY <1>6
        <5> QED
          BY <1>8, <5>1
      <4> QED
        BY <4>1, <4>2, <4>3
    <3> QED
      BY <1>11, <3>1, <3>2
  <2>7. \A j \in Made' : element'[j].above = Root => j = 1
    BY <1>4, <1>6 DEF StackOK
  <2> QED
    BY <1>3, <2>1, <2>2, <2>3, <2>4, <2>5, <2>6, <2>7 DEF StackOK
<1>14. Len(stack') >= 1
  BY <1>2, <1>3
<1> QED
  BY <1>3, <1>5, <1>6, <1>7, <1>8, <1>11, <1>12, <1>13, <1>14 DEF L, M

\* The element that ends comes after all that have ended below the same element,
\* of which it becomes the last one.
LEMMA CloseTagIInv ==
  ASSUME IInv, CloseTag
  PROVE  IInv'
<1> USE ConstantsLemma
<1> DEFINE i == Top
           above == stack[Len(stack) - 1]
           name == element[i].name
           label == element[i].attributes.label
<1>0. TypesOK /\ ObjectsOK /\ StackOK /\ RefsOK /\ Parents /\ FieldsAreElements
  BY DEF IInv
<1>1. /\ phase = "reading" /\ Len(stack) > 1 /\ stack' = Front(stack)
      /\ UNCHANGED element
      /\ \/ /\ object[above].is = "text"
            /\ phase' = "raised"
            /\ UNCHANGED <<object, refs>>
         \/ /\ object[above].is # "text"
            /\ object' = IF object[above].is = "null" THEN object
                         ELSE [object EXCEPT ![above].is = "object",
                                             ![above].fields[name] = WithItem(@, name, i)]
            /\ refs' = IF element[i].attributes.attribute = "id"
                         THEN [refs EXCEPT ![label].object = i] ELSE refs
            /\ UNCHANGED phase
  BY DEF CloseTag
<1>2. /\ i \in Made /\ OnStack(i)
      /\ element[i].above = above
      /\ above \in {Root} \cup Made
      /\ above < i
      /\ stack' \in Seq(Nat) /\ Len(stack') >= 1
      /\ Made' = Made
      /\ \A j : OnStack(j)' <=> OnStack(j) /\ j # i
      /\ \A j \in Made : element[j].above = above => OnStack(j) \/ j < i
      /\ StackOK'
  BY <1>1, FrontLemma
<1>3. /\ name \in Names
      /\ element[i].attributes \in Attributes(name)
  BY <1>0, <1>2, ElementLemma
<1>4. Made \subseteq Elements /\ above \in Ids /\ i \in Ids
  <2>1. Len(element) \in Nat /\ Len(element) <= MaxElements
    BY <1>0 DEF TypesOK
  <2>2. Made \subseteq Elements
    BY <2>1 DEF Made, Elements
  <2> QED
    BY <1>2, <2>2 DEF Ids
<1> HIDE DEF i, above, name, label
<1>5. CASE object[above].is = "text" /\ phase' = "raised" /\ UNCHANGED <<object, refs>>
  <2>1. TypesOK'
    BY <1>0, <1>1, <1>2, <1>5 DEF TypesOK, Made
  <2>2. ObjectsOK'
    BY <1>0, <1>1, <1>2, <1>5 DEF ObjectsOK, ObjectOK
  <2>3. RefsOK'
    BY <1>0, <1>1, <1>2, <1>5 DEF RefsOK
  <2>4. Parents' /\ FieldsAreElements' /\ HrefsAreMerged'
    BY <1>5 DEF Parents, FieldsAreElements, HrefsAreMerged
  <2> QED
    BY <1>2, <2>1, <2>2, <2>3, <2>4 DEF IInv
<1>6. CASE /\ object[above].is # "text"
           /\ object' = IF object[above].is = "null" THEN object
                        ELSE [object EXCEPT ![above].is = "object",
                                            ![above].fields[name] = WithItem(@, name, i)]
           /\ refs' = IF element[i].attributes.attribute = "id"
                        THEN [refs EXCEPT ![label].object = i] ELSE refs
           /\ UNCHANGED phase
  <2> DEFINE field == WithItem(object[above].fields[name], name, i)
  <2>1. object \in [Ids -> Objects] /\ object[above] \in Objects /\ object[above].fields \in Fields
        /\ i \in Nat
    BY <1>0, <1>2, <1>4 DEF TypesOK, Objects
  <2>2. field \in [array : BOOLEAN, items : Seq(Nat)]
    BY <1>3, <2>1 DEF WithItem, Fields
  <2>3. object[above].is = "null" => object' = object
    BY <1>6
  <2>4. object[above].is # "null" =>
          /\ object' \in [Ids -> Objects]
          /\ \A j \in Ids : j # above => object'[j] = object[j]
          /\ object'[above].is = "object"
          /\ object'[above].fields[name] = field
          /\ \A x \in Names : x # name => object'[above].fields[x] = object[above].fields[x]
          /\ object'[above].texts = object[above].texts
    <3> SUFFICES ASSUME object[above].is # "null"
                 PROVE  /\ object' \in [Ids -> Objects]
                        /\ \A j \in Ids : j # above => object'[j] = object[j]
                        /\ object'[above].is = "object"
                        /\ object'[above].fields[name] = field
                        /\ \A x \in Names : x # name =>
                             object'[above].fields[x] = object[above].fields[x]
                        /\ object'[above].texts = object[above].texts
      OBVIOUS
    <3> HIDE DEF field
    <3> DEFINE o == [object[above] EXCEPT !.is = "object", !.fields[name] = field]
    <3>1. object' = [object EXCEPT ![above] = o]
      BY <1>4, <1>6, <2>1 DEF field
    <3>2. /\ o \in Objects /\ o.is = "object" /\ o.fields[name] = field
          /\ \A x \in Names : x # name => o.fields[x] = object[above].fields[x]
          /\ o.texts = object[above].texts
      BY <1>3, <2>1, <2>2 DEF Objects, Fields, Kinds
    <3> HIDE DEF o
    <3> QED
      BY <1>4, <2>1, <3>1, <3>2
  <2>5. /\ field.items = Append(object[above].fields[name].items, i)
        /\ field.array <=> object[above].fields[name].items # <<>> \/ name \in Many
    BY DEF WithItem
  <2> HIDE DEF field
  <2>6. /\ object' \in [Ids -> Objects]
        /\ \A j \in Ids : j # above => object'[j] = object[j]
        /\ object'[above].is \in {"null", "object"}
        /\ object'[above].is = "null" => object[above].is = "null" /\ object'[above] = object[above]
        /\ object'[above].texts = object[above].texts
    <3>1. CASE object[above].is = "null"
      BY <2>1, <2>3, <3>1
    <3>2. CASE object[above].is # "null"
      BY <2>4, <3>2
    <3> QED
      BY <3>1, <3>2
  <2>7. \A l \in Labels :
          /\ refs'[l].hrefs = refs[l].hrefs
          /\ refs'[l].object = IF element[i].attributes = [attribute |-> "id", label |-> l]
                               THEN i ELSE refs[l].object
    <3> TAKE l \in Labels
    <3>1. refs \in [Labels -> [hrefs : SUBSET Nat, object : Nat]]
      BY <1>0 DEF TypesOK
    <3>2. CASE element[i].attributes = [attribute |-> "id", label |-> l]
      BY <1>6, <3>1, <3>2 DEF label
    <3>3. CASE element[i].attributes # [attribute |-> "id", label |-> l]
      <4>1. element[i].attributes.attribute # "id" \/ label # l
        <5>1. element[i].attributes \in Marked
          BY <1>0, <1>2, ElementLemma
        <5> QED
          BY <3>3, <5>1 DEF label, Marked
      <4>2. refs'[l] = refs[l]
        BY <1>6, <3>1, <4>1
      <4> QED
        BY <3>3, <4>2
    <3> QED
      BY <3>2, <3>3
  <2>8. TypesOK'
    <3>1. refs' \in [Labels -> [hrefs : SUBSET Nat, object : Nat]]
      <4>1. refs \in [Labels -> [hrefs : SUBSET Nat, object : Nat]]
        BY <1>0 DEF TypesOK
      <4>2. CASE element[i].attributes.attribute = "id"
        <5>1. label \in Labels
          BY <1>3, <4>2, AttributesLemma DEF label
        <5> DEFINE entry == [refs[label] EXCEPT !.object = i]
        <5>2. entry \in [hrefs : SUBSET Nat, object : Nat]
          BY <2>1, <4>1, <5>1
        <5>3. refs' = [refs EXCEPT ![label] = entry]
          BY <1>6, <4>1, <4>2, <5>1
        <5> QED
          BY <4>1, <5>2, <5>3
      <4>3. CASE element[i].attributes.attribute # "id"
        BY <1>6, <4>1, <4>3
      <4> QED
        BY <4>2, <4>3
    <3> QED
      BY <1>0, <1>1, <1>2, <1>6, <2>6, <3>1 DEF TypesOK
  <2>9. ObjectsOK'
    <3>1. ASSUME NEW j \in Ids
          PROVE  ObjectOK(j)'
      <4>1. ObjectOK(j)
        BY <1>0 DEF ObjectsOK
      <4>2. CASE j = above
        BY <1>1, <1>2, <2>3, <2>6, <4>1, <4>2 DEF ObjectOK
      <4>3. CASE j # above
        BY <1>1, <1>2, <2>6, <4>1, <4>3 DEF ObjectOK
      <4> QED
        BY <4>2, <4>3
    <3>2. object'[Root].is = "object"
      BY <1>0, <2>6 DEF ObjectsOK, Ids
    <3> QED
      BY <3>1, <3>2 DEF ObjectsOK
  <2>10. RefsOK'
    <3>1. \A j \in Made' : element'[j].attributes.attribute = "href" =>
            j \in refs'[element'[j].attributes.label].hrefs
      <4> SUFFICES ASSUME NEW j \in Made, element[j].attributes.attribute = "href"
                   PROVE  j \in refs'[element[j].attributes.label].hrefs
        BY <1>1, <1>2
      <4>1. element[j].attributes.label \in Labels
        BY <1>0, ElementLemma, AttributesLemma
      <4> QED
        BY <1>0, <2>7, <4>1 DEF RefsOK
    <3>2. \A l \in Labels : \A j \in refs'[l].hrefs :
            j \in Made' /\ element'[j].attributes = [attribute |-> "href", label |-> l]
      BY <1>0, <1>1, <1>2, <2>7 DEF RefsOK
    <3>3. \A l \in Labels :
            refs'[l].object # Root =>
              /\ refs'[l].object \in Made'
              /\ element'[refs'[l].object].attributes = [attribute |-> "id", label |-> l]
      BY <1>0, <1>1, <1>2, <2>7 DEF RefsOK
    <3>4. \A j, k \in Made' :
            /\ element'[j].attributes = element'[k].attributes
            /\ element'[j].attributes.attribute = "id"
            => j = k
      BY <1>0, <1>1, <1>2 DEF RefsOK
    <3>5. \A j \in Made' :
            element'[j].attributes.attribute = "id" /\ ~OnStack(j)' =>
              refs'[element'[j].attributes.label].object = j
      <4> SUFFICES ASSUME NEW j \in Made, element[j].attributes.attribute = "id", ~OnStack(j)'
                   PROVE  refs'[element[j].attributes.label].object = j
        BY <1>1, <1>2
      <4>1. element[j].attributes.label \in Labels /\ element[j].attributes \in Marked
        BY <1>0, ElementLemma, AttributesLemma
      <4>2. element[j].attributes = [attribute |-> "id", label |-> element[j].attributes.label]
        BY <4>1 DEF Marked
      <4>3. CASE j = i
        BY <2>7, <4>1, <4>2, <4>3
      <4>4. CASE j # i
        <5>1. element[i].attributes # element[j].attributes
          BY <1>0, <1>2, <4>4 DEF RefsOK
        <5>2. refs[element[j].attributes.label].object = j
          BY <1>0, <1>1, <1>2, <4>4 DEF RefsOK
        <5> QED
          BY <2>7, <4>1, <4>2, <5>1, <5>2
      <4> QED
        BY <4>3, <4>4
    <3> QED
      BY <3>1, <3>2, <3>3, <3>4, <3>5 DEF RefsOK
  <2>11. Parents'
    <3> SUFFICES ASSUME NEW j \in Made, ~OnStack(j)'
                 PROVE  object'[element[j].above].is \in {"null", "object"}
      BY <1>1, <1>2 DEF Parents
    <3>1. element[j].above \in Ids
      BY <1>0, <1>4 DEF StackOK, Ids
    <3>2. CASE element[j].above = above
      BY <2>6, <3>2
    <3>3. CASE element[j].above # above
      <4>1. j # i
        BY <1>2, <3>3
      <4> QED
        BY <1>0, <1>1, <1>2, <2>6, <3>1, <3>3, <4>1 DEF Parents
    <3> QED
      BY <3>2, <3>3
  <2>12. FieldsAreElements'
    <3> SUFFICES ASSUME NEW j \in {Root} \cup Made, NEW x \in Names, object'[j].is # "null"
                 PROVE  LET f == object'[j].fields[x] IN
                        /\ ToSet(f.items) = Closed(j, x)'
                        /\ InOrder(f.items)
                        /\ f.array <=> Len(f.items) > (IF x \in Many THEN 0 ELSE 1)
      BY <1>2 DEF FieldsAreElements, InOrder
    <3>1. j \in Ids
      BY <1>4 DEF Ids
    <3>2. \A k : k \in ToSet(stack) <=> OnStack(k)
      BY <1>0, OnStackLemma
    <3>3. \A k : k \in ToSet(stack)' <=> OnStack(k)'
      BY <1>2, ToSetLemma DEF OnStack
    <3>4. Closed(j, x)' = {k \in Made : /\ element[k].above = j /\ element[k].name = x
                                        /\ ~OnStack(k) \/ k = i}
      <4>1. Closed(j, x)' = {k \in Made' : /\ element'[k].above = j /\ element'[k].name = x
                                           /\ k \notin ToSet(stack)'}
        BY DEF Closed
      <4> QED
        BY <1>1, <1>2, <3>3, <4>1
    <3>5. Closed(j, x) = {k \in Made : /\ element[k].above = j /\ element[k].name = x
                                       /\ ~OnStack(k)}
      BY <3>2 DEF Closed
    <3>6. object[j].is # "null"
      <4>1. CASE j = above
        BY <2>3, <4>1
      <4>2. CASE j # above
        BY <2>6, <3>1, <4>2
      <4> QED
        BY <4>1, <4>2
    <3>7. LET f == object[j].fields[x] IN
          /\ ToSet(f.items) = Closed(j, x)
          /\ InOrder(f.items)
          /\ f.array <=> Len(f.items) > (IF x \in Many THEN 0 ELSE 1)
      BY <1>0, <1>1, <3>6 DEF FieldsAreElements
    <3>8. CASE ~(j = above /\ x = name)
      <4>1. Closed(j, x)' = Closed(j, x)
        BY <1>2, <3>4, <3>5, <3>8 DEF name
      <4>2. object'[j].fields[x] = object[j].fields[x]
        <5>1. CASE j = above
          BY <2>4, <3>6, <3>8, <5>1
        <5>2. CASE j # above
          BY <2>6, <3>1, <5>2
        <5> QED
          BY <5>1, <5>2
      <4> QED
        BY <3>7, <4>1, <4>2
    <3>9. CASE j = above /\ x = name
      <4> DEFINE items == object[above].fields[name].items
      <4>1. items \in Seq(Nat) /\ i \in Nat
        BY <1>3, <2>1 DEF Fields
      <4>2. ToSet(items) = Closed(above, name) /\ InOrder(items)
        BY <3>7, <3>9
      <4>3. object'[j].fields[x] = field
        BY <2>4, <3>6, <3>9
      <4> HIDE DEF items
      <4>4. /\ field.items = Append(items, i)
            /\ field.array <=> items # <<>> \/ name \in Many
        BY <2>5 DEF items
      <4>5. Closed(j, x)' = Closed(above, name) \cup {i}
        BY <1>2, <3>4, <3>5, <3>9 DEF name
      <4>6. \A k : k \in ToSet(items) <=> \E m \in 1..Len(items) : items[m] = k
        BY <4>1, ToSetLemma
      <4>7. /\ Append(items, i) \in Seq(Nat) /\ Len(Append(items, i)) = Len(items) + 1
            /\ \A m \in 1..Len(items) : Append(items, i)[m] = items[m]
            /\ Append(items, i)[Len(items) + 1] = i
            /\ Len(items) \in Nat
        BY <4>1
      <4> DEFINE longer == Append(items, i)
                 m0 == Len(items)
      <4>8. \A m \in 1..(m0 + 1) : m \in 1..m0 \/ m = m0 + 1
        BY <4>7
      <4>8a. m0 + 1 \in 1..(m0 + 1) /\ \A m \in 1..m0 : m \in 1..(m0 + 1)
        BY <4>7
      <4>9. \A k : k \in ToSet(longer) <=> \E m \in 1..(m0 + 1) : longer[m] = k
        BY <4>7, ToSetLemma
      <4>10. ToSet(longer) = Closed(j, x)'
        <5>1. \A k : k \in ToSet(longer) <=> k \in ToSet(items) \/ k = i
          BY <4>6, <4>7, <4>8, <4>8a, <4>9
        <5> QED
          BY <4>2, <4>5, <5>1
      <4>11. InOrder(longer)
        <5> SUFFICES ASSUME NEW k \in 1..(m0 + 1), NEW l \in 1..(m0 + 1), k < l
                     PROVE  longer[k] < longer[l]
          BY <4>7 DEF InOrder
        <5>1. k \in 1..m0
          BY <4>7
        <5>2. CASE l = m0 + 1
          <6>1. items[k] \in Closed(above, name)
            BY <4>2, <4>6, <5>1
          <6>2. items[k] \in Made /\ element[items[k]].above = above /\ ~OnStack(items[k])
            BY <3>2, <6>1 DEF Closed
          <6>3. items[k] < i
            BY <1>2, <6>2
          <6> QED
            BY <4>7, <5>1, <5>2, <6>3
        <5>3. CASE l \in 1..m0
          BY <4>2, <4>7, <5>1, <5>3 DEF InOrder
        <5> QED
          BY <4>8, <5>2, <5>3
      <4>12. field.array <=> m0 + 1 > (IF x \in Many THEN 0 ELSE 1)
        <5>1. items # <<>> <=> m0 > 0
          BY <4>1
        <5>2. CASE x \in Many
          BY <3>9, <4>4, <4>7, <5>2
        <5>3. CASE x \notin Many
          BY <3>9, <4>4, <4>7, <5>1, <5>3
        <5> QED
          BY <5>2, <5>3
      <4>13. Len(longer) = m0 + 1
        BY <4>7
      <4> HIDE DEF longer, m0
      <4> QED
        BY <4>3, <4>4, <4>10, <4>11, <4>12, <4>13 DEF longer
    <3> QED
      BY <3>8, <3>9
  <2>13. HrefsAreMerged'
    BY <1>1, <1>6 DEF HrefsAreMerged
  <2> QED
    BY <1>2, <2>8, <2>9, <2>10, <2>11, <2>12, <2>13 DEF IInv
<1> QED
  BY <1>1, <1>5, <1>6 DEF i, above, name, label

---------------------------------------------------------------------------
(* ontext and oncdata.                                                     *)

\* What is done to the object on top of the stack by a text: an object stays
\* one, with its fields, and null stays null.
LEMMA TopObjectIInv ==
  ASSUME IInv, phase = "reading", Len(stack) > 1, NEW o \in Objects,
         o.fields = object[Top].fields,
         object[Top].is = "null" => o = object[Top],
         object[Top].is = "object" => o.is = "object",
         o.is \in {"undefined", "null"} => o.texts = <<>>,
         o.is = "null" => object[Top].is = "null",
         object' = [object EXCEPT ![Top] = o],
         phase' \in {"reading", "raised"}, UNCHANGED <<element, stack, refs>>
  PROVE  IInv'
<1> USE ConstantsLemma
<1>0. TypesOK /\ ObjectsOK /\ StackOK /\ RefsOK /\ Parents /\ FieldsAreElements
  BY DEF IInv
<1>1. Made' = Made /\ \A j : OnStack(j)' <=> OnStack(j)
  BY DEF Made, OnStack
<1>2. Top \in {Root} \cup Made /\ Made \subseteq Elements /\ Top \in Ids
  <2>1. Len(element) \in Nat /\ Len(element) <= MaxElements /\ Len(stack) \in Nat
    BY <1>0 DEF TypesOK
  <2>2. Made \subseteq Elements
    BY <2>1 DEF Made, Elements
  <2>3. Top \in {Root} \cup Made
    BY <1>0, <2>1 DEF StackOK, Top, Last
  <2> QED
    BY <2>2, <2>3 DEF Ids
<1> HIDE DEF Top
<1>3. /\ object \in [Ids -> Objects]
      /\ object' \in [Ids -> Objects]
      /\ object'[Top] = o
      /\ \A j \in Ids : j # Top => object'[j] = object[j]
  BY <1>0, <1>2 DEF TypesOK
<1>4. TypesOK'
  BY <1>0, <1>1, <1>3 DEF TypesOK
<1>5. ObjectsOK'
  <2>1. ASSUME NEW j \in Ids
        PROVE  ObjectOK(j)'
    <3>1. ObjectOK(j)
      BY <1>0 DEF ObjectsOK
    <3>2. CASE j = Top
      BY <1>1, <1>2, <1>3, <3>1, <3>2 DEF ObjectOK
    <3>3. CASE j # Top
      BY <1>1, <1>3, <3>1, <3>3 DEF ObjectOK
    <3> QED
      BY <3>2, <3>3
  <2>2. object'[Root].is = "object"
    BY <1>0, <1>3 DEF ObjectsOK, Ids
  <2> QED
    BY <2>1, <2>2 DEF ObjectsOK
<1>6. StackOK'
  BY <1>0, <1>1 DEF StackOK
<1>7. RefsOK'
  BY <1>0, <1>1 DEF RefsOK
<1>8. Parents'
  <2> SUFFICES ASSUME NEW j \in Made, ~OnStack(j)
               PROVE  object'[element[j].above].is \in {"null", "object"}
    BY <1>0, <1>1 DEF Parents
  <2>1. element[j].above \in Ids
    BY <1>0, <1>2 DEF StackOK, Ids
  <2>2. object[element[j].above].is \in {"null", "object"}
    BY <1>0 DEF Parents
  <2> QED
    BY <1>3, <2>1, <2>2
<1>9. FieldsAreElements'
  <2> SUFFICES ASSUME NEW j \in {Root} \cup Made, NEW x \in Names, object'[j].is # "null"
               PROVE  LET field == object'[j].fields[x] IN
                      /\ ToSet(field.items) = Closed(j, x)
                      /\ InOrder(field.items)
                      /\ field.array <=> Len(field.items) > (IF x \in Many THEN 0 ELSE 1)
    BY <1>1 DEF FieldsAreElements, InOrder, Closed
  <2>1. j \in Ids
    BY <1>2 DEF Ids
  <2>2. object[j].is # "null" /\ object'[j].fields = object[j].fields
    BY <1>3, <2>1
  <2> QED
    BY <1>0, <2>2 DEF FieldsAreElements
<1>10. HrefsAreMerged'
  BY DEF HrefsAreMerged
<1> QED
  BY <1>4, <1>5, <1>6, <1>7, <1>8, <1>9, <1>10 DEF IInv

\* The object on top of the stack, and what a text makes of it.
LEMMA WithTextLemma ==
  ASSUME IInv, Len(stack) > 1, NEW t \in Texts
  PROVE  /\ object[Top] \in Objects
         /\ object[Top].is \in {"undefined", "null"} => object[Top].texts = <<>>
         /\ WithText(object[Top], t) \in Objects
         /\ WithText(object[Top], t).fields = object[Top].fields
         /\ object[Top].is = "null" => WithText(object[Top], t) = object[Top]
         /\ object[Top].is = "object" => WithText(object[Top], t).is = "object"
         /\ WithText(object[Top], t).is \in {"undefined", "null"} =>
              WithText(object[Top], t).texts = <<>>
         /\ WithText(object[Top], t).is = "null" => object[Top].is = "null"
<1> USE ConstantsLemma
<1>1. Top \in Ids
  <2>1. Len(element) \in Nat /\ Len(element) <= MaxElements /\ Len(stack) \in Nat
    BY DEF IInv, TypesOK
  <2>2. Top \in {Root} \cup Made
    BY <2>1 DEF IInv, StackOK, Top, Last
  <2> QED
    BY <2>1, <2>2 DEF Ids, Made, Elements
<1> DEFINE o == object[Top]
<1>2. o \in Objects /\ (o.is \in {"undefined", "null"} => o.texts = <<>>)
  BY <1>1 DEF IInv, TypesOK, ObjectsOK, ObjectOK
<1> HIDE DEF o
<1>3. CASE o.is = "null"
  BY <1>2, <1>3 DEF WithText, o
<1>4. CASE o.is # "null"
  <2> DEFINE kind == IF o.is = "undefined" THEN "text" ELSE o.is
             texts == Append(o.texts, t)
             p == [o EXCEPT !.is = kind, !.texts = texts]
  <2>1. WithText(o, t) = p
    BY <1>2, <1>4 DEF WithText
  <2>2. kind \in Kinds /\ kind \notin {"undefined", "null"}
    BY <1>2, <1>4 DEF Objects, Kinds
  <2>5. texts \in Seq(Texts)
    <3>1. o.texts \in Seq(Texts)
      BY <1>2 DEF Objects
    <3> QED
      BY <3>1
  <2> HIDE DEF kind, texts
  <2>3. p \in Objects /\ p.fields = o.fields /\ p.is = kind
    BY <1>2, <2>2, <2>5 DEF Objects
  <2> HIDE DEF p
  <2>4. o.is = "object" => kind = "object"
    BY DEF kind
  <2> QED
    BY <1>2, <1>4, <2>1, <2>2, <2>3, <2>4 DEF o
<1> QED
  BY <1>3, <1>4

\* Text is read.
LEMMA ReadTextIInv ==
  ASSUME IInv, NEW t \in Texts, ReadText(t)
  PROVE  IInv'
<1>1. /\ phase = "reading" /\ phase' = "reading" /\ Len(stack) > 1
      /\ object' = [object EXCEPT ![Top] = WithText(object[Top], t)]
      /\ UNCHANGED <<element, stack, refs>>
  BY DEF ReadText
<1> QED
  BY <1>1, WithTextLemma, TopObjectIInv

\* A document inside a CDATA section is read.
LEMMA ReadDocumentIInv ==
  ASSUME IInv, NEW t \in Texts, ReadDocument(t)
  PROVE  IInv'
<1> DEFINE o == IF object[Top].is = "undefined" THEN [object[Top] EXCEPT !.is = "object"]
                                                ELSE WithText(object[Top], t)
<1>1. /\ phase = "reading" /\ phase' \in {"reading", "raised"} /\ Len(stack) > 1
      /\ object' = object \/ object' = [object EXCEPT ![Top] = o]
      /\ UNCHANGED <<element, stack, refs>>
  BY DEF ReadDocument
<1>2. /\ o \in Objects
      /\ o.fields = object[Top].fields
      /\ object[Top].is = "null" => o = object[Top]
      /\ object[Top].is = "object" => o.is = "object"
      /\ o.is \in {"undefined", "null"} => o.texts = <<>>
      /\ o.is = "null" => object[Top].is = "null"
  <2>1. CASE object[Top].is = "undefined"
    <3>1. object[Top] \in Objects
      BY <1>1, WithTextLemma
    <3>2. o \in Objects /\ o.fields = object[Top].fields /\ o.is = "object"
      BY <2>1, <3>1 DEF Objects, Kinds
    <3> QED
      BY <2>1, <3>2
  <2>2. CASE object[Top].is # "undefined"
    BY <1>1, <2>2, WithTextLemma
  <2> QED
    BY <2>1, <2>2
<1> HIDE DEF o
<1>3. CASE object' = [object EXCEPT ![Top] = o]
  BY <1>1, <1>2, <1>3, TopObjectIInv
<1>4. CASE object' = object
  <2>1. object[Top] \in Objects
        /\ (object[Top].is \in {"undefined", "null"} => object[Top].texts = <<>>)
    BY <1>1, WithTextLemma
  <2>2. object' = [object EXCEPT ![Top] = object[Top]]
    BY <1>4 DEF IInv, TypesOK
  <2> QED
    BY <1>1, <2>1, <2>2, TopObjectIInv
<1> QED
  BY <1>1, <1>3, <1>4

---------------------------------------------------------------------------
(* The end of the message.                                                 *)

\* An object with what another one has on top of its own is an object still.
LEMMA MergedObjectLemma ==
  ASSUME NEW o \in Objects, NEW from \in Objects
  PROVE  /\ MergedObject(o, from) \in Objects
         /\ MergedObject(o, from).is = o.is
         /\ \A x \in Names : from.fields[x].items # <<>> =>
              MergedObject(o, from).fields[x] = from.fields[x]
         /\ from.texts # <<>> => MergedObject(o, from).texts = from.texts
<1> DEFINE fields == [x \in Names |->
                        IF from.fields[x].items # <<>> THEN from.fields[x] ELSE o.fields[x]]
           texts == IF from.texts # <<>> THEN from.texts ELSE o.texts
           p == [o EXCEPT !.fields = fields, !.texts = texts]
<1>1. MergedObject(o, from) = p
  BY DEF MergedObject
<1>2. fields \in Fields
  <2>1. \A x \in Names : /\ from.fields[x] \in [array : BOOLEAN, items : Seq(Nat)]
                         /\ o.fields[x] \in [array : BOOLEAN, items : Seq(Nat)]
    BY DEF Objects, Fields
  <2> QED
    BY <2>1 DEF Fields
<1>3. texts \in Seq(Texts)
  BY DEF Objects
<1>4. /\ \A x \in Names : from.fields[x].items # <<>> => fields[x] = from.fields[x]
      /\ from.texts # <<>> => texts = from.texts
  OBVIOUS
<1> HIDE DEF fields, texts
<1>5. p \in Objects /\ p.is = o.is /\ p.fields = fields /\ p.texts = texts
  BY <1>2, <1>3 DEF Objects
<1> QED
  BY <1>1, <1>4, <1>5

\* An element is merged with the one whose label it refers to, if that has ended;
\* all the others stay as they are.
LEMMA MergedLemma ==
  ASSUME TypesOK, RefsOK
  PROVE  /\ Merged \in [Ids -> Objects]
         /\ \A i \in Ids : Merged[i].is = object[i].is
         /\ \A i \in Ids :
              ~(i \in Made /\ element[i].attributes.attribute = "href") => Merged[i] = object[i]
         /\ \A i \in Made, l \in Labels :
              element[i].attributes = [attribute |-> "href", label |-> l]
              /\ i \in refs[l].hrefs /\ refs[l].object # Root =>
                Merged[i] = MergedObject(object[i], object[refs[l].object])
<1> USE ConstantsLemma
<1> DEFINE labels(i) == {l \in Labels : i \in refs[l].hrefs /\ refs[l].object # Root}
           merged(i) == IF labels(i) = {} THEN object[i]
                        ELSE MergedObject(object[i], object[refs[CHOOSE l \in labels(i) : TRUE].object])
<1>1. object \in [Ids -> Objects] /\ DOMAIN object = Ids /\ Len(element) <= MaxElements
      /\ Len(element) \in Nat
  BY DEF TypesOK
<1>2. Made \subseteq Ids
  BY <1>1 DEF Made, Ids, Elements
<1>3. Merged = [i \in Ids |-> merged(i)]
  BY <1>1 DEF Merged
<1>4. \A i \in Ids : \A l \in labels(i) :
        /\ l \in Labels /\ refs[l].object \in Ids
        /\ i \in Made /\ element[i].attributes = [attribute |-> "href", label |-> l]
  BY <1>2 DEF RefsOK
<1>5. \A i \in Ids : \A l \in labels(i) : labels(i) = {l}
  <2> SUFFICES ASSUME NEW i \in Ids, NEW l \in labels(i), NEW k \in labels(i)
               PROVE  k = l
    OBVIOUS
  <2>1. /\ element[i].attributes = [attribute |-> "href", label |-> l]
        /\ element[i].attributes = [attribute |-> "href", label |-> k]
    <3> HIDE DEF labels
    <3> QED
      BY <1>4
  <2>2. element[i].attributes.label = l
    BY <2>1
  <2>3. element[i].attributes.label = k
    BY <2>1
  <2> QED
    BY <2>2, <2>3
<1>6. \A i \in Ids : labels(i) = {} => merged(i) = object[i]
  OBVIOUS
<1>7. \A i \in Ids : \A l \in labels(i) : merged(i) = MergedObject(object[i], object[refs[l].object])
  <2> SUFFICES ASSUME NEW i \in Ids, NEW l \in labels(i)
               PROVE  merged(i) = MergedObject(object[i], object[refs[l].object])
    OBVIOUS
  <2>1. labels(i) = {l}
    BY <1>5
  <2>2. (CHOOSE k \in labels(i) : TRUE) = l
    <3> HIDE DEF labels
    <3> QED
      BY <2>1
  <2> QED
    BY <2>1, <2>2
<1>8. \A i \in Ids : merged(i) \in Objects /\ merged(i).is = object[i].is
  <2> SUFFICES ASSUME NEW i \in Ids
               PROVE  merged(i) \in Objects /\ merged(i).is = object[i].is
    OBVIOUS
  <2>1. CASE labels(i) = {}
    BY <1>1, <1>6, <2>1
  <2>2. CASE labels(i) # {}
    <3> PICK l \in labels(i) : TRUE
      BY <2>2
    <3>1. object[i] \in Objects /\ object[refs[l].object] \in Objects
      BY <1>1, <1>4
    <3>2. merged(i) = MergedObject(object[i], object[refs[l].object])
      BY <1>7
    <3> HIDE DEF merged
    <3> QED
      BY <3>1, <3>2, MergedObjectLemma
  <2> QED
    BY <2>1, <2>2
<1>9. \A i \in Ids : ~(i \in Made /\ element[i].attributes.attribute = "href") =>
        merged(i) = object[i]
  <2> SUFFICES ASSUME NEW i \in Ids, ~(i \in Made /\ element[i].attributes.attribute = "href")
               PROVE  labels(i) = {}
    BY <1>6
  <2> SUFFICES ASSUME NEW l \in labels(i)
               PROVE  FALSE
    OBVIOUS
  <2>1. i \in Made /\ element[i].attributes = [attribute |-> "href", label |-> l]
    <3> HIDE DEF labels
    <3> QED
      BY <1>4
  <2> QED
    BY <2>1
<1>10. \A i \in Made, l \in Labels :
         i \in refs[l].hrefs /\ refs[l].object # Root =>
           merged(i) = MergedObject(object[i], object[refs[l].object])
  BY <1>2, <1>7
<1> HIDE DEF merged
<1> QED
  BY <1>2, <1>3, <1>8, <1>9, <1>10

\* The message is over: nothing is read any more, and the values are merged.
LEMMA EndIInv ==
  ASSUME IInv, End
  PROVE  IInv'
<1> USE ConstantsLemma
<1>0. TypesOK /\ ObjectsOK /\ StackOK /\ RefsOK
  BY DEF IInv
<1>1. /\ phase = "reading" /\ phase' \in {"raised", "returned"}
      /\ object' = Merged
      /\ UNCHANGED <<element, stack, refs>>
  BY DEF End
<1>2. /\ Merged \in [Ids -> Objects]
      /\ \A i \in Ids : Merged[i].is = object[i].is
      /\ \A i \in Ids :
           ~(i \in Made /\ element[i].attributes.attribute = "href") => Merged[i] = object[i]
  BY <1>0, MergedLemma
<1>3. Made' = Made /\ Len(element) \in Nat /\ Len(element) <= MaxElements /\ Made \subseteq Ids
  BY <1>0, <1>1 DEF Made, TypesOK, Ids, Elements
<1>4. TypesOK'
  BY <1>0, <1>1, <1>2, <1>3 DEF TypesOK
<1>5. ObjectsOK'
  <2>1. ASSUME NEW i \in Ids
        PROVE  ObjectOK(i)'
    <3>1. ObjectOK(i)
      BY <1>0 DEF ObjectsOK
    <3>2. CASE i \in Made /\ element[i].attributes.attribute = "href"
      <4>1. object[i].is = "object"
        BY <3>1, <3>2 DEF ObjectOK
      <4>2. Merged[i].is = "object"
        BY <1>2, <4>1
      <4> QED
        BY <1>1, <1>3, <3>2, <4>2 DEF ObjectOK
    <3>3. CASE ~(i \in Made /\ element[i].attributes.attribute = "href")
      <4>1. Merged[i] = object[i]
        BY <1>2, <3>3
      <4> QED
        BY <1>1, <1>3, <3>1, <4>1 DEF ObjectOK
    <3> QED
      BY <3>2, <3>3
  <2>2. object'[Root].is = "object"
    BY <1>0, <1>1, <1>2 DEF ObjectsOK, Ids
  <2> QED
    BY <2>1, <2>2 DEF ObjectsOK
<1>6. StackOK'
  BY <1>0, <1>1, <1>3 DEF StackOK, OnStack
<1>7. RefsOK'
  <2>1. phase' # "reading"
    BY <1>1
  <2> QED
    BY <1>0, <1>1, <1>3, <2>1 DEF RefsOK
<1>8. Parents' /\ FieldsAreElements'
  BY <1>1 DEF Parents, FieldsAreElements
<1>9. HrefsAreMerged'
  <2> SUFFICES ASSUME stack = <<Root>>, NEW i \in Made, NEW j \in Made,
                      element[i].attributes.attribute = "href",
                      element[j].attributes.attribute = "id",
                      element[i].attributes.label = element[j].attributes.label
               PROVE  /\ \A x \in Names :
                           Merged[j].fields[x].items # <<>> =>
                             Merged[i].fields[x] = Merged[j].fields[x]
                      /\ Merged[j].texts # <<>> => Merged[i].texts = Merged[j].texts
    BY <1>1, <1>3 DEF HrefsAreMerged
  <2> DEFINE l == element[i].attributes.label
  <2>1. l \in Labels /\ element[i].attributes = [attribute |-> "href", label |-> l]
    <3>1. /\ element[i].name \in Names
          /\ element[i].attributes \in Attributes(element[i].name)
          /\ element[i].attributes \in Marked
      BY <1>0, ElementLemma
    <3>2. l \in Labels
      BY <3>1, AttributesLemma
    <3> QED
      BY <3>1, <3>2 DEF Marked
  <2>2. j # Root /\ ~OnStack(j)
    BY <1>3 DEF OnStack, Made
  <2>3. i \in refs[l].hrefs /\ refs[l].object = j
    BY <1>0, <1>1, <2>2 DEF RefsOK
  <2>4. Merged[i] = MergedObject(object[i], object[j])
    <3> HIDE DEF l
    <3> QED
      BY <1>0, <2>1, <2>2, <2>3, MergedLemma
  <2>5. Merged[j] = object[j]
    BY <1>2, <1>3
  <2>6. object[i] \in Objects /\ object[j] \in Objects
    BY <1>0, <1>3 DEF TypesOK
  <2> QED
    BY <2>4, <2>5, <2>6, MergedObjectLemma
<1> QED
  BY <1>4, <1>5, <1>6, <1>7, <1>8, <1>9 DEF IInv

\* Every step of the handlers keeps the invariant, and so does no step.
LEMMA NextIInv ==
  ASSUME IInv, [Next]_vars
  PROVE  IInv'
<1>1. CASE \E name \in Names : \E a \in Attributes(name) : OpenTag(name, a)
  BY <1>1, OpenTagIInv
<1>2. CASE CloseTag
  BY <1>2, CloseTagIInv
<1>3. CASE \E t \in Texts : ReadText(t) \/ ReadDocument(t)
  BY <1>3, ReadTextIInv, ReadDocumentIInv
<1>4. CASE End
  BY <1>4, EndIInv
<1>5. CASE UNCHANGED vars
  <2>1. UNCHANGED <<phase, element, object, stack, refs>>
    BY <1>5 DEF vars
  <2> QED
    BY <2>1 DEF IInv, TypesOK, ObjectsOK, ObjectOK, StackOK, OnStack, RefsOK, Parents,
      FieldsAreElements, Closed, HrefsAreMerged, Made
<1> QED
  BY <1>1, <1>2, <1>3, <1>4, <1>5 DEF Next

\* IInv is an inductive invariant of the reader.
THEOREM Inductive == Spec => []IInv
<1>1. Init => IInv
  BY InitIInv
<1>2. IInv /\ [Next]_vars => IInv'
  BY NextIInv
<1> QED
  BY <1>1, <1>2, PTL DEF Spec

\* Every state of the reader is of its types: what is null or undefined has
\* nothing, and a text has no fields.
THEOREM TypeCorrect == Spec => []TypeOK
<1>1. IInv => TypeOK
  <2> SUFFICES ASSUME IInv
               PROVE  TypeOK
    OBVIOUS
  <2> USE ConstantsLemma
  <2>1. TypesOK /\ ObjectsOK /\ StackOK /\ RefsOK
    BY DEF IInv
  <2>2. /\ phase \in {"reading", "returned", "raised"}
        /\ \A i \in Made : element[i].attributes \in Attributes(element[i].name)
    BY <2>1 DEF TypesOK
  <2>3. \A i \in Made : element[i].above < i
    BY <2>1 DEF StackOK
  <2>4. stack \in Seq({Root} \cup Made)
    <3>1. \A k \in 1..Len(stack) : stack[k] \in {Root} \cup Made
      BY <2>1 DEF StackOK
    <3>2. stack \in Seq(Nat)
      BY <2>1 DEF TypesOK
    <3> QED
      BY <3>1, <3>2
  <2>5. refs \in [Labels -> [hrefs : SUBSET Made, object : {Root} \cup Made]]
    <3>1. refs \in [Labels -> [hrefs : SUBSET Nat, object : Nat]]
      BY <2>1 DEF TypesOK
    <3>2. \A l \in Labels : refs[l].hrefs \subseteq Made /\ refs[l].object \in {Root} \cup Made
      BY <2>1 DEF RefsOK
    <3> QED
      BY <3>1, <3>2
  <2>6. ASSUME NEW i \in {Root} \cup Elements
        PROVE  /\ object[i].is \in {"undefined", "null", "text", "object"}
               /\ object[i].is # "object" => object[i].fields = NoFields
               /\ object[i].is \in {"undefined", "null"} => object[i].texts = <<>>
               /\ object[i].texts \in Seq(Texts)
    <3>1. object[i] \in Objects /\ ObjectOK(i)
      BY <2>1 DEF TypesOK, ObjectsOK, Ids
    <3> QED
      BY <3>1 DEF ObjectOK, Objects, Kinds
  <2> QED
    BY <2>2, <2>3, <2>4, <2>5, <2>6 DEF TypeOK
<1> QED
  BY <1>1, Inductive, PTL

\* While the message is read, every object has just the elements below it that
\* have ended, under their names and in their order.
THEOREM FieldsAreElementsHolds == Spec => []FieldsAreElements
<1>1. IInv => FieldsAreElements
  BY DEF IInv
<1> QED
  BY <1>1, Inductive, PTL

\* An element that refers to another one by its id, wherever the two are, has
\* all that the other one has when the message was read.
THEOREM HrefsAreMergedHolds == Spec => []HrefsAreMerged
<1>1. IInv => HrefsAreMerged
  BY DEF IInv
<1> QED
  BY <1>1, Inductive, PTL

---------------------------------------------------------------------------
(* Faults.                                                                 *)

\* The accessors of multi-reference values are below the Body: neither it nor
\* the Envelope refers to another element.
PlainEnvelope == "href" \notin Marks[Envelope] \cup Marks[Body]

\* What is in order has each element once.
LEMMA OnlyItemLemma ==
  ASSUME NEW s \in Seq(Nat), InOrder(s), NEW n, ToSet(s) = {n}
  PROVE  Len(s) = 1 /\ s[1] = n
<1>1. \A k \in 1..Len(s) : s[k] = n
  BY ToSetLemma
<1>2. \E k \in 1..Len(s) : s[k] = n
  BY ToSetLemma
<1>3. Len(s) \in Nat /\ Len(s) >= 1
  BY <1>2
<1>4. ~(Len(s) > 1)
  <2> SUFFICES ASSUME Len(s) > 1
               PROVE  FALSE
    OBVIOUS
  <2>1. 1 \in 1..Len(s) /\ 2 \in 1..Len(s) /\ 1 < 2
    BY <1>3
  <2>2. s[1] < s[2] /\ s[1] = s[2] /\ s[1] \in Nat
    BY <1>1, <2>1 DEF InOrder
  <2> QED
    BY <2>2
<1>5. Len(s) = 1
  <2> DEFINE L == Len(s)
  <2>1. L \in Nat /\ L >= 1 /\ ~(L > 1)
    BY <1>3, <1>4
  <2> HIDE DEF L
  <2>2. L = 1
    BY <2>1
  <2> QED
    BY <2>2 DEF L
<1>6. 1 \in 1..Len(s)
  BY <1>5
<1> QED
  BY <1>1, <1>5, <1>6

\* The only element of a name that ended below another one, which is an object,
\* is what the search for a Fault finds there.
LEMMA FieldLemma ==
  ASSUME IInv, phase = "reading", NEW i \in {Root} \cup Made, NEW x \in Names,
         object[i].is = "object", NEW j, Closed(i, x) = {j},
         NEW objects, objects[i] = object[i], x \notin Many \/ ~object[i].fields[x].array
  PROVE  Field(objects, i, x) = j
<1> DEFINE field == object[i].fields[x]
<1>1. ToSet(field.items) = {j} /\ InOrder(field.items)
      /\ (field.array <=> Len(field.items) > (IF x \in Many THEN 0 ELSE 1))
  BY DEF IInv, FieldsAreElements
<1>2. field.items \in Seq(Nat)
  <2>1. i \in Ids
    BY ConstantsLemma DEF Ids, IInv, TypesOK, Made, Elements
  <2>2. object[i] \in Objects
    BY <2>1 DEF IInv, TypesOK
  <2>3. field \in [array : BOOLEAN, items : Seq(Nat)]
    BY <2>2 DEF Objects, Fields
  <2> QED
    BY <2>3
<1> HIDE DEF field
<1>3. Len(field.items) = 1 /\ field.items[1] = j
  BY <1>1, <1>2, OnlyItemLemma
<1>4. ~field.array
  BY <1>1, <1>3 DEF field
<1> QED
  BY <1>3, <1>4 DEF Field, field

\* A message with a Fault that is not empty is not returned when it ends.
LEMMA EndRaises ==
  ASSUME IInv, End, PlainEnvelope
  PROVE  FaultIsRaised'
<1> USE ConstantsLemma
<1>1. /\ phase = "reading"
      /\ phase' = IF HasFault(Merged) THEN "raised" ELSE "returned"
      /\ object' = Merged
      /\ element' = element /\ stack' = stack /\ refs' = refs
      /\ Made' = Made
  BY DEF End, Made
<1>2. TypesOK /\ ObjectsOK /\ StackOK /\ RefsOK /\ Parents /\ FieldsAreElements
  BY DEF IInv
<1> SUFFICES ASSUME ~HasFault(Merged), stack = <<Root>>, element[1].name = Envelope,
                    NEW b \in Made, Closed(1, Body) = {b},
                    Merged[b].is = "object", Merged[1].is = "object",
                    NEW f \in Closed(b, Fault), NEW d \in Made, element[d].above = f
             PROVE  Merged[f].is = "null"
  BY <1>1 DEF FaultIsRaised, Closed
<1>3. /\ Made \subseteq Nat \ {Root} /\ Made \subseteq Ids
      /\ 1 \in Made
  BY <1>2 DEF TypesOK, Made, Ids, Elements
<1>4. \A j : j \in ToSet(stack) => j = Root
  BY <1>2, OnStackLemma DEF OnStack
<1>5. b \in Made /\ element[b].name = Body /\ f \in Made /\ element[f].name = Fault
  BY DEF Closed
<1>6. /\ \A i \in Ids : Merged[i].is = object[i].is
      /\ Merged[Root] = object[Root] /\ Merged[1] = object[1] /\ Merged[b] = object[b]
  <2>1. ASSUME NEW i \in Made, element[i].name \in {Envelope, Body}
        PROVE  element[i].attributes.attribute # "href"
    <3>1. /\ element[i].name \in Names
          /\ element[i].attributes \in Attributes(element[i].name)
      BY <1>2, ElementLemma
    <3>2. element[i].attributes.attribute \in {"none"} \cup Marks[element[i].name]
      BY <3>1, AttributesLemma
    <3> QED
      BY <2>1, <3>2 DEF PlainEnvelope
  <2>2. \A i \in Ids :
          ~(i \in Made /\ element[i].attributes.attribute = "href") => Merged[i] = object[i]
    BY <1>2, MergedLemma
  <2>3. \A i \in Ids : Merged[i].is = object[i].is
    BY <1>2, MergedLemma
  <2> QED
    BY <1>3, <1>5, <2>1, <2>2, <2>3 DEF Ids
<1>7. object[Root].is = "object" /\ object[1].is = "object" /\ object[b].is = "object"
  BY <1>2, <1>3, <1>6 DEF ObjectsOK
<1>8. Closed(Root, Envelope) = {1}
  <2>1. element[1].above = Root
    BY <1>2, <1>3 DEF StackOK, Made
  <2>2. \A j \in Made : element[j].above = Root => j = 1
    BY <1>2 DEF StackOK
  <2>3. 1 \notin ToSet(stack)
    BY <1>4
  <2> QED
    BY <1>3, <2>1, <2>2, <2>3 DEF Closed
<1>9. /\ Envelope \in Names /\ Body \in Names /\ Fault \in Names
      /\ Envelope \notin Many /\ Body \notin Many
  BY ReaderAssumption DEF ReaderAssumption
<1>10. Field(Merged, Root, Envelope) = 1
  BY <1>1, <1>6, <1>7, <1>8, <1>9, FieldLemma
<1>11. Field(Merged, 1, Body) = b
  BY <1>1, <1>3, <1>6, <1>7, <1>9, FieldLemma
<1>12. Present(Merged, 1) /\ Present(Merged, b)
  BY <1>3 DEF Present
<1>13. /\ ~object[b].fields[Fault].array
       /\ ~Present(Merged, Field(Merged, b, Fault))
  BY <1>6, <1>10, <1>11, <1>12 DEF HasFault
<1>14. Closed(b, Fault) = {f}
  <2> DEFINE items == object[b].fields[Fault].items
  <2>1. /\ ToSet(items) = Closed(b, Fault)
        /\ ~(Len(items) > (IF Fault \in Many THEN 0 ELSE 1))
    BY <1>1, <1>2, <1>5, <1>7, <1>9, <1>13 DEF FieldsAreElements
  <2>2. items \in Seq(Nat)
    <3>1. object[b] \in Objects
      BY <1>2, <1>3 DEF TypesOK
    <3>2. object[b].fields[Fault] \in [array : BOOLEAN, items : Seq(Nat)]
      BY <1>9, <3>1 DEF Objects, Fields
    <3> QED
      BY <3>2
  <2> HIDE DEF items
  <2>3. \A j : j \in Closed(b, Fault) => \E k \in 1..Len(items) : items[k] = j
    BY <2>1, <2>2, ToSetLemma
  <2>4. Len(items) \in Nat /\ ~(Len(items) > 1)
    BY <2>1, <2>2
  <2>5. \A j \in Closed(b, Fault) : j = items[1]
    BY <2>3, <2>4
  <2> QED
    BY <2>5
<1>15. Field(Merged, b, Fault) = f
  <2>1. b \in {Root} \cup Made /\ Fault \in Names
    BY <1>9
  <2>2. object[b].is = "object" /\ Merged[b] = object[b]
    BY <1>6, <1>7
  <2>3. Fault \notin Many \/ ~object[b].fields[Fault].array
    BY <1>13
  <2> QED
    BY <1>1, <1>14, <2>1, <2>2, <2>3, FieldLemma
<1>16. Merged[f].is \in {"undefined", "null"}
  BY <1>3, <1>5, <1>13, <1>15 DEF Present
<1>17. object[f].is \in {"null", "object"}
  <2>1. ~OnStack(d)
    BY <1>3 DEF OnStack
  <2> QED
    BY <1>1, <1>2, <2>1 DEF Parents
<1> QED
  BY <1>3, <1>5, <1>6, <1>16, <1>17

\* No handler but the end returns, so that a message whose Fault is not empty is
\* raised, if the Envelope and the Body refer to no other element.
THEOREM FaultIsRaisedHolds ==
  ASSUME PlainEnvelope
  PROVE  Spec => []FaultIsRaised
<1>1. Init => FaultIsRaised
  BY DEF Init, FaultIsRaised
<1>2. IInv /\ FaultIsRaised /\ [Next]_vars => FaultIsRaised'
  <2> SUFFICES ASSUME IInv, FaultIsRaised, [Next]_vars
               PROVE  FaultIsRaised'
    OBVIOUS
  <2>1. CASE \E name \in Names : \E a \in Attributes(name) : OpenTag(name, a)
    <3>1. phase' = "reading"
      BY <2>1 DEF OpenTag
    <3> QED
      BY <3>1 DEF FaultIsRaised
  <2>2. CASE CloseTag
    <3>1. phase' \in {"reading", "raised"}
      BY <2>2 DEF CloseTag
    <3> QED
      BY <3>1 DEF FaultIsRaised
  <2>3. CASE \E t \in Texts : ReadText(t) \/ ReadDocument(t)
    <3>1. phase' \in {"reading", "raised"}
      BY <2>3 DEF ReadText, ReadDocument
    <3> QED
      BY <3>1 DEF FaultIsRaised
  <2>4. CASE End
    BY <2>4, EndRaises
  <2>5. CASE UNCHANGED vars
    BY <2>5 DEF vars, FaultIsRaised, Closed, Made
  <2> QED
    BY <2>1, <2>2, <2>3, <2>4, <2>5 DEF Next
<1> QED
  BY <1>1, <1>2, Inductive, PTL DEF Spec
=============================================================================
