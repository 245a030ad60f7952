------------------------------ MODULE XmlReader ------------------------------
(***************************************************************************)
(* How a message becomes a JSON object: the SAX handlers of xmlToJson in    *)
(* src/src/parser/xmlHandler.js, the merge of its multi-reference values,   *)
(* and its search for a Fault.  The message is the environment: any order   *)
(* of tags and text that is well formed, or the beginning of one.           *)
(*                                                                          *)
(* An object is known by the element that it was made for; 0 stands for the *)
(* root object.  A text stands for its value: how parseValue reads it, and  *)
(* the namespaces of names, are left out.                                   *)
(***************************************************************************)
EXTENDS Naturals, Sequences, SequencesExt

CONSTANTS
  Names,                  \* local names of elements
  Envelope, Body, Fault,  \* three of them
  Many,                   \* those whose descriptor has isMany
  Marks,                  \* which attributes the elements of each name may have
  Labels,                 \* values of the attributes `id' and `href'
  Texts,                  \* texts that are not blank
  MaxElements,            \* bound: elements of the message
  MaxDepth,               \* bound: open elements
  MaxTexts                \* bound: texts of an element

\* The number of the root object.
Root == 0

\* The descriptors of Envelope and Body are made without isMany.
ASSUME ReaderAssumption ==
  /\ {Envelope, Body, Fault} \subseteq Names
  /\ Envelope # Body /\ Body # Fault /\ Fault # Envelope
  /\ Many \subseteq Names \ {Envelope, Body}
  /\ Root \notin Labels
  /\ Marks \in [Names -> SUBSET {"nil", "id", "href", "other"}]
  /\ MaxElements \in Nat \ {0}
  /\ MaxDepth \in Nat \ {0}
  /\ MaxTexts \in Nat

VARIABLES
  phase,    \* "reading", "returned" or "raised"
  element,  \* the elements of the message: name, attributes, the one above
  object,   \* the object of each element
  stack,    \* `stack' of xmlToJson
  refs      \* `refs': the elements that refer to a label, the one that has it

vars == <<phase, element, object, stack, refs>>

Elements == 1..MaxElements

\* The attributes of an element, xmlns and xsi:type aside: an xsi:nil, an `id',
\* an `href' or others.
Plain == [attribute |-> "none", label |-> Root]
Attributes(name) ==
  {Plain}
  \cup [attribute : Marks[name] \cap {"nil", "other"}, label : {Root}]
  \cup [attribute : Marks[name] \cap {"id", "href"}, label : Labels]

NoFields == [x \in Names |-> [array |-> FALSE, items |-> <<>>]]

Undefined == [is |-> "undefined", fields |-> NoFields, texts |-> <<>>]

Init ==
  /\ phase = "reading"
  /\ element = <<>>
  /\ object = [i \in {Root} \cup Elements |->
                 IF i = Root THEN [Undefined EXCEPT !.is = "object"] ELSE Undefined]
  /\ stack = <<Root>>
  /\ refs = [l \in Labels |-> [hrefs |-> {}, object |-> Root]]

Top == Last(stack)

---------------------------------------------------------------------------
(* Tags.                                                                   *)

\* What an element is at first.  Attributes other than xsi:nil make an object of
\* it; they win over an xsi:nil, so that it is no matter then.
Kind(a) ==
  CASE a.attribute = "none" -> "undefined"
    [] a.attribute = "nil" -> "null"
    [] OTHER -> "object"

\* Mutant: the entry of an id is made anew.
EntryAnew(entry, a, i) ==
  IF a.attribute = "href" THEN [entry EXCEPT !.hrefs = @ \cup {i}]
                          ELSE [entry EXCEPT !.hrefs = {}]

\* The entry of a label after element i was opened with it.
Entry(entry, a, i) ==
  IF a.attribute = "href" THEN [entry EXCEPT !.hrefs = @ \cup {i}] ELSE entry

\* onopentag.  The message has one root, and no label on two elements.
OpenTag(name, a) ==
  LET i == Len(element) + 1 IN
  /\ phase = "reading"
  /\ i \in Elements
  /\ Len(stack) <= MaxDepth
  /\ Len(stack) = 1 => element = <<>>
  /\ a.attribute = "id" => \A j \in 1..Len(element) : element[j].attributes # a
  /\ element' = Append(element, [name |-> name, attributes |-> a, above |-> Top])
  /\ object' = [object EXCEPT ![i].is = Kind(a)]
  /\ stack' = Append(stack, i)
  /\ refs' = IF a.label = Root THEN refs ELSE [refs EXCEPT ![a.label] = Entry(@, a, i)]
  /\ UNCHANGED phase

\* Mutant: the last element of a name is the only one.
LastItem(field, name, i) == [array |-> name \in Many, items |-> <<i>>]

\* A field to which the object of element i is added.
WithItem(field, name, i) ==
  [array |-> field.items # <<>> \/ name \in Many, items |-> Append(field.items, i)]

\* onclosetag.  A field of what is a text cannot be set.
CloseTag ==
  LET i == Top
      above == stack[Len(stack) - 1]
      name == element[i].name
      label == element[i].attributes.label
  IN
  /\ phase = "reading"
  /\ Len(stack) > 1
  /\ stack' = Front(stack)
  /\ \/ /\ object[above].is = "text"
        /\ phase' = "raised"
        /\ UNCHANGED <<object, refs>>
     \/ /\ object[above].is # "text"
        /\ object' = IF object[above].is = "null" THEN object
                     ELSE [object EXCEPT ![above].is = "object",
                                         ![above].fields[name] = WithItem(@, name, i)]
        /\ refs' = IF element[i].attributes.attribute = "id"
                     THEN [refs EXCEPT ![label].object = i] ELSE refs
        /\ UNCHANGED phase
  /\ UNCHANGED element

---------------------------------------------------------------------------
(* Text.                                                                   *)

\* Mutant: xsi:nil is not looked at.
TextOfNil(o, t) ==
  [o EXCEPT !.is = IF @ = "undefined" THEN "text" ELSE @, !.texts = Append(@, t)]

\* _processText: an object has its text as $value.
WithText(o, t) ==
  IF o.is = "null" THEN o
  ELSE [o EXCEPT !.is = IF @ = "undefined" THEN "text" ELSE @, !.texts = Append(@, t)]

\* ontext, and oncdata.
ReadText(t) ==
  /\ phase = "reading"
  /\ Len(stack) > 1
  /\ Len(object[Top].texts) < MaxTexts
  /\ object' = [object EXCEPT ![Top] = WithText(@, t)]
  /\ UNCHANGED <<phase, element, stack, refs>>

\* oncdata of an XML document, which is read by itself.  That may raise; else
\* its object, whose fields are left out, is given to _processText.
ReadDocument(t) ==
  /\ phase = "reading"
  /\ Len(stack) > 1
  /\ Len(object[Top].texts) < MaxTexts
  /\ \/ phase' = "raised" /\ UNCHANGED object
     \/ /\ object' = [object EXCEPT ![Top] =
              IF @.is = "undefined" THEN [@ EXCEPT !.is = "object"] ELSE WithText(@, t)]
        /\ UNCHANGED phase
  /\ UNCHANGED <<element, stack, refs>>

---------------------------------------------------------------------------
(* The end.                                                                *)

\* An object with the fields and the text of another one on top of its own.
MergedObject(o, from) ==
  [o EXCEPT !.fields = [x \in Names |->
                          IF from.fields[x].items # <<>> THEN from.fields[x] ELSE @[x]],
            !.texts = IF from.texts # <<>> THEN from.texts ELSE @]

\* Each element that refers to a label gets what the element with it has.
Merged ==
  [i \in DOMAIN object |->
     LET labels == {l \in Labels : i \in refs[l].hrefs /\ refs[l].object # Root}
     IN IF labels = {} THEN object[i]
        ELSE MergedObject(object[i], object[refs[CHOOSE l \in labels : TRUE].object])]

\* The only element of a field, if there is one and it is no array.
Field(objects, i, name) ==
  LET field == objects[i].fields[name]
  IN IF Len(field.items) = 1 /\ ~field.array THEN field.items[1] ELSE Root

Present(objects, i) == i # Root /\ objects[i].is \notin {"undefined", "null"}

\* Mutant: a Fault is looked for in the Envelope.
HasFaultAbove(objects) ==
  LET envelope == Field(objects, Root, Envelope) IN
  Present(objects, envelope) /\ Present(objects, Field(objects, envelope, Fault))

\* The Body of the Envelope has a Fault, or several, that are not empty.
HasFault(objects) ==
  LET envelope == Field(objects, Root, Envelope)
      body == IF Present(objects, envelope) THEN Field(objects, envelope, Body) ELSE Root
      fault == objects[body].fields[Fault]
  IN /\ Present(objects, body)
     /\ fault.array \/ Present(objects, Field(objects, body, Fault))

\* The end of the message, which may come too early: sax does not raise for
\* elements that are still open.
End ==
  /\ phase = "reading"
  /\ element # <<>>
  /\ object' = Merged
  /\ phase' = IF HasFault(Merged) THEN "raised" ELSE "returned"
  /\ UNCHANGED <<element, stack, refs>>

Next ==
  \/ \E name \in Names : \E a \in Attributes(name) : OpenTag(name, a)
  \/ CloseTag
  \/ \E t \in Texts : ReadText(t) \/ ReadDocument(t)
  \/ End

Spec == Init /\ [][Next]_vars

---------------------------------------------------------------------------
(* Properties.                                                             *)

Made == 1..Len(element)

\* Type invariant: what is null or undefined has nothing, a text no fields.
TypeOK ==
  /\ phase \in {"reading", "returned", "raised"}
  /\ \A i \in Made : element[i].attributes \in Attributes(element[i].name)
  /\ \A i \in Made : element[i].above < i
  /\ stack \in Seq({Root} \cup Made)
  /\ refs \in [Labels -> [hrefs : SUBSET Made, object : {Root} \cup Made]]
  /\ \A i \in {Root} \cup Elements :
       /\ object[i].is \in {"undefined", "null", "text", "object"}
       /\ object[i].is # "object" => object[i].fields = NoFields
       /\ object[i].is \in {"undefined", "null"} => object[i].texts = <<>>
       /\ object[i].texts \in Seq(Texts)

\* The closed elements below element i with a name.
Closed(i, name) ==
  {j \in Made : element[j].above = i /\ element[j].name = name /\ j \notin ToSet(stack)}

\* In the order of the message.
InOrder(items) == \A k, l \in 1..Len(items) : k < l => items[k] < items[l]

\* While the message is read, every object has just the elements below it that
\* have ended, under their names and in their order, as an array if the
\* descriptor says so or there are several; elements below xsi:nil are lost.
FieldsAreElements ==
  phase = "reading" =>
    \A i \in {Root} \cup Made, x \in Names :
      object[i].is # "null" =>
        LET field == object[i].fields[x] IN
        /\ ToSet(field.items) = Closed(i, x)
        /\ InOrder(field.items)
        /\ field.array <=> Len(field.items) > (IF x \in Many THEN 0 ELSE 1)

\* When a message was read to its end, an element that refers to another one by
\* its id, before, after or from inside of it, has all that the other one has.
HrefsAreMerged ==
  phase = "returned" /\ stack = <<Root>> =>
    \A i \in Made, j \in Made :
      /\ element[i].attributes.attribute = "href"
      /\ element[j].attributes.attribute = "id"
      /\ element[i].attributes.label = element[j].attributes.label
      => /\ \A x \in Names :
              object[j].fields[x].items # <<>> => object[i].fields[x] = object[j].fields[x]
         /\ object[j].texts # <<>> => object[i].texts = object[j].texts

\* A message whose Envelope has one Body, in which there is a Fault with an
\* element in it that is not nil, never returns a result.
FaultIsRaised ==
  phase = "returned" /\ stack = <<Root>> /\ element[1].name = Envelope =>
    \A b \in Made :
      /\ Closed(1, Body) = {b}
      /\ object[b].is = "object" /\ object[1].is = "object"
      => \A f \in Closed(b, Fault), d \in Made :
           element[d].above = f => object[f].is = "null"
=============================================================================
