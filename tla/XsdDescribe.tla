----------------------------- MODULE XsdDescribe -----------------------------
(***************************************************************************)
(* The descriptors that the classes under src/src/parser/xsd make of a      *)
(* schema, that the client, the server and XMLHandler.jsonToXml share, and  *)
(* that jsonToXml changes when a value has an xsi:type.                     *)
(*                                                                          *)
(* `describe' of one node calls that of others: `stack' is the call stack.  *)
(* Most classes keep their descriptor in `cache', several of them before    *)
(* they know what is in it, so that recursive schemas come to an end.       *)
(* Descriptors refer to arrays of descriptors, one of elements and one of   *)
(* attributes, which they share: both live in `heap' and are known by their *)
(* index.                                                                   *)
(*                                                                          *)
(* The links of a schema ($type, $ref and $base, resolved) and maxOccurs    *)
(* are chosen at the beginning and stay.                                    *)
(***************************************************************************)
EXTENDS Naturals, Sequences, FiniteSets, SequencesExt

CONSTANTS
  Nodes,      \* the XSD elements of all schemas
  Class,      \* the class of each node
  Kids,       \* the children of each node, in order
  Depth,      \* how deep each node stands in its schema, 0 at the top
  Links,      \* what the $type, $ref or $base of the nodes may resolve to
  Repeatable, \* the nodes that may have a maxOccurs of more than one
  TypeTable,  \* the named complex types of all schemas, in order
  Roots,      \* the elements that parts of messages refer to
  None,       \* undefined or null
  MaxDepth,   \* bound: frames on the call stack
  MaxArrays   \* bound: arrays that jsonToXml may make

\* The task of a turn that calls describeChildren of all complex types.
Inherit == "inherit"

Classes == {"element", "attribute", "complexType", "simpleType", "content",
            "extension", "restriction", "particle", "group"}

ASSUME DescribeAssumption ==
  /\ Class \in [Nodes -> Classes]
  /\ Kids \in [Nodes -> Seq(Nodes)]
  /\ Links \subseteq [Nodes -> Nodes \cup {None}]
  /\ \A l \in Links, n \in Nodes : l[n] # None =>
       Class[l[n]] \in
         CASE Class[n] = "element"                      -> {"element", "complexType", "simpleType"}
           [] Class[n] = "attribute"                    -> {"attribute", "simpleType"}
           [] Class[n] = "group"                        -> {"group"}
           [] Class[n] \in {"extension", "restriction"} -> {"complexType", "simpleType"}
           [] OTHER                                     -> {}
  /\ TypeTable \in Seq({n \in Nodes : Class[n] = "complexType"})
  /\ Roots \subseteq Nodes
  \* A schema is a document, and all but children can be referred to; what
  \* stands at the top has a name and no ref.
  /\ IsFiniteSet(Nodes)
  /\ Depth \in [Nodes -> Nat]
  /\ \A n, m \in Nodes : \A i \in 1..Len(Kids[n]), j \in 1..Len(Kids[m]) :
       /\ Depth[Kids[n][i]] = Depth[n] + 1
       /\ Kids[n][i] = Kids[m][j] => n = m
  /\ \A l \in Links, n \in Nodes : l[n] # None =>
       Depth[l[n]] = 0 /\ (Depth[n] = 0 => Class[l[n]] # Class[n])
  /\ \A n \in Roots \cup ToSet(TypeTable) : Depth[n] = 0
  \* What has a maxOccurs contains no attributes.
  /\ \A n \in Repeatable :
       /\ n \in Nodes /\ Class[n] \in {"element", "particle", "group"}
       /\ \A i \in 1..Len(Kids[n]) : Class[Kids[n][i]] # "attribute"
  /\ None \notin Nodes \cup {"element", "attribute", "type"}
  /\ Inherit \notin Nodes
  /\ MaxDepth \in Nat
  /\ MaxArrays \in Nat

VARIABLES
  link,       \* what the $type, $ref or $base of each node resolved to
  many,       \* the nodes with a maxOccurs of more than one
  cache,      \* the `descriptor' of each node, 0 if there is none
  heap,       \* the descriptors and the arrays
  stack,      \* the calls of `describe' that are running
  todo,       \* what the running turn is still to describe
  heirs       \* what is in `inheritance': pairs of a type and a type derived from it

vars == <<link, many, cache, heap, stack, todo, heirs>>

---------------------------------------------------------------------------
(* Descriptors.                                                            *)

\* One descriptor: of an element, a type or an attribute, for a node; `items'
\* is the index of its arrays, `original' the descriptor it is a clone of, and
\* `type' that of its type.  `base' is the node of the base type.
Descriptor(class, node, items) ==
  [class |-> class, node |-> node, items |-> items, many |-> node \in many,
   original |-> 0, type |-> 0, base |-> None]

Items(h, d) == h.arrays[h.desc[d].items]

\* The heap with D in the place of the descriptor d.
With(h, d, D) == [desc |-> [h.desc EXCEPT ![d] = D], arrays |-> h.arrays]

\* A new descriptor with empty arrays of its own.
WithNew(h, class, node) ==
  [desc   |-> Append(h.desc, Descriptor(class, node, Len(h.arrays) + 1)),
   arrays |-> Append(h.arrays, [elements |-> <<>>, attributes |-> <<>>])]

\* Mutant: a clone refers to itself as its original.
CloneOfItself(h, d, isMany) ==
  [h EXCEPT !.desc =
     Append(@, [@[d] EXCEPT !.many = @ \/ isMany, !.original = Len(h.desc) + 1, !.type = 0])]

\* ElementDescriptor.clone: the clone shares the arrays that its original has
\* at this moment.
WithClone(h, d, isMany) ==
  [desc   |-> Append(h.desc, [h.desc[d] EXCEPT !.many = @ \/ isMany,
                                               !.original = d, !.type = 0]),
   arrays |-> h.arrays]

Newest(h) == Len(h.desc)

\* Add to the arrays of d what TypeDescriptor.add does for r: a clone of an
\* element, an attribute itself, the items of a type.
Add(h, d, r, isMany) ==
  LET to == h.desc[d].items IN
  IF r = 0 THEN h
  ELSE CASE h.desc[r].class = "element" ->
              LET c == WithClone(h, r, isMany) IN
              [c EXCEPT !.arrays[to].elements = Append(@, Newest(c))]
         [] h.desc[r].class = "attribute" ->
              [h EXCEPT !.arrays[to].attributes = Append(@, r)]
         [] h.desc[r].class = "type" ->
              [desc   |-> [h.desc EXCEPT ![d].base = IF h.desc[r].base = None
                                                       THEN @ ELSE h.desc[r].base],
               arrays |-> [h.arrays EXCEPT ![to] =
                 [elements   |-> @.elements \o Items(h, r).elements,
                  attributes |-> @.attributes \o Items(h, r).attributes]]]

---------------------------------------------------------------------------
(* What a node asks for.                                                   *)

\* A node refers to another one of its class: ref of an element, attribute or
\* group.
IsRef(n) == link[n] # None /\ Class[link[n]] = Class[n]

\* The anonymous complex type of an element: the first one.
Anonymous(n) ==
  LET types == {i \in 1..Len(Kids[n]) : Class[Kids[n][i]] = "complexType"} IN
  IF types = {} THEN <<>>
  ELSE <<Kids[n][CHOOSE i \in types : \A j \in types : i <= j]>>

\* The nodes whose descriptors n asks for, in order: what each class's own
\* `describe' calls `describe' of.
Asks(n) ==
  CASE Class[n] = "element" ->
         IF link[n] = None THEN Anonymous(n)
         ELSE IF Class[link[n]] = "simpleType" THEN <<>> ELSE <<link[n]>>
    [] Class[n] \in {"extension", "restriction"} ->
         (IF link[n] = None THEN <<>> ELSE <<link[n]>>) \o Kids[n]
    [] Class[n] \in {"attribute", "group"} /\ IsRef(n) -> <<link[n]>>
    [] Class[n] = "simpleType" \/ (Class[n] = "attribute" /\ ~IsRef(n)) -> <<>>
    [] Class[n] \in {"complexType", "content", "particle"} \/ (Class[n] = "group" /\ ~IsRef(n)) ->
         Kids[n]

---------------------------------------------------------------------------
(* Calls.                                                                  *)

Quiet == stack = <<>> /\ todo = <<>>

Init ==
  /\ link \in Links
  /\ many \in SUBSET Repeatable
  /\ cache = [n \in Nodes |-> 0]
  /\ heap = [desc |-> <<>>, arrays |-> <<>>]
  /\ stack = <<>>
  /\ todo = <<>>
  /\ heirs = {}

\* The classes that remember their descriptor as soon as they make it.
Early == {"element", "attribute", "complexType", "content", "extension", "restriction"}

\* The class of the descriptor with which `describe' of n begins.
Beginning(n) ==
  CASE Class[n] \in {"attribute", "group"} /\ IsRef(n) -> None
    [] Class[n] = "element" \/ (Class[n] = "attribute" /\ ~IsRef(n)) -> Class[n]
    [] Class[n] \in {"particle", "group"} /\ ~IsRef(n) /\ Kids[n] = <<>> -> None
    [] OTHER -> "type"

\* Mutant: elements remember their descriptor when it is complete.
EnterLate(n) ==
  LET h == WithNew(heap, Beginning(n), n) IN
  /\ stack' = <<[node |-> n, desc |-> IF Beginning(n) = None THEN 0 ELSE Newest(h), at |-> 0]>>
              \o stack
  /\ heap' = IF Beginning(n) = None THEN heap ELSE h
  /\ cache' = IF Beginning(n) # None /\ Class[n] \in Early \ {"element", "complexType"}
                THEN [cache EXCEPT ![n] = Newest(h)] ELSE cache

\* A call of `describe' of n which finds no descriptor.
Enter(n) ==
  LET h == WithNew(heap, Beginning(n), n) IN
  /\ stack' = <<[node |-> n, desc |-> IF Beginning(n) = None THEN 0 ELSE Newest(h), at |-> 0]>>
              \o stack
  /\ heap' = IF Beginning(n) = None THEN heap ELSE h
  /\ cache' = IF Beginning(n) # None /\ Class[n] \in Early
                THEN [cache EXCEPT ![n] = Newest(h)] ELSE cache

\* Mutant: an element gets a copy of the items that its type has.
TypedByCopy(h, d, r) ==
  [desc   |-> [h.desc EXCEPT ![d].items = Len(h.arrays) + 1, ![d].type = r],
   arrays |-> Append(h.arrays, Items(h, r))]

\* An element of a named type shares the items of its type.
Typed(h, d, r) == With(h, d, [h.desc[d] EXCEPT !.items = h.desc[r].items, !.type = r])

\* What the call at the top of `calls' does with the descriptor r of the next
\* node that it asked for: the heap and the descriptor of the frame after it.
\* A type gets its name at its end: a base type that is still described has none.
Absorbed(calls, r) ==
  LET f == Head(calls)
      n == f.node
  IN
  CASE Class[n] = "element" /\ IsRef(n) ->
         LET h == WithClone(heap, r, n \in many) IN [heap |-> h, desc |-> Newest(h)]
    [] Class[n] = "element" /\ link[n] # None /\ ~IsRef(n) ->
         [heap |-> Typed(heap, f.desc, r), desc |-> f.desc]
    [] Class[n] = "element" /\ link[n] = None ->
         [heap |-> With(heap, f.desc, [heap.desc[f.desc] EXCEPT !.items = heap.desc[r].items]),
          desc |-> f.desc]
    [] Class[n] \in {"attribute", "group"} /\ IsRef(n) ->
         [heap |-> heap, desc |-> r]
    [] Class[n] = "extension" /\ link[n] # None /\ f.at = 0 ->
         LET h == Add(heap, f.desc, r, FALSE)
             known == \A j \in 1..Len(calls) : calls[j].node # link[n]
         IN [heap |-> With(h, f.desc,
                        [h.desc[f.desc] EXCEPT !.base = IF known THEN link[n] ELSE None]),
             desc |-> f.desc]
    [] OTHER ->
         [heap |-> Add(heap, f.desc, r, n \in many /\ Class[n] \in {"particle", "group"}),
          desc |-> f.desc]

\* The frame below takes r and goes on; elements and attributes with a ref
\* remember what they took.
Take(below, r) ==
  LET f == Head(below)
      a == Absorbed(below, r)
  IN
  /\ stack' = <<[f EXCEPT !.desc = a.desc, !.at = @ + 1]>> \o Tail(below)
  /\ heap' = a.heap

\* A turn calls `describe' of the next node that it has to describe.
Begin ==
  /\ stack = <<>>
  /\ todo # <<>>
  /\ Head(todo) # Inherit
  /\ todo' = Tail(todo)
  /\ IF cache[Head(todo)] # 0 THEN UNCHANGED <<stack, heap, cache>> ELSE Enter(Head(todo))
  /\ UNCHANGED <<link, many, heirs>>

\* The running call asks for a descriptor that was made before, perhaps by a
\* call that is not over yet: `if (this.descriptor) return this.descriptor', with
\* which `describe' of each class begins that keeps one.
Reuse ==
  /\ stack # <<>>
  /\ LET f == Head(stack) IN
     /\ f.at < Len(Asks(f.node))
     /\ LET k == Asks(f.node)[f.at + 1] IN
        /\ cache[k] # 0
        /\ Take(stack, cache[k])
  /\ UNCHANGED <<link, many, cache, todo, heirs>>

\* The running call calls `describe' of another node.
Call ==
  /\ stack # <<>>
  /\ Len(stack) < MaxDepth
  /\ LET f == Head(stack) IN
     /\ f.at < Len(Asks(f.node))
     /\ LET k == Asks(f.node)[f.at + 1] IN
        /\ cache[k] = 0
        /\ Enter(k)
  /\ UNCHANGED <<link, many, todo, heirs>>

\* The running call returns its descriptor, which its class keeps, except for
\* particles and for simple types, of which each call makes a new one.  (Nor does
\* simpleContent keep one, but only its type asks, once.)
Return ==
  /\ stack # <<>>
  /\ LET f == Head(stack) IN
     /\ f.at = Len(Asks(f.node))
     /\ cache' = IF Class[f.node] \in {"particle", "simpleType"}
                   THEN cache ELSE [cache EXCEPT ![f.node] = f.desc]
     /\ IF Tail(stack) = <<>> THEN stack' = <<>> /\ UNCHANGED heap
                              ELSE Take(Tail(stack), f.desc)
  /\ UNCHANGED <<link, many, todo, heirs>>

---------------------------------------------------------------------------
(* Turns.                                                                  *)

\* Client._invoke describes all complex types, looks who derives from whom, and
\* describes the operation.
Invoke(n) ==
  /\ Quiet
  /\ todo' = TypeTable \o <<Inherit, n>>
  /\ UNCHANGED <<link, many, cache, heap, stack, heirs>>

\* client.describe() and the answers of a server describe operations only.
DescribeOperation(n) ==
  /\ Quiet
  /\ todo' = <<n>>
  /\ UNCHANGED <<link, many, cache, heap, stack, heirs>>

\* ComplexType.describeChildren of all complex types.
DescribeChildren ==
  /\ stack = <<>>
  /\ todo # <<>>
  /\ Head(todo) = Inherit
  /\ todo' = Tail(todo)
  /\ heirs' = heirs \cup
       {p \in Nodes \X Nodes :
          /\ \E i \in 1..Len(TypeTable) : TypeTable[i] = p[2]
          /\ heap.desc[cache[p[2]]].base = p[1]
          /\ Class[p[1]] = "complexType"}
  /\ UNCHANGED <<link, many, cache, heap, stack>>

\* Mutant: the elements are pushed onto the array.
Pushed(h, d, x) ==
  [h EXCEPT !.arrays[h.desc[d].items].elements = @ \o Items(h, x).elements]

\* A new array with the elements of a derived type at its end.
Extended(h, d, x) ==
  [desc   |-> [h.desc EXCEPT ![d].items = Len(h.arrays) + 1],
   arrays |-> Append(h.arrays, [Items(h, d) EXCEPT !.elements = @ \o Items(h, x).elements])]

\* jsonToXml writes a value with an xsi:type that nobody described yet: getXsiType
\* describes it.
DescribeXsiType(t) ==
  /\ Quiet
  /\ cache[t] = 0
  /\ todo' = <<t>>
  /\ UNCHANGED <<link, many, cache, heap, stack, heirs>>

\* jsonToXml writes a value for descriptor d with the xsi:type of a derived
\* type t, which was described before it got into `inheritance'.
WriteXsiType(d, t) ==
  /\ Quiet
  /\ Len(heap.arrays) < MaxArrays
  /\ heap.desc[d].class = "element"
  /\ LET o == heap.desc[d].original IN
     /\ o # 0
     /\ heap.desc[o].type # 0
     /\ <<heap.desc[heap.desc[o].type].node, t>> \in heirs
     /\ heap' = Extended(heap, d, cache[t])
  /\ UNCHANGED <<link, many, cache, stack, todo, heirs>>

\* The running turn.
Step == Begin \/ Reuse \/ Call \/ Return \/ DescribeChildren

Next ==
  \/ Step
  \/ \E n \in Roots : Invoke(n) \/ DescribeOperation(n)
  \/ \E i \in 1..Len(TypeTable) : DescribeXsiType(TypeTable[i])
  \/ \E d \in 1..Len(heap.desc), t \in Nodes : WriteXsiType(d, t)

Spec == Init /\ [][Next]_vars

\* A turn runs to its end.
FairSpec == Spec /\ WF_vars(Step)

---------------------------------------------------------------------------
(* Properties.                                                             *)

DescriptorType ==
  [class : {"element", "attribute", "type"}, node : Nodes,
   items : 1..Len(heap.arrays), many : BOOLEAN, original : 0..Len(heap.desc),
   type : 0..Len(heap.desc), base : Nodes \cup {None}]

\* The types of the variables; a clone is made after its original.
TypeOK ==
  /\ link \in [Nodes -> Nodes \cup {None}]
  /\ many \subseteq Nodes
  /\ cache \in [Nodes -> 0..Len(heap.desc)]
  /\ \A d \in 1..Len(heap.desc) :
       heap.desc[d] \in DescriptorType /\ heap.desc[d].original < d
  /\ \A a \in 1..Len(heap.arrays) :
       heap.arrays[a] \in [elements : Seq(1..Len(heap.desc)), attributes : Seq(1..Len(heap.desc))]
  /\ stack \in Seq([node : Nodes, desc : 0..Len(heap.desc), at : Nat])
  /\ todo \in Seq(Nodes \cup {Inherit})
  /\ heirs \subseteq Nodes \X Nodes

\* The node that n stands for.
Of(n) == IF IsRef(n) THEN link[n] ELSE n

IsLeaf(n) == Class[n] \in {"element", "attribute"}

\* What n has from k, which it asks for, of a class: k itself or what is in k.
\* Whether an element is repeated is said by itself, by the ref to it and by the
\* particle around it.
Part(inside, class, n, k) ==
  IF ~IsLeaf(k) THEN inside[k]
  ELSE IF Class[k] = class THEN <<[node |-> Of(k), many |-> {Of(k), k, n} \cap many # {}]>>
  ELSE <<>>

\* The parts of n, from the first `count' nodes that it asks for.
Parts(inside, class, n, count) ==
  LET upTo[i \in 0..Len(Asks(n))] ==
        IF i = 0 THEN <<>> ELSE upTo[i - 1] \o Part(inside, class, n, Asks(n)[i])
  IN upTo[count]

AllParts(inside, class) == [n \in Nodes |-> Parts(inside, class, n, Len(Asks(n)))]

\* What the schema says that each node contains: the elements or the attributes,
\* in order, those of a base type first.  No more than all nodes are within each
\* other.
Contents(class) ==
  LET within[steps \in 0..Cardinality(Nodes)] ==
        IF steps = 0 THEN [n \in Nodes |-> <<>>] ELSE AllParts(within[steps - 1], class)
  IN within[Cardinality(Nodes)]

\* The nodes that are described when n is.
Described(n) ==
  LET within[steps \in 0..Cardinality(Nodes)] ==
        IF steps = 0 THEN {n}
        ELSE LET S == within[steps - 1] IN S \cup UNION {ToSet(Asks(m)) : m \in S}
  IN within[Cardinality(Nodes)]

\* No ref and no base leads back to itself.  (The type of an element may: a
\* recursive type is one whose elements have it.)
WellFounded ==
  \A n \in Nodes :
    (link[n] # None /\ ~(Class[n] = "element" /\ ~IsRef(n))) =>
      n \notin Described(link[n])

\* The descriptors of elements that somebody can get at.
ElementDescriptors ==
  {d \in {cache[n] : n \in Nodes}
         \cup UNION {ToSet(heap.arrays[a].elements) : a \in 1..Len(heap.arrays)} :
     d # 0 /\ heap.desc[d].class = "element"}

Shown(h, array) ==
  [i \in 1..Len(array) |-> [node |-> h.desc[array[i]].node, many |-> h.desc[array[i]].many]]

\* Whatever was described first, and whatever was written with an xsi:type
\* before, the descriptor of an element has the attributes that the schema says
\* and begins with the elements that it says, unless a ref or a base of the
\* schema leads back to itself (descriptor.js:47-64 and 109-121,
\* element.js:24-104, extension.js:20-33).
DescriptorsMatchSchema ==
  (Quiet /\ WellFounded) =>
    \A d \in ElementDescriptors :
      LET n == heap.desc[d].node IN
      /\ IsPrefix(Contents("element")[n], Shown(heap, Items(heap, d).elements))
      /\ Shown(heap, Items(heap, d).attributes) = Contents("attribute")[n]

\* The arrays of a type are never changed once the type was described, whoever
\* adds to the descriptors that share them (xmlHandler.js:200).
TypeIsFinal ==
  [][\A n \in Nodes :
       (Class[n] = "complexType" /\ cache[n] # 0 /\ \A j \in 1..Len(stack) : stack[j].node # n)
         => cache'[n] = cache[n] /\ Items(heap', cache[n]) = Items(heap, cache[n])]_vars

\* A turn comes to an end, for recursive schemas too (element.js:36,
\* complexType.js:22).
Terminates == []<>Quiet
=============================================================================
