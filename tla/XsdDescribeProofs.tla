-------------------------- MODULE XsdDescribeProofs --------------------------
(***************************************************************************)
(* Proofs about XsdDescribe, for any schemas, recursive or not: the heap of *)
(* descriptors is well formed, the arrays of a complex type are never       *)
(* changed once its describe() has returned, and between turns the          *)
(* descriptors of elements have what the schema says.                       *)
(*                                                                          *)
(* The first invariant, IInv, says what kind of descriptor a node gets      *)
(* (Results), how the calls on the stack follow from each other (Frames),   *)
(* and that no call but that of the type itself adds to the arrays of a     *)
(* complex type (Owned), which is what sharing them relies on.              *)
(*                                                                          *)
(* The second one, MatchInv, relates the heap to what the schema says: each *)
(* running call has put into its arrays the parts of its node up to where   *)
(* it is (Calls), a type is complete once its call is over (Completes), and *)
(* an element has the arrays of its type or, where jsonToXml replaced them, *)
(* arrays of its own that begin with as much, or none while its call is     *)
(* still to get the type (Elements).  What is contained is defined by       *)
(* recursion over a graph: ContentsLemma shows, for well-founded schemas,   *)
(* that it satisfies its equation.                                          *)
(***************************************************************************)
EXTENDS XsdDescribe, TLAPS, SequenceTheorems, FiniteSetTheorems, WellFoundedInduction

\* The heap in itself.
DescriptorOf(h) ==
  [class : {"element", "attribute", "type"}, node : Nodes,
   items : 1..Len(h.arrays), many : BOOLEAN, original : 0..Len(h.desc),
   type : 0..Len(h.desc), base : Nodes \cup {None}]

ArraysOf(h) == [elements : Seq(1..Len(h.desc)), attributes : Seq(1..Len(h.desc))]

HeapOK(h) ==
  /\ h \in [desc : Seq(DescriptorOf(h)), arrays : Seq(ArraysOf(h))]
  /\ \A d \in 1..Len(h.desc) : h.desc[d].original < d

Typing ==
  /\ TypeOK
  /\ HeapOK(heap)
  /\ link \in Links

\* A call adds to the arrays of its descriptor.
Adds(n) ==
  \/ Class[n] \in {"complexType", "content", "extension", "restriction", "particle"}
  \/ Class[n] = "group" /\ ~IsRef(n)

\* The descriptor that a node gets: a particle or group may have none.
ClassOf(n) == IF Class[n] \in {"element", "attribute"} THEN Class[n] ELSE "type"

ResultIn(h, n, d) ==
  IF d = 0 THEN Class[n] \in {"particle", "group"} ELSE h.desc[d].class = ClassOf(n)

ResultOK(n, d) == ResultIn(heap, n, d)

Results == \A n \in Nodes : cache[n] # 0 => ResultOK(n, cache[n])

\* A call that only refers to another node has no descriptor before it returns.
FrameOK(f) ==
  /\ f.at <= Len(Asks(f.node))
  /\ \/ Class[f.node] \in {"attribute", "group"} /\ IsRef(f.node) /\ f.at = 0 /\ f.desc = 0
     \/ ResultOK(f.node, f.desc)
  /\ f.desc = 0 => Asks(f.node) = <<>> \/ IsRef(f.node)
  /\ Class[f.node] = "complexType" => cache[f.node] = f.desc

Frames ==
  /\ \A i \in 1..Len(stack) : FrameOK(stack[i])
  /\ \A i \in 1..(Len(stack) - 1) :
       /\ stack[i + 1].at < Len(Asks(stack[i + 1].node))
       /\ stack[i].node = Asks(stack[i + 1].node)[stack[i + 1].at + 1]
  /\ \A i, j \in 1..Len(stack) :
       i # j /\ Class[stack[i].node] = "complexType" => stack[i].node # stack[j].node

\* Only the call of a complex type adds to its arrays.
Owned ==
  \A n \in Nodes, i \in 1..Len(stack) :
    (/\ Class[n] = "complexType" /\ cache[n] # 0
     /\ Adds(stack[i].node) /\ stack[i].desc # 0
     /\ heap.desc[stack[i].desc].items = heap.desc[cache[n]].items)
      => stack[i].node = n

\* All complex types are described when a turn looks who derives from whom.
TypesFirst ==
  /\ \A i \in 1..Len(todo) : todo[i] = Inherit =>
       \A j \in 1..Len(TypeTable) :
         cache[TypeTable[j]] # 0 \/ \E k \in 1..(i - 1) : todo[k] = TypeTable[j]
  /\ \A p \in heirs : Class[p[2]] = "complexType" /\ cache[p[2]] # 0

\* The inductive invariant.
IInv == Typing /\ Results /\ Frames /\ Owned /\ TypesFirst

---------------------------------------------------------------------------
(* Nodes.                                                                  *)

\* A nonempty set of numbers has a least one.
LEMMA LeastLemma ==
  ASSUME NEW T, T \subseteq Nat, T # {}
  PROVE  \E m \in T : \A k \in T : m <= k
<1>1. PICK m \in T : \A k \in T : ~(<<k, m>> \in OpToRel(<, Nat))
  BY WFMin, NatLessThanWellFounded, Zenon
<1>2. ASSUME NEW k \in T PROVE m <= k
  <2>1. ~(k < m)
    BY <1>1, Zenon DEF OpToRel
  <2> QED
    BY <2>1
<1> QED
  BY <1>2

\* What a link may be.
LEMMA LinkLemma ==
  ASSUME Typing, NEW n \in Nodes, link[n] # None
  PROVE  /\ link[n] \in Nodes
         /\ Class[n] \in {"element", "attribute", "group", "extension", "restriction"}
         /\ Class[n] = "element" => Class[link[n]] \in {"element", "complexType", "simpleType"}
         /\ Class[n] = "attribute" => Class[link[n]] \in {"attribute", "simpleType"}
         /\ Class[n] = "group" => Class[link[n]] = "group"
         /\ Class[n] \in {"extension", "restriction"} => Class[link[n]] \in {"complexType", "simpleType"}
<1>1. link \in Links /\ link \in [Nodes -> Nodes \cup {None}]
  BY DEF Typing, TypeOK
<1> QED
  BY <1>1, DescribeAssumption

\* An element has at most one anonymous type.
LEMMA AnonymousLemma ==
  ASSUME NEW n \in Nodes
  PROVE  \/ Anonymous(n) = <<>>
         \/ \E k \in Nodes : Class[k] = "complexType" /\ Anonymous(n) = <<k>>
<1> DEFINE types == {i \in 1..Len(Kids[n]) : Class[Kids[n][i]] = "complexType"}
<1>1. Kids[n] \in Seq(Nodes)
  BY DescribeAssumption
<1>2. CASE types = {}
  BY <1>2 DEF Anonymous
<1>3. CASE types # {}
  <2>1. types \subseteq Nat
    BY <1>1
  <2>2. \E i \in types : \A j \in types : i <= j
    BY <1>3, <2>1, LeastLemma, Zenon
  <2>3. PICK i \in types : i = CHOOSE m \in types : \A j \in types : m <= j
    BY <2>2
  <2>4. Anonymous(n) = <<Kids[n][i]>>
    BY <1>3, <2>3, Zenon DEF Anonymous
  <2> QED
    BY <1>1, <2>4
<1> QED
  BY <1>2, <1>3

\* What a node asks for are nodes.
LEMMA AsksLemma ==
  ASSUME Typing, NEW n \in Nodes
  PROVE  /\ Asks(n) \in Seq(Nodes)
         /\ Class[n] = "element" =>
              /\ Len(Asks(n)) <= 1
              /\ Asks(n) # <<>> => Class[Asks(n)[1]] \in {"element", "complexType"}
              /\ Asks(n) # <<>> /\ IsRef(n) => Class[Asks(n)[1]] = "element"
              /\ Asks(n) # <<>> /\ ~IsRef(n) => Class[Asks(n)[1]] = "complexType"
         /\ Class[n] \in {"attribute", "group"} /\ IsRef(n) =>
              Asks(n) = <<link[n]>> /\ Class[Asks(n)[1]] = Class[n]
         /\ Class[n] = "attribute" /\ ~IsRef(n) => Asks(n) = <<>>
         /\ Class[n] = "simpleType" => Asks(n) = <<>>
<1>0. Kids[n] \in Seq(Nodes) /\ Class[n] \in Classes
  BY DescribeAssumption
<1>1. CASE Class[n] = "element"
  <2>1. CASE link[n] = None
    <3>1. Asks(n) = Anonymous(n) /\ ~IsRef(n)
      BY <1>1, <2>1 DEF Asks, IsRef
    <3>2. CASE Anonymous(n) = <<>>
      BY <1>1, <3>1, <3>2
    <3>3. CASE \E k \in Nodes : Class[k] = "complexType" /\ Anonymous(n) = <<k>>
      <4>1. PICK k \in Nodes : Class[k] = "complexType" /\ Asks(n) = <<k>>
        BY <3>1, <3>3
      <4>2. <<k>> \in Seq(Nodes) /\ Len(<<k>>) = 1 /\ <<k>>[1] = k
        OBVIOUS
      <4> QED
        BY <1>1, <3>1, <4>1, <4>2
    <3> QED
      BY <3>2, <3>3, AnonymousLemma
  <2>2. CASE link[n] # None
    <3>1. link[n] \in Nodes /\ Class[link[n]] \in {"element", "complexType", "simpleType"}
      BY <1>1, <2>2, LinkLemma
    <3>2. Asks(n) = IF Class[link[n]] = "simpleType" THEN <<>> ELSE <<link[n]>>
      BY <1>1, <2>2 DEF Asks
    <3>3. IsRef(n) <=> Class[link[n]] = "element"
      BY <1>1, <2>2 DEF IsRef
    <3> QED
      BY <1>1, <3>1, <3>2, <3>3
  <2> QED
    BY <2>1, <2>2
<1>2. CASE Class[n] \in {"extension", "restriction"}
  <2>1. Asks(n) = (IF link[n] = None THEN <<>> ELSE <<link[n]>>) \o Kids[n]
    BY <1>2, Zenon DEF Asks
  <2>2. link[n] # None => link[n] \in Nodes
    BY LinkLemma
  <2>3. PICK first : first = IF link[n] = None THEN <<>> ELSE <<link[n]>>
    BY Zenon
  <2>4. first \in Seq(Nodes)
    BY <2>2, <2>3
  <2>5. Asks(n) \in Seq(Nodes)
    BY <1>0, <2>1, <2>3, <2>4
  <2> QED
    BY <1>2, <2>5
<1>3. CASE Class[n] \in {"attribute", "group"} /\ IsRef(n)
  <2>1. Asks(n) = <<link[n]>> /\ link[n] # None /\ Class[link[n]] = Class[n]
    BY <1>3 DEF Asks, IsRef
  <2>2. link[n] \in Nodes
    BY <2>1, LinkLemma
  <2> QED
    BY <1>3, <2>1, <2>2
<1>4. CASE Class[n] = "simpleType" \/ (Class[n] = "attribute" /\ ~IsRef(n))
  <2>1. Asks(n) = <<>>
    BY <1>4 DEF Asks
  <2> QED
    BY <1>4, <2>1
<1>5. CASE Class[n] \in {"complexType", "content", "particle"} \/ (Class[n] = "group" /\ ~IsRef(n))
  <2>1. Asks(n) = Kids[n]
    BY <1>5 DEF Asks
  <2> QED
    BY <1>0, <1>5, <2>1
<1> QED
  BY <1>0, <1>1, <1>2, <1>3, <1>4, <1>5 DEF Classes

---------------------------------------------------------------------------
(* The heap.                                                               *)

\* A heap of which nothing is lost: descriptors keep their class, their node and
\* whether that is repeated, and those of types keep their arrays.
Grown(h, g) ==
  /\ HeapOK(g)
  /\ Len(h.desc) <= Len(g.desc)
  /\ Len(h.arrays) <= Len(g.arrays)
  /\ \A d \in 1..Len(h.desc) :
       /\ g.desc[d].class = h.desc[d].class
       /\ g.desc[d].node = h.desc[d].node
       /\ g.desc[d].many = h.desc[d].many
       /\ h.desc[d].class = "type" => g.desc[d].items = h.desc[d].items

\* To grow twice is to grow.
LEMMA GrownTwice ==
  ASSUME NEW h, NEW g, NEW f, HeapOK(h), Grown(h, g), Grown(g, f)
  PROVE  Grown(h, f)
<1>1. Len(h.desc) \in Nat /\ Len(g.desc) \in Nat /\ Len(f.desc) \in Nat
      /\ Len(h.arrays) \in Nat /\ Len(g.arrays) \in Nat /\ Len(f.arrays) \in Nat
  BY DEF Grown, HeapOK
<1>2. Len(h.desc) <= Len(g.desc) /\ Len(g.desc) <= Len(f.desc)
      /\ Len(h.arrays) <= Len(g.arrays) /\ Len(g.arrays) <= Len(f.arrays)
  BY DEF Grown
<1>3. \A d \in 1..Len(h.desc) : d \in 1..Len(g.desc)
  BY <1>1, <1>2
<1>4. \A d \in 1..Len(h.desc) :
        /\ f.desc[d].class = h.desc[d].class
        /\ f.desc[d].node = h.desc[d].node
        /\ f.desc[d].many = h.desc[d].many
        /\ h.desc[d].class = "type" => f.desc[d].items = h.desc[d].items
  BY <1>3 DEF Grown
<1> QED
  BY <1>1, <1>2, <1>4 DEF Grown

\* The fields of a heap.
LEMMA HeapLemma ==
  ASSUME NEW h, HeapOK(h)
  PROVE  /\ Len(h.desc) \in Nat /\ Len(h.arrays) \in Nat
         /\ h.desc \in Seq(DescriptorOf(h)) /\ h.arrays \in Seq(ArraysOf(h))
         /\ \A d \in 1..Len(h.desc) : h.desc[d] \in DescriptorOf(h) /\ h.desc[d].original < d
         /\ \A a \in 1..Len(h.arrays) : h.arrays[a] \in ArraysOf(h)
BY DEF HeapOK

\* The arrays in it.
LEMMA ArrayLemma ==
  ASSUME NEW h, HeapOK(h), NEW a \in 1..Len(h.arrays)
  PROVE  /\ h.arrays[a] \in [elements : Seq(1..Len(h.desc)), attributes : Seq(1..Len(h.desc))]
         /\ h.arrays[a].elements \in Seq(1..Len(h.desc))
         /\ h.arrays[a].attributes \in Seq(1..Len(h.desc))
<1>1. h.arrays[a] \in ArraysOf(h)
  BY HeapLemma
<1> QED
  BY <1>1 DEF ArraysOf

\* What is well typed in a heap is so in a larger one.
LEMMA LargerLemma ==
  ASSUME NEW h, NEW g, HeapOK(h), Len(h.desc) <= Len(g.desc), Len(h.arrays) <= Len(g.arrays),
         Len(g.desc) \in Nat, Len(g.arrays) \in Nat
  PROVE  /\ DescriptorOf(h) \subseteq DescriptorOf(g)
         /\ ArraysOf(h) \subseteq ArraysOf(g)
<1>1. /\ 1..Len(h.desc) \subseteq 1..Len(g.desc) /\ 0..Len(h.desc) \subseteq 0..Len(g.desc)
      /\ 1..Len(h.arrays) \subseteq 1..Len(g.arrays)
  BY HeapLemma
<1>2. DescriptorOf(h) \subseteq DescriptorOf(g)
  BY <1>1 DEF DescriptorOf
<1>3. Seq(1..Len(h.desc)) \subseteq Seq(1..Len(g.desc))
  BY <1>1
<1> QED
  BY <1>2, <1>3 DEF ArraysOf

\* A new descriptor.
LEMMA NewLemma ==
  ASSUME NEW h, HeapOK(h), NEW class \in {"element", "attribute", "type"}, NEW n \in Nodes
  PROVE  LET g == WithNew(h, class, n) IN
         /\ Grown(h, g)
         /\ Newest(g) = Len(h.desc) + 1 /\ Len(g.desc) = Len(h.desc) + 1
         /\ g.desc[Newest(g)] = Descriptor(class, n, Len(h.arrays) + 1)
         /\ g.desc[Newest(g)].class = class
         /\ g.desc[Newest(g)].items = Len(h.arrays) + 1
         /\ Len(g.arrays) = Len(h.arrays) + 1
         /\ g.arrays[Len(h.arrays) + 1] = [elements |-> <<>>, attributes |-> <<>>]
         /\ \A d \in 1..Len(h.desc) : g.desc[d] = h.desc[d]
         /\ \A a \in 1..Len(h.arrays) : g.arrays[a] = h.arrays[a]
<1> DEFINE D == Descriptor(class, n, Len(h.arrays) + 1)
           A == [elements |-> <<>>, attributes |-> <<>>]
           g == WithNew(h, class, n)
<1>1. /\ D \in [class : {"element", "attribute", "type"}, node : Nodes, items : {Len(h.arrays) + 1},
                many : BOOLEAN, original : {0}, type : {0}, base : {None}]
      /\ D.class = class /\ D.items = Len(h.arrays) + 1 /\ D.original = 0
  BY DEF Descriptor
<1>2. A \in [elements : {<<>>}, attributes : {<<>>}]
  OBVIOUS
<1>3. g.desc = Append(h.desc, D) /\ g.arrays = Append(h.arrays, A)
      /\ g = [desc |-> g.desc, arrays |-> g.arrays]
  BY DEF WithNew
<1>4. /\ Len(h.desc) \in Nat /\ Len(h.arrays) \in Nat
      /\ h.desc \in Seq(DescriptorOf(h)) /\ h.arrays \in Seq(ArraysOf(h))
      /\ \A d \in 1..Len(h.desc) : h.desc[d].original < d
  BY HeapLemma
<1> HIDE DEF D, A, g
<1>5. /\ Len(g.desc) = Len(h.desc) + 1 /\ Len(g.arrays) = Len(h.arrays) + 1
      /\ g.desc[Len(h.desc) + 1] = D /\ g.arrays[Len(h.arrays) + 1] = A
      /\ \A d \in 1..Len(h.desc) : g.desc[d] = h.desc[d]
      /\ \A a \in 1..Len(h.arrays) : g.arrays[a] = h.arrays[a]
  BY <1>3, <1>4
<1>6. DescriptorOf(h) \subseteq DescriptorOf(g) /\ ArraysOf(h) \subseteq ArraysOf(g)
  BY <1>4, <1>5, LargerLemma
<1>7. D \in DescriptorOf(g)
  BY <1>1, <1>4, <1>5 DEF DescriptorOf
<1>8. A \in ArraysOf(g)
  <2>1. <<>> \in Seq(1..Len(g.desc))
    OBVIOUS
  <2> QED
    BY <1>2, <2>1, Zenon DEF ArraysOf
<1>9. HeapOK(g)
  <2>1. g.desc \in Seq(DescriptorOf(g))
    BY <1>3, <1>4, <1>6, <1>7
  <2>2. g.arrays \in Seq(ArraysOf(g))
    BY <1>3, <1>4, <1>6, <1>8
  <2>3. \A d \in 1..Len(g.desc) : g.desc[d].original < d
    BY <1>1, <1>4, <1>5
  <2> QED
    BY <1>3, <2>1, <2>2, <2>3, Zenon DEF HeapOK
<1>10. Grown(h, g)
  BY <1>4, <1>5, <1>9 DEF Grown
<1> QED
  BY <1>1, <1>5, <1>10 DEF g, D, A, Newest

\* A clone.
LEMMA CloneLemma ==
  ASSUME NEW h, HeapOK(h), NEW d \in 1..Len(h.desc), NEW isMany \in BOOLEAN
  PROVE  LET g == WithClone(h, d, isMany) IN
         /\ Grown(h, g)
         /\ Newest(g) = Len(h.desc) + 1 /\ Len(g.desc) = Len(h.desc) + 1
         /\ g.desc[Newest(g)].class = h.desc[d].class
         /\ g.desc[Newest(g)].node = h.desc[d].node
         /\ g.desc[Newest(g)].items = h.desc[d].items
         /\ g.desc[Newest(g)].many = (h.desc[d].many \/ isMany)
         /\ \A e \in 1..Len(h.desc) : g.desc[e] = h.desc[e]
         /\ g.arrays = h.arrays
<1> DEFINE D == [h.desc[d] EXCEPT !.many = @ \/ isMany, !.original = d, !.type = 0]
           g == WithClone(h, d, isMany)
<1>1. /\ Len(h.desc) \in Nat /\ Len(h.arrays) \in Nat
      /\ h.desc \in Seq(DescriptorOf(h)) /\ h.arrays \in Seq(ArraysOf(h))
      /\ h.desc[d] \in DescriptorOf(h)
      /\ \A e \in 1..Len(h.desc) : h.desc[e].original < e
  BY HeapLemma
<1>2. g.desc = Append(h.desc, D) /\ g.arrays = h.arrays /\ g = [desc |-> g.desc, arrays |-> g.arrays]
  BY DEF WithClone
<1>3. /\ D \in DescriptorOf(h) /\ D.class = h.desc[d].class /\ D.original = d
      /\ D.node = h.desc[d].node /\ D.items = h.desc[d].items
      /\ D.many = (h.desc[d].many \/ isMany)
  <2>1. (h.desc[d].many \/ isMany) \in BOOLEAN
    OBVIOUS
  <2>2. d \in 0..Len(h.desc) /\ 0 \in 0..Len(h.desc)
    BY <1>1
  <2> QED
    BY <1>1, <2>1, <2>2, Zenon DEF DescriptorOf
<1> HIDE DEF D, g
<1>4. /\ Len(g.desc) = Len(h.desc) + 1 /\ Len(g.arrays) = Len(h.arrays)
      /\ g.desc[Len(h.desc) + 1] = D
      /\ \A e \in 1..Len(h.desc) : g.desc[e] = h.desc[e]
  BY <1>1, <1>2
<1>5. DescriptorOf(h) \subseteq DescriptorOf(g) /\ ArraysOf(h) \subseteq ArraysOf(g)
  BY <1>1, <1>4, LargerLemma
<1>6. HeapOK(g)
  <2>1. g.desc \in Seq(DescriptorOf(g))
    BY <1>1, <1>2, <1>3, <1>5
  <2>2. g.arrays \in Seq(ArraysOf(g))
    BY <1>1, <1>2, <1>5
  <2>3. \A e \in 1..Len(g.desc) : g.desc[e].original < e
    <3>1. \A e \in 1..Len(g.desc) : e \in 1..Len(h.desc) \/ e = Len(h.desc) + 1
      BY <1>1, <1>4
    <3>2. g.desc[Len(h.desc) + 1].original < Len(h.desc) + 1
      BY <1>1, <1>3, <1>4
    <3> QED
      BY <1>1, <1>4, <3>1, <3>2, Zenon
  <2> QED
    BY <1>2, <2>1, <2>2, <2>3, Zenon DEF HeapOK
<1>7. Grown(h, g)
  BY <1>1, <1>4, <1>6 DEF Grown
<1> QED
  BY <1>2, <1>3, <1>4, <1>7 DEF g, Newest

\* A descriptor of which fields are set that say nothing of its class.
LEMMA SetLemma ==
  ASSUME NEW h, HeapOK(h), NEW d \in 1..Len(h.desc), NEW D \in DescriptorOf(h),
         D.class = h.desc[d].class, D.node = h.desc[d].node, D.many = h.desc[d].many,
         D.original < d, h.desc[d].class = "type" => D.items = h.desc[d].items
  PROVE  /\ Grown(h, With(h, d, D))
         /\ Len(With(h, d, D).desc) = Len(h.desc) /\ With(h, d, D).desc[d] = D
         /\ With(h, d, D).arrays = h.arrays
<1> DEFINE g == [desc |-> [h.desc EXCEPT ![d] = D], arrays |-> h.arrays]
<1>1. /\ Len(h.desc) \in Nat /\ Len(h.arrays) \in Nat
      /\ h.desc \in Seq(DescriptorOf(h)) /\ h.arrays \in Seq(ArraysOf(h))
      /\ \A e \in 1..Len(h.desc) : h.desc[e].original < e
  BY HeapLemma
<1>2. /\ g.desc \in Seq(DescriptorOf(h)) /\ Len(g.desc) = Len(h.desc) /\ g.desc[d] = D
      /\ \A e \in 1..Len(h.desc) : e # d => g.desc[e] = h.desc[e]
  BY <1>1
<1>3. DescriptorOf(g) = DescriptorOf(h) /\ ArraysOf(g) = ArraysOf(h)
  BY <1>2, Zenon DEF DescriptorOf, ArraysOf
<1>4. g \in [desc : Seq(DescriptorOf(h)), arrays : Seq(ArraysOf(h))] /\ g.arrays = h.arrays
  BY <1>1, <1>2
<1> HIDE DEF g
<1>5. HeapOK(g)
  BY <1>1, <1>2, <1>3, <1>4 DEF HeapOK
<1>6. Grown(h, g)
  BY <1>1, <1>2, <1>4, <1>5 DEF Grown
<1>7. g = With(h, d, D)
  BY DEF With, g
<1> QED
  BY <1>2, <1>4, <1>6, <1>7

\* Arrays in which something was put.
LEMMA PutLemma ==
  ASSUME NEW h, HeapOK(h), NEW a \in 1..Len(h.arrays), NEW A \in ArraysOf(h)
  PROVE  LET g == [desc |-> h.desc, arrays |-> [h.arrays EXCEPT ![a] = A]] IN
         Grown(h, g) /\ \A b \in 1..Len(h.arrays) : b # a => g.arrays[b] = h.arrays[b]
<1> DEFINE g == [desc |-> h.desc, arrays |-> [h.arrays EXCEPT ![a] = A]]
<1>1. /\ Len(h.desc) \in Nat /\ Len(h.arrays) \in Nat
      /\ h.desc \in Seq(DescriptorOf(h)) /\ h.arrays \in Seq(ArraysOf(h))
      /\ \A e \in 1..Len(h.desc) : h.desc[e].original < e
  BY HeapLemma
<1>2. /\ g.arrays \in Seq(ArraysOf(h)) /\ Len(g.arrays) = Len(h.arrays)
      /\ \A b \in 1..Len(h.arrays) : b # a => g.arrays[b] = h.arrays[b]
  BY <1>1
<1>3. DescriptorOf(g) = DescriptorOf(h) /\ ArraysOf(g) = ArraysOf(h)
  BY <1>2, Zenon DEF DescriptorOf, ArraysOf
<1>4. g \in [desc : Seq(DescriptorOf(h)), arrays : Seq(ArraysOf(h))] /\ g.desc = h.desc
  BY <1>1, <1>2
<1> HIDE DEF g
<1>5. HeapOK(g)
  BY <1>1, <1>3, <1>4 DEF HeapOK
<1>6. Grown(h, g)
  BY <1>1, <1>2, <1>4, <1>5 DEF Grown
<1> QED
  BY <1>2, <1>6 DEF g

\* TypeDescriptor.add changes the arrays of its descriptor only.
LEMMA AddLemma ==
  ASSUME NEW h, HeapOK(h), NEW d \in 1..Len(h.desc), h.desc[d].class = "type",
         NEW r \in 0..Len(h.desc), NEW isMany \in BOOLEAN
  PROVE  /\ Grown(h, Add(h, d, r, isMany))
         /\ \A a \in 1..Len(h.arrays) :
              a # h.desc[d].items => Add(h, d, r, isMany).arrays[a] = h.arrays[a]
<1> DEFINE g == Add(h, d, r, isMany)
<1>1. PICK to : to = h.desc[d].items
  OBVIOUS
<1>2. /\ Len(h.desc) \in Nat /\ Len(h.arrays) \in Nat /\ to \in 1..Len(h.arrays)
      /\ h.desc \in Seq(DescriptorOf(h)) /\ h.arrays \in Seq(ArraysOf(h))
      /\ h.desc[d] \in DescriptorOf(h) /\ h.desc[d].original < d
      /\ h = [desc |-> h.desc, arrays |-> h.arrays]
  BY <1>1, HeapLemma, Zenon DEF DescriptorOf, HeapOK
<1>3. CASE r = 0
  <2>1. g = h
    BY <1>3 DEF Add
  <2>2. Grown(h, h)
    BY <1>2 DEF Grown
  <2> QED
    BY <2>1, <2>2
<1>4. CASE r # 0
  <2>0. r \in 1..Len(h.desc) /\ h.desc[r] \in DescriptorOf(h)
    BY <1>2, <1>4, HeapLemma
  <2>1. CASE h.desc[r].class = "element"
    <3>1. PICK c : c = WithClone(h, r, isMany)
      OBVIOUS
    <3>2. /\ Grown(h, c) /\ Newest(c) = Len(c.desc) /\ Len(c.desc) = Len(h.desc) + 1
          /\ c.arrays = h.arrays
      BY <2>0, <3>1, CloneLemma
    <3>3. HeapOK(c) /\ Len(c.desc) \in Nat /\ c.arrays \in Seq(ArraysOf(c))
      BY <1>2, <3>2, HeapLemma DEF Grown
    <3> DEFINE A == [c.arrays[to] EXCEPT !.elements = Append(@, Newest(c))]
    <3>4. A \in ArraysOf(c)
      <4>1. c.arrays[to] \in [elements : Seq(1..Len(c.desc)), attributes : Seq(1..Len(c.desc))]
        BY <1>2, <3>2, <3>3, ArrayLemma
      <4>2. Newest(c) \in 1..Len(c.desc)
        BY <1>2, <3>2, <3>3
      <4>3. Append(c.arrays[to].elements, Newest(c)) \in Seq(1..Len(c.desc))
        BY <4>1, <4>2
      <4> QED
        BY <4>1, <4>3, Zenon DEF ArraysOf
    <3>5. g = [desc |-> c.desc, arrays |-> [c.arrays EXCEPT ![to] = A]]
      <4>1. g = [c EXCEPT !.arrays[to].elements = Append(@, Newest(c))]
        BY <1>1, <1>4, <2>1, <3>1 DEF Add
      <4>2. c \in [desc : Seq(DescriptorOf(c)), arrays : Seq(ArraysOf(c))]
        BY <3>3 DEF HeapOK
      <4> QED
        BY <4>1, <4>2, Zenon
    <3> HIDE DEF A
    <3>6. Grown(c, g) /\ \A b \in 1..Len(c.arrays) : b # to => g.arrays[b] = c.arrays[b]
      BY <1>2, <3>2, <3>3, <3>4, <3>5, PutLemma
    <3>7. Grown(h, g)
      BY <3>2, <3>6, GrownTwice
    <3> QED
      BY <1>1, <3>2, <3>6, <3>7
  <2>2. CASE h.desc[r].class = "attribute"
    <3> DEFINE A == [h.arrays[to] EXCEPT !.attributes = Append(@, r)]
    <3>1. A \in ArraysOf(h)
      <4>1. h.arrays[to] \in [elements : Seq(1..Len(h.desc)), attributes : Seq(1..Len(h.desc))]
        BY <1>2, ArrayLemma
      <4>2. Append(h.arrays[to].attributes, r) \in Seq(1..Len(h.desc))
        BY <2>0, <4>1
      <4> QED
        BY <4>1, <4>2, Zenon DEF ArraysOf
    <3>2. g = [desc |-> h.desc, arrays |-> [h.arrays EXCEPT ![to] = A]]
      <4>1. g = [h EXCEPT !.arrays[to].attributes = Append(@, r)]
        BY <1>1, <1>4, <2>2 DEF Add
      <4>2. h \in [desc : Seq(DescriptorOf(h)), arrays : Seq(ArraysOf(h))]
        BY DEF HeapOK
      <4> QED
        BY <4>1, <4>2, Zenon
    <3> HIDE DEF A, g
    <3>3. Grown(h, g) /\ \A b \in 1..Len(h.arrays) : b # to => g.arrays[b] = h.arrays[b]
      BY <1>2, <3>1, <3>2, PutLemma
    <3> QED
      BY <1>1, <3>3 DEF g
  <2>3. CASE h.desc[r].class = "type"
    <3> DEFINE A == [elements |-> h.arrays[to].elements \o Items(h, r).elements,
                     attributes |-> h.arrays[to].attributes \o Items(h, r).attributes]
               D == [h.desc[d] EXCEPT !.base = IF h.desc[r].base = None THEN @ ELSE h.desc[r].base]
               f == With(h, d, D)
    <3>1. A \in ArraysOf(h)
      <4>1. Items(h, r) \in [elements : Seq(1..Len(h.desc)), attributes : Seq(1..Len(h.desc))]
        <5>1. h.desc[r].items \in 1..Len(h.arrays)
          BY <2>0 DEF DescriptorOf
        <5> QED
          BY <5>1, ArrayLemma, Zenon DEF Items
      <4>2. h.arrays[to] \in [elements : Seq(1..Len(h.desc)), attributes : Seq(1..Len(h.desc))]
        BY <1>2, ArrayLemma
      <4> QED
        BY <4>1, <4>2 DEF ArraysOf
    <3>2. D \in DescriptorOf(h) /\ D.class = h.desc[d].class /\ D.items = h.desc[d].items
          /\ D.node = h.desc[d].node /\ D.many = h.desc[d].many
          /\ D.original = h.desc[d].original
      BY <1>2, <2>0, Zenon DEF DescriptorOf
    <3>3. Grown(h, f)
      BY <1>2, <3>2, SetLemma, Zenon
    <3>4. g = [desc |-> f.desc, arrays |-> [f.arrays EXCEPT ![to] = A]]
      BY <1>1, <1>4, <2>3 DEF Add, With
    <3>5. f.arrays = h.arrays /\ Len(f.desc) = Len(h.desc)
      BY <1>2, <3>2, SetLemma, Zenon
    <3> HIDE DEF A, D, f
    <3>6. HeapOK(f) /\ A \in ArraysOf(f)
      BY <3>1, <3>3, <3>5 DEF Grown, ArraysOf
    <3>7. Grown(f, g) /\ \A b \in 1..Len(f.arrays) : b # to => g.arrays[b] = f.arrays[b]
      BY <1>2, <3>4, <3>5, <3>6, PutLemma
    <3>8. Grown(h, g)
      BY <3>3, <3>7, GrownTwice
    <3> QED
      BY <1>1, <3>5, <3>7, <3>8
  <2> QED
    BY <2>0, <2>1, <2>2, <2>3 DEF DescriptorOf
<1> QED
  BY <1>3, <1>4

\* A descriptor that is well typed in a heap, with other fields.
LEMMA FieldLemma ==
  ASSUME NEW h, HeapOK(h), NEW d \in 1..Len(h.desc)
  PROVE  /\ \A i \in 1..Len(h.arrays), t \in 0..Len(h.desc) :
              [h.desc[d] EXCEPT !.items = i, !.type = t] \in DescriptorOf(h)
         /\ \A i \in 1..Len(h.arrays) : [h.desc[d] EXCEPT !.items = i] \in DescriptorOf(h)
         /\ \A b \in Nodes \cup {None} : [h.desc[d] EXCEPT !.base = b] \in DescriptorOf(h)
<1>1. h.desc[d] \in DescriptorOf(h)
  BY HeapLemma
<1> QED
  BY <1>1, Zenon DEF DescriptorOf

\* The frames of a heap.
FrameOf(h) == [node : Nodes, desc : 0..Len(h.desc), at : Nat]

\* A frame, and a descriptor of the next node that it asks for.
Asked(f, r) ==
  /\ f \in FrameOf(heap) /\ FrameOK(f)
  /\ f.at < Len(Asks(f.node))
  /\ r \in 0..Len(heap.desc) /\ ResultOK(Asks(f.node)[f.at + 1], r)

\* What a call does with the descriptor of the next node it asked for.
LEMMA AbsorbedLemma ==
  ASSUME Typing, NEW calls, NEW f, f = Head(calls), NEW r, Asked(f, r),
         NEW a, a = Absorbed(calls, r)
  PROVE  /\ Grown(heap, a.heap)
         /\ a.desc \in 0..Len(a.heap.desc)
         /\ ResultIn(a.heap, f.node, a.desc)
         /\ a.desc = 0 => IsRef(f.node)
         /\ Adds(f.node) => a.desc = f.desc /\ f.desc # 0
         /\ \A b \in 1..Len(heap.arrays) :
              (Adds(f.node) /\ b = heap.desc[f.desc].items) \/ a.heap.arrays[b] = heap.arrays[b]
<1>0. /\ FrameOK(f) /\ f.at < Len(Asks(f.node)) /\ r \in 0..Len(heap.desc)
      /\ f \in [node : Nodes, desc : 0..Len(heap.desc), at : Nat]
  BY DEF Asked, FrameOf
<1> PICK k \in Nodes : k = Asks(f.node)[f.at + 1] /\ ResultOK(k, r)
  <2>1. Asks(f.node) \in Seq(Nodes)
    BY <1>0, AsksLemma
  <2> QED
    BY <1>0, <2>1 DEF Asked
<1> USE <1>0
<1>1. PICK n \in Nodes : n = f.node
  OBVIOUS
<1>2. /\ HeapOK(heap) /\ Len(heap.desc) \in Nat /\ Len(heap.arrays) \in Nat /\ Class[n] \in Classes
      /\ Asks(n) \in Seq(Nodes) /\ Asks(n) # <<>> /\ f.at \in Nat
      /\ many \subseteq Nodes
  <2>1. HeapOK(heap) /\ many \subseteq Nodes
    BY DEF Typing, TypeOK
  <2>2. Asks(n) \in Seq(Nodes)
    BY AsksLemma
  <2>3. f.at \in Nat /\ f.at < Len(Asks(n))
    BY <1>1
  <2>4. Asks(n) # <<>>
    BY <2>2, <2>3
  <2>5. Class[n] \in Classes
    BY DescribeAssumption
  <2> QED
    BY <2>1, <2>2, <2>3, <2>4, <2>5, HeapLemma
<1>3. Grown(heap, heap)
  BY <1>2 DEF Grown
<1>4. CASE Class[n] = "element"
  <2>1. f.desc \in 1..Len(heap.desc) /\ heap.desc[f.desc].class = "element" /\ ~Adds(n)
    BY <1>1, <1>2, <1>4 DEF FrameOK, ResultOK, ResultIn, ClassOf, Adds
  <2>2. f.at = 0 /\ k = Asks(n)[1]
    BY <1>1, <1>2, <1>4, AsksLemma
  <2>3. r # 0 /\ r \in 1..Len(heap.desc)
        /\ heap.desc[r].class = (IF IsRef(n) THEN "element" ELSE "type")
    BY <1>2, <1>4, <2>2, AsksLemma DEF ResultOK, ResultIn, ClassOf
  <2>4. heap.desc[r].items \in 1..Len(heap.arrays) /\ heap.desc[f.desc].original < f.desc
    BY <1>2, <2>1, <2>3, HeapLemma, Zenon DEF DescriptorOf
  <2>5. CASE IsRef(n)
    <3>0. PICK isMany : isMany = (n \in many)
      OBVIOUS
    <3>1. PICK h : h = WithClone(heap, r, isMany)
      OBVIOUS
    <3>2. a = [heap |-> h, desc |-> Newest(h)]
      BY <1>1, <1>4, <2>5, <3>0, <3>1 DEF Absorbed, IsRef
    <3>3. /\ Grown(heap, h) /\ Newest(h) = Len(h.desc) /\ Len(h.desc) = Len(heap.desc) + 1
          /\ h.desc[Newest(h)].class = "element" /\ h.arrays = heap.arrays
      <4>1. isMany \in BOOLEAN
        BY <3>0
      <4> QED
        BY <1>2, <2>3, <2>5, <3>1, <4>1, CloneLemma
    <3>4. a.heap = h /\ a.desc = Len(heap.desc) + 1
      BY <3>2, <3>3
    <3> QED
      BY <1>1, <1>2, <1>4, <2>1, <3>3, <3>4 DEF ResultIn, ClassOf
  <2>6. CASE ~IsRef(n)
    <3> DEFINE D == IF link[n] = None
                      THEN [heap.desc[f.desc] EXCEPT !.items = heap.desc[r].items]
                      ELSE [heap.desc[f.desc] EXCEPT !.items = heap.desc[r].items, !.type = r]
               h == With(heap, f.desc, D)
    <3>1. a = [heap |-> h, desc |-> f.desc]
      <4>1. CASE link[n] = None
        BY <1>1, <1>4, <2>6, <4>1 DEF Absorbed
      <4>2. CASE link[n] # None
        BY <1>1, <1>4, <2>6, <4>2 DEF Absorbed, Typed
      <4> QED
        BY <4>1, <4>2
    <3>2. D \in DescriptorOf(heap)
      BY <1>2, <2>1, <2>3, <2>4, FieldLemma, Zenon
    <3>3. /\ D.class = heap.desc[f.desc].class /\ D.original = heap.desc[f.desc].original
          /\ D.node = heap.desc[f.desc].node /\ D.many = heap.desc[f.desc].many
      BY <1>2, <2>1, HeapLemma DEF DescriptorOf
    <3> HIDE DEF D
    <3>4. Grown(heap, h)
      BY <1>2, <2>1, <2>4, <3>2, <3>3, SetLemma, Zenon
    <3>5. Len(h.desc) = Len(heap.desc) /\ h.arrays = heap.arrays /\ h.desc[f.desc] = D
      BY <1>2, <2>1, <2>4, <3>2, <3>3, SetLemma
    <3> HIDE DEF h
    <3>6. a.heap = h /\ a.desc = f.desc
      BY <3>1
    <3>7. a.desc \in 0..Len(a.heap.desc) /\ a.desc # 0
      BY <2>1, <3>5, <3>6
    <3>8. ResultIn(a.heap, f.node, a.desc)
      BY <1>1, <1>4, <2>1, <3>3, <3>5, <3>6, <3>7 DEF ResultIn, ClassOf
    <3> QED
      BY <1>1, <2>1, <3>4, <3>5, <3>6, <3>7, <3>8
  <2> QED
    BY <2>5, <2>6, Zenon
<1>5. CASE Class[n] \in {"attribute", "group"} /\ IsRef(n)
  <2>1. a = [heap |-> heap, desc |-> r]
    BY <1>1, <1>5 DEF Absorbed
  <2>2. k = Asks(n)[1] /\ Class[k] = Class[n]
    BY <1>1, <1>2, <1>5, AsksLemma
  <2>3. ~Adds(n)
    BY <1>5 DEF Adds
  <2> QED
    BY <1>1, <1>2, <1>3, <1>5, <2>1, <2>2, <2>3 DEF ResultOK, ResultIn, ClassOf
<1>6. CASE Adds(n)
  <2>1. Class[n] \notin {"element", "attribute"} /\ ~(Class[n] = "group" /\ IsRef(n))
    BY <1>6 DEF Adds
  <2>2. f.desc \in 1..Len(heap.desc) /\ heap.desc[f.desc].class = "type" /\ ClassOf(n) = "type"
    <3>1. ClassOf(n) = "type"
      BY <2>1 DEF ClassOf
    <3>2. ResultOK(n, f.desc)
      BY <1>1, <2>1 DEF FrameOK
    <3>3. ~IsRef(n)
      BY <1>2, <2>1, LinkLemma DEF IsRef, Classes
    <3>4. f.desc # 0
      BY <1>1, <1>2, <3>3 DEF FrameOK
    <3> QED
      BY <1>1, <1>2, <3>1, <3>2, <3>4 DEF ResultOK, ResultIn
  <2>3. CASE Class[n] = "extension" /\ link[n] # None /\ f.at = 0
    <3>0. PICK isMany : isMany = FALSE
      BY Zenon
    <3>1. PICK g : g = Add(heap, f.desc, r, isMany)
      OBVIOUS
    <3>2. /\ Grown(heap, g)
          /\ \A b \in 1..Len(heap.arrays) :
               b # heap.desc[f.desc].items => g.arrays[b] = heap.arrays[b]
      <4>1. isMany \in BOOLEAN
        BY <3>0, Zenon
      <4> QED
        BY <1>2, <2>2, <3>1, <4>1, AddLemma
    <3>3. PICK B : B = IF \A j \in 1..Len(calls) : calls[j].node # link[n] THEN link[n] ELSE None
      BY Zenon
    <3>4. B \in Nodes \cup {None}
      BY <2>3, <3>3, LinkLemma
    <3>6. HeapOK(g) /\ f.desc \in 1..Len(g.desc) /\ g.desc[f.desc].class = "type"
          /\ Len(g.desc) \in Nat /\ g.desc \in Seq(DescriptorOf(g))
          /\ g \in [desc : Seq(DescriptorOf(g)), arrays : Seq(ArraysOf(g))]
          /\ g.desc[f.desc] \in DescriptorOf(g) /\ g.desc[f.desc].original < f.desc
      <4>1. HeapOK(g) /\ Len(heap.desc) <= Len(g.desc) /\ g.desc[f.desc].class = "type"
        BY <2>2, <3>2, Zenon DEF Grown
      <4>2. Len(g.desc) \in Nat /\ g.desc \in Seq(DescriptorOf(g))
            /\ g \in [desc : Seq(DescriptorOf(g)), arrays : Seq(ArraysOf(g))]
        BY <4>1, HeapLemma DEF HeapOK
      <4>3. f.desc \in 1..Len(g.desc)
        BY <1>2, <2>2, <4>1, <4>2
      <4> QED
        BY <4>1, <4>2, <4>3, HeapLemma
    <3> DEFINE D == [g.desc[f.desc] EXCEPT !.base = B]
               h == With(g, f.desc, D)
    <3>7. a.heap = h /\ a.desc = f.desc
      <4>1. a = [heap |-> h, desc |-> f.desc]
        BY <1>1, <2>3, <3>0, <3>1, <3>3, Zenon DEF Absorbed
      <4> HIDE DEF h
      <4> QED
        BY <4>1
    <3>8. D \in DescriptorOf(g)
      BY <3>4, <3>6, FieldLemma, Zenon
    <3>9. /\ D.class = g.desc[f.desc].class /\ D.original = g.desc[f.desc].original
          /\ D.node = g.desc[f.desc].node /\ D.many = g.desc[f.desc].many
          /\ D.items = g.desc[f.desc].items
      BY <3>6 DEF DescriptorOf
    <3> HIDE DEF D
    <3>10. /\ Grown(g, h)
           /\ Len(h.desc) = Len(g.desc) /\ h.arrays = g.arrays /\ h.desc[f.desc] = D
      BY ONLY <3>6, <3>8, <3>9, SetLemma
    <3>11. Grown(heap, h)
      BY <1>2, <3>2, <3>10, GrownTwice
    <3>12. Len(h.desc) = Len(g.desc) /\ h.arrays = g.arrays /\ h.desc[f.desc] = D
      BY <3>10
    <3> HIDE DEF h
    <3>13. \A b \in 1..Len(heap.arrays) :
             (Adds(f.node) /\ b = heap.desc[f.desc].items) \/ a.heap.arrays[b] = heap.arrays[b]
      BY <1>1, <1>6, <3>2, <3>7, <3>12, Zenon
    <3>14. a.desc \in 0..Len(a.heap.desc) /\ a.desc # 0 /\ a.desc = f.desc
      BY <2>2, <3>6, <3>7, <3>12
    <3>15. ResultIn(a.heap, f.node, a.desc)
      BY <1>1, <2>2, <3>6, <3>7, <3>9, <3>12, <3>14 DEF ResultIn
    <3> QED
      BY <3>7, <3>11, <3>13, <3>14, <3>15
  <2>4. CASE ~(Class[n] = "extension" /\ link[n] # None /\ f.at = 0)
    <3>1. PICK isMany : isMany = (n \in many /\ Class[n] \in {"particle", "group"})
      OBVIOUS
    <3>2. isMany \in BOOLEAN
      BY <3>1
    <3>3. PICK g : g = Add(heap, f.desc, r, isMany)
      OBVIOUS
    <3>4. /\ Grown(heap, g)
          /\ \A b \in 1..Len(heap.arrays) :
               b # heap.desc[f.desc].items => g.arrays[b] = heap.arrays[b]
      BY <1>2, <2>2, <3>2, <3>3, AddLemma
    <3>5. a = [heap |-> g, desc |-> f.desc]
      BY <1>1, <2>1, <2>4, <3>1, <3>3 DEF Absorbed
    <3>6. a.heap = g /\ a.desc = f.desc
      BY <3>5
    <3>7. g.desc[f.desc].class = "type" /\ f.desc \in 0..Len(g.desc)
      <4>1. Len(g.desc) \in Nat /\ Len(heap.desc) <= Len(g.desc)
        BY <3>4, HeapLemma DEF Grown
      <4> QED
        BY <1>2, <2>2, <3>4, <4>1 DEF Grown
    <3> QED
      BY <1>1, <1>6, <2>2, <3>4, <3>6, <3>7 DEF ResultIn
  <2> QED
    BY <2>3, <2>4
<1>7. ~(Class[n] = "simpleType" \/ (Class[n] = "attribute" /\ ~IsRef(n)))
  BY <1>2, AsksLemma
<1> QED
  BY <1>2, <1>4, <1>5, <1>6, <1>7 DEF Adds, Classes

---------------------------------------------------------------------------
(* Steps.                                                                  *)

\* What every step does to the arrays and to the complex types that have a
\* descriptor.
Careful ==
  /\ Grown(heap, heap')
  /\ \A b \in 1..Len(heap.arrays) :
       \/ heap'.arrays[b] = heap.arrays[b]
       \/ \E i \in 1..Len(stack) :
            /\ Adds(stack[i].node) /\ stack[i].desc # 0
            /\ heap.desc[stack[i].desc].items = b
  /\ \A n \in Nodes : Class[n] = "complexType" /\ cache[n] # 0 => cache'[n] = cache[n]

\* As the links stay, what nodes ask for does.
LEMMA SameLemma ==
  ASSUME link' = link, NEW n
  PROVE  Asks(n)' = Asks(n) /\ (IsRef(n)' <=> IsRef(n)) /\ (Adds(n)' <=> Adds(n))
<1>1. Asks(n)' = Asks(n)
  BY DEF Asks, Anonymous, IsRef
<1>2. IsRef(n)' <=> IsRef(n)
  BY DEF IsRef
<1>3. Adds(n)' <=> Adds(n)
  BY <1>2 DEF Adds
<1> QED
  BY <1>1, <1>2, <1>3

\* A step that types its variables.
LEMMA TypingLemma ==
  ASSUME Typing, link' = link, many' = many, HeapOK(heap'),
         cache' \in [Nodes -> 0..Len(heap'.desc)], stack' \in Seq(FrameOf(heap')),
         todo' \in Seq(Nodes \cup {Inherit}), heirs' \subseteq Nodes \X Nodes
  PROVE  Typing'
<1>1. \A d \in 1..Len(heap'.desc) : heap'.desc[d] \in DescriptorOf(heap') /\ heap'.desc[d].original < d
  BY HeapLemma
<1>2. \A b \in 1..Len(heap'.arrays) :
        heap'.arrays[b] \in [elements : Seq(1..Len(heap'.desc)), attributes : Seq(1..Len(heap'.desc))]
  BY ArrayLemma
<1>3. TypeOK'
  BY <1>1, <1>2, Zenon DEF Typing, TypeOK, DescriptorType, DescriptorOf, FrameOf
<1> QED
  BY <1>3 DEF Typing

\* What a node got it keeps.
LEMMA ResultLemma ==
  ASSUME Typing, Grown(heap, heap'), NEW n \in Nodes, NEW d \in 0..Len(heap.desc), ResultOK(n, d)
  PROVE  ResultIn(heap', n, d)
<1>1. d # 0 => d \in 1..Len(heap.desc)
  BY HeapLemma DEF Typing
<1> QED
  BY <1>1 DEF ResultOK, ResultIn, Grown

\* The descriptor of a complex type.
LEMMA ComplexLemma ==
  ASSUME Typing, Results, NEW n \in Nodes, Class[n] = "complexType", cache[n] # 0
  PROVE  /\ cache[n] \in 1..Len(heap.desc) /\ heap.desc[cache[n]].class = "type"
         /\ heap.desc[cache[n]].items \in 1..Len(heap.arrays)
<1>1. cache[n] \in 1..Len(heap.desc) /\ HeapOK(heap)
  BY HeapLemma DEF Typing, TypeOK
<1>2. heap.desc[cache[n]].class = "type"
  BY DEF Results, ResultOK, ResultIn, ClassOf
<1>3. heap.desc[cache[n]] \in DescriptorOf(heap)
  BY <1>1, HeapLemma
<1> QED
  BY <1>1, <1>2, <1>3 DEF DescriptorOf

\* The descriptor of a call that adds to its arrays.
LEMMA AdderLemma ==
  ASSUME Typing, Frames, NEW i \in 1..Len(stack), Adds(stack[i].node), stack[i].desc # 0
  PROVE  /\ stack[i].node \in Nodes /\ stack[i].desc \in 1..Len(heap.desc)
         /\ heap.desc[stack[i].desc].class = "type"
         /\ heap.desc[stack[i].desc].items \in 1..Len(heap.arrays)
<1>1. stack[i] \in FrameOf(heap) /\ HeapOK(heap)
  <2>1. stack \in Seq(FrameOf(heap))
    BY DEF Typing, TypeOK, FrameOf
  <2> QED
    BY <2>1 DEF Typing
<1>2. stack[i].node \in Nodes /\ stack[i].desc \in 1..Len(heap.desc)
  BY <1>1, HeapLemma DEF FrameOf
<1>3. FrameOK(stack[i])
  BY DEF Frames
<1>4. ResultOK(stack[i].node, stack[i].desc)
  BY <1>3 DEF FrameOK
<1>5. ClassOf(stack[i].node) = "type"
  BY DEF Adds, ClassOf
<1>6. heap.desc[stack[i].desc] \in DescriptorOf(heap)
  BY <1>1, <1>2, HeapLemma
<1> QED
  BY <1>2, <1>4, <1>5, <1>6, Zenon DEF ResultOK, ResultIn, DescriptorOf

\* The call at the top of `below' takes a descriptor.
LEMMA TakeLemma ==
  ASSUME Typing, NEW below \in Seq(FrameOf(heap)), below # <<>>,
         NEW r, Asked(Head(below), r), Take(below, r)
  PROVE  /\ Grown(heap, heap')
         /\ stack' \in Seq(FrameOf(heap')) /\ Len(stack') = Len(below)
         /\ stack'[1].node = Head(below).node /\ stack'[1].at = Head(below).at + 1
         /\ ResultIn(heap', stack'[1].node, stack'[1].desc)
         /\ stack'[1].desc = 0 => IsRef(stack'[1].node)
         /\ Adds(stack'[1].node) => stack'[1].desc = Head(below).desc /\ Head(below).desc # 0
         /\ \A i \in 2..Len(below) : stack'[i] = below[i]
         /\ \A b \in 1..Len(heap.arrays) :
              \/ Adds(Head(below).node) /\ b = heap.desc[Head(below).desc].items
              \/ heap'.arrays[b] = heap.arrays[b]
<1>1. PICK f : f = Head(below)
  OBVIOUS
<1>2. PICK a : a = Absorbed(below, r)
  OBVIOUS
<1>3. /\ f \in [node : Nodes, desc : 0..Len(heap.desc), at : Nat]
      /\ Tail(below) \in Seq(FrameOf(heap)) /\ Len(Tail(below)) = Len(below) - 1 /\ Len(below) \in Nat \ {0}
      /\ \A i \in 1..(Len(below) - 1) : Tail(below)[i] = below[i + 1]
  <2>1. f \in FrameOf(heap)
    BY <1>1
  <2>2. Len(below) \in Nat \ {0}
    BY EmptySeq
  <2>3. Tail(below) \in Seq(FrameOf(heap)) /\ Len(Tail(below)) = Len(below) - 1
        /\ \A i \in 1..(Len(below) - 1) : Tail(below)[i] = below[i + 1]
    BY <2>2
  <2> QED
    BY <2>1, <2>2, <2>3 DEF FrameOf
<1>5. /\ Grown(heap, a.heap)
      /\ a.desc \in 0..Len(a.heap.desc)
      /\ ResultIn(a.heap, f.node, a.desc)
      /\ a.desc = 0 => IsRef(f.node)
      /\ Adds(f.node) => a.desc = f.desc /\ f.desc # 0
      /\ \A b \in 1..Len(heap.arrays) :
           (Adds(f.node) /\ b = heap.desc[f.desc].items) \/ a.heap.arrays[b] = heap.arrays[b]
  <2>1. Asked(f, r)
    BY <1>1
  <2> QED
    BY ONLY Typing, <1>1, <1>2, <2>1, AbsorbedLemma
<1>6. PICK g : g = [f EXCEPT !.desc = a.desc, !.at = f.at + 1]
  OBVIOUS
<1>7. stack' = <<g>> \o Tail(below) /\ heap' = a.heap
  BY <1>1, <1>2, <1>6 DEF Take
<1>8. g \in FrameOf(heap') /\ g.node = f.node /\ g.desc = a.desc /\ g.at = f.at + 1
  <2>1. f.at + 1 \in Nat /\ a.desc \in 0..Len(heap'.desc)
    BY <1>3, <1>5, <1>7
  <2> QED
    BY <1>3, <1>6, <2>1, Zenon DEF FrameOf
<1>9. FrameOf(heap) \subseteq FrameOf(heap')
  <2>1. 0..Len(heap.desc) \subseteq 0..Len(heap'.desc)
    BY <1>5, <1>7, HeapLemma DEF Grown, Typing
  <2> QED
    BY <2>1 DEF FrameOf
<1>10. Tail(below) \in Seq(FrameOf(heap'))
  BY <1>3, <1>9
<1>11. /\ stack' \in Seq(FrameOf(heap')) /\ Len(stack') = Len(below) /\ stack'[1] = g
       /\ \A i \in 2..Len(below) : stack'[i] = Tail(below)[i - 1]
  BY <1>3, <1>7, <1>8, <1>10
<1>12. \A i \in 2..Len(below) : stack'[i] = below[i]
  <2>1. TAKE i \in 2..Len(below)
  <2>2. i - 1 \in 1..(Len(below) - 1) /\ (i - 1) + 1 = i
    BY <1>3
  <2> QED
    BY <1>3, <1>11, <2>2
<1> QED
  BY <1>1, <1>5, <1>7, <1>8, <1>11, <1>12

\* A call goes on with a descriptor, after the call above it returned or
\* without one (s is the number of frames that returned).
TakenBy(below, s, r) ==
  /\ s \in {0, 1} /\ below \in Seq(FrameOf(heap)) /\ below # <<>>
  /\ Len(below) = Len(stack) - s /\ \A i \in 1..Len(below) : below[i] = stack[i + s]
  /\ Asked(Head(below), r)
  /\ Take(below, r)

\* Such a step keeps the invariant.
LEMMA TakenLemma ==
  ASSUME IInv, NEW below, NEW s, NEW r, TakenBy(below, s, r),
         link' = link, many' = many, todo' = todo, heirs' = heirs,
         cache' \in [Nodes -> 0..Len(heap.desc)],
         \A n \in Nodes : cache'[n] # 0 => ResultOK(n, cache'[n]),
         \A n \in Nodes : Class[n] = "complexType" => cache'[n] = cache[n]
  PROVE  IInv' /\ Careful
<1>0. Typing /\ Results /\ Frames /\ Owned /\ TypesFirst /\ HeapOK(heap)
  BY DEF IInv, Typing
<1>a. /\ s \in {0, 1} /\ below \in Seq(FrameOf(heap)) /\ below # <<>>
      /\ Len(below) = Len(stack) - s /\ \A i \in 1..Len(below) : below[i] = stack[i + s]
      /\ Asked(Head(below), r)
      /\ Take(below, r)
  BY DEF TakenBy
<1>b. Head(below).at < Len(Asks(Head(below).node))
  BY <1>a DEF Asked
<1> USE <1>a, <1>b
<1>1. /\ Len(below) \in Nat \ {0} /\ Len(stack) \in Nat
      /\ Head(below) = stack[1 + s] /\ 1 + s \in 1..Len(stack)
      /\ \A i \in 1..Len(below) : i + s \in 1..Len(stack)
  <2>1. Len(below) \in Nat \ {0} /\ Head(below) = below[1]
    BY EmptySeq
  <2>2. Len(stack) \in Nat
    BY <1>0 DEF Typing, TypeOK
  <2> QED
    BY <2>1, <2>2
<1>3. /\ Grown(heap, heap')
      /\ stack' \in Seq(FrameOf(heap')) /\ Len(stack') = Len(below)
      /\ stack'[1].node = Head(below).node /\ stack'[1].at = Head(below).at + 1
      /\ ResultIn(heap', stack'[1].node, stack'[1].desc)
      /\ stack'[1].desc = 0 => IsRef(stack'[1].node)
      /\ Adds(stack'[1].node) => stack'[1].desc = Head(below).desc /\ Head(below).desc # 0
      /\ \A i \in 2..Len(below) : stack'[i] = below[i]
      /\ \A b \in 1..Len(heap.arrays) :
           \/ Adds(Head(below).node) /\ b = heap.desc[Head(below).desc].items
           \/ heap'.arrays[b] = heap.arrays[b]
  BY <1>0, TakeLemma
<1>4. /\ \A i \in 1..Len(stack') : i + s \in 1..Len(stack) /\ stack'[i].node = stack[i + s].node
      /\ \A i \in 2..Len(stack') : stack'[i] = stack[i + s]
  <2>1. Len(stack') \in Nat /\ 1..Len(stack') = 1..Len(below) /\ 2..Len(stack') = 2..Len(below)
    BY <1>1, <1>3
  <2>2. ASSUME NEW i \in 2..Len(stack') PROVE stack'[i] = stack[i + s] /\ i + s \in 1..Len(stack)
    <3>1. i \in 1..Len(below) /\ stack'[i] = below[i]
      BY <1>3, <2>1
    <3> QED
      BY <1>1, <3>1
  <2>3. ASSUME NEW i \in 1..Len(stack'), i = 1
        PROVE  stack'[i].node = stack[i + s].node /\ i + s \in 1..Len(stack)
    BY <1>1, <1>3, <2>3
  <2>4. \A i \in 1..Len(stack') : i = 1 \/ i \in 2..Len(stack')
    BY <2>1
  <2> QED
    BY <2>2, <2>3, <2>4, Zenon
<1>5. \A n \in Nodes : Asks(n)' = Asks(n) /\ (IsRef(n)' <=> IsRef(n)) /\ (Adds(n)' <=> Adds(n))
  BY SameLemma
<1>6. Typing'
  <2>1. 0..Len(heap.desc) \subseteq 0..Len(heap'.desc) /\ HeapOK(heap')
    BY <1>0, <1>3, HeapLemma DEF Grown
  <2>2. cache' \in [Nodes -> 0..Len(heap'.desc)]
    BY <2>1
  <2>3. todo' \in Seq(Nodes \cup {Inherit}) /\ heirs' \subseteq Nodes \X Nodes
    BY <1>0 DEF Typing, TypeOK
  <2> QED
    BY <1>0, <1>3, <2>1, <2>2, <2>3, TypingLemma
<1>7. Results'
  <2>1. ASSUME NEW n \in Nodes, cache'[n] # 0 PROVE ResultIn(heap', n, cache'[n])
    <3>1. cache'[n] \in 0..Len(heap.desc) /\ ResultOK(n, cache'[n])
      BY <2>1
    <3> QED
      BY <1>0, <1>3, <3>1, ResultLemma
  <2> QED
    BY <2>1 DEF Results, ResultOK
<1>8. \A i \in 1..Len(stack') : stack'[i] \in FrameOf(heap')
  BY <1>3
<1>9. \A i \in 1..Len(stack) : stack[i] \in FrameOf(heap)
  <2>1. stack \in Seq(FrameOf(heap))
    BY <1>0 DEF Typing, TypeOK, FrameOf
  <2> QED
    BY <2>1
<1>10. ASSUME NEW i \in 1..Len(stack') PROVE FrameOK(stack[i])'
  <2>1. /\ i + s \in 1..Len(stack) /\ FrameOK(stack[i + s]) /\ stack[i + s] \in FrameOf(heap)
        /\ stack'[i].node = stack[i + s].node /\ stack'[i].node \in Nodes
    BY <1>0, <1>4, <1>8, <1>9, Zenon DEF Frames, FrameOf
  <2>2. CASE i = 1
    <3>1. stack'[i].at <= Len(Asks(stack[i].node)')
      <4>1. Asks(stack'[i].node) \in Seq(Nodes) /\ stack[i + s].at \in Nat
        BY <1>0, <2>1, AsksLemma, Zenon DEF FrameOf
      <4>2. stack'[i].at = stack[i + s].at + 1 /\ stack[i + s].at < Len(Asks(stack'[i].node))
        BY <1>1, <1>3, <2>1, <2>2
      <4>3. Asks(stack[i].node)' = Asks(stack'[i].node)
        BY <1>5, <2>1
      <4> QED
        BY <4>1, <4>2, <4>3
    <3>2. Class[stack'[i].node] = "complexType" => cache'[stack'[i].node] = stack'[i].desc
      <4>1. ASSUME Class[stack'[i].node] = "complexType"
            PROVE  cache'[stack'[i].node] = stack'[i].desc
        <5>1. Adds(stack'[i].node)
          BY <4>1 DEF Adds
        <5>2. stack'[i].desc = stack[i + s].desc
          BY <1>1, <1>3, <2>2, <5>1
        <5>3. cache[stack[i + s].node] = stack[i + s].desc
          BY <2>1, <4>1 DEF FrameOK
        <5> QED
          BY <2>1, <4>1, <5>2, <5>3
      <4> QED
        BY <4>1
    <3>3. stack'[i].desc = 0 => IsRef(stack[i].node)'
      BY <1>3, <1>5, <2>1, <2>2
    <3> QED
      BY <1>3, <2>2, <3>1, <3>2, <3>3 DEF FrameOK, ResultOK
  <2>3. CASE i # 1
    <3>1. stack'[i] = stack[i + s]
      BY <1>1, <1>3, <1>4, <2>3
    <3>2. ResultOK(stack[i + s].node, stack[i + s].desc) => ResultIn(heap', stack'[i].node, stack'[i].desc)
      <4>1. stack[i + s].desc \in 0..Len(heap.desc)
        BY <2>1, Zenon DEF FrameOf
      <4> QED
        BY <1>0, <1>3, <2>1, <3>1, <4>1, ResultLemma, Zenon
    <3>3. Class[stack'[i].node] = "complexType" => cache'[stack'[i].node] = stack'[i].desc
      BY <2>1, <3>1, Zenon DEF FrameOK
    <3>4. Asks(stack[i].node)' = Asks(stack[i + s].node) /\ (IsRef(stack[i].node)' <=> IsRef(stack[i + s].node))
      BY <1>5, <2>1
    <3> QED
      BY <2>1, <3>1, <3>2, <3>3, <3>4 DEF FrameOK, ResultOK
  <2> QED
    BY <2>2, <2>3
<1>11. Frames'
  <2>1. ASSUME NEW i \in 1..(Len(stack') - 1)
        PROVE  /\ stack'[i + 1].at < Len(Asks(stack[i + 1].node)')
               /\ stack'[i].node = Asks(stack[i + 1].node)'[stack'[i + 1].at + 1]
    <3>1. /\ i \in 1..Len(stack') /\ i + 1 \in 2..Len(stack') /\ i + s \in 1..(Len(stack) - 1)
          /\ (i + 1) + s = (i + s) + 1 /\ i + 1 \in 1..Len(stack')
      BY <1>1, <1>3
    <3>2. stack'[i + 1] = stack[(i + s) + 1] /\ stack'[i].node = stack[i + s].node
      BY <1>4, <3>1
    <3>3. /\ stack[(i + s) + 1].at < Len(Asks(stack[(i + s) + 1].node))
          /\ stack[i + s].node = Asks(stack[(i + s) + 1].node)[stack[(i + s) + 1].at + 1]
      BY <1>0, <3>1, Zenon DEF Frames
    <3>4. Asks(stack[i + 1].node)' = Asks(stack[(i + s) + 1].node)
      <4>1. stack'[i + 1].node \in Nodes
        BY <1>8, <3>1, Zenon DEF FrameOf
      <4> QED
        BY <1>5, <3>2, <4>1, Zenon
    <3> QED
      BY <3>2, <3>3, <3>4
  <2>2. ASSUME NEW i \in 1..Len(stack'), NEW j \in 1..Len(stack'), i # j,
               Class[stack'[i].node] = "complexType"
        PROVE  stack'[i].node # stack'[j].node
    <3>1. i + s \in 1..Len(stack) /\ j + s \in 1..Len(stack) /\ i + s # j + s
      BY <1>1, <1>3, <1>4, <2>2
    <3>2. PICK k \in 1..Len(stack), l \in 1..Len(stack) :
            /\ k # l
            /\ stack'[i].node = stack[k].node /\ stack'[j].node = stack[l].node
      BY <1>4, <3>1, Zenon
    <3>3. k # l /\ Class[stack[k].node] = "complexType" => stack[k].node # stack[l].node
      BY <1>0 DEF Frames
    <3> QED
      BY <2>2, <3>2, <3>3
  <2> QED
    BY <1>10, <2>1, <2>2 DEF Frames
<1>12. Owned'
  <2>1. ASSUME NEW n \in Nodes, NEW i \in 1..Len(stack'),
               Class[n] = "complexType", cache'[n] # 0, Adds(stack[i].node)', stack'[i].desc # 0,
               heap'.desc[stack'[i].desc].items = heap'.desc[cache'[n]].items
        PROVE  stack'[i].node = n
    <3>1. i + s \in 1..Len(stack) /\ stack'[i].node = stack[i + s].node /\ stack'[i].node \in Nodes
      BY <1>4, <1>8, Zenon DEF FrameOf
    <3>2. Adds(stack[i + s].node)
      BY <1>5, <2>1, <3>1
    <3>3. stack'[i].desc = stack[i + s].desc
      <4>1. CASE i = 1
        <5>1. Adds(stack'[1].node)
          BY <3>1, <3>2, <4>1
        <5>2. stack[i + s] = Head(below)
          BY <1>1, <4>1
        <5> QED
          BY <1>3, <4>1, <5>1, <5>2
      <4>2. CASE i # 1
        <5>1. i \in 2..Len(stack')
          BY <1>1, <1>3, <2>1, <4>2
        <5> QED
          BY <1>4, <5>1, Zenon
      <4> QED
        BY <4>1, <4>2
    <3>4. /\ stack[i + s].desc \in 1..Len(heap.desc) /\ heap.desc[stack[i + s].desc].class = "type"
      BY <1>0, <2>1, <3>1, <3>2, <3>3, AdderLemma, Zenon
    <3>5. cache'[n] = cache[n] /\ cache[n] # 0
      BY <2>1
    <3>6. cache[n] \in 1..Len(heap.desc) /\ heap.desc[cache[n]].class = "type"
      BY <1>0, <2>1, <3>5, ComplexLemma
    <3>7. heap.desc[stack[i + s].desc].items = heap.desc[cache[n]].items
      BY <1>3, <2>1, <3>3, <3>4, <3>5, <3>6, Zenon DEF Grown
    <3>8. stack[i + s].desc # 0
      BY <2>1, <3>3
    <3>9. PICK m \in 1..Len(stack) : m = i + s
      BY <3>1
    <3>10. stack[m].node = n
      BY <1>0, <2>1, <3>2, <3>5, <3>7, <3>8, <3>9, Zenon DEF Owned
    <3> QED
      BY <3>1, <3>9, <3>10
  <2> QED
    BY <2>1, Zenon DEF Owned
<1>13. TypesFirst'
  <2>1. \A j \in 1..Len(TypeTable) : TypeTable[j] \in Nodes /\ Class[TypeTable[j]] = "complexType"
    BY DescribeAssumption
  <2>2. \A p \in heirs : p[2] \in Nodes
    BY <1>0 DEF Typing, TypeOK
  <2>3. \A n \in Nodes : Class[n] = "complexType" => cache'[n] = cache[n]
    OBVIOUS
  <2>4. ASSUME NEW i \in 1..Len(todo'), todo'[i] = Inherit, NEW j \in 1..Len(TypeTable),
               cache'[TypeTable[j]] = 0
        PROVE  \E k \in 1..(i - 1) : todo'[k] = TypeTable[j]
    <3>1. cache[TypeTable[j]] = 0
      BY <2>1, <2>3, <2>4, Zenon
    <3> QED
      BY <1>0, <2>4, <3>1, Zenon DEF TypesFirst
  <2>5. \A p \in heirs' : Class[p[2]] = "complexType" /\ cache'[p[2]] # 0
    BY <1>0, <2>2, <2>3 DEF TypesFirst
  <2> QED
    BY <2>4, <2>5, Zenon DEF TypesFirst
<1>14. Careful
  <2>1. ASSUME NEW b \in 1..Len(heap.arrays), heap'.arrays[b] # heap.arrays[b]
        PROVE  \E i \in 1..Len(stack) :
                 /\ Adds(stack[i].node) /\ stack[i].desc # 0
                 /\ heap.desc[stack[i].desc].items = b
    <3>1. Adds(Head(below).node) /\ b = heap.desc[Head(below).desc].items
      BY <1>3, <2>1, Zenon
    <3>2. Head(below).desc # 0
      BY <1>3, <3>1
    <3> QED
      BY <1>1, <3>1, <3>2, Zenon
  <2> QED
    BY <1>3, <2>1 DEF Careful
<1> QED
  BY <1>6, <1>7, <1>11, <1>12, <1>13, <1>14 DEF IInv

\* A step after which no call is running.
LEMMA QuietLemma ==
  ASSUME IInv, link' = link, many' = many, stack' = <<>>,
         Grown(heap, heap'), \A b \in 1..Len(heap.arrays) : heap'.arrays[b] = heap.arrays[b],
         cache' \in [Nodes -> 0..Len(heap.desc)],
         \A n \in Nodes : cache'[n] # 0 => ResultOK(n, cache'[n]),
         \A n \in Nodes : Class[n] = "complexType" /\ cache[n] # 0 => cache'[n] = cache[n],
         todo' \in Seq(Nodes \cup {Inherit}), heirs' \subseteq Nodes \X Nodes, TypesFirst'
  PROVE  IInv' /\ Careful
<1>0. Typing /\ HeapOK(heap) /\ HeapOK(heap') /\ Len(heap.desc) <= Len(heap'.desc)
  BY DEF IInv, Typing, Grown
<1>1. Typing'
  <2>1. 0..Len(heap.desc) \subseteq 0..Len(heap'.desc)
    BY <1>0, HeapLemma
  <2>2. cache' \in [Nodes -> 0..Len(heap'.desc)] /\ stack' \in Seq(FrameOf(heap'))
    BY <2>1
  <2> QED
    BY <1>0, <2>2, TypingLemma
<1>2. Results'
  <2>1. ASSUME NEW n \in Nodes, cache'[n] # 0 PROVE ResultIn(heap', n, cache'[n])
    <3>1. cache'[n] \in 0..Len(heap.desc) /\ ResultOK(n, cache'[n])
      BY <2>1
    <3> QED
      BY <1>0, <3>1, ResultLemma
  <2> QED
    BY <2>1 DEF Results, ResultOK
<1>3. 1..Len(stack') = {} /\ 1..(Len(stack') - 1) = {}
  OBVIOUS
<1>4. Frames' /\ Owned'
  BY <1>3 DEF Frames, Owned
<1>5. Careful
  BY DEF Careful
<1> QED
  BY <1>1, <1>2, <1>4, <1>5 DEF IInv

\* The state of the variables.
LEMMA StateLemma ==
  ASSUME IInv
  PROVE  /\ Typing /\ Results /\ Frames /\ Owned /\ TypesFirst /\ HeapOK(heap)
         /\ cache \in [Nodes -> 0..Len(heap.desc)]
         /\ stack \in Seq(FrameOf(heap)) /\ todo \in Seq(Nodes \cup {Inherit})
         /\ heirs \subseteq Nodes \X Nodes
         /\ \A n \in Nodes : cache[n] # 0 => ResultOK(n, cache[n])
BY Zenon DEF IInv, Typing, TypeOK, Results, FrameOf

\* A call takes a descriptor that was made before.
LEMMA ReuseIInv ==
  ASSUME IInv, Reuse
  PROVE  IInv' /\ Careful
<1>1. PICK f : f = Head(stack)
  OBVIOUS
<1>2. /\ stack # <<>> /\ f.at < Len(Asks(f.node))
      /\ cache[Asks(f.node)[f.at + 1]] # 0
      /\ Take(stack, cache[Asks(f.node)[f.at + 1]])
      /\ UNCHANGED <<link, many, cache, todo, heirs>>
  BY <1>1 DEF Reuse
<1>3. f \in FrameOf(heap)
  BY <1>1, <1>2, StateLemma
<1>4. PICK k \in Nodes : k = Asks(f.node)[f.at + 1]
  <2>1. Asks(f.node) \in Seq(Nodes)
    BY <1>3, AsksLemma, StateLemma DEF FrameOf
  <2> QED
    BY <1>2, <1>3, <2>1 DEF FrameOf
<1>5. PICK r \in 0..Len(heap.desc) : r = cache[k] /\ ResultOK(k, r)
  BY <1>2, <1>4, StateLemma
<1>6. /\ Len(stack) = Len(stack) - 0 /\ 0 \in {0, 1}
      /\ \A i \in 1..Len(stack) : stack[i] = stack[i + 0]
  BY StateLemma
<1>7. /\ stack \in Seq(FrameOf(heap)) /\ cache \in [Nodes -> 0..Len(heap.desc)]
      /\ \A n \in Nodes : cache[n] # 0 => ResultOK(n, cache[n])
  BY StateLemma
<1>8. FrameOK(f)
  <2>1. f = stack[1] /\ 1 \in 1..Len(stack)
    BY <1>1, <1>2, <1>7, EmptySeq
  <2> QED
    BY <2>1, StateLemma DEF Frames
<1>9. Asked(f, r)
  BY <1>2, <1>3, <1>4, <1>5, <1>8 DEF Asked
<1>10. TakenBy(stack, 0, r)
  BY <1>1, <1>2, <1>4, <1>5, <1>6, <1>7, <1>9 DEF TakenBy
<1> QED
  BY <1>2, <1>7, <1>10, TakenLemma

\* A call returns.
LEMMA ReturnIInv ==
  ASSUME IInv, Return
  PROVE  IInv' /\ Careful
<1>1. PICK f : f = Head(stack)
  OBVIOUS
<1>2. /\ stack # <<>> /\ f.at = Len(Asks(f.node))
      /\ cache' = IF Class[f.node] \in {"particle", "simpleType"}
                    THEN cache ELSE [cache EXCEPT ![f.node] = f.desc]
      /\ IF Tail(stack) = <<>> THEN stack' = <<>> /\ UNCHANGED heap
                               ELSE Take(Tail(stack), f.desc)
      /\ UNCHANGED <<link, many, todo, heirs>>
  BY <1>1 DEF Return
<1>3. /\ stack \in Seq(FrameOf(heap)) /\ f \in FrameOf(heap) /\ f = stack[1] /\ 1 \in 1..Len(stack)
      /\ Len(stack) \in Nat \ {0}
  BY <1>1, <1>2, StateLemma, EmptySeq
<1>4. FrameOK(f) /\ f.node \in Nodes /\ f.desc \in 0..Len(heap.desc)
  BY <1>3, StateLemma DEF Frames, FrameOf
<1>5. ResultOK(f.node, f.desc)
  <2>1. ASSUME Class[f.node] \in {"attribute", "group"}, IsRef(f.node) PROVE f.at # 0
    <3>1. Asks(f.node) = <<link[f.node]>>
      BY <1>4, <2>1, AsksLemma, StateLemma, Zenon
    <3> QED
      BY <1>2, <3>1
  <2> QED
    BY <1>4, <2>1 DEF FrameOK
<1>6. cache' \in [Nodes -> 0..Len(heap.desc)]
  BY <1>2, <1>4, StateLemma
<1>7. ASSUME NEW n \in Nodes, cache'[n] # 0 PROVE ResultOK(n, cache'[n])
  <2>1. n # f.node => cache'[n] = cache[n]
    BY <1>2, <1>4, StateLemma
  <2>2. cache'[f.node] = cache[f.node] \/ cache'[f.node] = f.desc
    BY <1>2, <1>4, StateLemma
  <2> QED
    BY <1>5, <1>7, <2>1, <2>2, StateLemma
<1>8. ASSUME NEW n \in Nodes, Class[n] = "complexType" PROVE cache'[n] = cache[n]
  <2>1. n = f.node => cache[n] = f.desc
    BY <1>4, <1>8 DEF FrameOK
  <2> QED
    BY <1>2, <1>4, <2>1, StateLemma
<1>9. CASE Tail(stack) = <<>>
  <2>1. stack' = <<>> /\ heap' = heap /\ Grown(heap, heap')
    BY <1>2, <1>9, StateLemma, HeapLemma DEF Grown
  <2>2. TypesFirst'
    <3>1. \A j \in 1..Len(TypeTable) : TypeTable[j] \in Nodes /\ Class[TypeTable[j]] = "complexType"
      BY DescribeAssumption
    <3>2. \A i \in 1..Len(todo') : todo'[i] = Inherit =>
            \A j \in 1..Len(TypeTable) :
              cache'[TypeTable[j]] # 0 \/ \E k \in 1..(i - 1) : todo'[k] = TypeTable[j]
      BY <1>2, <1>8, <3>1, StateLemma DEF TypesFirst
    <3>3. \A p \in heirs' : Class[p[2]] = "complexType" /\ cache'[p[2]] # 0
      BY <1>2, <1>8, StateLemma DEF TypesFirst
    <3> QED
      BY <3>2, <3>3 DEF TypesFirst
  <2>3. todo' \in Seq(Nodes \cup {Inherit}) /\ heirs' \subseteq Nodes \X Nodes
    BY <1>2, StateLemma
  <2> QED
    BY <1>2, <1>6, <1>7, <1>8, <2>1, <2>2, <2>3, QuietLemma
<1>10. CASE Tail(stack) # <<>>
  <2>1. /\ Tail(stack) \in Seq(FrameOf(heap)) /\ Len(Tail(stack)) = Len(stack) - 1
        /\ \A i \in 1..Len(Tail(stack)) : Tail(stack)[i] = stack[i + 1]
    BY <1>3
  <2>2. Len(stack) \in Nat /\ Len(stack) > 1
    BY <1>3, <1>10, <2>1, EmptySeq
  <2>3. PICK g : g = Head(Tail(stack))
    OBVIOUS
  <2>4. g = stack[2] /\ g \in FrameOf(heap)
    BY <1>10, <2>1, <2>2, <2>3
  <2>5. /\ FrameOK(g) /\ g.at < Len(Asks(g.node)) /\ f.node = Asks(g.node)[g.at + 1]
    <3>1. 1 \in 1..(Len(stack) - 1) /\ 1 + 1 = 2 /\ 2 \in 1..Len(stack)
      BY <2>2
    <3> QED
      BY <1>3, <2>4, <3>1, StateLemma DEF Frames
  <2>6. Asked(g, f.desc)
    BY <1>4, <1>5, <2>4, <2>5 DEF Asked
  <2>7. TakenBy(Tail(stack), 1, f.desc)
    BY <1>2, <1>10, <2>1, <2>3, <2>6 DEF TakenBy
  <2> QED
    BY <1>2, <1>6, <1>7, <1>8, <2>7, TakenLemma
<1> QED
  BY <1>9, <1>10

\* With what `describe' of a node begins.
LEMMA BeginningLemma ==
  ASSUME Typing, NEW k \in Nodes
  PROVE  \/ /\ Beginning(k) = None
            /\ Class[k] \in {"attribute", "group"} /\ IsRef(k)
         \/ /\ Beginning(k) = None
            /\ Class[k] \in {"particle", "group"} /\ ~IsRef(k) /\ Asks(k) = <<>>
         \/ /\ Beginning(k) # None
            /\ Beginning(k) \in {"element", "attribute", "type"} /\ Beginning(k) = ClassOf(k)
<1>1. Class[k] \in Classes /\ None \notin {"element", "attribute", "type"}
  BY DescribeAssumption
<1>2. CASE Class[k] \in {"attribute", "group"} /\ IsRef(k)
  BY <1>2 DEF Beginning
<1>3. CASE Class[k] = "element" \/ (Class[k] = "attribute" /\ ~IsRef(k))
  <2>1. Beginning(k) = Class[k]
    BY <1>3 DEF Beginning
  <2>2. Class[k] \in {"element", "attribute"}
    BY <1>3
  <2> QED
    BY <1>1, <2>1, <2>2 DEF ClassOf
<1>4. CASE Class[k] \in {"particle", "group"} /\ ~IsRef(k) /\ Kids[k] = <<>>
  <2>1. Asks(k) = <<>>
    BY <1>4 DEF Asks
  <2>2. Beginning(k) = None
    BY <1>4 DEF Beginning
  <2> QED
    BY <1>4, <2>1, <2>2
<1>5. CASE ~(\/ Class[k] \in {"attribute", "group"} /\ IsRef(k)
             \/ Class[k] = "element" \/ (Class[k] = "attribute" /\ ~IsRef(k))
             \/ Class[k] \in {"particle", "group"} /\ ~IsRef(k) /\ Kids[k] = <<>>)
  <2>1. Beginning(k) = "type"
    BY <1>5 DEF Beginning
  <2>2. ClassOf(k) = "type"
    BY <1>5 DEF ClassOf
  <2> QED
    BY <1>1, <2>1, <2>2
<1> QED
  BY <1>2, <1>3, <1>4, <1>5

\* The call of `describe' of a node that has no descriptor: the frame on top of
\* the stack is one that asks for the node, or there is none.
LEMMA EnterLemma ==
  ASSUME IInv, NEW k \in Nodes, cache[k] = 0, Enter(k), link' = link, many' = many,
         heirs' = heirs, todo' \in Seq(Nodes \cup {Inherit}),
         stack # <<>> =>
           /\ stack[1].at < Len(Asks(stack[1].node))
           /\ k = Asks(stack[1].node)[stack[1].at + 1]
  PROVE  /\ Typing' /\ Results' /\ Frames' /\ Owned' /\ Careful
         /\ Class[k] = "complexType" => cache'[k] # 0
<1>0. /\ Typing /\ Results /\ Frames /\ Owned /\ HeapOK(heap)
      /\ cache \in [Nodes -> 0..Len(heap.desc)] /\ stack \in Seq(FrameOf(heap))
      /\ \A n \in Nodes : cache[n] # 0 => ResultOK(n, cache[n])
      /\ heirs \subseteq Nodes \X Nodes
  BY StateLemma
<1>1. PICK b : b = Beginning(k)
  OBVIOUS
<1>2. PICK h : h = IF b = None THEN heap ELSE WithNew(heap, b, k)
  OBVIOUS
<1>3. PICK d : d = IF b = None THEN 0 ELSE Newest(h)
  OBVIOUS
<1>4. PICK f : f = [node |-> k, desc |-> d, at |-> 0]
  BY Zenon
<1>5. /\ stack' = <<f>> \o stack /\ heap' = h
      /\ cache' = IF b # None /\ Class[k] \in Early THEN [cache EXCEPT ![k] = d] ELSE cache
  BY <1>1, <1>2, <1>3, <1>4 DEF Enter
<1>6. Len(heap.desc) \in Nat /\ Len(heap.arrays) \in Nat /\ Len(stack) \in Nat
  BY <1>0, HeapLemma
<1>7. /\ Grown(heap, h) /\ d \in 0..Len(h.desc)
      /\ \A e \in 1..Len(heap.desc) : h.desc[e] = heap.desc[e]
      /\ \A a \in 1..Len(heap.arrays) : h.arrays[a] = heap.arrays[a]
      /\ b # None =>
           /\ d # 0 /\ d = Len(heap.desc) + 1
           /\ h.desc[d].class = b /\ h.desc[d].items = Len(heap.arrays) + 1
  <2>1. CASE b = None
    <3>1. h = heap /\ d = 0
      BY <1>2, <1>3, <2>1
    <3> QED
      BY <1>0, <1>6, <2>1, <3>1 DEF Grown
  <2>2. CASE b # None
    <3>1. h = WithNew(heap, b, k) /\ d = Newest(h)
      BY <1>2, <1>3, <2>2
    <3>2. b \in {"element", "attribute", "type"}
      BY <1>0, <1>1, <2>2, BeginningLemma
    <3>3. /\ Grown(heap, h)
          /\ Newest(h) = Len(heap.desc) + 1 /\ Len(h.desc) = Len(heap.desc) + 1
          /\ h.desc[Newest(h)].class = b
          /\ h.desc[Newest(h)].items = Len(heap.arrays) + 1
          /\ \A e \in 1..Len(heap.desc) : h.desc[e] = heap.desc[e]
          /\ \A a \in 1..Len(heap.arrays) : h.arrays[a] = heap.arrays[a]
      BY ONLY <1>0, <3>1, <3>2, k \in Nodes, NewLemma
    <3> QED
      BY <1>6, <3>1, <3>3
  <2> QED
    BY <2>1, <2>2, Zenon
<1>8. /\ b = None => d = 0
      /\ b = None => \/ Class[k] \in {"attribute", "group"} /\ IsRef(k)
                     \/ Class[k] \in {"particle", "group"} /\ ~IsRef(k) /\ Asks(k) = <<>>
      /\ b # None => b = ClassOf(k)
  BY <1>0, <1>1, <1>3, BeginningLemma
<1>9. /\ f \in FrameOf(h) /\ f.node = k /\ f.desc = d /\ f.at = 0
      /\ 0..Len(heap.desc) \subseteq 0..Len(h.desc)
  BY <1>4, <1>6, <1>7, HeapLemma DEF FrameOf, Grown
<1>10. /\ stack' \in Seq(FrameOf(heap')) /\ Len(stack') = Len(stack) + 1 /\ stack'[1] = f
       /\ \A i \in 2..Len(stack') : i - 1 \in 1..Len(stack) /\ stack'[i] = stack[i - 1]
  <2>1. FrameOf(heap) \subseteq FrameOf(h)
    BY <1>9 DEF FrameOf
  <2>2. stack \in Seq(FrameOf(h)) /\ <<f>> \in Seq(FrameOf(h))
    BY <1>0, <1>9, <2>1
  <2> QED
    BY <1>5, <1>6, <2>2
<1>11. /\ cache' \in [Nodes -> 0..Len(heap'.desc)]
       /\ \A n \in Nodes : n # k => cache'[n] = cache[n]
       /\ cache'[k] = IF b # None /\ Class[k] \in Early THEN d ELSE 0
  BY <1>0, <1>5, <1>7, <1>9
<1>12. Typing'
  <2>1. HeapOK(heap')
    BY <1>5, <1>7 DEF Grown
  <2> QED
    BY <1>0, <1>10, <1>11, <2>1, TypingLemma
<1>13. ResultIn(heap', k, d) \/ (Class[k] \in {"attribute", "group"} /\ IsRef(k) /\ d = 0)
  BY <1>5, <1>7, <1>8 DEF ResultIn
<1>14. Results'
  <2>1. ASSUME NEW n \in Nodes, cache'[n] # 0 PROVE ResultIn(heap', n, cache'[n])
    <3>1. CASE n = k
      <4>1. cache'[n] = d /\ d # 0
        BY <1>11, <2>1, <3>1
      <4>2. b # None
        BY <1>8, <4>1
      <4> QED
        BY <1>5, <1>7, <1>8, <3>1, <4>1, <4>2 DEF ResultIn
    <3>2. CASE n # k
      <4>1. cache'[n] = cache[n] /\ cache[n] \in 0..Len(heap.desc) /\ ResultOK(n, cache[n])
        BY <1>0, <1>11, <2>1, <3>2
      <4>2. ResultIn(heap', n, cache[n])
        BY <1>0, <1>5, <1>7, <4>1, ResultLemma
      <4> QED
        BY <4>1, <4>2
    <3> QED
      BY <3>1, <3>2
  <2> QED
    BY <2>1 DEF Results, ResultOK
<1>15. \A n \in Nodes : Asks(n)' = Asks(n) /\ (IsRef(n)' <=> IsRef(n)) /\ (Adds(n)' <=> Adds(n))
  BY SameLemma
<1>16. Class[k] = "complexType" => b # None /\ cache'[k] = d /\ d # 0
  BY <1>7, <1>8, <1>11 DEF Early
<1>17. \A i \in 1..Len(stack) : /\ stack[i] \in FrameOf(heap) /\ FrameOK(stack[i])
                                /\ Class[stack[i].node] = "complexType" => stack[i].node # k
  <2>1. ASSUME NEW i \in 1..Len(stack), Class[stack[i].node] = "complexType" PROVE stack[i].node # k
    <3>1. FrameOK(stack[i])
      BY <1>0 DEF Frames
    <3>2. stack[i].desc # 0 /\ cache[stack[i].node] = stack[i].desc
      BY <2>1, <3>1 DEF FrameOK, ResultOK, ResultIn
    <3> QED
      BY <3>2
  <2> QED
    BY <1>0, <2>1 DEF Frames
<1>18. ASSUME NEW i \in 1..Len(stack') PROVE FrameOK(stack[i])'
  <2>1. CASE i = 1
    <3>1. stack'[i].node = k /\ stack'[i].desc = d /\ stack'[i].at = 0
      BY <1>9, <1>10, <2>1
    <3>2. Asks(stack[i].node)' = Asks(k) /\ (IsRef(stack[i].node)' <=> IsRef(k))
      BY <1>15, <3>1
    <3>3. 0 <= Len(Asks(k))
      <4>1. Asks(k) \in Seq(Nodes)
        BY <1>0, AsksLemma
      <4> QED
        BY <4>1
    <3>4. d = 0 => Asks(k) = <<>> \/ IsRef(k)
      BY <1>7, <1>8
    <3>5. Class[k] = "complexType" => cache'[k] = d
      BY <1>16
    <3> QED
      BY <1>13, <3>1, <3>2, <3>3, <3>4, <3>5 DEF FrameOK, ResultOK
  <2>2. CASE i # 1
    <3>1. PICK j \in 1..Len(stack) : stack'[i] = stack[j]
      BY <1>6, <1>10, <2>2
    <3>2. /\ FrameOK(stack[j]) /\ stack[j].node \in Nodes /\ stack[j].desc \in 0..Len(heap.desc)
          /\ Class[stack[j].node] = "complexType" => stack[j].node # k
      BY <1>17 DEF FrameOf
    <3>3. ResultOK(stack[j].node, stack[j].desc) => ResultIn(heap', stack[j].node, stack[j].desc)
      BY <1>0, <1>5, <1>7, <3>2, ResultLemma, Zenon
    <3>4. Class[stack[j].node] = "complexType" => cache'[stack[j].node] = stack[j].desc
      BY <1>11, <3>2 DEF FrameOK
    <3>5. Asks(stack[i].node)' = Asks(stack[j].node) /\ (IsRef(stack[i].node)' <=> IsRef(stack[j].node))
      BY <1>15, <3>1, <3>2
    <3> QED
      BY <3>1, <3>2, <3>3, <3>4, <3>5 DEF FrameOK, ResultOK
  <2> QED
    BY <2>1, <2>2
<1>19. Frames'
  <2>1. ASSUME NEW i \in 1..(Len(stack') - 1)
        PROVE  /\ stack'[i + 1].at < Len(Asks(stack[i + 1].node)')
               /\ stack'[i].node = Asks(stack[i + 1].node)'[stack'[i + 1].at + 1]
    <3>1. i \in 1..Len(stack) /\ i + 1 \in 2..Len(stack') /\ (i + 1) - 1 = i /\ i \in 1..Len(stack')
      BY <1>6, <1>10
    <3>2. stack'[i + 1] = stack[i] /\ stack[i].node \in Nodes
      BY <1>10, <1>17, <3>1, Zenon DEF FrameOf
    <3>3. Asks(stack[i + 1].node)' = Asks(stack[i].node)
      BY <1>15, <3>2
    <3>4. stack[i].at < Len(Asks(stack[i].node)) /\ stack'[i].node = Asks(stack[i].node)[stack[i].at + 1]
      <4>1. CASE i = 1
        BY <1>6, <1>9, <1>10, <3>1, <4>1
      <4>2. CASE i # 1
        <5>1. i \in 2..Len(stack') /\ i - 1 \in 1..(Len(stack) - 1) /\ (i - 1) + 1 = i
          BY <1>6, <3>1, <4>2
        <5>2. /\ stack[(i - 1) + 1].at < Len(Asks(stack[(i - 1) + 1].node))
              /\ stack[i - 1].node = Asks(stack[(i - 1) + 1].node)[stack[(i - 1) + 1].at + 1]
          BY <1>0, <5>1 DEF Frames
        <5> QED
          BY <1>10, <5>1, <5>2, Zenon
      <4> QED
        BY <4>1, <4>2
    <3> QED
      BY <3>2, <3>3, <3>4
  <2>2. ASSUME NEW i \in 1..Len(stack'), NEW j \in 1..Len(stack'), i # j,
               Class[stack'[i].node] = "complexType"
        PROVE  stack'[i].node # stack'[j].node
    <3>1. CASE i = 1
      <4>1. PICK m \in 1..Len(stack) : stack'[j] = stack[m]
        BY <1>6, <1>10, <2>2, <3>1
      <4>2. stack'[i].node = k
        BY <1>9, <1>10, <3>1
      <4> QED
        BY <1>17, <2>2, <4>1, <4>2
    <3>2. CASE j = 1
      <4>0. i \in 2..Len(stack')
        BY <1>6, <1>10, <2>2, <3>2
      <4>1. PICK m \in 1..Len(stack) : stack'[i] = stack[m]
        BY <1>10, <4>0, Zenon
      <4>2. stack'[j].node = k
        BY <1>9, <1>10, <3>2
      <4> QED
        BY <1>17, <2>2, <4>1, <4>2
    <3>3. CASE i # 1 /\ j # 1
      <4>1. PICK m \in 1..Len(stack), l \in 1..Len(stack) :
              m # l /\ stack'[i] = stack[m] /\ stack'[j] = stack[l]
        <5>1. i \in 2..Len(stack') /\ j \in 2..Len(stack') /\ i - 1 # j - 1
          BY <1>6, <1>10, <2>2, <3>3
        <5> QED
          BY <1>10, <5>1, Zenon
      <4>2. m # l /\ Class[stack[m].node] = "complexType" => stack[m].node # stack[l].node
        BY <1>0 DEF Frames
      <4> QED
        BY <2>2, <4>1, <4>2
    <3> QED
      BY <3>1, <3>2, <3>3
  <2> QED
    BY <1>18, <2>1, <2>2, Zenon DEF Frames
<1>20. Owned'
  <2>1. ASSUME NEW n \in Nodes, NEW i \in 1..Len(stack'),
               Class[n] = "complexType", cache'[n] # 0, Adds(stack[i].node)', stack'[i].desc # 0,
               heap'.desc[stack'[i].desc].items = heap'.desc[cache'[n]].items
        PROVE  stack'[i].node = n
    <3>1. CASE i = 1
      <4>1. stack'[i].node = k /\ stack'[i].desc = d /\ d # 0 /\ b # None
        BY <1>8, <1>9, <1>10, <2>1, <3>1
      <4>2. ASSUME n # k PROVE FALSE
        <5>1. cache'[n] = cache[n] /\ cache[n] # 0
          BY <1>11, <2>1, <4>2
        <5>2. cache[n] \in 1..Len(heap.desc) /\ heap.desc[cache[n]].items \in 1..Len(heap.arrays)
          BY <1>0, <2>1, <5>1, ComplexLemma
        <5>3. heap'.desc[cache'[n]].items \in 1..Len(heap.arrays)
          BY <1>5, <1>7, <5>1, <5>2, Zenon
        <5>4. heap'.desc[stack'[i].desc].items = Len(heap.arrays) + 1
          BY <1>5, <1>7, <4>1
        <5> QED
          BY <1>6, <2>1, <5>3, <5>4
      <4> QED
        BY <4>1, <4>2
    <3>2. CASE i # 1
      <4>1. PICK j \in 1..Len(stack) : stack'[i] = stack[j]
        BY <1>6, <1>10, <3>2
      <4>2. stack[j].node \in Nodes
        BY <1>17 DEF FrameOf
      <4>3. Adds(stack[j].node) /\ stack[j].desc # 0
        BY <1>15, <2>1, <4>1, <4>2
      <4>4. /\ stack[j].desc \in 1..Len(heap.desc)
            /\ heap.desc[stack[j].desc].items \in 1..Len(heap.arrays)
        BY <1>0, <4>3, AdderLemma
      <4>5. heap'.desc[stack'[i].desc].items = heap.desc[stack[j].desc].items
        BY <1>5, <1>7, <4>1, <4>4, Zenon
      <4>6. n # k
        <5>1. ASSUME n = k PROVE FALSE
          <6>1. cache'[n] = d /\ b # None
            BY <1>16, <2>1, <5>1
          <6>2. heap'.desc[cache'[n]].items = Len(heap.arrays) + 1
            BY <1>5, <1>7, <6>1, Zenon
          <6>3. heap.desc[stack[j].desc].items = Len(heap.arrays) + 1
            BY <2>1, <4>5, <6>2, Zenon
          <6> QED
            BY <1>6, <4>4, <6>3
        <5> QED
          BY <5>1
      <4>7. cache'[n] = cache[n] /\ cache[n] # 0
        BY <1>11, <2>1, <4>6, Zenon
      <4>8. cache[n] \in 1..Len(heap.desc)
        BY <1>0, <2>1, <4>7, ComplexLemma
      <4>9. heap.desc[stack[j].desc].items = heap.desc[cache[n]].items
        BY <1>5, <1>7, <2>1, <4>5, <4>7, <4>8, Zenon
      <4>10. stack[j].node = n
        BY <1>0, <2>1, <4>3, <4>7, <4>9, Zenon DEF Owned
      <4> QED
        BY <4>1, <4>10
    <3> QED
      BY <3>1, <3>2
  <2> QED
    BY <2>1 DEF Owned
<1>21. Careful
  <2>1. \A n \in Nodes : cache[n] # 0 => cache'[n] = cache[n]
    BY <1>11
  <2> QED
    BY <1>5, <1>7, <2>1 DEF Careful
<1> QED
  BY <1>12, <1>14, <1>16, <1>19, <1>20, <1>21

\* A turn begins to describe a node.
LEMMA BeginIInv ==
  ASSUME IInv, Begin
  PROVE  IInv' /\ Careful
<1>1. PICK k : k = Head(todo)
  OBVIOUS
<1>2. /\ stack = <<>> /\ todo # <<>> /\ k # Inherit /\ todo' = Tail(todo)
      /\ IF cache[k] # 0 THEN UNCHANGED <<stack, heap, cache>> ELSE Enter(k)
      /\ UNCHANGED <<link, many, heirs>>
  BY <1>1 DEF Begin
<1>3. todo \in Seq(Nodes \cup {Inherit}) /\ heirs \subseteq Nodes \X Nodes
  BY StateLemma
<1>4. /\ Len(todo) \in Nat \ {0} /\ todo' \in Seq(Nodes \cup {Inherit}) /\ Len(todo') = Len(todo) - 1
      /\ \A i \in 1..Len(todo') : i + 1 \in 2..Len(todo) /\ todo'[i] = todo[i + 1]
      /\ k = todo[1] /\ k \in Nodes
  BY <1>1, <1>2, <1>3, EmptySeq
<1>5. \A j \in 1..Len(TypeTable) : TypeTable[j] \in Nodes /\ Class[TypeTable[j]] = "complexType"
  BY DescribeAssumption
<1>6. ASSUME \A n \in Nodes : Class[n] = "complexType" /\ (cache[n] # 0 \/ n = k) => cache'[n] # 0
      PROVE  TypesFirst'
  <2>1. ASSUME NEW i \in 1..Len(todo'), todo'[i] = Inherit, NEW j \in 1..Len(TypeTable),
               cache'[TypeTable[j]] = 0
        PROVE  \E m \in 1..(i - 1) : todo'[m] = TypeTable[j]
    <3>1. cache[TypeTable[j]] = 0 /\ TypeTable[j] # k
      BY <1>5, <1>6, <2>1
    <3>2. i + 1 \in 1..Len(todo) /\ todo[i + 1] = Inherit
      BY <1>4, <2>1
    <3>3. PICK m \in 1..((i + 1) - 1) : todo[m] = TypeTable[j]
      BY <3>1, <3>2, StateLemma DEF TypesFirst
    <3>4. m # 1
      BY <1>4, <3>1, <3>3
    <3>5. m - 1 \in 1..(i - 1) /\ m - 1 \in 1..Len(todo') /\ (m - 1) + 1 = m
      BY <1>4, <2>1, <3>3, <3>4
    <3> QED
      BY <1>4, <3>3, <3>5, Zenon
  <2>2. \A p \in heirs' : Class[p[2]] = "complexType" /\ cache'[p[2]] # 0
    BY <1>2, <1>3, <1>6, StateLemma DEF TypesFirst
  <2> QED
    BY <2>1, <2>2 DEF TypesFirst
<1>7. CASE cache[k] # 0
  <2>1. stack' = <<>> /\ heap' = heap /\ cache' = cache
    BY <1>2, <1>7
  <2>2. TypesFirst'
    BY <1>6, <1>7, <2>1
  <2>3. Grown(heap, heap')
    BY <2>1, StateLemma, HeapLemma DEF Grown
  <2>4. /\ cache' \in [Nodes -> 0..Len(heap.desc)]
        /\ \A n \in Nodes : cache'[n] # 0 => ResultOK(n, cache'[n])
    BY <2>1, StateLemma
  <2> QED
    BY <1>2, <1>3, <1>4, <2>1, <2>2, <2>3, <2>4, QuietLemma
<1>8. CASE cache[k] = 0
  <2>1. /\ Typing' /\ Results' /\ Frames' /\ Owned' /\ Careful
        /\ Class[k] = "complexType" => cache'[k] # 0
    BY <1>2, <1>4, <1>8, EnterLemma
  <2>2. TypesFirst'
    BY <1>6, <2>1 DEF Careful
  <2> QED
    BY <2>1, <2>2 DEF IInv
<1> QED
  BY <1>7, <1>8, StateLemma

\* A call calls `describe' of another node.
LEMMA CallIInv ==
  ASSUME IInv, Call
  PROVE  IInv' /\ Careful
<1>1. PICK f : f = Head(stack)
  OBVIOUS
<1>2. PICK k : k = Asks(f.node)[f.at + 1]
  OBVIOUS
<1>3. /\ stack # <<>> /\ f.at < Len(Asks(f.node))
      /\ cache[k] = 0 /\ Enter(k)
      /\ UNCHANGED <<link, many, todo, heirs>>
  BY <1>1, <1>2 DEF Call
<1>4. f \in FrameOf(heap) /\ f = stack[1]
  BY <1>1, <1>3, StateLemma
<1>5. k \in Nodes
  <2>1. Asks(f.node) \in Seq(Nodes)
    BY <1>4, AsksLemma, StateLemma DEF FrameOf
  <2> QED
    BY <1>2, <1>3, <1>4, <2>1 DEF FrameOf
<1>6. Typing' /\ Results' /\ Frames' /\ Owned' /\ Careful
  BY <1>2, <1>3, <1>4, <1>5, StateLemma, EnterLemma
<1>7. TypesFirst'
  <2>1. \A j \in 1..Len(TypeTable) : TypeTable[j] \in Nodes /\ Class[TypeTable[j]] = "complexType"
    BY DescribeAssumption
  <2>2. \A n \in Nodes : Class[n] = "complexType" /\ cache[n] # 0 => cache'[n] # 0
    BY <1>6 DEF Careful
  <2>3. ASSUME NEW i \in 1..Len(todo'), todo'[i] = Inherit, NEW j \in 1..Len(TypeTable),
               cache'[TypeTable[j]] = 0
        PROVE  \E m \in 1..(i - 1) : todo'[m] = TypeTable[j]
    <3>1. cache[TypeTable[j]] = 0
      BY <2>1, <2>2, <2>3
    <3> QED
      BY <1>3, <2>3, <3>1, StateLemma, Zenon DEF TypesFirst
  <2>4. \A p \in heirs' : Class[p[2]] = "complexType" /\ cache'[p[2]] # 0
    BY <1>3, <2>2, StateLemma DEF TypesFirst
  <2> QED
    BY <2>3, <2>4 DEF TypesFirst
<1> QED
  BY <1>6, <1>7 DEF IInv

\* A step of a turn, or between turns, that describes nothing.
LEMMA BetweenLemma ==
  ASSUME IInv, link' = link, many' = many, stack' = <<>>, heap' = heap, cache' = cache,
         todo' \in Seq(Nodes \cup {Inherit}), heirs' \subseteq Nodes \X Nodes, TypesFirst'
  PROVE  IInv' /\ Careful
<1>1. Grown(heap, heap')
  BY StateLemma, HeapLemma DEF Grown
<1>2. /\ cache' \in [Nodes -> 0..Len(heap.desc)]
      /\ \A n \in Nodes : cache'[n] # 0 => ResultOK(n, cache'[n])
  BY StateLemma
<1> QED
  BY <1>1, <1>2, QuietLemma

\* A turn looks who derives from whom.
LEMMA DescribeChildrenIInv ==
  ASSUME IInv, DescribeChildren
  PROVE  IInv' /\ Careful
<1>1. PICK new : new = {p \in Nodes \X Nodes :
                          /\ \E i \in 1..Len(TypeTable) : TypeTable[i] = p[2]
                          /\ heap.desc[cache[p[2]]].base = p[1]
                          /\ Class[p[1]] = "complexType"}
  BY Zenon
<1>2. /\ stack = <<>> /\ todo # <<>> /\ Head(todo) = Inherit /\ todo' = Tail(todo)
      /\ heirs' = heirs \cup new
      /\ UNCHANGED <<link, many, cache, heap, stack>>
  BY <1>1 DEF DescribeChildren
<1>3. todo \in Seq(Nodes \cup {Inherit}) /\ heirs \subseteq Nodes \X Nodes
  BY StateLemma
<1>4. /\ Len(todo) \in Nat \ {0} /\ todo' \in Seq(Nodes \cup {Inherit}) /\ Len(todo') = Len(todo) - 1
      /\ \A i \in 1..Len(todo') : i + 1 \in 2..Len(todo) /\ todo'[i] = todo[i + 1]
      /\ todo[1] = Inherit
  BY <1>2, <1>3, EmptySeq
<1>5. \A j \in 1..Len(TypeTable) : TypeTable[j] \in Nodes /\ Class[TypeTable[j]] = "complexType"
  BY DescribeAssumption
<1>6. \A j \in 1..Len(TypeTable) : cache[TypeTable[j]] # 0
  <2>1. 1 \in 1..Len(todo) /\ 1..(1 - 1) = {}
    BY <1>4
  <2> QED
    BY <1>4, <2>1, StateLemma DEF TypesFirst
<1>7. TypesFirst'
  <2>1. \A p \in new : Class[p[2]] = "complexType" /\ cache[p[2]] # 0
    BY <1>1, <1>5, <1>6
  <2>2. \A p \in heirs' : Class[p[2]] = "complexType" /\ cache'[p[2]] # 0
    BY <1>2, <2>1, StateLemma DEF TypesFirst
  <2> QED
    BY <1>2, <1>6, <2>2 DEF TypesFirst
<1>8. heirs' \subseteq Nodes \X Nodes
  BY <1>1, <1>2, <1>3
<1> QED
  BY <1>2, <1>4, <1>7, <1>8, BetweenLemma

\* A call of a client.
LEMMA InvokeIInv ==
  ASSUME IInv, NEW n \in Roots, Invoke(n)
  PROVE  IInv' /\ Careful
<1>1. /\ stack = <<>> /\ todo' = TypeTable \o <<Inherit, n>>
      /\ UNCHANGED <<link, many, cache, heap, stack, heirs>>
  BY DEF Invoke, Quiet
<1>2. /\ TypeTable \in Seq(Nodes) /\ n \in Nodes /\ Inherit \notin Nodes
      /\ \A j \in 1..Len(TypeTable) : TypeTable[j] \in Nodes
  BY DescribeAssumption
<1>3. /\ todo' \in Seq(Nodes \cup {Inherit}) /\ Len(TypeTable) \in Nat
      /\ Len(todo') = Len(TypeTable) + 2
      /\ \A j \in 1..Len(TypeTable) : todo'[j] = TypeTable[j]
      /\ todo'[Len(TypeTable) + 1] = Inherit /\ todo'[Len(TypeTable) + 2] = n
  BY <1>1, <1>2
<1>4. TypesFirst'
  <2>1. ASSUME NEW i \in 1..Len(todo'), todo'[i] = Inherit, NEW j \in 1..Len(TypeTable)
        PROVE  \E m \in 1..(i - 1) : todo'[m] = TypeTable[j]
    <3>1. i = Len(TypeTable) + 1
      BY <1>2, <1>3, <2>1
    <3>2. j \in 1..(i - 1)
      BY <1>3, <3>1
    <3> QED
      BY <1>3, <3>2
  <2>2. \A p \in heirs' : Class[p[2]] = "complexType" /\ cache'[p[2]] # 0
    BY <1>1, StateLemma DEF TypesFirst
  <2> QED
    BY <2>1, <2>2 DEF TypesFirst
<1> QED
  BY <1>1, <1>3, <1>4, StateLemma, BetweenLemma

\* A turn that describes one operation.
LEMMA DescribeOperationIInv ==
  ASSUME IInv, NEW n \in Roots, DescribeOperation(n)
  PROVE  IInv' /\ Careful
<1>1. /\ stack = <<>> /\ todo' = <<n>>
      /\ UNCHANGED <<link, many, cache, heap, stack, heirs>>
  BY DEF DescribeOperation, Quiet
<1>2. n \in Nodes /\ Inherit \notin Nodes
  BY DescribeAssumption
<1>3. todo' \in Seq(Nodes \cup {Inherit}) /\ \A i \in 1..Len(todo') : todo'[i] # Inherit
  BY <1>1, <1>2
<1>4. TypesFirst'
  BY <1>1, <1>3, StateLemma DEF TypesFirst
<1> QED
  BY <1>1, <1>3, <1>4, StateLemma, BetweenLemma

\* A turn that describes the xsi:type of a value.
LEMMA DescribeXsiTypeIInv ==
  ASSUME IInv, NEW i \in 1..Len(TypeTable), DescribeXsiType(TypeTable[i])
  PROVE  IInv' /\ Careful
<1>1. /\ stack = <<>> /\ todo' = <<TypeTable[i]>>
      /\ UNCHANGED <<link, many, cache, heap, stack, heirs>>
  BY DEF DescribeXsiType, Quiet
<1>2. TypeTable[i] \in Nodes /\ Inherit \notin Nodes
  BY DescribeAssumption
<1>3. todo' \in Seq(Nodes \cup {Inherit}) /\ \A j \in 1..Len(todo') : todo'[j] # Inherit
  BY <1>1, <1>2
<1>4. TypesFirst'
  BY <1>1, <1>3, StateLemma DEF TypesFirst
<1> QED
  BY <1>1, <1>3, <1>4, StateLemma, BetweenLemma

\* The arrays of a descriptor are there.
LEMMA ItemsLemma ==
  ASSUME NEW h, HeapOK(h), NEW d \in 1..Len(h.desc)
  PROVE  h.desc[d].items \in 1..Len(h.arrays) /\ h.desc[d].node \in Nodes /\ h.desc[d].many \in BOOLEAN
<1>1. h.desc[d] \in DescriptorOf(h)
  BY HeapLemma
<1> QED
  BY <1>1 DEF DescriptorOf

\* The element descriptor d has new arrays, with the elements of c at their end.
Enlarged(h, g, d, c, new) ==
  /\ Grown(h, g) /\ Len(g.desc) = Len(h.desc) /\ Len(g.arrays) = new
  /\ \A e \in 1..Len(h.desc) : e # d => g.desc[e] = h.desc[e]
  /\ \A a \in 1..Len(h.arrays) : g.arrays[a] = h.arrays[a]
  /\ g.desc[d].items = new /\ g.desc[d].class = "element" /\ g.desc[d].node = h.desc[d].node
  /\ g.arrays[new].elements = Items(h, d).elements \o Items(h, c).elements
  /\ g.arrays[new].attributes = Items(h, d).attributes

\* What is added when a value has the xsi:type of a derived type.
LEMMA ExtendedLemma ==
  ASSUME NEW h, HeapOK(h), NEW d \in 1..Len(h.desc), h.desc[d].class = "element",
         NEW c \in 1..Len(h.desc), NEW g, g = Extended(h, d, c), NEW new, new = Len(h.arrays) + 1
  PROVE  Enlarged(h, g, d, c, new)
<1>1. /\ Len(h.desc) \in Nat /\ Len(h.arrays) \in Nat
      /\ h.desc \in Seq(DescriptorOf(h)) /\ h.arrays \in Seq(ArraysOf(h))
      /\ h.desc[d] \in DescriptorOf(h)
      /\ \A e \in 1..Len(h.desc) : h.desc[e].original < e
      /\ h.desc[d].items \in 1..Len(h.arrays) /\ h.desc[c].items \in 1..Len(h.arrays)
  BY HeapLemma, ItemsLemma, Zenon
<1>2. PICK x : x = Items(h, d).elements \o Items(h, c).elements
  BY Zenon
<1>3. PICK A : A = [Items(h, d) EXCEPT !.elements = x]
  BY Zenon
<1>4. PICK D : D = [h.desc[d] EXCEPT !.items = new]
  BY Zenon
<1>5. /\ A \in ArraysOf(h) /\ A.elements = x /\ A.attributes = Items(h, d).attributes
  <2>1. /\ Items(h, d) \in [elements : Seq(1..Len(h.desc)), attributes : Seq(1..Len(h.desc))]
        /\ Items(h, d).elements \in Seq(1..Len(h.desc)) /\ Items(h, c).elements \in Seq(1..Len(h.desc))
    BY <1>1, ArrayLemma, Zenon DEF Items
  <2>2. x \in Seq(1..Len(h.desc))
    BY <1>2, <2>1
  <2> QED
    BY <1>3, <2>1, <2>2, Zenon DEF ArraysOf
<1>6. g.desc = [h.desc EXCEPT ![d] = D] /\ g.arrays = Append(h.arrays, A)
      /\ g = [desc |-> g.desc, arrays |-> g.arrays]
  BY <1>2, <1>3, <1>4 DEF Extended
<1>7. /\ Len(g.desc) = Len(h.desc) /\ Len(g.arrays) = new
      /\ g.desc[d] = D /\ \A e \in 1..Len(h.desc) : e # d => g.desc[e] = h.desc[e]
      /\ \A b \in 1..Len(h.arrays) : g.arrays[b] = h.arrays[b]
      /\ g.arrays[new] = A
  BY <1>1, <1>6
<1>8. DescriptorOf(h) \subseteq DescriptorOf(g) /\ ArraysOf(h) \subseteq ArraysOf(g)
  BY <1>1, <1>7, LargerLemma
<1>9. /\ D \in DescriptorOf(g) /\ D.class = "element" /\ D.original = h.desc[d].original
      /\ D.node = h.desc[d].node /\ D.many = h.desc[d].many /\ D.items = new
  <2>1. h.desc[d] \in DescriptorOf(g) /\ new \in 1..Len(g.arrays)
    BY <1>1, <1>7, <1>8
  <2> QED
    BY <1>4, <2>1, Zenon DEF DescriptorOf
<1>10. HeapOK(g)
  <2>1. g.desc \in Seq(DescriptorOf(g))
    BY <1>1, <1>6, <1>8, <1>9
  <2>2. g.arrays \in Seq(ArraysOf(g))
    BY <1>1, <1>5, <1>6, <1>8
  <2>3. \A e \in 1..Len(g.desc) : g.desc[e].original < e
    BY <1>1, <1>7, <1>9, Zenon
  <2> QED
    BY <1>6, <2>1, <2>2, <2>3, Zenon DEF HeapOK
<1>11. Grown(h, g)
  <2>1. ASSUME NEW e \in 1..Len(h.desc)
        PROVE  /\ g.desc[e].class = h.desc[e].class /\ g.desc[e].node = h.desc[e].node
               /\ g.desc[e].many = h.desc[e].many
               /\ h.desc[e].class = "type" => g.desc[e].items = h.desc[e].items
    BY <1>7, <1>9, Zenon
  <2>2. Len(h.desc) <= Len(g.desc) /\ Len(h.arrays) <= Len(g.arrays)
    BY <1>1, <1>7
  <2> QED
    BY <1>10, <2>1, <2>2 DEF Grown
<1> QED
  BY <1>2, <1>5, <1>7, <1>9, <1>11, Zenon DEF Enlarged

\* jsonToXml extends an element with the items of a derived type.
LEMMA WriteIInv ==
  ASSUME IInv, NEW d \in 1..Len(heap.desc), NEW t \in Nodes, WriteXsiType(d, t)
  PROVE  IInv' /\ Careful
<1>1. /\ stack = <<>> /\ todo = <<>> /\ heap.desc[d].class = "element"
      /\ heap' = Extended(heap, d, cache[t])
      /\ UNCHANGED <<link, many, cache, stack, todo, heirs>>
  BY DEF WriteXsiType, Quiet
<1>2. Class[t] = "complexType" /\ cache[t] # 0
  <2>1. PICK p \in heirs : p[2] = t
    BY DEF WriteXsiType
  <2> QED
    BY <2>1, StateLemma DEF TypesFirst
<1>3. HeapOK(heap) /\ cache[t] \in 1..Len(heap.desc)
  BY <1>2, StateLemma, ComplexLemma
<1>4. PICK g : g = heap'
  OBVIOUS
<1>5. Enlarged(heap, g, d, cache[t], Len(heap.arrays) + 1)
  BY <1>1, <1>3, <1>4, ExtendedLemma
<1>6. /\ Grown(heap, heap')
      /\ \A b \in 1..Len(heap.arrays) : heap'.arrays[b] = heap.arrays[b]
  BY <1>4, <1>5 DEF Enlarged
<1>7. /\ cache' \in [Nodes -> 0..Len(heap.desc)]
      /\ \A n \in Nodes : cache'[n] # 0 => ResultOK(n, cache'[n])
  BY <1>1, StateLemma
<1>8. TypesFirst'
  BY <1>1, StateLemma DEF TypesFirst
<1> QED
  BY <1>1, <1>6, <1>7, <1>8, StateLemma, QuietLemma

\* The invariant holds in the beginning.
LEMMA InitIInv ==
  ASSUME Init
  PROVE  IInv
<1>1. /\ link \in Links /\ many \in SUBSET Repeatable /\ cache = [n \in Nodes |-> 0]
      /\ heap = [desc |-> <<>>, arrays |-> <<>>] /\ stack = <<>> /\ todo = <<>> /\ heirs = {}
  BY DEF Init
<1>2. heap.desc = <<>> /\ heap.arrays = <<>> /\ Len(heap.desc) = 0 /\ Len(heap.arrays) = 0
  BY <1>1
<1>3. HeapOK(heap)
  BY <1>1, <1>2 DEF HeapOK
<1>4. TypeOK
  <2>1. link \in [Nodes -> Nodes \cup {None}] /\ many \subseteq Nodes
    BY <1>1, DescribeAssumption
  <2>2. cache \in [Nodes -> 0..Len(heap.desc)] /\ 1..Len(heap.desc) = {} /\ 1..Len(heap.arrays) = {}
    BY <1>1, <1>2
  <2>3. /\ stack \in Seq([node : Nodes, desc : 0..Len(heap.desc), at : Nat])
        /\ todo \in Seq(Nodes \cup {Inherit}) /\ heirs \subseteq Nodes \X Nodes
    BY <1>1
  <2> QED
    BY <2>1, <2>2, <2>3, Zenon DEF TypeOK
<1>5. Results
  BY <1>1 DEF Results
<1>6. 1..Len(stack) = {} /\ 1..(Len(stack) - 1) = {} /\ 1..Len(todo) = {}
  BY <1>1
<1>7. Frames /\ Owned /\ TypesFirst
  BY <1>1, <1>6 DEF Frames, Owned, TypesFirst
<1> QED
  BY <1>1, <1>3, <1>4, <1>5, <1>7 DEF IInv, Typing

\* Every step keeps the invariant, and is careful.
LEMMA NextIInv ==
  ASSUME IInv, [Next]_vars
  PROVE  IInv' /\ Careful
<1>1. CASE Begin
  BY <1>1, BeginIInv
<1>2. CASE Reuse
  BY <1>2, ReuseIInv
<1>3. CASE Call
  BY <1>3, CallIInv
<1>4. CASE Return
  BY <1>4, ReturnIInv
<1>5. CASE DescribeChildren
  BY <1>5, DescribeChildrenIInv
<1>6. CASE \E n \in Roots : Invoke(n) \/ DescribeOperation(n)
  BY <1>6, InvokeIInv, DescribeOperationIInv
<1>7. CASE \E d \in 1..Len(heap.desc), t \in Nodes : WriteXsiType(d, t)
  BY <1>7, WriteIInv
<1>8. CASE UNCHANGED vars
  <2>1. /\ link' = link /\ many' = many /\ cache' = cache /\ heap' = heap /\ stack' = stack
        /\ todo' = todo /\ heirs' = heirs
    BY <1>8 DEF vars
  <2>2. Grown(heap, heap')
    BY <2>1, StateLemma, HeapLemma DEF Grown
  <2>3. Careful
    BY <2>1, <2>2 DEF Careful
  <2>4. TypeOK' /\ HeapOK(heap)' /\ Results' /\ TypesFirst'
    BY <2>1, StateLemma DEF Typing, TypeOK, DescriptorType, HeapOK, DescriptorOf, ArraysOf,
                            Results, ResultOK, ResultIn, TypesFirst
  <2>5. ASSUME NEW f PROVE FrameOK(f)' <=> FrameOK(f)
    <3>1. Asks(f.node)' = Asks(f.node) /\ (IsRef(f.node)' <=> IsRef(f.node))
      BY <2>1, SameLemma
    <3>2. ResultOK(f.node, f.desc)' <=> ResultOK(f.node, f.desc)
      BY <2>1 DEF ResultOK, ResultIn
    <3> QED
      BY <2>1, <3>1, <3>2 DEF FrameOK
  <2>6. \A n : Asks(n)' = Asks(n) /\ (Adds(n)' <=> Adds(n))
    BY <2>1, SameLemma
  <2>7. Frames'
    BY <2>1, <2>5, <2>6, StateLemma DEF Frames
  <2>8. Owned'
    BY <2>1, <2>6, StateLemma DEF Owned
  <2> QED
    BY <2>1, <2>3, <2>4, <2>7, <2>8, StateLemma DEF IInv, Typing
<1>9. CASE \E i \in 1..Len(TypeTable) : DescribeXsiType(TypeTable[i])
  BY <1>9, DescribeXsiTypeIInv
<1> QED
  BY <1>1, <1>2, <1>3, <1>4, <1>5, <1>6, <1>7, <1>8, <1>9 DEF Next, Step

\* The invariant is one.
THEOREM Inductive == Spec => []IInv
<1>1. Init => IInv
  BY InitIInv
<1>2. IInv /\ [Next]_vars => IInv'
  BY NextIInv
<1> QED
  BY <1>1, <1>2, PTL DEF Spec

\* The heap of descriptors is well formed: what a descriptor, an array, a node
\* or a running call refers to is there, and a clone is younger than its
\* original (descriptor.js).
THEOREM TypeCorrect == Spec => []TypeOK
<1>1. IInv => TypeOK
  BY DEF IInv, Typing
<1> QED
  BY <1>1, Inductive, PTL

\* The arrays of a complex type are never changed once it was described, for
\* any schemas, any order in which they are described and any values that are
\* written with an xsi:type (xmlHandler.js:200).
THEOREM TypeIsFinalHolds == Spec => TypeIsFinal
<1>1. IInv /\ [Next]_vars =>
        [\A n \in Nodes :
           (Class[n] = "complexType" /\ cache[n] # 0 /\ \A j \in 1..Len(stack) : stack[j].node # n)
             => cache'[n] = cache[n] /\ Items(heap', cache[n]) = Items(heap, cache[n])]_vars
  <2> SUFFICES ASSUME IInv, [Next]_vars, NEW n \in Nodes, Class[n] = "complexType", cache[n] # 0,
                      \A j \in 1..Len(stack) : stack[j].node # n
               PROVE  cache'[n] = cache[n] /\ Items(heap', cache[n]) = Items(heap, cache[n])
    OBVIOUS
  <2>1. Careful
    BY NextIInv
  <2>2. PICK d : d = cache[n]
    OBVIOUS
  <2>3. /\ d \in 1..Len(heap.desc) /\ heap.desc[d].class = "type"
        /\ heap.desc[d].items \in 1..Len(heap.arrays)
    BY <2>2, StateLemma, ComplexLemma
  <2>4. heap'.desc[d].items = heap.desc[d].items
    BY <2>1, <2>3 DEF Careful, Grown
  <2>5. ASSUME NEW i \in 1..Len(stack), Adds(stack[i].node), stack[i].desc # 0
        PROVE  heap.desc[stack[i].desc].items # heap.desc[d].items
    BY <2>2, <2>5, StateLemma DEF Owned
  <2>6. heap'.arrays[heap.desc[d].items] = heap.arrays[heap.desc[d].items]
    BY <2>1, <2>3, <2>5, Zenon DEF Careful
  <2> QED
    BY <2>1, <2>2, <2>4, <2>6 DEF Careful, Items
<1> QED
  BY <1>1, Inductive, PTL DEF Spec, TypeIsFinal

---------------------------------------------------------------------------
(* What the schema says: recursive functions.                              *)

\* Induction up to a number.
LEMMA InductionLemma ==
  ASSUME NEW N \in Nat, NEW S, 0 \in S, \A i \in 1..N : i - 1 \in S => i \in S
  PROVE  \A i \in 0..N : i \in S
<1> DEFINE T == {i \in 0..N : i \notin S}
<1> SUFFICES ASSUME T # {}
             PROVE  FALSE
  OBVIOUS
<1>1. PICK m \in T : \A k \in T : m <= k
  <2>1. T \subseteq Nat
    OBVIOUS
  <2> QED
    BY <2>1, LeastLemma, Zenon
<1>2. m \in 0..N /\ m \notin S /\ m # 0
  OBVIOUS
<1>3. m \in 1..N /\ m - 1 \in 0..N /\ m - 1 < m
  BY <1>2
<1>4. m - 1 \in S
  BY <1>1, <1>3
<1> QED
  BY <1>2, <1>3, <1>4

\* Values each of which is made from the one before.
AreSteps(N, V, base, step) == N \in Nat /\ base \in V /\ step \in [1..N -> [V -> V]]

\* The values, one after the other.
Follows(g, N, V, base, step) ==
  /\ g \in [0..N -> V] /\ g[0] = base
  /\ \A i \in 1..N : g[i] = step[i][g[i - 1]]

\* A function by recursion is defined.
LEMMA RecursionLemma ==
  ASSUME NEW N, NEW V, NEW base, NEW step, AreSteps(N, V, base, step)
  PROVE  \E g : Follows(g, N, V, base, step)
<1>0. N \in Nat /\ base \in V /\ step \in [1..N -> [V -> V]]
  BY DEF AreSteps
<1> DEFINE Upto(m, g) == /\ g \in [0..m -> V] /\ g[0] = base
                         /\ \A i \in 1..m : g[i] = step[i][g[i - 1]]
           S == {m \in 0..N : \E g : Upto(m, g)}
<1>1. 0 \in S
  <2>1. Upto(0, [i \in 0..0 |-> base])
    BY <1>0
  <2>2. 0 \in 0..N
    BY <1>0
  <2> HIDE DEF Upto
  <2>3. \E g : Upto(0, g)
    BY <2>1, Zenon
  <2> QED
    BY <2>2, <2>3
<1>2. ASSUME NEW m \in 1..N, m - 1 \in S PROVE m \in S
  <2>1. PICK g : Upto(m - 1, g)
    BY <1>2
  <2> DEFINE h == [i \in 0..m |-> IF i = m THEN step[m][g[m - 1]] ELSE g[i]]
  <2>2. /\ m \in 0..N /\ m - 1 \in 0..(m - 1) /\ m # 0 /\ 0 \in 0..(m - 1) /\ 0 \in 0..m
        /\ \A i \in 0..m : i = m \/ (i \in 0..(m - 1) /\ i # m)
        /\ \A i \in 1..m : i = m \/ (i \in 1..(m - 1) /\ i # m)
        /\ \A i \in 1..m : i \in 0..m /\ i - 1 \in 0..m /\ i - 1 \in 0..(m - 1) /\ i - 1 # m
    BY <1>0
  <2>3. g \in [0..(m - 1) -> V] /\ g[0] = base /\ \A i \in 1..(m - 1) : g[i] = step[i][g[i - 1]]
    BY <2>1
  <2>4. step[m][g[m - 1]] \in V
    BY <1>0, <2>2, <2>3
  <2>5. h \in [0..m -> V]
    BY <1>0, <2>2, <2>3, <2>4
  <2>6. h[0] = base
    BY <2>2, <2>3
  <2>7. \A i \in 1..m : h[i] = step[i][h[i - 1]]
    BY <2>2, <2>3
  <2> HIDE DEF h
  <2> QED
    BY <2>2, <2>5, <2>6, <2>7
<1>3. N \in S
  <2>1. \A i \in 0..N : i \in S
    <3> HIDE DEF S
    <3> QED
      BY <1>0, <1>1, <1>2, InductionLemma, Zenon
  <2> QED
    BY <1>0, <2>1
<1> QED
  BY <1>3 DEF Follows

\* An element or attribute that a node has.
Entry == [node : Nodes, many : BOOLEAN]

\* What a schema is made of: the links are fixed.
Linking ==
  /\ link \in [Nodes -> Nodes \cup {None}]
  /\ \A n \in Nodes : Asks(n) \in Seq(Nodes)

\* One part of a node.
LEMMA PartLemma ==
  ASSUME Linking, NEW inside \in [Nodes -> Seq(Entry)], NEW class, NEW n \in Nodes,
         NEW k \in Nodes
  PROVE  Part(inside, class, n, k) \in Seq(Entry)
<1>1. Of(k) \in Nodes
  BY DescribeAssumption DEF Of, IsRef, Linking
<1>2. [node |-> Of(k), many |-> {Of(k), k, n} \cap many # {}] \in Entry
  BY <1>1 DEF Entry
<1> QED
  BY <1>2 DEF Part

\* The parts of a node, one by one.
LEMMA PartsLemma ==
  ASSUME Linking, NEW inside \in [Nodes -> Seq(Entry)], NEW class, NEW n \in Nodes
  PROVE  /\ Parts(inside, class, n, 0) = <<>>
         /\ \A i \in 1..Len(Asks(n)) :
              Parts(inside, class, n, i) =
                Parts(inside, class, n, i - 1) \o Part(inside, class, n, Asks(n)[i])
         /\ \A i \in 0..Len(Asks(n)) : Parts(inside, class, n, i) \in Seq(Entry)
<1> DEFINE N == Len(Asks(n))
           V == Seq(Entry)
           part(i) == Part(inside, class, n, Asks(n)[i])
           step == [i \in 1..N |-> [v \in V |-> v \o part(i)]]
           UpTo(g) == [i \in 0..N |-> IF i = 0 THEN <<>> ELSE g[i - 1] \o part(i)]
           upTo == CHOOSE g : g = UpTo(g)
<1>1. N \in Nat /\ \A i \in 1..N : Asks(n)[i] \in Nodes
  BY LenProperties DEF Linking
<1>2. \A i \in 1..N : part(i) \in V
  BY <1>1, PartLemma
<1>3. \A i : Parts(inside, class, n, i) = upTo[i]
  BY DEF Parts
<1>4. <<>> \in V /\ \A v \in V, w \in V : v \o w \in V
  BY ConcatProperties
<1>5. \A i \in 1..N : i \in 0..N /\ i - 1 \in 0..N /\ i # 0
  BY <1>1
<1> HIDE DEF N, V, part
<1>6. step \in [1..N -> [V -> V]]
  BY <1>2, <1>4
<1>7. PICK g : g \in [0..N -> V] /\ g[0] = <<>> /\ \A i \in 1..N : g[i] = step[i][g[i - 1]]
  <2> HIDE DEF step
  <2>1. AreSteps(N, V, <<>>, step)
    BY <1>1, <1>4, <1>6 DEF AreSteps
  <2>2. \E g : Follows(g, N, V, <<>>, step)
    BY <2>1, RecursionLemma
  <2> QED
    BY <2>2, Zenon DEF Follows
<1>8. \A i \in 1..N : g[i] = g[i - 1] \o part(i)
  BY <1>5, <1>7, Zenon
<1>9. g = UpTo(g)
  <2>1. \A i \in 0..N : i = 0 \/ i \in 1..N
    BY <1>1
  <2>2. \A i \in 0..N : g[i] = IF i = 0 THEN <<>> ELSE g[i - 1] \o part(i)
    BY <1>5, <1>7, <1>8, <2>1
  <2> QED
    BY <1>7, <2>2
<1>10. upTo = UpTo(upTo)
  <2> HIDE DEF UpTo
  <2> QED
    BY <1>9
<1> HIDE DEF upTo, step
<1>11. 0 \in 0..N
  BY <1>1
<1>12. upTo[0] = <<>> /\ \A i \in 1..N : upTo[i] = upTo[i - 1] \o part(i)
  BY <1>5, <1>10, <1>11, Zenon
<1> HIDE DEF UpTo
<1>13. \A i \in 0..N : upTo[i] \in V
  <2> DEFINE S == {i \in 0..N : upTo[i] \in V}
  <2>1. 0 \in S /\ \A i \in 1..N : i - 1 \in S => i \in S
    BY <1>2, <1>4, <1>5, <1>11, <1>12, Zenon
  <2> HIDE DEF S
  <2>2. \A i \in 0..N : i \in S
    BY <1>1, <2>1, InductionLemma, Zenon
  <2> QED
    BY <2>2 DEF S
<1> QED
  BY <1>3, <1>12, <1>13, Zenon DEF N, V, part

\* The parts depend on what is inside of the nodes that are no leaves.
LEMMA SamePartsLemma ==
  ASSUME Linking, NEW inside \in [Nodes -> Seq(Entry)], NEW other \in [Nodes -> Seq(Entry)],
         NEW class, NEW n \in Nodes,
         \A i \in 1..Len(Asks(n)) : ~IsLeaf(Asks(n)[i]) => inside[Asks(n)[i]] = other[Asks(n)[i]]
  PROVE  \A i \in 0..Len(Asks(n)) : Parts(inside, class, n, i) = Parts(other, class, n, i)
<1> DEFINE N == Len(Asks(n))
           S == {i \in 0..N : Parts(inside, class, n, i) = Parts(other, class, n, i)}
<1>1. N \in Nat /\ \A i \in 1..N : i \in 0..N /\ i - 1 \in 0..N
  BY LenProperties DEF Linking
<1>2. 0 \in S
  <2>1. Parts(inside, class, n, 0) = <<>> /\ Parts(other, class, n, 0) = <<>>
    BY PartsLemma, Zenon
  <2>2. 0 \in 0..N
    BY <1>1
  <2> QED
    BY <2>1, <2>2, Zenon
<1>3. ASSUME NEW i \in 1..N, i - 1 \in S PROVE i \in S
  <2>1. Part(inside, class, n, Asks(n)[i]) = Part(other, class, n, Asks(n)[i])
    BY DEF Part
  <2>2. /\ Parts(inside, class, n, i) = Parts(inside, class, n, i - 1) \o Part(inside, class, n, Asks(n)[i])
        /\ Parts(other, class, n, i) = Parts(other, class, n, i - 1) \o Part(other, class, n, Asks(n)[i])
    BY PartsLemma, Zenon
  <2>3. Parts(inside, class, n, i - 1) = Parts(other, class, n, i - 1)
    BY <1>3
  <2> QED
    BY <1>1, <2>1, <2>2, <2>3, Zenon
<1> HIDE DEF S
<1>4. \A i \in 0..N : i \in S
  BY <1>1, <1>2, <1>3, InductionLemma, Zenon
<1> QED
  BY <1>4 DEF S

\* How many nodes there are.
Size == Cardinality(Nodes)

\* The nodes are finitely many.
LEMMA SizeLemma == IsFiniteSet(Nodes) /\ Size \in Nat /\ 0 \in 0..Size /\ Size \in 0..Size
<1>1. IsFiniteSet(Nodes)
  BY DescribeAssumption
<1>2. Size \in Nat
  BY <1>1, FS_CardinalityType DEF Size
<1> QED
  BY <1>1, <1>2

\* What is contained in so many nodes within each other.
IsLevels(w, class) ==
  /\ w \in [0..Size -> [Nodes -> Seq(Entry)]]
  /\ \A s \in 1..Size : w[s] = AllParts(w[s - 1], class)
  /\ Contents(class) = w[Size]

\* The contents are computed level by level.
LEMMA LevelsLemma ==
  ASSUME Linking, NEW class
  PROVE  \E w : IsLevels(w, class)
<1> DEFINE V == [Nodes -> Seq(Entry)]
           empty == [n \in Nodes |-> <<>>]
           step == [s \in 1..Size |-> [v \in V |-> AllParts(v, class)]]
           UpTo(g) == [s \in 0..Size |-> IF s = 0 THEN empty ELSE AllParts(g[s - 1], class)]
           upTo == CHOOSE g : g = UpTo(g)
<1>1. Size \in Nat /\ Size \in 0..Size /\ 0 \in 0..Size
  BY SizeLemma
<1>2. Contents(class) = upTo[Size]
  BY DEF Contents, Size
<1>3. empty \in V
  <2>1. <<>> \in Seq(Entry)
    OBVIOUS
  <2> QED
    BY <2>1
<1>4. \A v \in V : AllParts(v, class) \in V
  <2>1. ASSUME NEW v \in V PROVE AllParts(v, class) \in V
    <3>1. \A n \in Nodes : Len(Asks(n)) \in 0..Len(Asks(n))
      BY LenProperties DEF Linking
    <3>2. \A n \in Nodes : Parts(v, class, n, Len(Asks(n))) \in Seq(Entry)
      BY <3>1, PartsLemma, Zenon
    <3> QED
      BY <3>2 DEF AllParts
  <2> QED
    BY <2>1
<1>5. \A s \in 1..Size : s \in 0..Size /\ s - 1 \in 0..Size /\ s # 0
  BY <1>1
<1> HIDE DEF V, empty
<1>6. step \in [1..Size -> [V -> V]]
  BY <1>4
<1>7. PICK g : g \in [0..Size -> V] /\ g[0] = empty /\ \A s \in 1..Size : g[s] = step[s][g[s - 1]]
  <2> HIDE DEF step
  <2>1. AreSteps(Size, V, empty, step)
    BY <1>1, <1>3, <1>6 DEF AreSteps
  <2>2. \E g : Follows(g, Size, V, empty, step)
    BY <2>1, RecursionLemma
  <2> QED
    BY <2>2, Zenon DEF Follows
<1>8. \A s \in 1..Size : g[s] = AllParts(g[s - 1], class)
  BY <1>5, <1>7, Zenon
<1>9. g = UpTo(g)
  <2>1. \A s \in 0..Size : s = 0 \/ s \in 1..Size
    BY <1>1
  <2>2. \A s \in 0..Size : g[s] = IF s = 0 THEN empty ELSE AllParts(g[s - 1], class)
    BY <1>5, <1>7, <1>8, <2>1
  <2> QED
    BY <1>7, <2>2
<1>10. upTo = UpTo(upTo)
  <2> HIDE DEF UpTo
  <2> QED
    BY <1>9
<1> HIDE DEF upTo, step
<1>12. upTo[0] = empty /\ \A s \in 1..Size : upTo[s] = AllParts(upTo[s - 1], class)
  BY <1>1, <1>5, <1>10
<1>13. DOMAIN upTo = 0..Size /\ upTo = [s \in 0..Size |-> upTo[s]]
  BY <1>10
<1> HIDE DEF UpTo
<1>14. \A s \in 0..Size : upTo[s] \in V
  <2> DEFINE S == {s \in 0..Size : upTo[s] \in V}
  <2>1. 0 \in S /\ \A s \in 1..Size : s - 1 \in S => s \in S
    BY <1>1, <1>3, <1>4, <1>5, <1>12
  <2> HIDE DEF S
  <2>2. \A s \in 0..Size : s \in S
    BY <1>1, <2>1, InductionLemma
  <2> QED
    BY <2>2 DEF S
<1>15. upTo \in [0..Size -> V]
  BY <1>13, <1>14
<1>16. IsLevels(upTo, class)
  BY <1>2, <1>12, <1>15 DEF IsLevels, V
<1> QED
  BY <1>16

\* A set of nodes that has all that its members ask for.
Closed(S) == \A n \in S : \A i \in 1..Len(Asks(n)) : Asks(n)[i] \in S

\* What is described with a node is closed.
LEMMA DescribedLemma ==
  ASSUME Linking, NEW n \in Nodes
  PROVE  Described(n) \subseteq Nodes /\ n \in Described(n) /\ Closed(Described(n))
<1> DEFINE V == SUBSET Nodes
           Next1(S) == S \cup UNION {ToSet(Asks(m)) : m \in S}
           step == [s \in 1..Size |-> [v \in V |-> Next1(v)]]
           UpTo(g) == [s \in 0..Size |-> IF s = 0 THEN {n} ELSE Next1(g[s - 1])]
           upTo == CHOOSE g : g = UpTo(g)
<1>1. Size \in Nat /\ Size \in 0..Size /\ 0 \in 0..Size /\ IsFiniteSet(Nodes)
  BY SizeLemma
<1>2. Described(n) = upTo[Size]
  BY DEF Described, Size
<1>3. {n} \in V
  OBVIOUS
<1>4. \A m \in Nodes : \A x : x \in ToSet(Asks(m)) <=> \E i \in 1..Len(Asks(m)) : x = Asks(m)[i]
  <2>1. \A m \in Nodes : DOMAIN Asks(m) = 1..Len(Asks(m))
    BY LenProperties DEF Linking
  <2> QED
    BY <2>1 DEF ToSet
<1>5. \A v \in V : Next1(v) \in V /\ v \subseteq Next1(v)
  <2>1. \A m \in Nodes : ToSet(Asks(m)) \subseteq Nodes
    <3>1. \A m \in Nodes : \A i \in 1..Len(Asks(m)) : Asks(m)[i] \in Nodes
      BY DEF Linking
    <3> QED
      BY <1>4, <3>1
  <2> QED
    BY <2>1
<1>6. \A v \in V : Closed(v) <=> Next1(v) = v
  <2>1. ASSUME NEW v \in V, Closed(v) PROVE Next1(v) = v
    BY <1>4, <2>1 DEF Closed
  <2>2. ASSUME NEW v \in V, Next1(v) = v PROVE Closed(v)
    <3>1. ASSUME NEW m \in v, NEW i \in 1..Len(Asks(m)) PROVE Asks(m)[i] \in v
      <4>1. Asks(m)[i] \in ToSet(Asks(m))
        BY <1>4
      <4>2. Asks(m)[i] \in Next1(v)
        BY <4>1
      <4> HIDE DEF Next1
      <4> QED
        BY <2>2, <4>2
    <3> QED
      BY <3>1 DEF Closed
  <2> QED
    BY <2>1, <2>2
<1>7. \A s \in 1..Size : s \in 0..Size /\ s - 1 \in 0..Size /\ s # 0
  BY <1>1
<1> HIDE DEF V, Next1
<1>8. step \in [1..Size -> [V -> V]]
  BY <1>5
<1>9. PICK g : g \in [0..Size -> V] /\ g[0] = {n} /\ \A s \in 1..Size : g[s] = step[s][g[s - 1]]
  <2> HIDE DEF step
  <2>1. AreSteps(Size, V, {n}, step)
    BY <1>1, <1>3, <1>8 DEF AreSteps
  <2>2. \E g : Follows(g, Size, V, {n}, step)
    BY <2>1, RecursionLemma
  <2> QED
    BY <2>2, Zenon DEF Follows
<1>10. \A s \in 1..Size : g[s] = Next1(g[s - 1])
  BY <1>7, <1>9, Zenon
<1>11. g = UpTo(g)
  <2>1. \A s \in 0..Size : s = 0 \/ s \in 1..Size
    BY <1>1
  <2>2. \A s \in 0..Size : g[s] = IF s = 0 THEN {n} ELSE Next1(g[s - 1])
    BY <1>7, <1>9, <1>10, <2>1
  <2> QED
    BY <1>9, <2>2
<1>12. upTo = UpTo(upTo)
  <2> HIDE DEF UpTo
  <2> QED
    BY <1>11
<1> HIDE DEF upTo, step
<1>13. upTo[0] = {n} /\ \A s \in 1..Size : upTo[s] = Next1(upTo[s - 1])
  BY <1>1, <1>7, <1>12, Zenon
<1> HIDE DEF UpTo
<1> DEFINE S == {s \in 0..Size : /\ upTo[s] \in V /\ n \in upTo[s]
                                 /\ Closed(upTo[s]) \/ Cardinality(upTo[s]) > s}
<1>14. 0 \in S
  <2>1. Cardinality({n}) = 1
    BY FS_Singleton
  <2> QED
    BY <1>1, <1>3, <1>13, <2>1
<1>15. ASSUME NEW s \in 1..Size, s - 1 \in S PROVE s \in S
  <2> DEFINE A == upTo[s - 1]
             B == upTo[s]
  <2>1. A \in V /\ n \in A /\ (Closed(A) \/ Cardinality(A) > s - 1)
    BY <1>15
  <2>2. B = Next1(A) /\ s \in 0..Size /\ s \in Nat
    BY <1>1, <1>7, <1>13
  <2> HIDE DEF A, B
  <2>3. B \in V /\ A \subseteq B
    BY <1>5, <2>1, <2>2
  <2>4. Closed(B) \/ Cardinality(B) > s
    <3>1. CASE Closed(A)
      BY <1>6, <2>1, <2>2, <3>1
    <3>2. CASE ~Closed(A)
      <4>1. A # B
        BY <1>6, <2>1, <2>2, <3>2
      <4>2. IsFiniteSet(B)
        BY <1>1, <2>3, FS_Subset DEF V
      <4>3. Cardinality(A) <= Cardinality(B) /\ Cardinality(A) # Cardinality(B)
        <5>1. A \in SUBSET B
          BY <2>3
        <5> QED
          BY <4>1, <4>2, <5>1, FS_Subset
      <4>4. Cardinality(A) \in Nat /\ Cardinality(B) \in Nat
        BY <2>3, <4>2, FS_Subset, FS_CardinalityType
      <4> QED
        BY <2>1, <2>2, <3>2, <4>3, <4>4
    <3> QED
      BY <3>1, <3>2
  <2> QED
    BY <2>1, <2>2, <2>3, <2>4 DEF B
<1>16. Size \in S
  <2> HIDE DEF S
  <2>1. \A s \in 0..Size : s \in S
    BY <1>1, <1>14, <1>15, InductionLemma
  <2> QED
    BY <1>1, <2>1
<1>17. ~(Cardinality(upTo[Size]) > Size)
  <2>1. upTo[Size] \subseteq Nodes
    BY <1>16 DEF V
  <2>2. Cardinality(upTo[Size]) <= Size
    BY <1>1, <2>1, FS_Subset DEF Size
  <2>3. Cardinality(upTo[Size]) \in Nat
    BY <1>1, <2>1, FS_Subset, FS_CardinalityType
  <2> QED
    BY <1>1, <2>2, <2>3
<1> QED
  BY <1>2, <1>16, <1>17 DEF V

---------------------------------------------------------------------------
(* What is within each other.                                              *)

\* A typed state has links.
LEMMA LinkingLemma ==
  ASSUME Typing
  PROVE  Linking
<1>1. \A n \in Nodes : Asks(n) \in Seq(Nodes)
  BY AsksLemma
<1> QED
  BY <1>1 DEF Linking, Typing, TypeOK

\* What a node asks for is what it is linked with, at the top of a schema, or a
\* child of it.
LEMMA AskLemma ==
  ASSUME Typing, NEW n \in Nodes, NEW i \in 1..Len(Asks(n)), NEW k, k = Asks(n)[i]
  PROVE  /\ k \in Nodes
         /\ \/ k = link[n] /\ link[n] # None /\ Depth[k] = 0
            \/ /\ Depth[k] = Depth[n] + 1 /\ ~IsRef(n)
               /\ \E j \in 1..Len(Kids[n]) : k = Kids[n][j]
         /\ Depth[n] \in Nat /\ Depth[k] \in Nat
<1>0. /\ Kids[n] \in Seq(Nodes) /\ Class[n] \in Classes /\ Asks(n) \in Seq(Nodes)
      /\ Depth \in [Nodes -> Nat] /\ link \in Links
  BY DescribeAssumption, AsksLemma DEF Typing
<1>1. k \in Nodes /\ Depth[n] \in Nat /\ Depth[k] \in Nat
  BY <1>0
<1>2. link[n] # None => Depth[link[n]] = 0
  BY <1>0, DescribeAssumption
<1>3. \A j \in 1..Len(Kids[n]) : Depth[Kids[n][j]] = Depth[n] + 1
  BY DescribeAssumption, Zenon
<1>4. CASE Class[n] = "element"
  <2>1. CASE link[n] = None
    <3>1. Asks(n) = Anonymous(n) /\ ~IsRef(n)
      BY <1>4, <2>1 DEF Asks, IsRef
    <3> DEFINE types == {j \in 1..Len(Kids[n]) : Class[Kids[n][j]] = "complexType"}
    <3>2. types # {}
      <4>1. Anonymous(n) # <<>>
        BY <1>0, <3>1
      <4> QED
        BY <4>1 DEF Anonymous
    <3>3. types \subseteq Nat
      BY <1>0
    <3>4. \E j \in types : \A l \in types : j <= l
      BY <3>2, <3>3, LeastLemma, Zenon
    <3>5. PICK j \in types : j = CHOOSE l \in types : \A m \in types : l <= m
      BY <3>4
    <3>6. Anonymous(n) = <<Kids[n][j]>>
      BY <3>2, <3>5, Zenon DEF Anonymous
    <3>7. k = Kids[n][j] /\ j \in 1..Len(Kids[n])
      BY <3>1, <3>5, <3>6
    <3> QED
      BY <1>1, <1>3, <3>1, <3>7
  <2>2. CASE link[n] # None
    <3>1. Asks(n) = <<link[n]>>
      BY <1>0, <1>4, <2>2 DEF Asks
    <3> QED
      BY <1>1, <1>2, <2>2, <3>1
  <2> QED
    BY <2>1, <2>2
<1>5. CASE Class[n] \in {"extension", "restriction"}
  <2>1. Asks(n) = (IF link[n] = None THEN <<>> ELSE <<link[n]>>) \o Kids[n]
    BY <1>5, Zenon DEF Asks
  <2>2. ~IsRef(n)
    BY <1>5, LinkLemma DEF IsRef
  <2>3. CASE link[n] = None
    <3>1. Asks(n) = Kids[n]
      BY <1>0, <2>1, <2>3
    <3> QED
      BY <1>1, <1>3, <2>2, <3>1
  <2>4. CASE link[n] # None
    <3>1. link[n] \in Nodes /\ <<link[n]>> \in Seq(Nodes) /\ Len(<<link[n]>>) = 1
      BY <2>4, LinkLemma
    <3>2. Asks(n) = <<link[n]>> \o Kids[n]
      BY <2>1, <2>4
    <3>3. CASE i = 1
      BY <1>0, <1>1, <1>2, <2>4, <3>1, <3>2, <3>3
    <3>4. CASE i # 1
      <4>1. i - 1 \in 1..Len(Kids[n]) /\ Asks(n)[i] = Kids[n][i - 1]
        BY <1>0, <3>1, <3>2, <3>4
      <4> QED
        BY <1>1, <1>3, <2>2, <4>1
    <3> QED
      BY <3>3, <3>4
  <2> QED
    BY <2>3, <2>4
<1>6. CASE Class[n] \in {"attribute", "group"} /\ IsRef(n)
  <2>1. Asks(n) = <<link[n]>> /\ link[n] # None
    BY <1>6 DEF Asks, IsRef
  <2> QED
    BY <1>1, <1>2, <2>1
<1>7. CASE Class[n] = "simpleType" \/ (Class[n] = "attribute" /\ ~IsRef(n))
  <2>1. Asks(n) = <<>>
    BY <1>7 DEF Asks
  <2> QED
    BY <1>0, <2>1
<1>8. CASE Class[n] \in {"complexType", "content", "particle"} \/ (Class[n] = "group" /\ ~IsRef(n))
  <2>1. Asks(n) = Kids[n]
    BY <1>8 DEF Asks
  <2>2. ~IsRef(n)
    BY <1>8, LinkLemma DEF IsRef
  <2> QED
    BY <1>1, <1>3, <2>1, <2>2
<1> QED
  BY <1>0, <1>4, <1>5, <1>6, <1>7, <1>8 DEF Classes

\* What does not stand at the top is a child.
LEMMA ChildLemma ==
  ASSUME Typing, NEW n \in Nodes, NEW i \in 1..Len(Asks(n)), Depth[Asks(n)[i]] # 0
  PROVE  \E j \in 1..Len(Kids[n]) : Asks(n)[i] = Kids[n][j]
<1>1. PICK k : k = Asks(n)[i]
  OBVIOUS
<1>2. Depth[k] # 0
  BY <1>1
<1>3. \/ k = link[n] /\ link[n] # None /\ Depth[k] = 0
      \/ /\ Depth[k] = Depth[n] + 1 /\ ~IsRef(n)
         /\ \E j \in 1..Len(Kids[n]) : k = Kids[n][j]
  BY <1>1, AskLemma
<1> QED
  BY <1>1, <1>2, <1>3, Zenon

\* A child has one parent.
LEMMA ParentLemma ==
  ASSUME Typing, NEW n \in Nodes, NEW m \in Nodes, NEW i \in 1..Len(Asks(n)),
         NEW j \in 1..Len(Asks(m)), Asks(n)[i] = Asks(m)[j], Depth[Asks(n)[i]] # 0
  PROVE  n = m
<1>1. PICK a \in 1..Len(Kids[n]) : Asks(n)[i] = Kids[n][a]
  BY ChildLemma, Zenon
<1>2. PICK b \in 1..Len(Kids[m]) : Asks(m)[j] = Kids[m][b]
  <2>1. Depth[Asks(m)[j]] # 0
    OBVIOUS
  <2> QED
    BY <2>1, ChildLemma, Zenon
<1>3. \A x, y \in Nodes : \A c \in 1..Len(Kids[x]), d \in 1..Len(Kids[y]) :
        Kids[x][c] = Kids[y][d] => x = y
  <2>1. \A x, y \in Nodes : \A c \in 1..Len(Kids[x]), d \in 1..Len(Kids[y]) :
          /\ Depth[Kids[x][c]] = Depth[x] + 1
          /\ Kids[x][c] = Kids[y][d] => x = y
    BY DescribeAssumption, Zenon
  <2> QED
    BY <2>1, Zenon
<1> QED
  BY <1>1, <1>2, <1>3, Zenon

\* What stands at the top stands for itself, and so does what a ref stands for.
LEMMA OfLemma ==
  ASSUME Typing, NEW n \in Nodes
  PROVE  /\ Of(n) \in Nodes /\ Class[Of(n)] = Class[n] /\ ~IsRef(Of(n)) /\ Of(Of(n)) = Of(n)
         /\ Depth[n] = 0 => ~IsRef(n) /\ Of(n) = n
         /\ IsRef(n) => Of(n) = link[n] /\ Depth[link[n]] = 0
<1>1. link \in Links /\ link \in [Nodes -> Nodes \cup {None}]
  BY DEF Typing, TypeOK
<1>2. \A m \in Nodes : link[m] # None => Depth[link[m]] = 0 /\ (Depth[m] = 0 => Class[link[m]] # Class[m])
  BY <1>1, DescribeAssumption
<1>3. \A m \in Nodes : Depth[m] = 0 => ~IsRef(m)
  BY <1>2 DEF IsRef
<1>4. IsRef(n) => link[n] \in Nodes /\ Class[link[n]] = Class[n] /\ Depth[link[n]] = 0
  BY <1>1, <1>2 DEF IsRef
<1> QED
  BY <1>3, <1>4 DEF Of

\* The nodes that are part of a node, but for elements and attributes.
Parted(n) == {k \in Nodes : ~IsLeaf(k) /\ \E i \in 1..Len(Asks(n)) : k = Asks(n)[i]}

\* What is within a node.
Inner(n) ==
  {m \in Nodes : \A S \in SUBSET Nodes :
     Parted(n) \subseteq S /\ (\A k \in S : Parted(k) \subseteq S) => m \in S}

\* What is within a node is closed, and least so.
LEMMA InnerLemma ==
  ASSUME NEW n \in Nodes
  PROVE  /\ Inner(n) \subseteq Nodes /\ Parted(n) \subseteq Inner(n)
         /\ \A k \in Inner(n) : Parted(k) \subseteq Inner(n)
         /\ \A S \in SUBSET Nodes :
              Parted(n) \subseteq S /\ (\A k \in S : Parted(k) \subseteq S) => Inner(n) \subseteq S
BY DEF Inner, Parted

\* What is within something that is within a node is within it too.
LEMMA WithinLemma ==
  ASSUME NEW n \in Nodes, NEW m \in Inner(n)
  PROVE  /\ m \in Nodes /\ ~IsLeaf(m)
         /\ Inner(m) \subseteq Inner(n)
         /\ \E p \in Inner(n) \cup {n} : m \in Parted(p)
<1>1. m \in Nodes /\ Inner(n) \subseteq Nodes
  BY InnerLemma
<1>2. Inner(m) \subseteq Inner(n)
  BY <1>1, InnerLemma
<1>3. \E p \in Inner(n) \cup {n} : m \in Parted(p)
  <2> SUFFICES ASSUME \A p \in Inner(n) \cup {n} : m \notin Parted(p)
               PROVE  FALSE
    OBVIOUS
  <2> DEFINE S == Inner(n) \ {m}
  <2>1. Parted(n) \subseteq S /\ \A k \in S : Parted(k) \subseteq S
    BY InnerLemma
  <2>2. S \in SUBSET Nodes
    BY <1>1
  <2>3. Inner(n) \subseteq S
    BY <2>1, <2>2, InnerLemma, Zenon
  <2> QED
    BY <2>3
<1>4. ~IsLeaf(m)
  BY <1>3 DEF Parted
<1> QED
  BY <1>1, <1>2, <1>3, <1>4

\* What is within a node is described with it.
LEMMA InnerIsDescribed ==
  ASSUME Typing, NEW n \in Nodes
  PROVE  Inner(n) \subseteq Described(n)
<1>1. Described(n) \subseteq Nodes /\ n \in Described(n) /\ Closed(Described(n))
  BY LinkingLemma, DescribedLemma
<1>2. \A k \in Described(n) : Parted(k) \subseteq Described(n)
  BY <1>1 DEF Closed, Parted
<1> QED
  BY <1>1, <1>2, InnerLemma

\* No node is within itself: it would be a child of what is deeper than itself,
\* or be linked with what leads back to it.
LEMMA AcyclicLemma ==
  ASSUME Typing, WellFounded, NEW n \in Nodes
  PROVE  n \notin Inner(n)
<1> SUFFICES ASSUME n \in Inner(n)
             PROVE  FALSE
  OBVIOUS
<1> DEFINE K == {m \in Inner(n) : n \in Inner(m)}
           T == {Depth[m] : m \in K}
<1>1. n \in K /\ K \subseteq Nodes
  BY InnerLemma
<1>2. T \subseteq Nat /\ T # {}
  BY <1>1, DescribeAssumption
<1>3. PICK t \in T : \A s \in T : t <= s
  BY <1>2, LeastLemma, Zenon
<1>4. PICK m \in K : \A k \in K : Depth[m] <= Depth[k]
  BY <1>3
<1>5. PICK p \in Inner(n) \cup {n} : m \in Parted(p)
  BY <1>4, WithinLemma
<1>6. p \in Inner(n) /\ p \in Nodes /\ ~IsLeaf(p)
  BY <1>1, <1>5, WithinLemma
<1>7. m \in Inner(p) /\ Inner(m) \subseteq Inner(p)
  BY <1>5, <1>6, InnerLemma, WithinLemma
<1>8. p \in K
  BY <1>4, <1>6, <1>7
<1>9. PICK i \in 1..Len(Asks(p)) : m = Asks(p)[i]
  BY <1>5 DEF Parted
<1>10. m = link[p] /\ link[p] # None
  <2>1. Depth[m] <= Depth[p]
    BY <1>4, <1>8
  <2> QED
    BY <1>6, <1>9, <2>1, AskLemma
<1>11. p \notin Described(m)
  BY <1>6, <1>10 DEF WellFounded, IsLeaf
<1>12. p \in Inner(m)
  <2>1. n \in Inner(m)
    BY <1>4
  <2>2. m \in Nodes
    BY <1>1, <1>4
  <2>3. Inner(n) \subseteq Inner(m)
    BY <2>1, <2>2, WithinLemma
  <2> QED
    BY <1>6, <2>3
<1> QED
  BY <1>1, <1>4, <1>11, <1>12, InnerIsDescribed

\* What a node contains is what its parts contain.
LEMMA ContentsLemma ==
  ASSUME Typing, WellFounded, NEW class
  PROVE  /\ Contents(class) \in [Nodes -> Seq(Entry)]
         /\ \A n \in Nodes :
              Contents(class)[n] = Parts(Contents(class), class, n, Len(Asks(n)))
<1>1. Linking /\ Size \in Nat /\ IsFiniteSet(Nodes) /\ Size \in 0..Size
  BY LinkingLemma, SizeLemma
<1>2. PICK w : IsLevels(w, class)
  BY <1>1, LevelsLemma
<1> DEFINE Steady(s) == \A n \in Nodes : Cardinality(Inner(n)) < s => AllParts(w[s], class)[n] = w[s][n]
           S == {s \in 0..Size : Steady(s)}
<1>3. \A n \in Nodes : IsFiniteSet(Inner(n)) /\ Cardinality(Inner(n)) \in Nat
  BY <1>1, InnerLemma, FS_Subset, FS_CardinalityType
<1>4. 0 \in S
  BY <1>1, <1>3
<1>5. ASSUME NEW s \in 1..Size, s - 1 \in S PROVE s \in S
  <2>1. s \in 0..Size /\ s - 1 \in 0..Size /\ Steady(s - 1) /\ s \in Nat
    BY <1>1, <1>5
  <2>2. w[s] = AllParts(w[s - 1], class) /\ w[s] \in [Nodes -> Seq(Entry)]
        /\ w[s - 1] \in [Nodes -> Seq(Entry)]
    BY <1>2, <2>1 DEF IsLevels
  <2>3. ASSUME NEW n \in Nodes, Cardinality(Inner(n)) < s PROVE AllParts(w[s], class)[n] = w[s][n]
    <3>1. ASSUME NEW i \in 1..Len(Asks(n)), ~IsLeaf(Asks(n)[i])
          PROVE  w[s][Asks(n)[i]] = w[s - 1][Asks(n)[i]]
      <4>1. PICK k \in Nodes : k = Asks(n)[i]
        BY AskLemma
      <4>2. k \in Parted(n) /\ k \in Inner(n)
        BY <3>1, <4>1, InnerLemma DEF Parted
      <4>3. Inner(k) \subseteq Inner(n) /\ k \notin Inner(k)
        BY <4>2, WithinLemma, AcyclicLemma
      <4>4. Cardinality(Inner(k)) <= Cardinality(Inner(n)) /\ Cardinality(Inner(k)) # Cardinality(Inner(n))
        BY <1>3, <4>2, <4>3, FS_Subset
      <4>5. Cardinality(Inner(k)) < s - 1
        BY <1>3, <2>1, <2>3, <4>4
      <4> QED
        BY <2>1, <2>2, <4>1, <4>5
    <3>2. Parts(w[s], class, n, Len(Asks(n))) = Parts(w[s - 1], class, n, Len(Asks(n)))
      <4>1. Len(Asks(n)) \in 0..Len(Asks(n))
        BY <1>1, LenProperties DEF Linking
      <4> QED
        BY <1>1, <2>2, <3>1, <4>1, SamePartsLemma, Zenon
    <3> QED
      BY <2>2, <3>2 DEF AllParts
  <2> QED
    BY <2>1, <2>3
<1>6. Steady(Size)
  <2> HIDE DEF S
  <2>1. \A s \in 0..Size : s \in S
    BY <1>1, <1>4, <1>5, InductionLemma
  <2> QED
    BY <1>1, <2>1 DEF S
<1>7. w[Size] = Contents(class) /\ w[Size] \in [Nodes -> Seq(Entry)]
  BY <1>1, <1>2 DEF IsLevels
<1>8. ASSUME NEW n \in Nodes PROVE Cardinality(Inner(n)) < Size
  <2>1. Inner(n) \in SUBSET Nodes /\ Inner(n) # Nodes
    BY InnerLemma, AcyclicLemma
  <2>2. Cardinality(Inner(n)) <= Size /\ Cardinality(Inner(n)) # Size
    BY <1>1, <2>1, FS_Subset DEF Size
  <2> QED
    BY <1>1, <1>3, <2>2
<1>9. \A n \in Nodes : AllParts(Contents(class), class)[n] = Contents(class)[n]
  BY <1>6, <1>7, <1>8
<1> QED
  BY <1>7, <1>9 DEF AllParts

---------------------------------------------------------------------------
(* The second invariant: descriptors match the schema.                     *)

TypeDescriptors(h) == {d \in 1..Len(h.desc) : h.desc[d].class = "type"}

\* What the array a holds of a class.
Held(h, a, class) ==
  Shown(h, IF class = "element" THEN h.arrays[a].elements ELSE h.arrays[a].attributes)

Kinds == {"element", "attribute"}

OnStack(calls, n) == \E i \in 1..Len(calls) : calls[i].node = n

\* A call that adds to d has not returned.
Running(calls, d) ==
  \E i \in 1..Len(calls) : Adds(calls[i].node) /\ calls[i].desc = d

\* A call that is to give the element descriptor d its type has not done so.
Pending(calls, d) ==
  \E i \in 1..Len(calls) :
    /\ Class[calls[i].node] = "element" /\ ~IsRef(calls[i].node)
    /\ calls[i].desc = d /\ calls[i].at < Len(Asks(calls[i].node))

\* No descriptor of a type has the arrays of another one.
Alone(h) ==
  \A d, e \in TypeDescriptors(h) : h.desc[d].items = h.desc[e].items => d = e

\* No descriptor of a type has the arrays a.
Free(h, a) == \A e \in TypeDescriptors(h) : h.desc[e].items # a

\* A type has what its node contains, once its call is over.
Complete(h, d) ==
  \A class \in Kinds : Held(h, h.desc[d].items, class) = Contents(class)[h.desc[d].node]

Completes(h, calls) ==
  \A d \in TypeDescriptors(h) : ~Running(calls, d) => Complete(h, d)

Unlinked(h, d) ==
  /\ Free(h, h.desc[d].items)
  /\ h.arrays[h.desc[d].items] = [elements |-> <<>>, attributes |-> <<>>]

\* An element has the arrays of its type, or some of its own that hold at least
\* as much.
TypesOf(known, n, h, a) ==
  Asks(n) # <<>> /\ known[Asks(n)[1]] # 0 /\ a = h.desc[known[Asks(n)[1]]].items

HasOwn(h, n, a) ==
  /\ Free(h, a)
  /\ IsPrefix(Contents("element")[n], Held(h, a, "element"))
  /\ Held(h, a, "attribute") = Contents("attribute")[n]

Linked(h, known, d) ==
  \/ TypesOf(known, h.desc[d].node, h, h.desc[d].items)
  \/ HasOwn(h, h.desc[d].node, h.desc[d].items)

IsElement(h, d) == h.desc[d].class = "element" /\ ~IsRef(h.desc[d].node)

ElementOK(h, known, calls, d) ==
  (Pending(calls, d) /\ Unlinked(h, d)) \/ Linked(h, known, d)

Elements(h, known, calls) ==
  \A d \in 1..Len(h.desc) :
    IsElement(h, d) => Class[h.desc[d].node] = "element" /\ ElementOK(h, known, calls, d)

\* The descriptor that n gets when it is done.
Labelled(h, n, d) ==
  /\ h.desc[d].node = Of(n)
  /\ IsLeaf(n) => h.desc[d].many = ({n, Of(n)} \cap many # {})

Labels(h, known, calls) ==
  \A n \in Nodes : known[n] # 0 /\ ~OnStack(calls, n) => Labelled(h, n, known[n])

\* A call whose descriptor has what its node was given so far.
Fills(h, f) ==
  Adds(f.node) /\ f.desc # 0 =>
    /\ h.desc[f.desc].node = f.node
    /\ \A class \in Kinds :
         Held(h, h.desc[f.desc].items, class) = Parts(Contents(class), class, f.node, f.at)

\* A call that adds nothing to its descriptor.
Names(h, calls, f) ==
  ~Adds(f.node) /\ (IsRef(f.node) => f.at # 0) =>
    /\ f.desc # 0 => Labelled(h, f.node, f.desc) /\ ~Running(calls, f.desc)
    /\ f.desc = 0 => \A class \in Kinds : Contents(class)[f.node] = <<>>

Calls(h, calls) == \A i \in 1..Len(calls) : Fills(h, calls[i]) /\ Names(h, calls, calls[i])

\* Calls are about nodes of their own, and add to descriptors of their own.
Apart(calls) ==
  \A i, j \in 1..Len(calls) :
    i # j =>
      /\ calls[i].node # calls[j].node
      /\ Adds(calls[i].node) /\ calls[i].desc # 0 /\ Adds(calls[j].node)
           => calls[i].desc # calls[j].desc

\* Calls that run remember their descriptor, but for some classes, of which some
\* are never remembered.
Remembers(n) == Class[n] \in Early /\ ~(Class[n] = "attribute" /\ IsRef(n))

Memory(known, calls) ==
  /\ \A i \in 1..Len(calls) : Remembers(calls[i].node) => known[calls[i].node] # 0
  /\ \A n \in Nodes : Class[n] \in {"particle", "simpleType"} => known[n] = 0

\* The elements that types have are no refs.
Plain(h) ==
  \A a \in 1..Len(h.arrays) : \A i \in 1..Len(h.arrays[a].elements) :
    IsElement(h, h.arrays[a].elements[i])

Matching(h, known, calls) ==
  /\ Alone(h)
  /\ Completes(h, calls)
  /\ Elements(h, known, calls)
  /\ Labels(h, known, calls)
  /\ Calls(h, calls)
  /\ Apart(calls)
  /\ Memory(known, calls)
  /\ Plain(h)

\* Turns begin at the top of a schema.
FromTheTop ==
  /\ many \subseteq Repeatable
  /\ \A i \in 1..Len(todo) : todo[i] # Inherit => Depth[todo[i]] = 0
  /\ stack # <<>> => Depth[stack[Len(stack)].node] = 0

MatchInv == FromTheTop /\ (WellFounded => Matching(heap, cache, stack))

---------------------------------------------------------------------------
(* Lemmas about what is contained and what is held.                        *)

\* The contents of a class, as a function that satisfies its equation.
LEMMA EquationLemma ==
  ASSUME Typing, WellFounded, NEW class, NEW n \in Nodes
  PROVE  /\ Contents(class)[n] \in Seq(Entry)
         /\ Contents(class)[n] = Parts(Contents(class), class, n, Len(Asks(n)))
         /\ Parts(Contents(class), class, n, 0) = <<>>
         /\ \A i \in 1..Len(Asks(n)) :
              Parts(Contents(class), class, n, i) =
                Parts(Contents(class), class, n, i - 1) \o Part(Contents(class), class, n, Asks(n)[i])
         /\ \A i \in 0..Len(Asks(n)) : Parts(Contents(class), class, n, i) \in Seq(Entry)
<1>1. Contents(class) \in [Nodes -> Seq(Entry)]
      /\ Contents(class)[n] = Parts(Contents(class), class, n, Len(Asks(n)))
  BY ContentsLemma
<1>2. PICK C : C = Contents(class)
  OBVIOUS
<1>3. C \in [Nodes -> Seq(Entry)] /\ Linking
  BY <1>1, <1>2, LinkingLemma
<1>4. /\ Parts(C, class, n, 0) = <<>>
      /\ \A i \in 1..Len(Asks(n)) :
           Parts(C, class, n, i) = Parts(C, class, n, i - 1) \o Part(C, class, n, Asks(n)[i])
      /\ \A i \in 0..Len(Asks(n)) : Parts(C, class, n, i) \in Seq(Entry)
  BY <1>3, PartsLemma, Zenon
<1> QED
  BY <1>1, <1>2, <1>4

\* What asks for nothing contains nothing.
LEMMA EmptyLemma ==
  ASSUME Typing, WellFounded, NEW class, NEW n \in Nodes, Asks(n) = <<>>
  PROVE  Contents(class)[n] = <<>>
<1>1. Len(Asks(n)) = 0
  OBVIOUS
<1> QED
  BY <1>1, EquationLemma

\* What asks for one node that is no leaf contains what that does.
LEMMA OneLemma ==
  ASSUME Typing, WellFounded, NEW class, NEW n \in Nodes, NEW k \in Nodes, Asks(n) = <<k>>, ~IsLeaf(k)
  PROVE  Contents(class)[n] = Contents(class)[k]
<1>1. PICK C : C = Contents(class)
  OBVIOUS
<1>2. Len(Asks(n)) = 1 /\ Asks(n)[1] = k
  OBVIOUS
<1>3. C[n] = Parts(C, class, n, 1)
  BY <1>1, <1>2, EquationLemma, Zenon
<1>4. Parts(C, class, n, 0) = <<>>
  BY <1>1, EquationLemma
<1>5. Parts(C, class, n, 1) = Parts(C, class, n, 1 - 1) \o Part(C, class, n, k)
  <2>1. 1 \in 1..Len(Asks(n))
    BY <1>2
  <2> QED
    BY <1>1, <1>2, <2>1, EquationLemma, Zenon
<1>8. 1 - 1 = 0
  OBVIOUS
<1>6. Part(C, class, n, k) = C[k] /\ C[k] \in Seq(Entry)
  BY <1>1, EquationLemma, Zenon DEF Part
<1>7. Parts(C, class, n, 1) = <<>> \o C[k]
  BY <1>4, <1>5, <1>6, <1>8, Zenon
<1>9. <<>> \o C[k] = C[k]
  BY <1>6, ConcatEmptySeq
<1> QED
  BY <1>1, <1>3, <1>7, <1>9, Zenon

\* What a node stands for contains the same, but for leaves.
LEMMA OfContents ==
  ASSUME Typing, WellFounded, NEW class, NEW n \in Nodes, ~IsLeaf(n)
  PROVE  Contents(class)[Of(n)] = Contents(class)[n]
<1>1. CASE ~IsRef(n)
  BY <1>1 DEF Of
<1>2. CASE IsRef(n)
  <2>1. Class[n] = "group" /\ link[n] \in Nodes /\ Class[link[n]] = Class[n]
    BY <1>2, LinkLemma, DescribeAssumption, Zenon DEF IsRef, IsLeaf, Classes
  <2>2. Asks(n) = <<link[n]>> /\ ~IsLeaf(link[n])
    BY <1>2, <2>1 DEF Asks, IsLeaf
  <2> QED
    BY <1>2, <2>1, <2>2, OneLemma DEF Of
<1> QED
  BY <1>1, <1>2

\* What an array holds.
LEMMA HeldLemma ==
  ASSUME NEW h, HeapOK(h), NEW a \in 1..Len(h.arrays), NEW class
  PROVE  Held(h, a, class) \in Seq(Entry)
<1> DEFINE s == IF class = "element" THEN h.arrays[a].elements ELSE h.arrays[a].attributes
<1>1. s \in Seq(1..Len(h.desc))
  BY ArrayLemma
<1>2. Held(h, a, class) =
        [i \in 1..Len(s) |-> [node |-> h.desc[s[i]].node, many |-> h.desc[s[i]].many]]
  BY DEF Held, Shown
<1> HIDE DEF s
<1>3. ASSUME NEW i \in 1..Len(s)
      PROVE  [node |-> h.desc[s[i]].node, many |-> h.desc[s[i]].many] \in Entry
  <2>1. s[i] \in 1..Len(h.desc)
    BY <1>1
  <2>2. h.desc[s[i]] \in DescriptorOf(h)
    BY <2>1, HeapLemma
  <2> QED
    BY <2>2 DEF DescriptorOf, Entry
<1> QED
  BY <1>1, <1>2, <1>3

\* An array that stays holds what it held, as descriptors keep their nodes.
LEMMA HeldKept ==
  ASSUME NEW h, NEW g, HeapOK(h), Grown(h, g), NEW a \in 1..Len(h.arrays),
         g.arrays[a] = h.arrays[a], NEW class
  PROVE  Held(g, a, class) = Held(h, a, class)
<1> DEFINE s == IF class = "element" THEN h.arrays[a].elements ELSE h.arrays[a].attributes
<1>1. s \in Seq(1..Len(h.desc))
  BY ArrayLemma
<1>2. /\ Held(h, a, class) =
           [i \in 1..Len(s) |-> [node |-> h.desc[s[i]].node, many |-> h.desc[s[i]].many]]
      /\ Held(g, a, class) =
           [i \in 1..Len(s) |-> [node |-> g.desc[s[i]].node, many |-> g.desc[s[i]].many]]
  BY DEF Held, Shown
<1> HIDE DEF s
<1>3. ASSUME NEW i \in 1..Len(s)
      PROVE  h.desc[s[i]].node = g.desc[s[i]].node /\ h.desc[s[i]].many = g.desc[s[i]].many
  <2>1. s[i] \in 1..Len(h.desc)
    BY <1>1
  <2> QED
    BY <2>1, Zenon DEF Grown
<1> QED
  BY <1>2, <1>3

\* An array to which others were appended holds what they hold besides.
LEMMA ShownTogether ==
  ASSUME NEW h, HeapOK(h), NEW s \in Seq(1..Len(h.desc)), NEW t \in Seq(1..Len(h.desc))
  PROVE  /\ Shown(h, s) \in Seq(Entry) /\ Shown(h, t) \in Seq(Entry)
         /\ Shown(h, s \o t) = Shown(h, s) \o Shown(h, t)
<1> DEFINE e(d) == [node |-> h.desc[d].node, many |-> h.desc[d].many]
<1>1. \A d \in 1..Len(h.desc) : e(d) \in Entry
  BY HeapLemma, Zenon DEF DescriptorOf, Entry
<1>2. \A u : Shown(h, u) = [i \in 1..Len(u) |-> e(u[i])]
  BY DEF Shown
<1> HIDE DEF e
<1>3. Len(s) \in Nat /\ Len(t) \in Nat /\ s \o t \in Seq(1..Len(h.desc)) /\ Len(s \o t) = Len(s) + Len(t)
  BY ConcatProperties, LenProperties
<1>4. \A u \in Seq(1..Len(h.desc)) : Shown(h, u) \in Seq(Entry) /\ Len(Shown(h, u)) = Len(u)
  <2>1. ASSUME NEW u \in Seq(1..Len(h.desc)) PROVE Shown(h, u) \in Seq(Entry) /\ Len(Shown(h, u)) = Len(u)
    <3>1. Len(u) \in Nat /\ \A i \in 1..Len(u) : u[i] \in 1..Len(h.desc)
      BY LenProperties
    <3>2. \A i \in 1..Len(u) : e(u[i]) \in Entry
      BY <1>1, <3>1
    <3>3. Shown(h, u) \in [1..Len(u) -> Entry]
      BY <1>2, <3>2
    <3>4. Shown(h, u) \in Seq(Entry)
      BY <3>1, <3>3, SeqDef, Zenon
    <3>5. DOMAIN Shown(h, u) = 1..Len(u)
      BY <3>3
    <3>6. Len(Shown(h, u)) \in Nat /\ DOMAIN Shown(h, u) = 1..Len(Shown(h, u))
      BY <3>4, LenProperties
    <3>7. Len(Shown(h, u)) = Len(u)
      BY <3>1, <3>5, <3>6
    <3> QED
      BY <3>4, <3>7
  <2> QED
    BY <2>1
<1>5. PICK a : a = Shown(h, s)
  OBVIOUS
<1>6. PICK b : b = Shown(h, t)
  OBVIOUS
<1>7. PICK c : c = Shown(h, s \o t)
  OBVIOUS
<1>8. /\ a \in Seq(Entry) /\ b \in Seq(Entry) /\ c \in Seq(Entry)
      /\ Len(a) = Len(s) /\ Len(b) = Len(t) /\ Len(c) = Len(s) + Len(t)
  BY <1>3, <1>4, <1>5, <1>6, <1>7, Zenon
<1>9. a \o b \in Seq(Entry) /\ Len(a \o b) = Len(a) + Len(b)
      /\ \A i \in 1..(Len(a) + Len(b)) : (a \o b)[i] = IF i <= Len(a) THEN a[i] ELSE b[i - Len(a)]
  BY <1>8, ConcatProperties
<1>10. ASSUME NEW i \in 1..(Len(s) + Len(t)) PROVE c[i] = (a \o b)[i]
  <2>1. c[i] = e((s \o t)[i])
    BY <1>2, <1>3, <1>7, Zenon
  <2>2. CASE i <= Len(s)
    <3>1. (s \o t)[i] = s[i] /\ i \in 1..Len(s)
      BY <1>3, <2>2, ConcatProperties
    <3>2. a[i] = e(s[i])
      BY <1>2, <1>5, <3>1
    <3> QED
      BY <1>8, <1>9, <2>1, <2>2, <3>1, <3>2
  <2>3. CASE ~(i <= Len(s))
    <3>1. (s \o t)[i] = t[i - Len(s)] /\ i - Len(s) \in 1..Len(t)
      BY <1>3, <2>3, ConcatProperties
    <3>2. b[i - Len(s)] = e(t[i - Len(s)])
      BY <1>2, <1>6, <3>1
    <3> QED
      BY <1>8, <1>9, <2>1, <2>3, <3>1, <3>2
  <2> QED
    BY <2>2, <2>3, Zenon
<1>11. c = a \o b
  BY <1>3, <1>8, <1>9, <1>10, SeqEqual, Zenon
<1> QED
  BY <1>5, <1>6, <1>7, <1>8, <1>11

\* Prefixes.
LEMMA PrefixLemma ==
  ASSUME NEW E, NEW s \in Seq(E), NEW t \in Seq(E)
  PROVE  /\ IsPrefix(s, s)
         /\ IsPrefix(s, s \o t)
         /\ \A u \in Seq(E) : IsPrefix(u, s) => IsPrefix(u, s \o t)
<1>1. Len(s) \in Nat /\ Len(t) \in Nat /\ s \o t \in Seq(E) /\ Len(s \o t) = Len(s) + Len(t)
  BY ConcatProperties, LenProperties
<1>2. ASSUME NEW u \in Seq(E), IsPrefix(u, s) PROVE IsPrefix(u, s \o t)
  <2>1. Len(u) \in Nat /\ Len(u) <= Len(s) /\ SubSeq(u, 1, Len(u)) = SubSeq(s, 1, Len(u))
    BY <1>2, LenProperties DEF IsPrefix
  <2>2. SubSeq(s \o t, 1, Len(u)) = SubSeq(s, 1, Len(u))
    <3>1. \A i \in 1..Len(u) : (s \o t)[i] = s[i]
      BY <1>1, <2>1, ConcatProperties
    <3>2. SubSeq(s \o t, 1, Len(u)) = [i \in 1..Len(u) |-> (s \o t)[i]]
          /\ SubSeq(s, 1, Len(u)) = [i \in 1..Len(u) |-> s[i]]
      BY <1>1, <2>1, SubSeqProperties
    <3> QED
      BY <3>1, <3>2, Zenon
  <2> QED
    BY <1>1, <2>1, <2>2 DEF IsPrefix
<1>3. IsPrefix(s, s)
  BY <1>1 DEF IsPrefix
<1> QED
  BY <1>2, <1>3

---------------------------------------------------------------------------
(* Calls, for any heap.                                                    *)

\* What is known besides the heap, what is remembered and the calls.
Given == Typing /\ WellFounded /\ many \subseteq Repeatable

\* What the first invariant says of the calls.
CallIn(h, f) ==
  /\ f.at <= Len(Asks(f.node))
  /\ \/ Class[f.node] \in {"attribute", "group"} /\ IsRef(f.node) /\ f.at = 0 /\ f.desc = 0
     \/ ResultIn(h, f.node, f.desc)
  /\ f.desc = 0 => Asks(f.node) = <<>> \/ IsRef(f.node)

\* Each call was made by the one below it, and the first one from the top of a
\* schema.
FromAbove(calls) ==
  /\ \A i \in 1..(Len(calls) - 1) :
       /\ calls[i + 1].at < Len(Asks(calls[i + 1].node))
       /\ calls[i].node = Asks(calls[i + 1].node)[calls[i + 1].at + 1]
  /\ calls # <<>> => Depth[calls[Len(calls)].node] = 0

Sound(h, known, calls) ==
  /\ HeapOK(h)
  /\ known \in [Nodes -> 0..Len(h.desc)]
  /\ \A n \in Nodes : known[n] # 0 => ResultIn(h, n, known[n])
  /\ calls \in Seq(FrameOf(h))
  /\ \A i \in 1..Len(calls) : CallIn(h, calls[i])
  /\ FromAbove(calls)

\* The types of one call.
LEMMA CallLemma ==
  ASSUME NEW h, NEW known, NEW calls, Sound(h, known, calls), NEW i \in 1..Len(calls)
  PROVE  /\ calls[i] \in FrameOf(h) /\ calls[i].node \in Nodes
         /\ calls[i].desc \in 0..Len(h.desc) /\ calls[i].at \in Nat
         /\ CallIn(h, calls[i]) /\ Len(calls) \in Nat
<1>1. calls \in Seq(FrameOf(h))
  BY DEF Sound
<1>2. calls[i] \in FrameOf(h) /\ Len(calls) \in Nat
  BY <1>1
<1>3. CallIn(h, calls[i])
  BY DEF Sound
<1> QED
  BY <1>2, <1>3 DEF FrameOf

\* Nodes whose calls add to a descriptor are no refs.
LEMMA AddingLemma ==
  ASSUME Typing, NEW n \in Nodes
  PROVE  /\ Adds(n) => /\ ~IsRef(n) /\ ~IsLeaf(n) /\ Of(n) = n /\ ClassOf(n) = "type"
                       /\ ~(Class[n] = "simpleType") /\ ~(Class[n] = "element")
         /\ ~Adds(n) => Class[n] \in {"element", "attribute", "simpleType"} \/ (Class[n] = "group" /\ IsRef(n))
<1>1. Class[n] \in Classes
  BY DescribeAssumption
<1>2. ASSUME Adds(n) PROVE ~IsRef(n)
  BY <1>2, LinkLemma DEF Adds, IsRef
<1> QED
  BY <1>1, <1>2 DEF Adds, Classes, IsLeaf, Of, ClassOf

\* The descriptor to which a call adds is that of a type.
LEMMA TargetLemma ==
  ASSUME Typing, NEW h, NEW known, NEW calls, Sound(h, known, calls), NEW i \in 1..Len(calls),
         Adds(calls[i].node), calls[i].desc # 0
  PROVE  calls[i].desc \in TypeDescriptors(h) /\ h.desc[calls[i].desc].items \in 1..Len(h.arrays)
<1>1. /\ calls[i].node \in Nodes /\ calls[i].desc \in 1..Len(h.desc) /\ CallIn(h, calls[i])
      /\ HeapOK(h)
  <2>1. calls[i].node \in Nodes /\ calls[i].desc \in 0..Len(h.desc) /\ CallIn(h, calls[i])
    BY CallLemma
  <2>2. HeapOK(h) /\ Len(h.desc) \in Nat
    BY HeapLemma DEF Sound
  <2> QED
    BY <2>1, <2>2
<1>2. ~IsRef(calls[i].node) /\ ClassOf(calls[i].node) = "type"
  BY <1>1, AddingLemma
<1>3. h.desc[calls[i].desc].class = "type"
  BY <1>1, <1>2 DEF CallIn, ResultIn
<1>4. h.desc[calls[i].desc] \in DescriptorOf(h)
  BY <1>1, HeapLemma
<1> QED
  BY <1>1, <1>3, <1>4, Zenon DEF TypeDescriptors, DescriptorOf

\* What is called is described with what called it.
LEMMA PathLemma ==
  ASSUME Typing, NEW h, NEW known, NEW calls, Sound(h, known, calls), NEW j \in 1..Len(calls)
  PROVE  calls[1].node \in Described(calls[j].node)
<1>0. /\ j \in Nat /\ j - 1 \in Nat /\ Len(calls) \in Nat /\ calls[j].node \in Nodes
      /\ \A m \in 0..(j - 1) : j - m \in 1..Len(calls)
  BY CallLemma
<1>1. /\ Described(calls[j].node) \subseteq Nodes /\ calls[j].node \in Described(calls[j].node)
      /\ Closed(Described(calls[j].node))
  BY <1>0, LinkingLemma, DescribedLemma
<1> DEFINE S == {m \in 0..(j - 1) : calls[j - m].node \in Described(calls[j].node)}
<1>2. 0 \in S
  BY <1>0, <1>1
<1>3. ASSUME NEW m \in 1..(j - 1), m - 1 \in S PROVE m \in S
  <2>1. PICK i : i = j - m
    OBVIOUS
  <2>2. i \in 1..(Len(calls) - 1) /\ i + 1 = j - (m - 1) /\ i + 1 \in 1..Len(calls)
    BY <1>0, <2>1
  <2>3. /\ calls[i + 1].at < Len(Asks(calls[i + 1].node))
        /\ calls[i].node = Asks(calls[i + 1].node)[calls[i + 1].at + 1]
    BY <2>2 DEF Sound, FromAbove
  <2>4. calls[i + 1].node \in Described(calls[j].node)
    BY <1>3, <2>2
  <2>5. calls[i + 1].at \in Nat /\ calls[i + 1].node \in Nodes
    BY <2>2, CallLemma
  <2>6. Len(Asks(calls[i + 1].node)) \in Nat
    BY <2>5, AsksLemma, LenProperties
  <2>7. calls[i + 1].at + 1 \in 1..Len(Asks(calls[i + 1].node))
    BY <2>3, <2>5, <2>6
  <2>8. calls[i].node \in Described(calls[j].node)
    BY <1>1, <2>3, <2>4, <2>7 DEF Closed
  <2> QED
    BY <1>0, <2>1, <2>8
<1> HIDE DEF S
<1>4. \A m \in 0..(j - 1) : m \in S
  BY <1>0, <1>2, <1>3, InductionLemma, Zenon
<1>5. j - 1 \in S
  BY <1>0, <1>4
<1> QED
  BY <1>0, <1>5 DEF S

\* A call asks for what is not being described, but for an element, which may ask
\* for its type.
LEMMA FarLemma ==
  ASSUME Given, NEW h, NEW known, NEW calls, Sound(h, known, calls), calls # <<>>, Apart(calls),
         NEW f, f = calls[1], f.at < Len(Asks(f.node)), NEW k, k = Asks(f.node)[f.at + 1],
         ~(Class[f.node] = "element" /\ ~IsRef(f.node))
  PROVE  ~OnStack(calls, k) /\ ~OnStack(calls, Of(k))
<1>0. Typing /\ WellFounded
  BY DEF Given
<1>1. 1 \in 1..Len(calls) /\ Len(calls) \in 1..Len(calls) /\ Len(calls) \in Nat
  <2>1. calls \in Seq(FrameOf(h))
    BY DEF Sound
  <2> QED
    BY <2>1, EmptySeq, LenProperties
<1>2. f.node \in Nodes /\ f.at \in Nat
  BY <1>1, CallLemma
<1>3. f.at + 1 \in 1..Len(Asks(f.node))
  <2>1. Len(Asks(f.node)) \in Nat
    BY <1>0, <1>2, AsksLemma, LenProperties
  <2> QED
    BY <1>2, <2>1
<1>4. /\ k \in Nodes /\ Depth[f.node] \in Nat
      /\ \/ k = link[f.node] /\ link[f.node] # None /\ Depth[k] = 0
         \/ Depth[k] = Depth[f.node] + 1
  BY <1>0, <1>2, <1>3, AskLemma
<1>5. ASSUME NEW j \in 1..Len(calls) PROVE calls[j].node # k
  <2>0. calls[j].node \in Nodes
    BY CallLemma
  <2>1. CASE k = link[f.node] /\ link[f.node] # None
    <3>1. f.node \notin Described(link[f.node])
      BY <1>0, <1>2, <2>1 DEF WellFounded
    <3>2. f.node \in Described(calls[j].node)
      BY <1>0, PathLemma
    <3> QED
      BY <2>1, <3>1, <3>2
  <2>2. CASE Depth[k] = Depth[f.node] + 1
    <3>0. SUFFICES ASSUME calls[j].node = k
                   PROVE  FALSE
      OBVIOUS
    <3>1. Depth[k] # 0
      BY <1>4, <2>2
    <3>2. j # Len(calls)
      BY <3>0, <3>1 DEF Sound, FromAbove
    <3>3. j \in 1..(Len(calls) - 1) /\ j + 1 \in 1..Len(calls) /\ j + 1 # 1
      BY <1>1, <3>2
    <3>4. PICK m : m = calls[j + 1]
      OBVIOUS
    <3>5. m.at < Len(Asks(m.node)) /\ calls[j].node = Asks(m.node)[m.at + 1]
      BY <3>3, <3>4 DEF Sound, FromAbove
    <3>6. m.node \in Nodes /\ m.at \in Nat
      BY <3>3, <3>4, CallLemma
    <3>7. m.at + 1 \in 1..Len(Asks(m.node))
      <4>1. Len(Asks(m.node)) \in Nat
        BY <1>0, <3>6, AsksLemma, LenProperties
      <4> QED
        BY <3>5, <3>6, <4>1
    <3>8. f.node = m.node
      <4>1. PICK x : x = f.at + 1
        OBVIOUS
      <4>2. PICK y : y = m.at + 1
        OBVIOUS
      <4>3. /\ x \in 1..Len(Asks(f.node)) /\ y \in 1..Len(Asks(m.node))
            /\ Asks(f.node)[x] = Asks(m.node)[y] /\ Depth[Asks(f.node)[x]] # 0
        BY <1>3, <3>0, <3>1, <3>5, <3>7, <4>1, <4>2, Zenon
      <4> QED
        BY <1>0, <1>2, <3>6, <4>3, ParentLemma, Zenon
    <3> QED
      BY <1>1, <3>3, <3>4, <3>8 DEF Apart
  <2> QED
    BY <1>4, <2>1, <2>2
<1>6. ASSUME IsRef(k), NEW j \in 1..Len(calls) PROVE calls[j].node # Of(k)
  <2>0. calls[j].node \in Nodes
    BY CallLemma
  <2>1. Of(k) = link[k] /\ link[k] # None
    BY <1>6 DEF Of, IsRef
  <2>2. k \notin Described(link[k])
    BY <1>0, <1>4, <1>6, <2>1 DEF WellFounded
  <2>3. f.node \in Described(calls[j].node)
    BY <1>0, PathLemma
  <2>4. k \in Described(calls[j].node)
    <3>1. Closed(Described(calls[j].node))
      BY <1>0, <2>0, LinkingLemma, DescribedLemma
    <3> QED
      BY <1>3, <2>3, <3>1 DEF Closed
  <2> QED
    BY <2>1, <2>2, <2>4
<1> QED
  BY <1>5, <1>6 DEF OnStack, Of

---------------------------------------------------------------------------
(* What a step keeps of the second invariant, whatever it adds to a heap.  *)

\* A heap to which things were added: what types have is in arrays of their own,
\* and the arrays of elements stay.
Near(h, g) ==
  /\ Grown(h, g)
  /\ \A d \in TypeDescriptors(g) : d > Len(h.desc) => g.desc[d].items > Len(h.arrays)
  /\ \A a \in 1..Len(h.arrays) : Free(h, a) => g.arrays[a] = h.arrays[a]

\* What is remembered for complex types stays.
Recalls(known, later) ==
  \A n \in Nodes : Class[n] = "complexType" /\ known[n] # 0 => later[n] = known[n]

\* The indices of a heap and of one that it grows into.
LEMMA RangeLemma ==
  ASSUME NEW h, NEW g, HeapOK(h), Grown(h, g)
  PROVE  /\ HeapOK(g) /\ Len(h.desc) \in Nat /\ Len(g.desc) \in Nat
         /\ Len(h.arrays) \in Nat /\ Len(g.arrays) \in Nat
         /\ 1..Len(h.desc) \subseteq 1..Len(g.desc) /\ 1..Len(h.arrays) \subseteq 1..Len(g.arrays)
         /\ \A d \in 1..Len(g.desc) : d \in 1..Len(h.desc) <=> ~(d > Len(h.desc))
<1>1. HeapOK(g) /\ Len(h.desc) <= Len(g.desc) /\ Len(h.arrays) <= Len(g.arrays)
  BY DEF Grown
<1>2. Len(h.desc) \in Nat /\ Len(g.desc) \in Nat /\ Len(h.arrays) \in Nat /\ Len(g.arrays) \in Nat
  BY <1>1, HeapLemma
<1> QED
  BY <1>1, <1>2

\* The descriptors of types keep their arrays.
LEMMA TypesKept ==
  ASSUME NEW h, NEW g, HeapOK(h), Grown(h, g), NEW d \in 1..Len(h.desc)
  PROVE  /\ d \in TypeDescriptors(g) <=> d \in TypeDescriptors(h)
         /\ d \in TypeDescriptors(h) => g.desc[d].items = h.desc[d].items
<1>1. d \in 1..Len(g.desc)
  BY RangeLemma
<1>2. g.desc[d].class = h.desc[d].class /\ (h.desc[d].class = "type" => g.desc[d].items = h.desc[d].items)
  BY DEF Grown
<1> QED
  BY <1>1, <1>2 DEF TypeDescriptors

\* Arrays of no type stay such.
LEMMA FreeKept ==
  ASSUME NEW h, NEW g, HeapOK(h), Near(h, g), NEW a \in 1..Len(h.arrays), Free(h, a)
  PROVE  Free(g, a)
<1>1. Grown(h, g)
  BY DEF Near
<1>2. ASSUME NEW e \in TypeDescriptors(g) PROVE g.desc[e].items # a
  <2>0. e \in 1..Len(g.desc)
    BY DEF TypeDescriptors
  <2>1. CASE e \in 1..Len(h.desc)
    BY <1>1, <2>1, TypesKept DEF Free
  <2>2. CASE e \notin 1..Len(h.desc)
    <3>1. e > Len(h.desc)
      BY <1>1, <2>0, <2>2, RangeLemma
    <3>2. g.desc[e].items > Len(h.arrays)
      BY <3>1 DEF Near
    <3>3. Len(h.arrays) \in Nat /\ g.desc[e].items \in Nat
      <4>1. HeapOK(g) /\ Len(g.arrays) \in Nat /\ Len(h.arrays) \in Nat
        BY <1>1, RangeLemma
      <4>2. g.desc[e].items \in 1..Len(g.arrays)
        BY <2>0, <4>1, ItemsLemma
      <4> QED
        BY <4>1, <4>2
    <3> QED
      BY <3>2, <3>3
  <2> QED
    BY <2>1, <2>2
<1> QED
  BY <1>2 DEF Free

\* No two types have the same arrays, if only one type is new.
LEMMA AloneKept ==
  ASSUME NEW h, NEW g, HeapOK(h), Near(h, g), Alone(h),
         \A d, e \in TypeDescriptors(g) : d > Len(h.desc) /\ e > Len(h.desc) => d = e
  PROVE  Alone(g)
<1>1. Grown(h, g)
  BY DEF Near
<1>2. ASSUME NEW d \in TypeDescriptors(g), NEW e \in TypeDescriptors(g),
             d \in 1..Len(h.desc), e \notin 1..Len(h.desc)
      PROVE  g.desc[d].items # g.desc[e].items
  <2>1. g.desc[d].items \in 1..Len(h.arrays) /\ Len(h.arrays) \in Nat
    BY <1>1, <1>2, TypesKept, ItemsLemma, RangeLemma
  <2>2. e \in 1..Len(g.desc) /\ e > Len(h.desc)
    BY <1>1, <1>2, RangeLemma DEF TypeDescriptors
  <2>3. g.desc[e].items > Len(h.arrays)
    BY <2>2 DEF Near
  <2> QED
    BY <2>1, <2>3
<1>3. ASSUME NEW d \in TypeDescriptors(g), NEW e \in TypeDescriptors(g), g.desc[d].items = g.desc[e].items
      PROVE  d = e
  <2>1. d \in 1..Len(g.desc) /\ e \in 1..Len(g.desc)
    BY DEF TypeDescriptors
  <2>2. CASE d \in 1..Len(h.desc) /\ e \in 1..Len(h.desc)
    <3>1. /\ d \in TypeDescriptors(h) /\ e \in TypeDescriptors(h)
          /\ g.desc[d].items = h.desc[d].items /\ g.desc[e].items = h.desc[e].items
      BY <1>1, <2>2, TypesKept
    <3> QED
      BY <1>3, <3>1, Zenon DEF Alone
  <2>3. CASE d \notin 1..Len(h.desc) /\ e \notin 1..Len(h.desc)
    <3>1. d > Len(h.desc) /\ e > Len(h.desc)
      BY <1>1, <2>1, <2>3, RangeLemma
    <3> QED
      BY <3>1
  <2> QED
    BY <1>2, <1>3, <2>2, <2>3
<1> QED
  BY <1>3 DEF Alone

\* A descriptor that stays is still that of its node.
LEMMA LabelledKept ==
  ASSUME NEW h, NEW g, Grown(h, g), NEW n, NEW d \in 1..Len(h.desc)
  PROVE  Labelled(g, n, d) <=> Labelled(h, n, d)
BY DEF Labelled, Grown

\* A descriptor of an element stays one.
LEMMA IsElementKept ==
  ASSUME NEW h, NEW g, Grown(h, g), NEW d \in 1..Len(h.desc)
  PROVE  /\ IsElement(g, d) <=> IsElement(h, d)
         /\ g.desc[d].node = h.desc[d].node
BY DEF IsElement, Grown

\* A type whose arrays stay is still complete.
LEMMA CompleteKept ==
  ASSUME NEW h, NEW g, HeapOK(h), Grown(h, g), NEW d \in TypeDescriptors(h), Complete(h, d),
         g.arrays[h.desc[d].items] = h.arrays[h.desc[d].items]
  PROVE  Complete(g, d)
<1>1. d \in 1..Len(h.desc) /\ h.desc[d].class = "type"
  BY DEF TypeDescriptors
<1>2. PICK a : a = h.desc[d].items
  OBVIOUS
<1>3. a \in 1..Len(h.arrays) /\ g.arrays[a] = h.arrays[a]
  BY <1>1, <1>2, ItemsLemma
<1>4. \A class : Held(g, a, class) = Held(h, a, class)
  BY <1>3, HeldKept
<1>5. g.desc[d].items = a /\ g.desc[d].node = h.desc[d].node
  BY <1>1, <1>2 DEF Grown
<1> QED
  BY <1>2, <1>4, <1>5 DEF Complete

\* Types are complete when what has returned before is left alone and what returns
\* now is.
LEMMA CompletesKept ==
  ASSUME NEW h, NEW g, NEW calls, NEW later, HeapOK(h), Grown(h, g), Completes(h, calls),
         \A d \in TypeDescriptors(h) : ~Running(later, d) =>
           ~Running(calls, d) /\ g.arrays[h.desc[d].items] = h.arrays[h.desc[d].items],
         \A d \in TypeDescriptors(g) : d > Len(h.desc) /\ ~Running(later, d) => Complete(g, d)
  PROVE  Completes(g, later)
<1>1. ASSUME NEW d \in TypeDescriptors(g), ~Running(later, d) PROVE Complete(g, d)
  <2>0. d \in 1..Len(g.desc)
    BY DEF TypeDescriptors
  <2>1. CASE d \in 1..Len(h.desc)
    <3>1. d \in TypeDescriptors(h)
      BY <2>1, TypesKept
    <3>2. Complete(h, d) /\ g.arrays[h.desc[d].items] = h.arrays[h.desc[d].items]
      BY <1>1, <3>1 DEF Completes
    <3> QED
      BY <3>1, <3>2, CompleteKept
  <2>2. CASE d \notin 1..Len(h.desc)
    <3>1. d > Len(h.desc)
      BY <2>0, <2>2, RangeLemma
    <3> QED
      BY <1>1, <3>1
  <2> QED
    BY <2>1, <2>2
<1> QED
  BY <1>1 DEF Completes

\* The complex type of an element.
LEMMA TypeOfLemma ==
  ASSUME Typing, NEW h, HeapOK(h), NEW known, known \in [Nodes -> 0..Len(h.desc)],
         \A n \in Nodes : known[n] # 0 => ResultIn(h, n, known[n]),
         NEW n \in Nodes, Class[n] = "element", ~IsRef(n), Asks(n) # <<>>
  PROVE  /\ Asks(n)[1] \in Nodes /\ Class[Asks(n)[1]] = "complexType" /\ Asks(n) = <<Asks(n)[1]>>
         /\ Len(Asks(n)) = 1
         /\ known[Asks(n)[1]] # 0 => known[Asks(n)[1]] \in TypeDescriptors(h)
<1>1. Asks(n) \in Seq(Nodes) /\ Len(Asks(n)) <= 1 /\ Class[Asks(n)[1]] = "complexType"
  BY AsksLemma
<1>2. Len(Asks(n)) = 1
  <2>1. Len(Asks(n)) \in Nat /\ Len(Asks(n)) # 0
    <3>1. Len(Asks(n)) \in Nat /\ Len(<<>>) = 0 /\ <<>> \in Seq(Nodes)
      BY <1>1, LenProperties
    <3>2. ASSUME Len(Asks(n)) = 0 PROVE Asks(n) = <<>>
      <4>1. Len(Asks(n)) = Len(<<>>) /\ \A i \in 1..Len(Asks(n)) : Asks(n)[i] = <<>>[i]
        BY <3>1, <3>2
      <4> QED
        BY <1>1, <3>1, <4>1, SeqEqual
    <3> QED
      BY <3>1, <3>2
  <2>2. PICK l : l = Len(Asks(n))
    BY Zenon
  <2>3. l \in Nat /\ l # 0 /\ l <= 1
    BY <1>1, <2>1, <2>2, Zenon
  <2>4. l = 1
    BY <2>3
  <2> QED
    BY <2>2, <2>4
<1>3. PICK t : t = Asks(n)[1]
  OBVIOUS
<1>4. t \in Nodes /\ Asks(n) = <<t>>
  BY <1>1, <1>2, <1>3
<1>5. ASSUME known[t] # 0 PROVE known[t] \in TypeDescriptors(h)
  <2>1. ResultIn(h, t, known[t]) /\ known[t] \in 1..Len(h.desc)
    <3>1. known[t] \in 0..Len(h.desc) /\ Len(h.desc) \in Nat
      BY <1>4, HeapLemma
    <3> QED
      BY <1>4, <1>5, <3>1
  <2>2. h.desc[known[t]].class = "type"
    BY <1>1, <1>3, <1>5, <2>1 DEF ResultIn, ClassOf
  <2> QED
    BY <2>1, <2>2 DEF TypeDescriptors
<1> QED
  BY <1>1, <1>2, <1>3, <1>4, <1>5

\* An element that has the arrays of its type, or more of its own, still has.
LEMMA LinkedKept ==
  ASSUME Typing, NEW h, NEW g, HeapOK(h), Near(h, g), NEW known, NEW later,
         known \in [Nodes -> 0..Len(h.desc)],
         \A n \in Nodes : known[n] # 0 => ResultIn(h, n, known[n]), Recalls(known, later),
         NEW d \in 1..Len(h.desc), NEW e \in 1..Len(g.desc),
         g.desc[e].node = h.desc[d].node, g.desc[e].items = h.desc[d].items,
         IsElement(h, d), Class[h.desc[d].node] = "element", Linked(h, known, d)
  PROVE  Linked(g, later, e)
<1>0. Grown(h, g)
  BY DEF Near
<1>1. PICK n : n = h.desc[d].node
  OBVIOUS
<1>2. PICK a : a = h.desc[d].items
  OBVIOUS
<1>3. n \in Nodes /\ a \in 1..Len(h.arrays) /\ Class[n] = "element" /\ ~IsRef(n)
  BY <1>1, <1>2, ItemsLemma DEF IsElement
<1>4. CASE TypesOf(known, n, h, a)
  <2>1. PICK t : t = Asks(n)[1]
    OBVIOUS
  <2>2. Asks(n) # <<>> /\ known[t] # 0 /\ a = h.desc[known[t]].items
    BY <1>4, <2>1 DEF TypesOf
  <2>3. t \in Nodes /\ Class[t] = "complexType" /\ known[t] \in TypeDescriptors(h)
    BY <1>3, <2>1, <2>2, TypeOfLemma, Zenon
  <2>4. later[t] = known[t]
    BY <2>2, <2>3 DEF Recalls
  <2>5. g.desc[known[t]].items = h.desc[known[t]].items
    BY <1>0, <2>3, TypesKept DEF TypeDescriptors
  <2>6. TypesOf(later, n, g, a)
    BY <2>1, <2>2, <2>4, <2>5 DEF TypesOf
  <2> QED
    BY <1>1, <1>2, <2>6 DEF Linked
<1>5. CASE HasOwn(h, n, a)
  <2>1. Free(h, a)
    BY <1>5 DEF HasOwn
  <2>2. Free(g, a) /\ g.arrays[a] = h.arrays[a]
    BY <1>3, <2>1, FreeKept, Zenon DEF Near
  <2>3. \A class : Held(g, a, class) = Held(h, a, class)
    BY <1>0, <1>3, <2>2, HeldKept, Zenon
  <2>4. HasOwn(g, n, a)
    BY <1>5, <2>2, <2>3 DEF HasOwn
  <2> QED
    BY <1>1, <1>2, <2>4 DEF Linked
<1> QED
  BY <1>1, <1>2, <1>4, <1>5 DEF Linked

\* Elements are right when each of the old ones stays as it was or gets its type,
\* and the new ones are right.
LEMMA ElementsKept ==
  ASSUME Typing, NEW h, NEW g, HeapOK(h), Near(h, g), NEW known, NEW later,
         NEW calls, NEW then, known \in [Nodes -> 0..Len(h.desc)],
         \A n \in Nodes : known[n] # 0 => ResultIn(h, n, known[n]), Recalls(known, later),
         Elements(h, known, calls),
         \A d \in 1..Len(h.desc) : IsElement(h, d) =>
           \/ g.desc[d].items = h.desc[d].items /\ (Pending(calls, d) => Pending(then, d))
           \/ Linked(g, later, d),
         \A d \in 1..Len(g.desc) : d > Len(h.desc) /\ IsElement(g, d) =>
           Class[g.desc[d].node] = "element" /\ ElementOK(g, later, then, d)
  PROVE  Elements(g, later, then)
<1>0. Grown(h, g)
  BY DEF Near
<1>1. ASSUME NEW d \in 1..Len(g.desc), IsElement(g, d)
      PROVE  Class[g.desc[d].node] = "element" /\ ElementOK(g, later, then, d)
  <2>1. CASE d \in 1..Len(h.desc)
    <3>1. IsElement(h, d) /\ g.desc[d].node = h.desc[d].node
      BY <1>0, <1>1, <2>1, IsElementKept
    <3>2. Class[h.desc[d].node] = "element" /\ ElementOK(h, known, calls, d)
      BY <2>1, <3>1 DEF Elements
    <3>3. CASE Linked(g, later, d)
      BY <3>1, <3>2, <3>3 DEF ElementOK
    <3>4. CASE g.desc[d].items = h.desc[d].items /\ (Pending(calls, d) => Pending(then, d))
      <4>1. CASE Pending(calls, d) /\ Unlinked(h, d)
        <5>1. PICK a : a = h.desc[d].items
          OBVIOUS
        <5>2. a \in 1..Len(h.arrays) /\ Free(h, a)
          BY <2>1, <4>1, <5>1, ItemsLemma DEF Unlinked
        <5>3. Free(g, a) /\ g.arrays[a] = h.arrays[a]
          BY <5>2, FreeKept DEF Near
        <5>4. Unlinked(g, d)
          BY <3>4, <4>1, <5>1, <5>3 DEF Unlinked
        <5> QED
          BY <3>1, <3>2, <3>4, <4>1, <5>4 DEF ElementOK
      <4>2. CASE Linked(h, known, d)
        <5>1. Linked(g, later, d)
          BY <2>1, <3>1, <3>2, <3>4, <4>2, LinkedKept
        <5> QED
          BY <3>1, <3>2, <5>1 DEF ElementOK
      <4> QED
        BY <3>2, <4>1, <4>2 DEF ElementOK
    <3> QED
      BY <2>1, <3>1, <3>3, <3>4
  <2>2. CASE d \notin 1..Len(h.desc)
    <3>1. d > Len(h.desc)
      BY <1>0, <2>2, RangeLemma
    <3> QED
      BY <1>1, <3>1
  <2> QED
    BY <2>1, <2>2
<1> QED
  BY <1>1 DEF Elements

\* What is remembered is about its node when what is new is.
LEMMA LabelsKept ==
  ASSUME NEW h, NEW g, HeapOK(h), Grown(h, g), NEW known, NEW later, NEW calls, NEW then,
         known \in [Nodes -> 0..Len(h.desc)], Labels(h, known, calls),
         \A n \in Nodes : later[n] # 0 /\ ~OnStack(then, n) =>
           \/ later[n] = known[n] /\ ~OnStack(calls, n)
           \/ later[n] \in 1..Len(h.desc) /\ Labelled(h, n, later[n])
  PROVE  Labels(g, later, then)
<1>1. ASSUME NEW n \in Nodes, later[n] # 0, ~OnStack(then, n) PROVE Labelled(g, n, later[n])
  <2>1. later[n] \in 1..Len(h.desc) /\ Labelled(h, n, later[n])
    <3>1. CASE later[n] = known[n] /\ ~OnStack(calls, n)
      <4>1. known[n] \in 0..Len(h.desc) /\ Len(h.desc) \in Nat
        BY HeapLemma
      <4> QED
        BY <1>1, <3>1, <4>1 DEF Labels
    <3> QED
      BY <1>1, <3>1
  <2> QED
    BY <2>1, LabelledKept
<1> QED
  BY <1>1 DEF Labels

\* A call that adds nothing still has its descriptor.
LEMMA NamesKept ==
  ASSUME NEW h, NEW g, HeapOK(h), Grown(h, g), NEW calls, NEW then, NEW f \in FrameOf(h),
         Names(h, calls, f), f.desc # 0 /\ Running(then, f.desc) => Running(calls, f.desc)
  PROVE  Names(g, then, f)
<1>1. f.desc # 0 => f.desc \in 1..Len(h.desc)
  BY HeapLemma DEF FrameOf
<1>2. f.desc # 0 => (Labelled(g, f.node, f.desc) <=> Labelled(h, f.node, f.desc))
  BY <1>1, LabelledKept
<1> QED
  BY <1>2 DEF Names

\* A call whose arrays stay has in them what it had.
LEMMA FillsKept ==
  ASSUME NEW h, NEW g, HeapOK(h), Grown(h, g), NEW f, Fills(h, f),
         Adds(f.node) /\ f.desc # 0 =>
           /\ f.desc \in TypeDescriptors(h)
           /\ g.arrays[h.desc[f.desc].items] = h.arrays[h.desc[f.desc].items]
  PROVE  Fills(g, f)
<1> SUFFICES ASSUME Adds(f.node), f.desc # 0
             PROVE  /\ g.desc[f.desc].node = f.node
                    /\ \A class \in Kinds :
                         Held(g, g.desc[f.desc].items, class) = Parts(Contents(class), class, f.node, f.at)
  BY DEF Fills
<1>1. f.desc \in 1..Len(h.desc) /\ h.desc[f.desc].class = "type"
  BY DEF TypeDescriptors
<1>2. PICK a : a = h.desc[f.desc].items
  OBVIOUS
<1>3. a \in 1..Len(h.arrays) /\ g.arrays[a] = h.arrays[a]
  BY <1>1, <1>2, ItemsLemma
<1>4. \A class : Held(g, a, class) = Held(h, a, class)
  BY <1>3, HeldKept
<1>5. g.desc[f.desc].items = a /\ g.desc[f.desc].node = h.desc[f.desc].node
  BY <1>1, <1>2, Zenon DEF Grown
<1> QED
  BY <1>2, <1>4, <1>5 DEF Fills

\* The elements of arrays are no refs when those that are added are none.
LEMMA PlainKept ==
  ASSUME NEW h, NEW g, HeapOK(h), Grown(h, g), Plain(h),
         \A a \in 1..Len(g.arrays) : \A i \in 1..Len(g.arrays[a].elements) :
           \/ \E b \in 1..Len(h.arrays) : \E j \in 1..Len(h.arrays[b].elements) :
                g.arrays[a].elements[i] = h.arrays[b].elements[j]
           \/ IsElement(g, g.arrays[a].elements[i])
  PROVE  Plain(g)
<1>1. ASSUME NEW a \in 1..Len(g.arrays), NEW i \in 1..Len(g.arrays[a].elements)
      PROVE  IsElement(g, g.arrays[a].elements[i])
  <2>1. CASE \E b \in 1..Len(h.arrays) : \E j \in 1..Len(h.arrays[b].elements) :
               g.arrays[a].elements[i] = h.arrays[b].elements[j]
    <3>0. PICK b \in 1..Len(h.arrays) : \E j \in 1..Len(h.arrays[b].elements) :
                                         g.arrays[a].elements[i] = h.arrays[b].elements[j]
      BY <2>1
    <3>1. PICK j \in 1..Len(h.arrays[b].elements) : g.arrays[a].elements[i] = h.arrays[b].elements[j]
      BY <3>0
    <3>2. PICK x : x = h.arrays[b].elements[j]
      OBVIOUS
    <3>3. x \in 1..Len(h.desc)
      <4>1. h.arrays[b].elements \in Seq(1..Len(h.desc))
        BY ArrayLemma
      <4> QED
        BY <3>2, <4>1
    <3>4. IsElement(h, x)
      BY <3>2 DEF Plain
    <3> QED
      BY <3>1, <3>2, <3>3, <3>4, IsElementKept
  <2> QED
    BY <1>1, <2>1, Zenon
<1> QED
  BY <1>1 DEF Plain

---------------------------------------------------------------------------
(* Calls that return, and what the call below gets.                        *)

\* A ref asks for what it refers to.
LEMMA RefLemma ==
  ASSUME Typing, NEW n \in Nodes, IsRef(n)
  PROVE  /\ Asks(n) = <<link[n]>> /\ Len(Asks(n)) = 1 /\ Asks(n)[1] = link[n]
         /\ link[n] \in Nodes /\ Class[link[n]] = Class[n] /\ Of(n) = link[n] /\ Of(link[n]) = link[n]
         /\ Class[n] \in {"element", "attribute", "group"} /\ ~Adds(n) /\ ~IsRef(link[n])
<1>1. link[n] # None /\ Class[link[n]] = Class[n] /\ Of(n) = link[n]
  BY DEF IsRef, Of
<1>2. link[n] \in Nodes /\ Class[n] \in {"element", "attribute", "group"}
  BY <1>1, LinkLemma
<1>3. Asks(n) = <<link[n]>>
  BY <1>1, <1>2 DEF Asks
<1>4. Of(Of(n)) = Of(n) /\ ~IsRef(Of(n))
  BY OfLemma
<1>5. ~Adds(n)
  BY AddingLemma
<1> QED
  BY <1>1, <1>2, <1>3, <1>4, <1>5

\* What a call gets from the node that it asks for.
Ready(h, known, calls, r) ==
  LET f == calls[1]
      k == Asks(f.node)[f.at + 1]
  IN
  /\ f.at < Len(Asks(f.node))
  /\ r \in 0..Len(h.desc) /\ ResultIn(h, k, r)
  /\ IF Class[f.node] = "element" /\ ~IsRef(f.node) THEN r # 0 /\ known[k] = r
     ELSE /\ r # 0 => Labelled(h, k, r)
          /\ r = 0 => \A class \in Kinds : Contents(class)[k] = <<>>

\* A call at its end.
LEMMA DoneLemma ==
  ASSUME Given, NEW h, NEW known, NEW calls, Sound(h, known, calls), Calls(h, calls),
         NEW f, calls # <<>>, f = calls[1], f.at = Len(Asks(f.node))
  PROVE  /\ 1 \in 1..Len(calls)
         /\ f.node \in Nodes /\ f.desc \in 0..Len(h.desc) /\ ResultIn(h, f.node, f.desc)
         /\ f.desc # 0 => Labelled(h, f.node, f.desc)
         /\ f.desc = 0 => \A class \in Kinds : Contents(class)[f.node] = <<>>
         /\ Adds(f.node) /\ f.desc # 0 => Complete(h, f.desc)
<1>0. Typing /\ WellFounded
  BY DEF Given
<1>1. 1 \in 1..Len(calls)
  <2>1. calls \in Seq(FrameOf(h))
    BY DEF Sound
  <2> QED
    BY <2>1, EmptySeq, LenProperties
<1>2. f.node \in Nodes /\ f.desc \in 0..Len(h.desc) /\ CallIn(h, f) /\ Fills(h, f) /\ Names(h, calls, f)
  BY <1>1, CallLemma DEF Calls
<1>3. IsRef(f.node) => f.at # 0
  BY <1>0, <1>2, RefLemma
<1>4. ResultIn(h, f.node, f.desc)
  BY <1>2, <1>3 DEF CallIn
<1>5. CASE Adds(f.node)
  <2>1. Of(f.node) = f.node /\ ~IsLeaf(f.node) /\ ~IsRef(f.node)
    BY <1>0, <1>2, <1>5, AddingLemma
  <2>2. ASSUME f.desc # 0 PROVE Labelled(h, f.node, f.desc) /\ Complete(h, f.desc)
    <3>1. /\ h.desc[f.desc].node = f.node
          /\ \A class \in Kinds :
               Held(h, h.desc[f.desc].items, class) = Parts(Contents(class), class, f.node, f.at)
      BY <1>2, <1>5, <2>2 DEF Fills
    <3>2. \A class : Contents(class)[f.node] = Parts(Contents(class), class, f.node, f.at)
      BY <1>0, <1>2, EquationLemma
    <3> QED
      BY <2>1, <3>1, <3>2 DEF Labelled, Complete
  <2>3. ASSUME f.desc = 0, NEW class PROVE Contents(class)[f.node] = <<>>
    <3>1. Asks(f.node) = <<>>
      BY <1>2, <2>1, <2>3 DEF CallIn
    <3> QED
      BY <1>0, <1>2, <3>1, EmptyLemma
  <2> QED
    BY <1>1, <1>2, <1>4, <2>2, <2>3
<1>6. CASE ~Adds(f.node)
  BY <1>1, <1>2, <1>3, <1>4, <1>6 DEF Names
<1> QED
  BY <1>5, <1>6

\* The calls below one that returned.
LEMMA RestLemma ==
  ASSUME NEW h, NEW known, NEW calls, Sound(h, known, calls), calls # <<>>,
         NEW rest, rest = Tail(calls)
  PROVE  /\ rest \in Seq(FrameOf(h)) /\ Len(rest) = Len(calls) - 1 /\ Len(calls) \in Nat
         /\ \A i \in 1..Len(rest) : i + 1 \in 1..Len(calls) /\ rest[i] = calls[i + 1]
         /\ \A i \in 1..Len(calls) : i = 1 \/ (i - 1 \in 1..Len(rest) /\ rest[i - 1] = calls[i])
         /\ \A i \in 1..Len(rest) : CallIn(h, rest[i])
         /\ FromAbove(rest)
         /\ rest # <<>> => 1 \in 1..Len(rest) /\ rest[1].at < Len(Asks(rest[1].node))
                           /\ calls[1].node = Asks(rest[1].node)[rest[1].at + 1]
<1>1. calls \in Seq(FrameOf(h))
  BY DEF Sound
<1>2. /\ rest \in Seq(FrameOf(h)) /\ Len(rest) = Len(calls) - 1 /\ Len(calls) \in Nat \ {0}
      /\ \A i \in 1..Len(rest) : rest[i] = calls[i + 1]
  BY <1>1, EmptySeq
<1>3. \A i \in 1..Len(rest) : i + 1 \in 1..Len(calls)
  BY <1>2
<1>4. \A i \in 1..Len(calls) : i = 1 \/ (i - 1 \in 1..Len(rest) /\ rest[i - 1] = calls[i])
  BY <1>2
<1>5. \A i \in 1..Len(rest) : CallIn(h, rest[i])
  BY <1>2, <1>3 DEF Sound
<1>6. /\ \A i \in 1..(Len(calls) - 1) :
           /\ calls[i + 1].at < Len(Asks(calls[i + 1].node))
           /\ calls[i].node = Asks(calls[i + 1].node)[calls[i + 1].at + 1]
      /\ Depth[calls[Len(calls)].node] = 0
  BY Zenon DEF Sound, FromAbove
<1>7. rest # <<>> => Len(rest) # 0 /\ Len(rest) \in 1..Len(rest) /\ 1 \in 1..Len(rest)
  <2>1. Len(rest) = 0 => rest = <<>>
    BY <1>2, EmptySeq
  <2> QED
    BY <1>2, <2>1
<1>8. FromAbove(rest)
  <2>1. ASSUME NEW i \in 1..(Len(rest) - 1)
        PROVE  /\ rest[i + 1].at < Len(Asks(rest[i + 1].node))
               /\ rest[i].node = Asks(rest[i + 1].node)[rest[i + 1].at + 1]
    <3>1. i + 1 \in 1..(Len(calls) - 1) /\ i \in 1..Len(rest) /\ i + 1 \in 1..Len(rest)
      BY <1>2
    <3>2. rest[i] = calls[i + 1] /\ rest[i + 1] = calls[(i + 1) + 1]
      BY <1>2, <3>1
    <3> QED
      BY <1>6, <3>1, <3>2
  <2>2. rest # <<>> => rest[Len(rest)] = calls[Len(calls)]
    BY <1>2, <1>7
  <2> QED
    BY <1>6, <2>1, <2>2 DEF FromAbove
<1>9. ASSUME rest # <<>>
      PROVE  /\ rest[1].at < Len(Asks(rest[1].node))
             /\ calls[1].node = Asks(rest[1].node)[rest[1].at + 1]
  <2>1. 1 \in 1..(Len(calls) - 1) /\ rest[1] = calls[1 + 1]
    BY <1>2, <1>7, <1>9
  <2> QED
    BY <1>6, <2>1, Zenon
<1> QED
  BY <1>2, <1>3, <1>4, <1>5, <1>7, <1>8, <1>9

\* A call returns: what is remembered, and the calls below it.
Returned(h, known, calls, later, rest) ==
  /\ calls # <<>> /\ rest = Tail(calls)
  /\ calls[1].at = Len(Asks(calls[1].node))
  /\ later = IF Class[calls[1].node] \in {"particle", "simpleType"}
               THEN known ELSE [known EXCEPT ![calls[1].node] = calls[1].desc]
  /\ Class[calls[1].node] = "complexType" => known[calls[1].node] = calls[1].desc

\* A state after a return is sound.
LEMMA ReturnedSound ==
  ASSUME Given, NEW h, NEW known, NEW calls, Sound(h, known, calls), Calls(h, calls),
         NEW later, NEW rest, Returned(h, known, calls, later, rest)
  PROVE  Sound(h, later, rest) /\ Recalls(known, later)
<1>1. PICK f : f = calls[1]
  OBVIOUS
<1>2. /\ calls # <<>> /\ rest = Tail(calls) /\ f.at = Len(Asks(f.node))
      /\ later = IF Class[f.node] \in {"particle", "simpleType"}
                   THEN known ELSE [known EXCEPT ![f.node] = f.desc]
      /\ Class[f.node] = "complexType" => known[f.node] = f.desc
  BY <1>1 DEF Returned
<1>3. f.node \in Nodes /\ f.desc \in 0..Len(h.desc) /\ ResultIn(h, f.node, f.desc)
  BY <1>1, <1>2, DoneLemma
<1>4. known \in [Nodes -> 0..Len(h.desc)] /\ \A n \in Nodes : known[n] # 0 => ResultIn(h, n, known[n])
  BY DEF Sound
<1>5. later \in [Nodes -> 0..Len(h.desc)]
  BY <1>2, <1>3, <1>4
<1>6. \A n \in Nodes : later[n] = known[n] \/ (n = f.node /\ later[n] = f.desc)
  BY <1>2, <1>4
<1>7. \A n \in Nodes : later[n] # 0 => ResultIn(h, n, later[n])
  BY <1>3, <1>4, <1>6
<1>8. Recalls(known, later)
  BY <1>2, <1>6 DEF Recalls
<1>9. rest \in Seq(FrameOf(h)) /\ (\A i \in 1..Len(rest) : CallIn(h, rest[i])) /\ FromAbove(rest)
  BY <1>2, RestLemma, Zenon
<1> QED
  BY <1>5, <1>7, <1>8, <1>9 DEF Sound

\* A call that returns has given its descriptor what its node contains.
LEMMA ReturnedMatching ==
  ASSUME Given, NEW h, NEW known, NEW calls, Sound(h, known, calls), Matching(h, known, calls),
         NEW later, NEW rest, Returned(h, known, calls, later, rest)
  PROVE  Matching(h, later, rest)
<1>0. Typing /\ HeapOK(h) /\ known \in [Nodes -> 0..Len(h.desc)]
      /\ \A n \in Nodes : known[n] # 0 => ResultIn(h, n, known[n])
  BY DEF Given, Sound
<1>1. PICK f : f = calls[1]
  OBVIOUS
<1>2. /\ calls # <<>> /\ rest = Tail(calls) /\ f.at = Len(Asks(f.node))
      /\ later = IF Class[f.node] \in {"particle", "simpleType"}
                   THEN known ELSE [known EXCEPT ![f.node] = f.desc]
  BY <1>1 DEF Returned
<1>3. /\ 1 \in 1..Len(calls) /\ f.node \in Nodes /\ f.desc \in 0..Len(h.desc)
      /\ f.desc # 0 => Labelled(h, f.node, f.desc)
      /\ Adds(f.node) /\ f.desc # 0 => Complete(h, f.desc)
  BY <1>1, <1>2, DoneLemma DEF Matching
<1>4. Sound(h, later, rest) /\ Recalls(known, later)
  BY ReturnedSound DEF Matching
<1>5. /\ \A i \in 1..Len(rest) : i + 1 \in 1..Len(calls) /\ rest[i] = calls[i + 1]
      /\ \A i \in 1..Len(calls) : i = 1 \/ (i - 1 \in 1..Len(rest) /\ rest[i - 1] = calls[i])
      /\ Len(rest) = Len(calls) - 1 /\ Len(calls) \in Nat
  BY <1>2, RestLemma
<1>6. \A n \in Nodes : later[n] = known[n] \/ (n = f.node /\ later[n] = f.desc)
  BY <1>0, <1>2
<1>7. Grown(h, h)
  BY <1>0, HeapLemma DEF Grown
<1>8. \A d : Running(rest, d) => Running(calls, d)
  BY <1>5 DEF Running
<1>9. Completes(h, rest)
  <2>1. ASSUME NEW d \in TypeDescriptors(h), ~Running(rest, d) PROVE Complete(h, d)
    <3>1. CASE ~Running(calls, d)
      BY <3>1 DEF Matching, Completes
    <3>2. CASE Running(calls, d)
      <4>1. PICK i \in 1..Len(calls) : Adds(calls[i].node) /\ calls[i].desc = d
        BY <3>2 DEF Running
      <4>2. i = 1
        BY <1>5, <2>1, <4>1 DEF Running
      <4>3. d # 0
        BY <1>0, HeapLemma DEF TypeDescriptors
      <4> QED
        BY <1>1, <1>3, <4>1, <4>2, <4>3
    <3> QED
      BY <3>1, <3>2
  <2> QED
    BY <2>1 DEF Completes
<1>10. Elements(h, later, rest)
  <2>1. Near(h, h)
    <3>1. \A d \in TypeDescriptors(h) : d \in 1..Len(h.desc) /\ Len(h.desc) \in Nat
      BY <1>0, HeapLemma DEF TypeDescriptors
    <3> QED
      BY <1>7, <3>1 DEF Near
  <2>2. ASSUME NEW d, Pending(calls, d) PROVE Pending(rest, d)
    <3>1. PICK i \in 1..Len(calls) :
            /\ Class[calls[i].node] = "element" /\ ~IsRef(calls[i].node)
            /\ calls[i].desc = d /\ calls[i].at < Len(Asks(calls[i].node))
      BY <2>2 DEF Pending
    <3>2. i # 1
      <4>1. Len(Asks(f.node)) \in Nat
        BY <1>0, <1>3, AsksLemma, LenProperties
      <4> QED
        BY <1>1, <1>2, <3>1, <4>1
    <3> QED
      BY <1>5, <3>1, <3>2 DEF Pending
  <2>3. \A d \in 1..Len(h.desc) : ~(d > Len(h.desc))
    BY <1>0, HeapLemma
  <2>4. Elements(h, known, calls)
    BY DEF Matching
  <2> QED
    BY <1>0, <1>4, <2>1, <2>2, <2>3, <2>4, ElementsKept
<1>11. Memory(known, calls) /\ Apart(calls) /\ Labels(h, known, calls)
  BY DEF Matching
<1>12. Labels(h, later, rest)
  <2>1. ASSUME NEW n \in Nodes, later[n] # 0, ~OnStack(rest, n)
        PROVE  \/ later[n] = known[n] /\ ~OnStack(calls, n)
               \/ later[n] \in 1..Len(h.desc) /\ Labelled(h, n, later[n])
    <3>1. CASE n = f.node
      <4>1. later[n] = f.desc
        <5>1. Class[n] \in {"particle", "simpleType"} => known[n] = 0
          BY <1>11 DEF Memory
        <5> QED
          BY <1>0, <1>2, <2>1, <3>1, <5>1
      <4>2. f.desc \in 1..Len(h.desc)
        BY <1>0, <1>3, <2>1, <4>1, HeapLemma
      <4> QED
        BY <1>3, <3>1, <4>1, <4>2
    <3>2. CASE n # f.node
      <4>1. later[n] = known[n]
        BY <1>6, <3>2
      <4>2. ~OnStack(calls, n)
        BY <1>1, <1>5, <2>1, <3>2 DEF OnStack
      <4> QED
        BY <4>1, <4>2
    <3> QED
      BY <3>1, <3>2
  <2> QED
    BY <1>0, <1>7, <1>11, <2>1, LabelsKept
<1>13. Calls(h, rest)
  <2>1. ASSUME NEW i \in 1..Len(rest) PROVE Fills(h, rest[i]) /\ Names(h, rest, rest[i])
    <3>1. i + 1 \in 1..Len(calls) /\ rest[i] = calls[i + 1]
      BY <1>5
    <3>2. Fills(h, rest[i]) /\ Names(h, calls, rest[i])
      BY <3>1 DEF Matching, Calls
    <3> QED
      BY <1>8, <3>2 DEF Names
  <2> QED
    BY <2>1 DEF Calls
<1>14. Apart(rest)
  <2>1. ASSUME NEW i \in 1..Len(rest), NEW j \in 1..Len(rest), i # j
        PROVE  /\ rest[i].node # rest[j].node
               /\ Adds(rest[i].node) /\ rest[i].desc # 0 /\ Adds(rest[j].node)
                    => rest[i].desc # rest[j].desc
    <3>1. i + 1 \in 1..Len(calls) /\ j + 1 \in 1..Len(calls) /\ i + 1 # j + 1
          /\ rest[i] = calls[i + 1] /\ rest[j] = calls[j + 1]
      BY <1>5, <2>1
    <3> QED
      BY <1>11, <3>1 DEF Apart
  <2> QED
    BY <2>1 DEF Apart
<1>15. Memory(later, rest)
  <2>1. ASSUME NEW i \in 1..Len(rest), Remembers(rest[i].node) PROVE later[rest[i].node] # 0
    <3>1. i + 1 \in 1..Len(calls) /\ rest[i] = calls[i + 1] /\ i + 1 # 1
      BY <1>5
    <3>2. rest[i].node # f.node
      BY <1>1, <1>3, <1>11, <3>1 DEF Apart
    <3>3. rest[i].node \in Nodes
      BY <3>1, CallLemma
    <3>4. later[rest[i].node] = known[rest[i].node]
      BY <1>6, <3>2, <3>3
    <3> QED
      BY <1>11, <2>1, <3>1, <3>4 DEF Memory
  <2>2. ASSUME NEW n \in Nodes, Class[n] \in {"particle", "simpleType"} PROVE later[n] = 0
    BY <1>0, <1>2, <1>11, <2>2 DEF Memory
  <2> QED
    BY <2>1, <2>2 DEF Memory
<1> QED
  BY <1>9, <1>10, <1>12, <1>13, <1>14, <1>15 DEF Matching

\* The call below gets the descriptor that was returned.
LEMMA ReturnedReady ==
  ASSUME Given, NEW h, NEW known, NEW calls, Sound(h, known, calls), Matching(h, known, calls),
         NEW later, NEW rest, Returned(h, known, calls, later, rest), rest # <<>>
  PROVE  Ready(h, later, rest, calls[1].desc)
<1>0. Typing /\ Calls(h, calls) /\ known \in [Nodes -> 0..Len(h.desc)]
  BY DEF Given, Matching, Sound
<1>1. PICK f : f = calls[1]
  OBVIOUS
<1>2. /\ calls # <<>> /\ rest = Tail(calls) /\ f.at = Len(Asks(f.node))
      /\ later = IF Class[f.node] \in {"particle", "simpleType"}
                   THEN known ELSE [known EXCEPT ![f.node] = f.desc]
  BY <1>1 DEF Returned
<1>3. /\ f.node \in Nodes /\ f.desc \in 0..Len(h.desc) /\ ResultIn(h, f.node, f.desc)
      /\ f.desc # 0 => Labelled(h, f.node, f.desc)
      /\ f.desc = 0 => \A class \in Kinds : Contents(class)[f.node] = <<>>
  BY <1>0, <1>1, <1>2, DoneLemma
<1>4. PICK b : b = rest[1]
  OBVIOUS
<1>5. b.at < Len(Asks(b.node)) /\ f.node = Asks(b.node)[b.at + 1] /\ b.node \in Nodes /\ b.at \in Nat
  <2>1. 1 \in 1..Len(rest) /\ b.at < Len(Asks(b.node)) /\ f.node = Asks(b.node)[b.at + 1]
    BY <1>1, <1>2, <1>4, RestLemma
  <2>2. Sound(h, later, rest)
    BY <1>0, ReturnedSound
  <2> QED
    BY <1>4, <2>1, <2>2, CallLemma
<1>6. ASSUME Class[b.node] = "element", ~IsRef(b.node) PROVE f.desc # 0 /\ later[f.node] = f.desc
  <2>1. Len(Asks(b.node)) <= 1 /\ Asks(b.node) \in Seq(Nodes)
        /\ (Asks(b.node) # <<>> => Class[Asks(b.node)[1]] = "complexType")
    BY <1>0, <1>5, <1>6, AsksLemma
  <2>2. Len(Asks(b.node)) \in Nat
    BY <2>1, LenProperties
  <2>3. b.at = 0 /\ Asks(b.node) # <<>>
    BY <1>5, <2>1, <2>2, EmptySeq
  <2>4. b.at + 1 = 1
    BY <2>3
  <2>5. Class[f.node] = "complexType"
    BY <1>5, <2>1, <2>3, <2>4
  <2>6. f.desc # 0
    BY <1>3, <2>5 DEF ResultIn
  <2> QED
    BY <1>0, <1>2, <1>3, <2>5, <2>6
<1> QED
  BY <1>1, <1>3, <1>4, <1>5, <1>6 DEF Ready

---------------------------------------------------------------------------
(* Calls that take a descriptor.                                           *)

\* A call asks for what was described before.
LEMMA ReuseReady ==
  ASSUME Given, NEW h, NEW known, NEW calls, Sound(h, known, calls), Matching(h, known, calls),
         calls # <<>>, NEW f, f = calls[1], f.at < Len(Asks(f.node)),
         NEW k, k = Asks(f.node)[f.at + 1], k \in Nodes, known[k] # 0
  PROVE  Ready(h, known, calls, known[k])
<1>1. known[k] \in 0..Len(h.desc) /\ ResultIn(h, k, known[k])
  BY DEF Sound
<1>2. ASSUME ~(Class[f.node] = "element" /\ ~IsRef(f.node)) PROVE Labelled(h, k, known[k])
  <2>1. ~OnStack(calls, k)
    BY <1>2, FarLemma DEF Matching
  <2>2. Labels(h, known, calls)
    BY DEF Matching
  <2> QED
    BY <2>1, <2>2 DEF Labels
<1> QED
  BY <1>1, <1>2 DEF Ready

\* The call at the top has taken one more, and has the descriptor d now.
Advanced(calls, then, d) ==
  /\ Len(then) = Len(calls)
  /\ then[1].node = calls[1].node /\ then[1].desc = d /\ then[1].at = calls[1].at + 1
  /\ \A i \in 2..Len(calls) : then[i] = calls[i]
  /\ Adds(calls[1].node) => d = calls[1].desc

\* A call that goes on changes nothing for those below it.
LEMMA AdvancedLemma ==
  ASSUME NEW h, NEW known, NEW calls, Sound(h, known, calls), calls # <<>>,
         NEW then, NEW d, Advanced(calls, then, d)
  PROVE  /\ 1 \in 1..Len(calls) /\ Len(calls) \in Nat /\ Len(then) = Len(calls)
         /\ \A i \in 1..Len(calls) : i = 1 \/ (i \in 2..Len(calls) /\ then[i] = calls[i])
         /\ \A i \in 1..Len(calls) : then[i].node = calls[i].node
         /\ \A i \in 1..Len(calls) : Adds(calls[i].node) => then[i].desc = calls[i].desc
         /\ \A n : OnStack(then, n) <=> OnStack(calls, n)
         /\ \A x : Running(then, x) <=> Running(calls, x)
         /\ \A x : x # calls[1].desc \/ ~(Class[calls[1].node] = "element" /\ ~IsRef(calls[1].node)) =>
              (Pending(calls, x) => Pending(then, x))
         /\ Apart(calls) => Apart(then)
         /\ Memory(known, calls) => Memory(known, then)
<1>1. 1 \in 1..Len(calls) /\ Len(calls) \in Nat
  <2>1. calls \in Seq(FrameOf(h))
    BY DEF Sound
  <2> QED
    BY <2>1, EmptySeq, LenProperties
<1>2. /\ Len(then) = Len(calls)
      /\ \A i \in 1..Len(calls) : i = 1 \/ (i \in 2..Len(calls) /\ then[i] = calls[i])
      /\ \A i \in 1..Len(calls) : then[i].node = calls[i].node
      /\ \A i \in 1..Len(calls) : Adds(calls[i].node) => then[i].desc = calls[i].desc
  BY <1>1 DEF Advanced
<1>3. \A n : OnStack(then, n) <=> OnStack(calls, n)
  BY <1>2 DEF OnStack
<1>4. \A x : Running(then, x) <=> Running(calls, x)
  BY <1>2 DEF Running
<1>5. ASSUME NEW x, x # calls[1].desc \/ ~(Class[calls[1].node] = "element" /\ ~IsRef(calls[1].node)),
             Pending(calls, x)
      PROVE  Pending(then, x)
  <2>1. PICK i \in 1..Len(calls) :
          /\ Class[calls[i].node] = "element" /\ ~IsRef(calls[i].node)
          /\ calls[i].desc = x /\ calls[i].at < Len(Asks(calls[i].node))
    BY <1>5 DEF Pending
  <2>2. then[i] = calls[i]
    BY <1>2, <1>5, <2>1
  <2> QED
    BY <1>2, <2>1, <2>2 DEF Pending
<1>6. Apart(calls) => Apart(then)
  <2>1. ASSUME Apart(calls), NEW i \in 1..Len(calls), NEW j \in 1..Len(calls), i # j
        PROVE  /\ then[i].node # then[j].node
               /\ Adds(then[i].node) /\ then[i].desc # 0 /\ Adds(then[j].node)
                    => then[i].desc # then[j].desc
    BY <1>2, <2>1 DEF Apart
  <2> QED
    BY <1>2, <2>1 DEF Apart
<1>7. Memory(known, calls) => Memory(known, then)
  BY <1>2 DEF Memory
<1> QED
  BY <1>1, <1>2, <1>3, <1>4, <1>5, <1>6, <1>7

\* What a call gets from what it asks for.
Taking(h, known, calls, r) ==
  /\ Sound(h, known, calls) /\ Matching(h, known, calls)
  /\ calls # <<>> /\ Ready(h, known, calls, r)

\* The heap is that of before but for what the call at the top does.
Taken(h, g, known, calls, then) ==
  /\ Near(h, g)
  /\ \A d \in TypeDescriptors(g) : d \in 1..Len(h.desc)
  /\ \A d \in TypeDescriptors(h) :
       ~(Adds(calls[1].node) /\ d = calls[1].desc) =>
         g.arrays[h.desc[d].items] = h.arrays[h.desc[d].items]
  /\ Elements(g, known, then)
  /\ Fills(g, then[1]) /\ Names(g, then, then[1])
  /\ Plain(g)

\* The invariant after a call took a descriptor, from what it does to the heap.
LEMMA TakenMatching ==
  ASSUME Given, NEW h, NEW g, NEW known, NEW calls, NEW then, NEW r, Taking(h, known, calls, r),
         NEW d, Advanced(calls, then, d), Taken(h, g, known, calls, then)
  PROVE  Matching(g, known, then)
<1>0. /\ Typing /\ HeapOK(h) /\ Sound(h, known, calls) /\ calls # <<>> /\ Near(h, g) /\ Grown(h, g)
      /\ known \in [Nodes -> 0..Len(h.desc)]
      /\ Alone(h) /\ Completes(h, calls) /\ Labels(h, known, calls) /\ Calls(h, calls)
      /\ Apart(calls) /\ Memory(known, calls) /\ Plain(h)
  BY DEF Given, Taking, Sound, Matching, Taken, Near
<1>1. /\ 1 \in 1..Len(calls) /\ Len(calls) \in Nat /\ Len(then) = Len(calls)
      /\ \A i \in 1..Len(calls) : i = 1 \/ (i \in 2..Len(calls) /\ then[i] = calls[i])
      /\ \A n : OnStack(then, n) <=> OnStack(calls, n)
      /\ \A x : Running(then, x) <=> Running(calls, x)
      /\ Apart(then) /\ Memory(known, then)
  BY <1>0, AdvancedLemma
<1>2. /\ \A x \in TypeDescriptors(g) : x \in 1..Len(h.desc)
      /\ \A x \in TypeDescriptors(h) :
           ~(Adds(calls[1].node) /\ x = calls[1].desc) =>
             g.arrays[h.desc[x].items] = h.arrays[h.desc[x].items]
  BY DEF Taken
<1>3. \A x \in TypeDescriptors(g) : ~(x > Len(h.desc))
  BY <1>0, <1>2, HeapLemma
<1>4. Alone(g)
  BY <1>0, <1>3, AloneKept
<1>5. Completes(g, then)
  <2>1. ASSUME NEW x \in TypeDescriptors(h), ~Running(then, x)
        PROVE  ~Running(calls, x) /\ g.arrays[h.desc[x].items] = h.arrays[h.desc[x].items]
    <3>1. ~Running(calls, x)
      BY <1>1, <2>1
    <3>2. ~(Adds(calls[1].node) /\ x = calls[1].desc)
      BY <1>1, <3>1 DEF Running
    <3> QED
      BY <1>2, <3>1, <3>2
  <2> QED
    BY <1>0, <1>3, <2>1, CompletesKept
<1>6. Labels(g, known, then)
  BY <1>0, <1>1, LabelsKept
<1>7. Calls(g, then)
  <2>1. ASSUME NEW i \in 1..Len(calls), i # 1 PROVE Fills(g, then[i]) /\ Names(g, then, then[i])
    <3>1. then[i] = calls[i] /\ calls[i] \in FrameOf(h)
      BY <1>0, <1>1, <2>1, CallLemma
    <3>2. Fills(h, calls[i]) /\ Names(h, calls, calls[i])
      BY <1>0 DEF Calls
    <3>3. Names(g, then, calls[i])
      BY <1>0, <1>1, <3>1, <3>2, NamesKept
    <3>4. ASSUME Adds(calls[i].node), calls[i].desc # 0
          PROVE  /\ calls[i].desc \in TypeDescriptors(h)
                 /\ g.arrays[h.desc[calls[i].desc].items] = h.arrays[h.desc[calls[i].desc].items]
      <4>1. calls[i].desc \in TypeDescriptors(h)
        BY <1>0, <3>4, TargetLemma
      <4>2. ~(Adds(calls[1].node) /\ calls[i].desc = calls[1].desc)
        BY <1>0, <1>1, <2>1, <3>4 DEF Apart
      <4> QED
        BY <1>2, <4>1, <4>2
    <3>5. Fills(g, calls[i])
      BY <1>0, <3>2, <3>4, FillsKept
    <3> QED
      BY <3>1, <3>3, <3>5
  <2>2. Fills(g, then[1]) /\ Names(g, then, then[1])
    BY DEF Taken
  <2> QED
    BY <1>1, <2>1, <2>2 DEF Calls
<1>8. Elements(g, known, then) /\ Plain(g)
  BY DEF Taken
<1> QED
  BY <1>1, <1>4, <1>5, <1>6, <1>7, <1>8 DEF Matching

---------------------------------------------------------------------------
(* What each kind of node does with what it takes.                         *)

\* The call at the top and what it asks for.
LEMMA TopLemma ==
  ASSUME Given, NEW h, NEW known, NEW calls, NEW r, Taking(h, known, calls, r),
         NEW f, f = calls[1], NEW k, k = Asks(f.node)[f.at + 1]
  PROVE  /\ Typing /\ WellFounded /\ HeapOK(h) /\ calls # <<>>
         /\ Sound(h, known, calls) /\ Matching(h, known, calls) /\ Ready(h, known, calls, r)
         /\ 1 \in 1..Len(calls) /\ f \in FrameOf(h)
         /\ f.node \in Nodes /\ f.at \in Nat /\ f.desc \in 0..Len(h.desc) /\ CallIn(h, f)
         /\ Fills(h, f) /\ Names(h, calls, f)
         /\ f.at < Len(Asks(f.node)) /\ f.at + 1 \in 1..Len(Asks(f.node))
         /\ k \in Nodes /\ r \in 0..Len(h.desc) /\ ResultIn(h, k, r)
<1>1. /\ Typing /\ WellFounded /\ HeapOK(h) /\ calls # <<>> /\ calls \in Seq(FrameOf(h))
      /\ Sound(h, known, calls) /\ Matching(h, known, calls) /\ Ready(h, known, calls, r)
  BY DEF Given, Taking, Sound
<1>2. 1 \in 1..Len(calls)
  BY <1>1, EmptySeq, LenProperties
<1>3. f \in FrameOf(h) /\ f.node \in Nodes /\ f.at \in Nat /\ f.desc \in 0..Len(h.desc) /\ CallIn(h, f)
  BY <1>1, <1>2, CallLemma
<1>4. Fills(h, f) /\ Names(h, calls, f)
  BY <1>1, <1>2 DEF Matching, Calls
<1>5. f.at < Len(Asks(f.node)) /\ r \in 0..Len(h.desc) /\ ResultIn(h, k, r)
  BY <1>1 DEF Ready
<1>6. Asks(f.node) \in Seq(Nodes)
  BY <1>1, <1>3, AsksLemma
<1>7. f.at + 1 \in 1..Len(Asks(f.node)) /\ k \in Nodes
  <2>1. PICK l : l = Len(Asks(f.node))
    BY Zenon
  <2>2. l \in Nat /\ f.at < l
    BY <1>5, <1>6, <2>1, LenProperties
  <2>3. f.at + 1 \in 1..l
    BY <1>3, <2>2
  <2> QED
    BY <1>6, <2>1, <2>3
<1> QED
  BY <1>1, <1>2, <1>3, <1>4, <1>5, <1>7

\* An element that nobody describes is linked with its type, and its clones are.
LEMMA SettledLemma ==
  ASSUME Given, NEW h, NEW known, NEW calls, Sound(h, known, calls), Matching(h, known, calls),
         NEW r \in 1..Len(h.desc), IsElement(h, r), ~OnStack(calls, h.desc[r].node),
         NEW g, Near(h, g), NEW c \in 1..Len(g.desc),
         g.desc[c].node = h.desc[r].node, g.desc[c].items = h.desc[r].items
  PROVE  Class[g.desc[c].node] = "element" /\ Linked(g, known, c)
<1>0. /\ Typing /\ HeapOK(h) /\ known \in [Nodes -> 0..Len(h.desc)]
      /\ \A n \in Nodes : known[n] # 0 => ResultIn(h, n, known[n])
      /\ Elements(h, known, calls) /\ Calls(h, calls)
  BY DEF Given, Sound, Matching
<1>1. Class[h.desc[r].node] = "element" /\ ElementOK(h, known, calls, r)
  BY <1>0 DEF Elements
<1>2. ~Pending(calls, r)
  <2>1. ASSUME NEW i \in 1..Len(calls), Class[calls[i].node] = "element", ~IsRef(calls[i].node),
               calls[i].desc = r
        PROVE  FALSE
    <3>1. calls[i].node \in Nodes /\ r # 0
      BY <1>0, CallLemma, HeapLemma
    <3>2. ~Adds(calls[i].node)
      BY <2>1 DEF Adds
    <3>3. Names(h, calls, calls[i])
      BY <1>0 DEF Calls
    <3>4. Labelled(h, calls[i].node, r)
      BY <2>1, <3>1, <3>2, <3>3 DEF Names
    <3>5. h.desc[r].node = calls[i].node
      BY <2>1, <3>4 DEF Labelled, Of
    <3> QED
      BY <3>5 DEF OnStack
  <2> QED
    BY <2>1 DEF Pending
<1>3. Linked(h, known, r)
  BY <1>1, <1>2 DEF ElementOK
<1>4. Recalls(known, known)
  BY DEF Recalls
<1> QED
  BY <1>0, <1>1, <1>3, <1>4, LinkedKept

\* A ref to an element takes a clone of its descriptor.
LEMMA CloneMatching ==
  ASSUME Given, NEW h, NEW known, NEW calls, NEW r, Taking(h, known, calls, r),
         NEW n, n = calls[1].node, Class[n] = "element", IsRef(n),
         NEW g, g = WithClone(h, r, n \in many), NEW then, Advanced(calls, then, Newest(g))
  PROVE  Matching(g, known, then)
<1>1. PICK f : f = calls[1]
  OBVIOUS
<1>2. PICK k : k = Asks(f.node)[f.at + 1]
  OBVIOUS
<1>3. /\ Typing /\ HeapOK(h) /\ calls # <<>>
      /\ Sound(h, known, calls) /\ Matching(h, known, calls) /\ Ready(h, known, calls, r)
      /\ 1 \in 1..Len(calls) /\ f.node = n /\ n \in Nodes /\ f.at \in Nat
      /\ f.at < Len(Asks(n)) /\ k \in Nodes /\ r \in 0..Len(h.desc) /\ ResultIn(h, k, r)
  BY <1>1, <1>2, TopLemma
<1>4. /\ k = link[n] /\ Class[k] = "element" /\ Of(n) = k /\ Of(k) = k /\ ~IsRef(k) /\ ~Adds(n)
  <2>1. Len(Asks(n)) = 1
    BY <1>3, RefLemma
  <2>2. f.at + 1 = 1
    BY <1>3, <2>1
  <2> QED
    BY <1>2, <1>3, <2>2, RefLemma
<1>5. Len(h.desc) \in Nat /\ r \in 1..Len(h.desc) /\ h.desc[r].class = "element"
  <2>1. r # 0
    BY <1>3, <1>4 DEF ResultIn
  <2>2. Len(h.desc) \in Nat
    BY <1>3, HeapLemma
  <2> QED
    BY <1>3, <1>4, <2>1, <2>2 DEF ResultIn, ClassOf
<1>6. Labelled(h, k, r)
  BY <1>1, <1>2, <1>3, <1>5 DEF Ready
<1>7. h.desc[r].node = k /\ (h.desc[r].many <=> k \in many)
  <2>1. h.desc[r].node = k /\ h.desc[r].many = ({k, k} \cap many # {})
    BY <1>4, <1>6 DEF Labelled, IsLeaf
  <2> QED
    BY <2>1, Zenon
<1>8. ~OnStack(calls, k)
  BY <1>1, <1>2, <1>3, FarLemma DEF Matching
<1>9. PICK c : c = Newest(g)
  OBVIOUS
<1>10. /\ Grown(h, g) /\ c = Len(h.desc) + 1 /\ Len(g.desc) = Len(h.desc) + 1
       /\ g.desc[c].class = "element" /\ g.desc[c].node = k /\ g.desc[c].items = h.desc[r].items
       /\ g.desc[c].many = (h.desc[r].many \/ n \in many)
       /\ \A e \in 1..Len(h.desc) : g.desc[e] = h.desc[e]
       /\ g.arrays = h.arrays
  <2>1. (n \in many) \in BOOLEAN
    OBVIOUS
  <2> DEFINE m == n \in many
             q == WithClone(h, r, m)
  <2>2. g = q
    OBVIOUS
  <2> HIDE DEF m
  <2>4. m \in BOOLEAN
    BY <2>1 DEF m
  <2>3. /\ Grown(h, g) /\ Newest(g) = Len(h.desc) + 1 /\ Len(g.desc) = Len(h.desc) + 1
        /\ g.desc[Newest(g)].class = h.desc[r].class
        /\ g.desc[Newest(g)].node = h.desc[r].node
        /\ g.desc[Newest(g)].items = h.desc[r].items
        /\ g.desc[Newest(g)].many = (h.desc[r].many \/ m)
        /\ \A e \in 1..Len(h.desc) : g.desc[e] = h.desc[e]
        /\ g.arrays = h.arrays
    <3>1. /\ Grown(h, q) /\ Newest(q) = Len(h.desc) + 1 /\ Len(q.desc) = Len(h.desc) + 1
          /\ q.desc[Newest(q)].class = h.desc[r].class
          /\ q.desc[Newest(q)].node = h.desc[r].node
          /\ q.desc[Newest(q)].items = h.desc[r].items
          /\ q.desc[Newest(q)].many = (h.desc[r].many \/ m)
          /\ \A e \in 1..Len(h.desc) : q.desc[e] = h.desc[e]
          /\ q.arrays = h.arrays
      BY <1>3, <1>5, <2>4, CloneLemma
    <3> HIDE DEF q
    <3> QED
      BY <2>2, <3>1, Zenon
  <2> QED
    BY <1>5, <1>7, <1>9, <2>3 DEF m
<1>11. \A x \in 1..Len(g.desc) : x \in 1..Len(h.desc) \/ x = c
  BY <1>5, <1>10
<1>12. \A x \in TypeDescriptors(g) : x \in 1..Len(h.desc) /\ ~(x > Len(h.desc))
  <2>1. \A x \in TypeDescriptors(g) : x \in 1..Len(h.desc)
    BY <1>10, <1>11 DEF TypeDescriptors
  <2> QED
    BY <1>5, <2>1
<1>13. Near(h, g)
  BY <1>10, <1>12 DEF Near
<1>14. c \in 1..Len(g.desc)
  BY <1>5, <1>10
<1>15. Class[g.desc[c].node] = "element" /\ Linked(g, known, c)
  <2>1. IsElement(h, r)
    BY <1>4, <1>5, <1>7 DEF IsElement
  <2>2. ~OnStack(calls, h.desc[r].node)
    BY <1>7, <1>8, Zenon
  <2>3. g.desc[c].node = h.desc[r].node /\ g.desc[c].items = h.desc[r].items
    BY <1>7, <1>10, Zenon
  <2> QED
    BY <1>3, <1>5, <1>13, <1>14, <2>1, <2>2, <2>3, SettledLemma
<1>16. Elements(g, known, then)
  <2>1. \A d \in 1..Len(h.desc) : g.desc[d].items = h.desc[d].items /\ (Pending(calls, d) => Pending(then, d))
    <3>1. \A x : Pending(calls, x) => Pending(then, x)
      BY <1>3, AdvancedLemma
    <3> QED
      BY <1>10, <3>1
  <2>2. \A d \in 1..Len(g.desc) : d > Len(h.desc) /\ IsElement(g, d) =>
          Class[g.desc[d].node] = "element" /\ ElementOK(g, known, then, d)
    <3>1. \A d \in 1..Len(g.desc) : d > Len(h.desc) => d = c
      BY <1>5, <1>10
    <3> QED
      BY <1>15, <3>1 DEF ElementOK
  <2>3. /\ known \in [Nodes -> 0..Len(h.desc)]
        /\ \A m \in Nodes : known[m] # 0 => ResultIn(h, m, known[m])
        /\ Recalls(known, known) /\ Elements(h, known, calls)
    BY <1>3 DEF Sound, Matching, Recalls
  <2> QED
    BY <1>3, <1>13, <2>1, <2>2, <2>3, ElementsKept, Zenon
<1>17. then[1].node = n /\ then[1].desc = c
  BY <1>9 DEF Advanced
<1>18. Names(g, then, then[1])
  <2>1. Labelled(g, n, c)
    <3>1. g.desc[c].many = ({n, Of(n)} \cap many # {})
      BY <1>4, <1>7, <1>10
    <3> QED
      BY <1>4, <1>10, <3>1 DEF Labelled
  <2>2. ~Running(then, c)
    <3>1. ASSUME NEW i \in 1..Len(calls) PROVE calls[i].desc # c
      <4>1. calls[i].desc \in 0..Len(h.desc)
        BY <1>3, CallLemma
      <4> QED
        BY <1>5, <1>10, <4>1
    <3>2. ~Running(calls, c)
      BY <3>1 DEF Running
    <3> QED
      BY <1>3, <3>2, AdvancedLemma
  <2>3. c # 0
    BY <1>5, <1>10
  <2> QED
    BY <1>17, <2>1, <2>2, <2>3 DEF Names
<1>19. Fills(g, then[1])
  BY <1>4, <1>17 DEF Fills
<1>20. Plain(g)
  <2>1. Plain(h)
    BY <1>3 DEF Matching
  <2> QED
    BY <1>3, <1>10, <2>1, PlainKept, Zenon
<1>21. Taken(h, g, known, calls, then)
  BY <1>10, <1>12, <1>13, <1>16, <1>18, <1>19, <1>20 DEF Taken
<1> QED
  BY <1>21, TakenMatching

\* An element gets the items of its type.
LEMMA TypedMatching ==
  ASSUME Given, NEW h, NEW known, NEW calls, NEW r, Taking(h, known, calls, r),
         NEW n, n = calls[1].node, Class[n] = "element", ~IsRef(n),
         NEW d, d = calls[1].desc, d \in 1..Len(h.desc), NEW D \in DescriptorOf(h),
         D.class = h.desc[d].class, D.node = h.desc[d].node, D.many = h.desc[d].many,
         D.original < d, D.items = h.desc[r].items,
         NEW g, g = With(h, d, D), NEW then, Advanced(calls, then, d)
  PROVE  Matching(g, known, then)
<1>1. PICK f : f = calls[1]
  OBVIOUS
<1>2. PICK k : k = Asks(f.node)[f.at + 1]
  OBVIOUS
<1>3. /\ Typing /\ HeapOK(h) /\ calls # <<>>
      /\ Sound(h, known, calls) /\ Matching(h, known, calls) /\ Ready(h, known, calls, r)
      /\ 1 \in 1..Len(calls) /\ f.node = n /\ f.desc = d /\ n \in Nodes /\ f.at \in Nat
      /\ CallIn(h, f) /\ Names(h, calls, f)
      /\ f.at < Len(Asks(n)) /\ k \in Nodes /\ r \in 0..Len(h.desc) /\ ResultIn(h, k, r)
  BY <1>1, <1>2, TopLemma
<1>4. /\ known \in [Nodes -> 0..Len(h.desc)]
      /\ \A m \in Nodes : known[m] # 0 => ResultIn(h, m, known[m])
      /\ Recalls(known, known) /\ Elements(h, known, calls) /\ Plain(h)
  BY <1>3 DEF Sound, Matching, Recalls
<1>5. /\ Asks(n) # <<>> /\ k = Asks(n)[1] /\ Class[k] = "complexType"
  <2>1. Asks(n) \in Seq(Nodes)
    BY <1>3, AsksLemma
  <2>2. Asks(n) # <<>>
    BY <1>3, <2>1, EmptySeq
  <2>3. Len(Asks(n)) = 1 /\ Class[Asks(n)[1]] = "complexType"
    BY <1>3, <1>4, <2>2, TypeOfLemma, Zenon
  <2>4. f.at + 1 = 1
    BY <1>3, <2>3
  <2> QED
    BY <1>2, <1>3, <2>2, <2>3, <2>4
<1>6. r # 0 /\ known[k] = r
  BY <1>1, <1>2, <1>3 DEF Ready
<1>7. r \in TypeDescriptors(h) /\ r \in 1..Len(h.desc) /\ h.desc[r].class = "type"
  <2>1. r \in TypeDescriptors(h)
    BY <1>3, <1>4, <1>5, <1>6, TypeOfLemma
  <2> QED
    BY <2>1 DEF TypeDescriptors
<1>8. h.desc[d].class = "element" /\ Labelled(h, n, d) /\ ~Running(calls, d)
  <2>1. Len(h.desc) \in Nat
    BY <1>3, HeapLemma
  <2>2. d # 0 /\ ~Adds(n)
    BY <2>1 DEF Adds
  <2>3. h.desc[d].class = "element"
    BY <1>3, <2>2 DEF CallIn, ResultIn, ClassOf
  <2> QED
    BY <1>3, <2>2, <2>3 DEF Names
<1>9. /\ Grown(h, g) /\ Len(g.desc) = Len(h.desc) /\ g.desc[d] = D /\ g.arrays = h.arrays
      /\ \A e \in 1..Len(h.desc) : e # d => g.desc[e] = h.desc[e]
  <2>1. /\ Grown(h, g) /\ Len(g.desc) = Len(h.desc) /\ g.desc[d] = D /\ g.arrays = h.arrays
    BY <1>3, <1>8, SetLemma
  <2>2. h.desc \in Seq(DescriptorOf(h)) /\ g.desc = [h.desc EXCEPT ![d] = D]
    BY <1>3, HeapLemma DEF With
  <2>3. \A e \in 1..Len(h.desc) : e # d => g.desc[e] = h.desc[e]
    BY <2>2
  <2> QED
    BY <2>1, <2>3
<1>10. Len(h.desc) \in Nat /\ \A x \in 1..Len(h.desc) : ~(x > Len(h.desc))
  BY <1>3, HeapLemma
<1>11. \A x \in TypeDescriptors(g) : x \in 1..Len(h.desc) /\ ~(x > Len(h.desc))
  BY <1>9, <1>10 DEF TypeDescriptors
<1>12. Near(h, g)
  BY <1>9, <1>11 DEF Near
<1>13. Linked(g, known, d)
  <2>1. g.desc[d].node = n
    BY <1>3, <1>8, <1>9 DEF Labelled, Of
  <2>2. g.desc[r] = h.desc[r]
    BY <1>7, <1>8, <1>9
  <2>3. TypesOf(known, n, g, g.desc[d].items)
    BY <1>5, <1>6, <1>9, <2>2 DEF TypesOf
  <2> QED
    BY <2>1, <2>3 DEF Linked
<1>14. Elements(g, known, then)
  <2>1. ASSUME NEW e \in 1..Len(h.desc), e # d
        PROVE  g.desc[e].items = h.desc[e].items /\ (Pending(calls, e) => Pending(then, e))
    BY <1>3, <1>9, <2>1, AdvancedLemma, Zenon
  <2>2. \A e \in 1..Len(h.desc) : IsElement(h, e) =>
           \/ g.desc[e].items = h.desc[e].items /\ (Pending(calls, e) => Pending(then, e))
           \/ Linked(g, known, e)
    BY <1>13, <2>1
  <2>3. \A e \in 1..Len(g.desc) : e > Len(h.desc) /\ IsElement(g, e) =>
          Class[g.desc[e].node] = "element" /\ ElementOK(g, known, then, e)
    BY <1>9, <1>10
  <2> QED
    BY <1>3, <1>4, <1>12, <2>2, <2>3, ElementsKept, Zenon
<1>15. then[1].node = n /\ then[1].desc = d /\ ~Adds(n)
  BY DEF Advanced, Adds
<1>16. Names(g, then, then[1])
  <2>1. Labelled(g, n, d)
    BY <1>8, <1>9, LabelledKept
  <2>2. ~Running(then, d)
    BY <1>3, <1>8, AdvancedLemma
  <2>3. d # 0
    BY <1>10
  <2> QED
    BY <1>15, <2>1, <2>2, <2>3 DEF Names
<1>17. Fills(g, then[1])
  BY <1>15 DEF Fills
<1>18. Plain(g)
  BY <1>3, <1>4, <1>9, PlainKept, Zenon
<1>19. Taken(h, g, known, calls, then)
  BY <1>9, <1>11, <1>12, <1>14, <1>16, <1>17, <1>18 DEF Taken
<1> QED
  BY <1>19, TakenMatching

\* A ref to an attribute or a group takes its descriptor.
LEMMA RefMatching ==
  ASSUME Given, NEW h, NEW known, NEW calls, NEW r, Taking(h, known, calls, r),
         NEW n, n = calls[1].node, Class[n] \in {"attribute", "group"}, IsRef(n),
         NEW then, Advanced(calls, then, r)
  PROVE  Matching(h, known, then)
<1>1. PICK f : f = calls[1]
  OBVIOUS
<1>2. PICK k : k = Asks(f.node)[f.at + 1]
  OBVIOUS
<1>3. /\ Typing /\ WellFounded /\ HeapOK(h) /\ calls # <<>>
      /\ Sound(h, known, calls) /\ Matching(h, known, calls) /\ Ready(h, known, calls, r)
      /\ 1 \in 1..Len(calls) /\ f.node = n /\ n \in Nodes /\ f.at \in Nat
      /\ f.at < Len(Asks(n)) /\ k \in Nodes /\ r \in 0..Len(h.desc) /\ ResultIn(h, k, r)
  BY <1>1, <1>2, TopLemma
<1>4. /\ k = link[n] /\ Class[k] = Class[n] /\ Of(n) = k /\ Of(k) = k /\ ~IsRef(k) /\ ~Adds(n)
  <2>1. Len(Asks(n)) = 1
    BY <1>3, RefLemma
  <2>2. f.at + 1 = 1
    BY <1>3, <2>1
  <2> QED
    BY <1>2, <1>3, <2>2, RefLemma
<1>5. Grown(h, h) /\ Len(h.desc) \in Nat /\ \A x \in 1..Len(h.desc) : ~(x > Len(h.desc))
  BY <1>3, HeapLemma DEF Grown
<1>6. \A x \in TypeDescriptors(h) : x \in 1..Len(h.desc) /\ ~(x > Len(h.desc))
  BY <1>5 DEF TypeDescriptors
<1>7. Near(h, h)
  BY <1>5, <1>6 DEF Near
<1>8. Elements(h, known, then)
  <2>1. \A x : Pending(calls, x) => Pending(then, x)
    BY <1>3, AdvancedLemma
  <2>2. /\ known \in [Nodes -> 0..Len(h.desc)]
        /\ \A m \in Nodes : known[m] # 0 => ResultIn(h, m, known[m])
        /\ Recalls(known, known) /\ Elements(h, known, calls)
    BY <1>3 DEF Sound, Matching, Recalls
  <2> QED
    BY <1>3, <1>5, <1>7, <2>1, <2>2, ElementsKept
<1>9. then[1].node = n /\ then[1].desc = r
  BY DEF Advanced
<1>10. /\ r # 0 => Labelled(h, k, r)
       /\ r = 0 => \A class \in Kinds : Contents(class)[k] = <<>>
  BY <1>1, <1>2, <1>3 DEF Ready
<1>11. ASSUME r # 0 PROVE Labelled(h, n, r) /\ ~Running(then, r)
  <2>1. h.desc[r].node = k
    BY <1>4, <1>10, <1>11 DEF Labelled
  <2>2. Labelled(h, n, r)
    <3>1. CASE Class[n] = "group"
      BY <1>4, <2>1, <3>1 DEF Labelled, IsLeaf
    <3>2. CASE Class[n] = "attribute"
      <4>1. \A m \in many : Class[m] # "attribute"
        BY DescribeAssumption, Zenon DEF Given
      <4>2. n \notin many /\ k \notin many
        BY <1>4, <3>2, <4>1
      <4>3. h.desc[r].many = ({k, k} \cap many # {})
        BY <1>4, <1>10, <1>11, <3>2 DEF Labelled, IsLeaf
      <4>4. h.desc[r].many = ({n, k} \cap many # {})
        BY <4>2, <4>3
      <4> QED
        BY <1>4, <2>1, <4>4 DEF Labelled
    <3> QED
      BY <3>1, <3>2
  <2>3. ~Running(calls, r)
    <3>1. ASSUME NEW i \in 1..Len(calls), Adds(calls[i].node), calls[i].desc = r PROVE FALSE
      <4>1. h.desc[r].node = calls[i].node
        BY <1>3, <1>11, <3>1 DEF Matching, Calls, Fills
      <4>2. ~OnStack(calls, k)
        BY <1>1, <1>2, <1>3, FarLemma DEF Matching
      <4> QED
        BY <2>1, <4>1, <4>2 DEF OnStack
    <3> QED
      BY <3>1 DEF Running
  <2> QED
    BY <1>3, <2>2, <2>3, AdvancedLemma
<1>12. ASSUME r = 0, NEW class \in Kinds PROVE Contents(class)[n] = <<>>
  <2>1. Contents(class)[k] = <<>>
    BY <1>10, <1>12
  <2>2. Class[n] = "group"
    BY <1>3, <1>4, <1>12 DEF ResultIn
  <2>3. Contents(class)[Of(n)] = Contents(class)[n]
    BY <1>3, <2>2, OfContents DEF IsLeaf
  <2> QED
    BY <1>4, <2>1, <2>3
<1>13. Names(h, then, then[1])
  BY <1>9, <1>11, <1>12 DEF Names
<1>14. Fills(h, then[1])
  BY <1>4, <1>9 DEF Fills
<1>15. Plain(h)
  BY <1>3 DEF Matching
<1>16. Taken(h, h, known, calls, then)
  BY <1>6, <1>7, <1>8, <1>13, <1>14, <1>15 DEF Taken
<1> QED
  BY <1>16, TakenMatching

---------------------------------------------------------------------------
(* Calls that add to the arrays of their descriptor.                       *)

\* Descriptors that stay show the same.
LEMMA ShownKept ==
  ASSUME NEW h, NEW g, HeapOK(h), Grown(h, g), NEW s \in Seq(1..Len(h.desc))
  PROVE  Shown(g, s) = Shown(h, s)
<1>1. ASSUME NEW i \in 1..Len(s)
      PROVE  g.desc[s[i]].node = h.desc[s[i]].node /\ g.desc[s[i]].many = h.desc[s[i]].many
  <2>1. s[i] \in 1..Len(h.desc)
    OBVIOUS
  <2> QED
    BY <2>1, Zenon DEF Grown
<1> QED
  BY <1>1 DEF Shown

\* What an array with one more descriptor shows.
LEMMA ShownAppended ==
  ASSUME NEW h, HeapOK(h), NEW s \in Seq(1..Len(h.desc)), NEW x \in 1..Len(h.desc)
  PROVE  Shown(h, Append(s, x)) = Shown(h, s) \o <<[node |-> h.desc[x].node, many |-> h.desc[x].many]>>
<1>1. <<x>> \in Seq(1..Len(h.desc)) /\ Len(<<x>>) = 1 /\ <<x>>[1] = x
  OBVIOUS
<1>2. Append(s, x) = s \o <<x>>
  <2>1. Append(s, x) \in Seq(1..Len(h.desc)) /\ s \o <<x>> \in Seq(1..Len(h.desc))
        /\ Len(Append(s, x)) = Len(s) + 1 /\ Len(s \o <<x>>) = Len(s) + 1 /\ Len(s) \in Nat
        /\ (\A i \in 1..Len(s) : Append(s, x)[i] = s[i]) /\ Append(s, x)[Len(s) + 1] = x
    BY <1>1
  <2>2. \A i \in 1..(Len(s) + 1) : (s \o <<x>>)[i] = IF i <= Len(s) THEN s[i] ELSE <<x>>[i - Len(s)]
    BY <1>1, ConcatProperties
  <2>3. ASSUME NEW i \in 1..(Len(s) + 1) PROVE Append(s, x)[i] = (s \o <<x>>)[i]
    <3>1. CASE i <= Len(s)
      BY <2>1, <2>2, <3>1
    <3>2. CASE ~(i <= Len(s))
      <4>1. i = Len(s) + 1 /\ i - Len(s) = 1
        BY <2>1, <3>2
      <4> QED
        BY <1>1, <2>1, <2>2, <4>1
    <3> QED
      BY <3>1, <3>2
  <2> QED
    BY <2>1, <2>3, SeqEqual
<1>3. Shown(h, <<x>>) = <<[node |-> h.desc[x].node, many |-> h.desc[x].many]>>
  <2>1. Shown(h, <<x>>) = [i \in 1..1 |-> [node |-> h.desc[<<x>>[i]].node, many |-> h.desc[<<x>>[i]].many]]
    BY <1>1 DEF Shown
  <2>2. \A i \in 1..1 : i = 1
    OBVIOUS
  <2>3. Shown(h, <<x>>) = [i \in 1..1 |-> [node |-> h.desc[x].node, many |-> h.desc[x].many]]
    BY <1>1, <2>1, <2>2
  <2> QED
    BY <2>3
<1>4. Shown(h, s \o <<x>>) = Shown(h, s) \o Shown(h, <<x>>)
  BY <1>1, ShownTogether, Zenon
<1> QED
  BY <1>2, <1>3, <1>4, Zenon

\* What the arrays `to' have got: a clone x of r, r, or what the arrays `from' have.
AddedElement(h, g, r, m, to, x) ==
  /\ Len(g.arrays) = Len(h.arrays) /\ Len(g.desc) = x
  /\ \A e \in 1..Len(h.desc) : g.desc[e] = h.desc[e]
  /\ g.desc[x].class = "element" /\ g.desc[x].node = h.desc[r].node
  /\ g.desc[x].items = h.desc[r].items /\ g.desc[x].many = (h.desc[r].many \/ m)
  /\ g.arrays[to].elements = Append(h.arrays[to].elements, x)
  /\ g.arrays[to].attributes = h.arrays[to].attributes

AddedAttribute(h, g, r, to) ==
  /\ Len(g.arrays) = Len(h.arrays) /\ g.desc = h.desc
  /\ g.arrays[to].elements = h.arrays[to].elements
  /\ g.arrays[to].attributes = Append(h.arrays[to].attributes, r)

AddedType(h, g, to, from) ==
  /\ Len(g.arrays) = Len(h.arrays) /\ Len(g.desc) = Len(h.desc)
  /\ \A e \in 1..Len(h.desc) : g.desc[e].items = h.desc[e].items
  /\ g.arrays[to].elements = h.arrays[to].elements \o h.arrays[from].elements
  /\ g.arrays[to].attributes = h.arrays[to].attributes \o h.arrays[from].attributes

\* What TypeDescriptor.add does for an element.
LEMMA ElementAdded ==
  ASSUME NEW h, HeapOK(h), NEW d \in 1..Len(h.desc), h.desc[d].class = "type",
         NEW r \in 1..Len(h.desc), h.desc[r].class = "element", NEW m \in BOOLEAN,
         NEW g, g = Add(h, d, r, m), NEW to, to = h.desc[d].items, NEW x, x = Len(h.desc) + 1
  PROVE  AddedElement(h, g, r, m, to, x)
<1>1. /\ Len(h.desc) \in Nat /\ Len(h.arrays) \in Nat /\ to \in 1..Len(h.arrays)
      /\ h.arrays \in Seq(ArraysOf(h)) /\ r \in 0..Len(h.desc) /\ r # 0
  BY HeapLemma, ItemsLemma
<1>2. Grown(h, g)
  BY <1>1, AddLemma
<1>3. PICK c : c = WithClone(h, r, m)
  OBVIOUS
<1>4. /\ Grown(h, c) /\ Newest(c) = x /\ Len(c.desc) = x
      /\ c.desc[Newest(c)].class = h.desc[r].class
      /\ c.desc[Newest(c)].node = h.desc[r].node
      /\ c.desc[Newest(c)].items = h.desc[r].items
      /\ c.desc[Newest(c)].many = (h.desc[r].many \/ m)
      /\ \A e \in 1..Len(h.desc) : c.desc[e] = h.desc[e]
      /\ c.arrays = h.arrays
  BY <1>3, CloneLemma
<1>5. g = [c EXCEPT !.arrays[to].elements = Append(@, x)]
  BY <1>1, <1>3, <1>4 DEF Add
<1>6. c \in [desc : Seq(DescriptorOf(c)), arrays : Seq(ArraysOf(c))]
  BY <1>4 DEF Grown, HeapOK
<1>7. g.desc = c.desc /\ g.arrays = [h.arrays EXCEPT ![to].elements = Append(@, x)]
  BY <1>4, <1>5, <1>6
<1>8. h.arrays[to] \in [elements : Seq(1..Len(h.desc)), attributes : Seq(1..Len(h.desc))]
  BY <1>1, ArrayLemma
<1>9. Len(g.arrays) = Len(h.arrays)
  BY <1>1, <1>7
<1>10. /\ g.arrays[to].elements = Append(h.arrays[to].elements, x)
       /\ g.arrays[to].attributes = h.arrays[to].attributes
  <2>1. PICK A : A = h.arrays[to]
    OBVIOUS
  <2>2. PICK B : B = [A EXCEPT !.elements = Append(@, x)]
    BY Zenon
  <2>3. g.arrays = [h.arrays EXCEPT ![to] = B]
    BY <1>7, <2>1, <2>2, Zenon
  <2>4. g.arrays[to] = B
    BY <1>1, <2>3
  <2>5. B.elements = Append(A.elements, x) /\ B.attributes = A.attributes
    BY <1>8, <2>1, <2>2, Zenon
  <2> QED
    BY <2>1, <2>4, <2>5
<1> QED
  BY <1>4, <1>7, <1>9, <1>10, Zenon DEF AddedElement

\* What it does for an attribute.
LEMMA AttributeAdded ==
  ASSUME NEW h, HeapOK(h), NEW d \in 1..Len(h.desc), h.desc[d].class = "type",
         NEW r \in 1..Len(h.desc), h.desc[r].class = "attribute", NEW m \in BOOLEAN,
         NEW g, g = Add(h, d, r, m), NEW to, to = h.desc[d].items
  PROVE  AddedAttribute(h, g, r, to)
<1>1. /\ Len(h.desc) \in Nat /\ Len(h.arrays) \in Nat /\ to \in 1..Len(h.arrays)
      /\ h.arrays \in Seq(ArraysOf(h)) /\ r \in 0..Len(h.desc) /\ r # 0
  BY HeapLemma, ItemsLemma
<1>3. g = [h EXCEPT !.arrays[to].attributes = Append(@, r)]
  BY <1>1 DEF Add
<1>4. h \in [desc : Seq(DescriptorOf(h)), arrays : Seq(ArraysOf(h))]
  BY DEF HeapOK
<1>5. g.desc = h.desc /\ g.arrays = [h.arrays EXCEPT ![to].attributes = Append(@, r)]
  BY <1>3, <1>4
<1>6. h.arrays[to] \in [elements : Seq(1..Len(h.desc)), attributes : Seq(1..Len(h.desc))]
  BY <1>1, ArrayLemma, Zenon
<1>7. PICK A : A = h.arrays[to]
  OBVIOUS
<1>8. PICK B : B = [A EXCEPT !.attributes = Append(@, r)]
  BY Zenon
<1>9. g.arrays = [h.arrays EXCEPT ![to] = B]
  BY <1>5, <1>7, <1>8
<1>10. g.arrays[to] = B /\ Len(g.arrays) = Len(h.arrays)
  BY <1>1, <1>9
<1>11. B.attributes = Append(A.attributes, r) /\ B.elements = A.elements
  BY <1>6, <1>7, <1>8, Zenon
<1> QED
  BY <1>5, <1>7, <1>10, <1>11, Zenon DEF AddedAttribute

\* What it does for a type.
LEMMA TypeAdded ==
  ASSUME NEW h, HeapOK(h), NEW d \in 1..Len(h.desc), h.desc[d].class = "type",
         NEW r \in 1..Len(h.desc), h.desc[r].class = "type", NEW m \in BOOLEAN,
         NEW g, g = Add(h, d, r, m), NEW to, to = h.desc[d].items, NEW from, from = h.desc[r].items
  PROVE  AddedType(h, g, to, from)
<1>1. /\ Len(h.desc) \in Nat /\ Len(h.arrays) \in Nat /\ to \in 1..Len(h.arrays)
      /\ h.arrays \in Seq(ArraysOf(h)) /\ h.desc \in Seq(DescriptorOf(h)) /\ r \in 0..Len(h.desc) /\ r # 0
      /\ h.desc[d] \in DescriptorOf(h)
  BY HeapLemma, ItemsLemma
<1>3. /\ g.desc = [h.desc EXCEPT ![d].base = IF h.desc[r].base = None THEN @ ELSE h.desc[r].base]
      /\ g.arrays = [h.arrays EXCEPT ![to] =
                       [elements   |-> @.elements \o h.arrays[from].elements,
                        attributes |-> @.attributes \o h.arrays[from].attributes]]
  BY <1>1, Zenon DEF Add, Items
<1>4. Len(g.desc) = Len(h.desc) /\ \A e \in 1..Len(h.desc) : g.desc[e].items = h.desc[e].items
  <2>1. PICK D : D = [h.desc[d] EXCEPT !.base = IF h.desc[r].base = None THEN @ ELSE h.desc[r].base]
    BY Zenon
  <2>2. D.items = h.desc[d].items
    BY <1>1, <2>1 DEF DescriptorOf
  <2>3. g.desc = [h.desc EXCEPT ![d] = D]
    BY <1>3, <2>1, Zenon
  <2>4. Len(g.desc) = Len(h.desc) /\ \A e \in 1..Len(h.desc) : g.desc[e] = IF e = d THEN D ELSE h.desc[e]
    BY <1>1, <2>3
  <2> QED
    BY <2>2, <2>4
<1>5. PICK B : B = [elements   |-> h.arrays[to].elements \o h.arrays[from].elements,
                    attributes |-> h.arrays[to].attributes \o h.arrays[from].attributes]
  BY Zenon
<1>6. g.arrays = [h.arrays EXCEPT ![to] = B]
  BY <1>3, <1>5, Zenon
<1>7. g.arrays[to] = B /\ Len(g.arrays) = Len(h.arrays)
  BY <1>1, <1>6
<1>8. /\ B.elements = h.arrays[to].elements \o h.arrays[from].elements
      /\ B.attributes = h.arrays[to].attributes \o h.arrays[from].attributes
  <2>1. \A x, y : [elements |-> x, attributes |-> y].elements = x /\ [elements |-> x, attributes |-> y].attributes = y
    OBVIOUS
  <2> QED
    BY <1>5, <2>1, Zenon
<1> QED
  BY <1>4, <1>7, <1>8, Zenon DEF AddedType

\* All of them.
LEMMA AddedLemma ==
  ASSUME NEW h, HeapOK(h), NEW d \in 1..Len(h.desc), h.desc[d].class = "type",
         NEW r \in 1..Len(h.desc), NEW m \in BOOLEAN
  PROVE  /\ h.desc[r].class = "element" =>
              AddedElement(h, Add(h, d, r, m), r, m, h.desc[d].items, Len(h.desc) + 1)
         /\ h.desc[r].class = "attribute" => AddedAttribute(h, Add(h, d, r, m), r, h.desc[d].items)
         /\ h.desc[r].class = "type" => AddedType(h, Add(h, d, r, m), h.desc[d].items, h.desc[r].items)
<1>1. PICK g : g = Add(h, d, r, m)
  OBVIOUS
<1>2. PICK to : to = h.desc[d].items
  OBVIOUS
<1>3. ASSUME h.desc[r].class = "element" PROVE AddedElement(h, g, r, m, to, Len(h.desc) + 1)
  BY <1>1, <1>2, <1>3, ElementAdded
<1>4. ASSUME h.desc[r].class = "attribute" PROVE AddedAttribute(h, g, r, to)
  BY <1>1, <1>2, <1>4, AttributeAdded
<1>5. ASSUME h.desc[r].class = "type" PROVE AddedType(h, g, to, h.desc[r].items)
  BY <1>1, <1>2, <1>5, TypeAdded
<1> QED
  BY <1>1, <1>2, <1>3, <1>4, <1>5, Zenon

\* A sequence is one of what its members are.
LEMMA SeqInto ==
  ASSUME NEW S, NEW s \in Seq(S), NEW T, \A i \in 1..Len(s) : s[i] \in T
  PROVE  s \in Seq(T)
<1>1. Len(s) \in Nat /\ s \in [1..Len(s) -> S]
  BY LenProperties
<1>2. s \in [1..Len(s) -> T]
  BY <1>1
<1>3. \A n \in Nat : \A f \in [1..n -> T] : f \in Seq(T)
  OBVIOUS
<1> QED
  BY <1>1, <1>2, <1>3

\* A heap in which the call of n has put, into the arrays `to' of its descriptor
\* d, what k is, of which it got the descriptor r.
PutAt(h, g, n, k, to, r) ==
  /\ Grown(h, g)
  /\ \A x \in 1..Len(h.desc) : g.desc[x].items = h.desc[x].items
  /\ Len(g.arrays) = Len(h.arrays)
  /\ \A a \in 1..Len(h.arrays) : a # to => g.arrays[a] = h.arrays[a]
  /\ \A x \in 1..Len(g.desc) : x \notin 1..Len(h.desc) =>
       /\ r \in 1..Len(h.desc) /\ h.desc[r].class = "element" /\ g.desc[x].class = "element"
       /\ g.desc[x].node = h.desc[r].node /\ g.desc[x].items = h.desc[r].items
  /\ \A class \in Kinds : Held(g, to, class) = Held(h, to, class) \o Part(Contents(class), class, n, k)
  /\ \A i \in 1..Len(g.arrays[to].elements) :
       \/ \E b \in 1..Len(h.arrays) : \E j \in 1..Len(h.arrays[b].elements) :
            g.arrays[to].elements[i] = h.arrays[b].elements[j]
       \/ g.arrays[to].elements[i] \in 1..Len(g.desc) /\ g.arrays[to].elements[i] \notin 1..Len(h.desc)

\* The descriptor r of k is put into d, that of n.
Put(h, g, n, k, d, r) == PutAt(h, g, n, k, h.desc[d].items, r)

\* m says whether n is repeated.
Says(m, n) == m <=> n \in many

\* TypeDescriptor.add puts what the schema says.
LEMMA AddPut ==
  ASSUME Given, NEW h, NEW known, NEW calls, NEW r, Taking(h, known, calls, r),
         NEW f, f = calls[1], NEW n, n = f.node, Adds(n), NEW d, d = f.desc, d # 0,
         NEW k, k = Asks(n)[f.at + 1], NEW m \in BOOLEAN, Says(m, n)
  PROVE  Put(h, Add(h, d, r, m), n, k, d, r)
<1>1. /\ Typing /\ WellFounded /\ HeapOK(h) /\ calls # <<>>
      /\ Sound(h, known, calls) /\ Matching(h, known, calls) /\ Ready(h, known, calls, r)
      /\ 1 \in 1..Len(calls) /\ n \in Nodes /\ f.at \in Nat
      /\ f.at + 1 \in 1..Len(Asks(n)) /\ k \in Nodes /\ r \in 0..Len(h.desc) /\ ResultIn(h, k, r)
  BY TopLemma
<1>2. d \in TypeDescriptors(h)
  BY <1>1, TargetLemma
<1>3. /\ d \in 1..Len(h.desc) /\ h.desc[d].class = "type" /\ Len(h.desc) \in Nat /\ Len(h.arrays) \in Nat
  BY <1>1, <1>2, HeapLemma DEF TypeDescriptors
<1>4. PICK to : to = h.desc[d].items
  OBVIOUS
<1>5. to \in 1..Len(h.arrays)
  BY <1>1, <1>3, <1>4, ItemsLemma
<1>6. /\ r # 0 => Labelled(h, k, r)
      /\ r = 0 => \A class \in Kinds : Contents(class)[k] = <<>>
  <2>1. ~(Class[n] = "element")
    BY DEF Adds
  <2> QED
    BY <1>1, <2>1 DEF Ready
<1>7. PICK g : g = Add(h, d, r, m)
  OBVIOUS
<1>8. Grown(h, g) /\ \A a \in 1..Len(h.arrays) : a # to => g.arrays[a] = h.arrays[a]
  BY <1>1, <1>3, <1>4, <1>7, AddLemma
<1>9. PICK E : E = h.arrays[to].elements
  OBVIOUS
<1>10. PICK A : A = h.arrays[to].attributes
  OBVIOUS
<1>11. E \in Seq(1..Len(h.desc)) /\ A \in Seq(1..Len(h.desc))
  BY <1>1, <1>5, <1>9, <1>10, ArrayLemma
<1>12. Held(h, to, "element") = Shown(h, E) /\ Held(h, to, "attribute") = Shown(h, A)
  BY <1>9, <1>10 DEF Held
<1>13. /\ Held(g, to, "element") = Shown(g, g.arrays[to].elements)
       /\ Held(g, to, "attribute") = Shown(g, g.arrays[to].attributes)
  BY DEF Held
<1>14. Shown(g, E) = Shown(h, E) /\ Shown(g, A) = Shown(h, A)
  BY <1>1, <1>8, <1>11, ShownKept
<1>15. Shown(h, E) \in Seq(Entry) /\ Shown(h, A) \in Seq(Entry)
  BY <1>1, <1>11, ShownTogether
<1>16. Shown(h, E) \o <<>> = Shown(h, E) /\ Shown(h, A) \o <<>> = Shown(h, A)
  BY <1>15, ConcatEmptySeq
<1>17. ASSUME r # 0
       PROVE  r \in 1..Len(h.desc) /\ h.desc[r].class = ClassOf(k) /\ h.desc[r].node = Of(k)
  BY <1>1, <1>3, <1>6, <1>17 DEF ResultIn, Labelled
<1>18. \A i \in 1..Len(E) : \E b \in 1..Len(h.arrays) : \E j \in 1..Len(h.arrays[b].elements) :
         E[i] = h.arrays[b].elements[j]
  BY <1>5, <1>9
<1>19. CASE r = 0
  <2>1. g = h
    BY <1>7, <1>19 DEF Add
  <2>2. ~IsLeaf(k)
    BY <1>1, <1>19 DEF ResultIn, IsLeaf
  <2>3. \A class \in Kinds : Part(Contents(class), class, n, k) = <<>>
    BY <1>6, <1>19, <2>2 DEF Part
  <2>4. \A class \in Kinds : Held(g, to, class) = Held(h, to, class) \o Part(Contents(class), class, n, k)
    BY <1>12, <1>16, <2>1, <2>3, Zenon DEF Kinds
  <2>5. PutAt(h, g, n, k, to, r)
    BY <1>8, <1>9, <1>18, <2>1, <2>4, Zenon DEF PutAt
  <2> QED
    BY <1>4, <1>7, <2>5 DEF Put
<1>20. CASE r # 0 /\ h.desc[r].class = "element"
  <2>1. Class[k] = "element" /\ IsLeaf(k)
    BY <1>17, <1>20 DEF ClassOf, IsLeaf
  <2>2. PICK x : x = Len(h.desc) + 1
    OBVIOUS
  <2>3. /\ Len(g.arrays) = Len(h.arrays) /\ Len(g.desc) = x
        /\ \A e \in 1..Len(h.desc) : g.desc[e] = h.desc[e]
        /\ g.desc[x].class = "element" /\ g.desc[x].node = h.desc[r].node
        /\ g.desc[x].items = h.desc[r].items /\ g.desc[x].many = (h.desc[r].many \/ m)
        /\ g.arrays[to].elements = Append(E, x)
        /\ g.arrays[to].attributes = A
    <3>0. m \in BOOLEAN
      OBVIOUS
    <3>1. HeapOK(h) /\ d \in 1..Len(h.desc) /\ h.desc[d].class = "type"
      BY <1>1, <1>3
    <3>2. r \in 1..Len(h.desc) /\ h.desc[r].class = "element"
      BY <1>17, <1>20
    <3>3. AddedElement(h, g, r, m, to, x)
      <4>1. AddedElement(h, Add(h, d, r, m), r, m, h.desc[d].items, Len(h.desc) + 1)
        BY <3>0, <3>1, <3>2, AddedLemma
      <4> QED
        BY <1>4, <1>7, <2>2, <4>1, Zenon
    <3>4. /\ Len(g.arrays) = Len(h.arrays) /\ Len(g.desc) = x
          /\ \A e \in 1..Len(h.desc) : g.desc[e] = h.desc[e]
          /\ g.desc[x].class = "element" /\ g.desc[x].node = h.desc[r].node
          /\ g.desc[x].items = h.desc[r].items /\ g.desc[x].many = (h.desc[r].many \/ m)
          /\ g.arrays[to].elements = Append(h.arrays[to].elements, x)
          /\ g.arrays[to].attributes = h.arrays[to].attributes
      BY <3>3 DEF AddedElement
    <3> QED
      BY <1>9, <1>10, <3>4, Zenon
  <2>4. /\ Part(Contents("element"), "element", n, k) =
             <<[node |-> Of(k), many |-> {Of(k), k, n} \cap many # {}]>>
        /\ Part(Contents("attribute"), "attribute", n, k) = <<>>
    BY <2>1 DEF Part
  <2>5. g.desc[x].many = ({Of(k), k, n} \cap many # {})
    <3>1. h.desc[r].many = ({k, Of(k)} \cap many # {})
      BY <1>6, <1>20, <2>1 DEF Labelled
    <3>2. g.desc[x].many = (h.desc[r].many \/ m) /\ (m <=> n \in many) /\ m \in BOOLEAN
      BY <2>3 DEF Says
    <3>3. ({Of(k), k, n} \cap many # {}) <=> (({k, Of(k)} \cap many # {}) \/ n \in many)
      OBVIOUS
    <3> QED
      BY <3>1, <3>2, <3>3, Zenon
  <2>6. x \in 1..Len(g.desc) /\ E \in Seq(1..Len(g.desc)) /\ HeapOK(g)
    <3>1. 1..Len(h.desc) \subseteq 1..Len(g.desc) /\ HeapOK(g)
      BY <1>1, <1>8, RangeLemma
    <3>2. x \in 1..Len(g.desc)
      BY <1>3, <2>2, <2>3
    <3>3. \A i \in 1..Len(E) : E[i] \in 1..Len(g.desc)
      <4>1. \A i \in 1..Len(E) : E[i] \in 1..Len(h.desc)
        BY <1>11
      <4> QED
        BY <3>1, <4>1, Zenon
    <3>4. E \in Seq(1..Len(g.desc))
      BY <1>11, <3>3, SeqInto, Zenon
    <3> QED
      BY <3>1, <3>2, <3>4
  <2>7. Shown(g, Append(E, x)) = Shown(g, E) \o <<[node |-> g.desc[x].node, many |-> g.desc[x].many]>>
    BY <2>6, ShownAppended
  <2>8. [node |-> g.desc[x].node, many |-> g.desc[x].many] =
        [node |-> Of(k), many |-> {Of(k), k, n} \cap many # {}]
    BY <1>17, <1>20, <2>3, <2>5
  <2>9. Held(g, to, "element") = Held(h, to, "element") \o Part(Contents("element"), "element", n, k)
    BY <1>12, <1>13, <1>14, <2>3, <2>4, <2>7, <2>8, Zenon
  <2>10. Held(g, to, "attribute") = Held(h, to, "attribute") \o Part(Contents("attribute"), "attribute", n, k)
    BY <1>12, <1>13, <1>14, <1>16, <2>3, <2>4, Zenon
  <2>11. \A class \in Kinds : Held(g, to, class) = Held(h, to, class) \o Part(Contents(class), class, n, k)
    BY <2>9, <2>10, Zenon DEF Kinds
  <2>12. \A y \in 1..Len(g.desc) : y \notin 1..Len(h.desc) => y = x
    BY <1>3, <2>2, <2>3
  <2>13. ASSUME NEW i \in 1..Len(g.arrays[to].elements)
         PROVE  \/ \E b \in 1..Len(h.arrays) : \E j \in 1..Len(h.arrays[b].elements) :
                     g.arrays[to].elements[i] = h.arrays[b].elements[j]
                \/ g.arrays[to].elements[i] \in 1..Len(g.desc) /\ g.arrays[to].elements[i] \notin 1..Len(h.desc)
    <3>1. (i \in 1..Len(E) /\ g.arrays[to].elements[i] = E[i]) \/ g.arrays[to].elements[i] = x
      BY <1>11, <2>3, <2>13
    <3>2. x \notin 1..Len(h.desc)
      BY <1>3, <2>2
    <3> QED
      BY <1>18, <2>6, <3>1, <3>2, Zenon
  <2>14. \A y \in 1..Len(h.desc) : g.desc[y].items = h.desc[y].items
    BY <2>3
  <2>15. PutAt(h, g, n, k, to, r)
    <3>1. \A y \in 1..Len(g.desc) : y \notin 1..Len(h.desc) =>
            /\ r \in 1..Len(h.desc) /\ h.desc[r].class = "element" /\ g.desc[y].class = "element"
            /\ g.desc[y].node = h.desc[r].node /\ g.desc[y].items = h.desc[r].items
      BY <1>17, <1>20, <2>3, <2>12
    <3> QED
      BY <1>8, <2>3, <2>11, <2>13, <2>14, <3>1, Zenon DEF PutAt
  <2> QED
    BY <1>4, <1>7, <2>15 DEF Put
<1>21. CASE r # 0 /\ h.desc[r].class = "attribute"
  <2>1. Class[k] = "attribute" /\ IsLeaf(k)
    BY <1>17, <1>21 DEF ClassOf, IsLeaf
  <2>2. /\ Len(g.arrays) = Len(h.arrays) /\ g.desc = h.desc
        /\ g.arrays[to].elements = E /\ g.arrays[to].attributes = Append(A, r)
    <3>0. m \in BOOLEAN
      OBVIOUS
    <3>1. HeapOK(h) /\ d \in 1..Len(h.desc) /\ h.desc[d].class = "type"
      BY <1>1, <1>3
    <3>2. r \in 1..Len(h.desc) /\ h.desc[r].class = "attribute"
      BY <1>17, <1>21
    <3>3. AddedAttribute(h, g, r, to)
      <4>1. AddedAttribute(h, Add(h, d, r, m), r, h.desc[d].items)
        BY <3>0, <3>1, <3>2, AddedLemma
      <4> QED
        BY <1>4, <1>7, <4>1, Zenon
    <3>4. /\ Len(g.arrays) = Len(h.arrays) /\ g.desc = h.desc
          /\ g.arrays[to].elements = h.arrays[to].elements
          /\ g.arrays[to].attributes = Append(h.arrays[to].attributes, r)
      BY <3>3 DEF AddedAttribute
    <3> QED
      BY <1>9, <1>10, <3>4, Zenon
  <2>3. n \notin many
    <3>1. SUFFICES ASSUME n \in many
                   PROVE  FALSE
      OBVIOUS
    <3>2. /\ Class[n] \in {"element", "particle", "group"}
          /\ \A i \in 1..Len(Kids[n]) : Class[Kids[n][i]] # "attribute"
      BY <3>1, DescribeAssumption DEF Given
    <3>3. Class[n] \in {"particle", "group"} /\ ~IsRef(n)
      BY <1>1, <3>2, AddingLemma
    <3>4. Asks(n) = Kids[n]
      BY <3>3 DEF Asks
    <3> QED
      BY <1>1, <2>1, <3>2, <3>4
  <2>4. /\ Part(Contents("attribute"), "attribute", n, k) =
             <<[node |-> Of(k), many |-> {Of(k), k, n} \cap many # {}]>>
        /\ Part(Contents("element"), "element", n, k) = <<>>
    BY <2>1 DEF Part
  <2>5. h.desc[r].many = ({Of(k), k, n} \cap many # {})
    <3>1. h.desc[r].many = ({k, Of(k)} \cap many # {})
      BY <1>6, <1>21, <2>1 DEF Labelled
    <3> QED
      BY <2>3, <3>1
  <2>6. Shown(h, Append(A, r)) = Shown(h, A) \o <<[node |-> h.desc[r].node, many |-> h.desc[r].many]>>
    BY <1>1, <1>11, <1>17, <1>21, ShownAppended
  <2>7. Shown(g, Append(A, r)) = Shown(h, Append(A, r))
    BY <2>2 DEF Shown
  <2>8. [node |-> h.desc[r].node, many |-> h.desc[r].many] =
        [node |-> Of(k), many |-> {Of(k), k, n} \cap many # {}]
    BY <1>17, <1>21, <2>5
  <2>9. Held(g, to, "attribute") = Held(h, to, "attribute") \o Part(Contents("attribute"), "attribute", n, k)
    BY <1>12, <1>13, <1>14, <2>2, <2>4, <2>6, <2>7, <2>8, Zenon
  <2>10. Held(g, to, "element") = Held(h, to, "element") \o Part(Contents("element"), "element", n, k)
    BY <1>12, <1>13, <1>14, <1>16, <2>2, <2>4, Zenon
  <2>11. \A class \in Kinds : Held(g, to, class) = Held(h, to, class) \o Part(Contents(class), class, n, k)
    BY <2>9, <2>10, Zenon DEF Kinds
  <2>12. PutAt(h, g, n, k, to, r)
    BY <1>8, <1>18, <2>2, <2>11, Zenon DEF PutAt
  <2> QED
    BY <1>4, <1>7, <2>12 DEF Put
<1>22. CASE r # 0 /\ h.desc[r].class = "type"
  <2>1. ~IsLeaf(k)
    BY <1>17, <1>22 DEF ClassOf, IsLeaf
  <2>2. PICK from : from = h.desc[r].items
    OBVIOUS
  <2>3. PICK E2 : E2 = h.arrays[from].elements
    OBVIOUS
  <2>4. PICK A2 : A2 = h.arrays[from].attributes
    OBVIOUS
  <2>5. /\ Len(g.arrays) = Len(h.arrays) /\ Len(g.desc) = Len(h.desc)
        /\ \A e \in 1..Len(h.desc) : g.desc[e].items = h.desc[e].items
        /\ g.arrays[to].elements = E \o E2 /\ g.arrays[to].attributes = A \o A2
    <3>0. m \in BOOLEAN
      OBVIOUS
    <3>1. HeapOK(h) /\ d \in 1..Len(h.desc) /\ h.desc[d].class = "type"
      BY <1>1, <1>3
    <3>2. r \in 1..Len(h.desc) /\ h.desc[r].class = "type"
      BY <1>17, <1>22
    <3>3. AddedType(h, g, to, from)
      <4>1. AddedType(h, Add(h, d, r, m), h.desc[d].items, h.desc[r].items)
        BY <3>0, <3>1, <3>2, AddedLemma
      <4> QED
        BY <1>4, <1>7, <2>2, <4>1, Zenon
    <3>4. /\ Len(g.arrays) = Len(h.arrays) /\ Len(g.desc) = Len(h.desc)
          /\ \A e \in 1..Len(h.desc) : g.desc[e].items = h.desc[e].items
          /\ g.arrays[to].elements = h.arrays[to].elements \o h.arrays[from].elements
          /\ g.arrays[to].attributes = h.arrays[to].attributes \o h.arrays[from].attributes
      BY <3>3 DEF AddedType
    <3> QED
      BY <1>9, <1>10, <2>3, <2>4, <3>4, Zenon
  <2>6. from \in 1..Len(h.arrays)
    BY <1>1, <1>17, <1>22, <2>2, ItemsLemma
  <2>7. E2 \in Seq(1..Len(h.desc)) /\ A2 \in Seq(1..Len(h.desc))
    BY <1>1, <2>3, <2>4, <2>6, ArrayLemma, Zenon
  <2>8. ~Running(calls, r)
    <3>1. ASSUME NEW i \in 1..Len(calls), Adds(calls[i].node), calls[i].desc = r PROVE FALSE
      <4>1. h.desc[r].node = calls[i].node
        BY <1>1, <1>22, <3>1, Zenon DEF Matching, Calls, Fills
      <4>2. ~OnStack(calls, Of(k))
        <5>1. f.at < Len(Asks(f.node)) /\ ~(Class[f.node] = "element" /\ ~IsRef(f.node)) /\ Apart(calls)
          BY <1>1, TopLemma DEF Matching, Adds
        <5> QED
          BY <1>1, <5>1, FarLemma, Zenon
      <4> QED
        BY <1>17, <1>22, <4>1, <4>2 DEF OnStack
    <3> QED
      BY <3>1 DEF Running
  <2>9. \A class \in Kinds : Held(h, from, class) = Contents(class)[k]
    <3>1. r \in TypeDescriptors(h)
      BY <1>17, <1>22 DEF TypeDescriptors
    <3>2. Complete(h, r)
      BY <1>1, <2>8, <3>1 DEF Matching, Completes
    <3>3. \A class \in Kinds : Held(h, from, class) = Contents(class)[Of(k)]
      BY <1>17, <1>22, <2>2, <3>2 DEF Complete
    <3>4. \A class : Contents(class)[Of(k)] = Contents(class)[k]
      BY <1>1, <2>1, OfContents
    <3> QED
      BY <3>3, <3>4
  <2>10. \A class : Part(Contents(class), class, n, k) = Contents(class)[k]
    BY <2>1 DEF Part
  <2>11. Held(h, from, "element") = Shown(h, E2) /\ Held(h, from, "attribute") = Shown(h, A2)
    BY <2>3, <2>4 DEF Held
  <2>12. Shown(h, E \o E2) = Shown(h, E) \o Shown(h, E2) /\ Shown(h, A \o A2) = Shown(h, A) \o Shown(h, A2)
    BY <1>1, <1>11, <2>7, ShownTogether, Zenon
  <2>13. Shown(g, E \o E2) = Shown(h, E \o E2) /\ Shown(g, A \o A2) = Shown(h, A \o A2)
    <3>1. E \o E2 \in Seq(1..Len(h.desc)) /\ A \o A2 \in Seq(1..Len(h.desc))
      BY <1>11, <2>7, ConcatProperties
    <3> QED
      BY <1>1, <1>8, <3>1, ShownKept, Zenon
  <2>14. "element" \in Kinds /\ "attribute" \in Kinds
    BY DEF Kinds
  <2>15. Held(g, to, "element") = Held(h, to, "element") \o Part(Contents("element"), "element", n, k)
    BY <1>12, <1>13, <2>5, <2>9, <2>10, <2>11, <2>12, <2>13, <2>14, Zenon
  <2>16. Held(g, to, "attribute") = Held(h, to, "attribute") \o Part(Contents("attribute"), "attribute", n, k)
    BY <1>12, <1>13, <2>5, <2>9, <2>10, <2>11, <2>12, <2>13, <2>14, Zenon
  <2>17. \A class \in Kinds : Held(g, to, class) = Held(h, to, class) \o Part(Contents(class), class, n, k)
    BY <2>15, <2>16, Zenon DEF Kinds
  <2>18. ASSUME NEW i \in 1..Len(g.arrays[to].elements)
         PROVE  \E b \in 1..Len(h.arrays) : \E j \in 1..Len(h.arrays[b].elements) :
                  g.arrays[to].elements[i] = h.arrays[b].elements[j]
    <3>1. /\ Len(E) \in Nat /\ Len(E2) \in Nat /\ Len(E \o E2) = Len(E) + Len(E2)
          /\ \A l \in 1..(Len(E) + Len(E2)) : (E \o E2)[l] = IF l <= Len(E) THEN E[l] ELSE E2[l - Len(E)]
      BY <1>11, <2>7, ConcatProperties, LenProperties
    <3>2. i \in 1..(Len(E) + Len(E2)) /\ g.arrays[to].elements[i] = (E \o E2)[i]
      BY <2>5, <2>18, <3>1
    <3>3. CASE i <= Len(E)
      <4>1. i \in 1..Len(E) /\ g.arrays[to].elements[i] = E[i]
        BY <3>1, <3>2, <3>3
      <4> QED
        BY <1>18, <4>1, Zenon
    <3>4. CASE ~(i <= Len(E))
      <4>1. i - Len(E) \in 1..Len(E2) /\ g.arrays[to].elements[i] = E2[i - Len(E)]
        BY <3>1, <3>2, <3>4
      <4> QED
        BY <2>3, <2>6, <4>1
    <3> QED
      BY <3>3, <3>4
  <2>19. PutAt(h, g, n, k, to, r)
    BY <1>8, <2>5, <2>17, <2>18, Zenon DEF PutAt
  <2> QED
    BY <1>4, <1>7, <2>19 DEF Put
<1>23. r # 0 => h.desc[r].class \in {"element", "attribute", "type"}
  BY <1>17 DEF ClassOf
<1> QED
  BY <1>19, <1>20, <1>21, <1>22, <1>23

\* The base of the descriptor says nothing of what it has.
LEMMA BasePut ==
  ASSUME NEW h, HeapOK(h), NEW g, NEW n, NEW k, NEW d \in TypeDescriptors(h), NEW r,
         Put(h, g, n, k, d, r), NEW b \in Nodes \cup {None},
         NEW e, e = With(g, d, [g.desc[d] EXCEPT !.base = b])
  PROVE  Put(h, e, n, k, d, r)
<1>1. Grown(h, g) /\ d \in 1..Len(h.desc)
  BY DEF Put, PutAt, TypeDescriptors
<1>2. HeapOK(g) /\ d \in 1..Len(g.desc) /\ d \in TypeDescriptors(g)
  BY <1>1, RangeLemma, TypesKept
<1>3. PICK D : D = [g.desc[d] EXCEPT !.base = b]
  OBVIOUS
<1>4. /\ D \in DescriptorOf(g) /\ D.class = g.desc[d].class /\ D.node = g.desc[d].node
      /\ D.many = g.desc[d].many /\ D.original < d /\ D.items = g.desc[d].items
  <2>1. D \in DescriptorOf(g)
    BY <1>2, <1>3, FieldLemma, Zenon
  <2>2. g.desc[d] \in DescriptorOf(g) /\ g.desc[d].original < d
    BY <1>2, HeapLemma
  <2> QED
    BY <1>3, <2>1, <2>2 DEF DescriptorOf
<1>5. /\ Grown(g, e) /\ Len(e.desc) = Len(g.desc) /\ e.desc[d] = D /\ e.arrays = g.arrays
  <2>1. e = With(g, d, D)
    BY <1>3, Zenon
  <2> QED
    BY <1>2, <1>4, <2>1, SetLemma
<1>6. \A x \in 1..Len(g.desc) : x # d => e.desc[x] = g.desc[x]
  <2>1. g.desc \in Seq(DescriptorOf(g)) /\ e.desc = [g.desc EXCEPT ![d] = D]
    BY <1>2, <1>3, HeapLemma DEF With
  <2> QED
    BY <2>1
<1>7. \A x \in 1..Len(g.desc) : /\ e.desc[x].items = g.desc[x].items
                                /\ e.desc[x].node = g.desc[x].node /\ e.desc[x].class = g.desc[x].class
  BY <1>4, <1>5, <1>6
<1>8. PICK to : to = h.desc[d].items
  OBVIOUS
<1>9. to \in 1..Len(h.arrays) /\ to \in 1..Len(g.arrays)
  BY <1>1, <1>8, ItemsLemma, RangeLemma
<1>10. \A class : Held(e, to, class) = Held(g, to, class)
  BY <1>2, <1>5, <1>9, HeldKept
<1>11. Grown(h, e)
  BY <1>1, <1>5, GrownTwice
<1>12. 1..Len(h.desc) \subseteq 1..Len(g.desc)
  BY <1>1, RangeLemma
<1>13. PutAt(h, g, n, k, to, r)
  BY <1>8 DEF Put
<1>14. /\ \A x \in 1..Len(h.desc) : e.desc[x].items = h.desc[x].items
       /\ \A a \in 1..Len(h.arrays) : a # to => e.arrays[a] = h.arrays[a]
       /\ \A x \in 1..Len(e.desc) : x \notin 1..Len(h.desc) =>
            /\ r \in 1..Len(h.desc) /\ h.desc[r].class = "element" /\ e.desc[x].class = "element"
            /\ e.desc[x].node = h.desc[r].node /\ e.desc[x].items = h.desc[r].items
  BY <1>5, <1>7, <1>12, <1>13, Zenon DEF PutAt
<1>15. \A class \in Kinds : Held(e, to, class) = Held(h, to, class) \o Part(Contents(class), class, n, k)
  BY <1>10, <1>13, Zenon DEF PutAt
<1>17. \A i \in 1..Len(e.arrays[to].elements) :
         \/ \E b2 \in 1..Len(h.arrays) : \E j \in 1..Len(h.arrays[b2].elements) :
              e.arrays[to].elements[i] = h.arrays[b2].elements[j]
         \/ e.arrays[to].elements[i] \in 1..Len(e.desc) /\ e.arrays[to].elements[i] \notin 1..Len(h.desc)
  <2>1. e.arrays[to].elements = g.arrays[to].elements /\ Len(e.desc) = Len(g.desc)
    BY <1>5
  <2>2. \A i \in 1..Len(g.arrays[to].elements) :
          \/ \E b2 \in 1..Len(h.arrays) : \E j \in 1..Len(h.arrays[b2].elements) :
               g.arrays[to].elements[i] = h.arrays[b2].elements[j]
          \/ g.arrays[to].elements[i] \in 1..Len(g.desc) /\ g.arrays[to].elements[i] \notin 1..Len(h.desc)
    BY <1>13, Zenon DEF PutAt
  <2> QED
    BY <2>1, <2>2, Zenon
<1>16. PutAt(h, e, n, k, to, r)
  BY <1>5, <1>11, <1>13, <1>14, <1>15, <1>17, Zenon DEF PutAt
<1> QED
  BY <1>8, <1>16 DEF Put

\* One more part of what a node contains.
LEMMA NextPart ==
  ASSUME Typing, WellFounded, NEW class, NEW n \in Nodes, NEW i \in 1..Len(Asks(n))
  PROVE  Parts(Contents(class), class, n, i) =
           Parts(Contents(class), class, n, i - 1) \o Part(Contents(class), class, n, Asks(n)[i])
<1>1. PICK C : C = Contents(class)
  OBVIOUS
<1>2. Linking /\ C \in [Nodes -> Seq(Entry)]
  BY <1>1, LinkingLemma, ContentsLemma
<1>3. Parts(C, class, n, i) = Parts(C, class, n, i - 1) \o Part(C, class, n, Asks(n)[i])
  BY <1>2, PartsLemma, Zenon
<1> QED
  BY <1>1, <1>3, Zenon

\* A call puts what it gets into its descriptor.
LEMMA PutMatching ==
  ASSUME Given, NEW h, NEW known, NEW calls, NEW r, Taking(h, known, calls, r),
         NEW f, f = calls[1], NEW n, n = f.node, Adds(n), NEW d, d = f.desc, d # 0,
         NEW k, k = Asks(n)[f.at + 1], NEW g, Put(h, g, n, k, d, r),
         NEW then, Advanced(calls, then, d)
  PROVE  Matching(g, known, then)
<1>1. /\ Typing /\ WellFounded /\ HeapOK(h) /\ calls # <<>>
      /\ Sound(h, known, calls) /\ Matching(h, known, calls) /\ Ready(h, known, calls, r)
      /\ 1 \in 1..Len(calls) /\ n \in Nodes /\ f.at \in Nat /\ Fills(h, f)
      /\ f.at < Len(Asks(n)) /\ f.at + 1 \in 1..Len(Asks(n))
      /\ k \in Nodes /\ r \in 0..Len(h.desc) /\ ResultIn(h, k, r)
  BY TopLemma
<1>2. /\ known \in [Nodes -> 0..Len(h.desc)]
      /\ \A m \in Nodes : known[m] # 0 => ResultIn(h, m, known[m])
      /\ Recalls(known, known) /\ Elements(h, known, calls) /\ Plain(h) /\ Alone(h) /\ Apart(calls)
  BY <1>1 DEF Sound, Matching, Recalls
<1>3. d \in TypeDescriptors(h) /\ d \in 1..Len(h.desc)
  <2>1. d \in TypeDescriptors(h)
    BY <1>1, TargetLemma
  <2> QED
    BY <2>1 DEF TypeDescriptors
<1>4. PICK to : to = h.desc[d].items
  OBVIOUS
<1>5. PutAt(h, g, n, k, to, r)
  BY <1>4 DEF Put
<1>6. /\ Grown(h, g) /\ Len(g.arrays) = Len(h.arrays)
      /\ \A x \in 1..Len(h.desc) : g.desc[x].items = h.desc[x].items
      /\ \A a \in 1..Len(h.arrays) : a # to => g.arrays[a] = h.arrays[a]
  BY <1>5 DEF PutAt
<1>7. /\ HeapOK(g) /\ Len(h.desc) \in Nat /\ Len(g.desc) \in Nat
      /\ \A x \in 1..Len(g.desc) : x \in 1..Len(h.desc) <=> ~(x > Len(h.desc))
  BY <1>1, <1>6, RangeLemma
<1>8. ~(Class[f.node] = "element" /\ ~IsRef(f.node)) /\ ~(Class[n] = "element")
  BY DEF Adds
<1>9. ~OnStack(calls, Of(k))
  BY <1>1, <1>2, <1>8, FarLemma, Zenon
<1>10. r # 0 => h.desc[r].node = Of(k)
  BY <1>1, <1>8 DEF Ready, Labelled
<1>11. ASSUME NEW x \in 1..Len(g.desc), x \notin 1..Len(h.desc)
       PROVE  /\ g.desc[x].class = "element" /\ r \in 1..Len(h.desc) /\ h.desc[r].class = "element"
              /\ g.desc[x].node = h.desc[r].node /\ g.desc[x].items = h.desc[r].items
              /\ IsElement(h, r) /\ IsElement(g, x) /\ ~OnStack(calls, h.desc[r].node)
  <2>1. /\ g.desc[x].class = "element" /\ r \in 1..Len(h.desc) /\ h.desc[r].class = "element"
        /\ g.desc[x].node = h.desc[r].node /\ g.desc[x].items = h.desc[r].items
    BY <1>5, <1>11 DEF PutAt
  <2>2. h.desc[r].node = Of(k)
    BY <1>7, <1>10, <2>1
  <2>3. ~IsRef(Of(k))
    BY <1>1, OfLemma
  <2> QED
    BY <1>9, <2>1, <2>2, <2>3 DEF IsElement
<1>12. \A x \in TypeDescriptors(g) : x \in 1..Len(h.desc) /\ ~(x > Len(h.desc))
  <2>1. ASSUME NEW x \in TypeDescriptors(g) PROVE x \in 1..Len(h.desc)
    <3>1. x \in 1..Len(g.desc) /\ g.desc[x].class # "element"
      BY DEF TypeDescriptors
    <3> QED
      BY <1>11, <3>1
  <2> QED
    BY <1>7, <2>1 DEF TypeDescriptors
<1>13. Near(h, g)
  <2>1. \A a \in 1..Len(h.arrays) : Free(h, a) => a # to
    BY <1>3, <1>4 DEF Free
  <2> QED
    BY <1>6, <1>12, <2>1 DEF Near
<1>14. ASSUME NEW x \in TypeDescriptors(h), x # d
       PROVE  g.arrays[h.desc[x].items] = h.arrays[h.desc[x].items]
  <2>1. h.desc[x].items # to
    BY <1>2, <1>3, <1>4, <1>14 DEF Alone
  <2>2. h.desc[x].items \in 1..Len(h.arrays)
    BY <1>1, ItemsLemma DEF TypeDescriptors
  <2> QED
    BY <1>6, <2>1, <2>2
<1>15. then[1].node = n /\ then[1].desc = d /\ then[1].at = f.at + 1
  BY DEF Advanced
<1>16. Elements(g, known, then)
  <2>1. \A x : Pending(calls, x) => Pending(then, x)
    BY <1>1, <1>8, AdvancedLemma
  <2>2. \A x \in 1..Len(h.desc) : IsElement(h, x) =>
           \/ g.desc[x].items = h.desc[x].items /\ (Pending(calls, x) => Pending(then, x))
           \/ Linked(g, known, x)
    BY <1>6, <2>1
  <2>3. ASSUME NEW x \in 1..Len(g.desc), x > Len(h.desc), IsElement(g, x)
        PROVE  Class[g.desc[x].node] = "element" /\ ElementOK(g, known, then, x)
    <3>1. x \notin 1..Len(h.desc)
      BY <1>7, <2>3
    <3>2. /\ r \in 1..Len(h.desc) /\ g.desc[x].node = h.desc[r].node /\ g.desc[x].items = h.desc[r].items
          /\ IsElement(h, r) /\ ~OnStack(calls, h.desc[r].node)
      BY <1>11, <3>1
    <3>3. Class[g.desc[x].node] = "element" /\ Linked(g, known, x)
      BY <1>1, <1>13, <3>2, SettledLemma, Zenon
    <3> QED
      BY <3>3 DEF ElementOK
  <2> QED
    BY <1>1, <1>2, <1>13, <2>2, <2>3, ElementsKept, Zenon
<1>17. Names(g, then, then[1])
  BY <1>15 DEF Names
<1>18. Fills(g, then[1])
  <2>1. h.desc[d].node = n /\ \A class \in Kinds : Held(h, to, class) = Parts(Contents(class), class, n, f.at)
    BY <1>1, <1>4 DEF Fills
  <2>2. g.desc[d].node = n /\ g.desc[d].items = to
    BY <1>3, <1>4, <1>6, <2>1 DEF Grown
  <2>3. ASSUME NEW class \in Kinds PROVE Held(g, to, class) = Parts(Contents(class), class, n, f.at + 1)
    <3>1. Held(g, to, class) = Held(h, to, class) \o Part(Contents(class), class, n, k)
      BY <1>5 DEF PutAt
    <3>2. PICK i : i = f.at + 1
      OBVIOUS
    <3>3. i \in 1..Len(Asks(n)) /\ i - 1 = f.at
      BY <1>1, <3>2
    <3>4. Parts(Contents(class), class, n, i) =
            Parts(Contents(class), class, n, i - 1) \o Part(Contents(class), class, n, Asks(n)[i])
      <4>1. Typing /\ WellFounded /\ n \in Nodes
        BY <1>1
      <4>2. i \in 1..Len(Asks(n))
        BY <3>3
      <4>3. \A m \in Nodes : \A j \in 1..Len(Asks(m)) :
              Parts(Contents(class), class, m, j) =
                Parts(Contents(class), class, m, j - 1) \o Part(Contents(class), class, m, Asks(m)[j])
        BY ONLY <4>1, NextPart
      <4> QED
        BY ONLY <4>1, <4>2, <4>3
    <3> QED
      BY <2>1, <3>1, <3>2, <3>3, <3>4, Zenon
  <2> QED
    BY <1>15, <2>2, <2>3 DEF Fills
<1>19. Plain(g)
  <2>1. ASSUME NEW a \in 1..Len(g.arrays), NEW i \in 1..Len(g.arrays[a].elements)
        PROVE  \/ \E b \in 1..Len(h.arrays) : \E j \in 1..Len(h.arrays[b].elements) :
                    g.arrays[a].elements[i] = h.arrays[b].elements[j]
               \/ IsElement(g, g.arrays[a].elements[i])
    <3>1. CASE a # to
      BY <1>6, <3>1
    <3>2. CASE a = to
      <4>1. \/ \E b \in 1..Len(h.arrays) : \E j \in 1..Len(h.arrays[b].elements) :
                 g.arrays[a].elements[i] = h.arrays[b].elements[j]
            \/ g.arrays[a].elements[i] \in 1..Len(g.desc) /\ g.arrays[a].elements[i] \notin 1..Len(h.desc)
        BY <1>5, <3>2, Zenon DEF PutAt
      <4> QED
        BY <1>11, <4>1, Zenon
    <3> QED
      BY <3>1, <3>2, Zenon
  <2> QED
    BY <1>1, <1>2, <1>6, <2>1, PlainKept, Zenon
<1>20. Taken(h, g, known, calls, then)
  BY <1>12, <1>13, <1>14, <1>16, <1>17, <1>18, <1>19 DEF Taken
<1> QED
  BY <1>20, TakenMatching

\* What a call does with what it gets, whatever its class.
LEMMA AbsorbedMatching ==
  ASSUME Given, NEW known, NEW calls, NEW r, Taking(heap, known, calls, r),
         NEW f, f = Head(calls), NEW a, a = Absorbed(calls, r),
         NEW then, Advanced(calls, then, a.desc)
  PROVE  Matching(a.heap, known, then)
<1>0. f = calls[1]
  OBVIOUS
<1>1. PICK n : n = f.node
  OBVIOUS
<1>2. PICK k : k = Asks(f.node)[f.at + 1]
  OBVIOUS
<1>3. PICK d : d = f.desc
  OBVIOUS
<1>4. /\ Typing /\ HeapOK(heap) /\ calls # <<>> /\ n = calls[1].node /\ d = calls[1].desc
      /\ Ready(heap, known, calls, r) /\ CallIn(heap, f)
      /\ n \in Nodes /\ f.at \in Nat /\ d \in 0..Len(heap.desc)
      /\ f.at < Len(Asks(n)) /\ r \in 0..Len(heap.desc) /\ Class[n] \in Classes
      /\ Len(heap.desc) \in Nat /\ Asks(n) # <<>>
  <2>1. /\ Typing /\ HeapOK(heap) /\ calls # <<>> /\ Ready(heap, known, calls, r) /\ CallIn(heap, f)
        /\ n \in Nodes /\ f.at \in Nat /\ d \in 0..Len(heap.desc)
        /\ f.at < Len(Asks(n)) /\ r \in 0..Len(heap.desc)
    BY <1>0, <1>1, <1>2, <1>3, TopLemma, Zenon
  <2>2. Class[n] \in Classes /\ Asks(n) \in Seq(Nodes)
    BY <2>1, AsksLemma, DescribeAssumption
  <2>3. Asks(n) # <<>>
    BY <2>1, <2>2, EmptySeq
  <2> QED
    BY <1>0, <1>1, <1>3, <2>1, <2>2, <2>3, HeapLemma
<1>5. ~IsRef(n) => d # 0 /\ d \in 1..Len(heap.desc)
  BY <1>1, <1>3, <1>4 DEF CallIn
<1>6. CASE Class[n] = "element" /\ IsRef(n)
  <2>1. PICK g : g = WithClone(heap, r, n \in many)
    OBVIOUS
  <2>2. a = [heap |-> g, desc |-> Newest(g)]
    BY <1>0, <1>1, <1>6, <2>1, Zenon DEF Absorbed, IsRef
  <2>3. a.heap = g /\ a.desc = Newest(g)
    BY <2>2
  <2>4. Advanced(calls, then, Newest(g))
    BY <2>3, Zenon
  <2>5. Matching(g, known, then)
    BY <1>4, <1>6, <2>1, <2>4, CloneMatching
  <2> QED
    BY <2>3, <2>5, Zenon
<1>7. CASE Class[n] = "element" /\ ~IsRef(n)
  <2>1. r # 0 /\ r \in 1..Len(heap.desc)
    BY <1>0, <1>1, <1>4, <1>7 DEF Ready
  <2>2. heap.desc[r].items \in 1..Len(heap.arrays) /\ r \in 0..Len(heap.desc)
    BY <1>4, <2>1, ItemsLemma
  <2>3. PICK D : D = IF link[n] = None
                       THEN [heap.desc[d] EXCEPT !.items = heap.desc[r].items]
                       ELSE [heap.desc[d] EXCEPT !.items = heap.desc[r].items, !.type = r]
    BY Zenon
  <2>4. PICK g : g = With(heap, d, D)
    OBVIOUS
  <2>5. a = [heap |-> g, desc |-> d]
    <3>1. CASE link[n] = None
      BY <1>0, <1>1, <1>3, <1>7, <2>3, <2>4, <3>1, Zenon DEF Absorbed
    <3>2. CASE link[n] # None
      BY <1>0, <1>1, <1>3, <1>7, <2>3, <2>4, <3>2, Zenon DEF Absorbed, Typed
    <3> QED
      BY <3>1, <3>2
  <2>6. a.heap = g /\ a.desc = d
    BY <2>5
  <2>7. D \in DescriptorOf(heap)
    BY <1>4, <1>5, <1>7, <2>2, <2>3, FieldLemma, Zenon
  <2>8. heap.desc[d] \in DescriptorOf(heap) /\ heap.desc[d].original < d
    BY <1>4, <1>5, <1>7, HeapLemma
  <2>9. /\ D.class = heap.desc[d].class /\ D.node = heap.desc[d].node /\ D.many = heap.desc[d].many
        /\ D.original < d /\ D.items = heap.desc[r].items
    BY <2>3, <2>8 DEF DescriptorOf
  <2>10. Advanced(calls, then, d)
    BY <2>6, Zenon
  <2>11. Matching(g, known, then)
    BY <1>4, <1>5, <1>7, <2>4, <2>7, <2>9, <2>10, TypedMatching, Zenon
  <2> QED
    BY <2>6, <2>11, Zenon
<1>8. CASE Class[n] \in {"attribute", "group"} /\ IsRef(n)
  <2>1. a = [heap |-> heap, desc |-> r]
    BY <1>0, <1>1, <1>8, Zenon DEF Absorbed
  <2>2. a.heap = heap /\ a.desc = r
    BY <2>1
  <2>3. Advanced(calls, then, r)
    BY <2>2, Zenon
  <2>4. Matching(heap, known, then)
    BY <1>4, <1>8, <2>3, RefMatching
  <2> QED
    BY <2>2, <2>4, Zenon
<1>9. CASE Adds(n)
  <2>1. Class[n] \notin {"element", "attribute"} /\ ~(Class[n] = "group" /\ IsRef(n)) /\ ~IsRef(n)
    BY <1>4, <1>9, AddingLemma DEF IsLeaf, Adds
  <2>2. d # 0 /\ d \in 1..Len(heap.desc)
    BY <1>5, <2>1
  <2>3. n \in many => Class[n] \in {"particle", "group"}
    <3>1. n \in many => Class[n] \in {"element", "particle", "group"}
      BY DescribeAssumption DEF Given
    <3> QED
      BY <2>1, <3>1
  <2>4. CASE Class[n] = "extension" /\ link[n] # None /\ f.at = 0
    <3>1. PICK m : m = FALSE
      BY Zenon
    <3>2. m \in BOOLEAN /\ Says(m, n)
      BY <2>3, <2>4, <3>1, Zenon DEF Says
    <3>3. PICK g : g = Add(heap, d, r, m)
      OBVIOUS
    <3>4. Put(heap, g, n, Asks(n)[f.at + 1], d, r)
      BY <1>0, <1>1, <1>3, <1>9, <2>2, <3>2, <3>3, AddPut
    <3>5. PICK B : B = IF \A j \in 1..Len(calls) : calls[j].node # link[n] THEN link[n] ELSE None
      OBVIOUS
    <3>6. B \in Nodes \cup {None}
      BY <1>4, <2>4, <3>5, LinkLemma
    <3>7. PICK e : e = With(g, d, [g.desc[d] EXCEPT !.base = B])
      OBVIOUS
    <3>8. a = [heap |-> e, desc |-> d]
      BY <1>0, <1>1, <1>3, <2>4, <3>1, <3>3, <3>5, <3>7, Zenon DEF Absorbed
    <3>9. a.heap = e /\ a.desc = d
      BY <3>8
    <3>10. d \in TypeDescriptors(heap)
      <4>1. ResultIn(heap, n, d) /\ ClassOf(n) = "type"
        BY <1>1, <1>3, <1>4, <2>1 DEF CallIn, ClassOf
      <4> QED
        BY <2>2, <4>1 DEF ResultIn, TypeDescriptors
    <3>11. Put(heap, e, n, Asks(n)[f.at + 1], d, r)
      BY <1>4, <3>4, <3>6, <3>7, <3>10, BasePut, Zenon
    <3>12. Advanced(calls, then, d)
      BY <3>9, Zenon
    <3>13. Matching(e, known, then)
      BY <1>0, <1>1, <1>3, <1>9, <2>2, <3>11, <3>12, PutMatching
    <3> QED
      BY <3>9, <3>13, Zenon
  <2>5. CASE ~(Class[n] = "extension" /\ link[n] # None /\ f.at = 0)
    <3>1. PICK m : m = (n \in many /\ Class[n] \in {"particle", "group"})
      OBVIOUS
    <3>2. m \in BOOLEAN /\ Says(m, n)
      BY <2>3, <3>1, Zenon DEF Says
    <3>3. PICK g : g = Add(heap, d, r, m)
      OBVIOUS
    <3>4. Put(heap, g, n, Asks(n)[f.at + 1], d, r)
      BY <1>0, <1>1, <1>3, <1>9, <2>2, <3>2, <3>3, AddPut
    <3>5. a = [heap |-> g, desc |-> d]
      BY <1>0, <1>1, <1>3, <2>1, <2>5, <3>1, <3>3, Zenon DEF Absorbed
    <3>6. a.heap = g /\ a.desc = d
      BY <3>5
    <3>7. Advanced(calls, then, d)
      BY <3>6, Zenon
    <3>8. Matching(g, known, then)
      BY <1>0, <1>1, <1>3, <1>9, <2>2, <3>4, <3>7, PutMatching
    <3> QED
      BY <3>6, <3>8, Zenon
  <2> QED
    BY <2>4, <2>5
<1>10. ~(Class[n] = "simpleType" \/ (Class[n] = "attribute" /\ ~IsRef(n)))
  BY <1>4, AsksLemma
<1> QED
  BY <1>4, <1>6, <1>7, <1>8, <1>9, <1>10, AddingLemma

---------------------------------------------------------------------------
(* Calls that begin.                                                       *)

\* The running call calls `describe' of k, or a turn does.
Entering(h, known, calls, k) ==
  /\ Sound(h, known, calls) /\ Matching(h, known, calls)
  /\ k \in Nodes /\ known[k] = 0
  /\ calls # <<>> => /\ calls[1].at < Len(Asks(calls[1].node))
                     /\ k = Asks(calls[1].node)[calls[1].at + 1]

\* A call of `describe' of k begins, see Enter.
Entered(h, known, calls, k, g, later, then) ==
  /\ g = IF Beginning(k) = None THEN h ELSE WithNew(h, Beginning(k), k)
  /\ then = <<[node |-> k, desc |-> IF Beginning(k) = None THEN 0 ELSE Newest(g), at |-> 0]>> \o calls
  /\ later = IF Beginning(k) # None /\ Class[k] \in Early
               THEN [known EXCEPT ![k] = Newest(g)] ELSE known

\* The node of a call that begins is not being described.
LEMMA FreshLemma ==
  ASSUME Given, NEW h, NEW known, NEW calls, NEW k, Entering(h, known, calls, k)
  PROVE  ~OnStack(calls, k)
<1>1. /\ Typing /\ Sound(h, known, calls) /\ Apart(calls) /\ Memory(known, calls)
      /\ k \in Nodes /\ known[k] = 0
      /\ known \in [Nodes -> 0..Len(h.desc)] /\ HeapOK(h) /\ calls \in Seq(FrameOf(h))
      /\ \A n \in Nodes : known[n] # 0 => ResultIn(h, n, known[n])
  BY DEF Given, Entering, Sound, Matching
<1>2. CASE calls = <<>>
  <2>1. Len(calls) = 0
    BY <1>2
  <2> QED
    BY <2>1 DEF OnStack
<1>3. CASE calls # <<>>
  <2>1. PICK f : f = calls[1]
    OBVIOUS
  <2>2. f.at < Len(Asks(f.node)) /\ k = Asks(f.node)[f.at + 1]
    BY <1>3, <2>1 DEF Entering
  <2>3. CASE ~(Class[f.node] = "element" /\ ~IsRef(f.node))
    BY <1>1, <1>3, <2>1, <2>2, <2>3, FarLemma
  <2>4. CASE Class[f.node] = "element" /\ ~IsRef(f.node)
    <3>1. 1 \in 1..Len(calls)
      BY <1>1, <1>3, EmptySeq
    <3>2. f.node \in Nodes /\ f.at \in Nat
      BY <1>1, <2>1, <3>1, CallLemma
    <3>3. Asks(f.node) \in Seq(Nodes)
      BY <1>1, <3>2, AsksLemma
    <3>4. Asks(f.node) # <<>>
      BY <2>2, <3>2, <3>3, EmptySeq
    <3>5. Class[Asks(f.node)[1]] = "complexType" /\ Len(Asks(f.node)) = 1
      BY <1>1, <2>4, <3>2, <3>4, TypeOfLemma
    <3>6. f.at + 1 = 1
      BY <2>2, <3>2, <3>5
    <3>7. Remembers(k)
      BY <2>2, <3>5, <3>6 DEF Remembers, Early
    <3> QED
      BY <1>1, <3>7 DEF Memory, OnStack
  <2> QED
    BY <2>3, <2>4
<1> QED
  BY <1>2, <1>3

\* What is new when a call begins.
Begun(h, known, calls, k, g, later, then, d) ==
  /\ Grown(h, g)
  /\ \A e \in 1..Len(h.desc) : g.desc[e] = h.desc[e]
  /\ \A a \in 1..Len(h.arrays) : g.arrays[a] = h.arrays[a]
  /\ \A e \in 1..Len(g.desc) : e \notin 1..Len(h.desc) => e = d
  /\ \A a \in 1..Len(g.arrays) : a \notin 1..Len(h.arrays) => a = Len(h.arrays) + 1 /\ d # 0
  /\ d # 0 =>
       /\ d = Len(h.desc) + 1 /\ d \in 1..Len(g.desc) /\ d \notin 1..Len(h.desc)
       /\ g.desc[d].class = ClassOf(k) /\ g.desc[d].node = k /\ g.desc[d].many = (k \in many)
       /\ g.desc[d].items = Len(h.arrays) + 1 /\ Len(h.arrays) + 1 \in 1..Len(g.arrays)
       /\ g.arrays[Len(h.arrays) + 1] = [elements |-> <<>>, attributes |-> <<>>]
       /\ ~(Class[k] \in {"attribute", "group"} /\ IsRef(k))
  /\ d = 0 => \/ Class[k] \in {"attribute", "group"} /\ IsRef(k)
              \/ Class[k] \in {"particle", "group"} /\ ~IsRef(k) /\ Asks(k) = <<>>
  /\ Len(then) = Len(calls) + 1
  /\ then[1].node = k /\ then[1].desc = d /\ then[1].at = 0
  /\ \A i \in 2..Len(then) : i - 1 \in 1..Len(calls) /\ then[i] = calls[i - 1]
  /\ \A i \in 1..Len(calls) : i + 1 \in 2..Len(then) /\ then[i + 1] = calls[i]
  /\ \A n \in Nodes : n # k => later[n] = known[n]
  /\ later[k] = IF d # 0 /\ Class[k] \in Early THEN d ELSE 0

\* What a call that begins adds to the heap, the cache and the stack.
LEMMA BegunLemma ==
  ASSUME Given, NEW h, NEW known, NEW calls, NEW k, Entering(h, known, calls, k),
         NEW g, NEW later, NEW then, Entered(h, known, calls, k, g, later, then)
  PROVE  \E d : Begun(h, known, calls, k, g, later, then, d)
<1>0. /\ Typing /\ HeapOK(h) /\ known \in [Nodes -> 0..Len(h.desc)] /\ calls \in Seq(FrameOf(h))
      /\ k \in Nodes /\ known[k] = 0 /\ Len(h.desc) \in Nat /\ Len(h.arrays) \in Nat /\ Len(calls) \in Nat
  <2>1. /\ Typing /\ HeapOK(h) /\ known \in [Nodes -> 0..Len(h.desc)] /\ calls \in Seq(FrameOf(h))
        /\ k \in Nodes /\ known[k] = 0
    BY DEF Given, Entering, Sound
  <2> QED
    BY <2>1, HeapLemma, LenProperties
<1>1. PICK b : b = Beginning(k)
  OBVIOUS
<1>2. PICK d : d = IF b = None THEN 0 ELSE Newest(g)
  OBVIOUS
<1>3. PICK f : f = [node |-> k, desc |-> d, at |-> 0]
  BY Zenon
<1>4. /\ g = IF b = None THEN h ELSE WithNew(h, b, k)
      /\ then = <<f>> \o calls
      /\ later = IF b # None /\ Class[k] \in Early THEN [known EXCEPT ![k] = d] ELSE known
  BY <1>1, <1>2, <1>3 DEF Entered
<1>5. f.node = k /\ f.desc = d /\ f.at = 0
  BY <1>3
<1>6. /\ Len(then) = Len(calls) + 1 /\ then[1] = f
      /\ \A i \in 2..Len(then) : i - 1 \in 1..Len(calls) /\ then[i] = calls[i - 1]
      /\ \A i \in 1..Len(calls) : i + 1 \in 2..Len(then) /\ then[i + 1] = calls[i]
  <2>1. <<f>> \in Seq({f} \cup FrameOf(h)) /\ calls \in Seq({f} \cup FrameOf(h))
    BY <1>0
  <2>2. Len(<<f>>) = 1 /\ <<f>>[1] = f
    OBVIOUS
  <2>3. /\ Len(then) = Len(calls) + 1
        /\ \A i \in 1..(Len(calls) + 1) : then[i] = IF i <= 1 THEN <<f>>[i] ELSE calls[i - 1]
    BY <1>0, <1>4, <2>1, <2>2, ConcatProperties
  <2> QED
    BY <1>0, <2>2, <2>3
<1>7. \/ /\ b = None
         /\ \/ Class[k] \in {"attribute", "group"} /\ IsRef(k)
            \/ Class[k] \in {"particle", "group"} /\ ~IsRef(k) /\ Asks(k) = <<>>
      \/ b # None /\ b \in {"element", "attribute", "type"} /\ b = ClassOf(k)
  BY <1>0, <1>1, BeginningLemma
<1>8. CASE b = None
  <2>1. d = 0 /\ g = h /\ later = known
    BY <1>2, <1>4, <1>8
  <2>2. Grown(h, h)
    BY <1>0 DEF Grown
  <2> QED
    BY <1>0, <1>5, <1>6, <1>7, <1>8, <2>1, <2>2 DEF Begun
<1>9. CASE b # None
  <2>1. g = WithNew(h, b, k) /\ d = Newest(g) /\ b \in {"element", "attribute", "type"} /\ b = ClassOf(k)
    BY <1>2, <1>4, <1>7, <1>9
  <2>2. /\ Grown(h, g) /\ Newest(g) = Len(h.desc) + 1 /\ Len(g.desc) = Len(h.desc) + 1
        /\ g.desc[Newest(g)] = Descriptor(b, k, Len(h.arrays) + 1)
        /\ Len(g.arrays) = Len(h.arrays) + 1
        /\ g.arrays[Len(h.arrays) + 1] = [elements |-> <<>>, attributes |-> <<>>]
        /\ \A e \in 1..Len(h.desc) : g.desc[e] = h.desc[e]
        /\ \A a \in 1..Len(h.arrays) : g.arrays[a] = h.arrays[a]
    <3> DEFINE q == WithNew(h, b, k)
    <3>0. HeapOK(h) /\ k \in Nodes /\ b \in {"element", "attribute", "type"}
      BY <1>0, <2>1
    <3>3. /\ Grown(h, q) /\ Newest(q) = Len(h.desc) + 1 /\ Len(q.desc) = Len(h.desc) + 1
          /\ Len(q.arrays) = Len(h.arrays) + 1
          /\ \A e \in 1..Len(h.desc) : q.desc[e] = h.desc[e]
          /\ \A a \in 1..Len(h.arrays) : q.arrays[a] = h.arrays[a]
      BY ONLY <3>0, NewLemma
    <3>4. q.desc[Newest(q)] = Descriptor(b, k, Len(h.arrays) + 1)
      BY ONLY <3>0, NewLemma
    <3>5. q.arrays[Len(h.arrays) + 1] = [elements |-> <<>>, attributes |-> <<>>]
      BY ONLY <3>0, NewLemma
    <3>2. g = q
      BY <2>1
    <3> HIDE DEF q
    <3> QED
      BY <3>2, <3>3, <3>4, <3>5, Zenon
  <2>3. /\ g.desc[d].class = b /\ g.desc[d].node = k /\ g.desc[d].many = (k \in many)
        /\ g.desc[d].items = Len(h.arrays) + 1
    BY <2>1, <2>2 DEF Descriptor
  <2>4. /\ d = Len(h.desc) + 1 /\ d # 0 /\ d \in 1..Len(g.desc) /\ d \notin 1..Len(h.desc)
        /\ Len(h.arrays) + 1 \in 1..Len(g.arrays)
        /\ \A e \in 1..Len(g.desc) : e \notin 1..Len(h.desc) => e = d
        /\ \A a \in 1..Len(g.arrays) : a \notin 1..Len(h.arrays) => a = Len(h.arrays) + 1
    <3>1. PICK x : x = Len(h.desc)
      BY Zenon
    <3>2. PICK y : y = Len(h.arrays)
      BY Zenon
    <3>3. d = x + 1 /\ Len(g.desc) = x + 1 /\ Len(g.arrays) = y + 1 /\ x \in Nat /\ y \in Nat
      BY <1>0, <2>1, <2>2, <3>1, <3>2
    <3>4. /\ d # 0 /\ d \in 1..(x + 1) /\ d \notin 1..x /\ y + 1 \in 1..(y + 1)
          /\ \A e \in 1..(x + 1) : e \notin 1..x => e = d
          /\ \A a \in 1..(y + 1) : a \notin 1..y => a = y + 1
      BY <3>3
    <3> QED
      BY <3>1, <3>2, <3>3, <3>4, Zenon
  <2>5. ~(Class[k] \in {"attribute", "group"} /\ IsRef(k))
    BY <1>1, <1>9 DEF Beginning
  <2>6. /\ \A n \in Nodes : n # k => later[n] = known[n]
        /\ later[k] = IF Class[k] \in Early THEN d ELSE 0
    BY <1>0, <1>4, <1>9
  <2>7. /\ d # 0 =>
             /\ d = Len(h.desc) + 1 /\ d \in 1..Len(g.desc) /\ d \notin 1..Len(h.desc)
             /\ g.desc[d].class = ClassOf(k) /\ g.desc[d].node = k /\ g.desc[d].many = (k \in many)
             /\ g.desc[d].items = Len(h.arrays) + 1 /\ Len(h.arrays) + 1 \in 1..Len(g.arrays)
             /\ g.arrays[Len(h.arrays) + 1] = [elements |-> <<>>, attributes |-> <<>>]
             /\ ~(Class[k] \in {"attribute", "group"} /\ IsRef(k))
    BY <2>1, <2>2, <2>3, <2>4, <2>5
  <2>8. then[1].node = k /\ then[1].desc = d /\ then[1].at = 0
    BY <1>5, <1>6
  <2>9. Begun(h, known, calls, k, g, later, then, d)
    BY <1>6, <2>2, <2>4, <2>6, <2>7, <2>8 DEF Begun
  <2> QED
    BY <2>9
<1> QED
  BY <1>8, <1>9

\* An empty array holds nothing.
LEMMA NothingHeld ==
  ASSUME NEW h, NEW a, h.arrays[a] = [elements |-> <<>>, attributes |-> <<>>], NEW class
  PROVE  Held(h, a, class) = <<>>
<1>1. h.arrays[a].elements = <<>> /\ h.arrays[a].attributes = <<>>
  OBVIOUS
<1>2. Shown(h, <<>>) = <<>>
  BY DEF Shown
<1> QED
  BY <1>1, <1>2 DEF Held

\* A call that begins keeps the invariant.
LEMMA EnterMatching ==
  ASSUME Given, NEW h, NEW known, NEW calls, NEW k, Entering(h, known, calls, k),
         NEW g, NEW later, NEW then, Entered(h, known, calls, k, g, later, then)
  PROVE  Matching(g, later, then)
<1>0. /\ Typing /\ WellFounded /\ HeapOK(h) /\ known \in [Nodes -> 0..Len(h.desc)]
      /\ Sound(h, known, calls) /\ k \in Nodes /\ known[k] = 0
      /\ \A n \in Nodes : known[n] # 0 => ResultIn(h, n, known[n])
      /\ Alone(h) /\ Completes(h, calls) /\ Elements(h, known, calls) /\ Labels(h, known, calls)
      /\ Calls(h, calls) /\ Apart(calls) /\ Memory(known, calls) /\ Plain(h)
  BY DEF Given, Entering, Sound, Matching
<1>1. PICK d : Begun(h, known, calls, k, g, later, then, d)
  BY BegunLemma
<1>2. PICK new : new = Len(h.arrays) + 1
  OBVIOUS
<1>3. /\ Grown(h, g)
      /\ \A e \in 1..Len(h.desc) : g.desc[e] = h.desc[e]
      /\ \A a \in 1..Len(h.arrays) : g.arrays[a] = h.arrays[a]
      /\ \A e \in 1..Len(g.desc) : e \notin 1..Len(h.desc) => e = d
      /\ \A a \in 1..Len(g.arrays) : a \notin 1..Len(h.arrays) => a = new /\ d # 0
  BY <1>1, <1>2 DEF Begun
<1>4. d # 0 => /\ d \in 1..Len(g.desc) /\ d \notin 1..Len(h.desc)
               /\ g.desc[d].class = ClassOf(k) /\ g.desc[d].node = k /\ g.desc[d].many = (k \in many)
               /\ g.desc[d].items = new /\ new \in 1..Len(g.arrays)
               /\ g.arrays[new] = [elements |-> <<>>, attributes |-> <<>>]
               /\ ~(Class[k] \in {"attribute", "group"} /\ IsRef(k))
  BY <1>1, <1>2 DEF Begun
<1>5. d = 0 => \/ Class[k] \in {"attribute", "group"} /\ IsRef(k)
               \/ Class[k] \in {"particle", "group"} /\ ~IsRef(k) /\ Asks(k) = <<>>
  BY <1>1 DEF Begun
<1>6. /\ Len(then) = Len(calls) + 1
      /\ then[1].node = k /\ then[1].desc = d /\ then[1].at = 0
      /\ \A i \in 2..Len(then) : i - 1 \in 1..Len(calls) /\ then[i] = calls[i - 1]
      /\ \A i \in 1..Len(calls) : i + 1 \in 2..Len(then) /\ then[i + 1] = calls[i]
  BY <1>1 DEF Begun
<1>7. /\ \A n \in Nodes : n # k => later[n] = known[n]
      /\ later[k] = IF d # 0 /\ Class[k] \in Early THEN d ELSE 0
  BY <1>1 DEF Begun
<1>8. /\ Len(h.desc) \in Nat /\ Len(h.arrays) \in Nat /\ Len(calls) \in Nat
      /\ calls \in Seq(FrameOf(h))
      /\ \A i \in 1..Len(then) : i = 1 \/ i \in 2..Len(then)
      /\ 1 \in 1..Len(then) /\ \A i \in 2..Len(then) : i \in 1..Len(then) /\ i # 1
      /\ \A e \in 1..Len(g.desc) : e \in 1..Len(h.desc) <=> ~(e > Len(h.desc))
      /\ 1..Len(h.desc) \subseteq 1..Len(g.desc) /\ HeapOK(g)
  <2>1. calls \in Seq(FrameOf(h))
    BY <1>0 DEF Sound
  <2>2. Len(h.desc) \in Nat /\ Len(h.arrays) \in Nat /\ Len(calls) \in Nat
    BY <1>0, <2>1, HeapLemma, LenProperties
  <2>3. /\ \A e \in 1..Len(g.desc) : e \in 1..Len(h.desc) <=> ~(e > Len(h.desc))
        /\ 1..Len(h.desc) \subseteq 1..Len(g.desc) /\ HeapOK(g)
    BY <1>0, <1>3, RangeLemma
  <2>4. PICK l : l = Len(then)
    BY Zenon
  <2>5. l \in Nat /\ l >= 1
    BY <1>6, <2>2, <2>4
  <2>6. /\ \A i \in 1..l : i = 1 \/ i \in 2..l
        /\ 1 \in 1..l /\ \A i \in 2..l : i \in 1..l /\ i # 1
    BY <2>5
  <2> QED
    BY <2>1, <2>2, <2>3, <2>4, <2>6
<1>9. ~OnStack(calls, k)
  BY FreshLemma
<1>10. \A n : OnStack(calls, n) => OnStack(then, n)
  <2>1. ASSUME NEW n, NEW i \in 1..Len(calls), calls[i].node = n PROVE OnStack(then, n)
    <3>1. i + 1 \in 1..Len(then) /\ then[i + 1].node = n
      BY <1>6, <1>8, <2>1
    <3> QED
      BY <3>1 DEF OnStack
  <2> QED
    BY <2>1 DEF OnStack
<1>11. OnStack(then, k)
  BY <1>6, <1>8 DEF OnStack
<1>12. \A x : Running(calls, x) => Running(then, x)
  <2>1. ASSUME NEW x, NEW i \in 1..Len(calls), Adds(calls[i].node), calls[i].desc = x PROVE Running(then, x)
    <3>1. i + 1 \in 1..Len(then) /\ then[i + 1] = calls[i]
      BY <1>6, <1>8, <2>1
    <3> QED
      BY <2>1, <3>1 DEF Running
  <2> QED
    BY <2>1 DEF Running
<1>13. \A x : Running(then, x) => Running(calls, x) \/ (x = d /\ Adds(k))
  <2>1. ASSUME NEW x, NEW i \in 1..Len(then), Adds(then[i].node), then[i].desc = x
        PROVE  Running(calls, x) \/ (x = d /\ Adds(k))
    <3>1. CASE i = 1
      BY <1>6, <2>1, <3>1
    <3>2. CASE i # 1
      <4>1. i - 1 \in 1..Len(calls) /\ then[i] = calls[i - 1]
        BY <1>6, <1>8, <3>2
      <4> QED
        BY <2>1, <4>1 DEF Running
    <3> QED
      BY <3>1, <3>2
  <2> QED
    BY <2>1 DEF Running
<1>14. \A x : Pending(calls, x) => Pending(then, x)
  <2>1. ASSUME NEW x, NEW i \in 1..Len(calls), Class[calls[i].node] = "element", ~IsRef(calls[i].node),
               calls[i].desc = x, calls[i].at < Len(Asks(calls[i].node))
        PROVE  Pending(then, x)
    <3>1. i + 1 \in 1..Len(then) /\ then[i + 1] = calls[i]
      BY <1>6, <1>8, <2>1
    <3> QED
      BY <2>1, <3>1 DEF Pending
  <2> QED
    BY <2>1, Zenon DEF Pending
<1>15. \A i \in 1..Len(calls) : calls[i].desc \in 0..Len(h.desc) /\ (calls[i].desc # d \/ calls[i].desc = 0)
  <2>1. ASSUME NEW i \in 1..Len(calls) PROVE calls[i].desc \in 0..Len(h.desc)
    BY <1>0, CallLemma
  <2> QED
    BY <1>4, <1>8, <2>1
<1>16. ~Running(calls, d) \/ d = 0
  BY <1>15 DEF Running
<1>17. Near(h, g)
  <2>1. ASSUME NEW e \in TypeDescriptors(g), e > Len(h.desc) PROVE g.desc[e].items > Len(h.arrays)
    <3>1. e \in 1..Len(g.desc) /\ e \notin 1..Len(h.desc)
      BY <1>8, <2>1 DEF TypeDescriptors
    <3>2. e = d /\ e # 0
      BY <1>3, <3>1
    <3> QED
      BY <1>2, <1>4, <1>8, <3>2
  <2> QED
    BY <1>3, <2>1 DEF Near
<1>18. \A e \in TypeDescriptors(g) : e > Len(h.desc) => e = d /\ e # 0
  <2>1. ASSUME NEW e \in TypeDescriptors(g), e > Len(h.desc) PROVE e = d /\ e # 0
    <3>1. e \in 1..Len(g.desc) /\ e \notin 1..Len(h.desc)
      BY <1>8, <2>1 DEF TypeDescriptors
    <3> QED
      BY <1>3, <3>1
  <2> QED
    BY <2>1
<1>19. Alone(g)
  BY <1>0, <1>17, <1>18, AloneKept
<1>20. Completes(g, then)
  <2>1. ASSUME NEW e \in TypeDescriptors(h), ~Running(then, e)
        PROVE  ~Running(calls, e) /\ g.arrays[h.desc[e].items] = h.arrays[h.desc[e].items]
    <3>1. h.desc[e].items \in 1..Len(h.arrays)
      BY <1>0, ItemsLemma DEF TypeDescriptors
    <3> QED
      BY <1>3, <1>12, <2>1, <3>1
  <2>2. ASSUME NEW e \in TypeDescriptors(g), e > Len(h.desc), ~Running(then, e) PROVE Complete(g, e)
    <3>1. e = d /\ d # 0
      BY <1>18, <2>2
    <3>2. ~Adds(k)
      BY <1>6, <1>8, <2>2, <3>1 DEF Running
    <3>3. Class[k] = "simpleType"
      <4>1. Class[k] \in {"element", "attribute", "simpleType"} \/ (Class[k] = "group" /\ IsRef(k))
        BY <1>0, <3>2, AddingLemma
      <4>2. ClassOf(k) = "type"
        BY <1>4, <3>1 DEF TypeDescriptors
      <4> QED
        BY <1>4, <3>1, <4>1, <4>2 DEF ClassOf
    <3>4. Asks(k) = <<>>
      BY <3>3 DEF Asks
    <3>5. \A class : Contents(class)[k] = <<>>
      BY <1>0, <3>4, EmptyLemma
    <3>6. \A class : Held(g, new, class) = <<>>
      BY <1>4, <3>1, NothingHeld
    <3> QED
      BY <1>4, <3>1, <3>5, <3>6 DEF Complete
  <2> QED
    BY <1>0, <1>3, <2>1, <2>2, CompletesKept
<1>21. Recalls(known, later)
  BY <1>0, <1>7 DEF Recalls
<1>22. Elements(g, later, then)
  <2>1. \A e \in 1..Len(h.desc) : IsElement(h, e) =>
          \/ g.desc[e].items = h.desc[e].items /\ (Pending(calls, e) => Pending(then, e))
          \/ Linked(g, later, e)
    BY <1>3, <1>14
  <2>2. ASSUME NEW e \in 1..Len(g.desc), e > Len(h.desc), IsElement(g, e)
        PROVE  Class[g.desc[e].node] = "element" /\ ElementOK(g, later, then, e)
    <3>1. e = d /\ d # 0
      BY <1>3, <1>4, <1>8, <2>2
    <3>2. Class[k] = "element" /\ ~IsRef(k)
      BY <1>4, <2>2, <3>1 DEF IsElement, ClassOf
    <3>3. Free(g, new)
      <4>1. ASSUME NEW x \in TypeDescriptors(g) PROVE g.desc[x].items # new
        <5>1. x \in 1..Len(g.desc) /\ x # d
          BY <1>4, <2>2, <3>1 DEF TypeDescriptors, IsElement
        <5>2. x \in 1..Len(h.desc)
          BY <1>3, <5>1
        <5>3. h.desc[x].items \in 1..Len(h.arrays) /\ g.desc[x] = h.desc[x]
          BY <1>0, <1>3, <5>2, ItemsLemma
        <5> QED
          BY <1>2, <1>8, <5>3
      <4> QED
        BY <4>1 DEF Free
    <3>4. CASE Asks(k) # <<>>
      <4>1. Asks(k) \in Seq(Nodes)
        BY <1>0, AsksLemma
      <4>2. 0 < Len(Asks(k))
        BY <3>4, <4>1, EmptySeq
      <4>3. Pending(then, e)
        BY <1>6, <1>8, <3>1, <3>2, <4>2 DEF Pending
      <4>4. Unlinked(g, e)
        BY <1>4, <3>1, <3>3 DEF Unlinked
      <4> QED
        BY <1>4, <3>1, <3>2, <4>3, <4>4 DEF ElementOK
    <3>5. CASE Asks(k) = <<>>
      <4>1. \A class : Contents(class)[k] = <<>>
        BY <1>0, <3>5, EmptyLemma
      <4>2. \A class : Held(g, new, class) = <<>>
        BY <1>4, <3>1, NothingHeld
      <4>3. IsPrefix(<<>>, <<>>)
        <5>1. <<>> \in Seq(Entry)
          OBVIOUS
        <5> QED
          BY <5>1, PrefixLemma, Zenon
      <4>4. HasOwn(g, k, new)
        BY <3>3, <4>1, <4>2, <4>3 DEF HasOwn
      <4> QED
        BY <1>4, <3>1, <3>2, <4>4 DEF ElementOK, Linked
    <3> QED
      BY <3>4, <3>5
  <2> QED
    BY <1>0, <1>14, <1>17, <1>21, <2>1, <2>2, ElementsKept
<1>23. Labels(g, later, then)
  <2>1. ASSUME NEW n \in Nodes, later[n] # 0, ~OnStack(then, n)
        PROVE  later[n] = known[n] /\ ~OnStack(calls, n)
    BY <1>7, <1>10, <1>11, <2>1
  <2> QED
    BY <1>0, <1>3, <2>1, LabelsKept
<1>24. Fills(g, then[1]) /\ Names(g, then, then[1])
  <2>1. Fills(g, then[1])
    <3>1. ASSUME d # 0, NEW class \in Kinds PROVE Held(g, new, class) = Parts(Contents(class), class, k, 0)
      <4>1. Held(g, new, class) = <<>>
        BY <1>4, <3>1, NothingHeld
      <4>2. Parts(Contents(class), class, k, 0) = <<>>
        BY <1>0, EquationLemma
      <4> QED
        BY <4>1, <4>2
    <3> QED
      BY <1>4, <1>6, <3>1 DEF Fills
  <2>2. ASSUME ~Adds(k), ~IsRef(k), d # 0 PROVE Labelled(g, k, d) /\ ~Running(then, d)
    <3>1. Of(k) = k
      BY <2>2 DEF Of
    <3>2. Labelled(g, k, d)
      BY <1>4, <2>2, <3>1 DEF Labelled
    <3>3. ~Running(then, d)
      BY <1>13, <1>16, <2>2
    <3> QED
      BY <3>2, <3>3
  <2>3. ASSUME ~IsRef(k), d = 0, NEW class \in Kinds PROVE Contents(class)[k] = <<>>
    <3>1. Asks(k) = <<>>
      BY <1>5, <2>3
    <3> QED
      BY <1>0, <3>1, EmptyLemma
  <2>4. Names(g, then, then[1])
    BY <1>6, <2>2, <2>3 DEF Names
  <2> QED
    BY <2>1, <2>4
<1>25. Calls(g, then)
  <2>1. ASSUME NEW i \in 1..Len(calls) PROVE Fills(g, calls[i]) /\ Names(g, then, calls[i])
    <3>1. calls[i] \in FrameOf(h) /\ Fills(h, calls[i]) /\ Names(h, calls, calls[i])
      BY <1>0, CallLemma DEF Calls
    <3>2. calls[i].desc # 0 /\ Running(then, calls[i].desc) => Running(calls, calls[i].desc)
      BY <1>13, <1>15
    <3>3. Names(g, then, calls[i])
      BY <1>0, <1>3, <3>1, <3>2, NamesKept
    <3>4. ASSUME Adds(calls[i].node), calls[i].desc # 0
          PROVE  /\ calls[i].desc \in TypeDescriptors(h)
                 /\ g.arrays[h.desc[calls[i].desc].items] = h.arrays[h.desc[calls[i].desc].items]
      BY <1>0, <1>3, <3>4, TargetLemma, Zenon
    <3> QED
      BY <1>0, <1>3, <3>1, <3>3, <3>4, FillsKept
  <2>2. ASSUME NEW i \in 1..Len(then) PROVE Fills(g, then[i]) /\ Names(g, then, then[i])
    <3>1. CASE i = 1
      BY <1>24, <3>1
    <3>2. CASE i # 1
      <4>1. i - 1 \in 1..Len(calls) /\ then[i] = calls[i - 1]
        BY <1>6, <1>8, <3>2
      <4> QED
        BY <2>1, <4>1
    <3> QED
      BY <3>1, <3>2
  <2> QED
    BY <2>2 DEF Calls
<1>26. Apart(then)
  <2>1. ASSUME NEW i \in 1..Len(then), NEW j \in 1..Len(then), i # j
        PROVE  /\ then[i].node # then[j].node
               /\ Adds(then[i].node) /\ then[i].desc # 0 /\ Adds(then[j].node) => then[i].desc # then[j].desc
    <3>1. CASE i = 1
      <4>1. j - 1 \in 1..Len(calls) /\ then[j] = calls[j - 1]
        BY <1>6, <1>8, <2>1, <3>1
      <4> QED
        BY <1>6, <1>9, <1>15, <3>1, <4>1 DEF OnStack
    <3>2. CASE i # 1 /\ j = 1
      <4>1. i - 1 \in 1..Len(calls) /\ then[i] = calls[i - 1]
        BY <1>6, <1>8, <3>2
      <4> QED
        BY <1>6, <1>9, <1>15, <3>2, <4>1 DEF OnStack
    <3>3. CASE i # 1 /\ j # 1
      <4>1. i - 1 \in 1..Len(calls) /\ then[i] = calls[i - 1] /\ j - 1 \in 1..Len(calls) /\ then[j] = calls[j - 1]
        BY <1>6, <1>8, <3>3
      <4>2. i - 1 # j - 1
        BY <2>1
      <4> QED
        BY <1>0, <4>1, <4>2 DEF Apart
    <3> QED
      BY <3>1, <3>2, <3>3
  <2> QED
    BY <2>1 DEF Apart
<1>27. Memory(later, then)
  <2>1. ASSUME NEW i \in 1..Len(then), Remembers(then[i].node) PROVE later[then[i].node] # 0
    <3>1. CASE i = 1
      <4>1. Remembers(k)
        BY <1>6, <2>1, <3>1
      <4>2. d # 0
        BY <1>5, <4>1 DEF Remembers, Early
      <4> QED
        BY <1>6, <1>7, <3>1, <4>1, <4>2 DEF Remembers
    <3>2. CASE i # 1
      <4>1. i - 1 \in 1..Len(calls) /\ then[i] = calls[i - 1]
        BY <1>6, <1>8, <3>2
      <4>2. known[then[i].node] # 0 /\ then[i].node \in Nodes
        BY <1>0, <2>1, <4>1, CallLemma DEF Memory
      <4> QED
        BY <1>0, <1>7, <4>2
    <3> QED
      BY <3>1, <3>2
  <2>2. ASSUME NEW n \in Nodes, Class[n] \in {"particle", "simpleType"} PROVE later[n] = 0
    BY <1>0, <1>7, <2>2 DEF Memory, Early
  <2> QED
    BY <2>1, <2>2 DEF Memory
<1>28. Plain(g)
  <2>1. ASSUME NEW a \in 1..Len(g.arrays), NEW i \in 1..Len(g.arrays[a].elements)
        PROVE  \E b \in 1..Len(h.arrays) : \E j \in 1..Len(h.arrays[b].elements) :
                 g.arrays[a].elements[i] = h.arrays[b].elements[j]
    <3>1. a \in 1..Len(h.arrays)
      <4>1. SUFFICES ASSUME a \notin 1..Len(h.arrays)
                     PROVE  FALSE
        OBVIOUS
      <4>2. g.arrays[a] = [elements |-> <<>>, attributes |-> <<>>]
        BY <1>3, <1>4, <4>1
      <4>3. g.arrays[a].elements = <<>>
        BY <4>2
      <4>4. Len(g.arrays[a].elements) = 0
        BY <4>3
      <4> QED
        BY <4>4
    <3> QED
      BY <1>3, <3>1, Zenon
  <2>2. \A a \in 1..Len(g.arrays) : \A i \in 1..Len(g.arrays[a].elements) :
          \/ \E b \in 1..Len(h.arrays) : \E j \in 1..Len(h.arrays[b].elements) :
               g.arrays[a].elements[i] = h.arrays[b].elements[j]
          \/ IsElement(g, g.arrays[a].elements[i])
    BY <2>1, Zenon
  <2> QED
    BY <1>0, <1>3, <2>2, PlainKept, Zenon
<1> QED
  BY <1>19, <1>20, <1>22, <1>23, <1>25, <1>26, <1>27, <1>28 DEF Matching

---------------------------------------------------------------------------
(* Between turns.                                                          *)

\* Between turns, an element has what the schema says.
LEMMA HoldsLemma ==
  ASSUME Given, NEW h, NEW known, Sound(h, known, <<>>), Matching(h, known, <<>>),
         NEW d \in 1..Len(h.desc), IsElement(h, d), NEW n, n = h.desc[d].node,
         NEW a, a = h.desc[d].items
  PROVE  /\ Class[n] = "element" /\ n \in Nodes /\ a \in 1..Len(h.arrays)
         /\ IsPrefix(Contents("element")[n], Held(h, a, "element"))
         /\ Held(h, a, "attribute") = Contents("attribute")[n]
<1>1. /\ Typing /\ WellFounded /\ HeapOK(h) /\ known \in [Nodes -> 0..Len(h.desc)]
      /\ \A m \in Nodes : known[m] # 0 => ResultIn(h, m, known[m])
      /\ Elements(h, known, <<>>) /\ Labels(h, known, <<>>) /\ Completes(h, <<>>)
  BY DEF Given, Sound, Matching
<1>2. n \in Nodes /\ a \in 1..Len(h.arrays)
  BY <1>1, ItemsLemma
<1>3. /\ \A m : ~OnStack(<<>>, m)
      /\ \A x : ~Running(<<>>, x)
      /\ \A x : ~Pending(<<>>, x)
  <2>1. Len(<<>>) = 0 /\ 1..0 = {}
    OBVIOUS
  <2> QED
    BY <2>1 DEF OnStack, Running, Pending
<1>4. Class[n] = "element" /\ Linked(h, known, d) /\ ~IsRef(n)
  BY <1>1, <1>3 DEF Elements, ElementOK, IsElement
<1>5. CASE HasOwn(h, n, a)
  BY <1>2, <1>4, <1>5 DEF HasOwn
<1>6. CASE TypesOf(known, n, h, a)
  <2>1. PICK k : k = Asks(n)[1]
    OBVIOUS
  <2>2. PICK c : c = known[k]
    OBVIOUS
  <2>3. Asks(n) # <<>> /\ c # 0 /\ a = h.desc[c].items
    BY <1>6, <2>1, <2>2 DEF TypesOf
  <2>4. /\ k \in Nodes /\ Class[k] = "complexType" /\ Asks(n) = <<k>>
        /\ c \in TypeDescriptors(h)
    BY <1>1, <1>2, <1>4, <2>1, <2>2, <2>3, TypeOfLemma
  <2>5. Labelled(h, k, c)
    BY <1>1, <1>3, <2>2, <2>3, <2>4 DEF Labels
  <2>6. h.desc[c].node = Of(k)
    BY <2>5 DEF Labelled
  <2>7. Complete(h, c)
    BY <1>1, <1>3, <2>4 DEF Completes
  <2>8. ~IsLeaf(k)
    BY <2>4 DEF IsLeaf
  <2>9. \A class \in Kinds : Held(h, a, class) = Contents(class)[n]
    <3>1. ASSUME NEW class \in Kinds PROVE Held(h, a, class) = Contents(class)[n]
      <4>1. Held(h, a, class) = Contents(class)[Of(k)]
        BY <2>3, <2>6, <2>7 DEF Complete
      <4>2. Contents(class)[Of(k)] = Contents(class)[k]
        BY <1>1, <2>4, <2>8, OfContents
      <4>3. Contents(class)[n] = Contents(class)[k]
        BY <1>1, <1>2, <2>4, <2>8, OneLemma
      <4> QED
        BY <4>1, <4>2, <4>3
    <3> QED
      BY <3>1
  <2>10. Held(h, a, "element") = Contents("element")[n] /\ Held(h, a, "attribute") = Contents("attribute")[n]
    BY <2>9 DEF Kinds
  <2>11. Held(h, a, "element") \in Seq(Entry)
    BY <1>1, <1>2, HeldLemma
  <2>12. IsPrefix(Held(h, a, "element"), Held(h, a, "element"))
    BY <2>11, PrefixLemma
  <2> QED
    BY <1>2, <1>4, <2>10, <2>12, Zenon
<1> QED
  BY <1>4, <1>5, <1>6 DEF Linked

\* A value with the xsi:type of a derived type keeps the invariant.
LEMMA WriteMatching ==
  ASSUME Given, NEW h, NEW known, Sound(h, known, <<>>), Matching(h, known, <<>>),
         NEW d \in 1..Len(h.desc), h.desc[d].class = "element", NEW c \in 1..Len(h.desc),
         NEW g, g = Extended(h, d, c)
  PROVE  Matching(g, known, <<>>)
<1>0. /\ Typing /\ HeapOK(h) /\ known \in [Nodes -> 0..Len(h.desc)]
      /\ \A m \in Nodes : known[m] # 0 => ResultIn(h, m, known[m])
      /\ Alone(h) /\ Completes(h, <<>>) /\ Elements(h, known, <<>>) /\ Labels(h, known, <<>>)
      /\ Calls(h, <<>>) /\ Apart(<<>>) /\ Memory(known, <<>>) /\ Plain(h) /\ Recalls(known, known)
  BY DEF Given, Sound, Matching, Recalls
<1>1. PICK new : new = Len(h.arrays) + 1
  OBVIOUS
<1>2. PICK E : E = Items(h, d).elements
  OBVIOUS
<1>3. PICK E2 : E2 = Items(h, c).elements
  OBVIOUS
<1>4. PICK A : A = Items(h, d).attributes
  OBVIOUS
<1>5. /\ Grown(h, g) /\ Len(g.desc) = Len(h.desc) /\ Len(g.arrays) = new
      /\ \A e \in 1..Len(h.desc) : e # d => g.desc[e] = h.desc[e]
      /\ \A a \in 1..Len(h.arrays) : g.arrays[a] = h.arrays[a]
      /\ g.desc[d].items = new /\ g.desc[d].class = "element" /\ g.desc[d].node = h.desc[d].node
      /\ g.arrays[new].elements = E \o E2 /\ g.arrays[new].attributes = A
  <2>1. HeapOK(h)
    BY <1>0
  <2>2. Enlarged(h, g, d, c, new)
    BY <1>1, <2>1, ExtendedLemma
  <2>3. E \o E2 = Items(h, d).elements \o Items(h, c).elements
    BY <1>2, <1>3, Zenon
  <2> QED
    BY <1>4, <2>2, <2>3 DEF Enlarged
<1>6. PICK from : from = h.desc[d].items
  OBVIOUS
<1>7. PICK other : other = h.desc[c].items
  OBVIOUS
<1>8. /\ from \in 1..Len(h.arrays) /\ other \in 1..Len(h.arrays)
      /\ E = h.arrays[from].elements /\ E2 = h.arrays[other].elements /\ A = h.arrays[from].attributes
      /\ Len(h.desc) \in Nat /\ Len(h.arrays) \in Nat
  BY <1>0, <1>2, <1>3, <1>4, <1>6, <1>7, ItemsLemma, HeapLemma DEF Items
<1>9. E \in Seq(1..Len(h.desc)) /\ E2 \in Seq(1..Len(h.desc)) /\ A \in Seq(1..Len(h.desc))
  BY <1>0, <1>8, ArrayLemma, Zenon
<1>10. \A x \in 1..Len(g.desc) : x \in 1..Len(h.desc) /\ ~(x > Len(h.desc))
  BY <1>5, <1>8
<1>11. \A x \in TypeDescriptors(g) : x \in TypeDescriptors(h) /\ ~(x > Len(h.desc)) /\ g.desc[x] = h.desc[x]
  BY <1>5, <1>10 DEF TypeDescriptors
<1>12. Near(h, g)
  BY <1>5, <1>11 DEF Near
<1>13. Alone(g)
  BY <1>0, <1>11, <1>12, AloneKept
<1>14. Completes(g, <<>>)
  <2>1. ASSUME NEW x \in TypeDescriptors(h) PROVE g.arrays[h.desc[x].items] = h.arrays[h.desc[x].items]
    BY <1>0, <1>5, ItemsLemma, Zenon DEF TypeDescriptors
  <2> QED
    BY <1>0, <1>5, <1>11, <2>1, CompletesKept, Zenon
<1>15. Elements(g, known, <<>>)
  <2>1. ASSUME IsElement(h, d) PROVE Linked(g, known, d)
    <3>1. PICK n : n = h.desc[d].node
      OBVIOUS
    <3>2. /\ n \in Nodes /\ IsPrefix(Contents("element")[n], Held(h, from, "element"))
          /\ Held(h, from, "attribute") = Contents("attribute")[n]
      BY <1>6, <2>1, <3>1, HoldsLemma
    <3>3. Free(g, new)
      <4>1. ASSUME NEW x \in TypeDescriptors(g) PROVE g.desc[x].items # new
        <5>1. h.desc[x].items \in 1..Len(h.arrays) /\ g.desc[x] = h.desc[x]
          BY <1>0, <1>11, ItemsLemma, Zenon DEF TypeDescriptors
        <5> QED
          BY <1>1, <1>8, <5>1
      <4> QED
        BY <4>1 DEF Free
    <3>4. Held(h, from, "element") = Shown(h, E) /\ Held(h, from, "attribute") = Shown(h, A)
      BY <1>8 DEF Held
    <3>5. Held(g, new, "element") = Shown(g, E \o E2) /\ Held(g, new, "attribute") = Shown(g, A)
      BY <1>5 DEF Held
    <3>6. /\ Shown(h, E) \in Seq(Entry) /\ Shown(h, E2) \in Seq(Entry)
          /\ Shown(h, E \o E2) = Shown(h, E) \o Shown(h, E2)
      BY <1>0, <1>9, ShownTogether, Zenon
    <3>7. Shown(g, A) = Shown(h, A) /\ Shown(g, E \o E2) = Shown(h, E \o E2)
      <4>1. E \o E2 \in Seq(1..Len(h.desc))
        BY <1>9, ConcatProperties
      <4> QED
        BY <1>0, <1>5, <1>9, <4>1, ShownKept, Zenon
    <3>8. PICK C : C = Contents("element")[n]
      OBVIOUS
    <3>9. C \in Seq(Entry)
      BY <1>0, <3>2, <3>8, EquationLemma DEF Given
    <3>10. IsPrefix(C, Shown(h, E) \o Shown(h, E2))
      <4>1. IsPrefix(C, Shown(h, E))
        BY <3>2, <3>4, <3>8
      <4> QED
        BY <3>6, <3>9, <4>1, PrefixLemma
    <3>11. HasOwn(g, n, new)
      BY <3>2, <3>3, <3>4, <3>5, <3>6, <3>7, <3>8, <3>10, Zenon DEF HasOwn
    <3> QED
      BY <1>5, <3>1, <3>11 DEF Linked
  <2>2. \A x \in 1..Len(h.desc) : IsElement(h, x) =>
          \/ g.desc[x].items = h.desc[x].items /\ (Pending(<<>>, x) => Pending(<<>>, x))
          \/ Linked(g, known, x)
    BY <1>5, <2>1
  <2>3. \A x \in 1..Len(g.desc) : x > Len(h.desc) /\ IsElement(g, x) =>
          Class[g.desc[x].node] = "element" /\ ElementOK(g, known, <<>>, x)
    BY <1>10
  <2> QED
    BY <1>0, <1>12, <2>2, <2>3, ElementsKept
<1>16. Labels(g, known, <<>>)
  BY <1>0, <1>5, LabelsKept
<1>17. Calls(g, <<>>)
  BY DEF Calls
<1>18. Plain(g)
  <2>1. ASSUME NEW a \in 1..Len(g.arrays), NEW i \in 1..Len(g.arrays[a].elements)
        PROVE  \E b \in 1..Len(h.arrays) : \E j \in 1..Len(h.arrays[b].elements) :
                 g.arrays[a].elements[i] = h.arrays[b].elements[j]
    <3>1. a \in 1..Len(h.arrays) \/ a = new
      BY <1>1, <1>5, <1>8
    <3>2. CASE a \in 1..Len(h.arrays)
      BY <1>5, <3>2, Zenon
    <3>3. CASE a = new
      <4>1. /\ Len(E) \in Nat /\ Len(E2) \in Nat /\ Len(E \o E2) = Len(E) + Len(E2)
            /\ \A l \in 1..(Len(E) + Len(E2)) : (E \o E2)[l] = IF l <= Len(E) THEN E[l] ELSE E2[l - Len(E)]
        BY <1>9, ConcatProperties, LenProperties
      <4>2. i \in 1..(Len(E) + Len(E2)) /\ g.arrays[a].elements[i] = (E \o E2)[i]
        BY <1>5, <2>1, <3>3, <4>1, Zenon
      <4>3. CASE i <= Len(E)
        <5>1. i \in 1..Len(E) /\ g.arrays[a].elements[i] = E[i]
          BY <4>1, <4>2, <4>3
        <5> QED
          BY <1>8, <5>1, Zenon
      <4>4. CASE ~(i <= Len(E))
        <5>1. i - Len(E) \in 1..Len(E2) /\ g.arrays[a].elements[i] = E2[i - Len(E)]
          BY <4>1, <4>2, <4>4
        <5> QED
          BY <1>8, <5>1, Zenon
      <4> QED
        BY <4>3, <4>4
    <3> QED
      BY <3>1, <3>2, <3>3
  <2>2. \A a \in 1..Len(g.arrays) : \A i \in 1..Len(g.arrays[a].elements) :
          \/ \E b \in 1..Len(h.arrays) : \E j \in 1..Len(h.arrays[b].elements) :
               g.arrays[a].elements[i] = h.arrays[b].elements[j]
          \/ IsElement(g, g.arrays[a].elements[i])
    BY <2>1, Zenon
  <2>3. HeapOK(h) /\ Plain(h) /\ Grown(h, g)
    BY <1>0, <1>5
  <2> QED
    BY ONLY <2>2, <2>3, PlainKept, Zenon
<1> QED
  BY <1>0, <1>13, <1>14, <1>15, <1>16, <1>17, <1>18 DEF Matching

---------------------------------------------------------------------------
(* What stays with the links.                                              *)

\* As the links stay, what a node stands for and asks for does.
LEMMA SameOf ==
  ASSUME link' = link, NEW n
  PROVE  Of(n)' = Of(n) /\ Asks(n)' = Asks(n) /\ (IsRef(n)' <=> IsRef(n)) /\ (Adds(n)' <=> Adds(n))
<1>1. Asks(n)' = Asks(n) /\ (IsRef(n)' <=> IsRef(n)) /\ (Adds(n)' <=> Adds(n))
  BY SameLemma
<1> QED
  BY <1>1 DEF Of

\* As the links and what is repeated stay, one part of a node does.
LEMMA SamePart ==
  ASSUME link' = link, many' = many, NEW inside, NEW class, NEW n, NEW k
  PROVE  Part(inside, class, n, k)' = Part(inside, class, n, k)
<1>1. Of(k)' = Of(k)
  BY SameOf
<1>2. ({Of(k), k, n} \cap many # {})' <=> ({Of(k), k, n} \cap many # {})
  BY <1>1
<1> QED
  BY <1>1, <1>2 DEF Part

\* And the parts of a node do.
LEMMA SameParts ==
  ASSUME link' = link, many' = many, NEW inside, NEW class, NEW n, NEW c
  PROVE  Parts(inside, class, n, c)' = Parts(inside, class, n, c)
<1> DEFINE UpTo(g) == [i \in 0..Len(Asks(n)) |-> IF i = 0 THEN <<>> ELSE g[i - 1] \o Part(inside, class, n, Asks(n)[i])]
<1>1. ASSUME NEW g PROVE UpTo(g)' = UpTo(g)
  <2>1. Asks(n)' = Asks(n)
    BY SameOf
  <2>2. \A k : Part(inside, class, n, k)' = Part(inside, class, n, k)
    BY SamePart
  <2> QED
    BY <2>1, <2>2
<1>2. (CHOOSE g : g = UpTo(g))' = CHOOSE g : g = UpTo(g)
  <2> HIDE DEF UpTo
  <2> QED
  BY <1>1, Zenon
<1> QED
  BY <1>2, Zenon DEF Parts

\* And what the schema says does.
LEMMA SameContents ==
  ASSUME link' = link, many' = many, NEW class
  PROVE  Contents(class)' = Contents(class)
<1> DEFINE Within(g) == [steps \in 0..Cardinality(Nodes) |->
                           IF steps = 0 THEN [n \in Nodes |-> <<>>] ELSE AllParts(g[steps - 1], class)]
<1>1. ASSUME NEW inside PROVE AllParts(inside, class)' = AllParts(inside, class)
  <2>1. \A n : Asks(n)' = Asks(n)
    BY SameOf
  <2>2. \A n, c : Parts(inside, class, n, c)' = Parts(inside, class, n, c)
    BY SameParts
  <2> QED
    BY <2>1, <2>2 DEF AllParts
<1>2. ASSUME NEW g PROVE Within(g)' = Within(g)
  BY <1>1
<1>3. (CHOOSE g : g = Within(g))' = CHOOSE g : g = Within(g)
  <2> HIDE DEF Within
  <2> QED
    BY <1>2, Zenon
<1> QED
  BY <1>3, Zenon DEF Contents

\* And what is described with a node does.
LEMMA SameDescribed ==
  ASSUME link' = link, NEW n
  PROVE  Described(n)' = Described(n)
<1> DEFINE Within(g) == [steps \in 0..Cardinality(Nodes) |->
                           IF steps = 0 THEN {n}
                           ELSE LET S == g[steps - 1] IN S \cup UNION {ToSet(Asks(m)) : m \in S}]
<1>1. \A m : Asks(m)' = Asks(m)
  BY SameOf
<1>2. ASSUME NEW g PROVE Within(g)' = Within(g)
  BY <1>1, Zenon
<1>3. (CHOOSE g : g = Within(g))' = CHOOSE g : g = Within(g)
  <2> HIDE DEF Within
  <2> QED
    BY <1>2, Zenon
<1> QED
  BY <1>3, Zenon DEF Described

\* The links stay, so that a schema stays what it is.
LEMMA SameWellFounded ==
  ASSUME link' = link
  PROVE  WellFounded' <=> WellFounded
<1>1. \A n : (IsRef(n)' <=> IsRef(n)) /\ Described(n)' = Described(n)
  BY SameOf, SameDescribed
<1> QED
  BY <1>1 DEF WellFounded

\* What matches depends on the links and on what is repeated.
LEMMA SameMatching ==
  ASSUME link' = link, many' = many, NEW h, NEW known, NEW calls
  PROVE  Matching(h, known, calls)' <=> Matching(h, known, calls)
<1>1. \A n : /\ Of(n)' = Of(n) /\ Asks(n)' = Asks(n)
             /\ (IsRef(n)' <=> IsRef(n)) /\ (Adds(n)' <=> Adds(n))
  BY SameOf
<1>2. \A class : Contents(class)' = Contents(class)
  BY SameContents
<1>3. \A inside, class, n, c : Parts(inside, class, n, c)' = Parts(inside, class, n, c)
  BY SameParts
<1>4. \A d : Running(calls, d)' <=> Running(calls, d)
  BY <1>1 DEF Running
<1>5. \A d : Pending(calls, d)' <=> Pending(calls, d)
  BY <1>1 DEF Pending
<1>6. \A d : Complete(h, d)' <=> Complete(h, d)
  BY <1>2 DEF Complete
<1>7. Completes(h, calls)' <=> Completes(h, calls)
  BY <1>4, <1>6 DEF Completes
<1>8. \A d : IsElement(h, d)' <=> IsElement(h, d)
  BY <1>1 DEF IsElement
<1>9. \A d : Linked(h, known, d)' <=> Linked(h, known, d)
  BY <1>1, <1>2 DEF Linked, TypesOf, HasOwn
<1>10. Elements(h, known, calls)' <=> Elements(h, known, calls)
  BY <1>5, <1>8, <1>9 DEF Elements, ElementOK
<1>11. \A n, d : Labelled(h, n, d)' <=> Labelled(h, n, d)
  BY <1>1 DEF Labelled
<1>12. Labels(h, known, calls)' <=> Labels(h, known, calls)
  BY <1>11 DEF Labels
<1>13. \A f : Fills(h, f)' <=> Fills(h, f)
  BY <1>1, <1>2, <1>3 DEF Fills
<1>14. \A f : Names(h, calls, f)' <=> Names(h, calls, f)
  BY <1>1, <1>2, <1>4, <1>11 DEF Names
<1>15. Calls(h, calls)' <=> Calls(h, calls)
  BY <1>13, <1>14 DEF Calls
<1>16. Apart(calls)' <=> Apart(calls)
  BY <1>1 DEF Apart
<1>17. Memory(known, calls)' <=> Memory(known, calls)
  BY <1>1 DEF Memory, Remembers
<1>18. Plain(h)' <=> Plain(h)
  BY <1>8 DEF Plain
<1> QED
  BY <1>7, <1>10, <1>12, <1>15, <1>16, <1>17, <1>18 DEF Matching

---------------------------------------------------------------------------
(* Every step keeps the second invariant.                                  *)

\* The first invariant says that a state is sound.
LEMMA SoundLemma ==
  ASSUME IInv, FromTheTop, WellFounded
  PROVE  Given /\ Sound(heap, cache, stack)
<1>1. /\ Typing /\ HeapOK(heap) /\ Frames
      /\ cache \in [Nodes -> 0..Len(heap.desc)] /\ stack \in Seq(FrameOf(heap))
      /\ \A n \in Nodes : cache[n] # 0 => ResultIn(heap, n, cache[n])
  BY StateLemma DEF ResultOK
<1>2. \A i \in 1..Len(stack) : CallIn(heap, stack[i])
  BY <1>1 DEF Frames, FrameOK, ResultOK, CallIn
<1>3. FromAbove(stack)
  BY <1>1 DEF Frames, FromAbove, FromTheTop
<1>4. Given
  BY <1>1 DEF Given, FromTheTop
<1> QED
  BY <1>1, <1>2, <1>3, <1>4 DEF Sound

\* The second invariant after a step.
LEMMA MatchStep ==
  ASSUME link' = link, many' = many, FromTheTop', NEW h, h = heap', NEW known, known = cache',
         NEW calls, calls = stack', WellFounded => Matching(h, known, calls)
  PROVE  MatchInv'
<1>1. WellFounded' <=> WellFounded
  BY SameWellFounded
<1>2. Matching(h, known, calls)' <=> Matching(h, known, calls)
  BY SameMatching
<1>3. Matching(h, known, calls)' <=> Matching(heap, cache, stack)'
  OBVIOUS
<1> QED
  BY <1>1, <1>2, <1>3 DEF MatchInv

\* The stack when a node is entered.
LEMMA EnterMatch ==
  ASSUME IInv, MatchInv, NEW k \in Nodes, cache[k] = 0, Enter(k), link' = link, many' = many,
         stack # <<>> => stack[1].at < Len(Asks(stack[1].node)) /\ k = Asks(stack[1].node)[stack[1].at + 1],
         stack = <<>> => Depth[k] = 0,
         \A i \in 1..Len(todo') : todo'[i] # Inherit => Depth[todo'[i]] = 0
  PROVE  MatchInv'
<1>1. PICK g : g = heap'
  OBVIOUS
<1>2. PICK later : later = cache'
  OBVIOUS
<1>3. PICK then : then = stack'
  OBVIOUS
<1>4. Entered(heap, cache, stack, k, g, later, then)
  BY <1>1, <1>2, <1>3 DEF Enter, Entered
<1>5. WellFounded => Matching(g, later, then)
  <2> SUFFICES ASSUME WellFounded PROVE Matching(g, later, then)
    OBVIOUS
  <2>1. Given /\ Sound(heap, cache, stack) /\ Matching(heap, cache, stack)
    BY SoundLemma DEF MatchInv
  <2>2. Entering(heap, cache, stack, k)
    BY <2>1 DEF Entering
  <2> QED
    BY <1>4, <2>1, <2>2, EnterMatching
<1>6. FromTheTop'
  <2>1. PICK f : f = [node |-> k, desc |-> IF Beginning(k) = None THEN 0 ELSE Newest(g), at |-> 0]
    BY Zenon
  <2>2. then = <<f>> \o stack /\ f.node = k
    BY <1>4, <2>1 DEF Entered
  <2>3. stack \in Seq(FrameOf(heap)) /\ Len(stack) \in Nat
    BY StateLemma
  <2>4. Len(then) = Len(stack) + 1
    BY <2>2, <2>3
  <2>5. CASE stack = <<>>
    <3>1. then[Len(then)] = f
      BY <2>2, <2>5
    <3> QED
      BY <1>3, <2>2, <2>5, <3>1 DEF FromTheTop, MatchInv
  <2>6. CASE stack # <<>>
    <3>1. then[Len(then)] = stack[Len(stack)]
      <4>1. Len(stack) > 0
        BY <2>3, <2>6, EmptySeq
      <4> QED
        BY <2>2, <2>3, <2>4, <4>1
    <3> QED
      BY <1>3, <2>6, <3>1 DEF FromTheTop, MatchInv
  <2> QED
    BY <2>5, <2>6
<1> QED
  BY <1>1, <1>2, <1>3, <1>5, <1>6, MatchStep

\* A turn begins with the next node.
LEMMA BeginMatch ==
  ASSUME IInv, MatchInv, Begin
  PROVE  MatchInv'
<1>1. PICK k : k = Head(todo)
  OBVIOUS
<1>2. /\ stack = <<>> /\ todo # <<>> /\ k # Inherit /\ todo' = Tail(todo)
      /\ IF cache[k] # 0 THEN UNCHANGED <<stack, heap, cache>> ELSE Enter(k)
      /\ UNCHANGED <<link, many, heirs>>
  BY <1>1 DEF Begin
<1>3. todo \in Seq(Nodes \cup {Inherit})
  BY StateLemma
<1>4. /\ Len(todo) \in Nat \ {0} /\ Len(todo') = Len(todo) - 1
      /\ \A i \in 1..Len(todo') : i + 1 \in 2..Len(todo) /\ todo'[i] = todo[i + 1]
      /\ k = todo[1] /\ k \in Nodes
  BY <1>1, <1>2, <1>3, EmptySeq
<1>5. /\ \A i \in 1..Len(todo') : todo'[i] # Inherit => Depth[todo'[i]] = 0
      /\ Depth[k] = 0
  BY <1>2, <1>4 DEF MatchInv, FromTheTop
<1>6. CASE cache[k] # 0
  <2>1. stack' = stack /\ heap' = heap /\ cache' = cache
    BY <1>2, <1>6
  <2>2. FromTheTop'
    BY <1>2, <1>5, <2>1 DEF MatchInv, FromTheTop
  <2> QED
    BY <1>2, <2>1, <2>2, MatchStep DEF MatchInv
<1>7. CASE cache[k] = 0
  BY <1>2, <1>4, <1>5, <1>7, EnterMatch
<1> QED
  BY <1>6, <1>7, <1>4, StateLemma

\* A call calls `describe' of another node.
LEMMA CallMatch ==
  ASSUME IInv, MatchInv, Call
  PROVE  MatchInv'
<1>1. PICK f : f = Head(stack)
  OBVIOUS
<1>2. PICK k : k = Asks(f.node)[f.at + 1]
  OBVIOUS
<1>3. /\ stack # <<>> /\ f.at < Len(Asks(f.node))
      /\ cache[k] = 0 /\ Enter(k)
      /\ UNCHANGED <<link, many, todo, heirs>>
  BY <1>1, <1>2 DEF Call
<1>4. f \in FrameOf(heap) /\ f = stack[1]
  BY <1>1, <1>3, StateLemma
<1>5. k \in Nodes
  <2>1. Asks(f.node) \in Seq(Nodes)
    BY <1>4, AsksLemma, StateLemma DEF FrameOf
  <2> QED
    BY <1>2, <1>3, <1>4, <2>1 DEF FrameOf
<1>6. \A i \in 1..Len(todo') : todo'[i] # Inherit => Depth[todo'[i]] = 0
  BY <1>3 DEF MatchInv, FromTheTop
<1> QED
  BY <1>2, <1>3, <1>4, <1>5, <1>6, EnterMatch

\* The call at the top of `below' takes a descriptor that is ready for it.
LEMMA TakeMatch ==
  ASSUME IInv, MatchInv, NEW below \in Seq(FrameOf(heap)), below # <<>>, NEW r, Take(below, r),
         NEW f, f = below[1], f.at < Len(Asks(f.node)), NEW k, k = Asks(f.node)[f.at + 1],
         r \in 0..Len(heap.desc), ResultOK(k, r), FrameOK(f),
         NEW known, known = cache',
         WellFounded => Given /\ Taking(heap, known, below, r),
         Depth[below[Len(below)].node] = 0,
         link' = link, many' = many, todo' = todo
  PROVE  MatchInv'
<1>1. Head(below) = f /\ f \in FrameOf(heap) /\ Typing /\ Len(below) \in Nat /\ Len(below) # 0
  BY StateLemma, EmptySeq
<1>2. Asked(f, r)
  <2>1. f.node \in Nodes /\ f.at \in Nat
    BY <1>1 DEF FrameOf
  <2> QED
    BY <1>1, <2>1 DEF Asked
<1>3. PICK a : a = Absorbed(below, r)
  OBVIOUS
<1>4. PICK then : then = stack'
  OBVIOUS
<1>5. /\ Len(then) = Len(below)
      /\ then[1].node = f.node /\ then[1].at = f.at + 1
      /\ \A i \in 2..Len(below) : then[i] = below[i]
      /\ Adds(f.node) => then[1].desc = f.desc
  BY <1>1, <1>2, <1>4, TakeLemma
<1>6. heap' = a.heap /\ then[1].desc = a.desc
  <2>1. PICK g : g = [f EXCEPT !.desc = a.desc, !.at = f.at + 1]
    OBVIOUS
  <2>2. then = <<g>> \o Tail(below) /\ heap' = a.heap
    BY <1>1, <1>3, <1>4, <2>1, Zenon DEF Take
  <2>3. Tail(below) \in Seq(FrameOf(heap))
    BY <1>1
  <2>4. then[1] = g
    BY <2>2, <2>3
  <2>5. g.desc = a.desc
    BY <1>1, <2>1 DEF FrameOf
  <2> QED
    BY <2>2, <2>4, <2>5
<1>7. Advanced(below, then, a.desc)
  BY <1>5, <1>6 DEF Advanced
<1>8. PICK h : h = heap'
  OBVIOUS
<1>9. WellFounded => Matching(h, known, then)
  <2> SUFFICES ASSUME WellFounded PROVE Matching(h, known, then)
    OBVIOUS
  <2>1. Given /\ Taking(heap, known, below, r)
    OBVIOUS
  <2>2. Matching(a.heap, known, then)
    BY <1>1, <1>3, <1>7, <2>1, AbsorbedMatching
  <2> QED
    BY <1>6, <1>8, <2>2
<1>10. FromTheTop'
  <2>1. then[Len(then)].node = below[Len(below)].node
    <3>1. CASE Len(below) = 1
      BY <1>5, <3>1
    <3>2. CASE Len(below) # 1
      BY <1>1, <1>5, <3>2
    <3> QED
      BY <3>1, <3>2
  <2> QED
    BY <1>4, <2>1 DEF MatchInv, FromTheTop
<1> QED
  BY <1>4, <1>8, <1>9, <1>10, MatchStep

\* A call takes a descriptor that was made before.
LEMMA ReuseMatch ==
  ASSUME IInv, MatchInv, Reuse
  PROVE  MatchInv'
<1>1. PICK f : f = Head(stack)
  OBVIOUS
<1>2. /\ stack # <<>> /\ f.at < Len(Asks(f.node))
      /\ cache[Asks(f.node)[f.at + 1]] # 0
      /\ Take(stack, cache[Asks(f.node)[f.at + 1]])
      /\ UNCHANGED <<link, many, cache, todo, heirs>>
  BY <1>1 DEF Reuse
<1>3. f \in FrameOf(heap) /\ stack \in Seq(FrameOf(heap))
  BY <1>1, <1>2, StateLemma
<1>4. PICK k \in Nodes : k = Asks(f.node)[f.at + 1]
  <2>1. Asks(f.node) \in Seq(Nodes)
    BY <1>3, AsksLemma, StateLemma DEF FrameOf
  <2> QED
    BY <1>2, <1>3, <2>1 DEF FrameOf
<1>5. PICK r \in 0..Len(heap.desc) : r = cache[k] /\ ResultOK(k, r)
  BY <1>2, <1>4, StateLemma
<1>6. f = stack[1] /\ 1 \in 1..Len(stack)
  BY <1>1, <1>2, <1>3, EmptySeq
<1>7. FrameOK(f)
  BY <1>6, StateLemma DEF Frames
<1>8. PICK known : known = cache'
  OBVIOUS
<1>9. known = cache
  BY <1>2, <1>8
<1>10. WellFounded => Given /\ Taking(heap, known, stack, r)
  <2> SUFFICES ASSUME WellFounded PROVE Given /\ Taking(heap, cache, stack, r)
    BY <1>9
  <2>1. Given /\ Sound(heap, cache, stack) /\ Matching(heap, cache, stack)
    BY SoundLemma DEF MatchInv
  <2>2. Ready(heap, cache, stack, cache[k])
    BY <1>2, <1>4, <1>6, <2>1, ReuseReady
  <2> QED
    BY <1>2, <1>5, <2>1, <2>2 DEF Taking
<1>11. Depth[stack[Len(stack)].node] = 0
  BY <1>2 DEF MatchInv, FromTheTop
<1>12. Take(stack, r)
  BY <1>2, <1>4, <1>5
<1>13. link' = link /\ many' = many /\ todo' = todo
  BY <1>2
<1> QED
  BY <1>2, <1>3, <1>4, <1>5, <1>6, <1>7, <1>8, <1>10, <1>11, <1>12, <1>13, TakeMatch

\* A call returns.
LEMMA ReturnMatch ==
  ASSUME IInv, MatchInv, Return
  PROVE  MatchInv'
<1>1. PICK f : f = Head(stack)
  OBVIOUS
<1>2. PICK rest : rest = Tail(stack)
  BY Zenon
<1>3. PICK later : later = cache'
  OBVIOUS
<1>4. /\ stack # <<>> /\ f.at = Len(Asks(f.node))
      /\ later = IF Class[f.node] \in {"particle", "simpleType"}
                   THEN cache ELSE [cache EXCEPT ![f.node] = f.desc]
      /\ IF rest = <<>> THEN stack' = <<>> /\ UNCHANGED heap ELSE Take(rest, f.desc)
      /\ link' = link /\ many' = many /\ todo' = todo
  BY <1>1, <1>2, <1>3 DEF Return
<1>5. /\ stack \in Seq(FrameOf(heap)) /\ f \in FrameOf(heap) /\ f = stack[1] /\ 1 \in 1..Len(stack)
      /\ Len(stack) \in Nat \ {0}
  BY <1>1, <1>4, StateLemma, EmptySeq
<1>6. FrameOK(f) /\ f.node \in Nodes /\ f.desc \in 0..Len(heap.desc)
  BY <1>5, StateLemma DEF Frames, FrameOf
<1>7. ResultOK(f.node, f.desc)
  <2>1. ASSUME Class[f.node] \in {"attribute", "group"}, IsRef(f.node) PROVE f.at # 0
    <3>1. Asks(f.node) = <<link[f.node]>>
      BY <1>6, <2>1, AsksLemma, StateLemma
    <3> QED
      BY <1>4, <3>1
  <2> QED
    BY <1>6, <2>1 DEF FrameOK
<1>8. Returned(heap, cache, stack, later, rest)
  <2>1. Class[f.node] = "complexType" => cache[f.node] = f.desc
    BY <1>6 DEF FrameOK
  <2> QED
    BY <1>2, <1>4, <1>5, <2>1 DEF Returned
<1>9. Depth[stack[Len(stack)].node] = 0
  BY <1>4 DEF MatchInv, FromTheTop
<1>10. WellFounded =>
         /\ Given /\ Sound(heap, later, rest) /\ Matching(heap, later, rest)
         /\ rest # <<>> => Ready(heap, later, rest, f.desc)
  <2> SUFFICES ASSUME WellFounded
               PROVE  /\ Given /\ Sound(heap, later, rest) /\ Matching(heap, later, rest)
                      /\ rest # <<>> => Ready(heap, later, rest, f.desc)
    OBVIOUS
  <2>1. Given /\ Sound(heap, cache, stack) /\ Matching(heap, cache, stack)
    BY SoundLemma DEF MatchInv
  <2>2. Calls(heap, stack)
    BY <2>1 DEF Matching
  <2>3. Sound(heap, later, rest)
    BY <1>8, <2>1, <2>2, ReturnedSound
  <2>4. Matching(heap, later, rest)
    BY <1>8, <2>1, ReturnedMatching
  <2>5. rest # <<>> => Ready(heap, later, rest, stack[1].desc)
    BY <1>8, <2>1, ReturnedReady
  <2> QED
    BY <1>5, <2>1, <2>3, <2>4, <2>5
<1>11. CASE rest = <<>>
  <2>1. PICK h : h = heap'
    OBVIOUS
  <2>2. PICK then : then = stack'
    OBVIOUS
  <2>3. h = heap /\ then = rest
    BY <1>4, <1>11, <2>1, <2>2
  <2>4. WellFounded => Matching(h, later, then)
    BY <1>10, <2>3
  <2>5. FromTheTop'
    BY <1>4, <1>11 DEF MatchInv, FromTheTop
  <2> QED
    BY <1>3, <1>4, <2>1, <2>2, <2>4, <2>5, MatchStep
<1>12. CASE rest # <<>>
  <2>1. /\ rest \in Seq(FrameOf(heap)) /\ Len(rest) = Len(stack) - 1
        /\ \A i \in 1..Len(rest) : rest[i] = stack[i + 1]
    BY <1>2, <1>5
  <2>2. Len(stack) \in Nat /\ Len(stack) > 1
    BY <1>5, <1>12, <2>1, EmptySeq
  <2>3. PICK g : g = rest[1]
    OBVIOUS
  <2>4. g = stack[2] /\ g \in FrameOf(heap)
    BY <2>1, <2>2, <2>3
  <2>5. /\ FrameOK(g) /\ g.at < Len(Asks(g.node)) /\ f.node = Asks(g.node)[g.at + 1]
    <3>1. 1 \in 1..(Len(stack) - 1) /\ 1 + 1 = 2 /\ 2 \in 1..Len(stack)
      BY <2>2
    <3> QED
      BY <1>5, <2>4, <3>1, StateLemma DEF Frames
  <2>6. Depth[rest[Len(rest)].node] = 0
    BY <1>9, <2>1, <2>2
  <2>7. WellFounded => Given /\ Taking(heap, later, rest, f.desc)
    BY <1>10, <1>12 DEF Taking
  <2>8. Take(rest, f.desc) /\ link' = link /\ many' = many /\ todo' = todo
    BY <1>4, <1>12
  <2> QED
    BY <1>3, <1>6, <1>7, <1>12, <2>1, <2>3, <2>5, <2>6, <2>7, <2>8, TakeMatch, Zenon
<1> QED
  BY <1>11, <1>12

\* A step that describes nothing.
LEMMA BetweenMatch ==
  ASSUME IInv, MatchInv, link' = link, many' = many, stack' = stack, heap' = heap, cache' = cache,
         \A i \in 1..Len(todo') : todo'[i] # Inherit => Depth[todo'[i]] = 0
  PROVE  MatchInv'
<1>1. FromTheTop'
  BY DEF MatchInv, FromTheTop
<1> QED
  BY <1>1, MatchStep DEF MatchInv

\* A turn looks who derives from whom.
LEMMA DescribeChildrenMatch ==
  ASSUME IInv, MatchInv, DescribeChildren
  PROVE  MatchInv'
<1>1. /\ todo # <<>> /\ todo' = Tail(todo)
      /\ UNCHANGED <<link, many, cache, heap, stack>>
  BY DEF DescribeChildren
<1>2. todo \in Seq(Nodes \cup {Inherit})
  BY StateLemma
<1>3. /\ Len(todo) \in Nat \ {0} /\ Len(todo') = Len(todo) - 1
      /\ \A i \in 1..Len(todo') : i + 1 \in 2..Len(todo) /\ todo'[i] = todo[i + 1]
  BY <1>1, <1>2, EmptySeq
<1>4. \A i \in 1..Len(todo') : todo'[i] # Inherit => Depth[todo'[i]] = 0
  BY <1>3 DEF MatchInv, FromTheTop
<1> QED
  BY <1>1, <1>4, BetweenMatch

\* A call of a client.
LEMMA InvokeMatch ==
  ASSUME IInv, MatchInv, NEW n \in Roots, Invoke(n)
  PROVE  MatchInv'
<1>1. /\ todo' = TypeTable \o <<Inherit, n>>
      /\ UNCHANGED <<link, many, cache, heap, stack, heirs>>
  BY DEF Invoke
<1>2. /\ TypeTable \in Seq(Nodes) /\ n \in Nodes /\ Inherit \notin Nodes
      /\ Depth[n] = 0 /\ \A j \in 1..Len(TypeTable) : Depth[TypeTable[j]] = 0
  <2>1. /\ TypeTable \in Seq({m \in Nodes : Class[m] = "complexType"}) /\ n \in Nodes /\ Inherit \notin Nodes
        /\ \A m \in Roots \cup ToSet(TypeTable) : Depth[m] = 0
    BY DescribeAssumption
  <2>2. \A j \in 1..Len(TypeTable) : TypeTable[j] \in ToSet(TypeTable)
    BY <2>1 DEF ToSet
  <2> QED
    BY <2>1, <2>2
<1>3. /\ Len(TypeTable) \in Nat /\ Len(todo') = Len(TypeTable) + 2
      /\ \A j \in 1..Len(TypeTable) : todo'[j] = TypeTable[j]
      /\ todo'[Len(TypeTable) + 1] = Inherit /\ todo'[Len(TypeTable) + 2] = n
  BY <1>1, <1>2
<1>4. \A i \in 1..Len(todo') : todo'[i] # Inherit => Depth[todo'[i]] = 0
  BY <1>2, <1>3
<1> QED
  BY <1>1, <1>4, BetweenMatch

\* A turn that describes one operation.
LEMMA DescribeOperationMatch ==
  ASSUME IInv, MatchInv, NEW n \in Roots, DescribeOperation(n)
  PROVE  MatchInv'
<1>1. /\ todo' = <<n>> /\ Depth[n] = 0
      /\ UNCHANGED <<link, many, cache, heap, stack, heirs>>
  BY DescribeAssumption DEF DescribeOperation
<1> QED
  BY <1>1, BetweenMatch

\* A turn that describes the xsi:type of a value.
LEMMA DescribeXsiTypeMatch ==
  ASSUME IInv, MatchInv, NEW i \in 1..Len(TypeTable), DescribeXsiType(TypeTable[i])
  PROVE  MatchInv'
<1>1. TypeTable \in Seq(Nodes) /\ \A n \in Roots \cup ToSet(TypeTable) : Depth[n] = 0
  BY DescribeAssumption
<1>2. TypeTable[i] \in ToSet(TypeTable)
  BY <1>1 DEF ToSet
<1>3. /\ todo' = <<TypeTable[i]>> /\ Depth[TypeTable[i]] = 0
      /\ UNCHANGED <<link, many, cache, heap, stack, heirs>>
  BY <1>1, <1>2 DEF DescribeXsiType
<1> QED
  BY <1>3, BetweenMatch

\* jsonToXml extends an element with the items of a derived type.
LEMMA WriteMatch ==
  ASSUME IInv, MatchInv, NEW d \in 1..Len(heap.desc), NEW t \in Nodes, WriteXsiType(d, t)
  PROVE  MatchInv'
<1>1. PICK c : c = cache[t]
  OBVIOUS
<1>2. /\ stack = <<>> /\ heap.desc[d].class = "element"
      /\ heap' = Extended(heap, d, c)
      /\ UNCHANGED <<link, many, cache, stack, todo, heirs>>
  BY <1>1 DEF WriteXsiType, Quiet
<1>3. Class[t] = "complexType" /\ c # 0
  <2>1. PICK p \in heirs : p[2] = t
    BY DEF WriteXsiType
  <2> QED
    BY <1>1, <2>1, StateLemma DEF TypesFirst
<1>4. c \in 1..Len(heap.desc)
  BY <1>1, <1>3, StateLemma, ComplexLemma
<1>5. PICK g : g = heap'
  OBVIOUS
<1>6. PICK known : known = cache'
  OBVIOUS
<1>7. PICK calls : calls = stack'
  OBVIOUS
<1>8. known = cache /\ calls = <<>> /\ stack = <<>> /\ g = Extended(heap, d, c)
  BY <1>2, <1>5, <1>6, <1>7
<1>9. WellFounded => Matching(g, known, calls)
  <2> SUFFICES ASSUME WellFounded PROVE Matching(g, cache, <<>>)
    BY <1>8
  <2>1. Given /\ Sound(heap, cache, <<>>) /\ Matching(heap, cache, <<>>)
    BY <1>8, SoundLemma DEF MatchInv
  <2> QED
    BY <1>2, <1>4, <1>8, <2>1, WriteMatching
<1>10. FromTheTop'
  BY <1>2 DEF MatchInv, FromTheTop
<1> QED
  BY <1>2, <1>5, <1>6, <1>7, <1>9, <1>10, MatchStep

\* The second invariant holds in the beginning.
LEMMA InitMatch ==
  ASSUME Init
  PROVE  MatchInv
<1>1. /\ link \in Links /\ many \in SUBSET Repeatable /\ cache = [n \in Nodes |-> 0]
      /\ heap.desc = <<>> /\ heap.arrays = <<>> /\ stack = <<>> /\ todo = <<>>
  BY DEF Init
<1>2. 1..Len(stack) = {} /\ 1..Len(todo) = {} /\ 1..Len(heap.desc) = {} /\ 1..Len(heap.arrays) = {}
  BY <1>1
<1>3. FromTheTop
  BY <1>1, <1>2 DEF FromTheTop
<1>4. Alone(heap) /\ Completes(heap, stack) /\ Elements(heap, cache, stack) /\ Plain(heap)
  BY <1>2 DEF Alone, Completes, TypeDescriptors, Elements, Plain
<1>5. Calls(heap, stack) /\ Apart(stack) /\ Labels(heap, cache, stack) /\ Memory(cache, stack)
  BY <1>1, <1>2 DEF Calls, Apart, Labels, Memory
<1> QED
  BY <1>3, <1>4, <1>5 DEF MatchInv, Matching

\* Every step keeps the second invariant, given the first.
LEMMA NextMatch ==
  ASSUME IInv, MatchInv, [Next]_vars
  PROVE  MatchInv'
<1>1. CASE Begin
  BY <1>1, BeginMatch
<1>2. CASE Reuse
  BY <1>2, ReuseMatch
<1>3. CASE Call
  BY <1>3, CallMatch
<1>4. CASE Return
  BY <1>4, ReturnMatch
<1>5. CASE DescribeChildren
  BY <1>5, DescribeChildrenMatch
<1>6. CASE \E n \in Roots : Invoke(n) \/ DescribeOperation(n)
  BY <1>6, InvokeMatch, DescribeOperationMatch
<1>7. CASE \E d \in 1..Len(heap.desc), t \in Nodes : WriteXsiType(d, t)
  BY <1>7, WriteMatch
<1>8. CASE UNCHANGED vars
  <2>1. /\ link' = link /\ many' = many /\ cache' = cache /\ heap' = heap /\ stack' = stack
        /\ todo' = todo
    BY <1>8 DEF vars
  <2>2. \A i \in 1..Len(todo') : todo'[i] # Inherit => Depth[todo'[i]] = 0
    BY <2>1 DEF MatchInv, FromTheTop
  <2> QED
    BY <2>1, <2>2, BetweenMatch
<1>9. CASE \E i \in 1..Len(TypeTable) : DescribeXsiType(TypeTable[i])
  BY <1>9, DescribeXsiTypeMatch
<1> QED
  BY <1>1, <1>2, <1>3, <1>4, <1>5, <1>6, <1>7, <1>8, <1>9 DEF Next, Step

\* What the second invariant says between turns.
LEMMA SettledElement ==
  ASSUME IInv, MatchInv, Quiet, WellFounded, NEW d \in ElementDescriptors
  PROVE  LET n == heap.desc[d].node IN
         /\ IsPrefix(Contents("element")[n], Shown(heap, Items(heap, d).elements))
         /\ Shown(heap, Items(heap, d).attributes) = Contents("attribute")[n]
<1>1. /\ Given /\ Sound(heap, cache, <<>>) /\ Matching(heap, cache, <<>>) /\ stack = <<>>
  BY SoundLemma DEF MatchInv, Quiet
<1>2. /\ Typing /\ HeapOK(heap) /\ cache \in [Nodes -> 0..Len(heap.desc)]
      /\ \A n \in Nodes : cache[n] # 0 => ResultOK(n, cache[n])
  BY StateLemma
<1>3. Plain(heap) /\ Labels(heap, cache, <<>>)
  BY <1>1 DEF Matching
<1>4. d # 0 /\ heap.desc[d].class = "element"
  BY DEF ElementDescriptors
<1>5. d \in 1..Len(heap.desc) /\ IsElement(heap, d)
  <2>1. CASE d \in {cache[n] : n \in Nodes}
    <3>1. PICK n \in Nodes : d = cache[n]
      BY <2>1
    <3>2. d \in 1..Len(heap.desc)
      BY <1>2, <1>4, <3>1, HeapLemma
    <3>3. Labelled(heap, n, d)
      <4>1. ~OnStack(<<>>, n)
        BY DEF OnStack
      <4> QED
        BY <1>3, <1>4, <3>1, <4>1 DEF Labels
    <3>4. heap.desc[d].node = Of(n) /\ ~IsRef(Of(n))
      BY <1>2, <3>3, OfLemma DEF Labelled
    <3> QED
      BY <1>4, <3>2, <3>4 DEF IsElement
  <2>2. CASE \E a \in 1..Len(heap.arrays) : d \in ToSet(heap.arrays[a].elements)
    <3>1. PICK a \in 1..Len(heap.arrays) : d \in ToSet(heap.arrays[a].elements)
      BY <2>2
    <3>2. heap.arrays[a].elements \in Seq(1..Len(heap.desc))
      BY <1>2, ArrayLemma
    <3>3. PICK i \in 1..Len(heap.arrays[a].elements) : d = heap.arrays[a].elements[i]
      BY <3>1, <3>2 DEF ToSet
    <3>4. d \in 1..Len(heap.desc)
      BY <3>2, <3>3
    <3> QED
      BY <1>3, <3>3, <3>4 DEF Plain
  <2> QED
    BY <2>1, <2>2 DEF ElementDescriptors
<1>6. PICK a : a = heap.desc[d].items
  OBVIOUS
<1>7. PICK n : n = heap.desc[d].node
  OBVIOUS
<1>8. /\ IsPrefix(Contents("element")[n], Held(heap, a, "element"))
      /\ Held(heap, a, "attribute") = Contents("attribute")[n]
  BY <1>1, <1>5, <1>6, <1>7, HoldsLemma
<1>9. /\ Held(heap, a, "element") = Shown(heap, Items(heap, d).elements)
      /\ Held(heap, a, "attribute") = Shown(heap, Items(heap, d).attributes)
  BY <1>6 DEF Held, Items
<1> QED
  BY <1>7, <1>8, <1>9, Zenon

\* Between turns, the descriptor of an element begins with the elements and has
\* the attributes that the schema says, for any schemas in which no ref and no
\* base leads back to itself, any order of turns and any values that were
\* written with an xsi:type (descriptor.js:47-64 and 109-121).
THEOREM DescriptorsMatchSchemaHolds == Spec => []DescriptorsMatchSchema
<1>1. Init => MatchInv
  BY InitMatch
<1>2. IInv /\ MatchInv /\ [Next]_vars => MatchInv'
  BY NextMatch
<1>3. IInv /\ MatchInv => DescriptorsMatchSchema
  BY SettledElement DEF DescriptorsMatchSchema
<1> QED
  BY <1>1, <1>2, <1>3, Inductive, PTL DEF Spec
=============================================================================
