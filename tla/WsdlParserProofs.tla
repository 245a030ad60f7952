-------------------------- MODULE WsdlParserProofs --------------------------
(***************************************************************************)
(* Proofs about WsdlParser, for documents of any size: the stack of _parse  *)
(* is the document's, and the definitions end with one schema for each      *)
(* namespace that knows all that the document declares in it.               *)
(*                                                                          *)
(* A schema hands its table on to the first one of its namespace when it    *)
(* ends, and Types its schemas to the definitions.  That no declaration is  *)
(* lost on the way needs to be known of each element that ended (TablesOK,  *)
(* SchemasOK, RootOK), and where the running element is (DocOK, StackOK).   *)
(* That prefixes keep their meaning needs to be known of each element and    *)
(* the one above it (BindingsOK), and that the way up ends.                  *)
(*                                                                         *)
(* The last part is about Operations, the definitions that are prepared     *)
(* when the document was parsed, for any set of WSDLs: a state of a call    *)
(* was reached from the descriptors of its operation (LoadingOK, CallOK).   *)
(* None of the proofs uses both components.                                 *)
(***************************************************************************)
EXTENDS WsdlParser, Operations, TLAPS, SequenceTheorems, WellFoundedInduction

---------------------------------------------------------------------------
(* The inductive invariant.                                                *)

IsForeign(i) == node[i].tag \in Foreign

OnStack(i) == \E k \in 1..Len(stack) : stack[k] = i

\* An element of the document that made an object: the root has none above it,
\* the others one that may contain it.
NodesOK ==
  /\ Made # {} => node[1].tag \in {"definitions", "schema"} /\ node[1].above = Nothing
  /\ \A i \in Made :
       i # 1 /\ ~IsForeign(i) =>
         /\ node[i].above \in Made
         /\ node[i].above < i
         /\ node[i].tag \in Content(node[node[i].above].tag)
  /\ \A i, j \in Made : node[i].tag = "types" /\ node[j].tag = "types" => i = j

\* The open elements: foreign ones are inside of the others.
DocOK ==
  /\ Len(doc) >= 1
  /\ doc[1].tag \in {"definitions", "schema"}
  /\ \A k \in 2..Len(doc) : doc[k].tag \in Content(doc[k - 1].tag)
  /\ \A k, l \in 1..Len(doc) : k < l /\ doc[k].tag \in Foreign => doc[l].tag \in Foreign

\* Whether an element of a tag may be inside of another one, however deep.
MayHold(outer, inner) ==
  /\ outer \in {"schema", "import", "component"} => inner \in {"import", "component"} \cup Foreign
  /\ outer = "component" => inner \in {"component"} \cup Foreign

\* The stack: a foreign element can only be on top, while one of its tag is open.
\* What is inside of a schema is neither a schema nor around one.
StackOK ==
  /\ Len(stack) >= 1
  /\ stack[1] = 1
  /\ \A k \in 1..Len(stack) : stack[k] \in Made
  /\ \A k, l \in 1..Len(stack) : k < l => stack[k] < stack[l]
  /\ \A k \in 1..Len(stack) :
       IsForeign(stack[k]) =>
         /\ k = Len(stack)
         /\ k >= 2
         /\ \E l \in k..Len(doc) : doc[l].tag = node[stack[k]].tag
  /\ \A k \in 2..Len(stack) : ~IsForeign(stack[k]) => node[stack[k]].above = stack[k - 1]
  /\ \A k, l \in 1..Len(stack) : k < l => MayHold(node[stack[k]].tag, node[stack[l]].tag)

\* The table of a schema has components of its namespace under their names, and
\* at least those that ended below it; only that of an open one grows.
TablesOK ==
  /\ \A s \in Ids, x \in Names :
       table[s][x] # Nothing =>
         /\ s \in Made
         /\ node[s].tag = "schema"
         /\ table[s][x] \in Written(node[s].ns, "component")
         /\ node[table[s][x]].name = x
  /\ \A i \in Made :
       i # 1 /\ ~IsForeign(i) /\ ~OnStack(i) /\ node[node[i].above].tag = "schema" =>
         /\ node[i].tag = "component" => table[node[i].above][node[i].name] >= i
         /\ node[i].tag = "import" => i \in includes[node[i].above]
  /\ \A c \in Made :
       node[c].tag = "schema" /\ OnStack(c) =>
         \A s \in Ids, x \in Names :
           IF s = c THEN table[s][x] # Nothing => table[s][x] > c
                    ELSE table[s][x] < c
  /\ \A c \in Made :
       node[c].tag = "component" /\ OnStack(c) => \A s \in Ids, x \in Names : table[s][x] < c

\* Types has one schema for each namespace of those that ended below it, which
\* has all that they have.
SchemasOK ==
  /\ \A s \in Ids \ Made, ns \in Namespaces : schemas[s][ns] = Nothing
  /\ \A t \in Made :
    node[t].tag = "types" =>
      /\ \A ns \in Namespaces :
           schemas[t][ns] # Nothing =>
             /\ node[schemas[t][ns]].tag = "schema"
             /\ node[schemas[t][ns]].ns = ns
             /\ node[schemas[t][ns]].above = t
             /\ ~OnStack(schemas[t][ns])
      /\ \A s \in Made :
           node[s].tag = "schema" /\ s # 1 /\ ~OnStack(s) =>
             LET first == schemas[t][node[s].ns] IN
             /\ first # Nothing
             /\ \A x \in Names : table[first][x] >= table[s][x]
             /\ includes[s] \subseteq includes[first]

\* The definitions have what Types had when it ended, and no import ends later;
\* those that are made up for a schema have that schema.
RootOK ==
  /\ \A t \in Made :
       node[t].tag = "types" /\ ~OnStack(t) =>
         \A ns \in Namespaces : schemas[t][ns] # Nothing => schemas[1][ns] = schemas[t][ns]
  /\ \A i, t \in Made :
       /\ node[i].tag = "import"
       /\ OnStack(i)
       /\ node[node[i].above].tag = "definitions"
       => node[t].tag # "types"
  /\ node[1].tag = "schema" => schemas[1][node[1].ns] = 1

\* Before the first tag there is nothing.
Blank ==
  /\ node = <<>> /\ stack = <<>> /\ doc = <<>>
  /\ \A s \in Ids : /\ \A x \in Names : table[s][x] = Nothing
                    /\ \A ns \in Namespaces : schemas[s][ns] = Nothing

Parsing == DocOK /\ StackOK /\ TablesOK /\ SchemasOK /\ RootOK

IInv ==
  /\ TypeOK
  /\ NodesOK
  /\ phase = "start" => Blank
  /\ phase = "parsing" => Parsing
  /\ StackIsDocument
  /\ DeclarationsAreFound

---------------------------------------------------------------------------
(* Lemmas.                                                                 *)

\* What the assumption on the constants says that the proofs use.
LEMMA ConstantsLemma ==
  /\ Nothing = 0 /\ Nothing \notin Ids
  /\ Ids \subseteq Nat
  /\ MaxElements \in Nat /\ MaxElements >= 1 /\ 1 \in Ids
  /\ Namespaces # {} /\ Names # {}
BY ParserAssumption DEF ParserAssumption, Nothing, Ids

\* What may be inside of what.
LEMMA ContentLemma ==
  ASSUME NEW tag \in Tags
  PROVE  /\ Content(tag) \subseteq Tags
         /\ "definitions" \notin Content(tag)
         /\ "types" \in Content(tag) => tag = "definitions"
         /\ "schema" \in Content(tag) => tag = "types"
         /\ "import" \in Content(tag) => tag \in {"definitions", "schema"}
         /\ "component" \in Content(tag) => tag \in {"definitions", "schema", "component"}
         /\ tag = "import" => Content(tag) = {}
         /\ tag \in Foreign => Content(tag) = Foreign
         /\ tag = "types" => Content(tag) = {"schema", "extension"}
<1>1. CASE tag = "definitions"
  BY <1>1 DEF Content, Tags, Foreign
<1>2. CASE tag = "types"
  BY <1>2 DEF Content, Tags, Foreign
<1>3. CASE tag = "schema"
  BY <1>3 DEF Content, Tags, Foreign
<1>4. CASE tag = "import"
  BY <1>4 DEF Content, Tags, Foreign
<1>5. CASE tag = "component"
  BY <1>5 DEF Content, Tags, Foreign
<1>6. CASE tag \in Foreign
  <2>1. Content(tag) = Foreign
    BY <1>6 DEF Content, Foreign
  <2> QED
    BY <1>6, <2>1 DEF Tags, Foreign
<1> QED
  BY <1>1, <1>2, <1>3, <1>4, <1>5, <1>6 DEF Tags

\* What an element may contain, however deep.
LEMMA MayHoldLemma ==
  ASSUME NEW tag \in Tags, tag \notin Foreign, NEW inner \in Content(tag)
  PROVE  /\ MayHold(tag, inner)
         /\ \A outer \in Tags : MayHold(outer, tag) => MayHold(outer, inner)
<1>1. CASE tag = "definitions"
  BY <1>1 DEF Content, Tags, Foreign, MayHold
<1>2. CASE tag = "types"
  BY <1>2 DEF Content, Tags, Foreign, MayHold
<1>3. CASE tag = "schema"
  BY <1>3 DEF Content, Tags, Foreign, MayHold
<1>4. CASE tag = "import"
  BY <1>4 DEF Content, Tags, Foreign, MayHold
<1>5. CASE tag = "component"
  BY <1>5 DEF Content, Tags, Foreign, MayHold
<1> QED
  BY <1>1, <1>2, <1>3, <1>4, <1>5 DEF Tags

\* The types of the sequences and of their members.
LEMMA MembersLemma ==
  ASSUME TypeOK
  PROVE  /\ Len(node) \in Nat /\ Len(stack) \in Nat /\ Len(doc) \in Nat
         /\ Made \subseteq Ids /\ Made \subseteq Nat /\ Nothing \notin Made
         /\ \A i \in Made : /\ node[i].tag \in Tags
                            /\ node[i].ns \in Namespaces
                            /\ node[i].name \in Names
         /\ \A k \in 1..Len(doc) : doc[k].tag \in Tags
<1> USE ConstantsLemma
<1>1. Len(node) \in Nat /\ Len(stack) \in Nat /\ Len(doc) \in Nat
  BY DEF TypeOK
<1>2. Made \subseteq Ids /\ Made \subseteq Nat /\ Nothing \notin Made
  BY <1>1 DEF Made, Ids, TypeOK
<1>3. ASSUME NEW i \in Made
      PROVE  node[i].tag \in Tags /\ node[i].ns \in Namespaces /\ node[i].name \in Names
  <2>1. node \in Seq(Nodes) /\ i \in 1..Len(node)
    BY DEF TypeOK, Made
  <2>2. node[i] \in Nodes
    BY <2>1
  <2> QED
    BY <2>2 DEF Nodes
<1>4. ASSUME NEW k \in 1..Len(doc)
      PROVE  doc[k].tag \in Tags
  <2> DEFINE S == [tag : Tags, id : Ids \cup {Nothing}, meaning : Bindings]
  <2>1. doc \in Seq(S)
    BY DEF TypeOK
  <2> HIDE DEF S
  <2>2. doc[k] \in S
    BY <2>1
  <2> QED
    BY <2>2 DEF S
<1> QED
  BY <1>1, <1>2, <1>3, <1>4

\* All but the last of a sequence.
LEMMA FrontLemma ==
  ASSUME NEW S, NEW s \in Seq(S), Len(s) >= 1
  PROVE  /\ Front(s) \in Seq(S)
         /\ Len(Front(s)) = Len(s) - 1
         /\ \A k \in 1..(Len(s) - 1) : Front(s)[k] = s[k]
         /\ Last(s) = s[Len(s)]
<1>1. Last(s) = s[Len(s)]
  BY DEF Last
<1>2. Front(s) = SubSeq(s, 1, Len(s) - 1)
  BY DEF Front
<1> DEFINE M == Len(s) - 1
<1>3. M \in Nat /\ M \in 0..Len(s)
  OBVIOUS
<1>4. \A k \in 1..M : s[k] \in S
  BY <1>3
<1> HIDE DEF M
<1>5. Len(SubSeq(s, 1, M)) = M
  BY <1>3
<1>6. SubSeq(s, 1, M) \in Seq(S)
  BY <1>3, <1>4
<1>7. \A k \in 1..M : SubSeq(s, 1, M)[k] = s[k]
  BY <1>3
<1> QED
  BY <1>1, <1>2, <1>5, <1>6, <1>7 DEF M

\* Bindings on top of others.
LEMMA OverLemma ==
  ASSUME NEW over \in Bindings, NEW under \in Bindings
  PROVE  Over(over, under) \in Bindings
BY DEF Over, Bindings

\* What one element declares.
LEMMA DeclaredLemma == Unbound \in Bindings /\ Declared \subseteq Bindings
BY DEF Declared, Unbound, Bindings

\* Where the parser is.  Below an open element that is not foreign the stack is
\* as deep as the document; below a foreign one it is not deeper.
LEMMA PlaceLemma ==
  ASSUME IInv, phase = "parsing"
  PROVE  LET L == Len(stack)
             D == Len(doc)
         IN
         /\ L \in Nat /\ D \in Nat /\ L >= 1 /\ D >= 1 /\ L <= D
         /\ Last(doc) = doc[D] /\ Last(stack) = stack[L]
         /\ doc[D].tag \notin Foreign =>
              /\ L = D
              /\ \A k \in 1..L : ~IsForeign(stack[k])
              /\ stack[L] = doc[D].id
              /\ node[stack[L]].tag = doc[D].tag
         /\ doc[D].tag \in Foreign => D >= 2
         /\ \A k \in 1..L :
              ~IsForeign(stack[k]) =>
                k <= D /\ doc[k].tag = node[stack[k]].tag /\ doc[k].id = stack[k]
<1> DEFINE L == Len(stack)
           D == Len(doc)
<1>1. TypeOK /\ DocOK /\ StackOK /\ StackIsDocument
  BY DEF IInv, Parsing
<1>2. L \in Nat /\ D \in Nat /\ L >= 1 /\ D >= 1
  BY <1>1, MembersLemma DEF DocOK, StackOK
<1>3. Last(doc) = doc[D] /\ Last(stack) = stack[L]
  BY DEF Last
<1>4. \A k \in 1..L :
        ~IsForeign(stack[k]) =>
          k <= D /\ doc[k].tag = node[stack[k]].tag /\ doc[k].id = stack[k]
  <2> SUFFICES ASSUME NEW k \in 1..L, ~IsForeign(stack[k])
               PROVE  k <= D /\ doc[k].tag = node[stack[k]].tag /\ doc[k].id = stack[k]
    OBVIOUS
  <2>1. k <= D /\ doc[k].tag \notin Foreign
    BY <1>1 DEF StackIsDocument, IsForeign
  <2>2. k \in 1..Len(doc)
    BY <1>2, <2>1
  <2> QED
    BY <1>1, <2>1, <2>2 DEF StackIsDocument
<1>5. L <= D
  <2>1. L \in 1..L
    BY <1>2
  <2>2. CASE IsForeign(stack[L])
    <3>1. \E l \in L..D : TRUE
      BY <1>1, <2>1, <2>2 DEF StackOK
    <3> QED
      BY <1>2, <3>1
  <2>3. CASE ~IsForeign(stack[L])
    BY <1>4, <2>1, <2>3
  <2> QED
    BY <2>2, <2>3
<1>6. ASSUME doc[D].tag \notin Foreign
      PROVE  /\ L = D
             /\ \A k \in 1..L : ~IsForeign(stack[k])
             /\ stack[L] = doc[D].id
             /\ node[stack[L]].tag = doc[D].tag
  <2>1. D \in 1..D
    BY <1>2
  <2>2. D <= L /\ stack[D] = doc[D].id /\ node[stack[D]].tag = doc[D].tag
    BY <1>1, <1>6, <2>1 DEF StackIsDocument
  <2>3. L = D
    BY <1>2, <1>5, <2>2
  <2>4. \A l \in 1..D : doc[l].tag \notin Foreign
    <3> SUFFICES ASSUME NEW l \in 1..D, l # D
                 PROVE  doc[l].tag \notin Foreign
      BY <1>6
    <3>1. l < D
      BY <1>2
    <3> QED
      BY <1>1, <1>6, <2>1, <3>1 DEF DocOK
  <2>5. \A k \in 1..L : ~IsForeign(stack[k])
    <3> SUFFICES ASSUME NEW k \in 1..L, IsForeign(stack[k])
                 PROVE  FALSE
      OBVIOUS
    <3>1. \E l \in k..D : doc[l].tag = node[stack[k]].tag
      BY <1>1 DEF StackOK
    <3>2. \A l \in k..D : l \in 1..D
      BY <1>2
    <3> QED
      BY <2>4, <3>1, <3>2 DEF IsForeign
  <2> QED
    BY <2>2, <2>3, <2>5
<1>7. doc[D].tag \in Foreign => D >= 2
  <2>1. doc[1].tag \notin Foreign
    BY <1>1 DEF DocOK, Foreign
  <2> QED
    BY <1>2, <2>1
<1> QED
  BY <1>2, <1>3, <1>4, <1>5, <1>6, <1>7

\* What the innermost open element means by its prefixes.
LEMMA MeaningLemma ==
  ASSUME TypeOK, NEW declared \in Declared
  PROVE  Over(declared, Meaning) \in Bindings
<1>1. Meaning \in Bindings
  <2>1. CASE doc = <<>>
    BY <2>1, DeclaredLemma DEF Meaning
  <2>2. CASE doc # <<>>
    <3> DEFINE S == [tag : Tags, id : Ids \cup {Nothing}, meaning : Bindings]
               D == Len(doc)
    <3>1. doc \in Seq(S)
      BY DEF TypeOK
    <3>2. D \in 1..Len(doc)
      BY <2>2, <3>1
    <3> HIDE DEF S, D
    <3>3. doc[D] \in S
      BY <3>1, <3>2
    <3>4. Meaning = doc[D].meaning
      BY <2>2 DEF Meaning, Last, D
    <3> QED
      BY <3>3, <3>4 DEF S
  <2> QED
    BY <2>1, <2>2
<1>2. declared \in Bindings
  BY DeclaredLemma
<1> QED
  BY <1>1, <1>2, OverLemma

\* A new element is the last one, and on top of the stack.
LEMMA MakeLemma ==
  ASSUME TypeOK, NEW tag \in Tags, NEW a \in Attributes(tag), NEW declared \in Declared,
         NEW parent \in Ids \cup {Nothing}, Make(tag, a, declared, parent)
  PROVE  LET n == Len(node) + 1
             L == Len(stack)
         IN
         /\ n \in Ids /\ n \notin Made /\ n >= 1
         /\ node' \in Seq(Nodes) /\ Len(node') = n /\ Len(node') <= MaxElements
         /\ Made' = Made \cup {n}
         /\ \A i \in Made : node'[i] = node[i] /\ i < n
         /\ node'[n].tag = tag /\ node'[n].ns = a.ns /\ node'[n].name = a.name
         /\ node'[n].above = IF doc = <<>> THEN Nothing ELSE Last(doc).id
         /\ xmlns' \in [Ids -> Bindings]
         /\ stack' \in Seq(Made') /\ Len(stack') = L + 1 /\ stack'[L + 1] = n
         /\ \A k \in 1..L : stack'[k] = stack[k]
         /\ \A i : OnStack(i)' <=> OnStack(i) \/ i = n
         /\ a.ns \in Namespaces
<1> USE ConstantsLemma
<1> DEFINE n == Len(node) + 1
           L == Len(stack)
           above == IF doc = <<>> THEN Nothing ELSE Last(doc).id
           new == [tag |-> tag, ns |-> a.ns, name |-> a.name, parent |-> parent,
                   above |-> above, meaning |-> Over(declared, Meaning)]
<1>1. /\ Len(node) < MaxElements
      /\ node' = Append(node, new)
      /\ xmlns' = [xmlns EXCEPT ![n] = declared]
      /\ stack' = Append(stack, n)
  BY DEF Make
<1>2. Len(node) \in Nat /\ L \in Nat /\ stack \in Seq(Made) /\ node \in Seq(Nodes)
  BY MembersLemma DEF TypeOK
<1>3. n \in Ids /\ n \notin Made /\ n >= 1 /\ n <= MaxElements
  BY <1>1, <1>2 DEF Ids, Made
<1>4. a.ns \in Namespaces /\ a.name \in Names
  <2>1. (CHOOSE ns \in Namespaces : TRUE) \in Namespaces
    OBVIOUS
  <2>2. (CHOOSE x \in Names : TRUE) \in Names
    OBVIOUS
  <2> QED
    BY <2>1, <2>2 DEF Attributes
<1>5. above \in Ids \cup {Nothing}
  <2>1. CASE doc = <<>>
    BY <2>1
  <2>2. CASE doc # <<>>
    <3> DEFINE S == [tag : Tags, id : Ids \cup {Nothing}, meaning : Bindings]
               D == Len(doc)
    <3>1. doc \in Seq(S)
      BY DEF TypeOK
    <3>2. D \in 1..Len(doc)
      BY <2>2, <3>1
    <3> HIDE DEF S, D
    <3>3. doc[D] \in S
      BY <3>1, <3>2
    <3>4. above = doc[D].id
      BY <2>2 DEF Last, D
    <3> QED
      BY <3>3, <3>4 DEF S
  <2> QED
    BY <2>1, <2>2
<1>6. new \in Nodes
  <2>1. Over(declared, Meaning) \in Bindings
    BY MeaningLemma
  <2> HIDE DEF above
  <2> QED
    BY <1>4, <1>5, <2>1 DEF Nodes
<1>7. new.tag = tag /\ new.ns = a.ns /\ new.name = a.name /\ new.above = above
  OBVIOUS
<1> HIDE DEF new
<1>8. /\ node' \in Seq(Nodes) /\ Len(node') = n
      /\ \A i \in 1..Len(node) : node'[i] = node[i]
      /\ node'[n] = new
  BY <1>1, <1>2, <1>6
<1>9. Made' = Made \cup {n} /\ \A i \in Made : i < n
  <2>1. 1..n = (1..Len(node)) \cup {n}
    BY <1>2
  <2>2. \A i \in 1..Len(node) : i < n
    BY <1>2
  <2> QED
    BY <1>8, <2>1, <2>2 DEF Made
<1>10. xmlns' \in [Ids -> Bindings]
  <2>1. declared \in Bindings
    BY DeclaredLemma
  <2> QED
    BY <1>1, <1>3, <2>1 DEF TypeOK
<1>11. /\ stack' \in Seq(Made') /\ Len(stack') = L + 1 /\ stack'[L + 1] = n
       /\ \A k \in 1..L : stack'[k] = stack[k]
  <2>1. stack \in Seq(Made')
    <3>1. \A k \in 1..L : stack[k] \in Made'
      BY <1>2, <1>9
    <3> QED
      BY <1>2, <3>1
  <2>2. n \in Made'
    BY <1>9
  <2> HIDE DEF n
  <2> QED
    BY <1>1, <1>2, <2>1, <2>2
<1>12. \A i : OnStack(i)' <=> OnStack(i) \/ i = n
  <2>1. L + 1 \in 1..(L + 1)
        /\ (\A k \in 1..L : k \in 1..(L + 1))
        /\ (\A k \in 1..(L + 1) : k \in 1..L \/ k = L + 1)
    BY <1>2
  <2> HIDE DEF n, L
  <2>2. \A i : OnStack(i) <=> \E k \in 1..L : stack[k] = i
    BY DEF OnStack, L
  <2>3. \A i : OnStack(i)' <=> \E k \in 1..(L + 1) : stack'[k] = i
    BY <1>11 DEF OnStack
  <2> QED
    BY <1>11, <2>1, <2>2, <2>3
<1> HIDE DEF n, L
<1> QED
  BY <1>3, <1>4, <1>7, <1>8, <1>9, <1>10, <1>11, <1>12, <1>1 DEF n, L, Made

\* The document one tag further.
LEMMA OpenedLemma ==
  ASSUME TypeOK, NEW tag \in Tags, NEW declared \in Declared, NEW id \in Ids \cup {Nothing},
         Opened(tag, declared, id)
  PROVE  /\ doc' \in Seq([tag : Tags, id : Ids \cup {Nothing}, meaning : Bindings])
         /\ Len(doc') = Len(doc) + 1
         /\ doc'[Len(doc) + 1].tag = tag /\ doc'[Len(doc) + 1].id = id
         /\ \A k \in 1..Len(doc) : doc'[k] = doc[k]
<1> DEFINE S == [tag : Tags, id : Ids \cup {Nothing}, meaning : Bindings]
           new == [tag |-> tag, id |-> id, meaning |-> Over(declared, Meaning)]
<1>1. doc' = Append(doc, new) /\ doc \in Seq(S)
  BY DEF Opened, TypeOK
<1>2. new \in S /\ new.tag = tag /\ new.id = id
  BY MeaningLemma
<1> HIDE DEF S, new
<1>3. doc' \in Seq(S) /\ Len(doc') = Len(doc) + 1 /\ doc'[Len(doc) + 1] = new
      /\ \A k \in 1..Len(doc) : doc'[k] = doc[k]
  BY <1>1, <1>2
<1> QED
  BY <1>2, <1>3 DEF S

---------------------------------------------------------------------------
(* The beginning.                                                          *)

\* Before the document there is nothing.
LEMMA InitIInv == Init => IInv
<1> SUFFICES ASSUME Init
             PROVE  IInv
  OBVIOUS
<1> USE ConstantsLemma
<1>1. phase = "start" /\ node = <<>> /\ Len(node) = 0 /\ Made = {} /\ stack = <<>> /\ doc = <<>>
  BY DEF Init, Made
<1>2. Blank
  BY DEF Init, Blank
<1>3. TypeOK
  <2>1. xmlns \in [Ids -> Bindings]
    BY DeclaredLemma DEF Init
  <2>2. schemas \in [Ids -> [Namespaces -> Schemas \cup {Nothing}]]
    BY DEF Init
  <2>3. table \in [Ids -> [Names -> Made \cup {Nothing}]]
    BY DEF Init
  <2>4. includes \in [Ids -> SUBSET {i \in Made : node[i].tag = "import"}]
    BY DEF Init
  <2>5. targets \subseteq Made
    BY DEF Init
  <2>6. node \in Seq(Nodes) /\ Len(node) <= MaxElements /\ stack \in Seq(Made)
        /\ doc \in Seq([tag : Tags, id : Ids \cup {Nothing}, meaning : Bindings])
    BY <1>1
  <2> QED
    BY <1>1, <2>1, <2>2, <2>3, <2>4, <2>5, <2>6 DEF TypeOK
<1>4. NodesOK
  BY <1>1 DEF NodesOK
<1>5. StackIsDocument /\ DeclarationsAreFound
  BY <1>1 DEF StackIsDocument, DeclarationsAreFound
<1> QED
  BY <1>1, <1>2, <1>3, <1>4, <1>5 DEF IInv

\* The root is open, and made up definitions know it if it is a schema.
LEMMA OpenRootIInv ==
  ASSUME IInv, NEW tag \in Tags, NEW a \in Attributes(tag), NEW declared \in Declared,
         OpenRoot(tag, a, declared)
  PROVE  IInv'
<1> USE ConstantsLemma
<1>0. TypeOK /\ Blank
  BY DEF IInv, OpenRoot
<1>1. /\ tag \in {"definitions", "schema"} /\ tag \notin Foreign /\ phase' = "parsing"
      /\ Make(tag, a, declared, Nothing)
      /\ schemas' = IF tag = "schema" THEN [schemas EXCEPT ![1][a.ns] = 1] ELSE schemas
      /\ Opened(tag, declared, 1)
      /\ table' = table /\ includes' = includes /\ targets' = targets
  BY DEF OpenRoot, Foreign
<1>2. node = <<>> /\ Len(node) = 0 /\ Made = {} /\ stack = <<>> /\ Len(stack) = 0
      /\ doc = <<>> /\ Len(doc) = 0
  BY <1>0 DEF Blank, Made
<1>3. /\ node' \in Seq(Nodes) /\ Len(node') <= MaxElements
      /\ Made' = {1}
      /\ node'[1].tag = tag /\ node'[1].ns = a.ns
      /\ node'[1].above = Nothing
      /\ xmlns' \in [Ids -> Bindings]
      /\ stack' \in Seq(Made') /\ Len(stack') = 1 /\ stack'[1] = 1
      /\ a.ns \in Namespaces
  <2>1. Nothing \in Ids \cup {Nothing}
    OBVIOUS
  <2> QED
    BY <1>0, <1>1, <1>2, <2>1, MakeLemma
<1>4. /\ doc' \in Seq([tag : Tags, id : Ids \cup {Nothing}, meaning : Bindings])
      /\ Len(doc') = 1 /\ doc'[1].tag = tag /\ doc'[1].id = 1
  <2>1. 1 \in Ids \cup {Nothing}
    OBVIOUS
  <2> QED
    <3>1. /\ doc' \in Seq([tag : Tags, id : Ids \cup {Nothing}, meaning : Bindings])
          /\ Len(doc') = Len(doc) + 1
          /\ doc'[Len(doc) + 1].tag = tag /\ doc'[Len(doc) + 1].id = 1
      BY <1>0, <1>1, <2>1, OpenedLemma
    <3>2. Len(doc) + 1 = 1
      BY <1>2
    <3> QED
      BY <3>1, <3>2
<1>5. /\ \A s \in Ids, x \in Names : table'[s][x] = Nothing
      /\ \A s \in Ids, ns \in Namespaces : s # 1 => schemas'[s][ns] = Nothing
      /\ tag = "schema" => schemas'[1][a.ns] = 1
      /\ schemas' \in [Ids -> [Namespaces -> Schemas' \cup {Nothing}]]
      /\ table' \in [Ids -> [Names -> Made' \cup {Nothing}]]
  <2>1. schemas \in [Ids -> [Namespaces -> {Nothing}]]
        /\ \A s \in Ids, ns \in Namespaces : schemas[s][ns] = Nothing
    BY <1>0, <1>2 DEF TypeOK, Blank, Schemas
  <2>2. table \in [Ids -> [Names -> {Nothing}]]
    BY <1>0, <1>2 DEF TypeOK
  <2>3. \A s \in Ids, x \in Names : table'[s][x] = Nothing
    BY <1>1, <2>2
  <2>4. \A s \in Ids, ns \in Namespaces : s # 1 => schemas'[s][ns] = Nothing
    BY <1>1, <2>1
  <2>5. tag = "schema" => schemas'[1][a.ns] = 1
    BY <1>1, <1>3, <2>1
  <2>6. CASE tag = "schema"
    <3>1. 1 \in Schemas'
      BY <1>3, <2>6 DEF Schemas
    <3>2. schemas' = [schemas EXCEPT ![1] = [schemas[1] EXCEPT ![a.ns] = 1]]
      BY <1>1, <2>1, <2>6
    <3>3. [schemas[1] EXCEPT ![a.ns] = 1] \in [Namespaces -> Schemas' \cup {Nothing}]
      BY <2>1, <3>1
    <3> QED
      BY <1>1, <2>1, <2>2, <2>3, <2>4, <2>5, <3>2, <3>3
  <2>7. CASE tag # "schema"
    BY <1>1, <2>1, <2>2, <2>3, <2>4, <2>5, <2>7
  <2> QED
    BY <2>6, <2>7
<1>6. TypeOK'
  <2>1. includes' \in [Ids -> SUBSET {i \in Made : node[i].tag = "import"}']
    <3>1. {i \in Made : node[i].tag = "import"} = {}
      BY <1>2
    <3>2. includes' \in [Ids -> {{}}]
      BY <1>0, <1>1, <3>1 DEF TypeOK
    <3> QED
      BY <3>2
  <2>2. targets' \subseteq Made'
    BY <1>0, <1>1, <1>2 DEF TypeOK
  <2> QED
    BY <1>1, <1>3, <1>4, <1>5, <2>1, <2>2 DEF TypeOK
<1>7. NodesOK'
  BY <1>1, <1>3 DEF NodesOK
<1>8. DocOK'
  BY <1>1, <1>4 DEF DocOK
<1>9. StackOK'
  <2>1. \A k, l \in 1..1 : ~(k < l)
    OBVIOUS
  <2> QED
    BY <1>1, <1>3, <2>1 DEF StackOK, IsForeign
<1>10. TablesOK'
  <2>1. 1 > 0
    OBVIOUS
  <2> QED
    BY <1>1, <1>3, <1>5, <2>1 DEF TablesOK
<1>11. SchemasOK'
  <2>1. \A t \in Made' : node'[t].tag # "types"
    BY <1>1, <1>3
  <2>2. \A s \in Ids \ Made', ns \in Namespaces : schemas'[s][ns] = Nothing
    BY <1>3, <1>5
  <2> QED
    BY <2>1, <2>2 DEF SchemasOK
<1>12. RootOK'
  <2>1. \A t \in Made' : node'[t].tag # "types" /\ node'[t].tag # "import"
    BY <1>1, <1>3
  <2>2. node'[1].tag = "schema" => schemas'[1][node'[1].ns] = 1
    BY <1>3, <1>5
  <2> QED
    BY <2>1, <2>2 DEF RootOK
<1>13. StackIsDocument'
  BY <1>1, <1>3, <1>4 DEF StackIsDocument
<1>14. DeclarationsAreFound' /\ (phase' = "start" => Blank')
  BY <1>1 DEF DeclarationsAreFound
<1> QED
  BY <1>6, <1>7, <1>8, <1>9, <1>10, <1>11, <1>12, <1>13, <1>14 DEF IInv, Parsing

---------------------------------------------------------------------------
(* An opening tag.                                                         *)

\* The document one tag further is one, and inside a foreign element the tag is
\* foreign.
LEMMA DocGrows ==
  ASSUME IInv, phase = "parsing", NEW tag \in Content(Last(doc).tag),
         Len(doc') = Len(doc) + 1, doc'[Len(doc) + 1].tag = tag,
         \A k \in 1..Len(doc) : doc'[k] = doc[k]
  PROVE  /\ DocOK'
         /\ tag \in Tags /\ tag # "definitions"
         /\ Last(doc).tag \in Tags
         /\ Last(doc).tag \in Foreign => tag \in Foreign
<1> DEFINE D == Len(doc)
           E == D + 1
<1>1. D \in Nat /\ D >= 1 /\ Last(doc) = doc[D]
  BY PlaceLemma
<1>2. DocOK /\ TypeOK
  BY DEF IInv, Parsing
<1>3. /\ D \in 1..D /\ 1 \in 1..D /\ E - 1 = D /\ E \in Nat /\ E >= 1
      /\ \A k \in 1..E : k \in 1..D \/ k = E
      /\ \A k \in 2..E : (k \in 2..D /\ k \in 1..D /\ k - 1 \in 1..D) \/ k = E
      /\ \A k, l \in 1..E : k < l => k \in 1..D
      /\ \A k \in 1..D : k < D \/ k = D
  <2>1. D \in Nat /\ D >= 1
    BY <1>1
  <2> HIDE DEF D
  <2> QED
    BY <2>1
<1>4. doc[D].tag \in Tags
  BY <1>2, <1>3, MembersLemma
<1>5. /\ tag \in Tags /\ tag # "definitions"
      /\ doc[D].tag \in Foreign => tag \in Foreign
  BY <1>1, <1>4, ContentLemma
<1>6. Len(doc') = E /\ doc'[E].tag = tag /\ \A k \in 1..D : doc'[k] = doc[k]
  OBVIOUS
<1>7. DocOK /\ tag \in Content(doc[D].tag)
  BY <1>1, <1>2
<1>11. \A k, l \in 1..D : k < l /\ doc[k].tag \in Foreign => doc[l].tag \in Foreign
  BY <1>7 DEF DocOK
<1>12. doc[1].tag \in {"definitions", "schema"}
       /\ \A k \in 2..D : doc[k].tag \in Content(doc[k - 1].tag)
  BY <1>7 DEF DocOK
<1> HIDE DEF D, E
<1>8. \A k \in 2..E : doc'[k].tag \in Content(doc'[k - 1].tag)
  BY <1>3, <1>6, <1>7, <1>12
<1>9. \A k, l \in 1..E : k < l /\ doc'[k].tag \in Foreign => doc'[l].tag \in Foreign
  <2> SUFFICES ASSUME NEW k \in 1..E, NEW l \in 1..E, k < l, doc'[k].tag \in Foreign
               PROVE  doc'[l].tag \in Foreign
    OBVIOUS
  <2>1. k \in 1..D /\ doc[k].tag \in Foreign
    BY <1>3, <1>6
  <2>2. CASE l = E
    <3>1. doc[D].tag \in Foreign
      BY <1>3, <1>11, <2>1
    <3> QED
      BY <1>5, <1>6, <2>2, <3>1
  <2>3. CASE l \in 1..D
    BY <1>6, <1>11, <2>1, <2>3
  <2> QED
    BY <1>3, <2>2, <2>3
<1>10. DocOK'
  BY <1>3, <1>6, <1>8, <1>9, <1>12 DEF DocOK
<1> QED
  BY <1>1, <1>4, <1>5, <1>10 DEF D

\* Inside a foreign element nothing is made.
LEMMA OpenSkipsIInv ==
  ASSUME IInv, NEW tag \in Tags, NEW a \in Attributes(tag), NEW declared \in Declared,
         Open(tag, a, declared), node[Last(stack)].tag \in Foreign
  PROVE  IInv'
<1> USE ConstantsLemma
<1> DEFINE D == Len(doc)
           E == D + 1
           L == Len(stack)
<1>0. TypeOK /\ NodesOK /\ DocOK /\ StackOK /\ TablesOK /\ SchemasOK /\ RootOK /\ StackIsDocument
  BY DEF IInv, Parsing, Open
<1>1. /\ phase = "parsing" /\ phase' = "parsing"
      /\ tag \in Content(Last(doc).tag)
      /\ UNCHANGED <<node, xmlns, stack, schemas, table, includes, targets>>
      /\ Opened(tag, declared, Nothing)
  BY DEF Open
<1>2. /\ doc' \in Seq([tag : Tags, id : Ids \cup {Nothing}, meaning : Bindings])
      /\ Len(doc') = E
      /\ doc'[E].tag = tag
      /\ \A k \in 1..D : doc'[k] = doc[k]
  BY <1>0, <1>1, OpenedLemma
<1>3. /\ D \in Nat /\ D >= 1 /\ L \in Nat /\ L >= 1 /\ L <= D
      /\ doc[D].tag \in Foreign /\ Last(doc) = doc[D]
  <2>1. /\ D \in Nat /\ D >= 1 /\ L \in Nat /\ L >= 1 /\ L <= D
        /\ Last(doc) = doc[D] /\ Last(stack) = stack[L]
        /\ doc[D].tag \notin Foreign => \A k \in 1..L : ~IsForeign(stack[k])
    BY <1>1, PlaceLemma
  <2>2. L \in 1..L
    BY <2>1
  <2> QED
    BY <2>1, <2>2 DEF IsForeign
<1>4. DocOK' /\ tag \in Foreign
  BY <1>1, <1>2, <1>3, DocGrows
<1>5. /\ \A k \in 1..E : k \in 1..D \/ k = E
      /\ \A k \in 1..L : \A l \in k..D : l \in k..E /\ l \in 1..D
      /\ \A k \in 1..L : k <= D /\ k <= E /\ k \in 1..D
  <2>1. D \in Nat /\ L \in Nat /\ L <= D
    BY <1>3
  <2> HIDE DEF D, L
  <2> QED
    BY <2>1
<1>6. StackOK'
  <2>1. ASSUME NEW k \in 1..L, IsForeign(stack[k])
        PROVE  \E l \in k..E : doc'[l].tag = node[stack[k]].tag
    <3>1. PICK l \in k..D : doc[l].tag = node[stack[k]].tag
      BY <1>0, <2>1 DEF StackOK
    <3>2. l \in k..E /\ l \in 1..D
      BY <1>5
    <3> QED
      BY <1>2, <3>1, <3>2
  <2> QED
    BY <1>0, <1>1, <1>2, <2>1 DEF StackOK, IsForeign, Made
<1>7. StackIsDocument'
  <2>1. ASSUME NEW k \in 1..E, doc'[k].tag \notin Foreign
        PROVE  k <= L /\ stack[k] = doc'[k].id /\ node[stack[k]].tag = doc'[k].tag
    <3>1. k \in 1..D /\ doc'[k] = doc[k]
      BY <1>2, <1>4, <1>5, <2>1
    <3> QED
      BY <1>0, <1>1, <2>1, <3>1 DEF StackIsDocument
  <2>2. ASSUME NEW k \in 1..L, node[stack[k]].tag \notin Foreign
        PROVE  k <= E /\ doc'[k].tag \notin Foreign
    <3>1. k <= D /\ doc[k].tag \notin Foreign
      BY <1>0, <1>1, <2>2 DEF StackIsDocument
    <3>2. k \in 1..D /\ k <= E
      BY <1>5
    <3> QED
      BY <1>2, <3>1, <3>2
  <2> QED
    BY <1>1, <1>2, <2>1, <2>2 DEF StackIsDocument
<1>8. TypeOK'
  BY <1>0, <1>1, <1>2 DEF TypeOK, Made, Schemas
<1>9. NodesOK' /\ TablesOK' /\ SchemasOK' /\ RootOK'
  <2>1. NodesOK'
    BY <1>0, <1>1 DEF NodesOK, Made, IsForeign
  <2>2. TablesOK'
    BY <1>0, <1>1 DEF TablesOK, Made, IsForeign, OnStack, Written
  <2>3. SchemasOK'
    BY <1>0, <1>1 DEF SchemasOK, Made, OnStack
  <2>4. RootOK'
    BY <1>0, <1>1 DEF RootOK, Made, OnStack
  <2> QED
    BY <2>1, <2>2, <2>3, <2>4
<1>10. DeclarationsAreFound' /\ (phase' = "start" => Blank')
  BY <1>1 DEF DeclarationsAreFound
<1> QED
  BY <1>4, <1>6, <1>7, <1>8, <1>9, <1>10 DEF IInv, Parsing

\* An open import is the innermost element, and nothing can be opened in it.
LEMMA ImportLemma ==
  ASSUME IInv, phase = "parsing", NEW i, OnStack(i), node[i].tag = "import"
  PROVE  Last(doc).tag = "import"
<1> DEFINE D == Len(doc)
           L == Len(stack)
<1>1. /\ D \in Nat /\ D >= 1 /\ L \in Nat /\ L >= 1 /\ L <= D /\ Last(doc) = doc[D]
      /\ \A k \in 1..L : ~IsForeign(stack[k]) => doc[k].tag = node[stack[k]].tag
  BY PlaceLemma
<1>2. PICK k \in 1..L : stack[k] = i
  BY DEF OnStack
<1>3. doc[k].tag = "import" /\ k \in 1..D
  BY <1>1, <1>2 DEF IsForeign, Foreign
<1>4. CASE k = D
  BY <1>1, <1>3, <1>4
<1>5. CASE k # D
  <2>1. k + 1 \in 2..D /\ (k + 1) - 1 = k
    BY <1>1, <1>3, <1>5
  <2>2. doc[k + 1].tag \in Content(doc[k].tag)
    BY <2>1 DEF IInv, Parsing, DocOK
  <2>3. Content("import") = {}
    <3>1. "import" \in Tags
      BY DEF Tags
    <3> QED
      BY <3>1, ContentLemma
  <2> QED
    BY <1>3, <2>2, <2>3
<1> QED
  BY <1>4, <1>5

\* A new element is open, and has nothing yet.
LEMMA OpenMakesIInv ==
  ASSUME IInv, NEW tag \in Tags, NEW a \in Attributes(tag), NEW declared \in Declared,
         Open(tag, a, declared), node[Last(stack)].tag \notin Foreign
  PROVE  IInv'
<1> USE ConstantsLemma
<1> DEFINE n == Len(node) + 1
           D == Len(doc)
           E == D + 1
           L == Len(stack)
           M == L + 1
<1>0. TypeOK /\ NodesOK /\ DocOK /\ StackOK /\ TablesOK /\ SchemasOK /\ RootOK /\ StackIsDocument
  BY DEF IInv, Parsing, Open
<1>1. /\ phase = "parsing" /\ phase' = "parsing"
      /\ tag \in Content(Last(doc).tag)
      /\ InOrder(tag)
      /\ Make(tag, a, declared, Last(stack))
      /\ Opened(tag, declared, n)
      /\ UNCHANGED <<schemas, table, includes, targets>>
  BY DEF Open
<1>2. /\ D \in Nat /\ D >= 1 /\ L \in Nat /\ L >= 1 /\ L <= D
      /\ Last(doc) = doc[D] /\ Last(stack) = stack[L]
      /\ doc[D].tag \notin Foreign =>
           L = D /\ stack[L] = doc[D].id /\ node[stack[L]].tag = doc[D].tag
  BY <1>1, PlaceLemma
<1>3. Last(stack) \in Made /\ stack[L] \in Made /\ Made \subseteq Ids
  BY <1>0, <1>2, MembersLemma DEF StackOK
<1>4. /\ n \in Ids /\ n \notin Made /\ n >= 1
      /\ node' \in Seq(Nodes) /\ Len(node') = n /\ Len(node') <= MaxElements
      /\ Made' = Made \cup {n}
      /\ \A i \in Made : node'[i] = node[i] /\ i < n
      /\ node'[n].tag = tag /\ node'[n].ns = a.ns /\ node'[n].name = a.name
      /\ node'[n].above = IF doc = <<>> THEN Nothing ELSE Last(doc).id
      /\ xmlns' \in [Ids -> Bindings]
      /\ stack' \in Seq(Made') /\ Len(stack') = M /\ stack'[M] = n
      /\ \A k \in 1..L : stack'[k] = stack[k]
      /\ \A i : OnStack(i)' <=> OnStack(i) \/ i = n
  <2>1. Last(stack) \in Ids \cup {Nothing}
    BY <1>3
  <2> QED
    BY <1>0, <1>1, <2>1, MakeLemma
<1>5. /\ doc' \in Seq([tag : Tags, id : Ids \cup {Nothing}, meaning : Bindings])
      /\ Len(doc') = E
      /\ doc'[E].tag = tag /\ doc'[E].id = n
      /\ \A k \in 1..D : doc'[k] = doc[k]
  BY <1>0, <1>1, <1>4, OpenedLemma
<1>6. /\ DocOK'
      /\ tag # "definitions" /\ Last(doc).tag \in Tags
      /\ Last(doc).tag \in Foreign => tag \in Foreign
  BY <1>1, <1>5, DocGrows
<1>7. tag \notin Foreign =>
        /\ L = D /\ E = M
        /\ node'[n].above = stack[L] /\ stack[L] \in Made
        /\ node[stack[L]].tag = doc[D].tag
        /\ tag \in Content(node[stack[L]].tag)
  <2>1. doc # <<>>
    BY <1>2
  <2> QED
    BY <1>1, <1>2, <1>3, <1>4, <1>6, <2>1
<1>8. /\ \A k \in 1..E : k \in 1..D \/ k = E
      /\ \A k \in 1..M : k \in 1..L \/ k = M
      /\ \A k \in 2..M : (k \in 2..L /\ k \in 1..L /\ k - 1 \in 1..L) \/ k = M
      /\ \A k \in 1..L : k <= M /\ k <= E /\ k \in 1..D /\ k # M /\ k < M
      /\ E \in M..E /\ E \in Nat /\ M \in Nat /\ M >= 2 /\ M - 1 = L /\ L \in 1..L /\ 1 \in 1..L
      /\ \A k, l \in 1..M : k < l => k \in 1..L
  <2>1. D \in Nat /\ L \in Nat /\ L >= 1 /\ L <= D
    BY <1>2
  <2> HIDE DEF D, L
  <2> QED
    BY <2>1
<1>9. ~IsForeign(stack[L])
  BY <1>2 DEF IsForeign
<1>10. tag \in {"types", "import"} /\ Last(doc).tag = "definitions" =>
         \A t \in Made : node[t].tag # "types"
  BY <1>1 DEF InOrder, Made
<1>11. tag = "types" => \A t \in Made : node[t].tag # "types"
  <2>1. tag = "types" => Last(doc).tag = "definitions"
    BY <1>1, <1>6, ContentLemma
  <2> QED
    BY <1>10, <2>1
<1>12. 1 \in Made /\ 1 # n
  <2>1. stack[1] = 1 /\ stack[1] \in Made
    BY <1>0, <1>8 DEF StackOK
  <2> QED
    BY <1>4, <2>1
<1>13. \A i \in Made : i # 1 /\ ~IsForeign(i) => node[i].above \in Made
  BY <1>0 DEF NodesOK
<1> HIDE DEF n, D, E, L, M
<1>14. \A ns \in Namespaces, x \in {"component", "import"} : Written(ns, x) \subseteq Written(ns, x)'
  <2> SUFFICES ASSUME NEW ns \in Namespaces, NEW x \in {"component", "import"},
                      NEW i \in Written(ns, x)
               PROVE  i \in Written(ns, x)'
    OBVIOUS
  <2>1. /\ i \in Made /\ node[i].tag = x /\ node[i].above # Nothing
        /\ node[node[i].above].tag = "schema"
        /\ node[node[i].above].ns = ns
    BY DEF Written
  <2>2. i # 1 /\ ~IsForeign(i)
    BY <1>0, <2>1 DEF NodesOK, IsForeign, Foreign
  <2>3. node[i].above \in Made
    BY <1>13, <2>1, <2>2
  <2> QED
    BY <1>4, <2>1, <2>3 DEF Written
<1>15. TypeOK'
  <2>1. Schemas \subseteq Schemas'
    BY <1>4 DEF Schemas
  <2>2. schemas' \in [Ids -> [Namespaces -> Schemas' \cup {Nothing}]]
    <3>1. schemas \in [Ids -> [Namespaces -> Schemas \cup {Nothing}]]
      BY <1>0 DEF TypeOK
    <3> QED
      BY <1>1, <2>1, <3>1
  <2>3. table' \in [Ids -> [Names -> Made' \cup {Nothing}]]
    <3>1. table \in [Ids -> [Names -> Made \cup {Nothing}]]
      BY <1>0 DEF TypeOK
    <3> QED
      BY <1>1, <1>4, <3>1
  <2>4. includes' \in [Ids -> SUBSET {i \in Made : node[i].tag = "import"}']
    <3>1. {i \in Made : node[i].tag = "import"} \subseteq {i \in Made : node[i].tag = "import"}'
      BY <1>4
    <3>2. includes \in [Ids -> SUBSET {i \in Made : node[i].tag = "import"}]
      BY <1>0 DEF TypeOK
    <3> QED
      BY <1>1, <3>1, <3>2
  <2>5. targets' \subseteq Made'
    BY <1>0, <1>1, <1>4 DEF TypeOK
  <2> QED
    BY <1>1, <1>4, <1>5, <2>2, <2>3, <2>4, <2>5 DEF TypeOK
<1>16. NodesOK'
  <2>1. node'[1].tag \in {"definitions", "schema"} /\ node'[1].above = Nothing
    BY <1>0, <1>4, <1>12 DEF NodesOK
  <2>2. ASSUME NEW i \in Made', i # 1, ~IsForeign(i)'
        PROVE  /\ node'[i].above \in Made'
               /\ node'[i].above < i
               /\ node'[i].tag \in Content(node'[node'[i].above].tag)
    <3>1. CASE i \in Made
      <4>1. ~IsForeign(i) /\ node'[i] = node[i]
        BY <1>4, <2>2, <3>1 DEF IsForeign
      <4> QED
        BY <1>0, <1>4, <2>2, <3>1, <4>1 DEF NodesOK
    <3>2. CASE i = n
      <4>1. tag \notin Foreign
        BY <1>4, <2>2, <3>2 DEF IsForeign
      <4> QED
        BY <1>4, <1>7, <3>2, <4>1
    <3> QED
      BY <1>4, <3>1, <3>2
  <2>3. ASSUME NEW i \in Made', NEW j \in Made', node'[i].tag = "types", node'[j].tag = "types"
        PROVE  i = j
    BY <1>0, <1>4, <1>11, <2>3 DEF NodesOK
  <2> QED
    BY <2>1, <2>2, <2>3 DEF NodesOK
<1>17. StackOK'
  <2>1. \A k \in 1..M : stack'[k] \in Made'
    BY <1>0, <1>4, <1>8 DEF StackOK, L
  <2>2. \A k, l \in 1..M : k < l => stack'[k] < stack'[l]
    BY <1>0, <1>4, <1>8 DEF StackOK, L
  <2>3. ASSUME NEW k \in 1..M, IsForeign(stack[k])'
        PROVE  k = M /\ k >= 2 /\ \E l \in k..E : doc'[l].tag = node'[stack'[k]].tag
    <3>1. k = M
      <4> SUFFICES ASSUME k \in 1..L
                   PROVE  FALSE
        BY <1>8
      <4>1. IsForeign(stack[k])
        BY <1>0, <1>4, <2>3 DEF StackOK, IsForeign, L
      <4>2. k = L
        BY <1>0, <4>1 DEF StackOK, L
      <4> QED
        BY <1>9, <4>1, <4>2
    <3>2. node'[stack'[k]].tag = tag
      BY <1>4, <3>1
    <3> QED
      BY <1>5, <1>8, <3>1, <3>2
  <2>4. ASSUME NEW k \in 2..M, ~IsForeign(stack[k])'
        PROVE  node'[stack'[k]].above = stack'[k - 1]
    <3>1. CASE k \in 2..L
      <4>1. stack[k] \in Made /\ stack'[k] = stack[k] /\ stack'[k - 1] = stack[k - 1]
        BY <1>0, <1>4, <1>8, <3>1 DEF StackOK, L
      <4>2. ~IsForeign(stack[k])
        BY <1>4, <2>4, <4>1 DEF IsForeign
      <4> QED
        BY <1>0, <1>4, <3>1, <4>1, <4>2 DEF StackOK, L
    <3>2. CASE k = M
      <4>1. tag \notin Foreign
        BY <1>4, <2>4, <3>2 DEF IsForeign
      <4> QED
        BY <1>4, <1>7, <1>8, <3>2, <4>1
    <3> QED
      BY <1>8, <3>1, <3>2
  <2>5. stack'[1] = 1 /\ M >= 1
    BY <1>0, <1>4, <1>8 DEF StackOK
  <2>6. ASSUME NEW k \in 1..M, NEW l \in 1..M, k < l
        PROVE  MayHold(node'[stack'[k]].tag, node'[stack'[l]].tag)
    <3>1. /\ k \in 1..L /\ stack[k] \in Made
          /\ node'[stack'[k]].tag = node[stack[k]].tag
      BY <1>0, <1>4, <1>8, <2>6 DEF StackOK, L
    <3>2. CASE l \in 1..L
      <4>1. node'[stack'[l]].tag = node[stack[l]].tag
        BY <1>0, <1>4, <3>2 DEF StackOK, L
      <4>2. MayHold(node[stack[k]].tag, node[stack[l]].tag)
        BY <1>0, <2>6, <3>1, <3>2 DEF StackOK, L
      <4> QED
        BY <3>1, <4>1, <4>2
    <3>3. CASE l = M /\ tag \in Foreign
      <4>1. node'[stack'[l]].tag = tag
        BY <1>4, <3>3
      <4> QED
        BY <3>3, <4>1 DEF MayHold
    <3>4. CASE l = M /\ tag \notin Foreign
      <4> DEFINE top == node[stack[L]].tag
      <4>1. node'[stack'[l]].tag = tag /\ tag \in Content(top)
        BY <1>4, <1>7, <3>4
      <4>2. top \in Tags /\ top \notin Foreign /\ node[stack[k]].tag \in Tags
        BY <1>0, <1>3, <1>9, <3>1, MembersLemma DEF IsForeign
      <4>3. k = L \/ MayHold(node[stack[k]].tag, top)
        <5>1. k = L \/ k < L
          BY <1>2, <3>1
        <5> QED
          BY <1>0, <1>8, <3>1, <5>1 DEF StackOK, L
      <4> HIDE DEF top
      <4>4. k = L => node[stack[k]].tag = top
        BY DEF top
      <4> QED
        BY <3>1, <4>1, <4>2, <4>3, <4>4, MayHoldLemma
    <3> QED
      BY <1>8, <3>2, <3>3, <3>4
  <2> QED
    BY <1>4, <1>5, <2>1, <2>2, <2>3, <2>4, <2>5, <2>6 DEF StackOK
<1>18. StackIsDocument'
  <2>1. ASSUME NEW k \in 1..E, doc'[k].tag \notin Foreign
        PROVE  k <= M /\ stack'[k] = doc'[k].id /\ node'[stack'[k]].tag = doc'[k].tag
    <3>1. CASE k \in 1..D
      <4>1. k <= L /\ stack[k] = doc[k].id /\ node[stack[k]].tag = doc[k].tag /\ doc'[k] = doc[k]
        BY <1>0, <1>1, <1>5, <2>1, <3>1 DEF StackIsDocument, D, L
      <4>2. k \in 1..L
        BY <1>2, <3>1, <4>1
      <4> QED
        BY <1>0, <1>4, <1>8, <4>1, <4>2 DEF StackOK, L
    <3>2. CASE k = E
      BY <1>4, <1>5, <1>7, <1>8, <2>1, <3>2
    <3> QED
      BY <1>8, <3>1, <3>2
  <2>2. ASSUME NEW k \in 1..M, node'[stack'[k]].tag \notin Foreign
        PROVE  k <= E /\ doc'[k].tag \notin Foreign
    <3>1. CASE k \in 1..L
      <4>1. node[stack[k]].tag \notin Foreign
        BY <1>0, <1>4, <2>2, <3>1 DEF StackOK, L
      <4>2. doc[k].tag \notin Foreign
        BY <1>0, <1>1, <3>1, <4>1 DEF StackIsDocument, L
      <4> QED
        BY <1>5, <1>8, <3>1, <4>2
    <3>2. CASE k = M
      <4>1. tag \notin Foreign
        BY <1>4, <2>2, <3>2
      <4> QED
        BY <1>5, <1>7, <1>8, <3>2, <4>1
    <3> QED
      BY <1>8, <3>1, <3>2
  <2> QED
    BY <1>4, <1>5, <2>1, <2>2 DEF StackIsDocument
<1>19. TablesOK'
  <2>1. ASSUME NEW s \in Ids, NEW x \in Names, table'[s][x] # Nothing
        PROVE  /\ s \in Made' /\ node'[s].tag = "schema"
               /\ table'[s][x] \in Written(node[s].ns, "component")'
               /\ node'[table'[s][x]].name = x
    <3>1. /\ s \in Made /\ node[s].tag = "schema"
          /\ table[s][x] \in Written(node[s].ns, "component")
          /\ node[table[s][x]].name = x
      BY <1>0, <1>1, <2>1 DEF TablesOK
    <3>2. node'[s] = node[s] /\ node[s].ns \in Namespaces /\ table[s][x] \in Made
      BY <1>0, <1>4, <3>1, MembersLemma DEF Written
    <3>3. table[s][x] \in Written(node[s].ns, "component")'
      <4> DEFINE ns == node[s].ns
      <4>1. Written(ns, "component") \subseteq Written(ns, "component")'
        BY <1>14, <3>2
      <4>2. ns' = ns
        BY <3>2
      <4> QED
        BY <3>1, <4>1, <4>2
    <3> QED
      BY <1>1, <1>4, <3>1, <3>2, <3>3
  <2>2. ASSUME NEW i \in Made', i # 1, ~IsForeign(i)', ~OnStack(i)',
               node'[node'[i].above].tag = "schema"
        PROVE  /\ node'[i].tag = "component" => table'[node'[i].above][node'[i].name] >= i
               /\ node'[i].tag = "import" => i \in includes'[node'[i].above]
    <3>1. i \in Made /\ ~OnStack(i) /\ node'[i] = node[i] /\ ~IsForeign(i)
      BY <1>4, <2>2 DEF IsForeign
    <3>2. node[node[i].above].tag = "schema"
      BY <1>4, <1>13, <2>2, <3>1
    <3> QED
      BY <1>0, <1>1, <2>2, <3>1, <3>2 DEF TablesOK
  <2>3. ASSUME NEW c \in Made', node'[c].tag = "schema", OnStack(c)', NEW s \in Ids, NEW x \in Names
        PROVE  IF s = c THEN table'[s][x] # Nothing => table'[s][x] > c ELSE table'[s][x] < c
    <3>1. CASE c \in Made
      <4>1. OnStack(c) /\ node[c].tag = "schema"
        BY <1>4, <2>3, <3>1
      <4> QED
        BY <1>0, <1>1, <3>1, <4>1 DEF TablesOK
    <3>2. CASE c = n
      <4>1. table[n][x] = Nothing
        BY <1>0, <1>4 DEF TablesOK
      <4>2. table[s][x] \in Made \cup {Nothing}
        <5>1. table \in [Ids -> [Names -> Made \cup {Nothing}]]
          BY <1>0 DEF TypeOK
        <5> QED
          BY <5>1
      <4>3. table[s][x] < n
        BY <1>4, <4>2
      <4> QED
        BY <1>1, <3>2, <4>1, <4>3
    <3> QED
      BY <1>4, <3>1, <3>2
  <2>4. ASSUME NEW c \in Made', node'[c].tag = "component", OnStack(c)', NEW s \in Ids, NEW x \in Names
        PROVE  table'[s][x] < c
    <3>1. CASE c \in Made
      <4>1. OnStack(c) /\ node[c].tag = "component"
        BY <1>4, <2>4, <3>1
      <4> QED
        BY <1>0, <1>1, <3>1, <4>1 DEF TablesOK
    <3>2. CASE c = n
      <4>1. table[s][x] \in Made \cup {Nothing}
        <5>1. table \in [Ids -> [Names -> Made \cup {Nothing}]]
          BY <1>0 DEF TypeOK
        <5> QED
          BY <5>1
      <4> QED
        BY <1>1, <1>4, <3>2, <4>1
    <3> QED
      BY <1>4, <3>1, <3>2
  <2> QED
    BY <2>1, <2>2, <2>3, <2>4 DEF TablesOK
<1>20. SchemasOK'
  <2>1. \A s \in Ids \ Made', ns \in Namespaces : schemas'[s][ns] = Nothing
    BY <1>0, <1>1, <1>4 DEF SchemasOK
  <2>2. ASSUME NEW t \in Made, node[t].tag = "types", NEW ns \in Namespaces,
               schemas[t][ns] # Nothing
        PROVE  /\ node'[schemas[t][ns]].tag = "schema"
               /\ node'[schemas[t][ns]].ns = ns
               /\ node'[schemas[t][ns]].above = t
               /\ ~OnStack(schemas[t][ns])'
    <3>1. schemas[t][ns] \in Made
      <4>1. schemas \in [Ids -> [Namespaces -> Schemas \cup {Nothing}]]
        BY <1>0 DEF TypeOK
      <4>2. schemas[t][ns] \in Schemas
        BY <1>3, <2>2, <4>1
      <4> QED
        BY <4>2 DEF Schemas
    <3> DEFINE k == schemas[t][ns]
    <3>2. /\ node[k].tag = "schema"
          /\ node[k].ns = ns
          /\ node[k].above = t
          /\ ~OnStack(k)
      BY <1>0, <2>2 DEF SchemasOK
    <3>3. k' = k
      BY <1>1
    <3>4. \A i : OnStack(i)' <=> OnStack(i) \/ i = n
      BY <1>4
    <3> QED
      BY <1>4, <3>1, <3>2, <3>3, <3>4
  <2>3. ASSUME NEW s \in Made', node'[s].tag = "schema", s # 1, ~OnStack(s)'
        PROVE  s \in Made /\ node[s].tag = "schema" /\ ~OnStack(s) /\ node'[s] = node[s]
    BY <1>4, <2>3
  <2>4. ASSUME NEW t \in Made', node'[t].tag = "types", t # n
        PROVE  t \in Made /\ node[t].tag = "types"
    BY <1>4, <2>4
  <2>5. ASSUME NEW s \in Made, node[s].tag = "schema", s # 1, tag = "types"
        PROVE  FALSE
    <3>1. ~IsForeign(s)
      BY <2>5 DEF IsForeign, Foreign
    <3>2. node[s].above \in Made /\ node[s].tag \in Content(node[node[s].above].tag)
      BY <1>0, <2>5, <3>1 DEF NodesOK
    <3>3. node[node[s].above].tag \in Tags
      BY <1>0, <3>2, MembersLemma
    <3>4. node[node[s].above].tag = "types"
      BY <2>5, <3>2, <3>3, ContentLemma
    <3> QED
      BY <1>11, <2>5, <3>2, <3>4
  <2>6. ASSUME NEW t \in Made', node'[t].tag = "types", NEW ns \in Namespaces,
               schemas'[t][ns] # Nothing
        PROVE  /\ node'[schemas'[t][ns]].tag = "schema"
               /\ node'[schemas'[t][ns]].ns = ns
               /\ node'[schemas'[t][ns]].above = t
               /\ ~OnStack(schemas[t][ns])'
    <3>1. t # n
      BY <1>0, <1>1, <1>4, <2>6 DEF SchemasOK
    <3>2. t \in Made /\ node[t].tag = "types" /\ schemas' = schemas
      BY <1>1, <2>4, <2>6, <3>1
    <3>3. /\ node'[schemas[t][ns]].tag = "schema"
          /\ node'[schemas[t][ns]].ns = ns
          /\ node'[schemas[t][ns]].above = t
          /\ ~OnStack(schemas[t][ns])'
      BY <2>2, <2>6, <3>2
    <3> QED
      BY <3>2, <3>3
  <2>7. ASSUME NEW t \in Made', node'[t].tag = "types",
               NEW s \in Made', node'[s].tag = "schema", s # 1, ~OnStack(s)'
        PROVE  LET first == schemas'[t][node'[s].ns] IN
               /\ first # Nothing
               /\ \A x \in Names : table'[first][x] >= table'[s][x]
               /\ includes'[s] \subseteq includes'[first]
    <3>1. s \in Made /\ node[s].tag = "schema" /\ ~OnStack(s) /\ node'[s] = node[s]
      BY <2>3, <2>7
    <3>2. t # n
      BY <1>4, <2>5, <2>7, <3>1
    <3>3. t \in Made /\ node[t].tag = "types"
      BY <2>4, <2>7, <3>2
    <3> QED
      BY <1>0, <1>1, <2>7, <3>1, <3>3 DEF SchemasOK
  <2> QED
    BY <2>1, <2>6, <2>7 DEF SchemasOK
<1>21. RootOK'
  <2>1. ASSUME NEW t \in Made', node'[t].tag = "types", ~OnStack(t)', NEW ns \in Namespaces,
               schemas'[t][ns] # Nothing
        PROVE  schemas'[1][ns] = schemas'[t][ns]
    <3>1. t \in Made /\ node[t].tag = "types" /\ ~OnStack(t)
      BY <1>4, <2>1
    <3> QED
      BY <1>0, <1>1, <2>1, <3>1 DEF RootOK
  <2>2. ASSUME NEW i \in Made', NEW t \in Made', node'[i].tag = "import", OnStack(i)',
               node'[node'[i].above].tag = "definitions", node'[t].tag = "types"
        PROVE  FALSE
    <3>1. CASE i \in Made
      <4>1. OnStack(i) /\ node[i].tag = "import"
        BY <1>4, <2>2, <3>1
      <4>2. Last(doc).tag = "import"
        BY <1>1, <4>1, ImportLemma
      <4>3. Content("import") = {}
        <5>1. "import" \in Tags
          BY DEF Tags
        <5> QED
          BY <5>1, ContentLemma
      <4> QED
        BY <1>1, <4>2, <4>3
    <3>2. CASE i = n
      <4>1. tag = "import" /\ tag \notin Foreign
        BY <1>4, <2>2, <3>2 DEF Foreign
      <4>2. Last(doc).tag = "definitions"
        BY <1>2, <1>4, <1>7, <2>2, <3>2, <4>1
      <4> QED
        BY <1>4, <1>10, <2>2, <4>1, <4>2
    <3> QED
      BY <1>4, <3>1, <3>2
  <2>3. node'[1].tag = "schema" => schemas'[1][node'[1].ns] = 1
    BY <1>0, <1>1, <1>4, <1>12 DEF RootOK
  <2> QED
    BY <2>1, <2>2, <2>3 DEF RootOK
<1>22. DeclarationsAreFound' /\ (phase' = "start" => Blank')
  BY <1>1 DEF DeclarationsAreFound
<1> QED
  BY <1>6, <1>15, <1>16, <1>17, <1>18, <1>19, <1>20, <1>21, <1>22 DEF IInv, Parsing

---------------------------------------------------------------------------
(* A closing tag.                                                          *)

\* The types of what only a closing tag leaves alone.
LEMMA DocShrinks ==
  ASSUME IInv, phase = "parsing", doc' = Front(doc)
  PROVE  /\ doc' \in Seq([tag : Tags, id : Ids \cup {Nothing}, meaning : Bindings])
         /\ Len(doc') = Len(doc) - 1
         /\ \A k \in 1..(Len(doc) - 1) : doc'[k] = doc[k]
         /\ Len(doc) >= 2 => DocOK'
<1> DEFINE S == [tag : Tags, id : Ids \cup {Nothing}, meaning : Bindings]
           D == Len(doc)
           C == D - 1
<1>0. TypeOK /\ DocOK
  BY DEF IInv, Parsing
<1>1. doc \in Seq(S) /\ D \in Nat /\ D >= 1
  BY <1>0, PlaceLemma DEF TypeOK
<1> HIDE DEF S
<1>2. doc' \in Seq(S) /\ Len(doc') = C /\ \A k \in 1..C : doc'[k] = doc[k]
  BY <1>1, FrontLemma
<1>3. /\ D >= 2 => C >= 1 /\ 1 \in 1..C
      /\ \A k \in 1..C : k \in 1..D
      /\ \A k \in 2..C : k \in 2..D /\ k \in 1..C /\ k - 1 \in 1..C
      /\ C \in Nat
  <2>1. D \in Nat /\ D >= 1
    BY <1>1
  <2> HIDE DEF D
  <2> QED
    BY <2>1
<1> HIDE DEF C
<1>4. ASSUME D >= 2
      PROVE  DocOK'
  <2>1. doc'[1].tag \in {"definitions", "schema"} /\ C >= 1
    BY <1>0, <1>2, <1>3, <1>4 DEF DocOK
  <2>2. \A k \in 2..C : doc'[k].tag \in Content(doc'[k - 1].tag)
    BY <1>0, <1>2, <1>3 DEF DocOK
  <2>3. \A k, l \in 1..C : k < l /\ doc'[k].tag \in Foreign => doc'[l].tag \in Foreign
    BY <1>0, <1>2, <1>3 DEF DocOK
  <2> QED
    BY <1>2, <2>1, <2>2, <2>3 DEF DocOK
<1> QED
  BY <1>2, <1>4 DEF S, C

\* What Types refuses stops the parser.
LEMMA CloseFailsIInv ==
  ASSUME IInv, phase = "parsing", phase' = "failed", doc' = Front(doc),
         UNCHANGED <<node, stack, schemas, table, includes, xmlns, targets>>
  PROVE  IInv'
<1>1. TypeOK /\ NodesOK
  BY DEF IInv
<1>2. TypeOK'
  BY <1>1, DocShrinks DEF TypeOK, Made, Schemas
<1>3. NodesOK'
  BY <1>1 DEF NodesOK, Made, IsForeign
<1>4. /\ StackIsDocument' /\ DeclarationsAreFound'
      /\ phase' # "start" /\ phase' # "parsing"
  BY DEF StackIsDocument, DeclarationsAreFound
<1> QED
  BY <1>2, <1>3, <1>4 DEF IInv

\* What a table has are numbers.
LEMMA TableLemma ==
  ASSUME TypeOK
  PROVE  \A s \in Ids, x \in Names : table[s][x] \in Nat
<1> DEFINE S == Made \cup {Nothing}
<1>1. table \in [Ids -> [Names -> S]]
  BY DEF TypeOK
<1>2. \A j \in S : j \in Nat
  BY MembersLemma, ConstantsLemma
<1> HIDE DEF S
<1> QED
  BY <1>1, <1>2

\* What `schemas' holds are elements.
LEMMA SchemasLemma ==
  ASSUME TypeOK
  PROVE  \A s \in Ids, ns \in Namespaces : schemas[s][ns] \in Made \cup {Nothing}
                                        /\ schemas[s][ns] \in Ids \cup {Nothing}
<1> DEFINE S == Schemas \cup {Nothing}
<1>1. schemas \in [Ids -> [Namespaces -> S]]
  BY DEF TypeOK
<1>2. \A j \in S : j \in Made \cup {Nothing} /\ j \in Ids \cup {Nothing}
  BY MembersLemma DEF Schemas
<1> HIDE DEF S
<1> QED
  BY <1>1, <1>2

\* When only the root is open, all is told: what the definitions know of each
\* namespace.
LEMMA DoneLemma ==
  ASSUME IInv, phase = "parsing", Len(doc) = 1, NEW ns \in Namespaces
  PROVE  LET known == schemas[1][ns] IN
         /\ \A i \in Written(ns, "component") :
              /\ known # Nothing
              /\ table[known][node[i].name] \in Written(ns, "component")
              /\ table[known][node[i].name] >= i
         /\ \A i \in Written(ns, "import") : known # Nothing /\ i \in includes[known]
<1> USE ConstantsLemma
<1> DEFINE known == schemas[1][ns]
<1>0. TypeOK /\ NodesOK /\ StackOK /\ TablesOK /\ SchemasOK /\ RootOK
  BY DEF IInv, Parsing
<1>1. \A i : OnStack(i) => i = 1
  <2>1. Len(stack) = 1
    <3> DEFINE L == Len(stack)
    <3>1. L \in Nat /\ L >= 1 /\ L <= 1
      BY PlaceLemma
    <3> HIDE DEF L
    <3>2. L = 1
      BY <3>1
    <3> QED
      BY <3>2 DEF L
  <2> QED
    BY <1>0, <2>1 DEF OnStack, StackOK
<1>2. ASSUME NEW tag \in {"component", "import"}, NEW i \in Written(ns, tag)
      PROVE  LET s == node[i].above IN
             /\ i \in Made /\ i # 1 /\ ~IsForeign(i) /\ ~OnStack(i) /\ node[i].tag = tag
             /\ s \in Made /\ node[s].tag = "schema" /\ node[s].ns = ns
             /\ known # Nothing /\ known \in Ids /\ node[known].ns = ns
             /\ \A x \in Names : table[known][x] >= table[s][x]
             /\ includes[s] \subseteq includes[known]
  <2> DEFINE s == node[i].above
  <2>1. /\ i \in Made /\ node[i].tag = tag /\ s # Nothing
        /\ node[s].tag = "schema" /\ node[s].ns = ns
    BY DEF Written
  <2>2. i # 1 /\ ~IsForeign(i) /\ s \in Made
    BY <1>0, <2>1 DEF NodesOK, IsForeign, Foreign
  <2>3. \A k \in Ids, x \in Names : table[k][x] \in Nat
    BY <1>0, TableLemma
  <2>4. CASE s = 1
    <3>1. known = 1
      BY <1>0, <2>1, <2>4 DEF RootOK
    <3>2. \A x \in Names : table[known][x] >= table[s][x]
      BY <2>3, <2>4, <3>1
    <3> QED
      BY <1>1, <2>1, <2>2, <2>4, <3>1, <3>2
  <2>5. CASE s # 1
    <3> DEFINE t == node[s].above
    <3>1. t \in Made /\ node[s].tag \in Content(node[t].tag)
      BY <1>0, <2>1, <2>2, <2>5 DEF NodesOK, IsForeign, Foreign
    <3>2. node[t].tag \in Tags
      BY <1>0, <3>1, MembersLemma
    <3>3. node[t].tag = "types"
      BY <2>1, <3>1, <3>2, ContentLemma
    <3>4. t # 1
      BY <1>0, <3>1, <3>3 DEF NodesOK
    <3>5. ~OnStack(t) /\ ~OnStack(s) /\ ~OnStack(i)
      BY <1>1, <2>2, <2>5, <3>4
    <3> HIDE DEF t
    <3>6. LET first == schemas[t][node[s].ns] IN
          /\ first # Nothing
          /\ \A x \in Names : table[first][x] >= table[s][x]
          /\ includes[s] \subseteq includes[first]
      BY <1>0, <2>1, <2>2, <2>5, <3>1, <3>3, <3>5 DEF SchemasOK
    <3>7. schemas[1][ns] = schemas[t][ns]
      BY <1>0, <2>1, <3>1, <3>3, <3>5, <3>6 DEF RootOK
    <3>8. node[schemas[t][ns]].ns = ns
      BY <1>0, <2>1, <3>1, <3>3, <3>6 DEF SchemasOK
    <3>9. schemas[t][ns] \in Ids
      <4>1. schemas \in [Ids -> [Namespaces -> Schemas \cup {Nothing}]]
        BY <1>0 DEF TypeOK
      <4>2. t \in Ids /\ Made \subseteq Ids
        BY <1>0, <3>1, MembersLemma
      <4>3. schemas[t][ns] \in Schemas \cup {Nothing} /\ schemas[t][ns] # Nothing
        BY <2>1, <3>6, <4>1, <4>2
      <4> QED
        BY <4>2, <4>3 DEF Schemas
    <3> QED
      BY <2>1, <2>2, <3>5, <3>6, <3>7, <3>8, <3>9
  <2> QED
    BY <2>4, <2>5
<1>3. \A i \in Made : node[i].name \in Names
  BY <1>0, MembersLemma
<1>4. \A k \in Ids, x \in Names : table[k][x] \in Nat
  BY <1>0, TableLemma
<1> HIDE DEF known
<1>5. ASSUME NEW i \in Written(ns, "component")
      PROVE  /\ known # Nothing
             /\ table[known][node[i].name] \in Written(ns, "component")
             /\ table[known][node[i].name] >= i
  <2> DEFINE s == node[i].above
             x == node[i].name
  <2>1. /\ i \in Made /\ i # 1 /\ ~IsForeign(i) /\ ~OnStack(i) /\ node[i].tag = "component"
        /\ s \in Made /\ node[s].tag = "schema"
        /\ known # Nothing /\ known \in Ids /\ node[known].ns = ns
        /\ x \in Names
        /\ table[known][x] >= table[s][x]
    BY <1>2, <1>3
  <2>2. table[s][x] >= i
    BY <1>0, <2>1 DEF TablesOK
  <2>3. i \in Nat /\ i >= 1 /\ s \in Ids
    BY <1>0, <2>1, MembersLemma DEF Ids
  <2> HIDE DEF s, x
  <2>4. table[known][x] >= i /\ table[known][x] # Nothing
    <3> DEFINE e == table[s][x]
               f == table[known][x]
    <3>1. e \in Nat /\ f \in Nat
      BY <1>4, <2>1, <2>3
    <3>2. f >= e /\ e >= i
      BY <2>1, <2>2
    <3> HIDE DEF e, f
    <3>3. f >= i /\ f # Nothing
      BY <2>3, <3>1, <3>2
    <3> QED
      BY <3>3 DEF f
  <2>5. table[known][x] \in Written(ns, "component")
    BY <1>0, <2>1, <2>4 DEF TablesOK
  <2> QED
    BY <2>1, <2>4, <2>5 DEF x
<1>6. ASSUME NEW i \in Written(ns, "import")
      PROVE  known # Nothing /\ i \in includes[known]
  <2> DEFINE s == node[i].above
  <2>1. /\ i \in Made /\ i # 1 /\ ~IsForeign(i) /\ ~OnStack(i) /\ node[i].tag = "import"
        /\ node[s].tag = "schema"
        /\ known # Nothing
        /\ includes[s] \subseteq includes[known]
    BY <1>2
  <2>2. i \in includes[s]
    BY <1>0, <2>1 DEF TablesOK
  <2> QED
    BY <2>1, <2>2
<1> QED
  BY <1>5, <1>6 DEF known

\* The tag of a foreign element that made no object changes nothing, and the
\* one of the root ends the document.
LEMMA CloseStaysIInv ==
  ASSUME IInv, phase = "parsing", ~Ends(Last(doc).tag), doc' = Front(doc),
         phase' = IF Len(doc) = 1 THEN "done" ELSE phase,
         UNCHANGED <<node, stack, schemas, table, includes, xmlns, targets>>
  PROVE  IInv'
<1> DEFINE D == Len(doc)
           C == D - 1
           L == Len(stack)
<1>0. TypeOK /\ NodesOK /\ DocOK /\ StackOK /\ TablesOK /\ SchemasOK /\ RootOK /\ StackIsDocument
  BY DEF IInv, Parsing
<1>1. TypeOK'
  BY <1>0, DocShrinks DEF TypeOK, Made, Schemas
<1>2. NodesOK'
  BY <1>0 DEF NodesOK, Made, IsForeign
<1>3. CASE D = 1
  <2>1. phase' = "done"
    BY <1>3
  <2>2. DeclarationsAreFound'
    <3> SUFFICES ASSUME NEW ns \in Namespaces
                 PROVE  LET known == schemas[1][ns] IN
                        /\ \A i \in Written(ns, "component") :
                             /\ known # Nothing
                             /\ table[known][node[i].name] \in Written(ns, "component")
                             /\ table[known][node[i].name] >= i
                        /\ \A i \in Written(ns, "import") :
                             known # Nothing /\ i \in includes[known]
      BY DEF DeclarationsAreFound, Written, Made
    <3> QED
      BY <1>3, DoneLemma
  <2>3. StackIsDocument'
    BY <2>1 DEF StackIsDocument
  <2> QED
    BY <1>1, <1>2, <2>1, <2>2, <2>3 DEF IInv
<1>4. CASE D # 1
  <2>1. /\ D \in Nat /\ D >= 2 /\ L \in Nat /\ L >= 1 /\ L <= D /\ phase' = "parsing"
        /\ Last(doc) = doc[D] /\ Last(stack) = stack[L]
        /\ doc[D].tag \notin Foreign => L = D /\ node[stack[L]].tag = doc[D].tag
    <3>1. /\ D \in Nat /\ D >= 1 /\ L \in Nat /\ L >= 1 /\ L <= D
          /\ Last(doc) = doc[D] /\ Last(stack) = stack[L]
          /\ doc[D].tag \notin Foreign => L = D /\ node[stack[L]].tag = doc[D].tag
      BY PlaceLemma
    <3>2. phase' = "parsing"
      BY <1>4
    <3>3. D >= 2
      <4> HIDE DEF D
      <4> QED
        BY <1>4, <3>1
    <3> QED
      BY <3>1, <3>2, <3>3
  <2>2. doc[D].tag \in Foreign /\ (L >= 2 => node[stack[L]].tag # doc[D].tag)
    BY <2>1 DEF Ends
  <2>3. /\ Len(doc') = C
        /\ \A k \in 1..C : doc'[k] = doc[k]
        /\ DocOK'
    BY <2>1, DocShrinks
  <2>4. /\ \A k \in 1..C : k \in 1..D
        /\ \A k \in 1..D : k = D \/ k \in 1..C
        /\ \A k \in 1..L : \A l \in k..D : l = D \/ (l \in k..C /\ l \in 1..C)
        /\ \A k \in 1..L : k <= D => k \in 1..D
        /\ \A k \in 1..C : k <= C
    <3>1. D \in Nat /\ D >= 2 /\ L \in Nat
      BY <2>1
    <3> HIDE DEF D, L
    <3> QED
      BY <3>1
  <2> HIDE DEF C
  <2>5. StackOK'
    <3>1. ASSUME NEW k \in 1..L, IsForeign(stack[k])
          PROVE  \E l \in k..C : doc'[l].tag = node[stack[k]].tag
      <4>1. k = L /\ k >= 2
        BY <1>0, <3>1 DEF StackOK
      <4>2. PICK l \in k..D : doc[l].tag = node[stack[k]].tag
        BY <1>0, <3>1 DEF StackOK
      <4>3. l # D
        BY <2>2, <4>1, <4>2
      <4>4. l \in k..C /\ l \in 1..C
        BY <2>4, <4>3
      <4> QED
        BY <2>3, <4>2, <4>4
    <3> QED
      BY <1>0, <2>3, <3>1 DEF StackOK, IsForeign, Made
  <2>6. StackIsDocument'
    <3>1. ASSUME NEW k \in 1..C, doc'[k].tag \notin Foreign
          PROVE  k <= L /\ stack[k] = doc'[k].id /\ node[stack[k]].tag = doc'[k].tag
      BY <1>0, <2>3, <2>4, <3>1 DEF StackIsDocument
    <3>2. ASSUME NEW k \in 1..L, node[stack[k]].tag \notin Foreign
          PROVE  k <= C /\ doc'[k].tag \notin Foreign
      <4>1. k <= D /\ doc[k].tag \notin Foreign
        BY <1>0, <3>2 DEF StackIsDocument
      <4>2. k \in 1..C
        BY <2>2, <2>4, <4>1
      <4> QED
        BY <2>3, <2>4, <4>1, <4>2
    <3> QED
      BY <2>3, <3>1, <3>2 DEF StackIsDocument
  <2>7. TablesOK' /\ SchemasOK' /\ RootOK'
    <3>1. TablesOK'
      BY <1>0 DEF TablesOK, Made, IsForeign, OnStack, Written
    <3>2. SchemasOK'
      BY <1>0 DEF SchemasOK, Made, OnStack
    <3>3. RootOK'
      BY <1>0 DEF RootOK, Made, OnStack
    <3> QED
      BY <3>1, <3>2, <3>3
  <2>8. DeclarationsAreFound' /\ (phase' = "start" => Blank')
    BY <2>1 DEF DeclarationsAreFound
  <2> QED
    BY <1>1, <1>2, <2>3, <2>5, <2>6, <2>7, <2>8 DEF IInv, Parsing
<1> QED
  BY <1>3, <1>4

\* The element that ends, and the one below it on the stack.
Popped(child, parent) ==
  /\ phase = "parsing" /\ phase' = "parsing" /\ node' = node
  /\ child \in Made /\ parent \in Made /\ child # 1
  /\ OnStack(child) /\ OnStack(parent) /\ child # parent
  /\ \A i : OnStack(i)' <=> OnStack(i) /\ i # child
  /\ \A c : OnStack(c) /\ c # child => MayHold(node[c].tag, node[child].tag)
  /\ \A c : OnStack(c) /\ c # child /\ c # parent => MayHold(node[c].tag, node[parent].tag)
  /\ ~IsForeign(parent)
  /\ ~IsForeign(child) =>
       /\ node[child].above = parent
       /\ parent < child
       /\ node[child].tag \in Content(node[parent].tag)

\* An element leaves the stack.
LEMMA PopLemma ==
  ASSUME IInv, phase = "parsing", phase' = "parsing", node' = node,
         Ends(Last(doc).tag), doc' = Front(doc), stack' = Front(stack)
  PROVE  /\ Popped(Last(stack), stack[Len(stack) - 1])
         /\ DocOK' /\ StackOK' /\ StackIsDocument' /\ NodesOK'
         /\ stack' \in Seq(Made')
<1> USE ConstantsLemma
<1> DEFINE D == Len(doc)
           C == D - 1
           L == Len(stack)
           P == L - 1
           child == stack[L]
           parent == stack[P]
<1>0. TypeOK /\ NodesOK /\ DocOK /\ StackOK /\ StackIsDocument
  BY DEF IInv, Parsing
<1>1. /\ D \in Nat /\ L \in Nat /\ L >= 2 /\ L <= D /\ Last(doc) = doc[D] /\ Last(stack) = child
      /\ node[child].tag = doc[D].tag
      /\ doc[D].tag \notin Foreign => L = D
      /\ \A k \in 1..L : ~IsForeign(stack[k]) => doc[k].tag = node[stack[k]].tag
  <2>1. /\ D \in Nat /\ L \in Nat /\ L <= D /\ Last(doc) = doc[D] /\ Last(stack) = child
        /\ doc[D].tag \notin Foreign => L = D
        /\ \A k \in 1..L : ~IsForeign(stack[k]) => doc[k].tag = node[stack[k]].tag
    BY PlaceLemma
  <2>2. L >= 2 /\ node[child].tag = doc[D].tag
    BY <2>1 DEF Ends
  <2> QED
    BY <2>1, <2>2
<1>2. /\ P \in 1..L /\ L \in 1..L /\ L \in 2..L /\ P # L /\ P < L /\ 1 \in 1..P /\ 1 \in 1..L
      /\ 1 < L /\ P >= 1 /\ P \in Nat /\ C \in Nat /\ D >= 2
      /\ \A k \in 1..P : k \in 1..L /\ k # L /\ k < L /\ k <= C /\ k \in 1..C /\ k \in 1..D
      /\ \A k \in 2..P : k \in 2..L /\ k \in 1..P /\ k - 1 \in 1..P
      /\ \A k \in 1..L : k \in 1..P \/ k = L
      /\ \A k \in 1..P : k < P \/ k = P
      /\ \A k \in 1..C : k \in 1..D /\ k # D
      /\ \A k \in Nat : k >= 1 /\ k <= L => k \in 1..L
      /\ \A k \in 1..P : k <= P
  <2>1. D \in Nat /\ L \in Nat /\ L >= 2 /\ L <= D
    BY <1>1
  <2> HIDE DEF D, L
  <2> QED
    BY <2>1
<1>3. /\ Len(doc') = C
      /\ \A k \in 1..C : doc'[k] = doc[k]
      /\ DocOK'
  BY <1>2, DocShrinks
<1>4. /\ stack' \in Seq(Made) /\ Len(stack') = P
      /\ \A k \in 1..P : stack'[k] = stack[k]
  <2>1. stack \in Seq(Made) /\ Len(stack) >= 1
    BY <1>0, <1>1 DEF TypeOK
  <2> QED
    BY <2>1, FrontLemma
<1>5. Made' = Made
  BY DEF Made
<1>6. /\ \A k \in 1..L : stack[k] \in Made
      /\ \A k, l \in 1..L : k < l => stack[k] < stack[l] /\ MayHold(node[stack[k]].tag, node[stack[l]].tag)
      /\ \A k \in 1..L : IsForeign(stack[k]) => k = L
      /\ \A k \in 2..L : ~IsForeign(stack[k]) => node[stack[k]].above = stack[k - 1]
      /\ stack[1] = 1
  BY <1>0 DEF StackOK
<1>17. Made \subseteq Nat
  BY <1>0, MembersLemma
<1>18. L - 1 = P
  OBVIOUS
<1> HIDE DEF D, C, L, P
<1>7. /\ child \in Made /\ parent \in Made /\ parent < child /\ child # 1 /\ child # parent
      /\ OnStack(child) /\ OnStack(parent) /\ ~IsForeign(parent)
  <2>1. child \in Made /\ parent \in Made /\ parent < child /\ stack[1] < child
        /\ ~IsForeign(parent)
    BY <1>2, <1>6
  <2>2. child \in Nat /\ parent \in Nat /\ 1 < child
    BY <1>6, <1>17, <2>1
  <2>3. OnStack(child) /\ OnStack(parent)
    BY <1>2 DEF OnStack, L
  <2> HIDE DEF child, parent
  <2> QED
    BY <2>1, <2>2, <2>3
<1>8. \A k \in 1..P : stack[k] # child
  <2> TAKE k \in 1..P
  <2>1. stack[k] \in Nat /\ child \in Nat /\ stack[k] < child
    BY <1>2, <1>6, <1>17
  <2> QED
    BY <2>1
<1>9. \A i : OnStack(i)' <=> OnStack(i) /\ i # child
  <2>1. \A i : OnStack(i) <=> \E k \in 1..L : stack[k] = i
    BY DEF OnStack, L
  <2>2. \A i : OnStack(i)' <=> \E k \in 1..P : stack'[k] = i
    BY <1>4 DEF OnStack
  <2> QED
    BY <1>2, <1>4, <1>8, <2>1, <2>2
<1>10. \A c : OnStack(c) /\ c # child => MayHold(node[c].tag, node[child].tag)
  <2>1. \A c : OnStack(c) <=> \E k \in 1..L : stack[k] = c
    BY DEF OnStack, L
  <2> QED
    BY <1>2, <1>6, <2>1
<1>11. \A c : OnStack(c) /\ c # child /\ c # parent => MayHold(node[c].tag, node[parent].tag)
  <2>1. \A c : OnStack(c) <=> \E k \in 1..L : stack[k] = c
    BY DEF OnStack, L
  <2> QED
    BY <1>2, <1>6, <2>1
<1>12. ~IsForeign(child) => node[child].above = parent /\ node[child].tag \in Content(node[parent].tag)
  <2>1. ~IsForeign(child) => node[child].above = parent
    BY <1>2, <1>6, <1>18
  <2> QED
    BY <1>0, <1>7, <2>1 DEF NodesOK
<1>13. Popped(Last(stack), stack[Len(stack) - 1])
  <2>1. Popped(child, parent)
    <3> HIDE DEF child, parent
    <3> QED
      BY <1>7, <1>9, <1>10, <1>11, <1>12 DEF Popped
  <2> QED
    BY <1>1, <2>1 DEF L, P
<1>14. StackOK'
  <2>1. \A k \in 1..P : stack'[k] \in Made'
    BY <1>2, <1>4, <1>5, <1>6
  <2>2. ASSUME NEW k \in 1..P, NEW l \in 1..P, k < l
        PROVE  stack'[k] < stack'[l] /\ MayHold(node'[stack'[k]].tag, node'[stack'[l]].tag)
    <3>1. stack'[k] = stack[k] /\ stack'[l] = stack[l] /\ k \in 1..L /\ l \in 1..L
      BY <1>2, <1>4
    <3>2. stack[k] < stack[l] /\ MayHold(node[stack[k]].tag, node[stack[l]].tag)
      BY <1>6, <2>2, <3>1
    <3> QED
      BY <3>1, <3>2
  <2>3. \A k \in 1..P : ~IsForeign(stack[k])'
    BY <1>2, <1>4, <1>6 DEF IsForeign
  <2>4. \A k \in 2..P : node'[stack'[k]].above = stack'[k - 1]
    BY <1>2, <1>4, <1>6
  <2>5. Len(stack') >= 1 /\ stack'[1] = 1
    BY <1>2, <1>4, <1>6
  <2> QED
    BY <1>4, <2>1, <2>2, <2>3, <2>4, <2>5 DEF StackOK
<1>15. StackIsDocument'
  <2>1. ASSUME NEW k \in 1..C, doc'[k].tag \notin Foreign
        PROVE  k <= P /\ stack'[k] = doc'[k].id /\ node'[stack'[k]].tag = doc'[k].tag
    <3>1. k \in 1..D /\ k # D /\ doc'[k] = doc[k]
      BY <1>2, <1>3
    <3>2. k <= L /\ stack[k] = doc[k].id /\ node[stack[k]].tag = doc[k].tag
      BY <1>0, <2>1, <3>1 DEF StackIsDocument, D, L
    <3>3. k \in 1..L
      BY <1>1, <3>1, <3>2
    <3>4. k # L
      <4>1. doc[D].tag \in Foreign => k # L
        BY <1>1, <2>1, <3>1, <3>2
      <4>2. doc[D].tag \notin Foreign => k # L
        BY <1>1, <3>1
      <4> QED
        BY <4>1, <4>2
    <3>5. k \in 1..P
      BY <1>2, <3>3, <3>4
    <3> QED
      BY <1>2, <1>4, <3>1, <3>2, <3>5
  <2>2. ASSUME NEW k \in 1..P, node'[stack'[k]].tag \notin Foreign
        PROVE  k <= C /\ doc'[k].tag \notin Foreign
    <3>1. k \in 1..L /\ k \in 1..C /\ k <= C /\ ~IsForeign(stack[k])
      BY <1>2, <1>4, <2>2 DEF IsForeign
    <3> QED
      BY <1>1, <1>3, <3>1 DEF IsForeign
  <2> QED
    BY <1>3, <1>4, <2>1, <2>2 DEF StackIsDocument
<1>16. NodesOK'
  BY <1>0, <1>5 DEF NodesOK, IsForeign
<1> QED
  BY <1>3, <1>4, <1>5, <1>13, <1>14, <1>15, <1>16

\* Where the schemas and the components are when an element ends.
LEMMA PoppedLemma ==
  ASSUME NEW child, NEW parent, Popped(child, parent)
  PROVE  /\ node[parent].tag \in {"definitions", "types", "schema"} =>
              \A c : OnStack(c)' => node[c].tag # "component"
         /\ node[parent].tag \in {"definitions", "types"} =>
              \A c : OnStack(c)' => node[c].tag # "schema"
         /\ node[parent].tag = "schema" =>
              \A c : OnStack(c)' /\ node[c].tag = "schema" => c = parent
<1> SUFFICES ASSUME NEW c, OnStack(c)', node[parent].tag \in {"definitions", "types", "schema"},
                    c # parent
             PROVE  node[c].tag \notin {"component", "schema"}
  OBVIOUS
<1>1. OnStack(c) /\ c # child
  BY DEF Popped
<1>2. MayHold(node[c].tag, node[parent].tag)
  BY <1>1 DEF Popped
<1> QED
  BY <1>2 DEF MayHold, Foreign

\* The bindings of the root are bindings still.
LEMMA HoistedLemma ==
  ASSUME TypeOK, StackOK, NEW child \in Ids
  PROVE  Hoisted(child) \in [Ids -> Bindings]
<1>1. xmlns \in [Ids -> Bindings] /\ stack[1] = 1 /\ 1 \in Ids
  BY ConstantsLemma DEF TypeOK, StackOK
<1>2. Over(xmlns[1], xmlns[child]) \in Bindings
  BY <1>1, OverLemma
<1> QED
  BY <1>1, <1>2 DEF Hoisted

\* The types, when an element has ended.
LEMMA PoppedTypes ==
  ASSUME TypeOK, NEW child, NEW parent, Popped(child, parent),
         stack' \in Seq(Made'),
         doc' \in Seq([tag : Tags, id : Ids \cup {Nothing}, meaning : Bindings]),
         xmlns' \in [Ids -> Bindings],
         schemas' \in [Ids -> [Namespaces -> Schemas \cup {Nothing}]],
         table' \in [Ids -> [Names -> Made \cup {Nothing}]],
         includes' \in [Ids -> SUBSET {i \in Made : node[i].tag = "import"}],
         targets' \subseteq Made
  PROVE  TypeOK'
<1>1. node' = node /\ phase' = "parsing"
  BY DEF Popped
<1>2. Made' = Made /\ Schemas' = Schemas
  BY <1>1 DEF Made, Schemas
<1> QED
  BY <1>1, <1>2 DEF TypeOK

\* When a foreign element ends, or one that is in no table, all that was known
\* is known.
LEMMA UnchangedLemma ==
  ASSUME IInv, NEW child, NEW parent, Popped(child, parent),
         table' = table, includes' = includes, schemas' = schemas,
         node[child].tag \notin {"schema", "types"},
         IsForeign(child) \/ node[parent].tag # "schema"
  PROVE  TablesOK' /\ SchemasOK' /\ RootOK'
<1>0. TablesOK /\ SchemasOK /\ RootOK
  BY DEF IInv, Parsing, Popped
<1>1. /\ node' = node /\ Made' = Made
      /\ \A i : OnStack(i)' <=> OnStack(i) /\ i # child
      /\ ~IsForeign(child) => node[child].above = parent
      /\ \A i : IsForeign(i)' <=> IsForeign(i)
      /\ \A ns, tag : Written(ns, tag)' = Written(ns, tag)
  BY DEF Popped, Made, IsForeign, Written
<1>2. TablesOK'
  <2>1. ASSUME NEW s \in Ids, NEW x \in Names, table[s][x] # Nothing
        PROVE  /\ s \in Made' /\ node'[s].tag = "schema"
               /\ table'[s][x] \in Written(node[s].ns, "component")'
               /\ node'[table'[s][x]].name = x
    <3>1. /\ s \in Made /\ node[s].tag = "schema"
          /\ table[s][x] \in Written(node[s].ns, "component")
          /\ node[table[s][x]].name = x
      BY <1>0, <2>1 DEF TablesOK
    <3> QED
      BY <1>1, <3>1 DEF Written
  <2>2. ASSUME NEW i \in Made, i # 1, ~IsForeign(i), ~OnStack(i)', node[node[i].above].tag = "schema"
        PROVE  /\ node[i].tag = "component" => table[node[i].above][node[i].name] >= i
               /\ node[i].tag = "import" => i \in includes[node[i].above]
    <3>1. i # child
      BY <1>1, <2>2
    <3> QED
      BY <1>0, <1>1, <2>2, <3>1 DEF TablesOK
  <2> QED
    BY <1>0, <1>1, <2>1, <2>2 DEF TablesOK
<1>3. SchemasOK'
  BY <1>0, <1>1 DEF SchemasOK
<1>4. RootOK'
  BY <1>0, <1>1 DEF RootOK
<1> QED
  BY <1>2, <1>3, <1>4

\* What the variables are after addChild, the bindings, the stack and the
\* document aside.
Added ==
  /\ TablesOK' /\ SchemasOK' /\ RootOK'
  /\ schemas' \in [Ids -> [Namespaces -> Schemas \cup {Nothing}]]
  /\ table' \in [Ids -> [Names -> Made \cup {Nothing}]]
  /\ includes' \in [Ids -> SUBSET {i \in Made : node[i].tag = "import"}]
  /\ targets' \subseteq Made

\* addChild of Definitions: Types ends with all schemas known to it, and an
\* import ends before it.
LEMMA DefinitionsLemma ==
  ASSUME IInv, NEW child, NEW parent, Popped(child, parent),
         node[parent].tag = "definitions", AddToDefinitions(parent, child)
  PROVE  Added
<1> USE ConstantsLemma
<1>0. TypeOK /\ NodesOK /\ StackOK /\ TablesOK /\ SchemasOK /\ RootOK
  BY DEF IInv, Parsing, Popped
<1>1. /\ node' = node /\ Made' = Made
      /\ child \in Made /\ parent \in Made /\ child # 1 /\ OnStack(child)
      /\ \A i : OnStack(i)' <=> OnStack(i) /\ i # child
      /\ ~IsForeign(parent)
      /\ ~IsForeign(child) => /\ node[child].above = parent
                              /\ node[child].tag \in Content(node[parent].tag)
      /\ \A i : IsForeign(i)' <=> IsForeign(i)
      /\ \A ns, tag : Written(ns, tag)' = Written(ns, tag)
  BY DEF Popped, Made, IsForeign, Written
<1>2. Made \subseteq Ids /\ node[child].ns \in Namespaces
  BY <1>0, <1>1, MembersLemma
<1>3. parent = 1
  <2> SUFFICES ASSUME parent # 1
               PROVE  FALSE
    OBVIOUS
  <2>1. node[parent].above \in Made /\ node[parent].tag \in Content(node[node[parent].above].tag)
    BY <1>0, <1>1 DEF NodesOK
  <2>2. node[node[parent].above].tag \in Tags
    BY <1>0, <2>1, MembersLemma
  <2> QED
    BY <2>1, <2>2, ContentLemma
<1>4. /\ schemas \in [Ids -> [Namespaces -> Schemas \cup {Nothing}]]
      /\ table \in [Ids -> [Names -> Made \cup {Nothing}]]
      /\ includes \in [Ids -> SUBSET {i \in Made : node[i].tag = "import"}]
      /\ targets \subseteq Made
  BY <1>0 DEF TypeOK
<1>5. table' = table /\ targets' = targets
  BY DEF AddToDefinitions
<1>6. CASE node[child].tag \notin {"types", "import"}
  <2>1. schemas' = schemas /\ includes' = includes
    BY <1>6 DEF AddToDefinitions
  <2>2. node[child].tag # "schema"
    <3>1. "definitions" \in Tags /\ "definitions" # "types"
      BY DEF Tags
    <3>2. "schema" \notin Content("definitions")
      BY <3>1, ContentLemma
    <3> QED
      BY <1>1, <3>2 DEF IsForeign, Foreign
  <2>3. TablesOK' /\ SchemasOK' /\ RootOK'
    BY <1>5, <1>6, <2>1, <2>2, UnchangedLemma
  <2> QED
    BY <1>4, <1>5, <2>1, <2>3 DEF Added
<1>7. CASE node[child].tag = "types"
  <2> DEFINE known == [ns \in Namespaces |->
                         IF schemas[child][ns] # Nothing THEN schemas[child][ns] ELSE schemas[1][ns]]
  <2>1. schemas' = [schemas EXCEPT ![1] = known] /\ includes' = includes
    BY <1>3, <1>4, <1>7 DEF AddToDefinitions
  <2>2. known \in [Namespaces -> Schemas \cup {Nothing}]
    BY <1>1, <1>2, <1>4
  <2>3. \A ns \in Namespaces : schemas[child][ns] # Nothing => known[ns] = schemas[child][ns]
    OBVIOUS
  <2> HIDE DEF known
  <2>4. /\ schemas' \in [Ids -> [Namespaces -> Schemas \cup {Nothing}]]
        /\ schemas'[1] = known
        /\ \A s \in Ids : s # 1 => schemas'[s] = schemas[s]
    BY <1>4, <2>1, <2>2
  <2>5. \A t \in Made : node[t].tag = "types" => t = child /\ t # 1
    BY <1>0, <1>1, <1>7 DEF NodesOK
  <2>6. TablesOK'
    <3>1. ASSUME NEW s \in Ids, NEW x \in Names, table[s][x] # Nothing
          PROVE  /\ s \in Made' /\ node'[s].tag = "schema"
                 /\ table'[s][x] \in Written(node[s].ns, "component")'
                 /\ node'[table'[s][x]].name = x
      <4>1. /\ s \in Made /\ node[s].tag = "schema"
            /\ table[s][x] \in Written(node[s].ns, "component")
            /\ node[table[s][x]].name = x
        BY <1>0, <3>1 DEF TablesOK
      <4> QED
        BY <1>1, <1>5, <4>1 DEF Written
    <3>2. ASSUME NEW i \in Made, i # 1, ~IsForeign(i), ~OnStack(i)', node[node[i].above].tag = "schema"
          PROVE  /\ node[i].tag = "component" => table[node[i].above][node[i].name] >= i
                 /\ node[i].tag = "import" => i \in includes[node[i].above]
      <4>1. i # child
        BY <1>1, <3>2
      <4> QED
        BY <1>0, <1>1, <3>2, <4>1 DEF TablesOK
    <3> QED
      BY <1>0, <1>1, <1>5, <2>1, <3>1, <3>2 DEF TablesOK
  <2>7. SchemasOK'
    <3>1. \A s \in Ids \ Made, ns \in Namespaces : schemas'[s][ns] = Nothing
      <4>1. 1 \in Made
        BY <1>1, <1>3
      <4> QED
        BY <1>0, <2>4, <4>1 DEF SchemasOK
    <3>2. schemas'[child] = schemas[child] /\ child \in Made /\ node[child].tag = "types"
      BY <1>1, <1>2, <1>7, <2>4
    <3>3. \A ns \in Namespaces :
            schemas'[child][ns] # Nothing =>
              /\ node'[schemas'[child][ns]].tag = "schema"
              /\ node'[schemas'[child][ns]].ns = ns
              /\ node'[schemas'[child][ns]].above = child
              /\ ~OnStack(schemas[child][ns])'
      <4>1. \A ns \in Namespaces :
            schemas[child][ns] # Nothing =>
              /\ node[schemas[child][ns]].tag = "schema"
              /\ node[schemas[child][ns]].ns = ns
              /\ node[schemas[child][ns]].above = child
              /\ ~OnStack(schemas[child][ns])
        BY <1>0, <3>2 DEF SchemasOK
      <4> QED
        BY <1>1, <3>2, <4>1
    <3>4. ASSUME NEW s \in Made, node[s].tag = "schema", s # 1, ~OnStack(s)'
          PROVE  LET first == schemas[child][node[s].ns] IN
                 /\ first # Nothing
                 /\ \A x \in Names : table[first][x] >= table[s][x]
                 /\ includes[s] \subseteq includes[first]
      <4>1. ~OnStack(s)
        BY <1>1, <1>7, <3>4
      <4> QED
        BY <1>0, <3>2, <3>4, <4>1 DEF SchemasOK
    <3> QED
      BY <1>1, <1>5, <2>1, <2>5, <3>1, <3>2, <3>3, <3>4 DEF SchemasOK
  <2>8. RootOK'
    <3>1. \A ns \in Namespaces : schemas'[child][ns] # Nothing => schemas'[1][ns] = schemas'[child][ns]
      BY <1>1, <1>2, <2>3, <2>4
    <3>2. node'[1].tag # "schema"
      BY <1>1, <1>3
    <3> QED
      BY <1>0, <1>1, <2>5, <3>1, <3>2 DEF RootOK
  <2> QED
    BY <1>4, <1>5, <2>1, <2>4, <2>6, <2>7, <2>8 DEF Added
<1>8. CASE node[child].tag = "import"
  <2> DEFINE ns0 == node[child].ns
             known == [schemas[1] EXCEPT ![ns0] = child]
  <2>1. schemas' = [schemas EXCEPT ![1] = known] /\ includes' = [includes EXCEPT ![child] = {child}]
    BY <1>3, <1>8 DEF AddToDefinitions
  <2>2. known \in [Namespaces -> Schemas \cup {Nothing}]
    <3>1. child \in Schemas
      BY <1>1, <1>8 DEF Schemas
    <3> QED
      BY <1>2, <1>4, <3>1
  <2> HIDE DEF known
  <2>3. /\ schemas' \in [Ids -> [Namespaces -> Schemas \cup {Nothing}]]
        /\ \A s \in Ids : s # 1 => schemas'[s] = schemas[s]
    BY <1>4, <2>1, <2>2
  <2>4. /\ includes' \in [Ids -> SUBSET {i \in Made : node[i].tag = "import"}]
        /\ \A s \in Ids : s # child => includes'[s] = includes[s]
    BY <1>1, <1>2, <1>4, <1>8, <2>1
  <2>5. \A t \in Made : node[t].tag # "types"
    <3>1. ~IsForeign(child)
      BY <1>8 DEF IsForeign, Foreign
    <3> QED
      BY <1>0, <1>1, <1>8, <3>1 DEF RootOK
  <2>6. TablesOK'
    <3>1. ASSUME NEW s \in Ids, NEW x \in Names, table[s][x] # Nothing
          PROVE  /\ s \in Made' /\ node'[s].tag = "schema"
                 /\ table'[s][x] \in Written(node[s].ns, "component")'
                 /\ node'[table'[s][x]].name = x
      <4>1. /\ s \in Made /\ node[s].tag = "schema"
            /\ table[s][x] \in Written(node[s].ns, "component")
            /\ node[table[s][x]].name = x
        BY <1>0, <3>1 DEF TablesOK
      <4> QED
        BY <1>1, <1>5, <4>1 DEF Written
    <3>2. ASSUME NEW i \in Made, i # 1, ~IsForeign(i), ~OnStack(i)', node[node[i].above].tag = "schema"
          PROVE  /\ node[i].tag = "component" => table[node[i].above][node[i].name] >= i
                 /\ node[i].tag = "import" => i \in includes'[node[i].above]
      <4>1. i # child
        BY <1>1, <3>2
      <4>2. node[i].above # child /\ node[i].above \in Ids
        BY <1>0, <1>2, <1>8, <3>2 DEF NodesOK
      <4> QED
        BY <1>0, <1>1, <2>4, <3>2, <4>1, <4>2 DEF TablesOK
    <3> QED
      BY <1>0, <1>1, <1>5, <3>1, <3>2 DEF TablesOK
  <2>7. SchemasOK'
    <3>1. \A s \in Ids \ Made, ns \in Namespaces : schemas'[s][ns] = Nothing
      <4>1. 1 \in Made
        BY <1>1, <1>3
      <4> QED
        BY <1>0, <2>3, <4>1 DEF SchemasOK
    <3> QED
      BY <1>1, <2>5, <3>1 DEF SchemasOK
  <2>8. RootOK'
    <3>1. node'[1].tag # "schema"
      BY <1>1, <1>3
    <3> QED
      BY <1>1, <2>5, <3>1 DEF RootOK
  <2> QED
    BY <1>4, <1>5, <2>3, <2>4, <2>6, <2>7, <2>8 DEF Added
<1> QED
  BY <1>6, <1>7, <1>8

\* addChild of Schema: its table has the component that ended last, which is
\* the newest one that it knows.
LEMMA SchemaLemma ==
  ASSUME IInv, NEW child, NEW parent, Popped(child, parent),
         node[parent].tag = "schema", AddToSchema(parent, child)
  PROVE  Added
<1> USE ConstantsLemma
<1> DEFINE name == node[child].name
<1>0. TypeOK /\ NodesOK /\ StackOK /\ TablesOK /\ SchemasOK /\ RootOK
  BY DEF IInv, Parsing, Popped
<1>1. /\ node' = node /\ Made' = Made
      /\ child \in Made /\ parent \in Made /\ child # 1 /\ OnStack(child) /\ OnStack(parent)
      /\ child # parent
      /\ \A i : OnStack(i)' <=> OnStack(i) /\ i # child
      /\ ~IsForeign(child) => /\ node[child].above = parent
                              /\ parent < child
                              /\ node[child].tag \in Content(node[parent].tag)
      /\ \A i : IsForeign(i)' <=> IsForeign(i)
      /\ \A ns, tag : Written(ns, tag)' = Written(ns, tag)
  BY DEF Popped, Made, IsForeign, Written
<1>2. Made \subseteq Ids /\ Made \subseteq Nat /\ Nothing \notin Made /\ name \in Names
  BY <1>0, <1>1, MembersLemma
<1>3. /\ \A c : OnStack(c)' => node[c].tag # "component"
      /\ \A c : OnStack(c)' /\ node[c].tag = "schema" => c = parent
      /\ OnStack(parent)'
  BY <1>1, PoppedLemma
<1>4. /\ schemas \in [Ids -> [Namespaces -> Schemas \cup {Nothing}]]
      /\ table \in [Ids -> [Names -> Made \cup {Nothing}]]
      /\ includes \in [Ids -> SUBSET {i \in Made : node[i].tag = "import"}]
      /\ targets \subseteq Made
  BY <1>0 DEF TypeOK
<1>5. schemas' = schemas /\ targets' = targets
  BY DEF AddToSchema
<1>6. \A s, k : (node[s].tag = "schema" /\ ~OnStack(s)') => s # parent
  BY <1>3
<1>7. ASSUME node[child].tag # "types"
      PROVE  RootOK'
  BY <1>0, <1>1, <1>5, <1>7 DEF RootOK
<1>8. \A t \in Made, ns \in Namespaces :
        node[t].tag = "types" /\ schemas[t][ns] # Nothing =>
          schemas[t][ns] # parent /\ schemas[t][ns] \in Ids
  <2>1. \A t \in Made, ns \in Namespaces :
          node[t].tag = "types" /\ schemas[t][ns] # Nothing => ~OnStack(schemas[t][ns])
    BY <1>0 DEF SchemasOK
  <2>2. \A t \in Made, ns \in Namespaces : schemas[t][ns] \in Ids \cup {Nothing}
    BY <1>0, <1>2, SchemasLemma
  <2> QED
    BY <1>1, <2>1, <2>2
<1> HIDE DEF name
<1>9. ASSUME \A s \in Ids : s # parent => table'[s] = table[s] /\ includes'[s] = includes[s]
      PROVE  SchemasOK'
  <2>1. \A s \in Ids \ Made, ns \in Namespaces : schemas'[s][ns] = Nothing
    BY <1>0, <1>5 DEF SchemasOK
  <2>2. ASSUME NEW t \in Made, node[t].tag = "types", NEW ns \in Namespaces, schemas'[t][ns] # Nothing
        PROVE  /\ node'[schemas'[t][ns]].tag = "schema"
               /\ node'[schemas'[t][ns]].ns = ns
               /\ node'[schemas'[t][ns]].above = t
               /\ ~OnStack(schemas[t][ns])'
    BY <1>0, <1>1, <1>5, <2>2 DEF SchemasOK
  <2>3. ASSUME NEW t \in Made, node[t].tag = "types",
               NEW s \in Made, node[s].tag = "schema", s # 1, ~OnStack(s)'
        PROVE  LET first == schemas[t][node[s].ns] IN
               /\ first # Nothing
               /\ \A x \in Names : table'[first][x] >= table'[s][x]
               /\ includes'[s] \subseteq includes'[first]
    <3> DEFINE first == schemas[t][node[s].ns]
    <3>1. node[s].ns \in Namespaces
      BY <1>0, MembersLemma
    <3>2. s # parent /\ s \in Ids
      BY <1>2, <1>6, <2>3
    <3>3. CASE s # child
      <4>1. ~OnStack(s)
        BY <1>1, <2>3, <3>3
      <4>2. /\ first # Nothing
            /\ \A x \in Names : table[first][x] >= table[s][x]
            /\ includes[s] \subseteq includes[first]
        BY <1>0, <2>3, <4>1 DEF SchemasOK
      <4>3. first # parent /\ first \in Ids
        BY <1>8, <2>3, <3>1, <4>2
      <4> QED
        BY <1>9, <3>2, <4>2, <4>3
    <3>4. CASE s = child
      <4>1. ~IsForeign(child)
        BY <2>3, <3>4 DEF IsForeign, Foreign
      <4>2. "schema" \in Content("schema")
        BY <1>1, <2>3, <3>4, <4>1
      <4>3. "schema" \in Tags
        BY DEF Tags
      <4> QED
        BY <4>2, <4>3, ContentLemma
    <3> QED
      BY <3>3, <3>4
  <2> QED
    BY <1>1, <1>5, <2>1, <2>2, <2>3 DEF SchemasOK
<1>10. CASE node[child].tag \notin {"component", "import"}
  <2>1. table' = table /\ includes' = includes
    BY <1>10 DEF AddToSchema
  <2>2. IsForeign(child)
    <3> SUFFICES ASSUME ~IsForeign(child)
                 PROVE  FALSE
      OBVIOUS
    <3>1. node[child].tag \in Content("schema")
      BY <1>1
    <3> QED
      BY <1>10, <3>1 DEF Content, Foreign
  <2>3. node[child].tag \notin {"schema", "types"}
    BY <2>2 DEF IsForeign, Foreign
  <2>4. TablesOK' /\ SchemasOK' /\ RootOK'
    BY <1>5, <2>1, <2>2, <2>3, UnchangedLemma
  <2> QED
    BY <1>4, <1>5, <2>1, <2>4 DEF Added
<1>11. CASE node[child].tag = "component"
  <2> DEFINE known == [table[parent] EXCEPT ![name] = child]
  <2>1. table' = [table EXCEPT ![parent] = known] /\ includes' = includes
    BY <1>11 DEF AddToSchema, name
  <2>2. known \in [Names -> Made \cup {Nothing}]
    BY <1>1, <1>2, <1>4
  <2>3. known[name] = child /\ \A x \in Names : x # name => known[x] = table[parent][x]
    BY <1>1, <1>2, <1>4
  <2> HIDE DEF known
  <2>4. /\ table' \in [Ids -> [Names -> Made \cup {Nothing}]]
        /\ table'[parent] = known
        /\ \A s \in Ids : s # parent => table'[s] = table[s]
    BY <1>1, <1>2, <1>4, <2>1, <2>2
  <2>5. ~IsForeign(child) /\ node[child].above = parent /\ parent < child
    BY <1>1, <1>11 DEF IsForeign, Foreign
  <2>6. \A s \in Ids, x \in Names : table[s][x] < child /\ table[s][x] \in Nat
    BY <1>0, <1>1, <1>11, TableLemma DEF TablesOK
  <2>7. TablesOK'
    <3>1. ASSUME NEW s \in Ids, NEW x \in Names, table'[s][x] # Nothing
          PROVE  /\ s \in Made' /\ node'[s].tag = "schema"
                 /\ table'[s][x] \in Written(node[s].ns, "component")'
                 /\ node'[table'[s][x]].name = x
      <4>1. CASE s = parent /\ x = name
        <5>1. table'[s][x] = child
          BY <2>3, <2>4, <4>1
        <5>2. child \in Written(node[s].ns, "component")
          BY <1>1, <1>2, <1>11, <2>5, <4>1 DEF Written
        <5> QED
          BY <1>1, <4>1, <5>1, <5>2 DEF Written, name
      <4>2. CASE ~(s = parent /\ x = name)
        <5>1. table'[s][x] = table[s][x]
          BY <2>3, <2>4, <4>2
        <5>2. /\ s \in Made /\ node[s].tag = "schema"
              /\ table[s][x] \in Written(node[s].ns, "component")
              /\ node[table[s][x]].name = x
          BY <1>0, <3>1, <5>1 DEF TablesOK
        <5> QED
          BY <1>1, <5>1, <5>2 DEF Written
      <4> QED
        BY <4>1, <4>2
    <3>2. ASSUME NEW i \in Made, i # 1, ~IsForeign(i), ~OnStack(i)', node[node[i].above].tag = "schema"
          PROVE  /\ node[i].tag = "component" => table'[node[i].above][node[i].name] >= i
                 /\ node[i].tag = "import" => i \in includes[node[i].above]
      <4>1. CASE i = child
        BY <1>1, <1>2, <1>11, <2>3, <2>4, <2>5, <4>1 DEF name
      <4>2. CASE i # child
        <5> DEFINE s == node[i].above
                   x == node[i].name
        <5>1. ~OnStack(i)
          BY <1>1, <3>2, <4>2
        <5>2. /\ node[i].tag = "component" => table[s][x] >= i
              /\ node[i].tag = "import" => i \in includes[s]
          BY <1>0, <3>2, <5>1 DEF TablesOK
        <5>3. s \in Ids /\ x \in Names /\ i \in Nat /\ child \in Nat
          BY <1>0, <1>1, <1>2, <3>2, MembersLemma DEF NodesOK
        <5> HIDE DEF s, x
        <5>4. table'[s][x] >= table[s][x] /\ table'[s][x] \in Nat
          <6>1. table[s][x] \in Nat /\ table[s][x] < child
            BY <2>6, <5>3
          <6>2. table'[s][x] = IF s = parent /\ x = name THEN child ELSE table[s][x]
            BY <2>3, <2>4, <5>3
          <6> QED
            BY <5>3, <6>1, <6>2
        <5>5. table[s][x] \in Nat
          BY <2>6, <5>3
        <5>6. node[i].tag = "component" => table'[s][x] >= i
          BY <5>2, <5>3, <5>4, <5>5
        <5> QED
          BY <5>2, <5>6 DEF s, x
      <4> QED
        BY <4>1, <4>2
    <3>3. ASSUME NEW c \in Made, node[c].tag = "schema", OnStack(c)', NEW s \in Ids, NEW x \in Names
          PROVE  IF s = c THEN table'[s][x] # Nothing => table'[s][x] > c ELSE table'[s][x] < c
      <4>1. c = parent
        BY <1>3, <3>3
      <4>2. IF s = c THEN table[s][x] # Nothing => table[s][x] > c ELSE table[s][x] < c
        BY <1>0, <1>1, <3>3 DEF TablesOK
      <4>3. table'[s][x] = IF s = parent /\ x = name THEN child ELSE table[s][x]
        BY <2>3, <2>4
      <4>4. child > parent
        BY <1>1, <1>2, <2>5
      <4> QED
        BY <4>1, <4>2, <4>3, <4>4
    <3>4. \A c : OnStack(c)' => node'[c].tag # "component"
      BY <1>1, <1>3
    <3> QED
      BY <1>1, <2>1, <3>1, <3>2, <3>3, <3>4 DEF TablesOK
  <2>8. SchemasOK'
    BY <1>9, <2>1, <2>4
  <2> QED
    BY <1>4, <1>5, <1>7, <1>11, <2>1, <2>4, <2>7, <2>8 DEF Added
<1>12. CASE node[child].tag = "import"
  <2>1. table' = table /\ includes' = [includes EXCEPT ![parent] = includes[parent] \cup {child}]
    BY <1>12 DEF AddToSchema
  <2>2. /\ includes' \in [Ids -> SUBSET {i \in Made : node[i].tag = "import"}]
        /\ includes'[parent] = includes[parent] \cup {child}
        /\ \A s \in Ids : s # parent => includes'[s] = includes[s]
    BY <1>1, <1>2, <1>4, <1>12, <2>1
  <2>3. ~IsForeign(child) /\ node[child].above = parent
    BY <1>1, <1>12 DEF IsForeign, Foreign
  <2>4. TablesOK'
    <3>1. ASSUME NEW s \in Ids, NEW x \in Names, table[s][x] # Nothing
          PROVE  /\ s \in Made' /\ node'[s].tag = "schema"
                 /\ table'[s][x] \in Written(node[s].ns, "component")'
                 /\ node'[table'[s][x]].name = x
      <4>1. /\ s \in Made /\ node[s].tag = "schema"
            /\ table[s][x] \in Written(node[s].ns, "component")
            /\ node[table[s][x]].name = x
        BY <1>0, <3>1 DEF TablesOK
      <4> QED
        BY <1>1, <2>1, <4>1 DEF Written
    <3>2. ASSUME NEW i \in Made, i # 1, ~IsForeign(i), ~OnStack(i)', node[node[i].above].tag = "schema"
          PROVE  /\ node[i].tag = "component" => table[node[i].above][node[i].name] >= i
                 /\ node[i].tag = "import" => i \in includes'[node[i].above]
      <4>1. CASE i = child
        BY <1>12, <2>2, <2>3, <4>1
      <4>2. CASE i # child
        <5>1. ~OnStack(i)
          BY <1>1, <3>2, <4>2
        <5>2. node[i].above \in Ids
          BY <1>0, <1>2, <3>2 DEF NodesOK
        <5> QED
          BY <1>0, <2>2, <3>2, <5>1, <5>2 DEF TablesOK
      <4> QED
        BY <4>1, <4>2
    <3> QED
      BY <1>0, <1>1, <2>1, <3>1, <3>2 DEF TablesOK
  <2>5. SchemasOK'
    BY <1>9, <2>1, <2>2
  <2> QED
    BY <1>4, <1>5, <1>7, <1>12, <2>1, <2>2, <2>4, <2>5 DEF Added
<1> QED
  BY <1>10, <1>11, <1>12

\* addChild of Types: a schema is the first of its namespace, or that one knows
\* all that it has, its names last.
LEMMA TypesLemma ==
  ASSUME IInv, NEW child, NEW parent, Popped(child, parent),
         node[parent].tag = "types", node[child].tag = "schema", AddToTypes(parent, child)
  PROVE  Added
<1> USE ConstantsLemma
<1> DEFINE ns0 == node[child].ns
           first == schemas[parent][ns0]
<1>0. TypeOK /\ NodesOK /\ StackOK /\ TablesOK /\ SchemasOK /\ RootOK
  BY DEF IInv, Parsing, Popped
<1>1. /\ node' = node /\ Made' = Made
      /\ child \in Made /\ parent \in Made /\ child # 1 /\ OnStack(child) /\ OnStack(parent)
      /\ child # parent
      /\ \A i : OnStack(i)' <=> OnStack(i) /\ i # child
      /\ node[child].above = parent
      /\ \A i : IsForeign(i)' <=> IsForeign(i)
      /\ \A ns, tag : Written(ns, tag)' = Written(ns, tag)
  <2>1. ~IsForeign(child)
    BY DEF IsForeign, Foreign
  <2> QED
    BY <2>1 DEF Popped, Made, IsForeign, Written
<1>2. Made \subseteq Ids /\ Made \subseteq Nat /\ Nothing \notin Made /\ ns0 \in Namespaces
  BY <1>0, <1>1, MembersLemma
<1>3. /\ \A c : OnStack(c)' => node[c].tag # "component"
      /\ \A c : OnStack(c)' => node[c].tag # "schema"
      /\ OnStack(parent)'
  BY <1>1, PoppedLemma
<1>4. /\ schemas \in [Ids -> [Namespaces -> Schemas \cup {Nothing}]]
      /\ table \in [Ids -> [Names -> Made \cup {Nothing}]]
      /\ includes \in [Ids -> SUBSET {i \in Made : node[i].tag = "import"}]
      /\ targets \subseteq Made
  BY <1>0 DEF TypeOK
<1>5. \A t \in Made : node[t].tag = "types" => t = parent
  BY <1>0, <1>1 DEF NodesOK
<1>6. parent # 1 /\ 1 \in Ids /\ parent \in Ids
  BY <1>0, <1>1, <1>2 DEF NodesOK
<1>7. \A s \in Ids, x \in Names : table[s][x] \in Nat
  BY <1>0, TableLemma
<1>8. ASSUME schemas'[1] = schemas[1]
      PROVE  RootOK'
  <2>1. \A t \in Made : node[t].tag = "types" => OnStack(t)'
    BY <1>3, <1>5
  <2> QED
    BY <1>0, <1>1, <1>8, <2>1 DEF RootOK
<1> HIDE DEF ns0
<1>9. CASE first = Nothing
  <2> DEFINE known == [schemas[parent] EXCEPT ![ns0] = child]
  <2>1. schemas' = [schemas EXCEPT ![parent] = known]
        /\ table' = table /\ includes' = includes /\ targets' = targets
    BY <1>9 DEF AddToTypes, ns0
  <2>2. child \in Schemas
    BY <1>1 DEF Schemas
  <2>3. /\ known \in [Namespaces -> Schemas \cup {Nothing}]
        /\ known[ns0] = child
        /\ \A ns \in Namespaces : ns # ns0 => known[ns] = schemas[parent][ns]
    BY <1>2, <1>4, <1>6, <2>2
  <2> HIDE DEF known
  <2>4. /\ schemas' \in [Ids -> [Namespaces -> Schemas \cup {Nothing}]]
        /\ schemas'[parent] = known
        /\ \A s \in Ids : s # parent => schemas'[s] = schemas[s]
    BY <1>4, <1>6, <2>1, <2>3
  <2>5. TablesOK'
    <3>1. ASSUME NEW s \in Ids, NEW x \in Names, table[s][x] # Nothing
          PROVE  /\ s \in Made' /\ node'[s].tag = "schema"
                 /\ table'[s][x] \in Written(node[s].ns, "component")'
                 /\ node'[table'[s][x]].name = x
      <4>1. /\ s \in Made /\ node[s].tag = "schema"
            /\ table[s][x] \in Written(node[s].ns, "component")
            /\ node[table[s][x]].name = x
        BY <1>0, <3>1 DEF TablesOK
      <4> QED
        BY <1>1, <2>1, <4>1 DEF Written
    <3>2. ASSUME NEW i \in Made, i # 1, ~IsForeign(i), ~OnStack(i)', node[node[i].above].tag = "schema"
          PROVE  /\ node[i].tag = "component" => table[node[i].above][node[i].name] >= i
                 /\ node[i].tag = "import" => i \in includes[node[i].above]
      <4>1. i # child
        BY <1>1, <3>2
      <4> QED
        BY <1>0, <1>1, <3>2, <4>1 DEF TablesOK
    <3> QED
      BY <1>0, <1>1, <2>1, <3>1, <3>2 DEF TablesOK
  <2>6. SchemasOK'
    <3>1. \A s \in Ids \ Made, ns \in Namespaces : schemas'[s][ns] = Nothing
      BY <1>0, <1>1, <2>4 DEF SchemasOK
    <3>2. ASSUME NEW ns \in Namespaces, schemas'[parent][ns] # Nothing
          PROVE  /\ node'[schemas'[parent][ns]].tag = "schema"
                 /\ node'[schemas'[parent][ns]].ns = ns
                 /\ node'[schemas'[parent][ns]].above = parent
                 /\ ~OnStack(schemas'[parent][ns]) \/ schemas'[parent][ns] = child
      BY <1>0, <1>1, <2>3, <2>4, <3>2 DEF SchemasOK, ns0
    <3>3. \A ns \in Namespaces :
            (/\ node[schemas[parent][ns]].tag = "schema"
             /\ node[schemas[parent][ns]].ns = ns
             /\ node[schemas[parent][ns]].above = parent
             /\ ~OnStack(schemas[parent][ns]))' \/ schemas'[parent][ns] = Nothing
      BY <1>1, <3>2
    <3>4. ASSUME NEW s \in Made, node[s].tag = "schema", s # 1, ~OnStack(s)'
          PROVE  LET f == schemas'[parent][node[s].ns] IN
                 /\ f # Nothing
                 /\ \A x \in Names : table[f][x] >= table[s][x]
                 /\ includes[s] \subseteq includes[f]
      <4>1. CASE s = child
        <5>1. schemas'[parent][node[s].ns] = s
          BY <2>3, <2>4, <4>1 DEF ns0
        <5>2. \A x \in Names : table[s][x] >= table[s][x]
          BY <1>2, <1>7
        <5>3. s # Nothing
          BY <1>2
        <5> QED
          BY <5>1, <5>2, <5>3
      <4>2. CASE s # child
        <5> DEFINE f == schemas[parent][node[s].ns]
        <5>1. ~OnStack(s)
          BY <1>1, <3>4, <4>2
        <5>2. /\ f # Nothing
              /\ \A x \in Names : table[f][x] >= table[s][x]
              /\ includes[s] \subseteq includes[f]
          BY <1>0, <1>1, <3>4, <5>1 DEF SchemasOK
        <5>3. node[s].ns \in Namespaces /\ node[s].ns # ns0
          BY <1>0, <1>9, <5>2, MembersLemma
        <5>4. schemas'[parent][node[s].ns] = f
          BY <2>3, <2>4, <5>3
        <5> QED
          BY <5>2, <5>4
      <4> QED
        BY <4>1, <4>2
    <3> QED
      BY <1>1, <1>5, <2>1, <3>1, <3>3, <3>4 DEF SchemasOK
  <2>7. RootOK'
    BY <1>6, <1>8, <2>4
  <2> QED
    BY <1>4, <2>1, <2>4, <2>5, <2>6, <2>7 DEF Added
<1>10. CASE first # Nothing
  <2> DEFINE merged == MergedTable(table[first], table[child])
  <2>0. /\ node[first].tag = "schema" /\ node[first].ns = ns0 /\ ~OnStack(first)
        /\ first \in Made /\ first \in Ids /\ first # child /\ first # parent
    <3>1. /\ node[first].tag = "schema" /\ node[first].ns = ns0 /\ ~OnStack(first)
      BY <1>0, <1>1, <1>2, <1>10 DEF SchemasOK
    <3>2. first \in Made
      BY <1>0, <1>2, <1>6, <1>10, SchemasLemma
    <3> QED
      BY <1>1, <1>2, <3>1, <3>2
  <2>1. /\ table' = [table EXCEPT ![first] = merged]
        /\ includes' = [includes EXCEPT ![first] = includes[first] \cup includes[child]]
        /\ targets' = targets \cup {first}
        /\ schemas' = schemas
    BY <1>10 DEF AddToTypes, ns0
  <2> HIDE DEF first
  <2>2. merged \in [Names -> Made \cup {Nothing}]
        /\ \A x \in Names :
             merged[x] = IF table[child][x] # Nothing THEN table[child][x] ELSE table[first][x]
    <3>1. table[first] \in [Names -> Made \cup {Nothing}]
          /\ table[child] \in [Names -> Made \cup {Nothing}]
      BY <1>1, <1>2, <1>4, <2>0
    <3> QED
      BY <3>1 DEF MergedTable
  <2> HIDE DEF merged
  <2>3. /\ table' \in [Ids -> [Names -> Made \cup {Nothing}]]
        /\ table'[first] = merged
        /\ \A s \in Ids : s # first => table'[s] = table[s]
    BY <1>4, <2>0, <2>1, <2>2
  <2>4. /\ includes' \in [Ids -> SUBSET {i \in Made : node[i].tag = "import"}]
        /\ includes'[first] = includes[first] \cup includes[child]
        /\ \A s \in Ids : s # first => includes'[s] = includes[s]
    BY <1>1, <1>2, <1>4, <2>0, <2>1
  <2>5. \A s \in Ids, x \in Names :
          IF s = child THEN table[s][x] # Nothing => table[s][x] > child ELSE table[s][x] < child
    BY <1>0, <1>1 DEF TablesOK
  <2>6. \A x \in Names, s \in Ids : s # child =>
          /\ merged[x] >= table[first][x]
          /\ merged[x] >= table[child][x]
          /\ table[child][x] # Nothing => merged[x] >= table[s][x]
    <3> SUFFICES ASSUME NEW x \in Names, NEW s \in Ids, s # child
                 PROVE  /\ merged[x] >= table[first][x]
                        /\ merged[x] >= table[child][x]
                        /\ table[child][x] # Nothing => merged[x] >= table[s][x]
      OBVIOUS
    <3> DEFINE a == table[first][x]
               b == table[child][x]
               d == table[s][x]
    <3>1. a \in Nat /\ b \in Nat /\ d \in Nat /\ child \in Nat /\ child \in Ids
      BY <1>1, <1>2, <1>7, <2>0
    <3>2. a < child /\ d < child /\ (b # Nothing => b > child)
      BY <2>0, <2>5, <3>1
    <3>3. merged[x] = IF b # Nothing THEN b ELSE a
      BY <2>2
    <3> HIDE DEF a, b, d
    <3>4. /\ merged[x] >= a /\ merged[x] >= b /\ (b # Nothing => merged[x] >= d)
      BY <3>1, <3>2, <3>3
    <3> QED
      BY <3>4 DEF a, b, d
  <2>7. TablesOK'
    <3>1. ASSUME NEW s \in Ids, NEW x \in Names, table'[s][x] # Nothing
          PROVE  /\ s \in Made' /\ node'[s].tag = "schema"
                 /\ table'[s][x] \in Written(node[s].ns, "component")'
                 /\ node'[table'[s][x]].name = x
      <4>1. \A k \in Ids : table[k][x] # Nothing =>
              /\ k \in Made /\ node[k].tag = "schema"
              /\ table[k][x] \in Written(node[k].ns, "component")
              /\ node[table[k][x]].name = x
        BY <1>0 DEF TablesOK
      <4>2. PICK k \in Ids : table'[s][x] = table[k][x] /\ node[k].ns = node[s].ns /\ (k = s \/ s = first)
        <5>1. CASE s # first
          BY <2>3, <5>1
        <5>2. CASE s = first
          BY <1>1, <1>2, <2>0, <2>2, <2>3, <5>2 DEF ns0
        <5> QED
          BY <5>1, <5>2
      <4>3. /\ k \in Made /\ node[k].tag = "schema"
            /\ table[k][x] \in Written(node[k].ns, "component")
            /\ node[table[k][x]].name = x
        BY <3>1, <4>1, <4>2
      <4> QED
        BY <1>1, <2>0, <4>2, <4>3 DEF Written
    <3>2. ASSUME NEW i \in Made, i # 1, ~IsForeign(i), ~OnStack(i)', node[node[i].above].tag = "schema"
          PROVE  /\ node[i].tag = "component" => table'[node[i].above][node[i].name] >= i
                 /\ node[i].tag = "import" => i \in includes'[node[i].above]
      <4> DEFINE s == node[i].above
                 x == node[i].name
      <4>1. i # child
        BY <1>1, <3>2
      <4>2. /\ node[i].tag = "component" => table[s][x] >= i
            /\ node[i].tag = "import" => i \in includes[s]
        BY <1>0, <1>1, <3>2, <4>1 DEF TablesOK
      <4>3. s \in Ids /\ x \in Names /\ i \in Nat
        BY <1>0, <1>2, <3>2, MembersLemma DEF NodesOK
      <4> HIDE DEF s, x
      <4>4. table'[s][x] >= table[s][x] /\ table[s][x] \in Nat /\ table'[s][x] \in Nat
        <5>1. table[s][x] \in Nat /\ table[child][x] \in Nat
          BY <1>1, <1>2, <1>7, <4>3
        <5>2. CASE s = first
          <6>1. table'[s][x] = merged[x] /\ merged[x] >= table[s][x]
            BY <2>0, <2>3, <2>6, <4>3, <5>2
          <6>2. merged[x] \in Nat
            BY <2>2, <4>3, <5>1, <5>2
          <6> QED
            BY <5>1, <6>1, <6>2
        <5>3. CASE s # first
          <6>1. table'[s][x] = table[s][x]
            BY <2>3, <4>3, <5>3
          <6> QED
            BY <5>1, <6>1
        <5> QED
          BY <5>2, <5>3
      <4>5. node[i].tag = "component" => table'[s][x] >= i
        BY <4>2, <4>3, <4>4
      <4>6. node[i].tag = "import" => i \in includes'[s]
        BY <2>4, <4>2, <4>3
      <4> QED
        BY <4>5, <4>6 DEF s, x
    <3>3. \A c : OnStack(c)' => node'[c].tag \notin {"component", "schema"}
      BY <1>1, <1>3
    <3> QED
      BY <1>1, <3>1, <3>2, <3>3 DEF TablesOK
  <2>8. SchemasOK'
    <3>1. ASSUME NEW ns \in Namespaces, schemas[parent][ns] # Nothing
          PROVE  /\ node[schemas[parent][ns]].tag = "schema"
                 /\ node[schemas[parent][ns]].ns = ns
                 /\ node[schemas[parent][ns]].above = parent
                 /\ ~OnStack(schemas[parent][ns])
      BY <1>0, <1>1, <3>1 DEF SchemasOK
    <3>2. ASSUME NEW s \in Made, node[s].tag = "schema", s # 1, ~OnStack(s)'
          PROVE  LET f == schemas[parent][node[s].ns] IN
                 /\ f # Nothing
                 /\ \A x \in Names : table'[f][x] >= table'[s][x]
                 /\ includes'[s] \subseteq includes'[f]
      <4> DEFINE f == schemas[parent][node[s].ns]
      <4>1. s \in Ids /\ node[s].ns \in Namespaces
        BY <1>0, <1>2, MembersLemma
      <4>2. CASE s = child
        <5>1. f = first
          BY <4>2 DEF first, ns0
        <5>2. \A x \in Names : table'[first][x] >= table'[s][x]
          BY <2>0, <2>3, <2>6, <4>1, <4>2
        <5>3. includes'[s] \subseteq includes'[first]
          BY <2>0, <2>4, <4>1, <4>2
        <5> QED
          BY <1>10, <5>1, <5>2, <5>3 DEF first
      <4>3. CASE s # child
        <5>1. /\ f # Nothing
              /\ \A x \in Names : table[f][x] >= table[s][x]
              /\ includes[s] \subseteq includes[f]
          <6>1. ~OnStack(s)
            BY <1>1, <3>2, <4>3
          <6> QED
            BY <1>0, <1>1, <3>2, <6>1 DEF SchemasOK
        <5>2. node[f].ns = node[s].ns /\ f \in Ids
          <6>1. f \in Ids \cup {Nothing}
            BY <1>0, <1>6, <4>1, SchemasLemma
          <6> QED
            BY <3>1, <4>1, <5>1, <6>1
        <5>3. f = first => node[s].ns = ns0
          BY <2>0, <5>2
        <5>4. node[s].ns = ns0 => f = first
          BY DEF first
        <5> HIDE DEF f
        <5>5. CASE node[s].ns # ns0
          BY <2>0, <2>3, <2>4, <4>1, <5>1, <5>2, <5>3, <5>5 DEF f
        <5>6. CASE node[s].ns = ns0 /\ s = first
          <6>1. f = s /\ \A x \in Names : merged[x] \in Nat
            BY <1>1, <1>2, <1>7, <2>0, <2>2, <5>4, <5>6
          <6>2. \A x \in Names : table'[f][x] >= table'[s][x]
            BY <2>3, <5>6, <6>1
          <6> QED
            BY <5>1, <6>1, <6>2 DEF f
        <5>7. CASE node[s].ns = ns0 /\ s # first
          <6>1. f = first
            BY <5>4, <5>7
          <6>2. \A x \in Names : table'[first][x] >= table'[s][x]
            <7> TAKE x \in Names
            <7>1. table'[first][x] = merged[x] /\ table'[s][x] = table[s][x]
              BY <2>3, <4>1, <5>7
            <7>2. CASE table[child][x] # Nothing
              BY <2>6, <4>1, <4>3, <7>1, <7>2
            <7>3. CASE table[child][x] = Nothing
              BY <2>2, <5>1, <6>1, <7>1, <7>3
            <7> QED
              BY <7>2, <7>3
          <6>3. includes'[s] \subseteq includes'[first]
            BY <2>4, <4>1, <5>1, <5>7, <6>1
          <6> QED
            BY <5>1, <6>1, <6>2, <6>3 DEF f
        <5> QED
          BY <5>5, <5>6, <5>7
      <4> QED
        BY <4>2, <4>3
    <3>3. \A s \in Ids \ Made, ns \in Namespaces : schemas'[s][ns] = Nothing
      BY <1>0, <2>1 DEF SchemasOK
    <3> QED
      BY <1>1, <1>5, <2>1, <3>1, <3>2, <3>3 DEF SchemasOK
  <2>9. RootOK'
    BY <1>8, <2>1
  <2>10. targets' \subseteq Made
    BY <1>4, <2>0, <2>1
  <2> QED
    BY <1>4, <2>1, <2>3, <2>4, <2>7, <2>8, <2>9, <2>10 DEF Added
<1> QED
  BY <1>9, <1>10

\* A closing tag that ends the top of the stack adds it to the element below.
LEMMA CloseEndsIInv ==
  ASSUME IInv, phase = "parsing", phase' = "parsing", node' = node,
         Ends(Last(doc).tag),
         ~Refuses(stack[Len(stack) - 1], Last(stack)),
         doc' = Front(doc), stack' = Front(stack),
         AddChild(stack[Len(stack) - 1], Last(stack))
  PROVE  IInv'
<1> DEFINE child == Last(stack)
           parent == stack[Len(stack) - 1]
<1>0. TypeOK /\ StackOK
  BY DEF IInv, Parsing
<1>1. /\ Popped(child, parent)
      /\ DocOK' /\ StackOK' /\ StackIsDocument' /\ NodesOK'
      /\ stack' \in Seq(Made')
  BY PopLemma
<1>2. doc' \in Seq([tag : Tags, id : Ids \cup {Nothing}, meaning : Bindings])
  BY DocShrinks
<1>3. AddChild(parent, child) /\ ~Refuses(parent, child)
  OBVIOUS
<1> HIDE DEF child, parent
<1>4. /\ child \in Made /\ parent \in Made /\ child \in Ids
      /\ node[child].tag \in Tags /\ node[parent].tag \in Tags
  BY <1>0, <1>1, MembersLemma DEF Popped
<1>5. /\ schemas \in [Ids -> [Namespaces -> Schemas \cup {Nothing}]]
      /\ table \in [Ids -> [Names -> Made \cup {Nothing}]]
      /\ includes \in [Ids -> SUBSET {i \in Made : node[i].tag = "import"}]
      /\ targets \subseteq Made
      /\ xmlns \in [Ids -> Bindings]
  BY <1>0 DEF TypeOK
<1>6. Hoisted(child) \in [Ids -> Bindings]
  BY <1>0, <1>4, HoistedLemma
<1>7. ASSUME node[parent].tag = "definitions"
      PROVE  Added /\ xmlns' \in [Ids -> Bindings]
  <2>1. AddToDefinitions(parent, child)
    BY <1>3, <1>7 DEF AddChild
  <2>2. xmlns' = Hoisted(child)
    BY <2>1 DEF AddToDefinitions
  <2>3. Added
    BY <1>1, <1>7, <2>1, DefinitionsLemma
  <2> QED
    BY <1>6, <2>2, <2>3
<1>8. ASSUME node[parent].tag = "types"
      PROVE  Added /\ xmlns' \in [Ids -> Bindings]
  <2>1. AddToTypes(parent, child)
    BY <1>3, <1>8 DEF AddChild
  <2>2. node[child].tag = "schema"
    BY <1>3, <1>8 DEF Refuses
  <2>3. Added
    BY <1>1, <1>8, <2>1, <2>2, TypesLemma
  <2>4. \A first : [Hoisted(child) EXCEPT ![first] = Over(xmlns[child], @)] \in [Ids -> Bindings]
    <3> TAKE first
    <3>1. xmlns[child] \in Bindings
      BY <1>4, <1>5
    <3>2. first \in Ids => Over(xmlns[child], Hoisted(child)[first]) \in Bindings
      BY <1>6, <3>1, OverLemma
    <3> QED
      BY <1>6, <3>2
  <2>5. xmlns' \in [Ids -> Bindings]
    <3>1. \/ xmlns' = Hoisted(child)
          \/ \E first : xmlns' = [Hoisted(child) EXCEPT ![first] = Over(xmlns[child], @)]
      BY <2>1 DEF AddToTypes
    <3> QED
      BY <1>6, <2>4, <3>1
  <2> QED
    BY <2>3, <2>5
<1>9. ASSUME node[parent].tag = "schema"
      PROVE  Added /\ xmlns' \in [Ids -> Bindings]
  <2>1. AddToSchema(parent, child)
    BY <1>3, <1>9 DEF AddChild
  <2>2. xmlns' = Hoisted(child)
    BY <2>1 DEF AddToSchema
  <2>3. Added
    BY <1>1, <1>9, <2>1, SchemaLemma
  <2> QED
    BY <1>6, <2>2, <2>3
<1>10. ASSUME node[parent].tag \notin {"definitions", "types", "schema"}
       PROVE  Added /\ xmlns' \in [Ids -> Bindings]
  <2>1. AddToOther(child)
    BY <1>3, <1>10 DEF AddChild
  <2>2. xmlns' = Hoisted(child) /\ schemas' = schemas /\ table' = table
        /\ includes' = includes /\ targets' = targets
    BY <2>1 DEF AddToOther
  <2>3. node[child].tag \notin {"schema", "types"}
    <3>1. CASE IsForeign(child)
      BY <3>1 DEF IsForeign, Foreign
    <3>2. CASE ~IsForeign(child)
      BY <1>1, <1>4, <1>10, <3>2, ContentLemma DEF Popped
    <3> QED
      BY <3>1, <3>2
  <2>4. TablesOK' /\ SchemasOK' /\ RootOK'
    BY <1>1, <1>10, <2>2, <2>3, UnchangedLemma
  <2>5. Added
    <3> DEFINE S == Schemas \cup {Nothing}
               M == Made \cup {Nothing}
               I == SUBSET {i \in Made : node[i].tag = "import"}
    <3>1. /\ schemas' \in [Ids -> [Namespaces -> S]] /\ table' \in [Ids -> [Names -> M]]
          /\ includes' \in [Ids -> I] /\ targets' \subseteq Made
      BY <1>5, <2>2
    <3> QED
      BY <2>4, <3>1 DEF Added
  <2> QED
    BY <1>6, <2>2, <2>5
<1>11. Added /\ xmlns' \in [Ids -> Bindings]
  BY <1>7, <1>8, <1>9, <1>10
<1>12. TypeOK'
  BY <1>0, <1>1, <1>2, <1>11, PoppedTypes DEF Added
<1>13. Parsing'
  BY <1>1, <1>11 DEF Parsing, Added
<1>14. DeclarationsAreFound'
  BY DEF DeclarationsAreFound
<1> QED
  BY <1>1, <1>12, <1>13, <1>14 DEF IInv

---------------------------------------------------------------------------
(* The theorems.                                                           *)

\* Every step keeps the invariant.
LEMMA NextIInv == IInv /\ [Next]_vars => IInv'
<1> SUFFICES ASSUME IInv, [Next]_vars
             PROVE  IInv'
  OBVIOUS
<1>1. ASSUME NEW tag \in Tags, NEW a \in Attributes(tag), NEW declared \in Declared,
             OpenRoot(tag, a, declared)
      PROVE  IInv'
  BY <1>1, OpenRootIInv
<1>2. ASSUME NEW tag \in Tags, NEW a \in Attributes(tag), NEW declared \in Declared,
             Open(tag, a, declared)
      PROVE  IInv'
  <2>1. CASE node[Last(stack)].tag \in Foreign
    BY <1>2, <2>1, OpenSkipsIInv
  <2>2. CASE node[Last(stack)].tag \notin Foreign
    BY <1>2, <2>2, OpenMakesIInv
  <2> QED
    BY <2>1, <2>2
<1>3. CASE Close
  <2> DEFINE child == Last(stack)
             parent == stack[Len(stack) - 1]
             Adds == /\ Ends(Last(doc).tag) /\ ~Refuses(parent, child)
                     /\ stack' = Front(stack)
                     /\ AddChild(parent, child)
                     /\ UNCHANGED phase
             Fails == /\ Ends(Last(doc).tag) /\ Refuses(parent, child)
                      /\ phase' = "failed"
                      /\ UNCHANGED <<stack, schemas, table, includes, xmlns, targets>>
             Stays == /\ ~Ends(Last(doc).tag)
                      /\ phase' = IF Len(doc) = 1 THEN "done" ELSE phase
                      /\ UNCHANGED <<stack, schemas, table, includes, xmlns, targets>>
  <2>1. phase = "parsing" /\ doc' = Front(doc) /\ node' = node
    BY <1>3 DEF Close
  <2>2. Adds => IInv'
    BY <2>1, CloseEndsIInv
  <2>3. Fails => IInv'
    BY <2>1, CloseFailsIInv
  <2>4. Stays => IInv'
    BY <2>1, CloseStaysIInv
  <2>5. Adds \/ Fails \/ Stays
    BY <1>3, Zenon DEF Close
  <2> HIDE DEF Adds, Fails, Stays
  <2> QED
    BY <2>2, <2>3, <2>4, <2>5
<1>4. CASE UNCHANGED vars
  <2>1. /\ phase' = phase /\ node' = node /\ xmlns' = xmlns /\ stack' = stack
        /\ schemas' = schemas /\ table' = table /\ includes' = includes
        /\ targets' = targets /\ doc' = doc
    BY <1>4 DEF vars
  <2>2. /\ Made' = Made /\ Schemas' = Schemas
        /\ \A i : (IsForeign(i)' <=> IsForeign(i)) /\ (OnStack(i)' <=> OnStack(i))
        /\ \A ns, t : Written(ns, t)' = Written(ns, t)
    BY <2>1 DEF Made, Schemas, IsForeign, OnStack, Written
  <2>3. /\ TypeOK => TypeOK'
        /\ NodesOK => NodesOK'
        /\ Blank => Blank'
    <3>1. TypeOK => TypeOK'
      BY <2>1, <2>2 DEF TypeOK
    <3>2. NodesOK => NodesOK'
      BY <2>1, <2>2 DEF NodesOK
    <3>3. Blank => Blank'
      BY <2>1 DEF Blank
    <3> QED
      BY <3>1, <3>2, <3>3
  <2>4. Parsing => Parsing'
    <3>1. DocOK => DocOK'
      BY <2>1 DEF DocOK
    <3>2. StackOK => StackOK'
      BY <2>1, <2>2 DEF StackOK
    <3>3. TablesOK => TablesOK'
      BY <2>1, <2>2 DEF TablesOK
    <3>4. SchemasOK => SchemasOK'
      BY <2>1, <2>2 DEF SchemasOK
    <3>5. RootOK => RootOK'
      BY <2>1, <2>2 DEF RootOK
    <3> QED
      BY <3>1, <3>2, <3>3, <3>4, <3>5 DEF Parsing
  <2>5. /\ StackIsDocument => StackIsDocument'
        /\ DeclarationsAreFound => DeclarationsAreFound'
    BY <2>1, <2>2 DEF StackIsDocument, DeclarationsAreFound
  <2> QED
    BY <2>1, <2>3, <2>4, <2>5, Zenon DEF IInv
<1> QED
  BY <1>1, <1>2, <1>3, <1>4 DEF Next

\* The invariant of the parser: where the stack and the document are, and what
\* the tables, Types and the definitions know of the elements that ended.
THEOREM Inductive == Spec => []IInv
BY InitIInv, NextIInv, PTL DEF Spec

\* Every variable keeps its type: what `schemas' holds are schemas, and what a
\* schema includes are imports.
THEOREM TypeCorrect == Spec => []TypeOK
<1>1. IInv => TypeOK
  BY DEF IInv
<1> QED
  BY <1>1, Inductive, PTL

\* The stack of _parse is the document's, for documents of any depth, whatever
\* foreign elements they have.
THEOREM StackIsDocumentHolds == Spec => []StackIsDocument
<1>1. IInv => StackIsDocument
  BY DEF IInv
<1> QED
  BY <1>1, Inductive, PTL

\* No declaration is lost when schemas of one namespace are merged and handed to
\* the definitions, and of two with one name the later one stays.
THEOREM DeclarationsAreFoundHolds == Spec => []DeclarationsAreFound
<1>1. IInv => DeclarationsAreFound
  BY DEF IInv
<1> QED
  BY <1>1, Inductive, PTL

---------------------------------------------------------------------------
(* The bindings.                                                           *)

\* An element has the parent that the document gives it, which came first.
ParentsOK ==
  \A i \in Made :
    /\ node[i].parent \in 0..(i - 1)
    /\ i # 1 /\ ~IsForeign(i) => node[i].parent = node[i].above

\* The open elements of the document mean by their prefixes what was noted when
\* their objects were made.
MeaningsOK ==
  phase = "parsing" =>
    \A k \in 1..Len(doc) :
      doc[k].tag \notin Foreign => doc[k].meaning = node[doc[k].id].meaning

\* An element binds a prefix as the document does, or leaves it to the element
\* above it, for which the prefix means the same.
Keeps(i, p) ==
  \/ xmlns[i][p] = node[i].meaning[p]
  \/ /\ i # 1
     /\ xmlns[i][p] = NoURI
     /\ node[node[i].above].meaning[p] = node[i].meaning[p]

BindingsOK ==
  \A i \in Made, p \in XmlPrefixes :
    ~IsForeign(i) /\ i \notin targets /\ node[i].meaning[p] # NoURI => Keeps(i, p)

BInv == IInv /\ ParentsOK /\ MeaningsOK /\ BindingsOK

\* What a new element and its tag mean by their prefixes.
LEMMA NewLemma ==
  ASSUME TypeOK, NEW tag \in Tags, NEW a \in Attributes(tag), NEW declared \in Declared,
         NEW parent \in Ids \cup {Nothing}, NEW id \in Ids \cup {Nothing},
         Make(tag, a, declared, parent), Opened(tag, declared, id)
  PROVE  LET n == Len(node) + 1 IN
         /\ node'[n].parent = parent
         /\ node'[n].meaning = Over(declared, Meaning)
         /\ xmlns'[n] = declared
         /\ \A i \in Made : xmlns'[i] = xmlns[i]
         /\ doc'[Len(doc) + 1].meaning = Over(declared, Meaning)
<1> DEFINE n == Len(node) + 1
           D == Len(doc)
           S == [tag : Tags, id : Ids \cup {Nothing}, meaning : Bindings]
           opened == [tag |-> tag, id |-> id, meaning |-> Over(declared, Meaning)]
           new == [tag |-> tag, ns |-> a.ns, name |-> a.name, parent |-> parent,
                   above |-> IF doc = <<>> THEN Nothing ELSE Last(doc).id,
                   meaning |-> Over(declared, Meaning)]
<1>1. /\ node' = Append(node, new)
      /\ xmlns' = [xmlns EXCEPT ![n] = declared]
      /\ doc' = Append(doc, opened)
  BY DEF Make, Opened
<1>2. node \in Seq(Nodes) /\ doc \in Seq(S) /\ xmlns \in [Ids -> Bindings]
  BY DEF TypeOK
<1>3. new.parent = parent /\ new.meaning = Over(declared, Meaning)
      /\ opened.meaning = Over(declared, Meaning)
  OBVIOUS
<1>4. n \in Ids /\ n \notin Made /\ Made \subseteq Ids
  BY MakeLemma, MembersLemma
<1> HIDE DEF new, opened, S
<1>5. node'[n] = new /\ doc'[D + 1] = opened
  BY <1>1, <1>2
<1>6. xmlns'[n] = declared /\ \A i \in Made : xmlns'[i] = xmlns[i]
  BY <1>1, <1>2, <1>4
<1> QED
  BY <1>3, <1>5, <1>6

LEMMA InitBInv == Init => BInv
<1> SUFFICES ASSUME Init
             PROVE  BInv
  OBVIOUS
<1>1. Made = {} /\ doc = <<>> /\ phase = "start"
  BY DEF Init, Made
<1> QED
  BY <1>1, InitIInv DEF BInv, ParentsOK, MeaningsOK, BindingsOK

\* The root has no parent, and binds all that is bound.
LEMMA OpenRootBInv ==
  ASSUME BInv, NEW tag \in Tags, NEW a \in Attributes(tag), NEW declared \in Declared,
         OpenRoot(tag, a, declared)
  PROVE  BInv'
<1> USE ConstantsLemma
<1>0. IInv' /\ TypeOK /\ Blank
  BY OpenRootIInv DEF BInv, IInv, OpenRoot
<1>1. Make(tag, a, declared, Nothing) /\ Opened(tag, declared, 1)
  BY DEF OpenRoot
<1>2. node = <<>> /\ Len(node) = 0 /\ Made = {} /\ doc = <<>> /\ Len(doc) = 0
  BY <1>0 DEF Blank, Made
<1>3. /\ node'[1].parent = Nothing
      /\ node'[1].meaning = Over(declared, Meaning)
      /\ xmlns'[1] = declared
      /\ doc'[1].meaning = Over(declared, Meaning)
  <2>1. Nothing \in Ids \cup {Nothing} /\ 1 \in Ids \cup {Nothing}
    OBVIOUS
  <2> QED
    BY <1>0, <1>1, <1>2, <2>1, NewLemma
<1>4. Made' = {1} /\ Len(doc') = 1 /\ doc'[1].id = 1
  <2>1. Nothing \in Ids \cup {Nothing} /\ 1 \in Ids \cup {Nothing}
    OBVIOUS
  <2>2. Made' = {1}
    BY <1>0, <1>1, <1>2, <2>1, MakeLemma
  <2>3. Len(doc') = 1 /\ doc'[1].id = 1
    BY <1>0, <1>1, <1>2, <2>1, OpenedLemma
  <2> QED
    BY <2>2, <2>3
<1>5. ParentsOK'
  BY <1>3, <1>4 DEF ParentsOK
<1>6. MeaningsOK'
  BY <1>3, <1>4 DEF MeaningsOK
<1>7. Over(declared, Meaning) = declared
  <2>1. declared \in [XmlPrefixes -> URIs \cup {NoURI}]
    BY DeclaredLemma DEF Bindings
  <2>2. Meaning = [p \in XmlPrefixes |-> NoURI]
    BY <1>2 DEF Meaning, Unbound
  <2> QED
    BY <2>1, <2>2 DEF Over
<1>8. BindingsOK'
  BY <1>3, <1>4, <1>7 DEF BindingsOK, Keeps
<1> QED
  BY <1>0, <1>5, <1>6, <1>8 DEF BInv

\* A new element declares some prefixes, and has the others from above.
LEMMA OpenMakesBInv ==
  ASSUME BInv, NEW tag \in Tags, NEW a \in Attributes(tag), NEW declared \in Declared,
         Open(tag, a, declared), node[Last(stack)].tag \notin Foreign
  PROVE  BInv'
<1> USE ConstantsLemma
<1> DEFINE n == Len(node) + 1
           D == Len(doc)
           E == D + 1
           L == Len(stack)
           top == Last(stack)
<1>0. /\ IInv' /\ IInv /\ TypeOK /\ NodesOK /\ DocOK /\ StackOK /\ StackIsDocument
      /\ ParentsOK /\ MeaningsOK /\ BindingsOK
  BY OpenMakesIInv DEF BInv, IInv, Parsing, Open
<1>1. /\ phase = "parsing" /\ phase' = "parsing"
      /\ tag \in Content(Last(doc).tag)
      /\ Make(tag, a, declared, top)
      /\ Opened(tag, declared, n)
      /\ targets' = targets
  BY DEF Open
<1>2. /\ D \in Nat /\ D >= 1 /\ L \in Nat /\ L >= 1
      /\ Last(doc) = doc[D] /\ top = stack[L]
      /\ doc[D].tag \notin Foreign => stack[L] = doc[D].id
  BY <1>0, <1>1, PlaceLemma
<1>3. top \in Made /\ Made \subseteq Ids /\ targets \subseteq Made
  BY <1>0, <1>2, MembersLemma DEF StackOK, TypeOK
<1>4. /\ n \in Ids /\ n \notin Made
      /\ Made' = Made \cup {n}
      /\ \A i \in Made : node'[i] = node[i] /\ i < n
      /\ node'[n].tag = tag
      /\ node'[n].above = IF doc = <<>> THEN Nothing ELSE Last(doc).id
  <2>1. top \in Ids \cup {Nothing}
    BY <1>3
  <2> QED
    BY <1>0, <1>1, <2>1, MakeLemma
<1>5. /\ Len(doc') = E
      /\ doc'[E].tag = tag /\ doc'[E].id = n
      /\ \A k \in 1..D : doc'[k] = doc[k]
  BY <1>0, <1>1, <1>4, OpenedLemma
<1>6. /\ node'[n].parent = top
      /\ node'[n].meaning = Over(declared, Meaning)
      /\ xmlns'[n] = declared
      /\ \A i \in Made : xmlns'[i] = xmlns[i]
      /\ doc'[E].meaning = Over(declared, Meaning)
  <2>1. top \in Ids \cup {Nothing} /\ n \in Ids \cup {Nothing}
    BY <1>3, <1>4
  <2> QED
    BY <1>0, <1>1, <2>1, NewLemma
<1>7. Last(doc).tag \in Foreign => tag \in Foreign
  BY <1>0, <1>1, <1>5, DocGrows
<1>8. Meaning = doc[D].meaning
  BY <1>2 DEF Meaning
<1>9. tag \notin Foreign =>
        /\ node'[n].above = top
        /\ \A p \in XmlPrefixes : Meaning[p] = node[top].meaning[p]
  <2> SUFFICES ASSUME tag \notin Foreign
               PROVE  /\ node'[n].above = top
                      /\ Meaning = node[top].meaning
    OBVIOUS
  <2>1. doc[D].tag \notin Foreign /\ D \in 1..Len(doc) /\ doc # <<>>
    BY <1>2, <1>7
  <2>2. top = doc[D].id
    BY <1>2, <2>1
  <2>3. doc[D].meaning = node[doc[D].id].meaning
    BY <1>0, <1>1, <2>1 DEF MeaningsOK
  <2> QED
    BY <1>2, <1>4, <1>8, <2>1, <2>2, <2>3
<1> HIDE DEF n, E, D, L, top
<1>10. ParentsOK'
  <2> SUFFICES ASSUME NEW i \in Made'
               PROVE  /\ node'[i].parent \in 0..(i - 1)
                      /\ i # 1 /\ ~IsForeign(i)' => node'[i].parent = node'[i].above
    BY DEF ParentsOK
  <2>1. CASE i = n
    <3>1. top \in 0..(n - 1)
      BY <1>3, <1>4 DEF Ids
    <3> QED
      BY <1>4, <1>6, <1>9, <2>1, <3>1 DEF IsForeign
  <2>2. CASE i \in Made
    BY <1>0, <1>4, <2>2 DEF ParentsOK, IsForeign
  <2> QED
    BY <1>4, <2>1, <2>2
<1>11. MeaningsOK'
  <2> SUFFICES ASSUME NEW k \in 1..Len(doc'), doc'[k].tag \notin Foreign
               PROVE  doc'[k].meaning = node'[doc'[k].id].meaning
    BY DEF MeaningsOK
  <2>1. CASE k = E
    BY <1>5, <1>6, <2>1
  <2>2. CASE k # E
    <3>1. k \in 1..D
      BY <1>2, <1>5, <2>2 DEF E
    <3>2. doc'[k] = doc[k] /\ doc[k].meaning = node[doc[k].id].meaning
      BY <1>0, <1>1, <1>5, <2>2, <3>1 DEF MeaningsOK, D
    <3>3. doc[k].id \in Made
      BY <1>0, <1>1, <3>1, <3>2 DEF StackIsDocument, StackOK, D
    <3> QED
      BY <1>4, <3>2, <3>3
  <2> QED
    BY <2>1, <2>2
<1>12. BindingsOK'
  <2> SUFFICES ASSUME NEW i \in Made', NEW p \in XmlPrefixes,
                      ~IsForeign(i)', i \notin targets, node'[i].meaning[p] # NoURI
               PROVE  Keeps(i, p)'
    BY <1>1 DEF BindingsOK
  <2>1. CASE i = n
    <3>1. tag \notin Foreign
      BY <1>4, <2>1 DEF IsForeign
    <3>2. Over(declared, Meaning)[p] = IF declared[p] # NoURI THEN declared[p] ELSE Meaning[p]
      BY DEF Over
    <3>3. CASE declared[p] # NoURI
      BY <1>6, <2>1, <3>2, <3>3 DEF Keeps
    <3>4. CASE declared[p] = NoURI
      <4>1. node'[n].meaning[p] = node'[node'[n].above].meaning[p]
        BY <1>3, <1>4, <1>6, <1>9, <3>1, <3>2, <3>4
      <4>2. n # 1
        <5>1. top \in Nat /\ top >= 1 /\ top < n
          BY <1>3, <1>4 DEF Ids
        <5> QED
          BY <1>4, <5>1 DEF Ids
      <4> QED
        BY <1>6, <2>1, <3>4, <4>1, <4>2 DEF Keeps
    <3> QED
      BY <3>3, <3>4
  <2>2. CASE i \in Made
    <3>1. Keeps(i, p)
      BY <1>0, <1>4, <2>2 DEF BindingsOK, IsForeign
    <3>2. i # 1 => node[i].above \in Made
      BY <1>0, <1>4, <2>2 DEF NodesOK, IsForeign
    <3> QED
      BY <1>4, <1>6, <2>2, <3>1, <3>2 DEF Keeps
  <2> QED
    BY <1>4, <2>1, <2>2
<1> QED
  BY <1>0, <1>10, <1>11, <1>12 DEF BInv

\* A tag inside of a foreign element makes nothing.
LEMMA OpenSkipsBInv ==
  ASSUME BInv, NEW tag \in Tags, NEW a \in Attributes(tag), NEW declared \in Declared,
         Open(tag, a, declared), node[Last(stack)].tag \in Foreign
  PROVE  BInv'
<1> USE ConstantsLemma
<1> DEFINE D == Len(doc)
<1>0. /\ IInv' /\ IInv /\ TypeOK /\ ParentsOK /\ MeaningsOK /\ BindingsOK
  BY OpenSkipsIInv DEF BInv, IInv
<1>1. /\ phase = "parsing"
      /\ tag \in Content(Last(doc).tag)
      /\ Opened(tag, declared, Nothing)
      /\ node' = node /\ xmlns' = xmlns /\ targets' = targets
  BY DEF Open
<1>2. /\ D \in Nat /\ D >= 1 /\ Last(doc) = doc[D] /\ doc[D].tag \in Foreign
  <2>1. /\ D \in Nat /\ D >= 1 /\ Len(stack) \in 1..Len(stack)
        /\ Last(doc) = doc[D] /\ Last(stack) = stack[Len(stack)]
        /\ doc[D].tag \notin Foreign => \A k \in 1..Len(stack) : ~IsForeign(stack[k])
    BY <1>0, <1>1, PlaceLemma
  <2> QED
    BY <2>1 DEF IsForeign
<1>3. tag \in Foreign
  <2>1. doc[D].tag \in Tags
    BY <1>2 DEF Tags
  <2> QED
    BY <1>1, <1>2, <2>1, ContentLemma
<1>4. /\ Len(doc') = D + 1 /\ doc'[D + 1].tag = tag
      /\ \A k \in 1..D : doc'[k] = doc[k]
  BY <1>0, <1>1, OpenedLemma
<1>5. MeaningsOK'
  <2> SUFFICES ASSUME NEW k \in 1..Len(doc'), doc'[k].tag \notin Foreign
               PROVE  doc'[k].meaning = node[doc'[k].id].meaning
    BY <1>1 DEF MeaningsOK
  <2>1. k \in 1..D
    BY <1>2, <1>3, <1>4
  <2> QED
    BY <1>0, <1>1, <1>4, <2>1 DEF MeaningsOK
<1>6. ParentsOK' /\ BindingsOK'
  BY <1>0, <1>1 DEF ParentsOK, BindingsOK, Keeps, IsForeign, Made
<1> QED
  BY <1>0, <1>5, <1>6 DEF BInv

\* A closing tag takes its element from the document.
LEMMA MeaningsShrink ==
  ASSUME IInv, MeaningsOK, phase = "parsing", node' = node, doc' = Front(doc)
  PROVE  MeaningsOK'
<1> DEFINE D == Len(doc)
<1>1. D \in Nat /\ Len(doc') = D - 1 /\ \A k \in 1..(D - 1) : doc'[k] = doc[k]
  BY DocShrinks, PlaceLemma
<1>2. \A k \in 1..Len(doc') : k \in 1..D /\ doc'[k] = doc[k]
  BY <1>1
<1> QED
  BY <1>2 DEF MeaningsOK

\* A closing tag that ends no element, or one that is refused.
LEMMA CloseKeepsBInv ==
  ASSUME BInv, IInv', phase = "parsing", node' = node, doc' = Front(doc),
         xmlns' = xmlns, targets' = targets
  PROVE  BInv'
<1>1. MeaningsOK'
  BY MeaningsShrink DEF BInv
<1>2. ParentsOK' /\ BindingsOK'
  BY DEF BInv, ParentsOK, BindingsOK, Keeps, IsForeign, Made
<1> QED
  BY <1>1, <1>2 DEF BInv

\* When the root takes the bindings of an element, it keeps its own.
LEMMA HoistedKeeps ==
  ASSUME IInv, StackOK, NEW child \in Made, NEW i \in Ids, NEW p \in XmlPrefixes
  PROVE  /\ i # 1 => Hoisted(child)[i][p] = xmlns[i][p]
         /\ xmlns[i][p] # NoURI => Hoisted(child)[i][p] = xmlns[i][p]
<1>1. xmlns \in [Ids -> Bindings] /\ stack[1] = 1 /\ 1 \in Ids
  BY ConstantsLemma DEF IInv, TypeOK, StackOK
<1>2. Hoisted(child) = [xmlns EXCEPT ![1] = Over(xmlns[1], xmlns[child])]
  BY <1>1 DEF Hoisted
<1>3. Over(xmlns[1], xmlns[child])[p] = IF xmlns[1][p] # NoURI THEN xmlns[1][p] ELSE xmlns[child][p]
  BY DEF Over
<1>4. CASE i = 1
  BY <1>1, <1>2, <1>3, <1>4
<1>5. CASE i # 1
  BY <1>1, <1>2, <1>5
<1> QED
  BY <1>4, <1>5

\* An element that ends changes the bindings of the root, which takes those that
\* it does not have, and of a schema into which it is merged.
LEMMA CloseEndsBInv ==
  ASSUME BInv, IInv', phase = "parsing", phase' = "parsing", node' = node,
         Ends(Last(doc).tag), doc' = Front(doc), stack' = Front(stack),
         AddChild(stack[Len(stack) - 1], Last(stack))
  PROVE  BInv'
<1> DEFINE child == Last(stack)
           parent == stack[Len(stack) - 1]
<1>0. IInv /\ TypeOK /\ StackOK /\ ParentsOK /\ MeaningsOK /\ BindingsOK
  BY DEF BInv, IInv, Parsing
<1>1. Popped(child, parent)
  BY <1>0, PopLemma
<1>2. AddChild(parent, child)
  OBVIOUS
<1> HIDE DEF child, parent
<1>3. child \in Made /\ Made \subseteq Ids
  BY <1>0, <1>1, MembersLemma DEF Popped
<1>4. /\ targets \subseteq targets'
      /\ \A i \in Ids : i \notin targets' => xmlns'[i] = Hoisted(child)[i]
  <2>1. CASE node[parent].tag = "definitions"
    BY <1>2, <2>1 DEF AddChild, AddToDefinitions
  <2>2. CASE node[parent].tag = "types"
    <3>1. AddToTypes(parent, child)
      BY <1>2, <2>2 DEF AddChild
    <3>2. \/ xmlns' = Hoisted(child) /\ targets' = targets
          \/ \E first : /\ xmlns' = [Hoisted(child) EXCEPT ![first] = Over(xmlns[child], @)]
                        /\ targets' = targets \cup {first}
      BY <3>1 DEF AddToTypes
    <3>3. Hoisted(child) \in [Ids -> Bindings]
      BY <1>0, <1>3, HoistedLemma
    <3> QED
      BY <3>2, <3>3
  <2>3. CASE node[parent].tag = "schema"
    BY <1>2, <2>3 DEF AddChild, AddToSchema
  <2>4. CASE node[parent].tag \notin {"definitions", "types", "schema"}
    BY <1>2, <2>4 DEF AddChild, AddToOther
  <2> QED
    BY <2>1, <2>2, <2>3, <2>4
<1>5. BindingsOK'
  <2> SUFFICES ASSUME NEW i \in Made, NEW p \in XmlPrefixes,
                      ~IsForeign(i), i \notin targets', node[i].meaning[p] # NoURI
               PROVE  Keeps(i, p)'
    BY DEF BindingsOK, Made, IsForeign
  <2>1. Keeps(i, p) /\ xmlns'[i][p] = Hoisted(child)[i][p]
    BY <1>0, <1>3, <1>4 DEF BindingsOK
  <2>2. CASE xmlns[i][p] = node[i].meaning[p]
    BY <1>0, <1>3, <2>1, <2>2, HoistedKeeps DEF Keeps
  <2>3. CASE xmlns[i][p] # node[i].meaning[p]
    <3>1. xmlns'[i][p] = NoURI /\ i # 1
      BY <1>0, <1>3, <2>1, <2>3, HoistedKeeps DEF Keeps
    <3> QED
      BY <2>1, <2>3, <3>1 DEF Keeps
  <2> QED
    BY <2>2, <2>3
<1>6. MeaningsOK'
  BY <1>0, MeaningsShrink
<1>7. ParentsOK'
  BY <1>0 DEF ParentsOK, IsForeign, Made
<1> QED
  BY <1>5, <1>6, <1>7 DEF BInv

\* Every step keeps the bindings.
LEMMA NextBInv == BInv /\ [Next]_vars => BInv'
<1> SUFFICES ASSUME BInv, [Next]_vars
             PROVE  BInv'
  OBVIOUS
<1>0. IInv /\ IInv'
  BY NextIInv DEF BInv
<1>1. ASSUME NEW tag \in Tags, NEW a \in Attributes(tag), NEW declared \in Declared,
             OpenRoot(tag, a, declared)
      PROVE  BInv'
  BY <1>1, OpenRootBInv
<1>2. ASSUME NEW tag \in Tags, NEW a \in Attributes(tag), NEW declared \in Declared,
             Open(tag, a, declared)
      PROVE  BInv'
  BY <1>2, OpenSkipsBInv, OpenMakesBInv
<1>3. CASE Close
  <2> DEFINE child == Last(stack)
             parent == stack[Len(stack) - 1]
  <2>1. phase = "parsing" /\ doc' = Front(doc) /\ node' = node
    BY <1>3 DEF Close
  <2>2. \/ /\ Ends(Last(doc).tag) /\ stack' = Front(stack) /\ phase' = phase
           /\ AddChild(parent, child)
        \/ xmlns' = xmlns /\ targets' = targets
    BY <1>3, Zenon DEF Close
  <2> QED
    BY <1>0, <2>1, <2>2, CloseEndsBInv, CloseKeepsBInv
<1>4. CASE UNCHANGED vars
  <2>1. /\ phase' = phase /\ node' = node /\ xmlns' = xmlns
        /\ targets' = targets /\ doc' = doc
    BY <1>4 DEF vars
  <2> QED
    BY <1>0, <2>1 DEF BInv, ParentsOK, MeaningsOK, BindingsOK, Keeps, IsForeign, Made
<1> QED
  BY <1>1, <1>2, <1>3, <1>4 DEF Next

---------------------------------------------------------------------------
(* What is found on the way to the root.                                   *)

\* A nonempty set of numbers has a least one.
LEMMA LeastLemma ==
  ASSUME NEW T, T \subseteq Nat, T # {}
  PROVE  \E m \in T : \A k \in T : m <= k
<1>1. PICK m \in T : \A k \in T : ~(<<k, m>> \in OpToRel(<, Nat))
  BY WFMin, NatLessThanWellFounded, Zenon
<1>2. ASSUME NEW k \in T PROVE m <= k
  <2>1. ~(k < m)
    BY <1>1 DEF OpToRel
  <2> QED
    BY <2>1
<1> QED
  BY <1>2

\* A value that each number has from a smaller one: `under' gives the smaller
\* number, `step' the value by that of the smaller one.
IsChain(N, V, base, under, step) ==
  /\ N \in Nat
  /\ base \in V
  /\ under \in [1..N -> Nat]
  /\ \A j \in 1..N : under[j] < j
  /\ step \in [1..N -> [V -> V]]

Follows(g, N, V, base, under, step) ==
  /\ g \in [0..N -> V]
  /\ g[0] = base
  /\ \A j \in 1..N : g[j] = step[j][g[under[j]]]

\* Such values are defined.
LEMMA ChainLemma ==
  ASSUME NEW N, NEW V, NEW base, NEW under, NEW step,
         IsChain(N, V, base, under, step)
  PROVE  \E g : Follows(g, N, V, base, under, step)
<1>0. /\ N \in Nat
      /\ base \in V
      /\ under \in [1..N -> Nat]
      /\ \A j \in 1..N : under[j] < j
      /\ step \in [1..N -> [V -> V]]
  BY DEF IsChain
<1> DEFINE Defined(m) ==
             \E g \in [0..m -> V] :
               g = [j \in 0..m |-> IF j = 0 THEN base ELSE step[j][g[under[j]]]]
           T == {m \in 0..N : ~Defined(m)}
<1>1. SUFFICES ASSUME T # {}
               PROVE  FALSE
  <2>1. N \in 0..N
    BY <1>0
  <2>2. Defined(N)
    BY <1>1, <2>1
  <2>3. PICK g \in [0..N -> V] :
          g = [j \in 0..N |-> IF j = 0 THEN base ELSE step[j][g[under[j]]]]
    BY <2>2
  <2>4. g[0] = base
    BY <1>0, <2>1, <2>3
  <2>5. ASSUME NEW j \in 1..N PROVE g[j] = step[j][g[under[j]]]
    <3>1. j \in 0..N /\ j # 0
      BY <1>0
    <3> QED
      BY <2>3, <3>1
  <2> QED
    BY <2>3, <2>4, <2>5 DEF Follows
<1>2. PICK m \in T : \A k \in T : m <= k
  <2>1. T \subseteq Nat
    OBVIOUS
  <2> HIDE DEF T
  <2> QED
    BY <1>1, <2>1, LeastLemma
<1>3. m \in 0..N /\ ~Defined(m)
  OBVIOUS
<1>4. CASE m = 0
  <2> DEFINE g == [j \in 0..0 |-> base]
  <2>1. g \in [0..0 -> V] /\ g = [j \in 0..0 |-> IF j = 0 THEN base ELSE step[j][g[under[j]]]]
    BY <1>0
  <2>2. Defined(0)
    BY <2>1
  <2> QED
    BY <1>3, <1>4, <2>2
<1>5. CASE m # 0
  <2> DEFINE l == m - 1
  <2>1. l \in 0..N /\ l < m /\ m \in Nat /\ m \in 1..N /\ l \in Nat
    BY <1>0, <1>3, <1>5
  <2>2. Defined(l)
    <3>1. l \notin T
      BY <1>2, <2>1
    <3> QED
      BY <2>1, <3>1
  <2>3. PICK g \in [0..l -> V] :
          g = [j \in 0..l |-> IF j = 0 THEN base ELSE step[j][g[under[j]]]]
    BY <2>2
  <2>4. \A j \in 0..m : j = m \/ (j \in 0..l /\ j # m)
    BY <2>1
  <2>5. \A j \in 0..m : j # 0 => j \in 1..N /\ under[j] \in 0..l
    <3> SUFFICES ASSUME NEW j \in 0..m, j # 0
                 PROVE  j \in 1..N /\ under[j] \in 0..l
      OBVIOUS
    <3>1. j \in 1..N
      BY <1>0, <1>3
    <3>2. under[j] \in Nat /\ under[j] < j /\ j <= m
      BY <1>0, <3>1
    <3> QED
      BY <2>1, <3>1, <3>2
  <2> DEFINE h == [j \in 0..m |-> IF j = m THEN step[m][g[under[m]]] ELSE g[j]]
  <2>6. h \in [0..m -> V]
    <3>1. step[m][g[under[m]]] \in V
      <4>1. under[m] \in 0..l
        BY <1>5, <2>1, <2>5
      <4>2. g[under[m]] \in V
        BY <4>1
      <4> QED
        BY <1>0, <2>1, <4>2
    <3> HIDE DEF l
    <3> QED
      BY <2>4, <3>1
  <2>7. \A j \in 0..l : h[j] = g[j]
    BY <2>1
  <2>8. ASSUME NEW j \in 0..m
        PROVE  h[j] = IF j = 0 THEN base ELSE step[j][h[under[j]]]
    <3>1. j # 0 => h[under[j]] = g[under[j]]
      BY <2>5, <2>7
    <3>2. CASE j = m
      BY <1>5, <3>1, <3>2
    <3>3. CASE j # m
      <4>1. j \in 0..l /\ h[j] = g[j]
        BY <2>4, <2>7, <3>3
      <4>2. g[j] = IF j = 0 THEN base ELSE step[j][g[under[j]]]
        BY <2>3, <4>1
      <4> QED
        BY <3>1, <4>1, <4>2
    <3> QED
      BY <3>2, <3>3
  <2> HIDE DEF h
  <2>9. h = [j \in 0..m |-> IF j = 0 THEN base ELSE step[j][h[under[j]]]]
    BY <2>6, <2>8
  <2> QED
    BY <1>3, <2>6, <2>9
<1> QED
  BY <1>4, <1>5

\* The way from an element to the root, step by step.
LEMMA LineageLemma ==
  ASSUME TypeOK, ParentsOK
  PROVE  /\ Lineage(Nothing) = {}
         /\ \A i \in Made : Lineage(i) = {i} \cup Lineage(node[i].parent)
<1> DEFINE N == Len(node)
           under == [j \in 1..N |-> node[j].parent]
           V == SUBSET Nat
           step == [j \in 1..N |-> [v \in V |-> {j} \cup v]]
           Up(g) == [j \in 0..N |-> IF j = Nothing THEN {} ELSE {j} \cup g[node[j].parent]]
           up == CHOOSE g : g = Up(g)
<1>1. N \in Nat /\ Nothing = 0
  BY MembersLemma, ConstantsLemma
<1>2. \A j \in 1..N : node[j].parent \in 0..(j - 1) /\ j \in Nat
  BY <1>1 DEF ParentsOK, Made
<1>3. under \in [1..N -> Nat] /\ \A j \in 1..N : under[j] < j
  BY <1>2
<1>4. {} \in V /\ step \in [1..N -> [V -> V]]
  <2>1. \A j \in 1..N, v \in V : {j} \cup v \in V
    BY <1>2
  <2> HIDE DEF V
  <2>2. \A j \in 1..N : [v \in V |-> {j} \cup v] \in [V -> V]
    BY <2>1
  <2>3. {} \in V
    BY DEF V
  <2> QED
    BY <2>2, <2>3
<1>5. PICK g : Follows(g, N, V, {}, under, step)
  <2>1. IsChain(N, V, {}, under, step)
    <3> HIDE DEF N, V, under, step
    <3> QED
      BY <1>1, <1>3, <1>4 DEF IsChain
  <2> HIDE DEF N, V, step, under
  <2> QED
    BY <2>1, ChainLemma
<1>9. /\ g \in [0..N -> V] /\ g[0] = {}
      /\ \A j \in 1..N : g[j] = step[j][g[under[j]]]
  <2> HIDE DEF N, V, step, under
  <2> QED
    BY <1>5 DEF Follows
<1>6. \E f : f = Up(f)
  <2>1. ASSUME NEW j \in 0..N
        PROVE  g[j] = IF j = Nothing THEN {} ELSE {j} \cup g[node[j].parent]
    <3>1. CASE j = 0
      BY <1>1, <1>9, <3>1
    <3>2. CASE j # 0
      <4>1. j \in 1..N
        BY <1>1, <3>2
      <4>2. under[j] = node[j].parent /\ node[j].parent \in 0..N
        BY <1>1, <1>2, <4>1
      <4>3. g[node[j].parent] \in V
        <5> HIDE DEF N, V, step, under
        <5> QED
          BY <1>9, <4>2
      <4>4. step[j][g[node[j].parent]] = {j} \cup g[node[j].parent]
        BY <4>1, <4>3
      <4>5. g[j] = step[j][g[under[j]]]
        <5> HIDE DEF N, V, step, under
        <5> QED
          BY <1>9, <4>1
      <4> QED
        BY <1>1, <3>2, <4>2, <4>4, <4>5
    <3> QED
      BY <3>1, <3>2
  <2> HIDE DEF V, step, under, N
  <2>3. g = Up(g)
    BY <1>9, <2>1
  <2> HIDE DEF Up
  <2> QED
    BY <2>3
<1>7. up = Up(up)
  <2> HIDE DEF Up
  <2> QED
    BY <1>6
<1>8. \A i : Lineage(i) = up[i]
  BY DEF Lineage
<1> HIDE DEF up
<1>11. \A j \in 0..N : up[j] = IF j = Nothing THEN {} ELSE {j} \cup up[node[j].parent]
  BY <1>7
<1>10. 0 \in 0..N /\ \A i \in Made : i \in 0..N /\ i # Nothing
  BY <1>1 DEF Made
<1> QED
  BY <1>1, <1>8, <1>11, <1>10

\* What getNamespaceURI finds, step by step.
LEMMA NamespaceURILemma ==
  ASSUME TypeOK, ParentsOK, NEW p \in XmlPrefixes
  PROVE  \A i \in Made :
           GetNamespaceURI(i, p) = IF xmlns[i][p] # NoURI THEN xmlns[i][p]
                                   ELSE GetNamespaceURI(node[i].parent, p)
<1> DEFINE N == Len(node)
           under == [j \in 1..N |-> node[j].parent]
           V == URIs \cup {NoURI}
           step == [j \in 1..N |-> [v \in V |-> IF xmlns[j][p] # NoURI THEN xmlns[j][p] ELSE v]]
           Uri(g) == [j \in 0..N |->
                        IF j = Nothing THEN NoURI
                        ELSE IF xmlns[j][p] # NoURI THEN xmlns[j][p] ELSE g[node[j].parent]]
           uri == CHOOSE g : g = Uri(g)
<1>1. N \in Nat /\ Nothing = 0
  BY MembersLemma, ConstantsLemma
<1>2. \A j \in 1..N : node[j].parent \in 0..(j - 1) /\ j \in Nat
  BY <1>1 DEF ParentsOK, Made
<1>3. under \in [1..N -> Nat] /\ \A j \in 1..N : under[j] < j
  BY <1>2
<1>4. NoURI \in V /\ step \in [1..N -> [V -> V]]
  <2>1. \A j \in 1..N : xmlns[j][p] \in V
    <3>1. 1..N \subseteq Ids
      BY MembersLemma DEF Made
    <3> QED
      BY <3>1 DEF TypeOK, Bindings
  <2> HIDE DEF V, N
  <2>2. \A j \in 1..N :
          [v \in V |-> IF xmlns[j][p] # NoURI THEN xmlns[j][p] ELSE v] \in [V -> V]
    BY <2>1
  <2>3. NoURI \in V
    BY DEF V
  <2> QED
    BY <2>2, <2>3
<1>5. PICK g : Follows(g, N, V, NoURI, under, step)
  <2>1. IsChain(N, V, NoURI, under, step)
    <3> HIDE DEF N, V, under, step
    <3> QED
      BY <1>1, <1>3, <1>4 DEF IsChain
  <2> HIDE DEF N, V, step, under
  <2> QED
    BY <2>1, ChainLemma
<1>6. /\ g \in [0..N -> V] /\ g[0] = NoURI
      /\ \A j \in 1..N : g[j] = step[j][g[under[j]]]
  <2> HIDE DEF N, V, step, under
  <2> QED
    BY <1>5 DEF Follows
<1>7. \E f : f = Uri(f)
  <2>1. ASSUME NEW j \in 0..N
        PROVE  g[j] = IF j = Nothing THEN NoURI
                      ELSE IF xmlns[j][p] # NoURI THEN xmlns[j][p] ELSE g[node[j].parent]
    <3>1. CASE j = 0
      BY <1>1, <1>6, <3>1
    <3>2. CASE j # 0
      <4>1. j \in 1..N
        BY <1>1, <3>2
      <4>2. under[j] = node[j].parent /\ node[j].parent \in 0..N
        BY <1>1, <1>2, <4>1
      <4>3. g[node[j].parent] \in V
        <5> HIDE DEF N, V, step, under
        <5> QED
          BY <1>6, <4>2
      <4>4. step[j][g[node[j].parent]] =
              IF xmlns[j][p] # NoURI THEN xmlns[j][p] ELSE g[node[j].parent]
        <5> HIDE DEF V
        <5> QED
          BY <4>1, <4>3
      <4>5. g[j] = step[j][g[under[j]]]
        <5> HIDE DEF N, V, step, under
        <5> QED
          BY <1>6, <4>1
      <4> QED
        BY <1>1, <3>2, <4>2, <4>4, <4>5
    <3> QED
      BY <3>1, <3>2
  <2> HIDE DEF V, step, under, N
  <2>2. g = Uri(g)
    BY <1>6, <2>1
  <2> HIDE DEF Uri
  <2> QED
    BY <2>2
<1>8. uri = Uri(uri)
  <2> HIDE DEF Uri
  <2> QED
    BY <1>7
<1>9. \A i : GetNamespaceURI(i, p) = uri[i]
  BY DEF GetNamespaceURI
<1> HIDE DEF uri
<1>10. \A j \in 0..N :
         uri[j] = IF j = Nothing THEN NoURI
                  ELSE IF xmlns[j][p] # NoURI THEN xmlns[j][p] ELSE uri[node[j].parent]
  BY <1>8
<1>11. \A i \in Made : i \in 0..N /\ i # Nothing
  BY <1>1 DEF Made
<1> QED
  BY <1>9, <1>10, <1>11

\* A prefix means what the document says: at the first element for which it did
\* not, the element would not bind it, and it would not mean that above either.
LEMMA MeaningFound == BInv => PrefixesKeepTheirMeaning
<1> SUFFICES ASSUME BInv
             PROVE  PrefixesKeepTheirMeaning
  OBVIOUS
<1> DEFINE Right(i) ==
             \A p \in XmlPrefixes :
               /\ node[i].tag \notin Foreign
               /\ node[i].meaning[p] # NoURI
               /\ targets \cap Lineage(i) = {}
               => GetNamespaceURI(i, p) = node[i].meaning[p]
           T == {i \in Made : ~Right(i)}
<1>0. TypeOK /\ NodesOK /\ ParentsOK /\ BindingsOK
  BY DEF BInv, IInv
<1>1. SUFFICES ASSUME T # {}
               PROVE  FALSE
  <2>1. \A i \in Made : Right(i)
    BY <1>1
  <2> QED
    BY <2>1 DEF PrefixesKeepTheirMeaning
<1>2. PICK i \in T : \A j \in T : i <= j
  <2>1. T \subseteq Nat
    BY <1>0, MembersLemma
  <2> HIDE DEF T
  <2> QED
    BY <1>1, <2>1, LeastLemma
<1>3. i \in Made /\ ~Right(i)
  OBVIOUS
<1>4. PICK p \in XmlPrefixes :
        /\ ~IsForeign(i)
        /\ node[i].meaning[p] # NoURI
        /\ targets \cap Lineage(i) = {}
        /\ GetNamespaceURI(i, p) # node[i].meaning[p]
  BY <1>3 DEF IsForeign
<1> DEFINE up == node[i].parent
<1>5. Lineage(i) = {i} \cup Lineage(up)
  BY <1>0, <1>3, LineageLemma
<1>6. GetNamespaceURI(i, p) = IF xmlns[i][p] # NoURI THEN xmlns[i][p] ELSE GetNamespaceURI(up, p)
  BY <1>0, <1>3, NamespaceURILemma
<1>7. Keeps(i, p)
  BY <1>0, <1>3, <1>4, <1>5 DEF BindingsOK
<1>8. /\ i # 1 /\ node[i].above = up
      /\ GetNamespaceURI(i, p) = GetNamespaceURI(up, p)
      /\ node[up].meaning[p] = node[i].meaning[p]
  BY <1>0, <1>3, <1>4, <1>6, <1>7 DEF Keeps, ParentsOK
<1>9. /\ up \in Made /\ up < i /\ i \in Nat /\ up \in Nat
      /\ node[i].tag \in Content(node[up].tag)
  BY <1>0, <1>3, <1>4, <1>8, MembersLemma DEF NodesOK
<1>10. ~IsForeign(up)
  <2>1. node[up].tag \in Tags
    BY <1>0, <1>9, MembersLemma
  <2> QED
    BY <1>4, <1>9, <2>1, ContentLemma DEF IsForeign
<1>11. Right(up)
  <2> HIDE DEF Right
  <2>1. up \notin T
    BY <1>2, <1>9
  <2> QED
    BY <1>9, <2>1
<1> QED
  BY <1>4, <1>5, <1>8, <1>10, <1>11 DEF IsForeign

\* Whenever a prefix is looked up it means what the document says there, below
\* any element into which no other was merged.
THEOREM PrefixesKeepTheirMeaningHolds == Spec => []PrefixesKeepTheirMeaning
BY InitBInv, NextBInv, MeaningFound, PTL DEF Spec

---------------------------------------------------------------------------
(* Operations, which are prepared when the WSDL is parsed: the invariant.  *)

\* What is assumed of the WSDLs.
Assumed == OperationsAssumption

\* The operations that Binding.postProcess has not come to are the last ones;
\* the others have their mode, and raised nothing.
LoadingOK ==
  /\ wsdl \in Wsdls
  /\ load \in {"running", "failed", "ready"}
  /\ todo \in Seq(Ops)
  /\ Len(todo) <= Len(Order)
  /\ \A i \in 1..Len(todo) : todo[i] = Order[Len(Order) - Len(todo) + i]
  /\ mode \in [Ops -> Modes \cup {None}]
  /\ \A i \in 1..(Len(Order) - Len(todo)) :
       mode[Order[i]] = GetMode(Order[i]) /\ ~PostProcessRaises(Order[i])
  /\ load # "ready" => style = wsdl.style
  /\ load = "ready" => /\ todo = <<>>
                       /\ style = IF wsdl.style = None THEN "document" ELSE wsdl.style

Sent == {"sent", "called", "error", "answered", "lost", "told"}

\* What is known of a call on its way.
CallOK ==
  /\ call = [phase |-> call.phase, op |-> call.op, request |-> call.request,
             called |-> call.called, reply |-> call.reply, value |-> call.value,
             result |-> call.result, typed |-> call.typed]
  /\ call.phase \in {"none", "raised"} \cup Sent
  /\ call.phase \in Sent => load = "ready" /\ call.op \in Ops
  /\ call.phase = "sent" => call.request = Request(call.op)
  /\ call.phase \in {"called", "answered"} => call.called \in Ops
  /\ call.phase \in {"sent", "called", "error"} => call.reply = <<>>
  /\ call.phase = "answered" /\ call.reply # <<>> =>
       /\ wsdl.ops[call.called].out # None
       /\ call.reply = Answer(call.called)
       /\ call.value \in Values

OperationsInv == LoadingOK /\ CallOK /\ AskedIsCalled /\ AnswerIsFound

\* Each operation of the binding has a place in it.
LEMMA OrderLemma ==
  ASSUME Assumed
  PROVE  /\ Order \in Seq(Ops) /\ Len(Order) \in Nat
         /\ \A i \in 1..Len(Order) : Order[i] \in Ops
         /\ \A o \in Ops : \E i \in 1..Len(Order) : Order[i] = o
         /\ None \notin Ops
<1>1. Order \in Seq(Ops) /\ None \notin Ops
  BY DEF Assumed, OperationsAssumption
<1>2. Len(Order) \in Nat /\ Order \in [1..Len(Order) -> Ops] /\ DOMAIN Order = 1..Len(Order)
  BY <1>1, LenProperties
<1>3. \A i \in 1..Len(Order) : Order[i] \in Ops
  BY <1>2
<1>4. \A o \in Ops : \E i \in 1..Len(Order) : Order[i] = o
  BY <1>2 DEF Ops, ToSet
<1> QED
  BY <1>1, <1>2, <1>3, <1>4

\* What an operation declares.
LEMMA DeclaredOperation ==
  ASSUME Assumed, wsdl \in Wsdls, NEW o \in Ops
  PROVE  /\ wsdl.style \in {"document", "rpc", None}
         /\ wsdl.ops[o].style \in {"document", "rpc", ""}
         /\ wsdl.ops[o].use \in {"literal", "encoded"}
         /\ wsdl.ops[o].in \in {None} \cup Seq(Parts)
         /\ wsdl.ops[o].out \in {None} \cup Seq(Parts)
         /\ wsdl.ops[o].select \in {None} \cup Seq(Nat)
         /\ wsdl.ops[o].outSelect \in {None} \cup Seq(Nat)
         /\ wsdl.ops[o].headers \in Seq(Parts)
         /\ wsdl.ops[o].outName \in {None} \cup ElementNames
BY DEF Assumed, OperationsAssumption

\* The parts that are selected are parts of the message, or missing.
LEMMA SelectedLemma ==
  ASSUME NEW message, message \in {None} \cup Seq(Parts),
         NEW selection, selection \in {None} \cup Seq(Nat)
  PROVE  Selected(message, selection) \in Seq({None} \cup Parts)
<1>1. CASE message = None
  BY <1>1 DEF Selected
<1>2. CASE message # None /\ selection = None
  <2>1. Selected(message, selection) = message /\ message \in Seq(Parts)
    BY <1>2 DEF Selected
  <2>2. \A i \in 1..Len(message) : message[i] \in {None} \cup Parts
    BY <2>1
  <2> QED
    BY <2>1, <2>2
<1>3. CASE message # None /\ selection # None
  <2> DEFINE n == Len(selection)
             chosen == [i \in 1..n |->
               IF selection[i] \in 1..Len(message) THEN message[selection[i]] ELSE None]
  <2>1. Selected(message, selection) = chosen
    BY <1>3 DEF Selected
  <2>2. n \in Nat /\ message \in Seq(Parts)
    BY <1>3
  <2>3. \A i \in 1..n : chosen[i] \in {None} \cup Parts
    BY <2>2
  <2> HIDE DEF n
  <2>4. chosen \in [1..n -> {None} \cup Parts]
    BY <2>3
  <2> QED
    BY <2>1, <2>2, <2>4, SeqDef
<1> QED
  BY <1>1, <1>2, <1>3

\* The elements of parts are elements, and those of the first part come first.
LEMMA ElementsOfLemma ==
  ASSUME NEW parts, parts \in Seq({None} \cup Parts)
  PROVE  /\ ElementsOf(parts) \in Seq(Elements)
         /\ parts # <<>> /\ IsElement(parts[1]) =>
              ElementsOf(parts) # <<>> /\ ElementsOf(parts)[1] = parts[1].element
<1> DEFINE N == Len(parts)
           V == Seq(Elements)
           under == [j \in 1..N |-> j - 1]
           step == [j \in 1..N |->
             [v \in V |-> IF IsElement(parts[j]) THEN Append(v, parts[j].element) ELSE v]]
           UpTo(g) == [i \in 0..N |->
             IF i = 0 THEN <<>>
             ELSE IF IsElement(parts[i]) THEN Append(g[i - 1], parts[i].element) ELSE g[i - 1]]
           upTo == CHOOSE g : g = UpTo(g)
<1>1. N \in Nat
  OBVIOUS
<1>2. \A j \in 1..N : IsElement(parts[j]) => parts[j].element \in Elements
  <2> TAKE j \in 1..N
  <2>1. parts[j] \in {None} \cup Parts
    OBVIOUS
  <2> QED
    BY <2>1 DEF IsElement, Parts
<1>3. IsChain(N, V, <<>>, under, step)
  <2>1. under \in [1..N -> Nat] /\ \A j \in 1..N : under[j] < j
    BY <1>1
  <2>2. \A j \in 1..N, v \in V :
          (IF IsElement(parts[j]) THEN Append(v, parts[j].element) ELSE v) \in V
    BY <1>2
  <2>3. <<>> \in V
    OBVIOUS
  <2> HIDE DEF V, N
  <2>4. step \in [1..N -> [V -> V]]
    BY <2>2
  <2> HIDE DEF under, step
  <2> QED
    BY <1>1, <2>1, <2>3, <2>4 DEF IsChain
<1>4. PICK g : Follows(g, N, V, <<>>, under, step)
  <2> HIDE DEF N, V, under, step
  <2> QED
    BY <1>3, ChainLemma
<1>5. /\ g \in [0..N -> V] /\ g[0] = <<>>
      /\ \A j \in 1..N : g[j] = step[j][g[under[j]]]
  <2> HIDE DEF N, V, under, step
  <2> QED
    BY <1>4 DEF Follows
<1>6. \A j \in 1..N :
        /\ j - 1 \in 0..N
        /\ g[j] = IF IsElement(parts[j]) THEN Append(g[j - 1], parts[j].element) ELSE g[j - 1]
  <2> TAKE j \in 1..N
  <2>1. under[j] = j - 1 /\ j - 1 \in 0..N
    BY <1>1
  <2>2. g[j - 1] \in V
    <3> HIDE DEF N, V, under, step
    <3> QED
      BY <1>5, <2>1
  <2>3. step[j][g[j - 1]] =
          IF IsElement(parts[j]) THEN Append(g[j - 1], parts[j].element) ELSE g[j - 1]
    <3> HIDE DEF V
    <3> QED
      BY <2>2
  <2>4. g[j] = step[j][g[j - 1]]
    <3> HIDE DEF N, V, step
    <3> QED
      BY <1>5, <2>1
  <2> QED
    BY <2>1, <2>3, <2>4
<1>7. g = UpTo(g)
  <2>1. \A i \in 0..N : i = 0 \/ i \in 1..N
    BY <1>1
  <2> HIDE DEF N, V, under, step
  <2>2. ASSUME NEW i \in 0..N
        PROVE  g[i] = IF i = 0 THEN <<>>
                      ELSE IF IsElement(parts[i]) THEN Append(g[i - 1], parts[i].element)
                      ELSE g[i - 1]
    BY <1>5, <1>6, <2>1
  <2> QED
    BY <1>5, <2>2
<1>8. upTo = UpTo(upTo)
  <2> HIDE DEF UpTo
  <2> QED
    BY <1>7
<1>9. ElementsOf(parts) = upTo[N]
  BY DEF ElementsOf
<1> HIDE DEF upTo
<1>10. \A i \in 0..N :
         upTo[i] = IF i = 0 THEN <<>>
                   ELSE IF IsElement(parts[i]) THEN Append(upTo[i - 1], parts[i].element)
                   ELSE upTo[i - 1]
  BY <1>8
<1> HIDE DEF N, V, step, under, UpTo
\* The first number at which it would not hold comes after one at which it does.
<1>11. \A i \in 0..N :
         /\ upTo[i] \in V
         /\ i >= 1 /\ IsElement(parts[1]) =>
              upTo[i] # <<>> /\ upTo[i][1] = parts[1].element
  <2> DEFINE Good(i) == /\ upTo[i] \in V
                        /\ i >= 1 /\ IsElement(parts[1]) =>
                             upTo[i] # <<>> /\ upTo[i][1] = parts[1].element
             T == {i \in 0..N : ~Good(i)}
  <2> SUFFICES ASSUME T # {}
               PROVE  FALSE
    OBVIOUS
  <2>1. PICK i \in T : \A k \in T : i <= k
    <3>1. T \subseteq Nat
      BY <1>1
    <3> HIDE DEF T
    <3> QED
      BY <3>1, LeastLemma
  <2>2. i \in 0..N /\ ~Good(i)
    OBVIOUS
  <2>3. CASE i = 0
    <3>1. upTo[0] = <<>> /\ <<>> \in V
      BY <1>1, <1>10 DEF V
    <3> QED
      BY <2>2, <2>3, <3>1
  <2>4. CASE i # 0
    <3> DEFINE h == i - 1
    <3>1. h \in 0..N /\ h < i /\ i \in 1..N
      BY <1>1, <2>2, <2>4
    <3>2. Good(h)
      <4>1. h \notin T
        BY <2>1, <3>1
      <4> HIDE DEF Good
      <4> QED
        BY <3>1, <4>1
    <3>3. upTo[i] = IF IsElement(parts[i]) THEN Append(upTo[h], parts[i].element) ELSE upTo[h]
      BY <1>10, <2>2, <2>4
    <3>4. IsElement(parts[i]) => parts[i].element \in Elements
      BY <1>2, <3>1
    <3>5. upTo[h] \in Seq(Elements)
      BY <3>2 DEF V
    <3>6. upTo[i] \in V
      BY <3>3, <3>4, <3>5 DEF V
    <3>7. ASSUME IsElement(parts[1])
          PROVE  upTo[i] # <<>> /\ upTo[i][1] = parts[1].element
      <4>1. CASE i = 1
        <5>1. upTo[h] = <<>>
          BY <1>1, <1>10, <4>1
        <5> QED
          BY <3>3, <3>4, <3>7, <4>1, <5>1
      <4>2. CASE i # 1
        <5>1. upTo[h] # <<>> /\ upTo[h][1] = parts[1].element
          BY <3>1, <3>2, <3>7, <4>2
        <5> QED
          BY <3>3, <3>4, <3>5, <5>1
      <4> QED
        BY <4>1, <4>2
    <3> QED
      BY <2>2, <3>6, <3>7
  <2> QED
    BY <2>3, <2>4
<1>12. N \in 0..N /\ (parts # <<>> => N >= 1)
  BY <1>1 DEF N
<1> QED
  BY <1>9, <1>11, <1>12 DEF V

\* When the WSDL is loaded, each operation has its mode and raised nothing.
LEMMA ModesLemma ==
  ASSUME Assumed, LoadingOK, load = "ready", NEW o \in Ops
  PROVE  mode[o] = GetMode(o) /\ ~PostProcessRaises(o)
<1>1. PICK i \in 1..Len(Order) : Order[i] = o
  BY OrderLemma
<1>2. todo = <<>>
  BY DEF LoadingOK
<1>3. i \in 1..(Len(Order) - Len(todo))
  BY <1>1, <1>2, OrderLemma
<1> QED
  BY <1>1, <1>3 DEF LoadingOK

\* The modes by the style of an operation.
LEMMA StyleLemma ==
  ASSUME Assumed, LoadingOK, load = "ready", NEW o \in Ops
  PROVE  /\ IsRpc(o) <=> StyleOf(o) = "rpc"
         /\ mode[o] = "documentLiteral" => IsLiteral(o)
         /\ mode[o] = "documentLiteralWrapped" =>
              IsLiteral(o) /\ MayBeWrapped(o) /\ Len(OutParts(o)) = 1
<1>1. mode[o] = GetMode(o)
  BY ModesLemma
<1>2. wsdl.ops[o].use \in {"literal", "encoded"}
  BY DeclaredOperation DEF LoadingOK
<1>3. None \notin Modes
  BY DEF Assumed, OperationsAssumption
<1>4. CASE IsLiteral(o)
  <2>1. StyleOf(o) = "document"
    BY <1>4 DEF IsLiteral
  <2>2. mode[o] = IF MayBeWrapped(o) /\ Len(OutParts(o)) = 1
                    THEN "documentLiteralWrapped" ELSE "documentLiteral"
    BY <1>1, <1>4, <2>1 DEF GetMode
  <2> QED
    BY <1>4, <2>1, <2>2 DEF IsRpc
<1>5. CASE StyleOf(o) = "document" /\ ~IsLiteral(o)
  BY <1>1, <1>5 DEF GetMode, IsRpc
<1>6. CASE StyleOf(o) = "rpc"
  <2>1. ~IsLiteral(o)
    BY <1>6 DEF IsLiteral
  <2> QED
    BY <1>1, <1>2, <1>6, <2>1 DEF GetMode, IsRpc
<1>7. CASE StyleOf(o) \notin {"document", "rpc"}
  <2>1. ~IsLiteral(o)
    BY <1>7 DEF IsLiteral
  <2>2. mode[o] = None
    BY <1>1, <1>7, <2>1 DEF GetMode
  <2> QED
    BY <1>3, <1>7, <2>2 DEF IsRpc, Modes
<1> QED
  BY <1>4, <1>5, <1>6, <1>7

\* What Operation.describe names is what Server._process looks for.
LEMMA FoundLemma ==
  ASSUME Assumed, LoadingOK, load = "ready", NEW o \in Ops,
         call.request = Request(o), CanBeFound(o)
  PROVE  Found = o
<1>0. wsdl \in Wsdls /\ style = IF wsdl.style = None THEN "document" ELSE wsdl.style
  BY DEF LoadingOK
<1>1. StyleOf(o) = wsdl.style
  BY DEF CanBeFound
<1>2. None \notin ElementNames /\ None \notin Parts /\ None \notin {"document", "rpc"}
  BY DEF Assumed, OperationsAssumption
<1>3. CASE wsdl.style = "rpc"
  <2>0. IsRpc(o)
    BY <1>1, <1>3, StyleLemma
  <2>1. call.request = <<Name(o, "")>>
    <3>1. mode[o] # "documentLiteralWrapped"
      BY <2>0 DEF IsRpc
    <3> QED
      BY <2>0, <3>1, Zenon DEF Request, BodyElements
  <2>2. Key = Name(o, "")
    <3> DEFINE name == Name(o, "")
    <3>1. call.request = <<name>>
      BY <2>1
    <3> HIDE DEF name
    <3>2. <<name>> # <<>> /\ <<name>>[1] = name
      OBVIOUS
    <3>3. Key = name
      BY <3>1, <3>2 DEF Key
    <3> QED
      BY <3>3 DEF name
  <2>3. Name(o, "") \in ElementNames /\ Key.suffix = "" /\ Key.base = o
    BY <2>2 DEF Name, ElementNames, NameSuffixes
  <2>4. style = "rpc"
    BY <1>0, <1>2, <1>3
  <2> QED
    BY <1>2, <2>2, <2>3, <2>4 DEF Found
<1>4. CASE wsdl.style # "rpc"
  <2> DEFINE in == wsdl.ops[o].in
             first(p) == FirstElement(wsdl.ops[p].in)
             at == CHOOSE i \in 1..Len(Order) : Order[i] = o
  <2>1. at \in 1..Len(Order) /\ Order[at] = o
    BY OrderLemma
  <2>2. /\ \A i \in 1..at : first(Order[i]) # None
        /\ \A i \in 1..(at - 1) : first(Order[i]) # first(o)
        /\ \/ wsdl.ops[o].select = None
           \/ wsdl.ops[o].select # <<>> /\ wsdl.ops[o].select[1] = 1
        /\ wsdl.ops[o].out = None \/ FirstElement(wsdl.ops[o].out) # None
    BY <1>4 DEF CanBeFound
  <2> HIDE DEF at
  <2>3. at \in Nat /\ at \in 1..at /\ first(o) # None
    <3>1. at \in Nat /\ at \in 1..at
      BY <2>1, OrderLemma
    <3> HIDE DEF first
    <3> QED
      BY <2>1, <2>2, <3>1
  <2>4. /\ in \in Seq(Parts) /\ in # <<>>
        /\ in[1].element # None /\ first(o) = in[1].element
    BY <1>0, <2>3, DeclaredOperation DEF FirstElement
  <2>5. in[1] \in Parts /\ IsElement(in[1])
    BY <1>2, <2>4 DEF IsElement
  <2>6. /\ InParts(o) # <<>> /\ InParts(o)[1] = in[1]
        /\ InParts(o) \in Seq({None} \cup Parts)
    <3> DEFINE select == wsdl.ops[o].select
    <3>1. select \in {None} \cup Seq(Nat) /\ in \in {None} \cup Seq(Parts)
      BY <1>0, DeclaredOperation
    <3>2. InParts(o) \in Seq({None} \cup Parts) /\ InParts(o) = Selected(in, select)
      BY <3>1, SelectedLemma DEF InParts
    <3>3. in # None
      BY <2>3 DEF FirstElement
    <3> HIDE DEF in, select
    <3>4. CASE select = None
      BY <2>4, <3>2, <3>3, <3>4 DEF Selected
    <3>5. CASE select # None
      <4>1. select \in Seq(Nat) /\ select # <<>> /\ select[1] = 1
        BY <2>2, <3>1, <3>5 DEF select
      <4>2. InParts(o) = [i \in 1..Len(select) |->
              IF select[i] \in 1..Len(in) THEN in[select[i]] ELSE None]
        BY <3>2, <3>3, <3>5 DEF Selected
      <4>3. 1 \in 1..Len(select) /\ 1 \in 1..Len(in)
        BY <2>4, <4>1
      <4>4. InParts(o)[1] = in[1]
        BY <4>1, <4>2, <4>3
      <4>5. InParts(o) # <<>>
        BY <4>2, <4>3
      <4> QED
        BY <3>2, <4>4, <4>5
    <3> QED
      BY <3>4, <3>5
  <2>7. ElementsOf(InParts(o)) \in Seq(Elements) /\ ElementsOf(InParts(o)) # <<>>
        /\ ElementsOf(InParts(o))[1] = first(o)
    <3> HIDE DEF in, first
    <3> QED
      BY <2>4, <2>5, <2>6, ElementsOfLemma
  <2>8. Key = first(o)
    <3> HIDE DEF first
    <3>1. ~IsRpc(o)
      BY <1>1, <1>4, StyleLemma
    <3>2. \/ Request(o) = ElementsOf(InParts(o))
          \/ Request(o) = SubSeq(ElementsOf(InParts(o)), 1, 1)
      BY <3>1 DEF Request, BodyElements
    <3>3. SubSeq(ElementsOf(InParts(o)), 1, 1) # <<>>
          /\ SubSeq(ElementsOf(InParts(o)), 1, 1)[1] = ElementsOf(InParts(o))[1]
      BY <2>7
    <3> QED
      BY <2>7, <3>2, <3>3 DEF Key
  <2>9. LookUp = o
    <3> DEFINE found == {i \in 1..Len(Order) :
                          first(Order[i]) = Key /\ \A j \in 1..i : first(Order[j]) # None}
               least == CHOOSE i \in found : \A j \in found : i <= j
    <3> HIDE DEF first
    <3>1. at \in found
      BY <2>1, <2>2, <2>8
    <3>2. \A i \in found : at <= i
      <4> SUFFICES ASSUME NEW i \in found, ~(at <= i)
                   PROVE  FALSE
        OBVIOUS
      <4>1. i \in 1..(at - 1)
        BY <2>3, OrderLemma
      <4> QED
        BY <2>2, <2>8, <4>1
    <3>3. least = at
      <4>1. found \subseteq Nat
        BY OrderLemma
      <4> HIDE DEF found
      <4>2. least \in found /\ \A j \in found : least <= j
        BY <3>1, <3>2
      <4>3. at <= least /\ least <= at /\ least \in Nat
        <5> HIDE DEF least
        <5> QED
          BY <3>1, <3>2, <4>1, <4>2
      <4> HIDE DEF least
      <4> QED
        BY <2>3, <4>3
    <3>4. LookUp = IF found = {} THEN None ELSE Order[least]
      BY DEF LookUp, first
    <3> HIDE DEF found, least
    <3> QED
      BY <2>1, <3>1, <3>3, <3>4
  <2>10. style # "rpc"
    BY <1>0, <1>4
  <2>11. o # None
    BY OrderLemma
  <2> QED
    BY <2>2, <2>9, <2>10, <2>11 DEF Found
<1> QED
  BY <1>3, <1>4

\* The server finds an operation of the binding, or none.
LEMMA FoundType ==
  ASSUME Assumed
  PROVE  Found \in Ops \cup {None}
<1> DEFINE found == {i \in 1..Len(Order) :
                       /\ FirstElement(wsdl.ops[Order[i]].in) = Key
                       /\ \A j \in 1..i : FirstElement(wsdl.ops[Order[j]].in) # None}
           least == CHOOSE i \in found : \A j \in found : i <= j
<1>1. LookUp = IF found = {} THEN None ELSE Order[least]
  BY DEF LookUp
<1>2. found # {} => least \in found
  <2>1. found \subseteq Nat
    BY OrderLemma
  <2> HIDE DEF found
  <2> QED
    BY <2>1, LeastLemma
<1>3. LookUp \in Ops \cup {None}
  <2>1. \A i \in found : Order[i] \in Ops
    BY OrderLemma
  <2> HIDE DEF found, least
  <2> QED
    BY <1>1, <1>2, <2>1
<1> QED
  BY <1>3 DEF Found

\* The names in an answer, by the mode of the operation.
LEMMA AnswerLemma ==
  ASSUME Assumed, LoadingOK, load = "ready", NEW o \in Ops
  PROVE  /\ Answer(o) \in Seq(ElementNames)
         /\ IsRpc(o) => Answer(o) = <<Name(o, "Response")>>
         /\ mode[o] = "documentLiteralWrapped" => Len(Answer(o)) = 1
         /\ mode[o] = "documentLiteral" => OutElements(o) = Answer(o)
<1> DEFINE parts == OutParts(o)
           name == Name(o, "Response")
<1>0. Elements \subseteq ElementNames /\ name \in ElementNames
  BY DEF Assumed, OperationsAssumption, Name, ElementNames, NameSuffixes
<1>1. /\ wsdl.ops[o].out \in {None} \cup Seq(Parts)
      /\ wsdl.ops[o].outSelect \in {None} \cup Seq(Nat)
  BY DeclaredOperation DEF LoadingOK
<1>2. parts \in Seq({None} \cup Parts)
  BY <1>1, SelectedLemma DEF OutParts
<1>3. ElementsOf(parts) \in Seq(ElementNames)
  <2>1. ElementsOf(parts) \in Seq(Elements)
    BY <1>2, ElementsOfLemma
  <2> QED
    BY <1>0, <2>1
<1> HIDE DEF parts, name
<1>4. CASE IsRpc(o)
  <2>1. mode[o] # "documentLiteralWrapped" /\ mode[o] # "documentLiteral"
    BY <1>4 DEF IsRpc
  <2>2. Answer(o) = <<name>>
    BY <1>4, <2>1, Zenon DEF Answer, BodyElements, name
  <2> QED
    BY <1>0, <2>1, <2>2 DEF name
<1>5. CASE ~IsRpc(o) /\ mode[o] = "documentLiteralWrapped"
  <2>1. Answer(o) = SubSeq(ElementsOf(parts), 1, 1)
    BY <1>5, Zenon DEF Answer, BodyElements, parts
  <2>2. IsLiteral(o) /\ MayBeWrapped(o) /\ Len(parts) = 1 /\ ~PostProcessRaises(o)
    BY <1>5, StyleLemma, ModesLemma DEF parts
  <2>3. parts # <<>> /\ IsElement(parts[1])
    <3>1. DOMAIN parts = 1..1
      BY <1>2, <2>2
    <3>2. parts[1] \in ToSet(parts)
      BY <3>1 DEF ToSet
    <3>3. \A part \in ToSet(parts) : IsElement(part)
      BY <2>2 DEF PostProcessRaises, parts
    <3>4. parts # <<>>
      BY <2>2
    <3> QED
      BY <3>2, <3>3, <3>4
  <2>4. ElementsOf(parts) # <<>>
    BY <1>2, <2>3, ElementsOfLemma
  <2>5. Answer(o) \in Seq(ElementNames) /\ Len(Answer(o)) = 1
    BY <1>3, <2>1, <2>4
  <2> QED
    BY <1>5, <2>5
<1>6. CASE ~IsRpc(o) /\ mode[o] # "documentLiteralWrapped"
  <2>1. Answer(o) = ElementsOf(parts)
    BY <1>6, Zenon DEF Answer, BodyElements, parts
  <2>2. OutElements(o) = Answer(o)
    BY <1>6, Zenon DEF OutElements
  <2> QED
    BY <1>3, <1>6, <2>1, <2>2
<1> QED
  BY <1>4, <1>5, <1>6

\* The client has a descriptor for the first element of an answer.
LEMMA EnvelopeLemma ==
  ASSUME Assumed, LoadingOK, load = "ready", NEW o \in Ops, Answer(o) # <<>>
  PROVE  Answer(o)[1] \in ToSet(OutputEnvelope(o))
<1> DEFINE answer == Answer(o)
           others == ElementsOf(wsdl.ops[o].headers)
<1>1. answer \in Seq(ElementNames) /\ answer # <<>>
  BY AnswerLemma
<1>2. others \in Seq(ElementNames)
  <2> DEFINE headers == wsdl.ops[o].headers
  <2>1. headers \in Seq(Parts)
    BY DeclaredOperation DEF LoadingOK
  <2> HIDE DEF headers
  <2>2. headers \in Seq({None} \cup Parts)
    BY <2>1
  <2>3. ElementsOf(headers) \in Seq(Elements) /\ Elements \subseteq ElementNames
    BY <2>2, ElementsOfLemma DEF Assumed, OperationsAssumption
  <2> QED
    BY <2>3 DEF headers
<1>3. OutputEnvelope(o) = answer \o others
  BY DEF OutputEnvelope
<1> HIDE DEF answer, others
<1>4. 1 \in DOMAIN (answer \o others) /\ (answer \o others)[1] = answer[1]
  BY <1>1, <1>2
<1> QED
  BY <1>3, <1>4 DEF ToSet, answer

\* What the client reads from an answer with one element.
LEMMA InReplyLemma ==
  ASSUME NEW r, call.reply = <<r>>
  PROVE  /\ ToSet(call.reply) = {r}
         /\ \A n : InReply(n) = IF n = r THEN call.value ELSE None
<1>1. call.reply # <<>> /\ call.reply[1] = r /\ DOMAIN call.reply = {1}
  OBVIOUS
<1>2. ToSet(call.reply) = {r}
  BY <1>1 DEF ToSet
<1>3. ASSUME NEW n
      PROVE  InReply(n) = IF n = r THEN call.value ELSE None
  <2>1. CASE n = r
    BY <1>1, <2>1, Zenon DEF InReply
  <2>2. CASE n # r
    <3>1. n \notin ToSet(call.reply)
      BY <1>2, <2>2
    <3> QED
      BY <1>1, <2>2, <3>1, Zenon DEF InReply
  <2> QED
    BY <2>1, <2>2
<1> QED
  BY <1>2, <1>3

\* The element of an answer that is called after the operation, with a suffix.
LEMMA BySuffixLemma ==
  ASSUME NEW r, call.reply = <<r>>, NEW o \in Ops,
         None \notin Values, call.value \in Values
  PROVE  /\ BySuffix(o) \in {None, call.value}
         /\ (\E s \in NameSuffixes \ {""} : r = Name(o, s)) => BySuffix(o) = call.value
<1> DEFINE some == {s \in {"Response", "Out", "Output"} : Name(o, s) \in ToSet(call.reply)}
<1>1. \A s, t : Name(o, s) = Name(o, t) => s = t
  BY DEF Name
<1>2. \A s \in {"Response", "Out", "Output"} : s \in some <=> Name(o, s) = r
  BY InReplyLemma
<1>3. \A s \in some, t \in some : s = t
  BY <1>1, <1>2
<1>4. some \subseteq {"Response", "Out", "Output"}
  OBVIOUS
<1>5. \A s \in some : InReply(Name(o, s)) = call.value
  BY <1>2, <1>4, InReplyLemma
<1>6. BySuffix(o) =
        CASE "Output" \in some                         -> InReply(Name(o, "Output"))
          [] "Output" \notin some /\ "Out" \in some    -> InReply(Name(o, "Out"))
          [] some = {"Response"}                       -> InReply(Name(o, "Response"))
          [] OTHER                                     -> None
  BY DEF BySuffix
<1> HIDE DEF some
<1>7. CASE some = {}
  <2>1. BySuffix(o) = None
    BY <1>6, <1>7
  <2>2. ~\E s \in NameSuffixes \ {""} : r = Name(o, s)
    BY <1>2, <1>7 DEF NameSuffixes
  <2> QED
    BY <2>1, <2>2
<1>8. CASE some # {}
  <2>1. some = {"Response"} \/ some = {"Out"} \/ some = {"Output"}
    BY <1>3, <1>4, <1>8
  <2>2. BySuffix(o) = call.value
    <3>1. CASE some = {"Response"}
      BY <1>5, <1>6, <3>1
    <3>2. CASE some = {"Out"}
      BY <1>5, <1>6, <3>2
    <3>3. CASE some = {"Output"}
      BY <1>5, <1>6, <3>3
    <3> QED
      BY <2>1, <3>1, <3>2, <3>3
  <2> QED
    BY <2>2
<1> QED
  BY <1>7, <1>8

\* The client finds the value of the answer, if it can.
LEMMA ResultLemma ==
  ASSUME Assumed, LoadingOK, load = "ready", NEW o \in Ops,
         call.reply = Answer(o), call.reply # <<>>, call.value \in Values,
         CanBeRead(o, call.value)
  PROVE  Result(o) = call.value
<1> DEFINE first == IF OutElements(o) = <<>> THEN None ELSE InReply(OutElements(o)[1])
           outName == wsdl.ops[o].outName
           stripped == IF outName = None THEN None ELSE InReply(Name(outName.base, ""))
<1>1. Result(o) = IF IsTruthy(first) THEN first
                  ELSE IF IsTruthy(stripped) \/ BySuffix(o) = None THEN stripped
                  ELSE BySuffix(o)
  BY DEF Result
<1>2. None \notin Values /\ ~IsTruthy(None) /\ IsTruthy("truthy")
  BY DEF Assumed, OperationsAssumption, IsTruthy, Values
<1>3. CASE mode[o] = "documentLiteral"
  <2>1. ~IsRpc(o) /\ mode[o] # "documentLiteralWrapped"
    BY <1>3 DEF IsRpc
  <2>2. call.value = "truthy"
    BY <1>3, <2>1 DEF CanBeRead
  <2>3. OutElements(o) = call.reply
    BY <1>3, AnswerLemma
  <2>4. first = call.value
    BY <2>3, Zenon DEF InReply
  <2> HIDE DEF first, stripped
  <2> QED
    BY <1>1, <1>2, <2>2, <2>4
<1>4. CASE mode[o] # "documentLiteral"
  <2> DEFINE r == call.reply[1]
  <2>1. call.reply = <<r>>
    <3>1. call.reply \in Seq(ElementNames)
      BY AnswerLemma
    <3>2. Len(call.reply) = 1
      <4>1. CASE IsRpc(o)
        BY <4>1, AnswerLemma
      <4>2. CASE ~IsRpc(o)
        BY <1>4, <4>2, AnswerLemma DEF CanBeRead
      <4> QED
        BY <4>1, <4>2
    <3> QED
      BY <3>1, <3>2
  <2>2. \A n : InReply(n) = IF n = r THEN call.value ELSE None
    BY <2>1, InReplyLemma
  <2>3. first \in {None, call.value} /\ stripped \in {None, call.value}
    BY <2>2
  <2>4. BySuffix(o) \in {None, call.value}
    BY <1>2, <2>1, BySuffixLemma
  <2>5. stripped = call.value \/ BySuffix(o) = call.value
    <3>1. CASE \E s \in NameSuffixes \ {""} : r = Name(o, s)
      BY <1>2, <2>1, <3>1, BySuffixLemma
    <3>2. CASE IsRpc(o)
      <4>1. r = Name(o, "Response")
        BY <3>2, AnswerLemma
      <4> QED
        BY <3>1, <4>1 DEF NameSuffixes
    <3>3. CASE outName # None /\ r = Name(outName.base, "")
      BY <2>2, <3>3
    <3> QED
      BY <1>4, <3>1, <3>2, <3>3 DEF CanBeRead
  <2> HIDE DEF first, stripped, r
  <2> QED
    BY <1>1, <1>2, <2>3, <2>4, <2>5
<1> QED
  BY <1>3, <1>4

---------------------------------------------------------------------------
(* Operations: the steps.                                                  *)

\* Before any WSDL is loaded.
LEMMA InitOperations == Assumed /\ OpInit => OperationsInv
<1> SUFFICES ASSUME Assumed, OpInit
             PROVE  OperationsInv
  OBVIOUS
<1>1. LoadingOK
  <2>1. todo = Order /\ Order \in Seq(Ops) /\ Len(Order) \in Nat
    BY OrderLemma DEF OpInit
  <2>2. \A i \in 1..Len(todo) : todo[i] = Order[Len(Order) - Len(todo) + i]
    BY <2>1
  <2>3. 1..(Len(Order) - Len(todo)) = {}
    BY <2>1
  <2>4. wsdl \in Wsdls /\ load = "running" /\ mode \in [Ops -> Modes \cup {None}]
        /\ style = wsdl.style
    BY DEF OpInit
  <2> QED
    BY <2>1, <2>2, <2>3, <2>4 DEF LoadingOK
<1>2. call = NoCall
  BY DEF OpInit
<1>3. CallOK /\ AskedIsCalled /\ AnswerIsFound
  BY <1>2 DEF NoCall, CallOK, Sent, AskedIsCalled, AnswerIsFound
<1> QED
  BY <1>1, <1>3 DEF OperationsInv

\* What depends on the WSDL and the modes alone stays with them.
LEMMA SameDescriptors ==
  ASSUME wsdl' = wsdl, mode' = mode
  PROVE  \A o : /\ GetMode(o)' = GetMode(o)
                /\ Request(o)' = Request(o)
                /\ Answer(o)' = Answer(o)
                /\ CanBeFound(o)' = CanBeFound(o)
                /\ PostProcessRaises(o)' = PostProcessRaises(o)
                /\ \A v : CanBeRead(o, v)' = CanBeRead(o, v)
<1> TAKE o
<1>1. /\ StyleOf(o)' = StyleOf(o)
      /\ InParts(o)' = InParts(o) /\ OutParts(o)' = OutParts(o)
      /\ IsRpc(o)' = IsRpc(o)
  BY DEF StyleOf, InParts, OutParts, IsRpc
<1>2. IsLiteral(o)' = IsLiteral(o) /\ MayBeWrapped(o)' = MayBeWrapped(o)
  BY <1>1 DEF IsLiteral, MayBeWrapped
<1>3. GetMode(o)' = GetMode(o) /\ PostProcessRaises(o)' = PostProcessRaises(o)
  BY <1>1, <1>2 DEF GetMode, PostProcessRaises
<1>4. Request(o)' = Request(o) /\ Answer(o)' = Answer(o)
  BY <1>1 DEF Request, Answer, BodyElements
<1>5. CanBeFound(o)' = CanBeFound(o)
  BY <1>1 DEF CanBeFound
<1>6. \A v : CanBeRead(o, v)' = CanBeRead(o, v)
  BY <1>1, <1>4 DEF CanBeRead
<1> QED
  BY <1>3, <1>4, <1>5, <1>6

\* While the WSDL is loaded no call is under way.
LEMMA NotSent ==
  ASSUME CallOK, load # "ready", call' = call
  PROVE  CallOK' /\ AskedIsCalled' /\ AnswerIsFound'
<1>1. call.phase \notin Sent
  BY DEF CallOK
<1> QED
  BY <1>1 DEF CallOK, Sent, AskedIsCalled, AnswerIsFound

\* The next operation gets its mode, or raises.
LEMMA PostProcessStep ==
  ASSUME Assumed, OperationsInv, PostProcess
  PROVE  OperationsInv'
<1> DEFINE o == Head(todo)
           N == Len(Order)
           n == Len(todo)
<1>0. LoadingOK /\ CallOK
  BY DEF OperationsInv
<1>1. /\ load = "running" /\ todo # <<>>
      /\ wsdl' = wsdl /\ style' = style /\ call' = call
  BY DEF PostProcess
<1>2. CallOK' /\ AskedIsCalled' /\ AnswerIsFound'
  BY <1>0, <1>1, NotSent
<1>3. /\ todo \in Seq(Ops) /\ n \in Nat /\ n >= 1 /\ N \in Nat /\ n <= N
      /\ o = todo[1] /\ o \in Ops
  <2>1. todo \in Seq(Ops) /\ n <= N
    BY <1>0 DEF LoadingOK
  <2>2. N \in Nat
    BY OrderLemma
  <2> QED
    BY <1>1, <2>1, <2>2
<1>4. \A x : GetMode(x)' = GetMode(x) /\ PostProcessRaises(x)' = PostProcessRaises(x)
  <2> TAKE x
  <2>1. /\ StyleOf(x)' = StyleOf(x)
        /\ InParts(x)' = InParts(x) /\ OutParts(x)' = OutParts(x)
    BY <1>1 DEF StyleOf, InParts, OutParts
  <2>2. IsLiteral(x)' = IsLiteral(x) /\ MayBeWrapped(x)' = MayBeWrapped(x)
    BY <1>1, <2>1 DEF IsLiteral, MayBeWrapped
  <2> QED
    BY <2>1, <2>2 DEF GetMode, PostProcessRaises
<1>5. CASE PostProcessRaises(o)
  <2>1. load' = "failed" /\ todo' = todo /\ mode' = mode
    BY <1>5 DEF PostProcess
  <2>2. LoadingOK'
    BY <1>0, <1>1, <1>4, <2>1 DEF LoadingOK
  <2> QED
    BY <1>2, <2>2 DEF OperationsInv
<1>6. CASE ~PostProcessRaises(o)
  <2>1. mode' = [mode EXCEPT ![o] = GetMode(o)] /\ todo' = Tail(todo) /\ load' = "running"
    BY <1>1, <1>6 DEF PostProcess
  <2>2. /\ todo' \in Seq(Ops) /\ Len(todo') = n - 1
        /\ \A i \in 1..(n - 1) : todo'[i] = todo[i + 1]
    BY <1>3, <2>1
  <2>3. GetMode(o) \in Modes \cup {None}
    <3>1. GetMode(o) \in Modes \/ GetMode(o) = None
      BY DEF GetMode, Modes, IsLiteral
    <3> QED
      BY <3>1
  <2>4. mode' \in [Ops -> Modes \cup {None}]
    BY <1>0, <1>3, <2>1, <2>3 DEF LoadingOK
  <2>2a. Len(todo') = n - 1 /\ n \in Nat /\ N \in Nat /\ n >= 1 /\ n <= N
    BY <1>3, <2>2
  <2>5. \A i \in 1..Len(todo') : todo'[i] = Order[N - Len(todo') + i]
    <3> TAKE i \in 1..Len(todo')
    <3>1. i \in 1..(n - 1) /\ i + 1 \in 1..n /\ N - n + (i + 1) = N - Len(todo') + i
      <4> HIDE DEF n, N
      <4> QED
        BY <2>2a
    <3>2. todo[i + 1] = Order[N - n + (i + 1)]
      BY <1>0, <3>1 DEF LoadingOK
    <3> QED
      BY <2>2, <3>1, <3>2
  <2>6. \A i \in 1..(N - Len(todo')) :
          mode'[Order[i]] = GetMode(Order[i]) /\ ~PostProcessRaises(Order[i])
    <3> TAKE i \in 1..(N - Len(todo'))
    <3>1. i \in 1..(N - n) \/ i = N - n + 1
      <4> HIDE DEF n, N
      <4> QED
        BY <2>2a
    <3>2. i \in 1..N
      <4> HIDE DEF n, N
      <4> QED
        BY <2>2a
    <3>3. Order[i] \in Ops
      BY <3>2, OrderLemma
    <3>4. CASE i = N - n + 1
      <4>1. 1 \in 1..Len(todo)
        BY <1>3
      <4>2. Order[i] = o
        BY <1>0, <1>3, <3>4, <4>1 DEF LoadingOK
      <4> QED
        BY <1>0, <1>6, <2>1, <3>3, <4>2 DEF LoadingOK
    <3>5. CASE i \in 1..(N - n)
      <4>1. mode[Order[i]] = GetMode(Order[i]) /\ ~PostProcessRaises(Order[i])
        BY <1>0, <3>5 DEF LoadingOK
      <4> HIDE DEF o
      <4> QED
        BY <1>0, <2>1, <3>3, <4>1 DEF LoadingOK
    <3> QED
      BY <3>1, <3>4, <3>5
  <2>7. Len(todo') <= N
    BY <1>3, <2>2
  <2> HIDE DEF o, n, N
  <2>8. LoadingOK'
    BY <1>0, <1>1, <1>4, <2>1, <2>2, <2>4, <2>5, <2>6, <2>7 DEF LoadingOK, N
  <2> QED
    BY <1>2, <2>8 DEF OperationsInv
<1> QED
  BY <1>5, <1>6

\* The binding gets its default style.
LEMMA SetDefaultStyleStep ==
  ASSUME Assumed, OperationsInv, SetDefaultStyle
  PROVE  OperationsInv'
<1>0. LoadingOK /\ CallOK
  BY DEF OperationsInv
<1>1. /\ load = "running" /\ load' = "ready" /\ todo = <<>>
      /\ style' = IF style = None THEN "document" ELSE style
      /\ wsdl' = wsdl /\ todo' = todo /\ mode' = mode /\ call' = call
  BY DEF SetDefaultStyle
<1>2. CallOK' /\ AskedIsCalled' /\ AnswerIsFound'
  BY <1>0, <1>1, NotSent
<1>3. LoadingOK'
  BY <1>0, <1>1, SameDescriptors DEF LoadingOK
<1> QED
  BY <1>2, <1>3 DEF OperationsInv

\* A call leaves the WSDL as it is.
LEMMA LoadingStays ==
  ASSUME LoadingOK, UNCHANGED <<wsdl, todo, mode, style, load>>
  PROVE  LoadingOK'
BY SameDescriptors DEF LoadingOK

\* A client calls.
LEMMA CallStep ==
  ASSUME Assumed, OperationsInv, NEW o \in Ops, Call(o)
  PROVE  OperationsInv'
<1>0. LoadingOK /\ CallOK
  BY DEF OperationsInv
<1>1. /\ load = "ready"
      /\ UNCHANGED <<wsdl, todo, mode, style, load>>
      /\ \/ call' = [NoCall EXCEPT !.phase = "raised", !.op = o]
         \/ call' = [NoCall EXCEPT !.phase = "sent", !.op = o, !.request = Request(o)]
  BY DEF Call
<1>2. LoadingOK'
  BY <1>0, <1>1, LoadingStays
<1>3. Request(o)' = Request(o)
  BY <1>1, SameDescriptors
<1>4. CASE call' = [NoCall EXCEPT !.phase = "raised", !.op = o]
  <2>1. CallOK' /\ AskedIsCalled' /\ AnswerIsFound'
    BY <1>4 DEF NoCall, CallOK, Sent, AskedIsCalled, AnswerIsFound
  <2> QED
    BY <1>2, <2>1 DEF OperationsInv
<1>5. CASE call' = [NoCall EXCEPT !.phase = "sent", !.op = o, !.request = Request(o)]
  <2>1. call'.phase = "sent" /\ call'.op = o /\ call'.request = Request(o) /\ call'.reply = <<>>
    BY <1>5 DEF NoCall
  <2>2. call' = [phase |-> call'.phase, op |-> call'.op, request |-> call'.request,
                 called |-> call'.called, reply |-> call'.reply, value |-> call'.value,
                 result |-> call'.result, typed |-> call'.typed]
    BY <1>5 DEF NoCall
  <2>3. CallOK'
    BY <1>1, <1>3, <2>1, <2>2 DEF CallOK, Sent
  <2>4. AskedIsCalled' /\ AnswerIsFound'
    BY <2>1 DEF AskedIsCalled, AnswerIsFound
  <2> QED
    BY <1>2, <2>3, <2>4 DEF OperationsInv
<1> QED
  BY <1>1, <1>4, <1>5

\* The server looks the operation up.
LEMMA DispatchStep ==
  ASSUME Assumed, OperationsInv, Dispatch
  PROVE  OperationsInv'
<1>0. LoadingOK /\ CallOK
  BY DEF OperationsInv
<1>1. /\ call.phase = "sent"
      /\ UNCHANGED <<wsdl, todo, mode, style, load>>
      /\ call' = [call EXCEPT !.called = Found,
                              !.phase = IF Found = None THEN "error" ELSE "called"]
  BY DEF Dispatch
<1>2. LoadingOK'
  BY <1>0, <1>1, LoadingStays
<1>3. /\ call = [phase |-> call.phase, op |-> call.op, request |-> call.request,
                 called |-> call.called, reply |-> call.reply, value |-> call.value,
                 result |-> call.result, typed |-> call.typed]
      /\ load = "ready" /\ call.op \in Ops /\ call.request = Request(call.op)
      /\ call.reply = <<>>
  BY <1>0, <1>1 DEF CallOK, Sent
<1>4. call' = [phase |-> IF Found = None THEN "error" ELSE "called", op |-> call.op,
               request |-> call.request, called |-> Found, reply |-> <<>>,
               value |-> call.value, result |-> call.result, typed |-> call.typed]
  BY <1>1, <1>3
<1>5. Found \in Ops \cup {None}
  BY FoundType
<1>6. CallOK'
  BY <1>1, <1>3, <1>4, <1>5 DEF CallOK, Sent
<1>7. CanBeFound(call.op) => Found = call.op
  BY <1>0, <1>3, FoundLemma
<1>8. AskedIsCalled'
  BY <1>1, <1>4, <1>7, SameDescriptors DEF AskedIsCalled
<1>9. AnswerIsFound'
  BY <1>4 DEF AnswerIsFound
<1> QED
  BY <1>2, <1>6, <1>8, <1>9 DEF OperationsInv

\* The service answers.
LEMMA RespondStep ==
  ASSUME Assumed, OperationsInv, NEW v \in Values,
         NEW how \in {"error", "lost"}, Respond(v, how)
  PROVE  OperationsInv'
<1> DEFINE o == call.called
           Shape(c) == c = [phase |-> c.phase, op |-> c.op, request |-> c.request,
                            called |-> c.called, reply |-> c.reply, value |-> c.value,
                            result |-> c.result, typed |-> c.typed]
<1>0. LoadingOK /\ CallOK /\ AskedIsCalled
  BY DEF OperationsInv
<1>1. /\ call.phase = "called"
      /\ UNCHANGED <<wsdl, todo, mode, style, load>>
      /\ \/ call' = [call EXCEPT !.phase = "answered"]
         \/ call' = [call EXCEPT !.phase = how]
         \/ /\ wsdl.ops[o].out # None
            /\ call' = [call EXCEPT !.phase = "answered", !.reply = Answer(o), !.value = v]
  BY DEF Respond
<1>2. LoadingOK'
  BY <1>0, <1>1, LoadingStays
<1>3. Shape(call) /\ load = "ready" /\ call.op \in Ops /\ o \in Ops /\ call.reply = <<>>
  BY <1>0, <1>1 DEF CallOK, Sent
<1>4. Shape(call') /\ call'.op = call.op /\ call'.called = o
  BY <1>1, <1>3
<1>5. /\ call'.phase \in {"answered", "error", "lost"}
      /\ call'.reply # <<>> =>
           /\ call'.phase = "answered" /\ wsdl.ops[o].out # None
           /\ call'.reply = Answer(o) /\ call'.value = v
  BY <1>1, <1>3
<1>6. CallOK'
  <2>1. \A c : Answer(c)' = Answer(c)
    BY <1>1, SameDescriptors
  <2> QED
    BY <1>1, <1>3, <1>4, <1>5, <2>1 DEF CallOK, Sent
<1>7. AskedIsCalled'
  BY <1>0, <1>1, <1>4, SameDescriptors DEF AskedIsCalled
<1>8. AnswerIsFound'
  BY <1>5 DEF AnswerIsFound
<1> QED
  BY <1>2, <1>6, <1>7, <1>8 DEF OperationsInv

\* The client receives the answer.
LEMMA ReceiveStep ==
  ASSUME Assumed, OperationsInv, Receive
  PROVE  OperationsInv'
<1> DEFINE o == call.op
           Shape(c) == c = [phase |-> c.phase, op |-> c.op, request |-> c.request,
                            called |-> c.called, reply |-> c.reply, value |-> c.value,
                            result |-> c.result, typed |-> c.typed]
<1>0. LoadingOK /\ CallOK /\ AskedIsCalled
  BY DEF OperationsInv
<1>1. /\ call.phase \in {"answered", "error"}
      /\ UNCHANGED <<wsdl, todo, mode, style, load>>
      /\ \/ /\ call.phase = "error" \/ wsdl.ops[o].out = None \/ call.reply = <<>>
            /\ call' = [call EXCEPT !.phase = "told"]
         \/ call' = [call EXCEPT !.phase = "lost"]
         \/ /\ call.phase # "error" /\ call.reply # <<>>
            /\ call' = [call EXCEPT !.phase = "told", !.result = Result(o),
                                    !.typed = call.reply[1] \in ToSet(OutputEnvelope(o))]
  BY DEF Receive
<1>2. LoadingOK'
  BY <1>0, <1>1, LoadingStays
<1>3. Shape(call) /\ load = "ready" /\ o \in Ops
  BY <1>0, <1>1 DEF CallOK, Sent
<1>4. /\ Shape(call') /\ call'.op = o /\ call'.called = call.called
      /\ call'.reply = call.reply /\ call'.value = call.value
      /\ call'.phase \in {"told", "lost"}
  BY <1>1, <1>3
<1>5. CallOK'
  BY <1>1, <1>3, <1>4 DEF CallOK, Sent
<1>6. AskedIsCalled'
  BY <1>0, <1>1, <1>4, SameDescriptors DEF AskedIsCalled
<1>7. AnswerIsFound'
  <2>1. \A x, v : CanBeRead(x, v)' <=> CanBeRead(x, v)
    BY <1>1, SameDescriptors
  <2>2. AnswerIsFound' <=>
          (/\ call'.phase = "told"
           /\ call'.called = call'.op
           /\ call'.reply # <<>>
           /\ CanBeRead(call'.op, call'.value)
           => call'.result = call'.value /\ call'.typed)
    BY <2>1 DEF AnswerIsFound
  <2> SUFFICES ASSUME call'.phase = "told", call.called = o, call.reply # <<>>,
                      CanBeRead(o, call.value)
               PROVE  call'.result = call.value /\ call'.typed
    BY <1>4, <2>2
  <2>3. call.phase = "answered"
    BY <1>0, <1>1 DEF CallOK
  <2>4. call.reply = Answer(o) /\ call.value \in Values
    BY <1>0, <2>3 DEF CallOK
  <2>5. Result(o) = call.value
    BY <1>0, <1>3, <2>4, ResultLemma
  <2>6. call.reply[1] \in ToSet(OutputEnvelope(o))
    BY <1>0, <1>3, <2>4, EnvelopeLemma
  <2>7. wsdl.ops[o].out # None
    BY <1>0, <2>3 DEF CallOK
  <2>8. call' = [call EXCEPT !.phase = "told", !.result = Result(o),
                             !.typed = call.reply[1] \in ToSet(OutputEnvelope(o))]
    BY <1>1, <1>3, <2>3, <2>7
  <2>9. call'.result = Result(o) /\ call'.typed = (call.reply[1] \in ToSet(OutputEnvelope(o)))
    BY <1>3, <2>8
  <2> QED
    BY <2>5, <2>6, <2>9
<1> QED
  BY <1>2, <1>5, <1>6, <1>7 DEF OperationsInv

\* Every step keeps the invariant.
LEMMA NextOperations == Assumed /\ OperationsInv /\ [OpNext]_opVars => OperationsInv'
<1> SUFFICES ASSUME Assumed, OperationsInv, [OpNext]_opVars
             PROVE  OperationsInv'
  OBVIOUS
<1>1. ASSUME NEW o \in Ops, Call(o)
      PROVE  OperationsInv'
  BY <1>1, CallStep
<1>2. CASE PostProcess
  BY <1>2, PostProcessStep
<1>3. CASE SetDefaultStyle
  BY <1>3, SetDefaultStyleStep
<1>4. CASE Dispatch
  BY <1>4, DispatchStep
<1>5. ASSUME NEW v \in Values, NEW how \in {"error", "lost"}, Respond(v, how)
      PROVE  OperationsInv'
  BY <1>5, RespondStep
<1>6. CASE Receive
  BY <1>6, ReceiveStep
<1>7. CASE UNCHANGED opVars
  <2>1. UNCHANGED <<wsdl, todo, mode, style, load>> /\ call' = call
    BY <1>7 DEF opVars
  <2>2. LoadingOK'
    BY <2>1, LoadingStays DEF OperationsInv
  <2>3. /\ \A o : Request(o)' = Request(o) /\ Answer(o)' = Answer(o)
        /\ \A o : CanBeFound(o)' = CanBeFound(o)
        /\ \A o, v : CanBeRead(o, v)' = CanBeRead(o, v)
    BY <2>1, SameDescriptors
  <2>4. CallOK'
    BY <2>1, <2>3 DEF OperationsInv, CallOK
  <2>5. AskedIsCalled' /\ AnswerIsFound'
    BY <2>1, <2>3 DEF OperationsInv, AskedIsCalled, AnswerIsFound
  <2> QED
    BY <2>2, <2>4, <2>5 DEF OperationsInv
<1> QED
  BY <1>1, <1>2, <1>3, <1>4, <1>5, <1>6, <1>7 DEF OpNext, Work

---------------------------------------------------------------------------
(* Operations: the theorems.                                               *)

\* In every WSDL, the server runs the operation that the client called, if the
\* names that operation.js gives can tell it from those before it.
THEOREM AskedIsCalledHolds == OpSpec => []AskedIsCalled
<1>1. Assumed
  BY OperationsAssumption DEF Assumed
<1>2. OpSpec => []OperationsInv
  BY <1>1, InitOperations, NextOperations, PTL DEF OpSpec
<1>3. OperationsInv => AskedIsCalled
  BY DEF OperationsInv
<1> QED
  BY <1>2, <1>3, PTL

\* In every WSDL, the result of a call is the element with which the service
\* answered, read with its descriptor, if its name can be told.
THEOREM AnswerIsFoundHolds == OpSpec => []AnswerIsFound
<1>1. Assumed
  BY OperationsAssumption DEF Assumed
<1>2. OpSpec => []OperationsInv
  BY <1>1, InitOperations, NextOperations, PTL DEF OpSpec
<1>3. OperationsInv => AnswerIsFound
  BY DEF OperationsInv
<1> QED
  BY <1>2, <1>3, PTL
=============================================================================
