----------------------------- MODULE WsdlParser -----------------------------
(***************************************************************************)
(* How a WSDL or XSD document becomes a tree of elements: the SAX handlers  *)
(* of _parse in src/src/parser/wsdl.js, startElement, endElement and the    *)
(* look-up of prefixes of src/src/parser/element.js, and addChild of        *)
(* Definitions, Types and Schema.                                           *)
(*                                                                          *)
(* A tag stands for the class that typeRegistry.js gives an element of that *)
(* name: "component" is any named child of a schema or of the definitions,  *)
(* an "extension" is of a foreign namespace, and has a class that lets no   *)
(* children in.  The document is the environment; `doc' remembers it, to    *)
(* compare the tree with.                                                   *)
(***************************************************************************)
EXTENDS Naturals, Sequences, SequencesExt

CONSTANTS
  Namespaces,   \* target namespaces of schemas
  Names,        \* names of components
  XmlPrefixes,  \* XML prefixes
  URIs,         \* what prefixes are bound to
  NoURI,        \* null, of a prefix without a binding
  MaxElements,  \* bound: elements that become objects
  MaxDepth      \* bound: open elements

ASSUME ParserAssumption ==
  /\ Namespaces # {}
  /\ Names # {}
  /\ NoURI \notin URIs
  /\ MaxElements \in Nat \ {0}
  /\ MaxDepth \in Nat \ {0}

VARIABLES
  phase,     \* "start", "parsing", "done" or "failed"
  node,      \* the elements that were made, in order: tag, attributes, parent
  xmlns,     \* the bindings that each element has now
  stack,     \* `stack' of _parse
  schemas,   \* `schemas' of each Types or Definitions element
  table,     \* the components that each schema knows by name
  includes,  \* `includes' of each schema: its import and include elements
  targets,   \* the schemas that another schema was merged into
  doc        \* the open elements of the document

vars == <<phase, node, xmlns, stack, schemas, table, includes, targets, doc>>

Ids == 1..MaxElements

\* No element, no schema.
Nothing == 0

\* Two tags of foreign namespaces.
Foreign == {"extension", "detail"}

Tags == {"definitions", "types", "schema", "import", "component"} \cup Foreign

Bindings == [XmlPrefixes -> URIs \cup {NoURI}]

\* The bindings that one element declares: at most one.
Unbound == [p \in XmlPrefixes |-> NoURI]
Declared == {Unbound} \cup {[Unbound EXCEPT ![p] = u] : p \in XmlPrefixes, u \in URIs}

\* What the document has below an element of each tag.
Content(tag) ==
  CASE tag = "definitions" -> {"import", "types", "component", "extension"}
    [] tag = "types" -> {"schema", "extension"}
    [] tag = "schema" -> {"import", "component"}
    [] tag = "import" -> {}
    [] tag = "component" -> {"component", "extension"}
    [] tag \in Foreign -> Foreign

Init ==
  /\ phase = "start"
  /\ node = <<>>
  /\ xmlns = [i \in Ids |-> Unbound]
  /\ stack = <<>>
  /\ schemas = [i \in Ids |-> [ns \in Namespaces |-> Nothing]]
  /\ table = [i \in Ids |-> [x \in Names |-> Nothing]]
  /\ includes = [i \in Ids |-> {}]
  /\ targets = {}
  /\ doc = <<>>

---------------------------------------------------------------------------
(* XML prefixes.                                                           *)

\* The element i itself and those it is below, as `parent' links them.
Lineage(i) ==
  LET up[j \in 0..Len(node)] == IF j = Nothing THEN {} ELSE {j} \cup up[node[j].parent]
  IN up[i]

\* getNamespaceURI: the binding of the element, or else what its parent has.
GetNamespaceURI(i, p) ==
  LET uri[j \in 0..Len(node)] ==
        IF j = Nothing THEN NoURI
        ELSE IF xmlns[j][p] # NoURI THEN xmlns[j][p] ELSE uri[node[j].parent]
  IN uri[i]

\* Bindings `over' on top of bindings `under'.
Over(over, under) ==
  [p \in XmlPrefixes |-> IF over[p] # NoURI THEN over[p] ELSE under[p]]

\* The attributes of an element: a namespace or a name, where they matter.
Attributes(tag) ==
  [ns : IF tag \in {"schema", "import"} THEN Namespaces ELSE {CHOOSE ns \in Namespaces : TRUE},
   name : IF tag = "component" THEN Names ELSE {CHOOSE x \in Names : TRUE}]

\* What the document means by its prefixes below its innermost open element.
Meaning == IF doc = <<>> THEN Unbound ELSE Last(doc).meaning

---------------------------------------------------------------------------
(* Opening tags.                                                           *)

\* new ElementType(...), with attributes a, pushed on the stack.
Make(tag, a, declared, parent) ==
  /\ Len(node) < MaxElements
  /\ node' = Append(node,
       [tag |-> tag, ns |-> a.ns, name |-> a.name, parent |-> parent,
        above |-> IF doc = <<>> THEN Nothing ELSE Last(doc).id,
        meaning |-> Over(declared, Meaning)])
  /\ xmlns' = [xmlns EXCEPT ![Len(node) + 1] = declared]
  /\ stack' = Append(stack, Len(node) + 1)

Opened(tag, declared, id) ==
  doc' = Append(doc, [tag |-> tag, id |-> id, meaning |-> Over(declared, Meaning)])

\* The root: definitions, or a schema, for which a Definitions and a Types are
\* made up that know the schema from the start.
OpenRoot(tag, a, declared) ==
  /\ phase = "start"
  /\ tag \in {"definitions", "schema"}
  /\ phase' = "parsing"
  /\ Make(tag, a, declared, Nothing)
  /\ schemas' = IF tag = "schema" THEN [schemas EXCEPT ![1][a.ns] = 1] ELSE schemas
  /\ Opened(tag, declared, 1)
  /\ UNCHANGED <<table, includes, targets>>

\* The document has one `types' element, after the imports of the definitions,
\* as WS-I's Basic Profile asks for.
InOrder(tag) ==
  Last(doc).tag = "definitions" /\ tag \in {"import", "types"} =>
    \A i \in 1..Len(node) : node[i].tag # "types"

\* An opening tag: the top of the stack makes an element of it, if its class
\* lets children in at all.
Open(tag, a, declared) ==
  LET makes == node[Last(stack)].tag \notin Foreign IN
  /\ phase = "parsing"
  /\ Len(doc) < MaxDepth
  /\ tag \in Content(Last(doc).tag)
  /\ InOrder(tag)
  /\ IF makes THEN Make(tag, a, declared, Last(stack)) ELSE UNCHANGED <<node, xmlns, stack>>
  /\ Opened(tag, declared, IF makes THEN Len(node) + 1 ELSE Nothing)
  /\ UNCHANGED <<phase, schemas, table, includes, targets>>

---------------------------------------------------------------------------
(* Closing tags.                                                           *)

\* Mutant: the root takes a binding over its own.
HoistedOver(id) == [xmlns EXCEPT ![stack[1]] = Over(xmlns[id], @)]

\* The root takes the bindings of an element for prefixes that it does not bind.
Hoisted(id) == [xmlns EXCEPT ![stack[1]] = Over(@, xmlns[id])]

\* addChild of Definitions: the schemas of Types take the place of those that it
\* has; an import makes a schema of its own, for which its number stands.
AddToDefinitions(parent, child) ==
  LET c == node[child] IN
  /\ schemas' =
       CASE c.tag = "types" ->
              [schemas EXCEPT ![parent] =
                 [ns \in Namespaces |->
                    IF schemas[child][ns] # Nothing THEN schemas[child][ns] ELSE @[ns]]]
         [] c.tag = "import" -> [schemas EXCEPT ![parent][c.ns] = child]
         [] OTHER -> schemas
  /\ includes' = IF c.tag = "import" THEN [includes EXCEPT ![child] = {child}] ELSE includes
  /\ xmlns' = Hoisted(child)
  /\ UNCHANGED <<table, targets>>

\* Mutant: the names of the second schema are forgotten.
FirstTable(into, names) == into

\* _.merge of two tables: a name that both have is the one of the second.
MergedTable(into, names) ==
  [x \in Names |-> IF names[x] # Nothing THEN names[x] ELSE into[x]]

\* addChild of Types: a second schema of a namespace is merged into the first,
\* and so are its bindings, on top of those that the first has.
AddToTypes(parent, child) ==
  LET ns == node[child].ns
      first == schemas[parent][ns]
  IN
  \/ /\ first = Nothing
     /\ schemas' = [schemas EXCEPT ![parent][ns] = child]
     /\ xmlns' = Hoisted(child)
     /\ UNCHANGED <<table, includes, targets>>
  \/ /\ first # Nothing
     /\ table' = [table EXCEPT ![first] = MergedTable(@, table[child])]
     /\ includes' = [includes EXCEPT ![first] = @ \cup includes[child]]
     /\ xmlns' = [Hoisted(child) EXCEPT ![first] = Over(xmlns[child], @)]
     /\ targets' = targets \cup {first}
     /\ UNCHANGED schemas

\* addChild of Schema: a component by its name, an import or include by itself.
AddToSchema(parent, child) ==
  LET c == node[child] IN
  /\ table' = IF c.tag = "component" THEN [table EXCEPT ![parent][c.name] = child] ELSE table
  /\ includes' = IF c.tag = "import" THEN [includes EXCEPT ![parent] = @ \cup {child}]
                                     ELSE includes
  /\ xmlns' = Hoisted(child)
  /\ UNCHANGED <<schemas, targets>>

\* addChild of any other element.
AddToOther(child) ==
  /\ xmlns' = Hoisted(child)
  /\ UNCHANGED <<schemas, table, includes, targets>>

AddChild(parent, child) ==
  CASE node[parent].tag = "definitions" -> AddToDefinitions(parent, child)
    [] node[parent].tag = "types" -> AddToTypes(parent, child)
    [] node[parent].tag = "schema" -> AddToSchema(parent, child)
    [] OTHER -> AddToOther(child)

\* Mutant: an element ends with the first closing tag.
EndsAnyway(tag) == Len(stack) >= 2

\* The top of the stack is told of every closing tag.  It ends with one of its
\* own tag, but the root stays.
Ends(tag) == Len(stack) >= 2 /\ node[Last(stack)].tag = tag

\* Mutant: the assertion of Types is gone.
RefusesNothing(parent, child) == FALSE

\* Types asserts that what it is given is a schema.
Refuses(parent, child) == node[parent].tag = "types" /\ node[child].tag # "schema"

\* A closing tag.
Close ==
  LET child == Last(stack)
      parent == stack[Len(stack) - 1]
  IN
  /\ phase = "parsing"
  /\ doc' = Front(doc)
  /\ \/ /\ Ends(Last(doc).tag) /\ ~Refuses(parent, child)
        /\ stack' = Front(stack)
        /\ AddChild(parent, child)
        /\ UNCHANGED phase
     \/ /\ Ends(Last(doc).tag) /\ Refuses(parent, child)
        /\ phase' = "failed"
        /\ UNCHANGED <<stack, schemas, table, includes, xmlns, targets>>
     \/ /\ ~Ends(Last(doc).tag)
        /\ phase' = IF Len(doc) = 1 THEN "done" ELSE phase
        /\ UNCHANGED <<stack, schemas, table, includes, xmlns, targets>>
  /\ UNCHANGED node

Next ==
  \/ \E tag \in Tags : \E a \in Attributes(tag), declared \in Declared :
       OpenRoot(tag, a, declared) \/ Open(tag, a, declared)
  \/ Close

Spec == Init /\ [][Next]_vars

---------------------------------------------------------------------------
(* Properties.                                                             *)

Made == 1..Len(node)

Nodes ==
  [tag : Tags, ns : Namespaces, name : Names, parent : Ids \cup {Nothing},
   above : Ids \cup {Nothing}, meaning : Bindings]

\* The elements that stand for a schema.
Schemas == {i \in Made : node[i].tag \in {"schema", "import"}}

\* Type invariant; what `schemas' holds are schemas, and what a schema includes
\* are imports.
TypeOK ==
  /\ phase \in {"start", "parsing", "done", "failed"}
  /\ node \in Seq(Nodes) /\ Len(node) <= MaxElements
  /\ xmlns \in [Ids -> Bindings]
  /\ stack \in Seq(Made)
  /\ schemas \in [Ids -> [Namespaces -> Schemas \cup {Nothing}]]
  /\ table \in [Ids -> [Names -> Made \cup {Nothing}]]
  /\ includes \in [Ids -> SUBSET {i \in Made : node[i].tag = "import"}]
  /\ targets \subseteq Made
  /\ doc \in Seq([tag : Tags, id : Ids \cup {Nothing}, meaning : Bindings])

\* While tags come in, an open element of the document that is not foreign is at
\* the same place of the stack of _parse, and nothing else is on it but foreign
\* ones, although foreign elements inside each other make no objects and their
\* closing tags are given to others: so each WSDL or XSD element gets the parent
\* that the document gives it.
StackIsDocument ==
  phase = "parsing" =>
    /\ \A k \in 1..Len(doc) :
         doc[k].tag \notin Foreign =>
           k <= Len(stack) /\ stack[k] = doc[k].id /\ node[stack[k]].tag = doc[k].tag
    /\ \A k \in 1..Len(stack) :
         node[stack[k]].tag \notin Foreign => k <= Len(doc) /\ doc[k].tag \notin Foreign

\* Whenever a prefix is looked up from an element, during the parse or after it,
\* it means what the document says there, although the root collects the
\* bindings of all elements.  Elements below a schema into which another was
\* merged are left out: their prefixes may mean what the other schema says.
PrefixesKeepTheirMeaning ==
  \A i \in Made : \A p \in XmlPrefixes :
    /\ node[i].tag \notin Foreign
    /\ node[i].meaning[p] # NoURI
    /\ targets \cap Lineage(i) = {}
    => GetNamespaceURI(i, p) = node[i].meaning[p]

\* The children of tag `tag' of the schemas of namespace ns in the document.
Written(ns, tag) ==
  {i \in Made : /\ node[i].tag = tag
                /\ node[i].above # Nothing
                /\ node[node[i].above].tag = "schema"
                /\ node[node[i].above].ns = ns}

\* After the parse the definitions have, for each namespace, one schema that
\* knows every component of all the schemas of that namespace, the last one of
\* a name, and everything that they include.
DeclarationsAreFound ==
  phase = "done" =>
    \A ns \in Namespaces :
      LET known == schemas[1][ns] IN
      /\ \A i \in Written(ns, "component") :
           /\ known # Nothing
           /\ table[known][node[i].name] \in Written(ns, "component")
           /\ table[known][node[i].name] >= i
      /\ \A i \in Written(ns, "import") : known # Nothing /\ i \in includes[known]
=============================================================================
