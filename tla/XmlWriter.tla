----------------------------- MODULE XmlWriter -----------------------------
(***************************************************************************)
(* How a JSON value becomes a SOAP envelope: jsonToXml, mapObject and       *)
(* addAttributes of src/src/parser/xmlHandler.js walk the value and the     *)
(* descriptors together, with one NamespaceContext for the whole body, made *)
(* by createNamespaceContext of src/src/base.js.                            *)
(*                                                                          *)
(* The document is seen the way a reader of it would: the elements that are *)
(* open, each with the xmlns attributes on it and with the names that were  *)
(* written with a prefix on it or, unresolved, inside it.                   *)
(***************************************************************************)
EXTENDS NamespaceContext, FiniteSets

CONSTANTS
  SoapPrefix, SoapURI,  \* the prefix and the namespace of the envelope
  XsiPrefix, XsiURI,    \* `xsi' and its namespace
  WsdlPrefixes,         \* prefixes that the WSDL may bind
  TypePrefixes,         \* prefixes that a $xsiType of the value may have
  AppURIs,              \* namespaces of the application
  MaxDepth,             \* bound: open elements, the body included
  MaxNames              \* bound: names remembered per open element

\* The WSDL has no mapping of its own for `xsi' and for the SOAP namespaces:
\* createNamespaceContext skips the URIs of the W3C and of xmlsoap.org.
ASSUME WriterAssumption ==
  /\ {SoapPrefix, XsiPrefix} \subseteq Names
  /\ SoapPrefix # XsiPrefix
  /\ {SoapURI, XsiURI} \subseteq URIs
  /\ SoapURI # XsiURI
  /\ AppURIs \subseteq URIs \ {SoapURI, XsiURI}
  /\ WsdlPrefixes \subseteq Prefixes \ {XsiPrefix}
  /\ TypePrefixes \subseteq Prefixes \cup {NoPrefix}
  /\ MaxDepth \in Nat
  /\ MaxNames \in Nat

VARIABLES
  scopes,  \* the NamespaceContext
  open,    \* the open elements of the document, the innermost last
  thrown   \* an exception left jsonToXml

vars == <<scopes, open, thrown>>

\* A name as it stands in the document, and the namespace its author meant.
QNames == [prefix : Prefixes, uri : URIs]

\* The xmlns attributes of an element.
Declarations == [Prefixes -> URIs \cup {NoURI}]

\* An element has content once an attribute or a child was written; a null
\* value makes it nil.
Elements == [xmlns : Declarations, names : SUBSET QNames,
             phase : {"empty", "nil", "content"}]

Name(p, uri) == [prefix |-> p, uri |-> uri]

\* createNamespaceContext declares the prefix of the envelope and adds the
\* mappings of the WSDL, one of which may replace it.
RootScope(wsdl) ==
  [map |-> [p \in Prefixes |->
              CASE p \in DOMAIN wsdl -> [uri |-> wsdl[p], declared |-> FALSE]
                [] p = SoapPrefix /\ p \notin DOMAIN wsdl ->
                     [uri |-> SoapURI, declared |-> TRUE]
                [] OTHER -> Unmapped],
   count |-> 0]

NoXmlns == [p \in Prefixes |-> NoURI]

\* createSOAPEnvelope writes the envelope and its body.
Envelope ==
  [xmlns |-> [NoXmlns EXCEPT ![SoapPrefix] = SoapURI],
   names |-> {Name(SoapPrefix, SoapURI)}, phase |-> "content"]

Init ==
  /\ \E D \in SUBSET WsdlPrefixes : \E wsdl \in [D -> AppURIs] :
       scopes = <<RootScope(wsdl)>>
  /\ open = <<Envelope>>
  /\ thrown = FALSE

Current == open[Len(open)]

WithContent(element) ==
  IF element.phase = "nil" THEN element ELSE [element EXCEPT !.phase = "content"]

\* The parent of an element that is opened.
Parents == [open EXCEPT ![Len(open)].phase = "content"]

NewElement(xmlns, names) == [xmlns |-> xmlns, names |-> names, phase |-> "empty"]

\* An element with a name in a namespace.  jsonToXml looks for a declared
\* prefix of the namespace, else declares one; descriptors of schema elements
\* have no prefix of their own, those of a SOAP Fault have the envelope's.
OpenQualified(p, uri) ==
  /\ ~thrown
  /\ Len(open) < MaxDepth
  /\ Current.phase # "nil"
  /\ LET pushed == PushContext(scopes)
         known == PrefixMappings(pushed, uri)
     IN
     \/ \E q \in known :
          /\ scopes' = pushed
          /\ open' = Append(Parents, NewElement(NoXmlns, {Name(q, uri)}))
     \/ /\ known = {}
        /\ \E g \in Generated :
             LET d == DeclareNamespace(pushed, p, uri, g) IN
             /\ Generates(pushed, g)
             /\ scopes' = d.ctx
             /\ open' = Append(Parents,
                          NewElement([NoXmlns EXCEPT ![d.prefix] = uri], {Name(d.prefix, uri)}))
  /\ UNCHANGED thrown

\* An element whose form is unqualified.
OpenUnqualified ==
  /\ ~thrown
  /\ Len(open) < MaxDepth
  /\ Current.phase # "nil"
  /\ scopes' = PushContext(scopes)
  /\ open' = Append(Parents, NewElement(NoXmlns, {}))
  /\ UNCHANGED thrown

\* Mutant: the attribute is not written.
WithoutXmlns(element, d, uri) == element

\* The xmlns attribute that declareNamespace of xmlHandler.js adds to a node.
WithXmlns(element, d, uri) ==
  IF d.created THEN [element EXCEPT !.xmlns[d.prefix] = uri] ELSE element

WithName(element, p, uri) == [element EXCEPT !.names = @ \cup {Name(p, uri)}]

HasRoom == Cardinality(Current.names) < MaxNames

\* A null value of a nillable element.
Nil ==
  /\ ~thrown
  /\ Len(open) > 1
  /\ Current.phase = "empty"
  /\ \E g \in Generated :
       LET d == DeclareNamespace(scopes, XsiPrefix, XsiURI, g) IN
       /\ Generates(scopes, g)
       /\ scopes' = d.ctx
       /\ open' = [open EXCEPT ![Len(open)] =
                     [WithName(WithXmlns(@, d, XsiURI), XsiPrefix, XsiURI)
                        EXCEPT !.phase = "nil"]]
  /\ UNCHANGED thrown

\* An attribute whose form is qualified: its descriptor has no prefix.
QualifiedAttribute(uri) ==
  /\ ~thrown
  /\ Len(open) > 1
  /\ HasRoom
  /\ \E g \in Generated :
       LET d == DeclareNamespace(scopes, NoPrefix, uri, g) IN
       /\ Generates(scopes, g)
       /\ scopes' = d.ctx
       /\ open' = [open EXCEPT ![Len(open)] =
                     WithContent(WithName(WithXmlns(@, d, uri), d.prefix, uri))]
  /\ UNCHANGED thrown

\* The xsi:type attribute that $xsiType = "{uri}p:name" asks for.
XsiType(p, uri) ==
  /\ ~thrown
  /\ Len(open) > 1
  /\ HasRoom
  /\ \E g \in Generated :
       LET x == DeclareNamespace(scopes, XsiPrefix, XsiURI, g)
           d == DeclareNamespace(x.ctx, p, uri, g)
           xmlns == WithXmlns(WithXmlns(Current, x, XsiURI), d, uri)
       IN
       /\ Generates(scopes, g)
       /\ \/ /\ d.returns
             /\ scopes' = d.ctx
             /\ open' = [open EXCEPT ![Len(open)] =
                           WithContent(WithName(WithName(xmlns, XsiPrefix, XsiURI),
                                                d.prefix, uri))]
             /\ UNCHANGED thrown
          \/ /\ ~d.returns
             /\ thrown' = TRUE
             /\ UNCHANGED <<scopes, open>>

\* The end of an element.  The names that it did not declare itself are left to
\* its parent.
Close ==
  /\ ~thrown
  /\ Len(open) > 1
  /\ scopes' = PopContext(scopes)
  /\ open' = LET free == {n \in Current.names : Current.xmlns[n.prefix] = NoURI}
                 rest == SubSeq(open, 1, Len(open) - 1)
             IN  [rest EXCEPT ![Len(rest)].names = @ \cup free]
  /\ UNCHANGED thrown

Next ==
  \/ \E uri \in AppURIs : OpenQualified(NoPrefix, uri)
  \/ OpenQualified(SoapPrefix, SoapURI)
  \/ OpenUnqualified
  \/ Nil
  \/ \E uri \in AppURIs : QualifiedAttribute(uri)
  \/ \E p \in TypePrefixes, uri \in AppURIs : XsiType(p, uri)
  \/ Close

Spec == Init /\ [][Next]_vars

---------------------------------------------------------------------------
(* Properties.                                                             *)

\* Type invariant; scopes and open elements go together.
TypeOK ==
  /\ scopes \in Contexts
  /\ open \in Seq(Elements)
  /\ Len(open) = Len(scopes)
  /\ Len(open) >= 1
  /\ thrown \in BOOLEAN

\* What a prefix means on the i-th open element, by the rules of Namespaces in
\* XML: the nearest xmlns attribute for it.
Meaning(i, p) ==
  LET declaring == {k \in 1..i : open[k].xmlns[p] # NoURI} IN
  IF declaring = {} THEN NoURI
  ELSE open[CHOOSE k \in declaring : \A j \in declaring : j <= k].xmlns[p]

\* Every name of the document resolves, for a reader of the document, to the
\* namespace of the descriptor or of the $xsiType it was written for: also the
\* names inside children, when attributes of the parent are declared after them.
NamesResolve ==
  \A i \in 1..Len(open) : \A n \in open[i].names : Meaning(i, n.prefix) = n.uri

\* No scope maps a prefix that an enclosing scope maps: declareNamespace never
\* shadows a mapping, so a name keeps its meaning in all of its element.
NoShadowing ==
  \A i, j \in 1..Len(scopes), p \in Prefixes :
    Maps(scopes[i], p) /\ Maps(scopes[j], p) => i = j

\* A mapping that the context gives out as declared is declared in the document
\* on the element of its scope, with the same URI.
DeclaredIsWritten ==
  \A i \in 1..Len(scopes), p \in Prefixes :
    scopes[i].map[p].declared => open[i].xmlns[p] = scopes[i].map[p].uri

\* While a scope is open, a prefix it maps keeps its URI and stays declared,
\* whatever is declared in it or in the scopes inside it.
MappingsAreStable ==
  [][\A i \in 1..Len(scopes), p \in Prefixes :
       i <= Len(scopes') /\ Maps(scopes[i], p) =>
         /\ scopes'[i].map[p].uri = scopes[i].map[p].uri
         /\ scopes[i].map[p].declared => scopes'[i].map[p].declared]_vars
=============================================================================
