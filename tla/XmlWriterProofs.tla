-------------------------- MODULE XmlWriterProofs --------------------------
(***************************************************************************)
(* Proofs about XmlWriter, for every set of prefixes and of URIs and for    *)
(* every WSDL: a reader of the document that jsonToXml writes resolves each *)
(* name to the namespace it was written for.                                *)
(*                                                                          *)
(* NamesResolve speaks of the document only, and DeclaredIsWritten of one   *)
(* direction between the context and the document; neither is inductive.    *)
(* What makes them so is the converse, that an xmlns attribute stands for a *)
(* mapping of the scope of its element (WrittenIsDeclared), for every       *)
(* element but the envelope (Root), together with NoShadowing.              *)
(*                                                                          *)
(* The last part is about Restrictions, which jsonToXml asks about values:  *)
(* what the facets let through is valid, and what is valid gets through,    *)
(* for any restriction and any value of the kinds that the assumption       *)
(* names. Its invariant says what value each stage is given and what cannot *)
(* have been violated (NumberAt, TextAt). No proof uses definitions of both *)
(* components.                                                              *)
(***************************************************************************)
EXTENDS XmlWriter, Restrictions, TLAPS, SequenceTheorems, FiniteSetTheorems,
        WellFoundedInduction

---------------------------------------------------------------------------
(* The inductive invariant.                                                *)

Declared(uri) == [uri |-> uri, declared |-> TRUE]

\* The envelope declares its prefix in the document.  In the context the WSDL
\* may have rebound it; if it has not, no other prefix is ever made for it.
Root ==
  /\ open[1].xmlns = Envelope.xmlns
  /\ Maps(scopes[1], SoapPrefix)
  /\ scopes[1].map[SoapPrefix].uri = SoapURI =>
       /\ scopes[1].map[SoapPrefix].declared
       /\ \A k \in 2..Len(scopes), p \in Prefixes : scopes[k].map[p].uri # SoapURI

\* `xsi' means nothing else, so that it need never be replaced.
XsiIsXsi ==
  \A i \in 1..Len(scopes) :
    Maps(scopes[i], XsiPrefix) => scopes[i].map[XsiPrefix] = Declared(XsiURI)

WrittenIsDeclared ==
  \A i \in 2..Len(open), p \in Prefixes :
    open[i].xmlns[p] # NoURI => scopes[i].map[p] = Declared(open[i].xmlns[p])

\* The name of the envelope apart, a name has its prefix from a scope around it.
NameIsDeclared(i, n) ==
  \/ i = 1 /\ n = Name(SoapPrefix, SoapURI)
  \/ \E k \in 1..i : scopes[k].map[n.prefix] = Declared(n.uri)

NamesAreDeclared ==
  \A i \in 1..Len(open) : \A n \in open[i].names : NameIsDeclared(i, n)

IInv ==
  /\ TypeOK
  /\ NoShadowing
  /\ DeclaredIsWritten
  /\ Root
  /\ XsiIsXsi
  /\ WrittenIsDeclared
  /\ NamesAreDeclared

---------------------------------------------------------------------------
(* Lemmas about the context.                                               *)

Unshadowed(ctx) ==
  \A i, j \in 1..Len(ctx), p \in Prefixes :
    Maps(ctx[i], p) /\ Maps(ctx[j], p) => i = j

\* In a context without shadowing the holder of a prefix is the only scope that
\* maps it.
LEMMA HolderLemma ==
  ASSUME NEW ctx \in Contexts, NEW p \in Prefixes, Unshadowed(ctx)
  PROVE  /\ \A i \in 1..Len(ctx) : Maps(ctx[i], p) => Holder(ctx, p) = i
         /\ (\A i \in 1..Len(ctx) : ~Maps(ctx[i], p)) => GetNamespaceURI(ctx, p) = NoURI
         /\ \A i \in 1..Len(ctx) :
              Maps(ctx[i], p) => GetNamespaceURI(ctx, p) = ctx[i].map[p].uri
<1> DEFINE Only(i) == Maps(ctx[i], p) /\ \A j \in (i + 1)..Len(ctx) : ~Maps(ctx[j], p)
<1>1. \A i \in 1..Len(ctx) : Maps(ctx[i], p) => Holder(ctx, p) = i
  <2> SUFFICES ASSUME NEW i \in 1..Len(ctx), Maps(ctx[i], p)
               PROVE  Holder(ctx, p) = i
    OBVIOUS
  <2>1. Only(i)
    BY DEF Unshadowed, Contexts
  <2>2. \A k \in 1..Len(ctx) : Only(k) => k = i
    BY DEF Unshadowed, Contexts
  <2>3. Holder(ctx, p) = CHOOSE k \in 1..Len(ctx) : Only(k)
    BY DEF Holder
  <2> QED
    BY <2>1, <2>2, <2>3
<1>2. (\A i \in 1..Len(ctx) : ~Maps(ctx[i], p)) => GetNamespaceURI(ctx, p) = NoURI
  BY DEF GetNamespaceURI, Holder
<1>3. \A i \in 1..Len(ctx) :
        Maps(ctx[i], p) => GetNamespaceURI(ctx, p) = ctx[i].map[p].uri
  BY <1>1 DEF GetNamespaceURI, Contexts
<1> QED
  BY <1>1, <1>2, <1>3

\* A prefix that a fresh number stands for is mapped nowhere.
LEMMA FreshLemma ==
  ASSUME NEW ctx \in Contexts, NEW p \in Prefixes, Unshadowed(ctx),
         GetNamespaceURI(ctx, p) = NoURI
  PROVE  \A i \in 1..Len(ctx) : ~Maps(ctx[i], p)
BY HolderLemma DEF Maps

\* What WithMapping, with or without a new counter, does to a context.
LEMMA WithMappingLemma ==
  ASSUME NamespaceAssumption, NEW ctx \in Contexts, Len(ctx) >= 1, NEW p \in Prefixes,
         NEW uri \in URIs, NEW g \in Generated, NEW base,
         \/ base = ctx
         \/ base = [ctx EXCEPT ![Len(ctx)].count = g],
         NEW made, made = WithMapping(base, p, Declared(uri))
  PROVE  /\ made \in Contexts
         /\ Len(made) = Len(ctx)
         /\ \A i \in 1..Len(ctx) : i # Len(ctx) => made[i] = ctx[i]
         /\ \A q \in Prefixes : q # p => made[Len(ctx)].map[q] = ctx[Len(ctx)].map[q]
         /\ made[Len(ctx)].map[p] = Declared(uri)
<1>1. /\ base \in Contexts
      /\ Len(base) = Len(ctx)
      /\ \A i \in 1..Len(ctx) : base[i].map = ctx[i].map
      /\ \A i \in 1..Len(ctx) : i # Len(ctx) => base[i] = ctx[i]
  <2>1. CASE base = ctx
    BY <2>1
  <2>2. CASE base = [ctx EXCEPT ![Len(ctx)].count = g]
    <3>1. g \in Nat
      BY DEF NamespaceAssumption
    <3>2. ctx[Len(ctx)] \in Scopes
      BY DEF Contexts
    <3>3. [ctx[Len(ctx)] EXCEPT !.count = g] \in Scopes
      BY <3>1, <3>2 DEF Scopes
    <3> QED
      BY <2>2, <3>1, <3>2, <3>3 DEF Contexts, Scopes
  <2> QED
    BY <2>1, <2>2
<1>2. Declared(uri) \in Mappings
  BY DEF Declared, Mappings
<1>3. base[Len(ctx)] \in Scopes
  BY <1>1 DEF Contexts
<1>4. [base[Len(ctx)] EXCEPT !.map[p] = Declared(uri)] \in Scopes
  BY <1>2, <1>3 DEF Scopes
<1>5. made = [base EXCEPT ![Len(ctx)] = [base[Len(ctx)] EXCEPT !.map[p] = Declared(uri)]]
  BY <1>1 DEF WithMapping
<1>6. /\ made \in Contexts
      /\ Len(made) = Len(ctx)
      /\ \A i \in 1..Len(ctx) : i # Len(ctx) => made[i] = base[i]
      /\ made[Len(ctx)] = [base[Len(ctx)] EXCEPT !.map[p] = Declared(uri)]
  <2> DEFINE last == [base[Len(ctx)] EXCEPT !.map[p] = Declared(uri)]
  <2>1. last \in Scopes /\ base \in Seq(Scopes) /\ Len(ctx) \in 1..Len(base)
    BY <1>1, <1>4 DEF Contexts
  <2>2. made = [base EXCEPT ![Len(ctx)] = last]
    BY <1>5
  <2> HIDE DEF last
  <2>3. /\ made \in Seq(Scopes)
        /\ Len(made) = Len(base)
        /\ \A i \in 1..Len(base) : i # Len(ctx) => made[i] = base[i]
        /\ made[Len(ctx)] = last
    BY <2>1, <2>2
  <2> QED
    BY <1>1, <2>3 DEF last, Contexts
<1> QED
  BY <1>1, <1>3, <1>6 DEF Scopes, Contexts

\* declareNamespace in a context without shadowing: only the mapping of its
\* prefix in the current scope changes; mappings stay; what it returns is a
\* declared mapping of the URI, the current scope's if it was made.
Extends(c1, c2) ==
  /\ Len(c1) = Len(c2)
  /\ \A i \in 1..Len(c1), q \in Prefixes :
       Maps(c1[i], q) => /\ c2[i].map[q].uri = c1[i].map[q].uri
                         /\ c1[i].map[q].declared => c2[i].map[q].declared

\* A scope of the context declares the prefix for the URI.
IsDeclared(ctx, p, uri) ==
  \E k \in 1..Len(ctx) : ctx[k].map[p] = Declared(uri)

Declaring(ctx, p, uri, g, d) ==
  /\ ctx \in Contexts
  /\ Len(ctx) >= 1
  /\ Unshadowed(ctx)
  /\ p \in Prefixes \cup {NoPrefix}
  /\ uri \in URIs
  /\ g \in Generated
  /\ GetNamespaceURI(ctx, g) = NoURI
  /\ d = DeclareNamespace(ctx, p, uri, g)

\* What declareNamespace does to the scopes.
LEMMA DeclareLemma ==
  ASSUME NEW ctx, NEW p, NEW uri, NEW g, NEW d, Declaring(ctx, p, uri, g, d)
  PROVE  /\ d.ctx \in Contexts
         /\ d.prefix \in Prefixes
         /\ Extends(ctx, d.ctx)
         /\ Unshadowed(d.ctx)
         /\ \A i \in 1..Len(ctx) : i # Len(ctx) => d.ctx[i] = ctx[i]
         /\ \A q \in Prefixes : q # d.prefix => d.ctx[Len(ctx)].map[q] = ctx[Len(ctx)].map[q]
         /\ d.created /\ d.returns => d.ctx[Len(ctx)].map[d.prefix] = Declared(uri)
         /\ ~d.created => d.ctx = ctx
         /\ d.returns => IsDeclared(d.ctx, d.prefix, uri)
         /\ d.prefix \in {p, g}
         /\ Finds(ctx, p, uri) \/ Takes(ctx, p) => d.prefix = p
         /\ ~Finds(ctx, p, uri) => d.created /\ d.returns
         /\ ~d.returns => ~ctx[Holder(ctx, p)].map[p].declared
         /\ d.returns \in BOOLEAN /\ d.created \in BOOLEAN
<1> DEFINE holder == Holder(ctx, p)
           made(q) == WithMapping(
                        IF q = p THEN ctx ELSE [ctx EXCEPT ![Len(ctx)].count = g],
                        q, [uri |-> uri, declared |-> TRUE])
<1>. /\ ctx \in Contexts /\ Len(ctx) >= 1 /\ Unshadowed(ctx)
     /\ p \in Prefixes \cup {NoPrefix} /\ uri \in URIs
     /\ g \in Generated /\ GetNamespaceURI(ctx, g) = NoURI
     /\ d = DeclareNamespace(ctx, p, uri, g)
     /\ NamespaceAssumption
  BY NamespaceAssumption DEF Declaring
<1>0. uri # NoURI /\ NoPrefix \notin Prefixes /\ g \in Prefixes
  BY DEF NamespaceAssumption, Prefixes
<1>1. CASE Finds(ctx, p, uri)
  <2>1. p \in Prefixes /\ GetNamespaceURI(ctx, p) = uri
    BY <1>1 DEF Finds
  <2>2. PICK i \in 1..Len(ctx) : Maps(ctx[i], p)
    BY <1>0, <2>1, HolderLemma
  <2>3. holder = i /\ ctx[i].map[p].uri = uri
    BY <2>1, <2>2, HolderLemma
  <2>4. ctx[i].map[p] \in Mappings
    <3>1. ctx[i] \in Scopes
      BY DEF Contexts
    <3> QED
      BY <2>1, <3>1 DEF Scopes
  <2>5. CASE ctx[i].map[p].declared
    <3>1. d = [ctx |-> ctx, prefix |-> p, created |-> FALSE, returns |-> TRUE]
      BY <1>1, <2>3, <2>5 DEF DeclareNamespace
    <3>2. ctx[i].map[p] = Declared(uri)
      BY <1>0, <2>3, <2>4, <2>5 DEF Mappings, Declared, Unmapped
    <3> QED
      BY <1>1, <2>1, <3>1, <3>2 DEF Extends, IsDeclared
  <2>6. CASE ~ctx[i].map[p].declared /\ i = Len(ctx)
    <3>1. d = [ctx |-> made(p), prefix |-> p, created |-> TRUE, returns |-> TRUE]
      BY <1>1, <2>3, <2>6 DEF DeclareNamespace
    <3>2. made(p) = WithMapping(ctx, p, Declared(uri))
      BY DEF Declared
    <3> DEFINE m == made(p)
    <3> HIDE DEF m
    <3>3. /\ m \in Contexts
          /\ Len(m) = Len(ctx)
          /\ \A j \in 1..Len(ctx) : j # Len(ctx) => m[j] = ctx[j]
          /\ \A q \in Prefixes : q # p => m[Len(ctx)].map[q] = ctx[Len(ctx)].map[q]
          /\ m[Len(ctx)].map[p] = Declared(uri)
      <4>1. m = WithMapping(ctx, p, Declared(uri))
        BY <3>2 DEF m
      <4> QED
        BY <2>1, <4>1, WithMappingLemma
    <3>4. d.ctx = m /\ d.prefix = p /\ d.created = TRUE /\ d.returns = TRUE
      BY <3>1 DEF m
    <3>5. Extends(ctx, m)
      BY <2>1, <2>3, <2>6, <3>3 DEF Extends, Declared
    <3>6. \A j \in 1..Len(ctx), q \in Prefixes : Maps(m[j], q) => Maps(ctx[j], q)
      BY <2>2, <2>6, <3>3 DEF Maps
    <3>7. Unshadowed(m)
      BY <3>3, <3>6 DEF Unshadowed
    <3>8. IsDeclared(m, p, uri)
      BY <2>6, <3>3 DEF IsDeclared
    <3> QED
      BY <1>1, <2>1, <2>6, <3>3, <3>4, <3>5, <3>7, <3>8
  <2>7. CASE ~ctx[i].map[p].declared /\ i # Len(ctx)
    <3>1. d = [ctx |-> ctx, prefix |-> p, created |-> TRUE, returns |-> FALSE]
      BY <1>1, <2>3, <2>7 DEF DeclareNamespace
    <3> QED
      BY <1>1, <2>1, <2>3, <2>7, <3>1 DEF Extends
  <2> QED
    BY <2>5, <2>6, <2>7
<1>2. CASE ~Finds(ctx, p, uri)
  <2> DEFINE q == IF Takes(ctx, p) THEN p ELSE g
             m == made(q)
  <2>1. d = [ctx |-> m, prefix |-> q, created |-> TRUE, returns |-> TRUE]
    BY <1>2 DEF DeclareNamespace
  <2>2. /\ q \in Prefixes /\ q \in {p, g} /\ GetNamespaceURI(ctx, q) = NoURI
        /\ Takes(ctx, p) => q = p
    BY <1>0 DEF Takes
  <2>3. d.ctx = m /\ d.prefix = q /\ d.created = TRUE /\ d.returns = TRUE
    BY <2>1
  <2> HIDE DEF q
  <2>4. \A j \in 1..Len(ctx) : ~Maps(ctx[j], q)
    BY <2>2, FreshLemma
  <2> DEFINE base == IF q = p THEN ctx ELSE [ctx EXCEPT ![Len(ctx)].count = g]
  <2>5. m = WithMapping(base, q, Declared(uri))
    BY DEF Declared
  <2>6. base = ctx \/ base = [ctx EXCEPT ![Len(ctx)].count = g]
    OBVIOUS
  <2> HIDE DEF base, m
  <2>7. /\ m \in Contexts
        /\ Len(m) = Len(ctx)
        /\ \A j \in 1..Len(ctx) : j # Len(ctx) => m[j] = ctx[j]
        /\ \A r \in Prefixes : r # q => m[Len(ctx)].map[r] = ctx[Len(ctx)].map[r]
        /\ m[Len(ctx)].map[q] = Declared(uri)
    BY <2>2, <2>5, <2>6, WithMappingLemma
  <2>8. Extends(ctx, m)
    BY <2>4, <2>7 DEF Extends, Maps
  <2>9. \A j \in 1..Len(ctx), r \in Prefixes : r # q => (Maps(m[j], r) <=> Maps(ctx[j], r))
    BY <2>7 DEF Maps
  <2>10. \A j \in 1..Len(ctx) : j # Len(ctx) => ~Maps(m[j], q)
    BY <2>4, <2>7
  <2>11. Unshadowed(m)
    BY <2>7, <2>9, <2>10 DEF Unshadowed
  <2>12. Len(ctx) \in 1..Len(ctx)
    BY DEF Contexts
  <2>13. IsDeclared(m, q, uri)
    BY <2>7, <2>12 DEF IsDeclared
  <2> QED
    BY <1>2, <2>2, <2>3, <2>7, <2>8, <2>11, <2>12, <2>13
<1> QED
  BY <1>1, <1>2

\* A declared mapping stays one.
LEMMA DeclaredStays ==
  ASSUME NamespaceAssumption, NEW c1 \in Contexts, NEW c2 \in Contexts, Extends(c1, c2),
         NEW k \in 1..Len(c1), NEW q \in Prefixes, NEW uri \in URIs,
         c1[k].map[q] = Declared(uri)
  PROVE  c2[k].map[q] = Declared(uri)
<1>1. uri # NoURI
  BY DEF NamespaceAssumption
<1>2. Len(c2) = Len(c1) /\ c2[k].map[q].uri = uri /\ c2[k].map[q].declared
  BY <1>1 DEF Extends, Declared, Maps
<1>3. c2[k] \in Scopes
  BY <1>2 DEF Contexts
<1>4. c2[k].map[q] \in Mappings
  BY <1>3 DEF Scopes
<1> QED
  BY <1>1, <1>2, <1>4 DEF Mappings, Unmapped, Declared

\* pushContext adds a scope that maps nothing.
LEMMA PushLemma ==
  ASSUME NEW ctx \in Contexts, Unshadowed(ctx)
  PROVE  /\ PushContext(ctx) \in Contexts
         /\ Len(PushContext(ctx)) = Len(ctx) + 1
         /\ \A i \in 1..Len(ctx) : PushContext(ctx)[i] = ctx[i]
         /\ PushContext(ctx)[Len(ctx) + 1] = EmptyScope
         /\ \A q \in Prefixes : EmptyScope.map[q] = Unmapped /\ ~Maps(EmptyScope, q)
         /\ Unshadowed(PushContext(ctx))
<1>1. EmptyScope \in Scopes
  BY DEF EmptyScope, Scopes, Mappings
<1>2. \A q \in Prefixes : EmptyScope.map[q] = Unmapped /\ ~Maps(EmptyScope, q)
  BY DEF EmptyScope, Maps, Unmapped
<1> DEFINE pushed == PushContext(ctx)
<1>3. /\ pushed \in Contexts
      /\ Len(pushed) = Len(ctx) + 1
      /\ \A i \in 1..Len(ctx) : pushed[i] = ctx[i]
      /\ pushed[Len(ctx) + 1] = EmptyScope
  BY <1>1 DEF PushContext, Contexts
<1> HIDE DEF pushed
<1>4. Unshadowed(pushed)
  <2> SUFFICES ASSUME NEW i \in 1..Len(pushed), NEW j \in 1..Len(pushed), NEW q \in Prefixes,
                      Maps(pushed[i], q), Maps(pushed[j], q)
               PROVE  i = j
    BY DEF Unshadowed
  <2>1. Len(ctx) \in Nat
    BY DEF Contexts
  <2>2. i # Len(ctx) + 1 /\ j # Len(ctx) + 1
    BY <1>2, <1>3
  <2>3. i \in 1..Len(ctx) /\ j \in 1..Len(ctx)
    BY <1>3, <2>1, <2>2
  <2> QED
    BY <1>3, <2>3 DEF Unshadowed
<1> QED
  BY <1>2, <1>3, <1>4 DEF pushed

\* A prefix that getPrefixMapping returns is declared for the URI.
LEMMA PrefixMappingsLemma ==
  ASSUME NEW ctx \in Contexts, NEW uri, NEW q \in PrefixMappings(ctx, uri)
  PROVE  q \in Prefixes /\ \E k \in 1..Len(ctx) : ctx[k].map[q] = Declared(uri)
BY DEF PrefixMappings, Declared

---------------------------------------------------------------------------
(* What an element and the scope of its attributes have in common.         *)

Matches(scope, element) ==
  \A p \in Prefixes :
    /\ scope.map[p].declared => element.xmlns[p] = scope.map[p].uri
    /\ element.xmlns[p] # NoURI => scope.map[p] = Declared(element.xmlns[p])

\* declareNamespace keeps the attributes and the scope together.
LEMMA WithXmlnsLemma ==
  ASSUME NEW ctx, NEW p, NEW uri, NEW g, NEW d, Declaring(ctx, p, uri, g, d), d.returns,
         NEW element \in Elements, Matches(ctx[Len(ctx)], element)
  PROVE  /\ WithXmlns(element, d, uri) \in Elements
         /\ WithXmlns(element, d, uri).names = element.names
         /\ WithXmlns(element, d, uri).phase = element.phase
         /\ Matches(d.ctx[Len(ctx)], WithXmlns(element, d, uri))
<1>1. /\ d.prefix \in Prefixes
      /\ d.created => d.ctx[Len(ctx)].map[d.prefix] = Declared(uri)
      /\ \A q \in Prefixes : q # d.prefix => d.ctx[Len(ctx)].map[q] = ctx[Len(ctx)].map[q]
      /\ ~d.created => d.ctx = ctx
  BY DeclareLemma
<1>. uri \in URIs
  BY DEF Declaring
<1>2. CASE d.created
  <2> DEFINE e == [element EXCEPT !.xmlns[d.prefix] = uri]
  <2>1. WithXmlns(element, d, uri) = e
    BY <1>2 DEF WithXmlns
  <2>2. /\ e \in Elements
        /\ e.names = element.names
        /\ e.phase = element.phase
        /\ e.xmlns[d.prefix] = uri
        /\ \A q \in Prefixes : q # d.prefix => e.xmlns[q] = element.xmlns[q]
    BY <1>1 DEF Elements, Declarations
  <2> HIDE DEF e
  <2>3. Matches(d.ctx[Len(ctx)], e)
    <3>0. uri # NoURI
      BY NamespaceAssumption DEF NamespaceAssumption, Declaring
    <3> SUFFICES ASSUME NEW q \in Prefixes
                 PROVE  /\ d.ctx[Len(ctx)].map[q].declared =>
                             e.xmlns[q] = d.ctx[Len(ctx)].map[q].uri
                        /\ e.xmlns[q] # NoURI =>
                             d.ctx[Len(ctx)].map[q] = Declared(e.xmlns[q])
      BY DEF Matches
    <3>1. CASE q = d.prefix
      <4>1. d.ctx[Len(ctx)].map[q] = Declared(uri) /\ e.xmlns[q] = uri
        BY <1>1, <1>2, <2>2, <3>1
      <4> QED
        BY <4>1 DEF Declared
    <3>2. CASE q # d.prefix
      BY <1>1, <2>2, <3>2 DEF Matches
    <3> QED
      BY <3>1, <3>2
  <2> QED
    BY <2>1, <2>2, <2>3
<1>3. CASE ~d.created
  BY <1>1, <1>3 DEF WithXmlns
<1> QED
  BY <1>2, <1>3

---------------------------------------------------------------------------
(* The invariant.                                                          *)

\* What the constants' assumptions say of the prefixes and the URIs.
LEMMA ConstantsLemma ==
  /\ SoapPrefix \in Prefixes /\ XsiPrefix \in Prefixes /\ SoapPrefix # XsiPrefix
  /\ SoapURI \in URIs /\ XsiURI \in URIs /\ SoapURI # XsiURI
  /\ AppURIs \subseteq URIs \ {SoapURI, XsiURI}
  /\ NoURI \notin URIs
  /\ Generated \subseteq Prefixes
  /\ NoPrefix \notin Prefixes
  /\ XsiPrefix \notin Generated /\ SoapPrefix \notin Generated
  /\ TypePrefixes \subseteq Prefixes \cup {NoPrefix}
BY NamespaceAssumption, WriterAssumption DEF NamespaceAssumption, WriterAssumption, Prefixes

\* At the beginning there are the envelope and its scope.
LEMMA InitIInv == Init => IInv
<1> SUFFICES ASSUME Init
             PROVE  IInv
  OBVIOUS
<1> USE ConstantsLemma
<1>1. PICK D \in SUBSET WsdlPrefixes : \E wsdl \in [D -> AppURIs] : scopes = <<RootScope(wsdl)>>
  BY DEF Init
<1>2. PICK wsdl \in [D -> AppURIs] : scopes = <<RootScope(wsdl)>>
  BY <1>1
<1>3. open = <<Envelope>> /\ thrown = FALSE
  BY DEF Init
<1> DEFINE root == RootScope(wsdl)
<1>4. D \subseteq Prefixes \ {XsiPrefix} /\ DOMAIN wsdl = D
  BY WriterAssumption DEF WriterAssumption
<1>5. \A p \in D : root.map[p].uri \in AppURIs /\ ~root.map[p].declared /\ root.map[p] \in Mappings
  <2> SUFFICES ASSUME NEW p \in D
               PROVE  root.map[p].uri \in AppURIs /\ ~root.map[p].declared /\ root.map[p] \in Mappings
    OBVIOUS
  <2>1. root.map[p] = [uri |-> wsdl[p], declared |-> FALSE]
    BY <1>4 DEF RootScope
  <2>2. wsdl[p] \in AppURIs
    OBVIOUS
  <2> QED
    BY <2>1, <2>2 DEF Mappings
<1>5a. SoapPrefix \notin D => root.map[SoapPrefix] = [uri |-> SoapURI, declared |-> TRUE]
  BY <1>4 DEF RootScope
<1>5b. \A p \in Prefixes \ (D \cup {SoapPrefix}) :
         root.map[p] = [uri |-> NoURI, declared |-> FALSE]
  BY <1>4 DEF RootScope, Unmapped
<1>6. root \in Scopes
  <2>2. root = [map |-> root.map, count |-> 0] /\ DOMAIN root.map = Prefixes
    BY DEF RootScope
  <2>3. root.map = [p \in Prefixes |-> root.map[p]]
    BY DEF RootScope
  <2> HIDE DEF root
  <2>1. \A p \in Prefixes : root.map[p] \in Mappings
    <3> TAKE p \in Prefixes
    <3>1. CASE p \in D
      BY <1>5, <3>1
    <3>2. CASE p \notin D
      <4>1. CASE p = SoapPrefix
        <5>1. root.map[p] = [uri |-> SoapURI, declared |-> TRUE]
          BY <1>5a, <3>2, <4>1
        <5> QED
          BY <5>1 DEF Mappings
      <4>2. CASE p # SoapPrefix
        BY <1>5b, <3>2, <4>2 DEF Mappings, Unmapped
      <4> QED
        BY <4>1, <4>2
    <3> QED
      BY <3>1, <3>2
  <2>4. root.map \in [Prefixes -> Mappings]
    BY <2>1, <2>3
  <2> QED
    BY <2>2, <2>4 DEF Scopes
<1>7. /\ Envelope \in Elements
      /\ Envelope.names = {Name(SoapPrefix, SoapURI)}
      /\ Envelope.xmlns[SoapPrefix] = SoapURI
  <2>1. [NoXmlns EXCEPT ![SoapPrefix] = SoapURI] \in Declarations
    BY DEF NoXmlns, Declarations
  <2>2. Name(SoapPrefix, SoapURI) \in QNames
    BY DEF Name, QNames
  <2> QED
    BY <2>1, <2>2 DEF Envelope, Elements, NoXmlns
<1>8. Len(scopes) = 1 /\ scopes[1] = root /\ Len(open) = 1 /\ open[1] = Envelope
  BY <1>2, <1>3
<1> HIDE DEF root
<1>9. TypeOK
  <2>1. scopes \in Contexts
    <3>1. scopes = <<root>>
      BY <1>2 DEF root
    <3> QED
      BY <1>6, <3>1 DEF Contexts
  <2>2. open \in Seq(Elements)
    BY <1>3, <1>7
  <2>3. thrown \in BOOLEAN
    BY <1>3
  <2>4. Len(open) = Len(scopes) /\ Len(open) >= 1
    BY <1>8
  <2> QED
    BY <2>1, <2>2, <2>3, <2>4 DEF TypeOK
<1>10. NoShadowing
  BY <1>8 DEF NoShadowing
<1>11. DeclaredIsWritten
  <2> SUFFICES ASSUME NEW p \in Prefixes, root.map[p].declared
               PROVE  Envelope.xmlns[p] = root.map[p].uri
    BY <1>8 DEF DeclaredIsWritten
  <2>1. p \notin D
    BY <1>5
  <2>2. p = SoapPrefix
    BY <1>5b, <2>1
  <2>3. root.map[p].uri = SoapURI
    BY <1>5a, <2>1, <2>2
  <2> QED
    BY <1>7, <2>2, <2>3
<1>12. Root
  <2>1. Maps(root, SoapPrefix)
    <3>1. CASE SoapPrefix \in D
      <4>1. root.map[SoapPrefix].uri \in AppURIs
        BY <1>5, <3>1
      <4> QED
        BY <4>1 DEF Maps
    <3>2. CASE SoapPrefix \notin D
      BY <1>5a, <3>2 DEF Maps
    <3> QED
      BY <3>1, <3>2
  <2>2. root.map[SoapPrefix].uri = SoapURI => root.map[SoapPrefix].declared
    <3>1. CASE SoapPrefix \in D
      <4>1. root.map[SoapPrefix].uri \in AppURIs
        BY <1>5, <3>1
      <4> QED
        BY <4>1
    <3>2. CASE SoapPrefix \notin D
      BY <1>5a, <3>2
    <3> QED
      BY <3>1, <3>2
  <2> QED
    BY <1>8, <2>1, <2>2 DEF Root
<1>13. XsiIsXsi
  <2>1. root.map[XsiPrefix].uri = NoURI
    BY <1>4, <1>5b
  <2> QED
    BY <1>8, <2>1 DEF XsiIsXsi, Maps
<1>14. WrittenIsDeclared
  BY <1>8 DEF WrittenIsDeclared
<1>15. NamesAreDeclared
  BY <1>7, <1>8 DEF NamesAreDeclared, NameIsDeclared
<1> QED
  BY <1>9, <1>10, <1>11, <1>12, <1>13, <1>14, <1>15 DEF IInv

\* The scopes and the elements are without shadowing, in both forms.
LEMMA UnshadowedLemma ==
  ASSUME TypeOK, NoShadowing
  PROVE  Unshadowed(scopes)
BY DEF Unshadowed, NoShadowing

\* A step that works on the innermost element, one that was open or a new one:
\* the invariant is a matter of that element and its scope.
LEMMA TopLemma ==
  ASSUME IInv, TypeOK', NEW N \in Nat, N = Len(open'), N > 1,
         N = Len(open) \/ N = Len(open) + 1,
         \A i \in 1..(N - 1) : /\ scopes'[i] = scopes[i]
                               /\ open'[i].xmlns = open[i].xmlns
                               /\ open'[i].names = open[i].names,
         NoShadowing',
         Maps(scopes'[N], XsiPrefix) => scopes'[N].map[XsiPrefix] = Declared(XsiURI),
         scopes[1].map[SoapPrefix].uri = SoapURI =>
           \A p \in Prefixes : scopes'[N].map[p].uri # SoapURI,
         Matches(scopes'[N], open'[N]),
         \A n \in open'[N].names :
           \E k \in 1..N : scopes'[k].map[n.prefix] = Declared(n.uri)
  PROVE  IInv'
<1> USE ConstantsLemma
<1>1. Len(scopes') = N /\ Len(open) \in Nat /\ Len(scopes) = Len(open) /\ Len(open) >= 1
  BY DEF IInv, TypeOK
<1>2. DeclaredIsWritten'
  <2> SUFFICES ASSUME NEW i \in 1..N, NEW p \in Prefixes, scopes'[i].map[p].declared
               PROVE  open'[i].xmlns[p] = scopes'[i].map[p].uri
    BY <1>1 DEF DeclaredIsWritten
  <2>1. CASE i = N
    BY <2>1 DEF Matches
  <2>2. CASE i # N
    <3>1. i \in 1..(N - 1) /\ i \in 1..Len(scopes)
      BY <1>1, <2>2
    <3> QED
      BY <3>1 DEF IInv, DeclaredIsWritten
  <2> QED
    BY <2>1, <2>2
<1>3. Root'
  <2>1. 1 \in 1..(N - 1)
    OBVIOUS
  <2>2. open'[1].xmlns = Envelope.xmlns /\ Maps(scopes'[1], SoapPrefix)
    BY <2>1 DEF IInv, Root
  <2>3. scopes'[1].map[SoapPrefix].uri = SoapURI =>
          /\ scopes'[1].map[SoapPrefix].declared
          /\ \A k \in 2..N, p \in Prefixes : scopes'[k].map[p].uri # SoapURI
    <3> SUFFICES ASSUME scopes[1].map[SoapPrefix].uri = SoapURI
                 PROVE  /\ scopes[1].map[SoapPrefix].declared
                        /\ \A k \in 2..N, p \in Prefixes : scopes'[k].map[p].uri # SoapURI
      BY <2>1
    <3>1. \A k \in 2..N : k = N \/ (k \in 1..(N - 1) /\ k \in 2..Len(scopes))
      BY <1>1
    <3> QED
      BY <3>1 DEF IInv, Root
  <2> QED
    BY <1>1, <2>2, <2>3 DEF Root
<1>4. XsiIsXsi'
  <2> SUFFICES ASSUME NEW i \in 1..N, Maps(scopes'[i], XsiPrefix)
               PROVE  scopes'[i].map[XsiPrefix] = Declared(XsiURI)
    BY <1>1 DEF XsiIsXsi
  <2>1. i = N \/ (i \in 1..(N - 1) /\ i \in 1..Len(scopes))
    BY <1>1
  <2> QED
    BY <2>1 DEF IInv, XsiIsXsi
<1>5. WrittenIsDeclared'
  <2> SUFFICES ASSUME NEW i \in 2..N, NEW p \in Prefixes, open'[i].xmlns[p] # NoURI
               PROVE  scopes'[i].map[p] = Declared(open'[i].xmlns[p])
    BY <1>1 DEF WrittenIsDeclared
  <2>1. CASE i = N
    BY <2>1 DEF Matches
  <2>2. CASE i # N
    <3>1. i \in 1..(N - 1) /\ i \in 2..Len(open)
      BY <1>1, <2>2
    <3> QED
      BY <3>1 DEF IInv, WrittenIsDeclared
  <2> QED
    BY <2>1, <2>2
<1>6. NamesAreDeclared'
  <2> SUFFICES ASSUME NEW i \in 1..N, NEW n \in open'[i].names
               PROVE  \/ i = 1 /\ n = Name(SoapPrefix, SoapURI)
                      \/ \E k \in 1..i : scopes'[k].map[n.prefix] = Declared(n.uri)
    BY DEF NamesAreDeclared, NameIsDeclared
  <2>1. CASE i = N
    BY <2>1
  <2>2. CASE i # N
    <3>1. i \in 1..(N - 1) /\ i \in 1..Len(open) /\ n \in open[i].names
      BY <1>1, <2>2
    <3>2. \A k \in 1..i : k \in 1..(N - 1)
      BY <3>1
    <3> QED
      BY <3>1, <3>2 DEF IInv, NamesAreDeclared, NameIsDeclared
  <2> QED
    BY <2>1, <2>2
<1> QED
  BY <1>2, <1>3, <1>4, <1>5, <1>6 DEF IInv

\* The step formula of MappingsAreStable.
Stable ==
  \A i \in 1..Len(scopes), p \in Prefixes :
    i <= Len(scopes') /\ Maps(scopes[i], p) =>
      /\ scopes'[i].map[p].uri = scopes[i].map[p].uri
      /\ scopes[i].map[p].declared => scopes'[i].map[p].declared

\* A step that only extends the context, perhaps by a scope, is stable.
LEMMA ExtendsIsStable ==
  ASSUME Extends(scopes, scopes')
  PROVE  Stable
BY DEF Stable, Extends

\* An element that is opened, with the scope that is pushed for it: what is left
\* to show is about the two.
LEMMA OpenLemma ==
  ASSUME IInv, Len(open) < MaxDepth, thrown \in BOOLEAN, UNCHANGED thrown,
         NEW c \in Contexts, Len(c) = Len(scopes) + 1, Unshadowed(c),
         \A i \in 1..Len(scopes) : c[i] = scopes[i],
         NEW element \in Elements, Matches(c[Len(c)], element),
         c[Len(c)].map[XsiPrefix] = Unmapped,
         scopes[1].map[SoapPrefix].uri = SoapURI =>
           \A p \in Prefixes : c[Len(c)].map[p].uri # SoapURI,
         \A n \in element.names : \E k \in 1..Len(c) : c[k].map[n.prefix] = Declared(n.uri),
         scopes' = c, open' = Append(Parents, element)
  PROVE  IInv' /\ Stable
<1> DEFINE L == Len(open)
<1>1. /\ L \in Nat /\ L >= 1 /\ Len(scopes) = L /\ Len(c) = L + 1
      /\ scopes \in Seq(Scopes) /\ open \in Seq(Elements)
  BY DEF IInv, TypeOK, Contexts
<1>2. /\ Parents \in Seq(Elements) /\ Len(Parents) = L
      /\ \A i \in 1..L : Parents[i].xmlns = open[i].xmlns /\ Parents[i].names = open[i].names
  <2>1. open[L] \in Elements
    BY <1>1
  <2> DEFINE e == [open[L] EXCEPT !.phase = "content"]
  <2>2. e \in Elements /\ e.xmlns = open[L].xmlns /\ e.names = open[L].names
    BY <2>1 DEF Elements
  <2>3. Parents = [open EXCEPT ![L] = e]
    BY DEF Parents
  <2> HIDE DEF e
  <2> QED
    BY <1>1, <2>2, <2>3
<1> DEFINE opened == Append(Parents, element)
<1>3. /\ opened \in Seq(Elements) /\ Len(opened) = L + 1
      /\ \A i \in 1..L : opened[i].xmlns = open[i].xmlns /\ opened[i].names = open[i].names
      /\ opened[L + 1] = element
  BY <1>2
<1>4. open' = opened
  OBVIOUS
<1> HIDE DEF opened
<1>5. TypeOK'
  BY <1>1, <1>3, <1>4 DEF TypeOK
<1>6. NoShadowing'
  BY DEF NoShadowing, Unshadowed
<1>7. Maps(c[L + 1], XsiPrefix) => c[L + 1].map[XsiPrefix] = Declared(XsiURI)
  BY <1>1 DEF Maps, Unmapped
<1>8. IInv'
  BY <1>1, <1>3, <1>4, <1>5, <1>6, <1>7, TopLemma
<1>9. Stable
  BY <1>1 DEF Stable
<1> QED
  BY <1>8, <1>9

\* The prefix of the envelope is known wherever the WSDL has not rebound it.
LEMMA SoapPrefixIsKnown ==
  ASSUME IInv, NEW c \in Contexts, Len(c) = Len(scopes) + 1, Unshadowed(c),
         \A i \in 1..Len(scopes) : c[i] = scopes[i],
         c[Len(c)] = EmptyScope,
         scopes[1].map[SoapPrefix].uri = SoapURI
  PROVE  SoapPrefix \in PrefixMappings(c, SoapURI)
<1> USE ConstantsLemma
<1>1. Len(scopes) \in Nat /\ Len(scopes) >= 1 /\ scopes \in Seq(Scopes)
  BY DEF IInv, TypeOK, Contexts
<1> DEFINE in(i) == {p \in Prefixes : c[i].map[p] = [uri |-> SoapURI, declared |-> TRUE]}
<1>2. SoapPrefix \in in(1)
  <2>1. scopes[1] \in Scopes
    BY <1>1
  <2>2. scopes[1].map[SoapPrefix] \in Mappings
    BY <2>1 DEF Scopes
  <2>3. scopes[1].map[SoapPrefix].declared
    BY DEF IInv, Root
  <2>4. scopes[1].map[SoapPrefix] = [uri |-> SoapURI, declared |-> TRUE]
    BY <2>2, <2>3 DEF Mappings, Unmapped
  <2> QED
    BY <1>1, <2>4
<1>3. \A j \in 2..Len(c) : in(j) = {}
  <2> SUFFICES ASSUME NEW j \in 2..Len(c), NEW p \in Prefixes,
                      c[j].map[p] = [uri |-> SoapURI, declared |-> TRUE]
               PROVE  FALSE
    OBVIOUS
  <2>1. c[j].map[p].uri = SoapURI
    OBVIOUS
  <2>2. CASE j = Len(c)
    <3>1. c[j].map[p].uri = NoURI
      BY <2>2 DEF EmptyScope, Unmapped
    <3> QED
      BY <2>1, <3>1
  <2>3. CASE j # Len(c)
    <3>1. j \in 2..Len(scopes) /\ j \in 1..Len(scopes)
      BY <1>1, <2>3
    <3> QED
      BY <2>1, <3>1 DEF IInv, Root
  <2> QED
    BY <2>2, <2>3
<1>4. PrefixMappings(c, SoapURI) =
        UNION {in(i) : i \in {k \in 1..Len(c) : \A j \in (k + 1)..Len(c) : in(j) = {}}}
  BY DEF PrefixMappings
<1> HIDE DEF in
<1>5. 1 \in 1..Len(c) /\ \A j \in (1 + 1)..Len(c) : in(j) = {}
  BY <1>1, <1>3
<1>6. 1 \in {k \in 1..Len(c) : \A j \in (k + 1)..Len(c) : in(j) = {}}
  BY <1>5
<1> QED
  BY <1>2, <1>4, <1>6

\* An element with a qualified name is opened.
LEMMA OpenQualifiedIInv ==
  ASSUME IInv, NEW p, NEW uri, OpenQualified(p, uri),
         \/ p = NoPrefix /\ uri \in AppURIs
         \/ p = SoapPrefix /\ uri = SoapURI
  PROVE  IInv' /\ Stable
<1> USE ConstantsLemma
<1> DEFINE pushed == PushContext(scopes)
           known == PrefixMappings(pushed, uri)
           N == Len(scopes) + 1
<1>0. /\ scopes \in Contexts /\ Unshadowed(scopes) /\ Len(scopes) \in Nat /\ Len(scopes) >= 1
      /\ thrown \in BOOLEAN
  BY UnshadowedLemma DEF IInv, TypeOK, Contexts
<1>00. Len(open) < MaxDepth /\ UNCHANGED thrown
  BY DEF OpenQualified
<1>1. /\ pushed \in Contexts
      /\ Len(pushed) = N
      /\ \A i \in 1..Len(scopes) : pushed[i] = scopes[i]
      /\ pushed[N] = EmptyScope
      /\ \A q \in Prefixes : EmptyScope.map[q] = Unmapped /\ ~Maps(EmptyScope, q)
      /\ Unshadowed(pushed)
  BY <1>0, PushLemma
<1>2. uri \in URIs /\ uri # XsiURI /\ uri # NoURI /\ p \in Prefixes \cup {NoPrefix}
  OBVIOUS
<1>3. NoXmlns \in Declarations /\ \A q \in Prefixes : NoXmlns[q] = NoURI
  BY DEF NoXmlns, Declarations
<1>4. ASSUME NEW q \in known, scopes' = pushed,
             open' = Append(Parents, NewElement(NoXmlns, {Name(q, uri)}))
      PROVE  IInv' /\ Stable
  <2> DEFINE element == NewElement(NoXmlns, {Name(q, uri)})
  <2>1. q \in Prefixes /\ \E k \in 1..N : pushed[k].map[q] = Declared(uri)
    BY <1>1, <1>4, PrefixMappingsLemma
  <2>2. Name(q, uri) \in QNames /\ Name(q, uri).prefix = q /\ Name(q, uri).uri = uri
    BY <1>2, <2>1 DEF Name, QNames
  <2>3. element \in Elements /\ element.names = {Name(q, uri)} /\ element.xmlns = NoXmlns
    BY <1>3, <2>2 DEF NewElement, Elements
  <2> HIDE DEF element
  <2>4. Matches(pushed[N], element)
    BY <1>1, <1>3, <2>3 DEF Matches, Unmapped
  <2>5. pushed[N].map[XsiPrefix] = Unmapped
    BY <1>1
  <2>6. \A r \in Prefixes : pushed[N].map[r].uri # SoapURI
    BY <1>1 DEF Unmapped
  <2>7. \A n \in element.names : \E k \in 1..N : pushed[k].map[n.prefix] = Declared(n.uri)
    BY <2>1, <2>2, <2>3
  <2>8. open' = Append(Parents, element)
    BY <1>4 DEF element
  <2> HIDE DEF pushed
  <2>9. /\ pushed \in Contexts /\ Len(pushed) = N /\ Unshadowed(pushed)
        /\ \A i \in 1..Len(scopes) : pushed[i] = scopes[i]
        /\ scopes' = pushed
    BY <1>1, <1>4
  <2> QED
    BY <1>0, <1>00, <2>3, <2>4, <2>5, <2>6, <2>7, <2>8, <2>9, OpenLemma
<1>5. ASSUME known = {}, NEW g \in Generated, Generates(pushed, g), NEW d,
             d = DeclareNamespace(pushed, p, uri, g), scopes' = d.ctx,
             open' = Append(Parents,
                       NewElement([NoXmlns EXCEPT ![d.prefix] = uri], {Name(d.prefix, uri)}))
      PROVE  IInv' /\ Stable
  <2>1. GetNamespaceURI(pushed, g) = NoURI
    BY <1>5 DEF Generates
  <2>2. p = SoapPrefix => scopes[1].map[SoapPrefix].uri # SoapURI
    <3> SUFFICES ASSUME p = SoapPrefix, scopes[1].map[SoapPrefix].uri = SoapURI
                 PROVE  FALSE
      OBVIOUS
    <3> HIDE DEF pushed
    <3>1. SoapPrefix \in PrefixMappings(pushed, SoapURI)
      BY <1>1, SoapPrefixIsKnown
    <3> QED
      BY <1>5, <3>1
  <2>3. ~Finds(pushed, p, uri)
    <3>1. CASE p = NoPrefix
      BY <3>1 DEF Finds
    <3>2. CASE p = SoapPrefix
      <4> HIDE DEF pushed
      <4>1. 1 \in 1..Len(pushed) /\ pushed[1] = scopes[1] /\ Maps(pushed[1], SoapPrefix)
        BY <1>0, <1>1 DEF IInv, Root
      <4>2. GetNamespaceURI(pushed, SoapPrefix) = scopes[1].map[SoapPrefix].uri
        BY <1>1, <4>1, HolderLemma
      <4>3. uri = SoapURI
        BY <3>2
      <4> QED
        BY <2>2, <3>2, <4>2, <4>3 DEF Finds
    <3> QED
      BY <3>1, <3>2
  <2> HIDE DEF pushed
  <2> DEFINE c == d.ctx
             q == d.prefix
  <2>0. Declaring(pushed, p, uri, g, d) /\ Len(pushed) = N
    BY <1>0, <1>1, <1>2, <1>5, <2>1 DEF Declaring
  <2> DEFINE element == NewElement([NoXmlns EXCEPT ![q] = uri], {Name(q, uri)})
  <2>4. /\ c \in Contexts
        /\ q \in Prefixes
        /\ Extends(pushed, c)
        /\ Unshadowed(c)
        /\ \A i \in 1..N : i # N => c[i] = pushed[i]
    <3>1. c \in Contexts /\ q \in Prefixes
      BY <2>0, DeclareLemma
    <3>2. Extends(pushed, c) /\ Unshadowed(c)
      BY <2>0, DeclareLemma
    <3>3. \A i \in 1..N : i # N => c[i] = pushed[i]
      BY <2>0, DeclareLemma
    <3> QED
      BY <3>1, <3>2, <3>3
  <2>5. /\ \A r \in Prefixes : r # q => c[N].map[r] = pushed[N].map[r]
        /\ q \in {p, g}
        /\ c[N].map[q] = Declared(uri)
    <3>1. \A r \in Prefixes : r # q => c[N].map[r] = pushed[N].map[r]
      BY <2>0, DeclareLemma
    <3>2. q \in {p, g}
      BY <2>0, DeclareLemma
    <3>3. d.created /\ d.returns
      BY <2>0, <2>3, DeclareLemma
    <3>4. c[N].map[q] = Declared(uri)
      BY <2>0, <3>3, DeclareLemma
    <3> QED
      BY <3>1, <3>2, <3>4
  <2> HIDE DEF c, q
  <2>6. Len(c) = N /\ \A i \in 1..Len(scopes) : c[i] = scopes[i]
    BY <1>0, <1>1, <2>4 DEF Extends
  <2>7. /\ Name(q, uri) \in QNames /\ Name(q, uri).prefix = q /\ Name(q, uri).uri = uri
    BY <1>2, <2>4 DEF Name, QNames
  <2>8. /\ element \in Elements /\ element.names = {Name(q, uri)}
        /\ element.xmlns[q] = uri
        /\ \A r \in Prefixes : r # q => element.xmlns[r] = NoURI
    BY <1>2, <1>3, <2>4, <2>7 DEF NewElement, Elements, Declarations
  <2>9. open' = Append(Parents, element) /\ scopes' = c
    BY <1>5 DEF c, q
  <2> HIDE DEF element
  <2>10. Matches(c[N], element)
    <3>1. \A r \in Prefixes : r # q =>
            /\ c[N].map[r].declared => element.xmlns[r] = c[N].map[r].uri
            /\ element.xmlns[r] # NoURI => c[N].map[r] = Declared(element.xmlns[r])
      BY <1>1, <2>5, <2>8 DEF Unmapped
    <3>2. c[N].map[q].uri = uri
      BY <2>5 DEF Declared
    <3> QED
      BY <2>5, <2>8, <3>1, <3>2 DEF Matches
  <2>11. c[N].map[XsiPrefix] = Unmapped
    BY <1>1, <2>5
  <2>12. scopes[1].map[SoapPrefix].uri = SoapURI =>
           \A r \in Prefixes : c[N].map[r].uri # SoapURI
    <3> SUFFICES ASSUME scopes[1].map[SoapPrefix].uri = SoapURI, NEW r \in Prefixes
                 PROVE  c[N].map[r].uri # SoapURI
      OBVIOUS
    <3>1. uri # SoapURI
      BY <2>2
    <3>2. CASE r = q
      BY <2>5, <3>1, <3>2 DEF Declared
    <3>3. CASE r # q
      BY <1>1, <2>5, <3>3 DEF Unmapped
    <3> QED
      BY <3>2, <3>3
  <2>13. \A n \in element.names : \E k \in 1..N : c[k].map[n.prefix] = Declared(n.uri)
    <3>1. N \in 1..N
      BY <1>0
    <3> QED
      BY <2>5, <2>7, <2>8, <3>1
  <2> QED
    BY <1>0, <1>00, <2>4, <2>6, <2>8, <2>9, <2>10, <2>11, <2>12, <2>13, OpenLemma
<1> QED
  BY <1>4, <1>5 DEF OpenQualified

\* An element with an unqualified name is opened.
LEMMA OpenUnqualifiedIInv ==
  ASSUME IInv, OpenUnqualified
  PROVE  IInv' /\ Stable
<1> USE ConstantsLemma
<1> DEFINE pushed == PushContext(scopes)
           N == Len(scopes) + 1
           element == NewElement(NoXmlns, {})
<1>0. /\ scopes \in Contexts /\ Unshadowed(scopes) /\ Len(scopes) \in Nat /\ Len(scopes) >= 1
      /\ thrown \in BOOLEAN
  BY UnshadowedLemma DEF IInv, TypeOK, Contexts
<1>00. Len(open) < MaxDepth /\ UNCHANGED thrown
  BY DEF OpenUnqualified
<1>1. /\ pushed \in Contexts
      /\ Len(pushed) = N
      /\ \A i \in 1..Len(scopes) : pushed[i] = scopes[i]
      /\ pushed[N] = EmptyScope
      /\ \A q \in Prefixes : EmptyScope.map[q] = Unmapped /\ ~Maps(EmptyScope, q)
      /\ Unshadowed(pushed)
  BY <1>0, PushLemma
<1>2. NoXmlns \in Declarations /\ \A q \in Prefixes : NoXmlns[q] = NoURI
  BY DEF NoXmlns, Declarations
<1>3. element \in Elements /\ element.names = {} /\ element.xmlns = NoXmlns
  BY <1>2 DEF NewElement, Elements
<1>4. scopes' = pushed /\ open' = Append(Parents, element)
  BY DEF OpenUnqualified
<1> HIDE DEF pushed, element
<1>5. Matches(pushed[N], element)
  BY <1>1, <1>2, <1>3 DEF Matches, Unmapped
<1>6. \A r \in Prefixes : pushed[N].map[r].uri # SoapURI
  BY <1>1 DEF Unmapped
<1> QED
  BY <1>0, <1>00, <1>1, <1>3, <1>4, <1>5, <1>6, OpenLemma

---------------------------------------------------------------------------
(* Declarations and names on the innermost element, one after another.     *)

\* The context c and the element e that an action has made of the current scope
\* and element so far could be those of the next state.
Good(c, e) ==
  /\ c \in Contexts
  /\ Extends(scopes, c)
  /\ Unshadowed(c)
  /\ \A i \in 1..Len(c) : i # Len(c) => c[i] = scopes[i]
  /\ e \in Elements
  /\ Matches(c[Len(c)], e)
  /\ \A i \in 1..Len(c) : Maps(c[i], XsiPrefix) => c[i].map[XsiPrefix] = Declared(XsiURI)
  /\ scopes[1].map[SoapPrefix].uri = SoapURI =>
       \A p \in Prefixes : c[Len(c)].map[p].uri # SoapURI
  /\ \A n \in e.names : \E k \in 1..Len(c) : c[k].map[n.prefix] = Declared(n.uri)

\* What an action begins with, unless the innermost element is the envelope.
LEMMA GoodAtFirst ==
  ASSUME IInv, Len(open) > 1
  PROVE  Good(scopes, Current)
<1> DEFINE N == Len(open)
<1>1. /\ N \in Nat /\ Len(scopes) = N /\ N \in 1..N /\ N \in 2..N
      /\ scopes \in Contexts /\ open \in Seq(Elements)
  BY DEF IInv, TypeOK
<1>2. Unshadowed(scopes)
  BY UnshadowedLemma DEF IInv
<1>3. Extends(scopes, scopes)
  BY DEF Extends
<1>4. Current \in Elements /\ Current = open[N]
  BY <1>1 DEF Current
<1>5. Matches(scopes[N], open[N])
  BY <1>1 DEF Matches, IInv, DeclaredIsWritten, WrittenIsDeclared
<1>6. \A i \in 1..N : Maps(scopes[i], XsiPrefix) => scopes[i].map[XsiPrefix] = Declared(XsiURI)
  BY <1>1 DEF IInv, XsiIsXsi
<1>7. scopes[1].map[SoapPrefix].uri = SoapURI =>
       \A p \in Prefixes : scopes[N].map[p].uri # SoapURI
  BY <1>1 DEF IInv, Root
<1>8. \A n \in open[N].names : \E k \in 1..N : scopes[k].map[n.prefix] = Declared(n.uri)
  BY <1>1 DEF IInv, NamesAreDeclared, NameIsDeclared
<1> QED
  BY <1>1, <1>2, <1>3, <1>4, <1>5, <1>6, <1>7, <1>8 DEF Good

\* A namespace of the application, or `xsi', is declared.
LEMMA GoodDeclare ==
  ASSUME NEW c, NEW e, Good(c, e),
         NEW p, NEW uri, NEW g, NEW d, Declaring(c, p, uri, g, d), d.returns, uri # SoapURI,
         p = XsiPrefix => uri = XsiURI \/ \E i \in 1..Len(c) : Maps(c[i], XsiPrefix)
  PROVE  /\ Good(d.ctx, WithXmlns(e, d, uri))
         /\ WithXmlns(e, d, uri).names = e.names
         /\ d.prefix \in Prefixes
         /\ Len(d.ctx) = Len(c)
         /\ IsDeclared(d.ctx, d.prefix, uri)
<1> USE ConstantsLemma
<1> DEFINE N == Len(c)
<1>0. /\ NamespaceAssumption
      /\ c \in Contexts /\ Unshadowed(c) /\ e \in Elements /\ Matches(c[N], e)
      /\ N \in Nat /\ N \in 1..N
      /\ uri \in URIs /\ g \in Generated
  BY NamespaceAssumption DEF Good, Contexts, Declaring
<1>1. d.ctx \in Contexts /\ d.prefix \in Prefixes
  BY <1>0, DeclareLemma
<1>2. Extends(c, d.ctx) /\ Unshadowed(d.ctx)
  BY <1>0, DeclareLemma
<1>3. \A i \in 1..N : i # N => d.ctx[i] = c[i]
  BY <1>0, DeclareLemma
<1>4. \A q \in Prefixes : q # d.prefix => d.ctx[N].map[q] = c[N].map[q]
  BY <1>0, DeclareLemma
<1>5. d.created => d.ctx[N].map[d.prefix] = Declared(uri)
  BY <1>0, DeclareLemma
<1>6. ~d.created => d.ctx = c
  BY <1>0, DeclareLemma
<1>7. IsDeclared(d.ctx, d.prefix, uri)
  BY <1>0, DeclareLemma
<1>8. d.prefix \in {p, g}
  BY <1>0, DeclareLemma
<1>9. Len(d.ctx) = N
  BY <1>2 DEF Extends
<1>10. /\ WithXmlns(e, d, uri) \in Elements
       /\ WithXmlns(e, d, uri).names = e.names
       /\ Matches(d.ctx[N], WithXmlns(e, d, uri))
  BY <1>0, WithXmlnsLemma
<1>12. Len(scopes) = N /\ \A i \in 1..N : i # N => d.ctx[i] = scopes[i]
  BY <1>3 DEF Good, Extends
<1>13. Extends(scopes, d.ctx)
  <2>1. Extends(scopes, c)
    BY DEF Good
  <2> QED
    BY <1>2, <2>1 DEF Extends, Maps
<1>14. \A i \in 1..N : Maps(d.ctx[i], XsiPrefix) => d.ctx[i].map[XsiPrefix] = Declared(XsiURI)
  <2> SUFFICES ASSUME NEW i \in 1..N, Maps(d.ctx[i], XsiPrefix)
               PROVE  d.ctx[i].map[XsiPrefix] = Declared(XsiURI)
    OBVIOUS
  <2>1. CASE \E j \in 1..N : Maps(c[j], XsiPrefix)
    <3>1. PICK j \in 1..N : Maps(c[j], XsiPrefix)
      BY <2>1
    <3>2. c[j].map[XsiPrefix] = Declared(XsiURI)
      BY <3>1 DEF Good
    <3>3. d.ctx[j].map[XsiPrefix] = Declared(XsiURI)
      BY <1>0, <1>1, <1>2, <3>2, DeclaredStays
    <3>4. Maps(d.ctx[j], XsiPrefix)
      BY <3>3 DEF Maps, Declared
    <3>5. i = j
      BY <1>2, <1>9, <3>4 DEF Unshadowed
    <3> QED
      BY <3>3, <3>5
  <2>2. CASE ~\E j \in 1..N : Maps(c[j], XsiPrefix)
    <3>1. d.ctx[i].map[XsiPrefix] # c[i].map[XsiPrefix]
      BY <2>2 DEF Maps
    <3>2. i = N /\ d.prefix = XsiPrefix /\ d.created
      BY <1>3, <1>4, <1>6, <3>1
    <3>3. p = XsiPrefix
      BY <1>0, <1>8, <3>2
    <3>4. uri = XsiURI
      BY <2>2, <3>3
    <3> QED
      BY <1>5, <3>2, <3>4
  <2> QED
    BY <2>1, <2>2
<1>15. scopes[1].map[SoapPrefix].uri = SoapURI =>
         \A q \in Prefixes : d.ctx[N].map[q].uri # SoapURI
  <2> SUFFICES ASSUME scopes[1].map[SoapPrefix].uri = SoapURI, NEW q \in Prefixes
               PROVE  d.ctx[N].map[q].uri # SoapURI
    OBVIOUS
  <2>1. c[N].map[q].uri # SoapURI
    BY DEF Good
  <2>2. CASE q = d.prefix /\ d.created
    BY <1>5, <2>2 DEF Declared
  <2>3. CASE ~(q = d.prefix /\ d.created)
    BY <1>4, <1>6, <2>1, <2>3
  <2> QED
    BY <2>2, <2>3
<1>16. \A n \in e.names : \E k \in 1..N : d.ctx[k].map[n.prefix] = Declared(n.uri)
  <2> TAKE n \in e.names
  <2>1. n.prefix \in Prefixes /\ n.uri \in URIs
    BY <1>0 DEF Elements, QNames
  <2>2. PICK k \in 1..N : c[k].map[n.prefix] = Declared(n.uri)
    BY DEF Good
  <2> QED
    BY <1>0, <1>1, <1>2, <2>1, <2>2, DeclaredStays
<1>17. Good(d.ctx, WithXmlns(e, d, uri))
  BY <1>1, <1>2, <1>9, <1>10, <1>12, <1>13, <1>14, <1>15, <1>16 DEF Good
<1> QED
  BY <1>1, <1>7, <1>9, <1>10, <1>17

\* A name whose prefix is declared is written.
LEMMA GoodName ==
  ASSUME NEW c, NEW e, Good(c, e), NEW q \in Prefixes, NEW uri \in URIs,
         IsDeclared(c, q, uri)
  PROVE  Good(c, WithName(e, q, uri))
<1> DEFINE f == WithName(e, q, uri)
<1>1. /\ Name(q, uri) \in QNames /\ Name(q, uri).prefix = q /\ Name(q, uri).uri = uri
      /\ e \in Elements
  BY DEF Name, QNames, Good
<1>2. f \in Elements /\ f.xmlns = e.xmlns /\ f.names = e.names \cup {Name(q, uri)}
  BY <1>1 DEF WithName, Elements
<1> HIDE DEF f
<1>3. \A n \in f.names : \E k \in 1..Len(c) : c[k].map[n.prefix] = Declared(n.uri)
  BY <1>1, <1>2 DEF Good, IsDeclared
<1>4. Matches(c[Len(c)], f)
  BY <1>2 DEF Good, Matches
<1>5. Good(c, f)
  BY <1>2, <1>3, <1>4 DEF Good
<1> QED
  BY <1>5 DEF f

\* The phase of the element is nothing to the invariant.
LEMMA GoodPhase ==
  ASSUME NEW c, NEW e, Good(c, e), NEW phase \in {"empty", "nil", "content"}
  PROVE  Good(c, [e EXCEPT !.phase = phase]) /\ Good(c, WithContent(e))
<1>1. e \in Elements
  BY DEF Good
<1>2. ASSUME NEW f \in Elements, f.xmlns = e.xmlns, f.names = e.names
      PROVE  Good(c, f)
  <2>1. Matches(c[Len(c)], f)
    BY <1>2 DEF Good, Matches
  <2> QED
    BY <1>2, <2>1 DEF Good
<1>3. ASSUME NEW ph \in {"empty", "nil", "content"}
      PROVE  Good(c, [e EXCEPT !.phase = ph])
  <2> DEFINE f == [e EXCEPT !.phase = ph]
  <2>1. f \in Elements /\ f.xmlns = e.xmlns /\ f.names = e.names
    BY <1>1 DEF Elements
  <2> QED
    BY <1>2, <2>1
<1> QED
  BY <1>3 DEF WithContent

\* The step.
LEMMA GoodStep ==
  ASSUME IInv, Len(open) > 1, NEW c, NEW e, Good(c, e),
         scopes' = c, open' = [open EXCEPT ![Len(open)] = e], thrown' \in BOOLEAN
  PROVE  IInv' /\ Stable
<1> DEFINE N == Len(open)
<1>1. /\ N \in Nat /\ Len(scopes) = N /\ Len(c) = N /\ N \in 1..N
      /\ open \in Seq(Elements) /\ e \in Elements /\ c \in Contexts
  BY DEF IInv, TypeOK, Good, Extends
<1>2. /\ open' \in Seq(Elements) /\ Len(open') = N
      /\ \A i \in 1..N : i # N => open'[i] = open[i]
      /\ open'[N] = e
  BY <1>1
<1>3. TypeOK'
  <2>1. scopes' \in Contexts /\ Len(open') = Len(scopes') /\ Len(open') >= 1
    BY <1>1, <1>2
  <2> QED
    BY <1>2, <2>1 DEF TypeOK
<1>4. NoShadowing'
  BY DEF NoShadowing, Unshadowed, Good
<1>5. \A i \in 1..(N - 1) : /\ scopes'[i] = scopes[i]
                            /\ open'[i].xmlns = open[i].xmlns
                            /\ open'[i].names = open[i].names
  BY <1>1, <1>2 DEF Good
<1>6. /\ Maps(scopes'[N], XsiPrefix) => scopes'[N].map[XsiPrefix] = Declared(XsiURI)
      /\ scopes[1].map[SoapPrefix].uri = SoapURI =>
           \A p \in Prefixes : scopes'[N].map[p].uri # SoapURI
      /\ Matches(scopes'[N], open'[N])
      /\ \A n \in open'[N].names : \E k \in 1..N : scopes'[k].map[n.prefix] = Declared(n.uri)
  BY <1>1, <1>2 DEF Good
<1>7. IInv'
  BY <1>1, <1>2, <1>3, <1>4, <1>5, <1>6, TopLemma
<1>8. Stable
  BY ExtendsIsStable DEF Good
<1> QED
  BY <1>7, <1>8

---------------------------------------------------------------------------
(* The actions that work on the innermost element, and the end of it.      *)

\* `xsi' is found or made, and is never replaced.
LEMMA XsiIsDeclared ==
  ASSUME IInv, Len(open) > 1, NEW g \in Generated, Generates(scopes, g),
         NEW x, x = DeclareNamespace(scopes, XsiPrefix, XsiURI, g)
  PROVE  /\ Good(x.ctx, WithXmlns(Current, x, XsiURI))
         /\ WithXmlns(Current, x, XsiURI).names = Current.names
         /\ x.prefix = XsiPrefix
         /\ Len(x.ctx) = Len(scopes)
         /\ IsDeclared(x.ctx, XsiPrefix, XsiURI)
         /\ Declaring(scopes, XsiPrefix, XsiURI, g, x)
<1> USE ConstantsLemma
<1>1. scopes \in Contexts /\ Len(scopes) >= 1 /\ Unshadowed(scopes)
  BY UnshadowedLemma DEF IInv, TypeOK
<1>2. Declaring(scopes, XsiPrefix, XsiURI, g, x)
  BY <1>1 DEF Declaring, Generates
<1>3. Finds(scopes, XsiPrefix, XsiURI) \/ Takes(scopes, XsiPrefix)
  <2>1. CASE \E i \in 1..Len(scopes) : Maps(scopes[i], XsiPrefix)
    <3>1. PICK i \in 1..Len(scopes) : Maps(scopes[i], XsiPrefix)
      BY <2>1
    <3>2. scopes[i].map[XsiPrefix].uri = XsiURI
      BY <3>1 DEF IInv, XsiIsXsi, Declared
    <3>3. GetNamespaceURI(scopes, XsiPrefix) = XsiURI
      BY <1>1, <3>1, <3>2, HolderLemma
    <3> QED
      BY <3>3 DEF Finds
  <2>2. CASE ~\E i \in 1..Len(scopes) : Maps(scopes[i], XsiPrefix)
    <3>1. GetNamespaceURI(scopes, XsiPrefix) = NoURI
      BY <1>1, <2>2, HolderLemma
    <3> QED
      BY <3>1 DEF Takes
  <2> QED
    BY <2>1, <2>2
<1>4. x.prefix = XsiPrefix
  BY <1>2, <1>3, DeclareLemma
<1>5. x.returns
  <2>1. CASE Finds(scopes, XsiPrefix, XsiURI)
    <3>1. PICK i \in 1..Len(scopes) : Maps(scopes[i], XsiPrefix)
      BY <1>1, <2>1, HolderLemma DEF Finds
    <3>2. Holder(scopes, XsiPrefix) = i
      BY <1>1, <3>1, HolderLemma
    <3>3. scopes[i].map[XsiPrefix].declared
      BY <3>1 DEF IInv, XsiIsXsi, Declared
    <3>4. ~x.returns => ~scopes[Holder(scopes, XsiPrefix)].map[XsiPrefix].declared
      BY <1>2, DeclareLemma
    <3> QED
      BY <3>2, <3>3, <3>4
  <2>2. CASE ~Finds(scopes, XsiPrefix, XsiURI)
    BY <1>2, <2>2, DeclareLemma
  <2> QED
    BY <2>1, <2>2
<1>6. Good(scopes, Current)
  BY GoodAtFirst
<1>7. /\ Good(x.ctx, WithXmlns(Current, x, XsiURI))
      /\ WithXmlns(Current, x, XsiURI).names = Current.names
      /\ Len(x.ctx) = Len(scopes)
      /\ IsDeclared(x.ctx, x.prefix, XsiURI)
  BY <1>2, <1>5, <1>6, GoodDeclare
<1> QED
  BY <1>2, <1>4, <1>7

\* An element is made nil.
LEMMA NilIInv ==
  ASSUME IInv, Nil
  PROVE  IInv' /\ Stable
<1> USE ConstantsLemma
<1>1. Len(open) > 1 /\ thrown' \in BOOLEAN
  BY DEF Nil, IInv, TypeOK
<1>2. PICK g \in Generated :
        LET d == DeclareNamespace(scopes, XsiPrefix, XsiURI, g) IN
        /\ Generates(scopes, g)
        /\ scopes' = d.ctx
        /\ open' = [open EXCEPT ![Len(open)] =
                      [WithName(WithXmlns(@, d, XsiURI), XsiPrefix, XsiURI)
                         EXCEPT !.phase = "nil"]]
  BY DEF Nil
<1> DEFINE d == DeclareNamespace(scopes, XsiPrefix, XsiURI, g)
           e == WithName(WithXmlns(Current, d, XsiURI), XsiPrefix, XsiURI)
           f == [e EXCEPT !.phase = "nil"]
<1>3. Generates(scopes, g) /\ scopes' = d.ctx /\ open' = [open EXCEPT ![Len(open)] = f]
  BY <1>1, <1>2 DEF Current, IInv, TypeOK
<1>4. Good(d.ctx, WithXmlns(Current, d, XsiURI)) /\ IsDeclared(d.ctx, XsiPrefix, XsiURI)
  BY <1>1, <1>3, XsiIsDeclared
<1> HIDE DEF d
<1>5. Good(d.ctx, e)
  BY <1>4, GoodName
<1> HIDE DEF e
<1>6. Good(d.ctx, f)
  BY <1>5, GoodPhase
<1> HIDE DEF f
<1> QED
  BY <1>1, <1>3, <1>6, GoodStep

\* An attribute with a qualified name is added.
LEMMA QualifiedAttributeIInv ==
  ASSUME IInv, NEW uri \in AppURIs, QualifiedAttribute(uri)
  PROVE  IInv' /\ Stable
<1> USE ConstantsLemma
<1>1. Len(open) > 1 /\ thrown' \in BOOLEAN
  BY DEF QualifiedAttribute, IInv, TypeOK
<1>2. PICK g \in Generated :
        LET d == DeclareNamespace(scopes, NoPrefix, uri, g) IN
        /\ Generates(scopes, g)
        /\ scopes' = d.ctx
        /\ open' = [open EXCEPT ![Len(open)] =
                      WithContent(WithName(WithXmlns(@, d, uri), d.prefix, uri))]
  BY DEF QualifiedAttribute
<1> DEFINE d == DeclareNamespace(scopes, NoPrefix, uri, g)
           e == WithName(WithXmlns(Current, d, uri), d.prefix, uri)
           f == WithContent(e)
<1>3. Generates(scopes, g) /\ scopes' = d.ctx /\ open' = [open EXCEPT ![Len(open)] = f]
  BY <1>1, <1>2 DEF Current, IInv, TypeOK
<1>4. Declaring(scopes, NoPrefix, uri, g, d)
  BY <1>3, UnshadowedLemma DEF Declaring, Generates, IInv, TypeOK
<1>5. d.returns
  BY <1>4, DeclareLemma DEF Finds
<1>6. Good(scopes, Current)
  BY <1>1, GoodAtFirst
<1> HIDE DEF d
<1>7. /\ Good(d.ctx, WithXmlns(Current, d, uri)) /\ d.prefix \in Prefixes
      /\ IsDeclared(d.ctx, d.prefix, uri)
  BY <1>4, <1>5, <1>6, GoodDeclare
<1>8. Good(d.ctx, e)
  BY <1>7, GoodName
<1> HIDE DEF e
<1>9. Good(d.ctx, f)
  BY <1>8, GoodPhase
<1> HIDE DEF f
<1> QED
  BY <1>1, <1>3, <1>9, GoodStep

\* An element gets an xsi:type.
LEMMA XsiTypeIInv ==
  ASSUME IInv, NEW p \in TypePrefixes, NEW uri \in AppURIs, XsiType(p, uri)
  PROVE  IInv' /\ Stable
<1> USE ConstantsLemma
<1>1. Len(open) > 1 /\ thrown \in BOOLEAN
  BY DEF XsiType, IInv, TypeOK
<1>2. PICK g \in Generated :
        LET x == DeclareNamespace(scopes, XsiPrefix, XsiURI, g)
            d == DeclareNamespace(x.ctx, p, uri, g)
            xmlns == WithXmlns(WithXmlns(Current, x, XsiURI), d, uri)
        IN
        /\ Generates(scopes, g)
        /\ \/ /\ d.returns
              /\ scopes' = d.ctx
              /\ open' = [open EXCEPT ![Len(open)] =
                            WithContent(WithName(WithName(xmlns, XsiPrefix, XsiURI),
                                                 d.prefix, uri))]
              /\ UNCHANGED thrown
           \/ /\ ~d.returns
              /\ thrown' = TRUE
              /\ UNCHANGED <<scopes, open>>
  BY DEF XsiType
<1> DEFINE x == DeclareNamespace(scopes, XsiPrefix, XsiURI, g)
           d == DeclareNamespace(x.ctx, p, uri, g)
           y == WithXmlns(Current, x, XsiURI)
           e == WithXmlns(y, d, uri)
           e1 == WithName(e, XsiPrefix, XsiURI)
           e2 == WithName(e1, d.prefix, uri)
           f == WithContent(e2)
<1>3. Generates(scopes, g)
  BY <1>2
<1>4. \/ d.returns /\ scopes' = d.ctx /\ open' = [open EXCEPT ![Len(open)] = f]
           /\ UNCHANGED thrown
      \/ thrown' = TRUE /\ UNCHANGED <<scopes, open>>
  BY <1>2
<1>5. /\ Good(x.ctx, y) /\ x.prefix = XsiPrefix /\ Len(x.ctx) = Len(scopes)
      /\ IsDeclared(x.ctx, XsiPrefix, XsiURI)
      /\ Declaring(scopes, XsiPrefix, XsiURI, g, x)
  BY <1>1, <1>3, XsiIsDeclared
<1>6. CASE d.returns /\ scopes' = d.ctx /\ open' = [open EXCEPT ![Len(open)] = f]
             /\ UNCHANGED thrown
  <2> HIDE DEF x, y
  <2>1. /\ x.ctx \in Contexts /\ Unshadowed(x.ctx) /\ Len(x.ctx) >= 1
    BY <1>1, <1>5 DEF Good, IInv, TypeOK
  <2>2. GetNamespaceURI(x.ctx, g) = NoURI
    <3>0. g \in Prefixes /\ g # XsiPrefix
      OBVIOUS
    <3>1. GetNamespaceURI(scopes, g) = NoURI /\ scopes \in Contexts /\ Unshadowed(scopes)
      BY <1>3, UnshadowedLemma DEF Generates, IInv, TypeOK
    <3>2. \A i \in 1..Len(scopes) : ~Maps(scopes[i], g)
      BY <3>0, <3>1, FreshLemma
    <3>3. x.ctx[Len(scopes)].map[g] = scopes[Len(scopes)].map[g]
      BY <1>5, <3>0, DeclareLemma
    <3>4. \A i \in 1..Len(scopes) : ~Maps(x.ctx[i], g)
      BY <1>5, <3>2, <3>3 DEF Good, Maps
    <3> QED
      BY <1>5, <2>1, <3>0, <3>4, HolderLemma
  <2>3. Declaring(x.ctx, p, uri, g, d)
    BY <2>1, <2>2 DEF Declaring
  <2>4. \E i \in 1..Len(x.ctx) : Maps(x.ctx[i], XsiPrefix)
    BY <1>5 DEF IsDeclared, Maps, Declared
  <2> HIDE DEF d
  <2>5. /\ Good(d.ctx, e) /\ d.prefix \in Prefixes
        /\ IsDeclared(d.ctx, d.prefix, uri)
    BY <1>5, <1>6, <2>3, <2>4, GoodDeclare
  <2>6. IsDeclared(d.ctx, XsiPrefix, XsiURI)
    <3>1. Extends(x.ctx, d.ctx) /\ d.ctx \in Contexts
      BY <2>3, DeclareLemma
    <3>2. PICK k \in 1..Len(x.ctx) : x.ctx[k].map[XsiPrefix] = Declared(XsiURI)
      BY <1>5 DEF IsDeclared
    <3>3. d.ctx[k].map[XsiPrefix] = Declared(XsiURI)
      BY <2>1, <3>1, <3>2, DeclaredStays, NamespaceAssumption
    <3> QED
      BY <3>1, <3>3 DEF IsDeclared, Extends
  <2> HIDE DEF e
  <2>7. Good(d.ctx, e1)
    BY <2>5, <2>6, GoodName
  <2> HIDE DEF e1
  <2>8. Good(d.ctx, e2)
    BY <2>5, <2>7, GoodName
  <2> HIDE DEF e2
  <2>9. Good(d.ctx, f)
    BY <2>8, GoodPhase
  <2> HIDE DEF f
  <2> QED
    BY <1>1, <1>6, <2>9, GoodStep
<1>7. CASE thrown' = TRUE /\ UNCHANGED <<scopes, open>>
  <2>1. TypeOK'
    BY <1>7 DEF IInv, TypeOK
  <2>2. /\ NoShadowing' /\ DeclaredIsWritten'
    BY <1>7 DEF IInv, NoShadowing, DeclaredIsWritten
  <2>3. Root' /\ XsiIsXsi'
    BY <1>7 DEF IInv, Root, XsiIsXsi
  <2>4. WrittenIsDeclared' /\ NamesAreDeclared'
    BY <1>7 DEF IInv, WrittenIsDeclared, NamesAreDeclared, NameIsDeclared
  <2>5. Stable
    BY <1>7 DEF Stable
  <2> QED
    BY <2>1, <2>2, <2>3, <2>4, <2>5 DEF IInv
<1> QED
  BY <1>4, <1>6, <1>7

\* The names that an element leaves to its parent have their prefix from a scope
\* around the parent: what the scope of the element declares is an attribute of
\* the element.
LEMMA CloseIInv ==
  ASSUME IInv, Close
  PROVE  IInv' /\ Stable
<1> USE ConstantsLemma
<1> DEFINE L == Len(open)
           M == L - 1
           free == {n \in Current.names : Current.xmlns[n.prefix] = NoURI}
           rest == SubSeq(open, 1, M)
           scopesLeft == SubSeq(scopes, 1, M)
           parent == [rest[M] EXCEPT !.names = @ \cup free]
           opened == [rest EXCEPT ![M] = parent]
<1>1. /\ L \in Nat /\ L > 1 /\ M \in Nat /\ M >= 1 /\ M \in 1..L /\ M + 1 = L /\ L \in 2..L
      /\ Len(scopes) = L
      /\ scopes \in Contexts /\ scopes \in Seq(Scopes) /\ open \in Seq(Elements)
      /\ thrown \in BOOLEAN
  BY DEF Close, IInv, TypeOK, Contexts
<1>2. /\ rest \in Seq(Elements) /\ Len(rest) = M
      /\ \A i \in 1..M : rest[i] = open[i]
  BY <1>1
<1>3. /\ scopesLeft \in Seq(Scopes) /\ Len(scopesLeft) = M
      /\ \A i \in 1..M : scopesLeft[i] = scopes[i]
  BY <1>1
<1>4. Current = open[L] /\ Current \in Elements /\ free \subseteq Current.names
  BY <1>1 DEF Current
<1>5. free \subseteq QNames
  BY <1>4 DEF Elements
<1>6. /\ parent \in Elements /\ parent.xmlns = open[M].xmlns
      /\ parent.names = open[M].names \cup free
  <2>1. rest[M] = open[M] /\ open[M] \in Elements
    BY <1>1, <1>2
  <2> HIDE DEF free, rest
  <2> QED
    BY <1>5, <2>1 DEF Elements
<1>7. scopes' = scopesLeft /\ UNCHANGED thrown
  BY <1>1 DEF Close, PopContext
<1>8. open' = opened
  <2>1. open' = [rest EXCEPT ![Len(rest)].names = @ \cup free]
    BY DEF Close
  <2> QED
    BY <1>2, <2>1
<1>9. \A n \in free : \E k \in 1..M : scopes[k].map[n.prefix] = Declared(n.uri)
  <2> SUFFICES ASSUME NEW n \in free
               PROVE  \E k \in 1..M : scopes[k].map[n.prefix] = Declared(n.uri)
    OBVIOUS
  <2>1. /\ n \in open[L].names /\ open[L].xmlns[n.prefix] = NoURI
        /\ n.prefix \in Prefixes /\ n.uri \in URIs
    BY <1>4, <1>5 DEF QNames
  <2>2. PICK k \in 1..L : scopes[k].map[n.prefix] = Declared(n.uri)
    BY <1>1, <2>1 DEF IInv, NamesAreDeclared, NameIsDeclared
  <2>3. open[k].xmlns[n.prefix] = n.uri
    BY <1>1, <2>1, <2>2 DEF IInv, DeclaredIsWritten, Declared
  <2>4. k # L
    BY <2>1, <2>3
  <2>5. k \in 1..M
    <3>1. L \in Nat /\ k \in 1..L
      BY <1>1
    <3> HIDE DEF free, L
    <3> QED
      BY <2>4, <3>1
  <2> QED
    BY <2>2, <2>5
<1> HIDE DEF rest, free, scopesLeft, parent
<1>10. /\ opened \in Seq(Elements) /\ Len(opened) = M
       /\ \A i \in 1..M : i # M => opened[i] = open[i]
       /\ opened[M] = parent
  <2>1. M \in 1..Len(rest) /\ rest \in Seq(Elements)
    BY <1>1, <1>2
  <2> HIDE DEF M
  <2>2. /\ opened \in Seq(Elements) /\ Len(opened) = Len(rest)
        /\ \A i \in 1..Len(rest) : i # M => opened[i] = rest[i]
        /\ opened[M] = parent
    BY <1>6, <2>1
  <2> QED
    BY <1>2, <2>2
<1> HIDE DEF opened
<1>11. \A i \in 1..M : opened[i].xmlns = open[i].xmlns
  BY <1>6, <1>10
<1>12. \A i \in 1..M : i \in 1..L
  BY <1>1
<1>13. Len(open') = M /\ Len(scopes') = M
  BY <1>3, <1>7, <1>8, <1>10
<1> HIDE DEF L, M
<1>14. TypeOK'
  <2>1. open' \in Seq(Elements) /\ Len(open') = Len(scopes') /\ Len(open') >= 1
    BY <1>1, <1>8, <1>10, <1>13
  <2>2. scopes' \in Contexts
    BY <1>3, <1>7 DEF Contexts
  <2>3. thrown' \in BOOLEAN
    BY <1>1, <1>7
  <2> QED
    BY <2>1, <2>2, <2>3 DEF TypeOK
<1>15. NoShadowing'
  BY <1>1, <1>3, <1>7, <1>12, <1>13 DEF IInv, NoShadowing
<1>16. DeclaredIsWritten'
  BY <1>1, <1>3, <1>7, <1>8, <1>11, <1>12, <1>13 DEF IInv, DeclaredIsWritten
<1>17. Root'
  <2>1. 1 \in 1..M /\ \A k \in 2..M : k \in 2..L /\ k \in 1..M
    BY <1>1
  <2> QED
    BY <1>1, <1>3, <1>7, <1>8, <1>11, <1>13, <2>1 DEF IInv, Root
<1>18. XsiIsXsi'
  BY <1>1, <1>3, <1>7, <1>12, <1>13 DEF IInv, XsiIsXsi
<1>19. WrittenIsDeclared'
  <2>1. \A k \in 2..M : k \in 2..L /\ k \in 1..M
    BY <1>1
  <2> QED
    BY <1>1, <1>3, <1>7, <1>8, <1>11, <1>13, <2>1 DEF IInv, WrittenIsDeclared, L
<1>20. NamesAreDeclared'
  <2> SUFFICES ASSUME NEW i \in 1..M, NEW n \in opened[i].names
               PROVE  \/ i = 1 /\ n = Name(SoapPrefix, SoapURI)
                      \/ \E k \in 1..i : scopesLeft[k].map[n.prefix] = Declared(n.uri)
    BY <1>7, <1>8, <1>13 DEF NamesAreDeclared, NameIsDeclared
  <2>1. \A k \in 1..i : scopesLeft[k] = scopes[k]
    BY <1>1, <1>3
  <2>2. CASE n \in open[i].names
    BY <1>12, <2>1, <2>2 DEF IInv, NamesAreDeclared, NameIsDeclared, L
  <2>3. CASE n \notin open[i].names
    <3>1. i = M /\ n \in free
      BY <1>6, <1>10, <2>3
    <3> QED
      BY <1>9, <2>1, <3>1
  <2> QED
    BY <2>2, <2>3
<1>21. Stable
  BY <1>1, <1>3, <1>7, <1>13 DEF Stable
<1> QED
  BY <1>14, <1>15, <1>16, <1>17, <1>18, <1>19, <1>20, <1>21 DEF IInv

---------------------------------------------------------------------------
(* The theorems.                                                           *)

\* Every step keeps the invariant.
LEMMA NextIInv ==
  ASSUME IInv, [Next]_vars
  PROVE  IInv' /\ (Stable \/ UNCHANGED vars)
<1>1. ASSUME NEW uri \in AppURIs, OpenQualified(NoPrefix, uri)
      PROVE  IInv' /\ Stable
  BY <1>1, OpenQualifiedIInv
<1>2. CASE OpenQualified(SoapPrefix, SoapURI)
  BY <1>2, OpenQualifiedIInv
<1>3. CASE OpenUnqualified
  BY <1>3, OpenUnqualifiedIInv
<1>4. CASE Nil
  BY <1>4, NilIInv
<1>5. ASSUME NEW uri \in AppURIs, QualifiedAttribute(uri)
      PROVE  IInv' /\ Stable
  BY <1>5, QualifiedAttributeIInv
<1>6. ASSUME NEW p \in TypePrefixes, NEW uri \in AppURIs, XsiType(p, uri)
      PROVE  IInv' /\ Stable
  BY <1>6, XsiTypeIInv
<1>7. CASE Close
  BY <1>7, CloseIInv
<1>8. CASE UNCHANGED vars
  <2>1. TypeOK'
    BY <1>8 DEF IInv, TypeOK, vars
  <2>2. NoShadowing' /\ DeclaredIsWritten'
    BY <1>8 DEF IInv, NoShadowing, DeclaredIsWritten, vars
  <2>3. Root' /\ XsiIsXsi'
    BY <1>8 DEF IInv, Root, XsiIsXsi, vars
  <2>4. WrittenIsDeclared' /\ NamesAreDeclared'
    BY <1>8 DEF IInv, WrittenIsDeclared, NamesAreDeclared, NameIsDeclared, vars
  <2> QED
    BY <1>8, <2>1, <2>2, <2>3, <2>4 DEF IInv
<1> QED
  BY <1>1, <1>2, <1>3, <1>4, <1>5, <1>6, <1>7, <1>8 DEF Next

\* The invariant is one.
THEOREM Inductive == Spec => []IInv
<1>1. Init => IInv
  BY InitIInv
<1>2. IInv /\ [Next]_vars => IInv'
  BY NextIInv
<1> QED
  BY <1>1, <1>2, PTL DEF Spec

\* A name that has its prefix from a scope around it means what that scope says:
\* no other open element declares the prefix.
LEMMA DeclaredMeans ==
  ASSUME IInv, NEW i \in 1..Len(open), NEW n \in open[i].names
  PROVE  Meaning(i, n.prefix) = n.uri
<1> USE ConstantsLemma
<1> DEFINE p == n.prefix
           declaring == {k \in 1..i : open[k].xmlns[p] # NoURI}
<1>1. /\ Len(open) \in Nat /\ Len(open) = Len(scopes)
      /\ p \in Prefixes /\ n.uri \in URIs
      /\ \A k \in 1..i : k \in 1..Len(open)
  <2>1. open[i] \in Elements
    BY DEF IInv, TypeOK
  <2> QED
    BY <2>1 DEF IInv, TypeOK, Elements, QNames
<1>2. ASSUME NEW k \in 1..i, open[k].xmlns[p] = n.uri,
             \A j \in 1..i : open[j].xmlns[p] # NoURI => j = k
      PROVE  Meaning(i, p) = n.uri
  <2>1. declaring = {k}
    BY <1>1, <1>2
  <2>2. (CHOOSE m \in declaring : \A j \in declaring : j <= m) = k
    BY <1>1, <2>1
  <2> QED
    BY <1>2, <2>1, <2>2 DEF Meaning
<1>3. open[1].xmlns[SoapPrefix] = SoapURI
      /\ \A q \in Prefixes : q # SoapPrefix => open[1].xmlns[q] = NoURI
  BY DEF IInv, Root, Envelope, NoXmlns
<1>4. \A j \in 1..i : open[j].xmlns[p] # NoURI =>
        \/ j = 1 /\ p = SoapPrefix
        \/ scopes[j].map[p] = Declared(open[j].xmlns[p])
  <2> SUFFICES ASSUME NEW j \in 1..i, open[j].xmlns[p] # NoURI, j # 1
               PROVE  scopes[j].map[p] = Declared(open[j].xmlns[p])
    BY <1>1, <1>3
  <2>1. j \in 2..Len(open)
    BY <1>1
  <2> QED
    BY <1>1, <2>1 DEF IInv, WrittenIsDeclared
<1>5. \A j \in 1..i : open[j].xmlns[p] # NoURI => Maps(scopes[j], p)
  <2> SUFFICES ASSUME NEW j \in 1..i, open[j].xmlns[p] # NoURI
               PROVE  Maps(scopes[j], p)
    OBVIOUS
  <2>1. CASE j = 1 /\ p = SoapPrefix
    BY <2>1 DEF IInv, Root
  <2>2. CASE scopes[j].map[p] = Declared(open[j].xmlns[p])
    BY <2>2 DEF Maps, Declared
  <2> QED
    BY <1>4, <2>1, <2>2
<1>6. CASE i = 1 /\ n = Name(SoapPrefix, SoapURI)
  <2>1. p = SoapPrefix /\ n.uri = SoapURI
    BY <1>6 DEF Name
  <2> QED
    BY <1>2, <1>3, <1>6, <2>1
<1>7. CASE \E k \in 1..i : scopes[k].map[p] = Declared(n.uri)
  <2>1. PICK k \in 1..i : scopes[k].map[p] = Declared(n.uri)
    BY <1>7
  <2>2. Maps(scopes[k], p) /\ open[k].xmlns[p] = n.uri
    BY <1>1, <2>1 DEF IInv, DeclaredIsWritten, Maps, Declared
  <2>3. \A j \in 1..i : open[j].xmlns[p] # NoURI => j = k
    BY <1>1, <1>5, <2>2 DEF IInv, NoShadowing
  <2> QED
    BY <1>2, <2>2, <2>3
<1> QED
  BY <1>6, <1>7 DEF IInv, NamesAreDeclared, NameIsDeclared

\* The types, and that scopes and open elements go together: jsonToXml pops a
\* scope for each element it closes.
THEOREM TypeCorrect == Spec => []TypeOK
BY Inductive, PTL DEF IInv

\* declareNamespace never shadows a mapping.
THEOREM NoShadowingHolds == Spec => []NoShadowing
BY Inductive, PTL DEF IInv

\* A mapping that nscontext.js gives out as declared is an xmlns attribute of
\* the element of its scope.
THEOREM DeclaredIsWrittenHolds == Spec => []DeclaredIsWritten
BY Inductive, PTL DEF IInv

\* Every prefixed name in the document that jsonToXml writes resolves to the
\* namespace it was written for.
THEOREM NamesResolveHold == Spec => []NamesResolve
<1>1. IInv => NamesResolve
  BY DeclaredMeans DEF NamesResolve
<1> QED
  BY <1>1, Inductive, PTL

\* While a scope is open, nscontext.js keeps the URI of each prefix it maps, and
\* that it is declared.
THEOREM MappingsAreStableHolds == Spec => MappingsAreStable
<1>1. IInv /\ [Next]_vars =>
        [\A i \in 1..Len(scopes), p \in Prefixes :
           i <= Len(scopes') /\ Maps(scopes[i], p) =>
             /\ scopes'[i].map[p].uri = scopes[i].map[p].uri
             /\ scopes[i].map[p].declared => scopes'[i].map[p].declared]_vars
  BY NextIInv DEF Stable
<1> QED
  BY <1>1, Inductive, PTL DEF Spec, MappingsAreStable

---------------------------------------------------------------------------
(* Restrictions: the inductive invariant.                                  *)

\* What the stages make of a number.
AfterFraction(n) ==
  IF Has("fractionDigits") THEN Text(Fixed(n, facets.fractionDigits)) ELSE Number(n)

AfterTotal(n) ==
  IF ~Has("fractionDigits") /\ Has("totalDigits") /\ IntegerDigits(n) <= facets.totalDigits
    THEN Text(Fixed(n, facets.totalDigits - IntegerDigits(n)))
    ELSE AfterFraction(n)

\* What the stage Total finds right.
DigitsFit(n) ==
  Has("totalDigits") =>
    IF Has("fractionDigits")
      THEN TotalDigits(Fixed(n, facets.fractionDigits)) <= facets.totalDigits
      ELSE IntegerDigits(n) <= facets.totalDigits

\* The numbers that must not be refused.
AllowedNumber(n) ==
  /\ WithinBounds(n, TRUE)
  /\ WithinDigits(n)
  /\ Has("fractionDigits") /\ Has("totalDigits") =>
       IntegerDigits(n) + facets.fractionDigits <= facets.totalDigits
  /\ ~Normalises
  /\ \A f \in {"length", "minLength", "maxLength", "pattern", "enumeration"} : ~Has(f)

\* A number n at a stage where v is its value and `found' what was violated.
NumberAt(at, v, found, n) ==
  /\ at \in {"base", "bounds", "fraction"} => v = Number(n)
  /\ at = "total" => v = AfterFraction(n)
  /\ at \in {"length", "whiteSpace", "values", "sent", "refused"} => v = AfterTotal(n)
  /\ found = {} /\ at \notin {"base", "bounds"} => WithinBounds(n, TRUE)
  /\ found = {} /\ at \notin {"base", "bounds", "fraction", "total"} => DigitsFit(n)
  /\ at = "sent" => found = {}
  /\ AllowedNumber(n) => found = {} /\ at \notin {"refused", "raised"}

NumberOK == NumberAt(stage, val, violated, given.hundredths)

\* What the stage WhiteSpace makes of a text.
Normalised(s) ==
  IF ~Normalises THEN s
  ELSE IF facets.whiteSpace = "replace" THEN Replaced(s)
  ELSE Collapsed(s)

\* The texts that must not be refused.
AllowedText(s) ==
  /\ HasValidLength(s) /\ IsListed(s) /\ IsNormalised(s)
  /\ facets.base # "number" /\ ~HasNumericFacet /\ ~Has("pattern")

\* The same for a text.
TextAt(at, v, found, s) ==
  /\ at \in {"base", "bounds", "fraction", "total", "length", "whiteSpace"} => v = Text(s)
  /\ at \in {"values", "sent", "refused"} => v = Text(Normalised(s))
  /\ at # "raised"
  /\ found = {} /\ at \in {"whiteSpace", "values", "sent"} => HasValidLength(s)
  /\ at = "sent" => found = {} /\ IsListed(v.chars)
  /\ AllowedText(s) => found = {} /\ at # "refused"

TextOK == TextAt(stage, val, violated, given.chars)

EnforceTyping ==
  /\ facets \in Restrictions
  /\ given \in {Number(n) : n \in Numbers} \cup {Text(s) : s \in Texts}
  /\ stage \in {"base", "bounds", "fraction", "total", "length", "whiteSpace", "values",
                "sent", "refused", "raised"}

\* Nothing is known of a number with a base that makes a text of it.
EnforceInv ==
  /\ EnforceTyping
  /\ IsNumber(given) /\ facets.base # "string" => NumberOK
  /\ given.kind = "text" => TextOK

---------------------------------------------------------------------------
\* A nonempty set of numbers has a least one.
LEMMA LeastLemma ==
  ASSUME NEW T, T \subseteq Nat, T # {}
  PROVE  \E m \in T : \A k \in T : m <= k
<1>1. PICK m \in T : \A k \in T : ~(<<k, m>> \in OpToRel(<, Nat))
  BY WFMin, NatLessThanWellFounded, Zenon
<1>2. ASSUME NEW k \in T PROVE m <= k
  <2>1. ~(k < m)
    BY <1>1 DEF OpToRel
  <2> QED
    BY <2>1
<1> QED
  BY <1>2

\* A value that each number has from a smaller one: `under' gives the smaller
\* number, `step' the value by that of the smaller one.
IsChain(N, V, base, under, step) ==
  /\ N \in Nat
  /\ base \in V
  /\ under \in [1..N -> Nat]
  /\ \A j \in 1..N : under[j] < j
  /\ step \in [1..N -> [V -> V]]

Follows(g, N, V, base, under, step) ==
  /\ g \in [0..N -> V]
  /\ g[0] = base
  /\ \A j \in 1..N : g[j] = step[j][g[under[j]]]

\* Such values are defined.
LEMMA ChainLemma ==
  ASSUME NEW N, NEW V, NEW base, NEW under, NEW step,
         IsChain(N, V, base, under, step)
  PROVE  \E g : Follows(g, N, V, base, under, step)
<1>0. /\ N \in Nat
      /\ base \in V
      /\ under \in [1..N -> Nat]
      /\ \A j \in 1..N : under[j] < j
      /\ step \in [1..N -> [V -> V]]
  BY DEF IsChain
<1> DEFINE Defined(m) ==
             \E g \in [0..m -> V] :
               g = [j \in 0..m |-> IF j = 0 THEN base ELSE step[j][g[under[j]]]]
           T == {m \in 0..N : ~Defined(m)}
<1>1. SUFFICES ASSUME T # {}
               PROVE  FALSE
  <2>1. N \in 0..N
    BY <1>0
  <2>2. Defined(N)
    BY <1>1, <2>1
  <2>3. PICK g \in [0..N -> V] :
          g = [j \in 0..N |-> IF j = 0 THEN base ELSE step[j][g[under[j]]]]
    BY <2>2
  <2>4. g[0] = base
    BY <1>0, <2>1, <2>3
  <2>5. ASSUME NEW j \in 1..N PROVE g[j] = step[j][g[under[j]]]
    <3>1. j \in 0..N /\ j # 0
      BY <1>0
    <3> QED
      BY <2>3, <3>1
  <2> QED
    BY <2>3, <2>4, <2>5 DEF Follows
<1>2. PICK m \in T : \A k \in T : m <= k
  <2>1. T \subseteq Nat
    OBVIOUS
  <2> HIDE DEF T
  <2> QED
    BY <1>1, <2>1, LeastLemma
<1>3. m \in 0..N /\ ~Defined(m)
  OBVIOUS
<1>4. CASE m = 0
  <2> DEFINE g == [j \in 0..0 |-> base]
  <2>1. g \in [0..0 -> V] /\ g = [j \in 0..0 |-> IF j = 0 THEN base ELSE step[j][g[under[j]]]]
    BY <1>0
  <2>2. Defined(0)
    BY <2>1
  <2> QED
    BY <1>3, <1>4, <2>2
<1>5. CASE m # 0
  <2> DEFINE l == m - 1
  <2>1. l \in 0..N /\ l < m /\ m \in Nat /\ m \in 1..N /\ l \in Nat
    BY <1>0, <1>3, <1>5
  <2>2. Defined(l)
    <3>1. l \notin T
      BY <1>2, <2>1
    <3> QED
      BY <2>1, <3>1
  <2>3. PICK g \in [0..l -> V] :
          g = [j \in 0..l |-> IF j = 0 THEN base ELSE step[j][g[under[j]]]]
    BY <2>2
  <2>4. \A j \in 0..m : j = m \/ (j \in 0..l /\ j # m)
    BY <2>1
  <2>5. \A j \in 0..m : j # 0 => j \in 1..N /\ under[j] \in 0..l
    <3> SUFFICES ASSUME NEW j \in 0..m, j # 0
                 PROVE  j \in 1..N /\ under[j] \in 0..l
      OBVIOUS
    <3>1. j \in 1..N
      BY <1>0, <1>3
    <3>2. under[j] \in Nat /\ under[j] < j /\ j <= m
      BY <1>0, <3>1
    <3> QED
      BY <2>1, <3>1, <3>2
  <2> DEFINE h == [j \in 0..m |-> IF j = m THEN step[m][g[under[m]]] ELSE g[j]]
  <2>6. h \in [0..m -> V]
    <3>1. step[m][g[under[m]]] \in V
      <4>1. under[m] \in 0..l
        BY <1>5, <2>1, <2>5
      <4>2. g[under[m]] \in V
        BY <4>1
      <4> QED
        BY <1>0, <2>1, <4>2
    <3> HIDE DEF l
    <3> QED
      BY <2>4, <3>1
  <2>7. \A j \in 0..l : h[j] = g[j]
    BY <2>1
  <2>8. ASSUME NEW j \in 0..m
        PROVE  h[j] = IF j = 0 THEN base ELSE step[j][h[under[j]]]
    <3>1. j # 0 => h[under[j]] = g[under[j]]
      BY <2>5, <2>7
    <3>2. CASE j = m
      BY <1>5, <3>1, <3>2
    <3>3. CASE j # m
      <4>1. j \in 0..l /\ h[j] = g[j]
        BY <2>4, <2>7, <3>3
      <4>2. g[j] = IF j = 0 THEN base ELSE step[j][g[under[j]]]
        BY <2>3, <4>1
      <4> QED
        BY <3>1, <4>1, <4>2
    <3> QED
      BY <3>2, <3>3
  <2> HIDE DEF h
  <2>9. h = [j \in 0..m |-> IF j = 0 THEN base ELSE step[j][h[under[j]]]]
    BY <2>6, <2>8
  <2> QED
    BY <1>3, <2>6, <2>9
<1> QED
  BY <1>4, <1>5

---------------------------------------------------------------------------
(* Restrictions: white space.                                              *)

\* A text in which each newline is a space.
LEMMA ReplacedLemma ==
  ASSUME NEW s, s \in Seq(Chars)
  PROVE  /\ Replaced(s) \in Seq(Chars)
         /\ Len(Replaced(s)) = Len(s)
         /\ \A i \in 1..Len(s) : Replaced(s)[i] # Newline
         /\ (\A i \in 1..Len(s) : s[i] # Newline) => Replaced(s) = s
<1>1. Space \in Chars /\ Space # Newline
  BY DEF Chars, Space, Newline
<1>2. Len(s) \in Nat /\ s \in [1..Len(s) -> Chars] /\ DOMAIN s = 1..Len(s)
  BY LenProperties
<1>3. \A i \in 1..Len(s) : s[i] \in Chars
  BY <1>2
<1>4. \A i \in 1..Len(s) : (IF s[i] = Newline THEN Space ELSE s[i]) \in Chars
  BY <1>1, <1>3
<1>5. Replaced(s) = [i \in 1..Len(s) |-> IF s[i] = Newline THEN Space ELSE s[i]]
  BY DEF Replaced
<1>6. Replaced(s) \in Seq(Chars) /\ Len(Replaced(s)) = Len(s)
  BY <1>2, <1>4, <1>5
<1>7. \A i \in 1..Len(s) : Replaced(s)[i] # Newline
  BY <1>1, <1>5
<1>8. (\A i \in 1..Len(s) : s[i] # Newline) => Replaced(s) = s
  BY <1>2, <1>5
<1> QED
  BY <1>6, <1>7, <1>8

\* Whether Collapsed keeps the character of a text at a place.
IsKept(r, i) ==
  r[i] # Space \/ (/\ \E j \in 1..(i - 1) : r[j] # Space
                   /\ i < Len(r) /\ r[i + 1] # Space)

\* What Collapsed has made of a text up to each place.
CollapsedUpTo(r, f) ==
  /\ f[0] = <<>>
  /\ \A i \in 1..Len(r) : /\ i - 1 \in 0..Len(r)
                          /\ f[i] = IF IsKept(r, i) THEN Append(f[i - 1], r[i]) ELSE f[i - 1]

LEMMA CollapsedDefined ==
  ASSUME NEW s, Replaced(s) \in Seq(Chars)
  PROVE  \E f : /\ f \in [0..Len(Replaced(s)) -> Seq(Chars)]
                /\ CollapsedUpTo(Replaced(s), f)
                /\ Collapsed(s) = f[Len(Replaced(s))]
<1> DEFINE r == Replaced(s)
           N == Len(r)
           V == Seq(Chars)
           kept(i) == r[i] # Space \/ (/\ \E j \in 1..(i - 1) : r[j] # Space
                                       /\ i < Len(r) /\ r[i + 1] # Space)
           under == [j \in 1..N |-> j - 1]
           step == [j \in 1..N |-> [v \in V |-> IF kept(j) THEN Append(v, r[j]) ELSE v]]
           UpTo(g) == [i \in 0..Len(r) |->
             IF i = 0 THEN <<>> ELSE IF kept(i) THEN Append(g[i - 1], r[i]) ELSE g[i - 1]]
           upTo == CHOOSE g : g = UpTo(g)
<1>1. N \in Nat /\ \A j \in 1..N : r[j] \in Chars
  BY LenProperties
<1>2. Collapsed(s) = upTo[N]
  BY DEF Collapsed
<1>3. \A i : kept(i) = IsKept(r, i)
  BY DEF IsKept
<1> HIDE DEF r, kept
<1>4. IsChain(N, V, <<>>, under, step)
  <2>1. under \in [1..N -> Nat] /\ \A j \in 1..N : under[j] < j
    BY <1>1
  <2>2. \A j \in 1..N, v \in V : (IF kept(j) THEN Append(v, r[j]) ELSE v) \in V
    BY <1>1
  <2>3. <<>> \in V
    OBVIOUS
  <2> HIDE DEF V, N
  <2>4. step \in [1..N -> [V -> V]]
    BY <2>2
  <2> HIDE DEF under, step
  <2> QED
    BY <1>1, <2>1, <2>3, <2>4 DEF IsChain
<1>5. PICK g : Follows(g, N, V, <<>>, under, step)
  <2> HIDE DEF N, V, under, step
  <2> QED
    BY <1>4, ChainLemma
<1>6. /\ g \in [0..N -> V] /\ g[0] = <<>>
      /\ \A j \in 1..N : g[j] = step[j][g[under[j]]]
  <2> HIDE DEF N, V, under, step
  <2> QED
    BY <1>5 DEF Follows
<1>7. \A j \in 1..N :
        /\ j - 1 \in 0..N
        /\ g[j] = IF kept(j) THEN Append(g[j - 1], r[j]) ELSE g[j - 1]
  <2> TAKE j \in 1..N
  <2>1. under[j] = j - 1 /\ j - 1 \in 0..N
    BY <1>1
  <2>2. g[j - 1] \in V
    <3> HIDE DEF N, V, under, step
    <3> QED
      BY <1>6, <2>1
  <2>3. step[j][g[j - 1]] = IF kept(j) THEN Append(g[j - 1], r[j]) ELSE g[j - 1]
    <3> HIDE DEF V
    <3> QED
      BY <2>2
  <2>4. g[j] = step[j][g[j - 1]]
    <3> HIDE DEF N, V, step
    <3> QED
      BY <1>6, <2>1
  <2> QED
    BY <2>1, <2>3, <2>4
<1>8. g = UpTo(g)
  <2>1. \A i \in 0..N : i = 0 \/ i \in 1..N
    BY <1>1
  <2>2. UpTo(g) = [i \in 0..N |->
          IF i = 0 THEN <<>> ELSE IF kept(i) THEN Append(g[i - 1], r[i]) ELSE g[i - 1]]
    OBVIOUS
  <2> HIDE DEF N, V, under, step, UpTo
  <2>3. ASSUME NEW i \in 0..N
        PROVE  g[i] = IF i = 0 THEN <<>>
                      ELSE IF kept(i) THEN Append(g[i - 1], r[i]) ELSE g[i - 1]
    BY <1>6, <1>7, <2>1
  <2> QED
    BY <1>6, <2>2, <2>3
<1>9. upTo = UpTo(upTo)
  <2> HIDE DEF UpTo
  <2> QED
    BY <1>8
<1> HIDE DEF upTo
<1>10. \A i \in 0..N :
         upTo[i] = IF i = 0 THEN <<>>
                   ELSE IF kept(i) THEN Append(upTo[i - 1], r[i]) ELSE upTo[i - 1]
  BY <1>9
<1>11. DOMAIN upTo = 0..N
  BY <1>9
<1> HIDE DEF N, V, under, step, UpTo
<1>12. \A i \in 1..N : i \in 0..N /\ i - 1 \in 0..N /\ i # 0
  BY <1>1
<1>13. CollapsedUpTo(r, upTo)
  <2>1. upTo[0] = <<>>
    BY <1>1, <1>10
  <2>2. \A i \in 1..N : upTo[i] = IF IsKept(r, i) THEN Append(upTo[i - 1], r[i]) ELSE upTo[i - 1]
    BY <1>3, <1>10, <1>12
  <2> QED
    BY <1>12, <2>1, <2>2 DEF CollapsedUpTo, N
<1>14. \A i \in 0..N : upTo[i] \in V
  <2> DEFINE T == {i \in 0..N : upTo[i] \notin V}
  <2> SUFFICES ASSUME T # {}
               PROVE  FALSE
    OBVIOUS
  <2>1. PICK i \in T : \A k \in T : i <= k
    <3>1. T \subseteq Nat
      BY <1>1
    <3> HIDE DEF T
    <3> QED
      BY <3>1, LeastLemma
  <2>2. i \in 0..N /\ upTo[i] \notin V
    OBVIOUS
  <2>3. CASE i = 0
    <3>1. <<>> \in V
      BY DEF V
    <3>2. upTo[0] = <<>>
      BY <1>1, <1>10
    <3> QED
      BY <2>2, <2>3, <3>1, <3>2
  <2>4. CASE i # 0
    <3>1. i \in 1..N /\ i - 1 \in 0..N /\ i - 1 < i
      BY <1>1, <2>2, <2>4
    <3>2. i - 1 \notin T
      BY <1>1, <2>1, <3>1
    <3>3. upTo[i - 1] \in V
      BY <3>1, <3>2
    <3>4. Append(upTo[i - 1], r[i]) \in V
      BY <1>1, <3>1, <3>3 DEF V
    <3>5. upTo[i] = Append(upTo[i - 1], r[i]) \/ upTo[i] = upTo[i - 1]
      BY <1>10, <2>2, <2>4
    <3> QED
      BY <2>2, <3>3, <3>4, <3>5
  <2> QED
    BY <2>3, <2>4
<1>15. upTo \in [0..N -> V]
  <2>1. upTo = [i \in 0..N |-> upTo[i]]
    BY <1>9 DEF UpTo, N
  <2> QED
    BY <1>14, <2>1
<1> QED
  BY <1>2, <1>13, <1>15 DEF N, V, r

\* A text without newlines, and without spaces at the ends or next to each other.
IsCollapsed(s) ==
  /\ \A i \in 1..Len(s) : s[i] # Newline
  /\ \A i \in 1..Len(s) : s[i] = Space => i \notin {1, Len(s)} /\ s[i + 1] # Space

\* What is known of the first characters that Collapsed has looked at: a space
\* that ends them is followed by something else.
CollapsedSoFar(r, c, i) ==
  /\ c = <<>> => \A j \in 1..i : r[j] = Space
  /\ c # <<>> => c[1] # Space
  /\ \A k \in 1..Len(c) : c[k] # Newline
  /\ \A k \in 1..(Len(c) - 1) : c[k] = Space => c[k + 1] # Space
  /\ c # <<>> /\ c[Len(c)] = Space => i < Len(r) /\ r[i + 1] # Space

LEMMA CollapsedStep ==
  ASSUME NEW r, r \in Seq(Chars), \A j \in 1..Len(r) : r[j] # Newline,
         NEW i, i \in 1..Len(r), NEW c, c \in Seq(Chars), NEW d,
         CollapsedSoFar(r, c, i - 1),
         d = IF IsKept(r, i) THEN Append(c, r[i]) ELSE c
  PROVE  CollapsedSoFar(r, d, i)
<1>1. Len(r) \in Nat /\ r[i] \in Chars /\ r[i] # Newline /\ i \in Nat
  OBVIOUS
<1>2. Len(c) \in Nat
  OBVIOUS
<1>3. ASSUME IsKept(r, i) PROVE CollapsedSoFar(r, d, i)
  <2>1. d = Append(c, r[i])
    BY <1>3
  <2>2. /\ Len(d) = Len(c) + 1 /\ d # <<>>
        /\ d[Len(c) + 1] = r[i]
        /\ \A k \in 1..Len(c) : d[k] = c[k]
    BY <1>1, <2>1
  <2>3. c = <<>> => r[i] # Space
    <3> SUFFICES ASSUME c = <<>>, r[i] = Space
                 PROVE  FALSE
      OBVIOUS
    <3>1. \A j \in 1..(i - 1) : r[j] = Space
      BY DEF CollapsedSoFar
    <3> QED
      BY <1>3, <3>1 DEF IsKept
  <2>4. c = <<>> <=> Len(c) = 0
    OBVIOUS
  <2>5. d[1] # Space
    <3>1. CASE Len(c) = 0
      BY <2>2, <2>3, <2>4, <3>1
    <3>2. CASE Len(c) # 0
      <4>1. 1 \in 1..Len(c) /\ c # <<>>
        BY <1>2, <2>4, <3>2
      <4>2. c[1] # Space
        BY <4>1 DEF CollapsedSoFar
      <4> QED
        BY <2>2, <4>1, <4>2
    <3> QED
      BY <3>1, <3>2
  <2>6. ASSUME NEW k \in 1..Len(d) PROVE d[k] # Newline
    <3>1. k \in 1..Len(c) \/ k = Len(c) + 1
      BY <1>2, <2>2
    <3> QED
      BY <1>1, <2>2, <3>1 DEF CollapsedSoFar
  <2>7. ASSUME NEW k \in 1..(Len(d) - 1), d[k] = Space PROVE d[k + 1] # Space
    <3>1. k \in 1..Len(c) /\ k + 1 \in Nat
      BY <1>2, <2>2
    <3>2. c[k] = Space /\ c # <<>>
      BY <2>2, <2>4, <2>7, <3>1
    <3>3. CASE k = Len(c)
      <4>1. r[(i - 1) + 1] # Space
        BY <3>2, <3>3 DEF CollapsedSoFar
      <4>2. (i - 1) + 1 = i
        BY <1>1
      <4> QED
        BY <2>2, <3>3, <4>1, <4>2
    <3>4. CASE k # Len(c)
      <4>1. k \in 1..(Len(c) - 1) /\ k + 1 \in 1..Len(c)
        BY <1>2, <3>1, <3>4
      <4>2. c[k + 1] # Space
        BY <3>2, <4>1 DEF CollapsedSoFar
      <4> QED
        BY <2>2, <4>1, <4>2
    <3> QED
      BY <3>3, <3>4
  <2>8. d[Len(d)] = Space => i < Len(r) /\ r[i + 1] # Space
    BY <1>3, <2>2 DEF IsKept
  <2> QED
    BY <2>2, <2>5, <2>6, <2>7, <2>8 DEF CollapsedSoFar
<1>4. ASSUME ~IsKept(r, i) PROVE CollapsedSoFar(r, d, i)
  <2>1. d = c /\ r[i] = Space
    BY <1>4 DEF IsKept
  <2>2. (i - 1) + 1 = i
    BY <1>1
  <2>3. ~(c # <<>> /\ c[Len(c)] = Space)
    BY <2>1, <2>2 DEF CollapsedSoFar
  <2>4. c = <<>> => \A j \in 1..i : r[j] = Space
    <3>1. \A j \in 1..i : j = i \/ j \in 1..(i - 1)
      BY <1>1
    <3> QED
      BY <2>1, <3>1 DEF CollapsedSoFar
  <2> QED
    BY <2>1, <2>3, <2>4 DEF CollapsedSoFar
<1> QED
  BY <1>3, <1>4

\* Collapsed does what it is for.
LEMMA CollapsedLemma ==
  ASSUME NEW s, s \in Seq(Chars)
  PROVE  Collapsed(s) \in Seq(Chars) /\ IsCollapsed(Collapsed(s))
<1> DEFINE r == Replaced(s)
           N == Len(r)
<1>1. r \in Seq(Chars) /\ \A j \in 1..N : r[j] # Newline
  BY ReplacedLemma
<1>2. PICK f : /\ f \in [0..N -> Seq(Chars)] /\ CollapsedUpTo(r, f)
               /\ Collapsed(s) = f[N]
  BY <1>1, CollapsedDefined
<1> HIDE DEF r
<1>3. N \in Nat
  BY <1>1
<1>4. \A i \in 0..N : CollapsedSoFar(r, f[i], i)
  <2> DEFINE T == {i \in 0..N : ~CollapsedSoFar(r, f[i], i)}
  <2> SUFFICES ASSUME T # {}
               PROVE  FALSE
    OBVIOUS
  <2>1. PICK i \in T : \A k \in T : i <= k
    <3>1. T \subseteq Nat
      BY <1>3
    <3> HIDE DEF T
    <3> QED
      BY <3>1, LeastLemma
  <2>2. i \in 0..N /\ ~CollapsedSoFar(r, f[i], i)
    OBVIOUS
  <2>3. CASE i = 0
    <3>1. f[0] = <<>>
      BY <1>2 DEF CollapsedUpTo
    <3>2. CollapsedSoFar(r, <<>>, 0)
      <4>1. \A j \in 1..0 : FALSE
        OBVIOUS
      <4>2. \A k \in 1..Len(<<>>) : FALSE
        OBVIOUS
      <4>3. \A k \in 1..(Len(<<>>) - 1) : FALSE
        OBVIOUS
      <4> QED
        BY <4>1, <4>2, <4>3 DEF CollapsedSoFar
    <3> QED
      BY <2>2, <2>3, <3>1, <3>2
  <2>4. CASE i # 0
    <3>1. i \in 1..N /\ i - 1 \in 0..N /\ i - 1 < i
      BY <1>3, <2>2, <2>4
    <3>2. i - 1 \notin T
      BY <1>3, <2>1, <3>1
    <3>3. CollapsedSoFar(r, f[i - 1], i - 1)
      BY <3>1, <3>2
    <3>4. f[i] = IF IsKept(r, i) THEN Append(f[i - 1], r[i]) ELSE f[i - 1]
      BY <1>2, <3>1 DEF CollapsedUpTo
    <3>5. f[i - 1] \in Seq(Chars)
      BY <1>2, <3>1
    <3> QED
      BY <1>1, <2>2, <3>1, <3>3, <3>4, <3>5, CollapsedStep
  <2> QED
    BY <2>3, <2>4
<1> DEFINE c == Collapsed(s)
<1>5. c \in Seq(Chars) /\ CollapsedSoFar(r, c, N)
  <2>1. N \in 0..N
    BY <1>3
  <2> QED
    BY <1>2, <1>4, <2>1
<1> HIDE DEF c
<1>6. Len(c) \in Nat /\ (Len(c) # 0 => c # <<>>)
  BY <1>5
<1>7. ASSUME NEW i \in 1..Len(c), c[i] = Space
      PROVE  i \notin {1, Len(c)} /\ c[i + 1] # Space
  <2>1. c # <<>>
    BY <1>6
  <2>2. i # 1
    BY <1>5, <1>7, <2>1 DEF CollapsedSoFar
  <2>3. i # Len(c)
    BY <1>3, <1>5, <1>7, <2>1 DEF CollapsedSoFar
  <2>4. i \in 1..(Len(c) - 1)
    BY <1>6, <2>3
  <2> QED
    BY <1>5, <1>7, <2>2, <2>3, <2>4 DEF CollapsedSoFar
<1>8. \A i \in 1..Len(c) : c[i] # Newline
  BY <1>5 DEF CollapsedSoFar
<1> QED
  BY <1>5, <1>7, <1>8 DEF IsCollapsed, c

\* Collapsed leaves alone what needs no change.
LEMMA CollapsedSame ==
  ASSUME NEW s, s \in Seq(Chars), IsCollapsed(s)
  PROVE  Collapsed(s) = s
<1>1. Replaced(s) = s
  BY ReplacedLemma DEF IsCollapsed
<1> DEFINE N == Len(s)
<1>2. PICK f : /\ f \in [0..N -> Seq(Chars)] /\ CollapsedUpTo(s, f)
               /\ Collapsed(s) = f[N]
  BY <1>1, CollapsedDefined
<1>3. N \in Nat
  OBVIOUS
<1>4. \A i \in 1..N : IsKept(s, i)
  <2> TAKE i \in 1..N
  <2>1. CASE s[i] # Space
    BY <2>1 DEF IsKept
  <2>2. CASE s[i] = Space
    <3>1. i \notin {1, N} /\ s[i + 1] # Space
      BY <2>2 DEF IsCollapsed
    <3>2. 1 \in 1..N /\ 1 \in 1..(i - 1) /\ i < N
      BY <1>3, <3>1
    <3>3. s[1] # Space
      BY <3>2 DEF IsCollapsed
    <3> QED
      BY <3>1, <3>2, <3>3 DEF IsKept
  <2> QED
    BY <2>1, <2>2
<1>5. \A i \in 0..N : Len(f[i]) = i /\ \A k \in 1..i : f[i][k] = s[k]
  <2> DEFINE Fitting(i) == Len(f[i]) = i /\ \A k \in 1..i : f[i][k] = s[k]
             T == {i \in 0..N : ~Fitting(i)}
  <2> SUFFICES ASSUME T # {}
               PROVE  FALSE
    OBVIOUS
  <2>1. PICK i \in T : \A k \in T : i <= k
    <3>1. T \subseteq Nat
      BY <1>3
    <3> HIDE DEF T
    <3> QED
      BY <3>1, LeastLemma
  <2>2. i \in 0..N /\ ~Fitting(i)
    OBVIOUS
  <2>3. CASE i = 0
    <3>1. f[0] = <<>>
      BY <1>2 DEF CollapsedUpTo
    <3>2. Fitting(0)
      BY <3>1
    <3> QED
      BY <2>2, <2>3, <3>2
  <2>4. CASE i # 0
    <3>1. i \in 1..N /\ i - 1 \in 0..N /\ i - 1 < i /\ (i - 1) + 1 = i
      BY <1>3, <2>2, <2>4
    <3>2. i - 1 \notin T
      BY <1>3, <2>1, <3>1
    <3>3. Fitting(i - 1)
      BY <3>1, <3>2
    <3>4. f[i] = Append(f[i - 1], s[i])
      BY <1>2, <1>4, <3>1 DEF CollapsedUpTo
    <3>5. f[i - 1] \in Seq(Chars) /\ s[i] \in Chars
      BY <1>2, <3>1
    <3>6. Len(f[i]) = i /\ f[i][i] = s[i] /\ \A k \in 1..(i - 1) : f[i][k] = f[i - 1][k]
      BY <3>1, <3>3, <3>4, <3>5
    <3>7. \A k \in 1..i : k = i \/ k \in 1..(i - 1)
      BY <3>1
    <3>8. Fitting(i)
      BY <3>3, <3>6, <3>7
    <3> QED
      BY <2>2, <3>8
  <2> QED
    BY <2>3, <2>4
<1>6. f[N] \in Seq(Chars) /\ Len(f[N]) = Len(s) /\ \A k \in 1..Len(s) : f[N][k] = s[k]
  <2>1. N \in 0..N
    BY <1>3
  <2> QED
    BY <1>2, <1>5, <2>1
<1>7. f[N] = s
  BY <1>6, SeqEqual
<1> QED
  BY <1>2, <1>7

---------------------------------------------------------------------------
(* Restrictions: numerals.                                                 *)

LEMMA CharsLemma ==
  /\ Digits \subseteq Nat
  /\ Dot \notin Digits /\ Space \notin Digits /\ Newline \notin Digits
  /\ Dot # Space /\ Dot # Newline /\ Space # Newline
  /\ Digits \cup {Dot} \subseteq Chars
BY DEF Digits, Dot, Space, Newline, Chars

\* The digits of all numbers up to n.
IsDecimal(f, n) ==
  /\ f \in [0..n -> Seq(Digits)]
  /\ \A k \in 0..n : /\ k < 10 => f[k] = <<k>>
                     /\ k >= 10 => k \div 10 \in 0..n /\ f[k] = Append(f[k \div 10], k % 10)

LEMMA DecimalDefined ==
  ASSUME NEW n, n \in Nat
  PROVE  \E f : IsDecimal(f, n) /\ Decimal(n) = f[n]
<1> DEFINE V == Seq(Digits)
           under == [j \in 1..n |-> j \div 10]
           step == [j \in 1..n |-> [v \in V |-> IF j < 10 THEN <<j>> ELSE Append(v, j % 10)]]
           UpTo(g) == [k \in 0..n |-> IF k < 10 THEN <<k>> ELSE Append(g[k \div 10], k % 10)]
           upTo == CHOOSE g : g = UpTo(g)
<1>1. Decimal(n) = upTo[n]
  BY DEF Decimal
<1>2. \A j \in 1..n : /\ j \div 10 \in Nat /\ j \div 10 < j /\ j \div 10 \in 0..n
                      /\ j % 10 \in 0..9
                      /\ j \in Nat /\ j \in 0..n /\ (j < 10 => j \in 0..9)
  OBVIOUS
<1>3. IsChain(n, V, <<0>>, under, step)
  <2>1. under \in [1..n -> Nat] /\ \A j \in 1..n : under[j] < j
    BY <1>2
  <2>2. \A j \in 1..n, v \in V : (IF j < 10 THEN <<j>> ELSE Append(v, j % 10)) \in V
    <3> TAKE j \in 1..n, v \in V
    <3>1. j < 10 => <<j>> \in V
      BY <1>2 DEF Digits
    <3>2. Append(v, j % 10) \in V
      BY <1>2 DEF Digits
    <3> QED
      BY <3>1, <3>2
  <2>3. <<0>> \in V
    BY DEF Digits
  <2> HIDE DEF V
  <2>4. step \in [1..n -> [V -> V]]
    BY <2>2
  <2> HIDE DEF under, step
  <2> QED
    BY <2>1, <2>3, <2>4 DEF IsChain
<1>4. PICK g : Follows(g, n, V, <<0>>, under, step)
  <2> HIDE DEF V, under, step
  <2> QED
    BY <1>3, ChainLemma
<1>5. /\ g \in [0..n -> V] /\ g[0] = <<0>>
      /\ \A j \in 1..n : g[j] = step[j][g[under[j]]]
  <2> HIDE DEF V, under, step
  <2> QED
    BY <1>4 DEF Follows
<1>6. \A j \in 1..n : g[j] = IF j < 10 THEN <<j>> ELSE Append(g[j \div 10], j % 10)
  <2> TAKE j \in 1..n
  <2>1. under[j] = j \div 10 /\ j \div 10 \in 0..n
    BY <1>2
  <2>2. g[j \div 10] \in V
    <3> HIDE DEF V, under, step
    <3> QED
      BY <1>5, <2>1
  <2>3. step[j][g[j \div 10]] = IF j < 10 THEN <<j>> ELSE Append(g[j \div 10], j % 10)
    <3> HIDE DEF V
    <3> QED
      BY <2>2
  <2>4. g[j] = step[j][g[j \div 10]]
    <3> HIDE DEF V, step
    <3> QED
      BY <1>5, <2>1
  <2> QED
    BY <2>3, <2>4
<1>7. g = UpTo(g)
  <2>1. \A i \in 0..n : i = 0 \/ i \in 1..n
    OBVIOUS
  <2>2. UpTo(g) = [k \in 0..n |-> IF k < 10 THEN <<k>> ELSE Append(g[k \div 10], k % 10)]
    OBVIOUS
  <2> HIDE DEF V, under, step, UpTo
  <2>3. ASSUME NEW k \in 0..n
        PROVE  g[k] = IF k < 10 THEN <<k>> ELSE Append(g[k \div 10], k % 10)
    <3>1. CASE k = 0
      <4>1. k < 10
        BY <3>1
      <4> QED
        BY <1>5, <3>1, <4>1
    <3>2. CASE k \in 1..n
      BY <1>6, <3>2
    <3> QED
      BY <2>1, <3>1, <3>2
  <2> QED
    BY <1>5, <2>2, <2>3
<1>8. upTo = UpTo(upTo)
  <2> HIDE DEF UpTo
  <2> QED
    BY <1>7
<1> HIDE DEF upTo
<1>9. /\ upTo = [k \in 0..n |-> upTo[k]]
      /\ \A k \in 0..n :
           upTo[k] = IF k < 10 THEN <<k>> ELSE Append(upTo[k \div 10], k % 10)
  BY <1>8
<1> HIDE DEF V, under, step, UpTo
<1>10. \A k \in 0..n : upTo[k] \in V
  <2> DEFINE T == {k \in 0..n : upTo[k] \notin V}
  <2> SUFFICES ASSUME T # {}
               PROVE  FALSE
    OBVIOUS
  <2>1. PICK k \in T : \A l \in T : k <= l
    <3>1. T \subseteq Nat
      OBVIOUS
    <3> HIDE DEF T
    <3> QED
      BY <3>1, LeastLemma
  <2>2. k \in 0..n /\ upTo[k] \notin V
    OBVIOUS
  <2>3. CASE k < 10
    <3>1. upTo[k] = <<k>>
      BY <1>9, <2>2, <2>3
    <3>2. k \in Digits
      BY <2>2, <2>3 DEF Digits
    <3>3. <<k>> \in Seq(Digits)
      BY <3>2
    <3> QED
      BY <2>2, <3>1, <3>3 DEF V
  <2>4. CASE k >= 10
    <3>1. k \in 1..n
      BY <2>2, <2>4
    <3>2. k \div 10 \in 0..n /\ k \div 10 < k
      BY <1>2, <3>1
    <3>3. k \div 10 \notin T
      <4>1. k \div 10 \in Nat /\ k \in Nat
        BY <1>2, <3>1
      <4> HIDE DEF T
      <4> QED
        BY <2>1, <3>2, <4>1
    <3>4. upTo[k \div 10] \in Seq(Digits)
      BY <3>2, <3>3 DEF V
    <3>5. upTo[k] = Append(upTo[k \div 10], k % 10)
      <4>1. ~(k < 10)
        BY <2>2, <2>4
      <4> QED
        BY <1>9, <2>2, <4>1
    <3>6. k % 10 \in Digits
      BY <1>2, <3>1 DEF Digits
    <3>7. Append(upTo[k \div 10], k % 10) \in Seq(Digits)
      BY <3>4, <3>6
    <3> QED
      BY <2>2, <3>5, <3>7 DEF V
  <2> QED
    BY <2>2, <2>3, <2>4
<1>11. IsDecimal(upTo, n)
  <2>1. upTo \in [0..n -> Seq(Digits)]
    BY <1>9, <1>10 DEF V
  <2>2. \A k \in 0..n : k >= 10 => k \div 10 \in 0..n
    OBVIOUS
  <2>3. \A k \in 0..n : (k < 10 => upTo[k] = <<k>>)
                        /\ (k >= 10 => upTo[k] = Append(upTo[k \div 10], k % 10))
    BY <1>9
  <2> QED
    BY <2>1, <2>2, <2>3 DEF IsDecimal
<1> QED
  BY <1>1, <1>11

\* A whole number has at least one digit.
LEMMA DecimalLemma ==
  ASSUME NEW n, n \in Nat
  PROVE  Decimal(n) \in Seq(Digits) /\ Len(Decimal(n)) \in Nat /\ Len(Decimal(n)) >= 1
<1>1. PICK f : IsDecimal(f, n) /\ Decimal(n) = f[n]
  BY DecimalDefined
<1>2. n \in 0..n
  OBVIOUS
<1>3. f[n] \in Seq(Digits)
  BY <1>1, <1>2 DEF IsDecimal
<1>4. Len(f[n]) >= 1
  <2>1. CASE n < 10
    <3>1. f[n] = <<n>>
      BY <1>1, <1>2, <2>1 DEF IsDecimal
    <3> QED
      BY <3>1
  <2>2. CASE n >= 10
    <3>1. f[n] = Append(f[n \div 10], n % 10) /\ f[n \div 10] \in Seq(Digits)
      BY <1>1, <1>2, <2>2 DEF IsDecimal
    <3> QED
      BY <3>1
  <2> QED
    BY <2>1, <2>2
<1> QED
  BY <1>1, <1>3, <1>4

\* What is written: the digits before the point and `places' after it.
LEMMA WrittenLemma ==
  ASSUME NEW n, n \in Nat, NEW places, places \in Nat
  PROVE  LET W == Written(n, places)
             L == IntegerDigits(n)
         IN /\ L \in Nat /\ L >= 1
            /\ W \in Seq(Digits \cup {Dot})
            /\ Len(W) = IF places = 0 THEN L ELSE L + 1 + places
            /\ \A i \in 1..L : W[i] = Decimal(n \div 100)[i] /\ W[i] \in Digits
            /\ places # 0 => W[L + 1] = Dot
            /\ places # 0 => \A i \in 1..places : W[L + 1 + i] \in Digits
            /\ places >= 1 => W[L + 2] = (n % 100) \div 10
            /\ places >= 2 => W[L + 3] = n % 10
<1> DEFINE D == Decimal(n \div 100)
           L == IntegerDigits(n)
           digit(i) == CASE i = 1 -> (n % 100) \div 10 [] i = 2 -> n % 10 [] OTHER -> 0
           fraction == [i \in 1..places |-> digit(i)]
           W == Written(n, places)
<1>1. D \in Seq(Digits) /\ L = Len(D) /\ L \in Nat /\ L >= 1
  <2>1. n \div 100 \in Nat
    OBVIOUS
  <2> QED
    BY <2>1, DecimalLemma DEF IntegerDigits
<1>2. W = D \o (IF places = 0 THEN <<>> ELSE <<Dot>> \o fraction)
  BY DEF Written
<1>3. \A i \in 1..L : D[i] \in Digits
  BY <1>1
<1>4. (n % 100) \div 10 \in 0..9 /\ n % 10 \in 0..9
  OBVIOUS
<1>5. \A i \in 1..places : digit(i) \in Digits
  BY <1>4 DEF Digits
<1>6. digit(1) = (n % 100) \div 10 /\ digit(2) = n % 10
  OBVIOUS
<1> HIDE DEF D, L, digit, W
<1>7. CASE places = 0
  <2>1. W = D
    BY <1>1, <1>2, <1>7
  <2>2. Digits \subseteq Digits \cup {Dot}
    OBVIOUS
  <2>3. W \in Seq(Digits \cup {Dot})
    BY <1>1, <2>1
  <2> QED
    BY <1>1, <1>3, <1>7, <2>1, <2>3 DEF D, L, W
<1>8. CASE places # 0
  <2>1. fraction \in Seq(Digits) /\ Len(fraction) = places
    BY <1>5
  <2>2. \A i \in 1..places : fraction[i] = digit(i)
    OBVIOUS
  <2> HIDE DEF fraction
  <2> DEFINE after == <<Dot>> \o fraction
  <2>3. after \in Seq(Digits \cup {Dot}) /\ Len(after) = 1 + places /\ after[1] = Dot
    BY <2>1
  <2>4. \A i \in 1..places : 1 + i \in 1..(1 + places) /\ after[1 + i] = fraction[i]
    BY <2>1
  <2> HIDE DEF after
  <2>5. W = D \o after
    BY <1>2, <1>8 DEF after
  <2>6. D \in Seq(Digits \cup {Dot})
    BY <1>1
  <2>7. /\ W \in Seq(Digits \cup {Dot}) /\ Len(W) = L + 1 + places
        /\ \A i \in 1..L : W[i] = D[i]
        /\ \A i \in 1..(1 + places) : W[L + i] = after[i]
    <3> DEFINE S == Digits \cup {Dot}
    <3>1. D \in Seq(S) /\ after \in Seq(S)
      BY <2>3, <2>6
    <3> HIDE DEF S
    <3>2. /\ W \in Seq(S) /\ Len(W) = Len(D) + Len(after)
          /\ \A i \in 1..(Len(D) + Len(after)) :
               W[i] = IF i <= Len(D) THEN D[i] ELSE after[i - Len(D)]
      BY <2>5, <3>1, ConcatProperties
    <3>3. Len(D) = L /\ Len(after) = 1 + places /\ L \in Nat
      BY <1>1, <2>3
    <3>4. ASSUME NEW i \in 1..L PROVE W[i] = D[i]
      <4>1. i \in 1..(L + (1 + places)) /\ i <= L
        BY <3>3
      <4> QED
        BY <3>2, <3>3, <4>1
    <3>5. ASSUME NEW i \in 1..(1 + places) PROVE W[L + i] = after[i]
      <4>1. L + i \in 1..(L + (1 + places)) /\ ~(L + i <= L) /\ (L + i) - L = i
        BY <3>3
      <4> QED
        BY <3>2, <3>3, <4>1
    <3>6. Len(W) = L + 1 + places
      BY <3>2, <3>3
    <3> QED
      BY <3>2, <3>4, <3>5, <3>6 DEF S
  <2>8. W[L + 1] = Dot
    BY <1>8, <2>3, <2>7
  <2>9. \A i \in 1..places : W[L + 1 + i] = digit(i)
    <3> TAKE i \in 1..places
    <3>1. L + (1 + i) = L + 1 + i
      BY <1>1
    <3> QED
      BY <2>2, <2>4, <2>7, <3>1
  <2>10. places >= 1 => W[L + 2] = (n % 100) \div 10
    <3>1. places >= 1 => 1 \in 1..places /\ L + 1 + 1 = L + 2
      BY <1>1
    <3> QED
      BY <1>6, <2>9, <3>1
  <2>11. places >= 2 => W[L + 3] = n % 10
    <3>1. places >= 2 => 2 \in 1..places /\ L + 1 + 2 = L + 3
      BY <1>1
    <3> QED
      BY <1>6, <2>9, <3>1
  <2> QED
    BY <1>1, <1>3, <1>5, <1>8, <2>7, <2>8, <2>9, <2>10, <2>11 DEF D, L, W
<1> QED
  BY <1>7, <1>8

\* What the two counts of digits find in what is written.
LEMMA FractionDigitsLemma ==
  ASSUME NEW n, n \in Nat, NEW places, places \in Nat
  PROVE  FractionDigits(Written(n, places)) = places
<1> DEFINE W == Written(n, places)
           L == IntegerDigits(n)
<1>1. /\ L \in Nat /\ L >= 1
      /\ W \in Seq(Digits \cup {Dot})
      /\ Len(W) = IF places = 0 THEN L ELSE L + 1 + places
      /\ \A i \in 1..L : W[i] \in Digits
      /\ places # 0 => W[L + 1] = Dot
      /\ places # 0 => \A i \in 1..places : W[L + 1 + i] \in Digits
  BY WrittenLemma
<1> HIDE DEF W, L
<1>2. Occurs(Dot, W) <=> \E i \in 1..Len(W) : W[i] = Dot
  BY DEF Occurs
<1>3. CASE places = 0
  <2>1. \A i \in 1..Len(W) : W[i] # Dot
    BY <1>1, <1>3, CharsLemma
  <2> QED
    BY <1>2, <1>3, <2>1 DEF FractionDigits, W
<1>4. CASE places # 0
  <2> DEFINE IsLast(i) == W[i] = Dot /\ \A j \in (i + 1)..Len(W) : W[j] # Dot
  <2>1. Len(W) \in Nat /\ Len(W) = L + 1 + places /\ L + 1 \in 1..Len(W)
    BY <1>1, <1>4
  <2>2. \A j \in (L + 2)..Len(W) : W[j] \in Digits
    <3> TAKE j \in (L + 2)..Len(W)
    <3>1. j - (L + 1) \in 1..places /\ L + 1 + (j - (L + 1)) = j
      BY <1>1, <2>1
    <3> QED
      BY <1>1, <1>4, <3>1
  <2>3. IsLast(L + 1)
    <3>1. (L + 1) + 1 = L + 2
      BY <1>1
    <3> QED
      BY <1>1, <1>4, <2>2, <3>1, CharsLemma
  <2>4. ASSUME NEW i \in 1..Len(W), IsLast(i) PROVE i = L + 1
    <3>1. i \notin 1..L
      BY <1>1, <2>4, CharsLemma
    <3>2. i \notin (L + 2)..Len(W)
      BY <2>2, <2>4, CharsLemma
    <3> QED
      BY <1>1, <2>1, <3>1, <3>2
  <2>5. (CHOOSE i \in 1..Len(W) : IsLast(i)) = L + 1
    <3> HIDE DEF IsLast
    <3> QED
      BY <2>1, <2>3, <2>4
  <2>6. Occurs(Dot, W)
    BY <1>1, <1>2, <1>4, <2>1
  <2>7. FractionDigits(W) = Len(W) - (L + 1)
    BY <2>5, <2>6 DEF FractionDigits
  <2> QED
    BY <1>1, <2>1, <2>7 DEF W
<1> QED
  BY <1>3, <1>4

LEMMA TotalDigitsLemma ==
  ASSUME NEW n, n \in Nat, NEW places, places \in Nat
  PROVE  TotalDigits(Written(n, places)) = IntegerDigits(n) + places
<1> DEFINE W == Written(n, places)
           L == IntegerDigits(n)
           first == {i \in 1..Len(W) : W[i] = Dot /\ \A j \in 1..(i - 1) : W[j] # Dot}
           solid == {i \in (1..Len(W)) \ first : W[i] \notin {Space, Newline}}
           within == {i \in (1..Len(W)) \ first : \E j, k \in solid : j <= i /\ i <= k}
<1>1. /\ L \in Nat /\ L >= 1
      /\ W \in Seq(Digits \cup {Dot})
      /\ Len(W) = IF places = 0 THEN L ELSE L + 1 + places
      /\ \A i \in 1..L : W[i] \in Digits
      /\ places # 0 => W[L + 1] = Dot
      /\ places # 0 => \A i \in 1..places : W[L + 1 + i] \in Digits
  BY WrittenLemma
<1>2. TotalDigits(W) = Cardinality(within)
  BY DEF TotalDigits
<1> HIDE DEF W, L
<1>3. Len(W) \in Nat /\ \A i \in 1..Len(W) : W[i] \in Digits \cup {Dot} /\ i <= i /\ i \in Nat
  BY <1>1
<1>4. solid = (1..Len(W)) \ first
  <2>1. \A i \in 1..Len(W) : W[i] \notin {Space, Newline}
    BY <1>3, CharsLemma
  <2> HIDE DEF first
  <2> QED
    BY <2>1
<1>5. within = (1..Len(W)) \ first
  <2> HIDE DEF first, solid
  <2> QED
    BY <1>3, <1>4
<1>6. CASE places = 0
  <2>1. first = {}
    BY <1>1, <1>6, CharsLemma
  <2>2. within = 1..Len(W) /\ Len(W) = L
    BY <1>1, <1>5, <1>6, <2>1
  <2>3. Cardinality(1..L) = L
    BY <1>1, FS_Interval
  <2>4. TotalDigits(W) = L + places
    <3> HIDE DEF within, first
    <3> QED
      BY <1>1, <1>2, <1>6, <2>2, <2>3
  <2> QED
    BY <2>4 DEF W, L
<1>7. CASE places # 0
  <2>1. Len(W) = L + 1 + places /\ L + 1 \in 1..Len(W)
    BY <1>1, <1>7
  <2>2. first = {L + 1}
    <3>1. L + 1 \in first
      <4>1. \A j \in 1..((L + 1) - 1) : W[j] # Dot
        BY <1>1, CharsLemma
      <4> QED
        BY <1>1, <1>7, <2>1, <4>1
    <3>2. ASSUME NEW i \in first PROVE i = L + 1
      <4>1. i \in 1..Len(W) /\ W[i] = Dot /\ \A j \in 1..(i - 1) : W[j] # Dot
        OBVIOUS
      <4> HIDE DEF first
      <4>2. i \notin 1..L
        BY <1>1, <4>1, CharsLemma
      <4>3. L + 1 \notin 1..(i - 1)
        BY <1>1, <1>7, <4>1
      <4> QED
        BY <1>1, <1>3, <4>1, <4>2, <4>3
    <3> HIDE DEF first
    <3> QED
      BY <3>1, <3>2
  <2>3. IsFiniteSet(1..Len(W)) /\ Cardinality(1..Len(W)) = Len(W)
    <3>1. /\ IsFiniteSet(1..Len(W))
          /\ Cardinality(1..Len(W)) = IF 1 > Len(W) THEN 0 ELSE Len(W) - 1 + 1
      BY <1>3, FS_Interval
    <3> QED
      BY <1>1, <1>3, <2>1, <3>1
  <2>4. Cardinality((1..Len(W)) \ {L + 1}) = Len(W) - 1
    BY <2>1, <2>3, FS_RemoveElement
  <2>5. within = (1..Len(W)) \ {L + 1}
    <3> HIDE DEF within, first
    <3> QED
      BY <1>5, <2>2
  <2>6. TotalDigits(W) = L + places
    <3> HIDE DEF within, first
    <3>1. TotalDigits(W) = Len(W) - 1
      BY <1>2, <2>4, <2>5, Zenon
    <3> QED
      BY <1>1, <2>1, <3>1
  <2> QED
    BY <2>6 DEF W, L
<1> QED
  BY <1>6, <1>7

\* The value of the digits before each place.
IsWhole(w, s, point) ==
  /\ w \in [0..point -> Nat]
  /\ w[0] = 0
  /\ \A i \in 1..point : /\ i - 1 \in 0..point
                         /\ w[i] = IF s[i] = Dot THEN w[i - 1] ELSE 10 * w[i - 1] + s[i]

LEMMA WholeDefined ==
  ASSUME NEW s, s \in Seq(Digits \cup {Dot}),
         NEW point, point = Len(s) - FractionDigits(s), point \in 0..Len(s)
  PROVE  \E w : /\ IsWhole(w, s, point)
                /\ ValueOf(s) = 100 * w[point]
                     + 10 * (IF 1 <= FractionDigits(s) THEN s[point + 1] ELSE 0)
                     + (IF 2 <= FractionDigits(s) THEN s[point + 2] ELSE 0)
<1> DEFINE under == [j \in 1..point |-> j - 1]
           step == [j \in 1..point |-> [v \in Nat |-> IF s[j] = Dot THEN v ELSE 10 * v + s[j]]]
           Whole(g) == [i \in 0..point |->
             IF i = 0 THEN 0 ELSE IF s[i] = Dot THEN g[i - 1] ELSE 10 * g[i - 1] + s[i]]
           whole == CHOOSE g : g = Whole(g)
<1>1. ValueOf(s) = 100 * whole[point]
                     + 10 * (IF 1 <= FractionDigits(s) THEN s[point + 1] ELSE 0)
                     + (IF 2 <= FractionDigits(s) THEN s[point + 2] ELSE 0)
  BY DEF ValueOf
<1>2. point \in Nat
  OBVIOUS
<1>3. \A j \in 1..point : (s[j] = Dot \/ s[j] \in Nat) /\ j - 1 \in Nat /\ j - 1 \in 0..point /\ j - 1 < j
  <2> TAKE j \in 1..point
  <2>1. j \in 1..Len(s)
    OBVIOUS
  <2>2. s[j] \in Digits \cup {Dot}
    BY <2>1
  <2>3. s[j] = Dot \/ s[j] \in Nat
    BY <2>2, CharsLemma
  <2> QED
    BY <1>2, <2>3
<1>4. IsChain(point, Nat, 0, under, step)
  <2>1. under \in [1..point -> Nat] /\ \A j \in 1..point : under[j] < j
    BY <1>3
  <2>2. \A j \in 1..point, v \in Nat : (IF s[j] = Dot THEN v ELSE 10 * v + s[j]) \in Nat
    BY <1>3
  <2>3. step \in [1..point -> [Nat -> Nat]]
    BY <2>2
  <2> HIDE DEF under, step
  <2> QED
    BY <1>2, <2>1, <2>3 DEF IsChain
<1>5. PICK g : Follows(g, point, Nat, 0, under, step)
  <2> HIDE DEF under, step
  <2> QED
    BY <1>4, ChainLemma
<1>6. /\ g \in [0..point -> Nat] /\ g[0] = 0
      /\ \A j \in 1..point : g[j] = step[j][g[under[j]]]
  <2> HIDE DEF under, step
  <2> QED
    BY <1>5 DEF Follows
<1>7. \A j \in 1..point : g[j] = IF s[j] = Dot THEN g[j - 1] ELSE 10 * g[j - 1] + s[j]
  <2> TAKE j \in 1..point
  <2>1. under[j] = j - 1 /\ j - 1 \in 0..point
    BY <1>3
  <2>2. g[j - 1] \in Nat
    BY <1>6, <2>1
  <2>3. step[j][g[j - 1]] = IF s[j] = Dot THEN g[j - 1] ELSE 10 * g[j - 1] + s[j]
    BY <2>2
  <2>4. g[j] = step[j][g[j - 1]]
    <3> HIDE DEF step
    <3> QED
      BY <1>6, <2>1
  <2> QED
    BY <2>3, <2>4
<1>8. g = Whole(g)
  <2>1. \A i \in 0..point : i = 0 \/ i \in 1..point
    BY <1>2
  <2>2. Whole(g) = [i \in 0..point |->
          IF i = 0 THEN 0 ELSE IF s[i] = Dot THEN g[i - 1] ELSE 10 * g[i - 1] + s[i]]
    OBVIOUS
  <2> HIDE DEF under, step, Whole
  <2>3. ASSUME NEW i \in 0..point
        PROVE  g[i] = IF i = 0 THEN 0
                      ELSE IF s[i] = Dot THEN g[i - 1] ELSE 10 * g[i - 1] + s[i]
    <3>1. CASE i = 0
      BY <1>6, <3>1
    <3>2. CASE i \in 1..point
      BY <1>7, <3>2
    <3> QED
      BY <2>1, <3>1, <3>2
  <2> QED
    BY <1>6, <2>2, <2>3
<1>9. whole = Whole(whole)
  <2> HIDE DEF Whole
  <2> QED
    BY <1>8
<1> HIDE DEF whole
<1>10. /\ whole = [i \in 0..point |-> whole[i]]
       /\ \A i \in 0..point :
            whole[i] = IF i = 0 THEN 0
                       ELSE IF s[i] = Dot THEN whole[i - 1] ELSE 10 * whole[i - 1] + s[i]
  BY <1>9
<1> HIDE DEF under, step, Whole
<1>11. whole[0] = 0
  BY <1>2, <1>10
<1>12. \A i \in 1..point : whole[i] = IF s[i] = Dot THEN whole[i - 1] ELSE 10 * whole[i - 1] + s[i]
  <2> TAKE i \in 1..point
  <2>1. i \in 0..point /\ i # 0
    BY <1>2
  <2> QED
    BY <1>10, <2>1
<1>13. \A i \in 0..point : whole[i] \in Nat
  <2> DEFINE T == {i \in 0..point : whole[i] \notin Nat}
  <2> SUFFICES ASSUME T # {}
               PROVE  FALSE
    OBVIOUS
  <2>1. PICK i \in T : \A k \in T : i <= k
    <3>1. T \subseteq Nat
      BY <1>2
    <3> HIDE DEF T
    <3> QED
      BY <3>1, LeastLemma
  <2>2. i \in 0..point /\ whole[i] \notin Nat
    OBVIOUS
  <2>3. i \in 1..point
    BY <1>2, <1>11, <2>2
  <2>4. i - 1 \notin T
    <3>1. i - 1 < i /\ i \in Nat /\ i - 1 \in Nat
      BY <1>3, <2>3
    <3> HIDE DEF T
    <3> QED
      BY <2>1, <3>1
  <2>5. whole[i - 1] \in Nat
    BY <1>3, <2>3, <2>4
  <2>6. \/ whole[i] = whole[i - 1]
        \/ whole[i] = 10 * whole[i - 1] + s[i] /\ s[i] \in Nat
    BY <1>3, <1>12, <2>3
  <2> QED
    BY <2>2, <2>5, <2>6
<1>14. IsWhole(whole, s, point)
  <2>1. whole \in [0..point -> Nat]
    BY <1>10, <1>13
  <2> QED
    BY <1>3, <1>11, <1>12, <2>1 DEF IsWhole
<1> QED
  BY <1>1, <1>14

\* A numeral stands for the number that was written, if no digit was left out.
LEMMA ValueLemma ==
  ASSUME NEW n, n \in Nat, NEW places, places \in Nat,
         places = 0 => n % 100 = 0, places = 1 => n % 10 = 0
  PROVE  ValueOf(Written(n, places)) = n
<1> DEFINE W == Written(n, places)
           L == IntegerDigits(n)
           m == n \div 100
           point == Len(W) - FractionDigits(W)
<1>1. /\ L \in Nat /\ L >= 1
      /\ W \in Seq(Digits \cup {Dot})
      /\ Len(W) = IF places = 0 THEN L ELSE L + 1 + places
      /\ \A i \in 1..L : W[i] = Decimal(m)[i] /\ W[i] \in Digits
      /\ places # 0 => W[L + 1] = Dot
      /\ places >= 1 => W[L + 2] = (n % 100) \div 10
      /\ places >= 2 => W[L + 3] = n % 10
  BY WrittenLemma
<1>2. FractionDigits(W) = places
  BY FractionDigitsLemma
<1>3. m \in Nat /\ Len(Decimal(m)) = L
  BY DEF IntegerDigits
<1> HIDE DEF W, L, m
<1>4. /\ point \in Nat /\ point \in 0..Len(W) /\ L <= point
      /\ point = IF places = 0 THEN L ELSE L + 1
  BY <1>1, <1>2
<1>5. PICK w : /\ IsWhole(w, W, point)
               /\ ValueOf(W) = 100 * w[point]
                    + 10 * (IF 1 <= FractionDigits(W) THEN W[point + 1] ELSE 0)
                    + (IF 2 <= FractionDigits(W) THEN W[point + 2] ELSE 0)
  <2> HIDE DEF point
  <2>1. point = Len(W) - FractionDigits(W)
    BY DEF point
  <2> QED
    BY <1>1, <1>4, <2>1, WholeDefined
<1> HIDE DEF point
<1>6. PICK f : IsDecimal(f, m) /\ Decimal(m) = f[m]
  BY <1>3, DecimalDefined
<1> DEFINE Begins(k) == Len(f[k]) <= L /\ \A i \in 1..Len(f[k]) : W[i] = f[k][i]
           Fitting(k) == Begins(k) => w[Len(f[k])] = k
<1>7. \A k \in 0..m : Fitting(k)
  <2> DEFINE T == {k \in 0..m : ~Fitting(k)}
  <2> SUFFICES ASSUME T # {}
               PROVE  FALSE
    OBVIOUS
  <2>1. PICK k \in T : \A j \in T : k <= j
    <3>1. T \subseteq Nat
      BY <1>3
    <3> HIDE DEF T
    <3> QED
      BY <3>1, LeastLemma
  <2>2. k \in 0..m /\ Begins(k) /\ w[Len(f[k])] # k
    OBVIOUS
  <2>3. CASE k < 10
    <3>1. f[k] = <<k>>
      BY <1>6, <2>2, <2>3 DEF IsDecimal
    <3>2. Len(f[k]) = 1 /\ f[k][1] = k
      BY <3>1
    <3>3. W[1] = k
      BY <2>2, <3>2
    <3>4. 1 \in 1..point /\ 1 - 1 = 0
      BY <1>1, <1>4
    <3>5. k # Dot /\ k \in Nat
      <4>1. k \in Digits
        BY <1>3, <2>2, <2>3 DEF Digits
      <4> QED
        BY <4>1, CharsLemma
    <3>6. w[1] = 10 * w[0] + k /\ w[0] = 0
      BY <1>5, <3>3, <3>4, <3>5 DEF IsWhole
    <3>7. w[1] = k
      BY <3>5, <3>6
    <3> QED
      BY <2>2, <3>2, <3>7
  <2>4. CASE k >= 10
    <3> DEFINE h == k \div 10
    <3>1. h \in 0..m /\ h < k /\ h \in Nat /\ k = 10 * h + (k % 10) /\ k % 10 \in 0..9 /\ k \in Nat
      BY <1>3, <2>2, <2>4
    <3>2. f[k] = Append(f[h], k % 10) /\ f[h] \in Seq(Digits)
      BY <1>6, <2>2, <2>4, <3>1 DEF IsDecimal
    <3> HIDE DEF h
    <3>3. /\ Len(f[h]) \in Nat /\ Len(f[k]) = Len(f[h]) + 1
          /\ f[k][Len(f[h]) + 1] = k % 10
          /\ \A i \in 1..Len(f[h]) : f[k][i] = f[h][i]
      BY <3>2
    <3>4. Begins(h)
      <4>1. Len(f[h]) <= L
        BY <1>1, <2>2, <3>3
      <4>2. \A i \in 1..Len(f[h]) : i \in 1..Len(f[k])
        BY <3>3
      <4> QED
        BY <2>2, <3>3, <4>1, <4>2
    <3>5. w[Len(f[h])] = h
      <4>1. h \notin T
        <5> HIDE DEF T
        <5> QED
          BY <2>1, <3>1
      <4> QED
        BY <3>1, <3>4, <4>1
    <3>6. W[Len(f[h]) + 1] = k % 10
      <4>1. Len(f[h]) + 1 \in 1..Len(f[k])
        BY <3>3
      <4> QED
        BY <2>2, <3>3, <4>1
    <3>7. Len(f[h]) + 1 \in 1..point /\ (Len(f[h]) + 1) - 1 = Len(f[h])
      BY <1>1, <1>4, <2>2, <3>3
    <3>8. k % 10 # Dot
      <4>1. k % 10 \in Digits
        BY <3>1 DEF Digits
      <4> QED
        BY <4>1, CharsLemma
    <3>9. w[Len(f[h]) + 1] = 10 * h + (k % 10)
      BY <1>5, <3>5, <3>6, <3>7, <3>8 DEF IsWhole
    <3>10. w[Len(f[k])] = k
      BY <3>1, <3>3, <3>9
    <3> QED
      BY <2>2, <3>10
  <2> QED
    BY <1>3, <2>2, <2>3, <2>4
<1>8. w[L] = m
  <2>1. m \in 0..m /\ Len(f[m]) = L /\ f[m] = Decimal(m)
    BY <1>3, <1>6
  <2>2. Begins(m)
    BY <1>1, <2>1
  <2> HIDE DEF Begins
  <2> QED
    BY <1>7, <2>1, <2>2
<1>9. w[point] = m
  <2>1. CASE places = 0
    BY <1>4, <1>8, <2>1
  <2>2. CASE places # 0
    <3>1. L + 1 \in 1..point /\ point = L + 1 /\ (L + 1) - 1 = L
      BY <1>1, <1>4, <2>2
    <3> QED
      BY <1>1, <1>5, <1>8, <2>2, <3>1 DEF IsWhole
  <2> QED
    BY <2>1, <2>2
<1>10. /\ n = 100 * m + 10 * ((n % 100) \div 10) + (n % 10)
       /\ n % 100 = 0 => (n % 100) \div 10 = 0 /\ n % 10 = 0
  BY DEF m
<1>11. CASE places = 0
  <2>1. ValueOf(W) = 100 * m
    BY <1>2, <1>3, <1>5, <1>9, <1>11
  <2> QED
    BY <1>3, <1>10, <1>11, <2>1 DEF W
<1>12. CASE places # 0
  <2>1. point = L + 1 /\ point + 1 = L + 2 /\ point + 2 = L + 3
    BY <1>1, <1>4, <1>12
  <2>2. W[point + 1] = (n % 100) \div 10 /\ (places >= 2 => W[point + 2] = n % 10)
    BY <1>1, <1>12, <2>1
  <2>3. CASE places = 1
    <3>1. ValueOf(W) = 100 * m + 10 * ((n % 100) \div 10) + 0
      BY <1>2, <1>5, <1>9, <2>2, <2>3
    <3>2. n % 10 = 0
      BY <2>3
    <3> QED
      BY <1>10, <3>1, <3>2 DEF W
  <2>4. CASE places >= 2
    <3>1. ValueOf(W) = 100 * m + 10 * ((n % 100) \div 10) + (n % 10)
      BY <1>2, <1>5, <1>9, <2>2, <2>4
    <3> QED
      BY <1>10, <3>1 DEF W
  <2> QED
    BY <1>12, <2>3, <2>4
<1> QED
  BY <1>11, <1>12

\* The number that toFixed rounds to.
Rounded(n, places) ==
  IF places = 0 THEN ((n + 50) \div 100) * 100
  ELSE IF places = 1 THEN ((n + 5) \div 10) * 10
  ELSE n

LEMMA FixedLemma ==
  ASSUME NEW n, n \in Nat, NEW places, places \in Nat
  PROVE  /\ Fixed(n, places) = Written(Rounded(n, places), places)
         /\ Rounded(n, places) \in Nat
         /\ ValueOf(Fixed(n, places)) = Rounded(n, places)
         /\ (places = 0 => n % 100 = 0) /\ (places = 1 => n % 10 = 0) => Rounded(n, places) = n
         /\ places = 0 => Rounded(n, places) % 100 = 0
         /\ places = 1 => Rounded(n, places) % 10 = 0
<1> DEFINE R == Rounded(n, places)
<1>1. Fixed(n, places) = Written(R, places)
  <2>1. CASE places = 0
    BY <2>1 DEF Fixed, Rounded
  <2>2. CASE places = 1
    BY <2>2 DEF Fixed, Rounded
  <2>3. CASE places # 0 /\ places # 1
    BY <2>3 DEF Fixed, Rounded
  <2> QED
    BY <2>1, <2>2, <2>3
<1>2. /\ R \in Nat /\ (places = 0 => R % 100 = 0) /\ (places = 1 => R % 10 = 0)
      /\ (places = 0 => n % 100 = 0) /\ (places = 1 => n % 10 = 0) => R = n
  BY DEF Rounded
<1> HIDE DEF R
<1>3. ValueOf(Written(R, places)) = R
  BY <1>2, ValueLemma
<1> QED
  BY <1>1, <1>2, <1>3 DEF R

\* Rounding does not leave whole bounds.
LEMMA RoundedBounds ==
  ASSUME NEW n, n \in Nat, NEW places, places \in Nat, NEW whole, whole \in Nat
  PROVE  /\ whole * 100 <= n => whole * 100 <= Rounded(n, places)
         /\ n <= whole * 100 => Rounded(n, places) <= whole * 100
BY DEF Rounded

\* The digits of a number without needless zeros.
PlainDigits(n) == IF n % 100 = 0 THEN 0 ELSE IF n % 10 = 0 THEN 1 ELSE 2

LEMMA PlainLemma ==
  ASSUME NEW n, n \in Nat
  PROVE  /\ Plain(n) = Written(n, PlainDigits(n))
         /\ PlainDigits(n) \in Nat
         /\ ValueOf(Plain(n)) = n
         /\ FractionDigits(Plain(n)) = PlainDigits(n)
         /\ TotalDigits(Plain(n)) = IntegerDigits(n) + PlainDigits(n)
<1> DEFINE places == PlainDigits(n)
<1>1. Plain(n) = Written(n, places)
  BY DEF Plain, PlainDigits
<1>2. places \in Nat /\ (places = 0 => n % 100 = 0) /\ (places = 1 => n % 10 = 0)
  BY DEF PlainDigits
<1> HIDE DEF places
<1>3. ValueOf(Written(n, places)) = n
  BY <1>2, ValueLemma
<1>4. FractionDigits(Written(n, places)) = places
  BY <1>2, FractionDigitsLemma
<1>5. TotalDigits(Written(n, places)) = IntegerDigits(n) + places
  BY <1>2, TotalDigitsLemma
<1> QED
  BY <1>1, <1>2, <1>3, <1>4, <1>5 DEF places

---------------------------------------------------------------------------
(* Restrictions: the stages.                                               *)

\* What a restriction may say.
LEMMA FacetsLemma ==
  ASSUME facets \in Restrictions
  PROVE  /\ Has("minExclusive") => facets.minExclusive \in Nat
         /\ Has("maxExclusive") => facets.maxExclusive \in Nat
         /\ Has("minInclusive") => facets.minInclusive \in Nat
         /\ Has("maxInclusive") => facets.maxInclusive \in Nat
         /\ Has("fractionDigits") => facets.fractionDigits \in Nat
         /\ Has("totalDigits") => facets.totalDigits \in Nat
         /\ Has("length") => facets.length \in Nat
         /\ Has("minLength") => facets.minLength \in Nat
         /\ Has("maxLength") => facets.maxLength \in Nat
         /\ Normalises => facets.whiteSpace \in {"replace", "collapse"}
         /\ ~Normalises => facets.whiteSpace \notin {"replace", "collapse"}
         /\ facets.base \in {"number", "string", "derived"}
<1>1. /\ \A f \in {"minExclusive", "minInclusive", "maxExclusive", "maxInclusive",
                   "fractionDigits", "totalDigits", "length", "minLength", "maxLength"} :
           facets[f] \in Nat \cup {Unset}
      /\ facets.base \in {"number", "string", "derived"}
  BY RestrictionsAssumption
<1> QED
  BY <1>1 DEF Has, Normalises

\* What a user may give.
LEMMA GivenLemma ==
  ASSUME EnforceTyping
  PROVE  /\ given.kind \in {"number", "text"}
         /\ given.kind = "number" => /\ given = Number(given.hundredths)
                                     /\ given.hundredths \in Nat
         /\ given.kind = "text" => /\ given = Text(given.chars)
                                   /\ given.chars \in Seq(Chars)
<1>1. /\ given \in {Number(n) : n \in Numbers} \cup {Text(s) : s \in Texts}
      /\ \A n \in Numbers : n \in Nat
      /\ Texts \subseteq Seq(Chars)
  BY RestrictionsAssumption DEF EnforceTyping
<1>2. CASE \E n \in Numbers : given = Number(n)
  BY <1>1, <1>2 DEF Number
<1>3. CASE \E s \in Texts : given = Text(s)
  BY <1>1, <1>3 DEF Text
<1> QED
  BY <1>1, <1>2, <1>3

\* A stage changes neither the restriction nor the value that was given, so that
\* what depends on them alone stays.
LEMMA SameFacets ==
  ASSUME UNCHANGED <<facets, given>>
  PROVE  /\ NumberOK' <=> NumberAt(stage', val', violated', given.hundredths)
         /\ TextOK' <=> TextAt(stage', val', violated', given.chars)
<1>1. /\ \A f : Has(f)' <=> Has(f)
      /\ Normalises' <=> Normalises
      /\ facets' = facets /\ given' = given
  BY DEF Has, Normalises
<1>2. \A n : /\ AfterFraction(n)' = AfterFraction(n)
             /\ AfterTotal(n)' = AfterTotal(n)
  BY <1>1 DEF AfterTotal, AfterFraction
<1>3. \A n : /\ WithinBounds(n, TRUE)' <=> WithinBounds(n, TRUE)
             /\ WithinDigits(n)' <=> WithinDigits(n)
             /\ DigitsFit(n)' <=> DigitsFit(n)
  BY <1>1 DEF WithinBounds, WithinDigits, DigitsFit
<1>4. \A n : AllowedNumber(n)' <=> AllowedNumber(n)
  BY <1>1, <1>3 DEF AllowedNumber
<1>5. \A s : /\ HasValidLength(s)' <=> HasValidLength(s)
             /\ IsListed(s)' <=> IsListed(s)
             /\ IsNormalised(s)' <=> IsNormalised(s)
             /\ Normalised(s)' = Normalised(s)
  BY <1>1 DEF HasValidLength, IsListed, IsNormalised, Normalised
<1>6. \A s : AllowedText(s)' <=> AllowedText(s)
  BY <1>1, <1>5 DEF AllowedText, HasNumericFacet
<1>7. NumberOK' <=> NumberAt(stage', val', violated', given.hundredths)
  BY <1>1, <1>2, <1>3, <1>4 DEF NumberOK, NumberAt
<1>8. TextOK' <=> TextAt(stage', val', violated', given.chars)
  BY <1>1, <1>5, <1>6 DEF TextOK, TextAt
<1> QED
  BY <1>7, <1>8

\* The bounds of a number.
BoundsFound(v) ==
  Note("minExclusive", ~Greater(v, facets.minExclusive))
  \cup Note("maxInclusive", Greater(v, facets.maxInclusive))
  \cup Note("minInclusive", Less(v, facets.minInclusive))
  \cup Note("maxExclusive", ~Less(v, facets.maxExclusive))

LEMMA BoundsLemma ==
  ASSUME facets \in Restrictions, NEW n, n \in Nat
  PROVE  BoundsFound(Number(n)) = {} <=> WithinBounds(n, TRUE)
<1>1. \A whole : /\ Greater(Number(n), whole) <=> n > whole * 100
                 /\ Less(Number(n), whole) <=> n < whole * 100
  BY DEF Greater, Less, Number, IsNumber
<1>2. BoundsFound(Number(n)) = {} <=>
        /\ Has("minExclusive") => n > facets.minExclusive * 100
        /\ Has("maxInclusive") => ~(n > facets.maxInclusive * 100)
        /\ Has("minInclusive") => ~(n < facets.minInclusive * 100)
        /\ Has("maxExclusive") => n < facets.maxExclusive * 100
  <2>1. BoundsFound(Number(n)) = {} <=>
          /\ Note("minExclusive", ~Greater(Number(n), facets.minExclusive)) = {}
          /\ Note("maxInclusive", Greater(Number(n), facets.maxInclusive)) = {}
          /\ Note("minInclusive", Less(Number(n), facets.minInclusive)) = {}
          /\ Note("maxExclusive", ~Less(Number(n), facets.maxExclusive)) = {}
    BY DEF BoundsFound
  <2>2. /\ Note("minExclusive", ~Greater(Number(n), facets.minExclusive)) = {} <=>
             ~(Has("minExclusive") /\ ~Greater(Number(n), facets.minExclusive))
        /\ Note("maxInclusive", Greater(Number(n), facets.maxInclusive)) = {} <=>
             ~(Has("maxInclusive") /\ Greater(Number(n), facets.maxInclusive))
        /\ Note("minInclusive", Less(Number(n), facets.minInclusive)) = {} <=>
             ~(Has("minInclusive") /\ Less(Number(n), facets.minInclusive))
        /\ Note("maxExclusive", ~Less(Number(n), facets.maxExclusive)) = {} <=>
             ~(Has("maxExclusive") /\ ~Less(Number(n), facets.maxExclusive))
    BY DEF Note
  <2> QED
    BY <1>1, <2>1, <2>2
<1> QED
  BY <1>2, FacetsLemma DEF WithinBounds

\* What is written of a number is left alone by the stage WhiteSpace.
LEMMA AfterLemma ==
  ASSUME facets \in Restrictions, NEW n, n \in Nat
  PROVE  /\ ~Has("fractionDigits") => AfterFraction(n) = Number(n)
         /\ Has("fractionDigits") =>
              AfterFraction(n) = Text(Fixed(n, facets.fractionDigits))
         /\ \/ AfterTotal(n) = Number(n)
            \/ \E c \in Seq(Chars) : /\ AfterTotal(n) = Text(c)
                                     /\ Replaced(c) = c
                                     /\ Collapsed(c) = c
<1>1. ASSUME NEW places, places \in Nat
      PROVE  \E c \in Seq(Chars) : /\ Text(Fixed(n, places)) = Text(c)
                                   /\ Replaced(c) = c
                                   /\ Collapsed(c) = c
  <2> DEFINE R == Rounded(n, places)
             c == Written(R, places)
  <2>1. Fixed(n, places) = c /\ R \in Nat
    BY <1>1, FixedLemma
  <2>2. c \in Seq(Digits \cup {Dot})
    <3> HIDE DEF R
    <3> QED
      BY <1>1, <2>1, WrittenLemma
  <2> HIDE DEF c
  <2>3. c \in Seq(Chars) /\ \A i \in 1..Len(c) : c[i] # Newline /\ c[i] # Space
    <3>1. \A i \in 1..Len(c) : c[i] \in Digits \cup {Dot}
      BY <2>2
    <3>2. \A i \in 1..Len(c) : c[i] # Newline /\ c[i] # Space
      BY <3>1, CharsLemma
    <3>3. c \in Seq(Chars)
      BY <2>2, <3>1, CharsLemma, SeqDef, LenProperties
    <3> QED
      BY <3>2, <3>3
  <2>4. Replaced(c) = c
    BY <2>3, ReplacedLemma
  <2>5. Collapsed(c) = c
    BY <2>3, CollapsedSame DEF IsCollapsed
  <2> QED
    BY <2>1, <2>3, <2>4, <2>5
<1>2. IntegerDigits(n) \in Nat
  BY DecimalLemma DEF IntegerDigits
<1>3. CASE Has("fractionDigits")
  <2>1. facets.fractionDigits \in Nat
    BY <1>3, FacetsLemma
  <2> QED
    BY <1>1, <1>3, <2>1 DEF AfterTotal, AfterFraction
<1>4. CASE ~Has("fractionDigits") /\ Has("totalDigits") /\ IntegerDigits(n) <= facets.totalDigits
  <2>1. facets.totalDigits - IntegerDigits(n) \in Nat
    BY <1>2, <1>4, FacetsLemma
  <2> QED
    BY <1>1, <1>4, <2>1 DEF AfterTotal, AfterFraction
<1>5. CASE ~Has("fractionDigits") /\ ~(Has("totalDigits") /\ IntegerDigits(n) <= facets.totalDigits)
  BY <1>5 DEF AfterTotal, AfterFraction
<1> QED
  BY <1>3, <1>4, <1>5

\* A number that must not be refused has no more digits than it may.
LEMMA AllowedLemma ==
  ASSUME facets \in Restrictions, NEW n, n \in Nat, AllowedNumber(n)
  PROVE  DigitsFit(n)
<1> SUFFICES ASSUME Has("totalDigits")
             PROVE  IF Has("fractionDigits")
                      THEN TotalDigits(Fixed(n, facets.fractionDigits)) <= facets.totalDigits
                      ELSE IntegerDigits(n) <= facets.totalDigits
  BY DEF DigitsFit
<1>1. IntegerDigits(n) \in Nat /\ IntegerDigits(n) >= 1
  BY DecimalLemma DEF IntegerDigits
<1>2. /\ Has("fractionDigits") => PlainDigits(n) <= facets.fractionDigits
      /\ IntegerDigits(n) + PlainDigits(n) - (IF n < 100 /\ n > 0 THEN 1 ELSE 0) <= facets.totalDigits
  <2>1. WithinDigits(n)
    BY DEF AllowedNumber
  <2>2. /\ FractionDigits(Plain(n)) = PlainDigits(n)
        /\ TotalDigits(Plain(n)) = IntegerDigits(n) + PlainDigits(n)
    BY PlainLemma
  <2> DEFINE lead == IF n < 100 /\ n > 0 THEN 1 ELSE 0
  <2>3. /\ Has("fractionDigits") => FractionDigits(Plain(n)) <= facets.fractionDigits
        /\ TotalDigits(Plain(n)) - lead <= facets.totalDigits
    BY <2>1, Zenon DEF WithinDigits
  <2> HIDE DEF lead
  <2>4. Has("fractionDigits") => PlainDigits(n) <= facets.fractionDigits
    BY <2>2, <2>3, Zenon
  <2>5. IntegerDigits(n) + PlainDigits(n) - lead <= facets.totalDigits
    <3>1. TotalDigits(Plain(n)) = IntegerDigits(n) + PlainDigits(n)
      BY <2>2, Zenon
    <3>2. TotalDigits(Plain(n)) - lead <= facets.totalDigits
      BY <2>3, Zenon
    <3>3. PlainDigits(n) \in Nat /\ lead \in {0, 1}
      BY DEF PlainDigits, lead
    <3>4. facets.totalDigits \in Nat
      BY FacetsLemma
    <3> QED
      BY <1>1, <3>1, <3>2, <3>3, <3>4
  <2> QED
    BY <2>4, <2>5 DEF lead
<1>3. facets.totalDigits \in Nat
  BY FacetsLemma
<1>4. CASE Has("fractionDigits")
  <2> DEFINE places == facets.fractionDigits
  <2>1. places \in Nat
    BY <1>4, FacetsLemma
  <2>2. (places = 0 => n % 100 = 0) /\ (places = 1 => n % 10 = 0)
    BY <1>2, <1>4, <2>1 DEF PlainDigits
  <2>3. Fixed(n, places) = Written(n, places)
    BY <2>1, <2>2, FixedLemma
  <2>4. TotalDigits(Fixed(n, places)) = IntegerDigits(n) + places
    BY <2>1, <2>3, TotalDigitsLemma
  <2>5. IntegerDigits(n) + places <= facets.totalDigits
    BY <1>4 DEF AllowedNumber
  <2> QED
    BY <1>4, <2>4, <2>5
<1>5. CASE ~Has("fractionDigits")
  <2>1. n < 100 /\ n > 0 => PlainDigits(n) >= 1
    BY DEF PlainDigits
  <2>2. PlainDigits(n) \in Nat
    BY DEF PlainDigits
  <2>3. IntegerDigits(n) <= facets.totalDigits
    BY <1>1, <1>2, <1>3, <2>1, <2>2
  <2> QED
    BY <1>5, <2>3
<1> QED
  BY <1>4, <1>5

\* What a stage does with a number.
LEMMA NumberStep ==
  ASSUME EnforceTyping, NumberOK, IsNumber(given), facets.base # "string", EnforceNext
  PROVE  NumberAt(stage', val', violated', given.hundredths)
<1> DEFINE n == given.hundredths
<1>1. n \in Nat /\ facets \in Restrictions
  BY GivenLemma DEF IsNumber, EnforceTyping
<1>2. NumberAt(stage, val, violated, n)
  BY DEF NumberOK
<1> HIDE DEF n
<1> SUFFICES NumberAt(stage', val', violated', n)
  BY DEF n
<1>3. IsNumber(Number(n)) /\ Number(n).hundredths = n /\ \A c : ~IsNumber(Text(c)) /\ Text(c).chars = c
  BY DEF IsNumber, Number, Text
<1>4. CASE Base
  <2>1. stage = "base" /\ stage' = "bounds" /\ val = Number(n)
    BY <1>2, <1>4 DEF Base, Go, NumberAt
  <2>2. val' = val /\ violated' = {}
    BY <1>3, <1>4, <2>1 DEF Base
  <2> QED
    BY <2>1, <2>2 DEF NumberAt
<1>5. CASE Bounds
  <2>1. stage = "bounds" /\ stage' = "fraction" /\ val' = val /\ val = Number(n)
    BY <1>2, <1>5 DEF Bounds, Go, NumberAt
  <2>2. violated' = violated \cup BoundsFound(val)
    BY <1>5 DEF Bounds, BoundsFound
  <2>3. BoundsFound(val) = {} <=> WithinBounds(n, TRUE)
    BY <1>1, <2>1, BoundsLemma
  <2>4. violated' = {} <=> violated = {} /\ WithinBounds(n, TRUE)
    BY <2>2, <2>3
  <2>5. AllowedNumber(n) => violated = {} /\ WithinBounds(n, TRUE)
    BY <1>2 DEF NumberAt, AllowedNumber
  <2> QED
    BY <2>1, <2>4, <2>5 DEF NumberAt
<1>6. CASE Fraction
  <2>1. stage = "fraction" /\ stage' = "total" /\ val = Number(n)
    BY <1>2, <1>6 DEF Fraction, Go, NumberAt
  <2>2. val' = AfterFraction(n) /\ violated' = violated
    <3>1. CASE Has("fractionDigits")
      BY <1>3, <1>6, <2>1, <3>1 DEF Fraction, AfterFraction
    <3>2. CASE ~Has("fractionDigits")
      BY <1>6, <2>1, <3>2 DEF Fraction, AfterFraction, Note
    <3> QED
      BY <3>1, <3>2
  <2> QED
    BY <1>2, <2>1, <2>2 DEF NumberAt
<1>7. CASE Total
  <2>1. stage = "total" /\ stage' = "length" /\ val = AfterFraction(n)
    BY <1>2, <1>7 DEF Total, Go, NumberAt
  <2>2. /\ violated = {} => WithinBounds(n, TRUE)
        /\ AllowedNumber(n) => violated = {}
    BY <1>2, <2>1 DEF NumberAt
  <2>3. AllowedNumber(n) => DigitsFit(n)
    BY <1>1, AllowedLemma
  <2>4. /\ val' = AfterTotal(n)
        /\ violated' = {} <=> violated = {} /\ DigitsFit(n)
    <3>1. CASE Has("fractionDigits")
      <4> DEFINE c == Fixed(n, facets.fractionDigits)
      <4>1. val = Text(c) /\ AfterTotal(n) = AfterFraction(n)
        BY <2>1, <3>1 DEF AfterTotal, AfterFraction
      <4>2. /\ val' = val
            /\ violated' = violated \cup Note("totalDigits", TotalDigits(c) > facets.totalDigits)
        BY <1>3, <1>7, <4>1 DEF Total
      <4>3. DigitsFit(n) <=> (Has("totalDigits") => TotalDigits(c) <= facets.totalDigits)
        BY <3>1 DEF DigitsFit
      <4>4. Has("totalDigits") =>
              (TotalDigits(c) <= facets.totalDigits <=> ~(TotalDigits(c) > facets.totalDigits))
        <5>1. facets.fractionDigits \in Nat
          BY <1>1, <3>1, FacetsLemma
        <5>2. /\ Rounded(n, facets.fractionDigits) \in Nat
              /\ c = Written(Rounded(n, facets.fractionDigits), facets.fractionDigits)
          BY <1>1, <5>1, FixedLemma
        <5>3. TotalDigits(c) =
                IntegerDigits(Rounded(n, facets.fractionDigits)) + facets.fractionDigits
          BY <5>1, <5>2, TotalDigitsLemma
        <5>4. IntegerDigits(Rounded(n, facets.fractionDigits)) \in Nat
          BY <5>2, DecimalLemma DEF IntegerDigits
        <5>5. Has("totalDigits") => facets.totalDigits \in Nat
          BY <1>1, FacetsLemma
        <5> QED
          BY <5>1, <5>3, <5>4, <5>5
      <4> HIDE DEF c
      <4>5. violated' = {} <=> violated = {} /\ DigitsFit(n)
        BY <4>2, <4>3, <4>4 DEF Note
      <4> QED
        BY <2>1, <4>1, <4>2, <4>5
    <3>2. CASE ~Has("fractionDigits") /\ Has("totalDigits")
      <4>1. val = Number(n)
        BY <2>1, <3>2 DEF AfterFraction
      <4>2. DigitsFit(n) <=> IntegerDigits(n) <= facets.totalDigits
        BY <3>2 DEF DigitsFit
      <4>3. IntegerDigits(n) \in Nat /\ facets.totalDigits \in Nat
        BY <1>1, <3>2, DecimalLemma, FacetsLemma DEF IntegerDigits
      <4>4. CASE IntegerDigits(n) > facets.totalDigits
        <5>1. val' = val /\ violated' = violated \cup {"totalDigits"}
          BY <1>3, <1>7, <3>2, <4>1, <4>4 DEF Total
        <5>2. ~(IntegerDigits(n) <= facets.totalDigits)
          BY <4>3, <4>4
        <5>3. AfterTotal(n) = Number(n)
          BY <3>2, <5>2 DEF AfterTotal, AfterFraction
        <5> QED
          BY <4>1, <4>2, <5>1, <5>2, <5>3
      <4>5. CASE ~(IntegerDigits(n) > facets.totalDigits)
        <5>1. val' = Shortened(val) /\ violated' = violated
          BY <1>3, <1>7, <3>2, <4>1, <4>5 DEF Total
        <5>2. IntegerDigits(n) <= facets.totalDigits
          BY <4>3, <4>5
        <5>3. AfterTotal(n) = Shortened(val)
          BY <1>3, <3>2, <4>1, <5>2 DEF AfterTotal, Shortened
        <5> QED
          BY <4>2, <5>1, <5>2, <5>3
      <4> QED
        BY <4>4, <4>5
    <3>3. CASE ~Has("fractionDigits") /\ ~Has("totalDigits")
      BY <1>7, <2>1, <3>3 DEF Total, Note, AfterTotal, AfterFraction, DigitsFit
    <3> QED
      BY <3>1, <3>2, <3>3
  <2> QED
    BY <2>1, <2>2, <2>3, <2>4 DEF NumberAt
<1>8. CASE Length
  <2>1. stage = "length" /\ stage' = "whiteSpace" /\ val' = val /\ val = AfterTotal(n)
    BY <1>2, <1>8 DEF Length, Go, NumberAt
  <2>2. /\ violated = {} => WithinBounds(n, TRUE) /\ DigitsFit(n)
        /\ AllowedNumber(n) => violated = {}
    BY <1>2, <2>1 DEF NumberAt
  <2>3. violated \subseteq violated'
    BY <1>8 DEF Length
  <2>4. AllowedNumber(n) => violated' = violated
    BY <1>8 DEF Length, Note, AllowedNumber
  <2>5. /\ violated' = {} => violated = {}
        /\ AllowedNumber(n) => violated' = {}
    BY <2>2, <2>3, <2>4
  <2> QED
    BY <2>1, <2>2, <2>5 DEF NumberAt
<1>9. CASE WhiteSpace
  <2>1. stage = "whiteSpace" /\ val = AfterTotal(n) /\ violated' = violated
    BY <1>2, <1>9 DEF WhiteSpace, NumberAt
  <2>2. /\ violated = {} => WithinBounds(n, TRUE) /\ DigitsFit(n)
        /\ AllowedNumber(n) => violated = {}
    BY <1>2, <2>1 DEF NumberAt
  <2>3. stage' = IF Normalises /\ IsNumber(val) THEN "raised" ELSE "values"
    BY <1>9 DEF WhiteSpace
  <2>4. AllowedNumber(n) => stage' = "values"
    BY <2>3 DEF AllowedNumber
  <2>5. stage' = "values" => val' = AfterTotal(n)
    <3>1. CASE val = Number(n)
      BY <1>3, <1>9, <2>1, <3>1 DEF WhiteSpace
    <3>2. ASSUME NEW c \in Seq(Chars), val = Text(c), Replaced(c) = c, Collapsed(c) = c
          PROVE  val' = AfterTotal(n)
      <4>1. ~IsNumber(val) /\ val.chars = c
        BY <1>3, <3>2
      <4>2. Normalises => \/ facets.whiteSpace = "replace"
                          \/ facets.whiteSpace = "collapse" /\ facets.whiteSpace # "replace"
        BY <1>1, FacetsLemma
      <4>3. CASE ~Normalises
        <5>1. facets.whiteSpace # "replace" /\ facets.whiteSpace # "collapse"
          BY <1>1, <4>3, FacetsLemma
        <5> QED
          BY <1>9, <2>1, <4>1, <4>3, <5>1 DEF WhiteSpace
      <4>4. CASE Normalises /\ facets.whiteSpace = "replace"
        BY <1>9, <2>1, <3>2, <4>1, <4>4 DEF WhiteSpace
      <4>5. CASE Normalises /\ facets.whiteSpace = "collapse"
        BY <1>9, <2>1, <3>2, <4>1, <4>5 DEF WhiteSpace
      <4> QED
        BY <4>2, <4>3, <4>4, <4>5
    <3>3. \/ val = Number(n)
          \/ \E c \in Seq(Chars) : val = Text(c) /\ Replaced(c) = c /\ Collapsed(c) = c
      BY <1>1, <2>1, AfterLemma
    <3> QED
      BY <3>1, <3>2, <3>3
  <2>6. stage' \in {"raised", "values"}
    BY <2>3
  <2> QED
    BY <2>1, <2>2, <2>4, <2>5, <2>6 DEF NumberAt
<1>10. CASE PatternAndEnumeration
  <2>1. stage = "values" /\ val = AfterTotal(n) /\ val' = val
    BY <1>2, <1>10 DEF PatternAndEnumeration, NumberAt
  <2>2. /\ violated = {} => WithinBounds(n, TRUE) /\ DigitsFit(n)
        /\ AllowedNumber(n) => violated = {}
    BY <1>2, <2>1 DEF NumberAt
  <2>3. /\ stage' = IF violated' = {} THEN "sent" ELSE "refused"
        /\ violated \subseteq violated'
    BY <1>10 DEF PatternAndEnumeration
  <2>4. AllowedNumber(n) => violated' = violated
    BY <1>10 DEF PatternAndEnumeration, Note, AllowedNumber
  <2>5. /\ violated' = {} => violated = {}
        /\ AllowedNumber(n) => violated' = {} /\ stage' = "sent"
        /\ stage' = "sent" => violated' = {}
        /\ stage' \in {"sent", "refused"}
    BY <2>2, <2>3, <2>4
  <2> QED
    BY <2>1, <2>2, <2>5 DEF NumberAt
<1> QED
  BY <1>4, <1>5, <1>6, <1>7, <1>8, <1>9, <1>10 DEF EnforceNext

\* The stage WhiteSpace makes a text what its type asks for, and leaves alone one
\* that is so already.
LEMMA NormalisedLemma ==
  ASSUME facets \in Restrictions, NEW s, s \in Seq(Chars)
  PROVE  /\ IsNormalised(Normalised(s))
         /\ IsNormalised(s) => Normalised(s) = s
<1>0. \A c \in Seq(Chars) : Occurs(Newline, c) <=> \E i \in 1..Len(c) : c[i] = Newline
  BY DEF Occurs
<1>1. CASE ~Normalises
  <2>1. facets.whiteSpace # "collapse"
    BY <1>1, FacetsLemma
  <2> QED
    BY <1>1, <2>1 DEF IsNormalised, Normalised
<1>2. CASE Normalises /\ facets.whiteSpace = "replace"
  <2>1. Normalised(s) = Replaced(s)
    BY <1>2 DEF Normalised
  <2>2. /\ Replaced(s) \in Seq(Chars)
        /\ ~Occurs(Newline, Replaced(s))
        /\ ~Occurs(Newline, s) => Replaced(s) = s
    BY <1>0, ReplacedLemma
  <2> QED
    BY <1>2, <2>1, <2>2 DEF IsNormalised
<1>3. CASE Normalises /\ facets.whiteSpace = "collapse"
  <2>1. Normalised(s) = Collapsed(s)
    BY <1>3 DEF Normalised
  <2>2. \A c \in Seq(Chars) : IsNormalised(c) <=> IsCollapsed(c)
    BY <1>0, <1>3 DEF IsNormalised, IsCollapsed
  <2>3. Collapsed(s) \in Seq(Chars) /\ IsCollapsed(Collapsed(s))
    BY CollapsedLemma
  <2>4. IsCollapsed(s) => Collapsed(s) = s
    BY CollapsedSame
  <2> QED
    BY <2>1, <2>2, <2>3, <2>4
<1> QED
  BY <1>1, <1>2, <1>3, FacetsLemma

\* What a stage does with a text.
LEMMA TextStep ==
  ASSUME EnforceTyping, TextOK, given.kind = "text", EnforceNext
  PROVE  TextAt(stage', val', violated', given.chars)
<1> DEFINE s == given.chars
<1>1. s \in Seq(Chars) /\ facets \in Restrictions
  BY GivenLemma DEF EnforceTyping
<1>2. TextAt(stage, val, violated, s)
  BY DEF TextOK
<1> HIDE DEF s
<1> SUFFICES TextAt(stage', val', violated', s)
  BY DEF s
<1>3. \A c : ~IsNumber(Text(c)) /\ Text(c).chars = c
  BY DEF IsNumber, Text
<1>4. CASE Base
  <2>1. stage = "base" /\ stage' = "bounds" /\ val = Text(s)
    BY <1>2, <1>4 DEF Base, Go, TextAt
  <2>2. val' = val
    BY <1>3, <1>4, <2>1 DEF Base, TextOf
  <2>3. AllowedText(s) => violated' = {}
    BY <1>4 DEF Base, AllowedText
  <2> QED
    BY <2>1, <2>2, <2>3 DEF TextAt
<1>5. CASE Bounds
  <2>1. stage = "bounds" /\ stage' = "fraction" /\ val' = val /\ val = Text(s)
    BY <1>2, <1>5 DEF Bounds, Go, TextAt
  <2>2. AllowedText(s) => violated' = violated /\ violated = {}
    BY <1>2, <1>5 DEF Bounds, Note, AllowedText, HasNumericFacet, TextAt
  <2> QED
    BY <2>1, <2>2 DEF TextAt
<1>6. CASE Fraction
  <2>1. stage = "fraction" /\ stage' = "total" /\ val = Text(s)
    BY <1>2, <1>6 DEF Fraction, Go, TextAt
  <2>2. val' = val
    BY <1>3, <1>6, <2>1 DEF Fraction
  <2>3. AllowedText(s) => violated' = violated /\ violated = {}
    BY <1>2, <1>3, <1>6, <2>1 DEF Fraction, Note, AllowedText, HasNumericFacet, TextAt
  <2> QED
    BY <2>1, <2>2, <2>3 DEF TextAt
<1>7. CASE Total
  <2>1. stage = "total" /\ stage' = "length" /\ val = Text(s)
    BY <1>2, <1>7 DEF Total, Go, TextAt
  <2>2. val' = val
    BY <1>3, <1>7, <2>1 DEF Total
  <2>3. AllowedText(s) => violated' = violated /\ violated = {}
    BY <1>2, <1>3, <1>7, <2>1 DEF Total, Note, AllowedText, HasNumericFacet, TextAt
  <2> QED
    BY <2>1, <2>2, <2>3 DEF TextAt
<1>8. CASE Length
  <2>1. stage = "length" /\ stage' = "whiteSpace" /\ val' = val /\ val = Text(s)
    BY <1>2, <1>8 DEF Length, Go, TextAt
  <2> DEFINE found == Note("length", Len(s) # facets.length)
                        \cup Note("maxLength", Len(s) > facets.maxLength)
                        \cup Note("minLength", Len(s) < facets.minLength)
  <2>2. violated' = violated \cup found
    BY <1>3, <1>8, <2>1 DEF Length
  <2>3. found = {} <=> HasValidLength(s)
    <3>1. /\ Has("maxLength") => (Len(s) <= facets.maxLength <=> ~(Len(s) > facets.maxLength))
          /\ Has("minLength") => (Len(s) >= facets.minLength <=> ~(Len(s) < facets.minLength))
      BY <1>1, FacetsLemma
    <3>2. found = {} <=> /\ Has("length") => Len(s) = facets.length
                         /\ Has("maxLength") => ~(Len(s) > facets.maxLength)
                         /\ Has("minLength") => ~(Len(s) < facets.minLength)
      BY DEF Note
    <3> HIDE DEF found
    <3> QED
      BY <3>1, <3>2 DEF HasValidLength
  <2> HIDE DEF found
  <2>4. AllowedText(s) => violated = {} /\ HasValidLength(s)
    BY <1>2 DEF TextAt, AllowedText
  <2>5. /\ violated' = {} => HasValidLength(s)
        /\ AllowedText(s) => violated' = {}
    BY <2>2, <2>3, <2>4
  <2> QED
    BY <2>1, <2>5 DEF TextAt
<1>9. CASE WhiteSpace
  <2>1. /\ stage = "whiteSpace" /\ val = Text(s) /\ violated' = violated
        /\ ~IsNumber(val) /\ val.chars = s
    BY <1>2, <1>3, <1>9 DEF WhiteSpace, TextAt
  <2>2. stage' = "values"
    BY <1>9, <2>1 DEF WhiteSpace
  <2>3. val' = Text(Normalised(s))
    <3>1. CASE ~Normalises
      <4>1. facets.whiteSpace # "replace" /\ facets.whiteSpace # "collapse"
        BY <1>1, <3>1, FacetsLemma
      <4> QED
        BY <1>9, <2>1, <3>1, <4>1 DEF WhiteSpace, Normalised
    <3>2. CASE Normalises /\ facets.whiteSpace = "replace"
      BY <1>9, <2>1, <3>2 DEF WhiteSpace, Normalised
    <3>3. CASE Normalises /\ facets.whiteSpace = "collapse"
      BY <1>9, <2>1, <3>3 DEF WhiteSpace, Normalised
    <3> QED
      BY <1>1, <3>1, <3>2, <3>3, FacetsLemma
  <2> QED
    BY <1>2, <2>1, <2>2, <2>3 DEF TextAt
<1>10. CASE PatternAndEnumeration
  <2> DEFINE c == Normalised(s)
             found == Note("pattern", ~FitsPattern(val)) \cup Note("enumeration", ~InEnumeration(val))
  <2>1. stage = "values" /\ val = Text(c) /\ val' = val
    BY <1>2, <1>10 DEF PatternAndEnumeration, TextAt
  <2>2. /\ violated' = violated \cup found
        /\ stage' = IF violated' = {} THEN "sent" ELSE "refused"
    BY <1>10 DEF PatternAndEnumeration
  <2>3. /\ violated = {} => HasValidLength(s)
        /\ AllowedText(s) => violated = {}
    BY <1>2, <2>1 DEF TextAt
  <2>4. ~IsNumber(val) /\ val.chars = c
    BY <1>3, <2>1
  <2> HIDE DEF c
  <2>5. InEnumeration(val) <=> c \in facets.enumeration
    BY <2>4 DEF InEnumeration
  <2>6. found = {} => IsListed(c)
    BY <2>5 DEF Note, IsListed
  <2>7. AllowedText(s) => found = {}
    <3> SUFFICES ASSUME AllowedText(s)
                 PROVE  found = {}
      OBVIOUS
    <3>1. c = s
      BY <1>1, NormalisedLemma DEF AllowedText, c
    <3>2. IsListed(c) /\ ~Has("pattern")
      BY <3>1 DEF AllowedText
    <3> QED
      BY <2>5, <3>2 DEF Note, IsListed
  <2> HIDE DEF found
  <2>8. stage' \in {"sent", "refused"}
    BY <2>2
  <2>9. stage' = "sent" => violated' = {} /\ violated = {} /\ IsListed(c)
    BY <2>2, <2>6
  <2>10. AllowedText(s) => violated' = {} /\ stage' = "sent"
    BY <2>2, <2>3, <2>7
  <2>11. violated' = {} => HasValidLength(s)
    BY <2>2, <2>3
  <2> QED
    BY <2>1, <2>4, <2>8, <2>9, <2>10, <2>11 DEF TextAt, c
<1> QED
  BY <1>4, <1>5, <1>6, <1>7, <1>8, <1>9, <1>10 DEF EnforceNext

LEMMA InitEnforce == EnforceInit => EnforceInv
<1> SUFFICES ASSUME EnforceInit
             PROVE  EnforceInv
  OBVIOUS
<1>1. EnforceTyping
  BY DEF EnforceInit, EnforceTyping
<1>2. stage = "base" /\ val = given /\ violated = {}
  BY DEF EnforceInit
<1>3. IsNumber(given) => NumberOK
  BY <1>1, <1>2, GivenLemma DEF IsNumber, NumberOK, NumberAt
<1>4. given.kind = "text" => TextOK
  BY <1>1, <1>2, GivenLemma DEF TextOK, TextAt
<1> QED
  BY <1>1, <1>3, <1>4 DEF EnforceInv

LEMMA NextEnforce == EnforceInv /\ [EnforceNext]_enforceVars => EnforceInv'
<1> SUFFICES ASSUME EnforceInv, [EnforceNext]_enforceVars
             PROVE  EnforceInv'
  OBVIOUS
<1>1. CASE EnforceNext
  <2>1. UNCHANGED <<facets, given>> /\ stage' \in
          {"bounds", "fraction", "total", "length", "whiteSpace", "values",
           "sent", "refused", "raised"}
    BY <1>1 DEF EnforceNext, Base, Bounds, Fraction, Total, Length, WhiteSpace,
                PatternAndEnumeration, Go
  <2>2. EnforceTyping'
    BY <2>1 DEF EnforceInv, EnforceTyping
  <2>3. IsNumber(given)' /\ facets'.base # "string" => NumberOK'
    BY <1>1, <2>1, NumberStep, SameFacets DEF EnforceInv, IsNumber
  <2>4. given'.kind = "text" => TextOK'
    BY <1>1, <2>1, TextStep, SameFacets DEF EnforceInv
  <2> QED
    BY <2>2, <2>3, <2>4 DEF EnforceInv
<1>2. CASE UNCHANGED enforceVars
  <2>1. UNCHANGED <<facets, given, val, stage, violated>>
    BY <1>2 DEF enforceVars
  <2>2. EnforceTyping'
    BY <2>1 DEF EnforceInv, EnforceTyping
  <2>3. (NumberOK' <=> NumberOK) /\ (TextOK' <=> TextOK)
    BY <2>1, SameFacets DEF NumberOK, TextOK
  <2>4. IsNumber(given)' <=> IsNumber(given)
    BY <2>1 DEF IsNumber
  <2> QED
    BY <2>1, <2>2, <2>3, <2>4 DEF EnforceInv
<1> QED
  BY <1>1, <1>2

---------------------------------------------------------------------------
(* Restrictions: the theorems.                                             *)

\* A number that is sent is valid.
LEMMA NumberSent ==
  ASSUME EnforceInv, stage = "sent", IsNumber(given), facets.base # "string"
  PROVE  /\ WithinBounds(ValueOf(Sent), FALSE)
         /\ Carried \/ WithinDigits(ValueOf(Sent))
<1> DEFINE n == given.hundredths
<1>1. n \in Nat /\ facets \in Restrictions
  BY GivenLemma DEF IsNumber, EnforceTyping, EnforceInv
<1>2. val = AfterTotal(n) /\ WithinBounds(n, TRUE) /\ DigitsFit(n)
  <2>1. NumberAt(stage, val, violated, n)
    BY DEF EnforceInv, NumberOK
  <2> HIDE DEF n
  <2> QED
    BY <2>1 DEF NumberAt
<1>3. Carried <=> IntegerDigits(ValueOf(Sent)) > IntegerDigits(n)
  BY DEF Carried
<1> HIDE DEF n
<1>4. IntegerDigits(n) \in Nat
  BY <1>1, DecimalLemma DEF IntegerDigits
<1>5. IsNumber(Number(n)) /\ Number(n).hundredths = n /\ \A c : ~IsNumber(Text(c)) /\ Text(c).chars = c
  BY DEF IsNumber, Number, Text
\* A number that was rounded, with the places that it got.
<1>6. ASSUME NEW places, places \in Nat, val = Text(Fixed(n, places)),
             LET R == Rounded(n, places) IN
               /\ Has("fractionDigits") => places = facets.fractionDigits
               /\ Has("totalDigits") =>
                    \/ IntegerDigits(R) + places <= facets.totalDigits
                    \/ IntegerDigits(n) + places <= facets.totalDigits
      PROVE  /\ WithinBounds(ValueOf(Sent), FALSE)
             /\ Carried \/ WithinDigits(ValueOf(Sent))
  <2> DEFINE R == Rounded(n, places)
  <2>1. Sent = Fixed(n, places)
    BY <1>5, <1>6 DEF Sent, TextOf
  <2>2. ValueOf(Sent) = R /\ R \in Nat
    BY <1>1, <1>6, <2>1, FixedLemma
  <2>3. WithinBounds(R, FALSE)
    <3>1. /\ Has("minExclusive") => facets.minExclusive * 100 < n
          /\ Has("maxExclusive") => n < facets.maxExclusive * 100
          /\ Has("minInclusive") => facets.minInclusive * 100 <= n
          /\ Has("maxInclusive") => n <= facets.maxInclusive * 100
      BY <1>2 DEF WithinBounds
    <3>2. ASSUME NEW whole \in Nat
          PROVE  /\ whole * 100 <= n => whole * 100 <= R
                 /\ n <= whole * 100 => R <= whole * 100
      BY <1>1, <1>6, RoundedBounds, Zenon
    <3> HIDE DEF R
    <3>3. ASSUME Has("minExclusive") PROVE facets.minExclusive * 100 <= R
      <4>1. facets.minExclusive \in Nat
        BY <1>1, <3>3, FacetsLemma
      <4>2. facets.minExclusive * 100 <= n
        BY <1>1, <3>1, <3>3, <4>1
      <4> QED
        BY <3>2, <4>1, <4>2, Zenon
    <3>4. ASSUME Has("maxExclusive") PROVE R <= facets.maxExclusive * 100
      <4>1. facets.maxExclusive \in Nat
        BY <1>1, <3>4, FacetsLemma
      <4>2. n <= facets.maxExclusive * 100
        BY <1>1, <3>1, <3>4, <4>1
      <4> QED
        BY <3>2, <4>1, <4>2, Zenon
    <3>5. ASSUME Has("minInclusive") PROVE facets.minInclusive * 100 <= R
      <4>1. facets.minInclusive \in Nat
        BY <1>1, <3>5, FacetsLemma
      <4>2. facets.minInclusive * 100 <= n
        BY <1>1, <3>1, <3>5, <4>1
      <4> QED
        BY <3>2, <4>1, <4>2, Zenon
    <3>6. ASSUME Has("maxInclusive") PROVE R <= facets.maxInclusive * 100
      <4>1. facets.maxInclusive \in Nat
        BY <1>1, <3>6, FacetsLemma
      <4>2. n <= facets.maxInclusive * 100
        BY <1>1, <3>1, <3>6, <4>1
      <4> QED
        BY <3>2, <4>1, <4>2, Zenon
    <3> QED
      BY <3>3, <3>4, <3>5, <3>6 DEF WithinBounds
  <2>4. PlainDigits(R) \in Nat /\ PlainDigits(R) <= places
    <3>1. (places = 0 => R % 100 = 0) /\ (places = 1 => R % 10 = 0)
      <4>1. \A p \in Nat : /\ p = 0 => Rounded(n, p) % 100 = 0
                           /\ p = 1 => Rounded(n, p) % 10 = 0
        BY <1>1, FixedLemma
      <4> QED
        BY <1>6, <4>1, Zenon
    <3> HIDE DEF R
    <3> QED
      BY <1>6, <3>1 DEF PlainDigits
  <2>5. /\ Has("fractionDigits") => places = facets.fractionDigits
        /\ Has("totalDigits") =>
             \/ IntegerDigits(R) + places <= facets.totalDigits
             \/ IntegerDigits(n) + places <= facets.totalDigits
    BY <1>6
  <2> HIDE DEF R
  <2>6. IntegerDigits(R) \in Nat
    BY <2>2, DecimalLemma DEF IntegerDigits
  <2>7. ASSUME ~Carried PROVE WithinDigits(R)
    <3>1. IntegerDigits(R) <= IntegerDigits(n)
      BY <1>3, <1>4, <2>2, <2>6, <2>7
    <3>2. Has("totalDigits") =>
            facets.totalDigits \in Nat /\ IntegerDigits(R) + PlainDigits(R) <= facets.totalDigits
      BY <1>1, <1>4, <1>6, <2>4, <2>5, <2>6, <3>1, FacetsLemma
    <3>3. /\ FractionDigits(Plain(R)) = PlainDigits(R)
          /\ TotalDigits(Plain(R)) = IntegerDigits(R) + PlainDigits(R)
      BY <2>2, PlainLemma
    <3>4. Has("fractionDigits") => FractionDigits(Plain(R)) <= facets.fractionDigits
      BY <1>6, <2>4, <2>5, <3>3
    <3>5. Has("totalDigits") =>
            TotalDigits(Plain(R)) - (IF R < 100 /\ R > 0 THEN 1 ELSE 0) <= facets.totalDigits
      BY <2>4, <2>6, <3>2, <3>3
    <3> QED
      BY <3>4, <3>5, Zenon DEF WithinDigits
  <2> QED
    BY <2>2, <2>3, <2>7
<1>7. CASE Has("fractionDigits")
  <2> DEFINE places == facets.fractionDigits
  <2>1. places \in Nat
    BY <1>1, <1>7, FacetsLemma
  <2>2. val = Text(Fixed(n, places))
    BY <1>2, <1>7 DEF AfterTotal, AfterFraction
  <2>3. TotalDigits(Fixed(n, places)) = IntegerDigits(Rounded(n, places)) + places
    BY <1>1, <2>1, FixedLemma, TotalDigitsLemma
  <2>4. Has("totalDigits") => IntegerDigits(Rounded(n, places)) + places <= facets.totalDigits
    BY <1>2, <1>7, <2>3 DEF DigitsFit
  <2> QED
    BY <1>6, <2>1, <2>2, <2>4
<1>8. CASE ~Has("fractionDigits") /\ Has("totalDigits")
  <2> DEFINE places == facets.totalDigits - IntegerDigits(n)
  <2>1. facets.totalDigits \in Nat /\ IntegerDigits(n) <= facets.totalDigits
    BY <1>1, <1>2, <1>8, FacetsLemma DEF DigitsFit
  <2>2. places \in Nat /\ IntegerDigits(n) + places <= facets.totalDigits
    BY <1>4, <2>1
  <2>3. val = Text(Fixed(n, places))
    BY <1>2, <1>8, <2>1 DEF AfterTotal
  <2> HIDE DEF places
  <2> QED
    BY <1>6, <1>8, <2>2, <2>3
<1>9. CASE ~Has("fractionDigits") /\ ~Has("totalDigits")
  <2>1. val = Number(n)
    BY <1>2, <1>9 DEF AfterTotal, AfterFraction
  <2>2. Sent = Plain(n)
    BY <1>5, <2>1 DEF Sent, TextOf
  <2>3. ValueOf(Sent) = n
    BY <1>1, <2>2, PlainLemma
  <2>4. WithinBounds(n, FALSE)
    BY <1>1, <1>2, FacetsLemma DEF WithinBounds
  <2>5. WithinDigits(n)
    BY <1>9 DEF WithinDigits
  <2> QED
    BY <2>3, <2>4, <2>5
<1> QED
  BY <1>7, <1>8, <1>9

\* Every number that is sent is within the bounds and digits of its type, as far
\* as rounding allows.
THEOREM NumberIsValidHolds == EnforceSpec => []NumberIsValid
<1>1. EnforceInv => NumberIsValid
  BY NumberSent DEF NumberIsValid
<1> QED
  BY <1>1, InitEnforce, NextEnforce, PTL DEF EnforceSpec

\* Every text that is sent is normalised, is one of the values of its type and
\* has a valid length, unless its white space was changed.
THEOREM TextIsValidHolds == EnforceSpec => []TextIsValid
<1>1. ASSUME EnforceInv, stage = "sent", given.kind = "text"
      PROVE  /\ IsNormalised(Sent)
             /\ IsListed(Sent)
             /\ Len(Sent) = Len(given.chars) => HasValidLength(Sent)
  <2>1. given.chars \in Seq(Chars) /\ facets \in Restrictions
    BY <1>1, GivenLemma DEF EnforceTyping, EnforceInv
  <2>2. /\ val = Text(Normalised(given.chars))
        /\ HasValidLength(given.chars)
        /\ IsListed(val.chars)
    BY <1>1 DEF EnforceInv, TextOK, TextAt
  <2>3. Sent = Normalised(given.chars) /\ val.chars = Normalised(given.chars)
    BY <2>2 DEF Sent, TextOf, IsNumber, Text
  <2>4. IsNormalised(Sent)
    BY <2>1, <2>3, NormalisedLemma
  <2>5. Len(Sent) = Len(given.chars) => HasValidLength(Sent)
    BY <2>2 DEF HasValidLength
  <2> QED
    BY <2>2, <2>3, <2>4, <2>5
<1>2. EnforceInv => TextIsValid
  BY <1>1 DEF TextIsValid
<1> QED
  BY <1>2, InitEnforce, NextEnforce, PTL DEF EnforceSpec

\* Every value that its type allows is sent, but for those with facets that are
\* not for them.
THEOREM ValidIsSentHolds == EnforceSpec => []ValidIsSent
<1>1. ASSUME EnforceInv, stage \in {"refused", "raised"}
      PROVE  ValidIsSent
  <2>1. CASE IsNumber(given) /\ facets.base # "string"
    <3>1. ~AllowedNumber(given.hundredths)
      BY <1>1, <2>1 DEF EnforceInv, NumberOK, NumberAt
    <3>2. given.hundredths \in Nat /\ facets \in Restrictions
      BY <1>1, <2>1, GivenLemma DEF EnforceInv, EnforceTyping, IsNumber
    <3>3. IntegerDigits(given.hundredths) \in Nat
      BY <3>2, DecimalLemma DEF IntegerDigits
    <3>4. Has("fractionDigits") /\ Has("totalDigits") =>
            \/ IntegerDigits(given.hundredths) + facets.fractionDigits <= facets.totalDigits
            \/ IntegerDigits(given.hundredths) + facets.fractionDigits > facets.totalDigits
      BY <3>2, <3>3, FacetsLemma
    <3> QED
      BY <2>1, <3>1, <3>4 DEF ValidIsSent, AllowedNumber
  <2>2. CASE ~(IsNumber(given) /\ facets.base # "string") /\ given.kind = "text"
    <3>1. ~AllowedText(given.chars)
      BY <1>1, <2>2 DEF EnforceInv, TextOK, TextAt
    <3> QED
      BY <2>2, <3>1 DEF ValidIsSent, AllowedText
  <2>3. CASE ~(IsNumber(given) /\ facets.base # "string") /\ given.kind # "text"
    <3>1. given.kind = "number"
      BY <1>1, <2>3, GivenLemma DEF EnforceInv
    <3> QED
      BY <2>3, <3>1 DEF ValidIsSent
  <2> QED
    BY <2>1, <2>2, <2>3
<1>2. EnforceInv => ValidIsSent
  BY <1>1 DEF ValidIsSent
<1> QED
  BY <1>2, InitEnforce, NextEnforce, PTL DEF EnforceSpec
===============================================================================
