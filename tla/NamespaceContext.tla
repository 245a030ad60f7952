-------------------------- MODULE NamespaceContext --------------------------
(***************************************************************************)
(* src/src/parser/nscontext.js: the stack of namespace scopes with which    *)
(* XML is written and read.  A context is a sequence of scopes, the current *)
(* one last, since each scope's parent is the one below it.  A scope keeps  *)
(* the mappings it holds, by prefix, and the number of the last prefix it   *)
(* generated.                                                               *)
(*                                                                          *)
(* The definitions are functions of a context: the modules that keep one    *)
(* as a variable apply them to it.                                          *)
(***************************************************************************)
EXTENDS Naturals, Sequences

CONSTANTS
  Generated,  \* the numbers k of the prefixes `ns<k>': Nat, or a bound on it
  Names,      \* the other prefixes
  URIs,       \* namespace URIs; none is the empty string
  NoURI,      \* null, where there is no mapping
  NoPrefix    \* an empty or missing prefix

ASSUME NamespaceAssumption ==
  /\ Generated \subseteq Nat
  /\ Generated \cap Names = {}
  /\ NoURI \notin URIs
  /\ NoPrefix \notin Generated \cup Names

Prefixes == Generated \cup Names

\* What a scope has for a prefix; Unmapped if it has no mapping.
Unmapped == [uri |-> NoURI, declared |-> FALSE]

Mappings == [uri : URIs, declared : BOOLEAN] \cup {Unmapped}

Scopes == [map : [Prefixes -> Mappings], count : Nat]

Contexts == Seq(Scopes)

EmptyScope == [map |-> [p \in Prefixes |-> Unmapped], count |-> 0]

\* Mutant: popContext forgets to go back to the parent.
KeepContext(ctx) == ctx

\* pushContext and popContext.
PushContext(ctx) == Append(ctx, EmptyScope)

PopContext(ctx) == SubSeq(ctx, 1, Len(ctx) - 1)

Maps(scope, p) == scope.map[p].uri # NoURI

\* The innermost scope that has a mapping for p, or 0.
Holder(ctx, p) ==
  IF \E i \in 1..Len(ctx) : Maps(ctx[i], p)
    THEN CHOOSE i \in 1..Len(ctx) :
           Maps(ctx[i], p) /\ \A j \in (i + 1)..Len(ctx) : ~Maps(ctx[j], p)
    ELSE 0

\* getNamespaceURI and getNamespaceMapping.
GetNamespaceURI(ctx, p) ==
  LET i == Holder(ctx, p) IN
  IF i = 0 THEN NoURI ELSE ctx[i].map[p].uri

\* Mutant: undeclared mappings are returned too.
AllPrefixMappings(ctx, uri) ==
  LET in(i) == {p \in Prefixes : ctx[i].map[p].uri = uri}
  IN  UNION {in(i) : i \in {k \in 1..Len(ctx) :
                              \A j \in (k + 1)..Len(ctx) : in(j) = {}}}

\* What getPrefixMapping can return, if it finds anything: a declared mapping
\* of the innermost scope that has one for the URI.  Which of them it is
\* depends on the order in which the scope's mappings were made.
PrefixMappings(ctx, uri) ==
  LET in(i) == {p \in Prefixes : ctx[i].map[p] = [uri |-> uri, declared |-> TRUE]}
  IN  UNION {in(i) : i \in {k \in 1..Len(ctx) :
                              \A j \in (k + 1)..Len(ctx) : in(j) = {}}}

\* generatePrefix, called on the current scope, returns `ns<g>': the first
\* number after the scope's counter whose prefix is not mapped.
Generates(ctx, g) ==
  LET last == ctx[Len(ctx)].count IN
  /\ g \in Generated
  /\ g > last
  /\ GetNamespaceURI(ctx, g) = NoURI
  /\ \A k \in (last + 1)..(g - 1) : GetNamespaceURI(ctx, k) # NoURI

WithMapping(ctx, p, mapping) ==
  [ctx EXCEPT ![Len(ctx)].map[p] = mapping]

\* addNamespace.
AddNamespace(ctx, p, uri) ==
  IF GetNamespaceURI(ctx, p) = uri
    THEN ctx
    ELSE WithMapping(ctx, p, [uri |-> uri, declared |-> FALSE])

\* registerNamespace finds a mapping of p to the URI ...
Finds(ctx, p, uri) == p # NoPrefix /\ GetNamespaceURI(ctx, p) = uri

\* Mutant: the prefix is taken even if it stands for another URI.
TakesAny(ctx, p) == p # NoPrefix

\* ... or makes a mapping of p, or of a generated prefix if there is no p or if
\* p stands for another URI.
Takes(ctx, p) == p # NoPrefix /\ GetNamespaceURI(ctx, p) = NoURI

\* declareNamespace(p, uri) with g for generatePrefix: what becomes of the
\* context, the prefix of the mapping, whether it was newly declared, and
\* whether the call returns.  A mapping that is found undeclared is declared in
\* the current scope; if it belongs to an outer one, line 293 reads `prefix' of
\* undefined.
DeclareNamespace(ctx, p, uri, g) ==
  LET holder == Holder(ctx, p)
      made(q) == WithMapping(
                   IF q = p THEN ctx ELSE [ctx EXCEPT ![Len(ctx)].count = g],
                   q, [uri |-> uri, declared |-> TRUE])
  IN
  IF Finds(ctx, p, uri) THEN
    IF ctx[holder].map[p].declared
      THEN [ctx |-> ctx, prefix |-> p, created |-> FALSE, returns |-> TRUE]
      ELSE [ctx |-> IF holder = Len(ctx) THEN made(p) ELSE ctx,
            prefix |-> p, created |-> TRUE, returns |-> holder = Len(ctx)]
  ELSE
    LET q == IF Takes(ctx, p) THEN p ELSE g IN
    [ctx |-> made(q), prefix |-> q, created |-> TRUE, returns |-> TRUE]
=============================================================================
