----------------------------- MODULE WsdlLoader -----------------------------
(***************************************************************************)
(* How WSDL and XSD documents are read, cached, parsed, merged into the     *)
(* definitions of those that import them and post-processed: WSDL.load,     *)
(* WSDL.open, loadSync, openSync, _loadAsyncOrSync, processIncludes,        *)
(* _processNextInclude of src/src/parser/wsdl.js, Schema.postProcess of     *)
(* src/src/parser/xsd/schema.js, and createClient of src/src/soap.js with   *)
(* its own cache on top.                                                    *)
(*                                                                          *)
(* Every continuation of the loader is a tail call, so the call stack of a  *)
(* turn is one record, `active'; the turn is over when it is Idle.  A turn  *)
(* starts with a call of the user, with the head of the nextTick queue, or, *)
(* once that queue is empty, with a file that was read.  A call of openSync *)
(* is one turn; it loads only what the user put in its cache.               *)
(*                                                                          *)
(* Each document has a namespace of its own: it stands for its Schema in    *)
(* definitions.schemas.                                                     *)
(***************************************************************************)
EXTENDS Naturals, Sequences, FiniteSets

CONSTANTS
  Calls,      \* calls of createClient, WSDL.open or WSDL.openSync, one user each
  Docs,       \* documents, by location, which is also their key in a cache
  Root,       \* the document that each call asks for
  Imports,    \* the schema.includes of each document, in order
  Direct,     \* the calls that are calls of WSDL.open or WSDL.openSync
  Sync,       \* those of WSDL.openSync
  UserCaches, \* objects that are passed as options.WSDL_CACHE
  ModuleCache,\* the object that _wsdlCache of soap.js is created with
  Given,      \* options.WSDL_CACHE of each call, or None
  Preloaded,  \* documents that the user put in a cache without loading them
  None,       \* undefined
  Plain       \* an object {} where a Schema belongs

Caches == UserCaches \cup {ModuleCache} \cup Calls

ASSUME LoaderAssumption ==
  /\ Root \in [Calls -> Docs]
  /\ Imports \in [Docs -> Seq(Docs)]
  /\ Direct \subseteq Calls
  /\ Sync \subseteq Direct
  /\ Given \in [Calls -> UserCaches \cup {None}]
  /\ Preloaded \in [UserCaches -> SUBSET Docs]
  /\ UserCaches \cap Calls = {}
  /\ ModuleCache \notin UserCaches \cup Calls
  /\ None \notin Caches

VARIABLES
  active,     \* what the running turn does next, or Idle
  queue,      \* the nextTick queue
  reads,      \* files that are being read
  wsdlCache,  \* the object that _wsdlCache of soap.js is now
  cache,      \* the WSDL object in each cache for each location
  stage,      \* how far each WSDL object is
  todo,       \* the includes that are left for _processNextInclude
  waiter,     \* who gets the callback of each WSDL object
  loadedBy,   \* the call on whose behalf a WSDL object loads
  schemas,    \* definitions.schemas of each WSDL object, None if unparsed
  refs,       \* what the references of each Schema were resolved against
  outcome,    \* how far each call is, and how it ended
  result,     \* the WSDL object that each call was given, or None
  crashed,    \* an exception reached the event loop
  defect      \* what is wrong with each document

vars == <<active, queue, reads, wsdlCache, cache, stage, todo, waiter, loadedBy,
          schemas, refs, outcome, result, crashed, defect>>

\* A WSDL object is known by its document and by the call that read it or the
\* cache it was put in; so is the Schema that it parses from its document.
Wsdls == (Calls \cup UserCaches) \X Docs

\* A WSDL object, a call, undefined, {} and a set of documents are told apart.
ASSUME IdentityAssumption ==
  /\ Wsdls \cap (Calls \cup {None, Plain}) = {}
  /\ None # Plain
  /\ \A S \in SUBSET Docs : None # S

Doc(w) == w[2]

Users == Calls \cup Wsdls

\* Mutant: a call without a cache of its own uses that of soap.js.
SharedParserCache(c) == IF Given[c] # None THEN Given[c] ELSE ModuleCache

\* The cache with which the parser works on behalf of c: a fresh object if the
\* options have none.
ParserCache(c) == IF Given[c] # None THEN Given[c] ELSE c

Idle == [op |-> "idle"]

Stages == {"absent", "unloaded", "ticking", "including", "loaded", "failed"}

\* openSync may return undefined, or raise to its caller.
Outcomes == {"none", "pending", "wsdl", "error", "undefined", "raised"}

Defects == {"none", "unreliable", "syntax", "service"}

\* The Schema objects in the definitions of w.
SchemasOf(w) == {schemas[w][d] : d \in Docs} \ {None, Plain}

Parsed(w) == schemas[w][Doc(w)] # None

\* What a cache has for a location is a WSDL object whose load has begun
\* (`isLoaded'), one that the user put there, or undefined.
IsLoaded(w) == w # None /\ stage[w] # "unloaded"
IsUnloaded(w) == w # None /\ stage[w] = "unloaded"

Init ==
  /\ active = Idle
  /\ queue = <<>>
  /\ reads = {}
  /\ wsdlCache = ModuleCache
  /\ cache = [k \in Caches |-> [d \in Docs |->
       IF k \in UserCaches /\ d \in Preloaded[k] THEN <<k, d>> ELSE None]]
  /\ stage = [w \in Wsdls |->
       IF w[1] \in UserCaches /\ Doc(w) \in Preloaded[w[1]] THEN "unloaded"
                                                            ELSE "absent"]
  /\ todo = [w \in Wsdls |-> <<>>]
  /\ waiter = [w \in Wsdls |-> None]
  /\ loadedBy = [w \in Wsdls |-> None]
  /\ schemas = [w \in Wsdls |-> [d \in Docs |-> None]]
  /\ refs = [w \in Wsdls |-> None]
  /\ outcome = [c \in Calls |-> "none"]
  /\ result = [c \in Calls |-> None]
  /\ crashed = FALSE
  /\ defect \in [Docs -> Defects]

---------------------------------------------------------------------------
(* Calls and turns.                                                        *)

MayStart == active = Idle /\ ~crashed

\* Mutant: the tick is queued for the one that waits.
StartLoadOfUser(w, user, c) ==
  /\ stage' = [stage EXCEPT ![w] = "ticking"]
  /\ waiter' = [waiter EXCEPT ![w] = user]
  /\ loadedBy' = [loadedBy EXCEPT ![w] = c]
  /\ queue' = Append(queue, [do |-> "parse", wsdl |-> user])

\* load of a WSDL object: it counts as loaded from now on, and is parsed in a
\* later tick.
StartLoad(w, user, c) ==
  /\ stage' = [stage EXCEPT ![w] = "ticking"]
  /\ waiter' = [waiter EXCEPT ![w] = user]
  /\ loadedBy' = [loadedBy EXCEPT ![w] = c]
  /\ queue' = Append(queue, [do |-> "parse", wsdl |-> w])

\* WSDL.open: an object that is in the cache but not loaded is loaded, every
\* other document is read.
Open(d, user, c) ==
  LET w == cache[ParserCache(c)][d] IN
  \/ /\ IsUnloaded(w)
     /\ StartLoad(w, user, c)
     /\ UNCHANGED reads
  \/ /\ ~IsUnloaded(w)
     /\ reads' = reads \cup {[doc |-> d, user |-> user, call |-> c]}
     /\ UNCHANGED <<stage, waiter, loadedBy, queue>>

\* A call of openSync raises to its caller; what it has loaded so far stays as
\* it is.
Raise(c) ==
  /\ active' = Idle
  /\ outcome' = [outcome EXCEPT ![c] = "raised"]

\* openSync and loadSync: an object that is in the cache but not loaded is parsed
\* at once, everything else raises, an object that is loaded too.
OpenSync(d, user, c) ==
  LET w == cache[ParserCache(c)][d] IN
  \/ /\ IsUnloaded(w)
     /\ stage' = [stage EXCEPT ![w] = "ticking"]
     /\ waiter' = [waiter EXCEPT ![w] = user]
     /\ loadedBy' = [loadedBy EXCEPT ![w] = c]
     /\ active' = [op |-> "parse", wsdl |-> w]
     /\ outcome' = [outcome EXCEPT ![c] = "pending"]
  \/ /\ ~IsUnloaded(w)
     /\ Raise(c)
     /\ UNCHANGED <<stage, waiter, loadedBy>>

\* A user calls WSDL.openSync.
AskSync(c) ==
  /\ MayStart
  /\ c \in Sync
  /\ outcome[c] = "none"
  /\ OpenSync(Root[c], c, c)
  /\ UNCHANGED <<queue, reads, wsdlCache, cache, todo, schemas, refs, result, crashed, defect>>

\* A user calls createClient, which looks into _wsdlCache first, or WSDL.open.
Ask(c) ==
  /\ MayStart
  /\ c \notin Sync
  /\ outcome[c] = "none"
  /\ outcome' = [outcome EXCEPT ![c] = "pending"]
  /\ wsdlCache' = IF c \in Direct \/ Given[c] = None THEN wsdlCache ELSE Given[c]
  /\ LET hit == cache[wsdlCache'][Root[c]] IN
     \/ /\ c \notin Direct /\ hit # None
        /\ queue' = Append(queue, [do |-> "client", wsdl |-> hit, call |-> c])
        /\ UNCHANGED <<reads, stage, waiter, loadedBy>>
     \/ /\ c \in Direct \/ hit = None
        /\ Open(Root[c], c, c)
  /\ UNCHANGED <<active, cache, todo, schemas, refs, result, crashed, defect>>

\* Mutant: an error is dropped.
BackWithoutError(user, wsdl) ==
  active' = IF wsdl = None THEN Idle ELSE [op |-> "back", to |-> user, wsdl |-> wsdl]

\* A callback is called, with an error if there is no WSDL object.
Back(user, wsdl) == active' = [op |-> "back", to |-> user, wsdl |-> wsdl]

\* A call is answered; loadSync passes over an error.
Answer(c, wsdl) ==
  /\ outcome' = [outcome EXCEPT ![c] =
       IF wsdl # None THEN "wsdl" ELSE IF c \in Sync THEN "undefined" ELSE "error"]
  /\ result' = [result EXCEPT ![c] = wsdl]

\* A file was read: a WSDL object is made of it, put in the cache and loaded.
Read(r) ==
  /\ MayStart
  /\ queue = <<>>
  /\ r \in reads
  /\ reads' = reads \ {r}
  /\ LET w == <<r.call, r.doc>> IN
     /\ cache' = [cache EXCEPT ![ParserCache(r.call)][r.doc] = w]
     /\ StartLoad(w, r.user, r.call)
  /\ UNCHANGED <<active, wsdlCache, todo, schemas, refs, outcome, result, crashed, defect>>

\* A file cannot be read.
ReadFails(r) ==
  /\ MayStart
  /\ queue = <<>>
  /\ r \in reads
  /\ defect[r.doc] = "unreliable"
  /\ reads' = reads \ {r}
  /\ Back(r.user, None)
  /\ UNCHANGED <<queue, wsdlCache, cache, stage, todo, waiter, loadedBy, schemas,
                 refs, outcome, result, crashed, defect>>

\* loadUpSchemas: a document is parsed.
LoadUp(w) ==
  /\ \/ /\ defect[Doc(w)] = "syntax"
        /\ stage' = [stage EXCEPT ![w] = "failed"]
        /\ Back(waiter[w], None)
        /\ UNCHANGED <<todo, schemas>>
     \/ /\ defect[Doc(w)] # "syntax"
        /\ stage' = [stage EXCEPT ![w] = "including"]
        /\ todo' = [todo EXCEPT ![w] = Imports[Doc(w)]]
        /\ schemas' = [schemas EXCEPT ![w][Doc(w)] = w]
        /\ active' = [op |-> "include", wsdl |-> w]
  /\ UNCHANGED <<reads, wsdlCache, cache, waiter, loadedBy, refs, outcome, result, crashed,
                 defect>>

\* The next tick parses a document ...
Parse ==
  /\ MayStart
  /\ queue # <<>>
  /\ Head(queue).do = "parse"
  /\ queue' = Tail(queue)
  /\ LoadUp(Head(queue).wsdl)

\* ... or gives a user a client on the WSDL that was in the cache; new Client
\* reads its definitions.
CachedClient ==
  /\ MayStart
  /\ queue # <<>>
  /\ Head(queue).do = "client"
  /\ queue' = Tail(queue)
  /\ LET w == Head(queue).wsdl IN
     \/ /\ Parsed(w)
        /\ Answer(Head(queue).call, w)
        /\ UNCHANGED crashed
     \/ /\ ~Parsed(w)
        /\ crashed' = TRUE
        /\ UNCHANGED <<outcome, result>>
  /\ UNCHANGED <<active, reads, wsdlCache, cache, stage, todo, waiter, loadedBy,
                 schemas, refs, defect>>

---------------------------------------------------------------------------
(* What a turn does.                                                       *)

\* loadSync parses without waiting for a tick.
ParseSync ==
  /\ active.op = "parse"
  /\ LoadUp(active.wsdl)
  /\ UNCHANGED queue

\* Mutant: only the Schema of the document itself is merged.
MergedAlone(w, v) == [schemas EXCEPT ![w][Doc(v)] = IF @ = None THEN v ELSE @]

\* Mutant: an object without definitions is passed over.
MergedIfParsed(w, v) ==
  [schemas EXCEPT ![w] = [e \in Docs |-> IF @[e] = None THEN schemas[v][e] ELSE @[e]]]

\* staticLoad merges the definitions of v into those of w: a Schema is added by
\* reference where there is none.  Of an object without definitions an empty
\* object is left in the place of its Schema.
Merged(w, v) ==
  LET own == schemas[w] IN
  [schemas EXCEPT ![w] =
     IF Parsed(v)
       THEN [e \in Docs |-> IF own[e] \in {None, Plain} /\ schemas[v][e] # None
                              THEN schemas[v][e] ELSE own[e]]
       ELSE [own EXCEPT ![Doc(v)] = IF @ = None THEN Plain ELSE @]]

Merge(w, v) ==
  /\ active' = [op |-> "include", wsdl |-> w]
  /\ schemas' = Merged(w, v)

\* _processNextInclude, with WSDL.load or loadSync: a document in the cache that
\* started to load is taken as it is, another one is opened.
Include ==
  /\ active.op = "include" /\ ~crashed
  /\ LET w == active.wsdl
         c == loadedBy[w]
         d == Head(todo[w])
         v == cache[ParserCache(c)][d]
     IN
     /\ todo[w] # <<>>
     /\ todo' = [todo EXCEPT ![w] = Tail(@)]
     /\ \/ /\ IsLoaded(v)
           /\ Merge(w, v)
           /\ UNCHANGED <<reads, stage, waiter, loadedBy, queue, outcome>>
        \/ /\ ~IsLoaded(v) /\ c \notin Sync
           /\ Open(d, w, c)
           /\ active' = Idle
           /\ UNCHANGED <<schemas, outcome>>
        \/ /\ ~IsLoaded(v) /\ c \in Sync
           /\ OpenSync(d, w, c)
           /\ UNCHANGED <<reads, queue, schemas>>
  /\ UNCHANGED <<wsdlCache, cache, refs, result, crashed, defect>>

\* An exception leaves the load of w: it reaches the caller of openSync, or else
\* the event loop.
LeaveTurn(w) ==
  IF loadedBy[w] \in Sync
    THEN Raise(loadedBy[w]) /\ UNCHANGED crashed
    ELSE crashed' = TRUE /\ UNCHANGED <<active, outcome>>

\* The references of some Schema objects are resolved against the definitions of w.
ResolvedBy(w, some) ==
  [s \in Wsdls |->
     IF s \in some THEN {d \in Docs : schemas[w][d] \notin {None, Plain}} ELSE refs[s]]

\* No include is left: the schemas in the definitions are post-processed, each
\* only the first time that somebody does it, then the services.  What is no Schema
\* raises, after those that come before it: which ones do is left open.
Finish ==
  /\ active.op = "include" /\ ~crashed
  /\ todo[active.wsdl] = <<>>
  /\ LET w == active.wsdl
         fresh == {s \in SchemasOf(w) : refs[s] = None}
     IN
     IF \E d \in Docs : schemas[w][d] = Plain
       THEN /\ LeaveTurn(w)
            /\ \E before \in SUBSET fresh : refs' = ResolvedBy(w, before)
            /\ UNCHANGED stage
       ELSE /\ refs' = ResolvedBy(w, fresh)
            /\ IF \E s \in fresh : defect[Doc(s)] = "service"
                 THEN /\ stage' = [stage EXCEPT ![w] = "failed"]
                      /\ Back(waiter[w], None)
                 ELSE /\ stage' = [stage EXCEPT ![w] = "loaded"]
                      /\ Back(waiter[w], w)
            /\ UNCHANGED <<crashed, outcome>>
  /\ UNCHANGED <<queue, reads, wsdlCache, cache, todo, waiter, loadedBy, schemas,
                 result, defect>>

\* The callback of a load that another WSDL object waits for; an error is passed
\* on, but loadSync gives undefined instead, whose definitions raise.
BackToWsdl ==
  /\ active.op = "back" /\ ~crashed
  /\ active.to \in Wsdls
  /\ \/ /\ active.wsdl = None /\ loadedBy[active.to] \notin Sync
        /\ stage' = [stage EXCEPT ![active.to] = "failed"]
        /\ Back(waiter[active.to], None)
        /\ UNCHANGED <<schemas, outcome>>
     \/ /\ active.wsdl = None /\ loadedBy[active.to] \in Sync
        /\ Raise(loadedBy[active.to])
        /\ UNCHANGED <<stage, schemas>>
     \/ /\ active.wsdl # None
        /\ Merge(active.to, active.wsdl)
        /\ UNCHANGED <<stage, outcome>>
  /\ UNCHANGED <<queue, reads, wsdlCache, cache, todo, waiter, loadedBy, refs,
                 result, crashed, defect>>

\* The callback of a call; createClient puts the WSDL into what _wsdlCache is now.
BackToCall ==
  /\ active.op = "back" /\ ~crashed
  /\ active.to \in Calls
  /\ active' = Idle
  /\ Answer(active.to, active.wsdl)
  /\ cache' = IF active.wsdl = None \/ active.to \in Direct
                THEN cache
                ELSE [cache EXCEPT ![wsdlCache][Root[active.to]] = active.wsdl]
  /\ UNCHANGED <<queue, reads, wsdlCache, stage, todo, waiter, loadedBy, schemas,
                 refs, crashed, defect>>

Turn == ParseSync \/ Include \/ Finish \/ BackToWsdl \/ BackToCall

Tick == Parse \/ CachedClient

ReadEnds(r) == Read(r) \/ ReadFails(r)

Next ==
  \/ \E c \in Calls : Ask(c) \/ AskSync(c)
  \/ \E r \in reads : ReadEnds(r)
  \/ Tick
  \/ Turn

Spec == Init /\ [][Next]_vars

\* A turn runs to its end, the nextTick queue is served, reads end.
FairSpec ==
  /\ Spec
  /\ WF_vars(Turn)
  /\ WF_vars(Tick)
  /\ WF_vars(\E r \in reads : ReadEnds(r))

---------------------------------------------------------------------------
(* Properties.                                                             *)

Tasks ==
  [do : {"parse"}, wsdl : Wsdls] \cup [do : {"client"}, wsdl : Wsdls, call : Calls]

Activities ==
  {Idle} \cup [op : {"parse", "include"}, wsdl : Wsdls]
         \cup [op : {"back"}, to : Users, wsdl : Wsdls \cup {None}]

\* Type invariant.
TypeOK ==
  /\ active \in Activities
  /\ queue \in Seq(Tasks)
  /\ reads \subseteq [doc : Docs, user : Users, call : Calls]
  /\ wsdlCache \in Caches
  /\ cache \in [Caches -> [Docs -> Wsdls \cup {None}]]
  /\ stage \in [Wsdls -> Stages]
  /\ todo \in [Wsdls -> Seq(Docs)]
  /\ waiter \in [Wsdls -> Users \cup {None}]
  /\ loadedBy \in [Wsdls -> Calls \cup {None}]
  /\ schemas \in [Wsdls -> [Docs -> Wsdls \cup {None, Plain}]]
  /\ refs \in [Wsdls -> (SUBSET Docs) \cup {None}]
  /\ outcome \in [Calls -> Outcomes]
  /\ result \in [Calls -> Wsdls \cup {None}]
  /\ crashed \in BOOLEAN
  /\ defect \in [Docs -> Defects]

Imported == [d \in Docs |-> {Imports[d][i] : i \in 1..Len(Imports[d])}]

Found(c) ==
  IF result[c] = None THEN {} ELSE {d \in Docs : schemas[result[c]][d] # None}

Promise == INSTANCE LoadContract WITH
  found <- [c \in Calls |-> Found(c)],
  defective <- {d \in Docs : defect[d] # "none"}

\* Every call is answered once, with everything that its document imports,
\* whatever the shape of the imports and the order in which files are read.
KeepsPromise == Promise!Contract

\* A document imports itself, perhaps through others.
OnCycle(d) == \E e \in Imported[d] : d \in Promise!Reach(e)

\* The WSDL objects that the parser made for w's documents are post-processed.
ResolvedIn(w, d) ==
  LET s == schemas[w][d] IN
  s \notin {None, Plain} /\ refs[s] # None /\ Imported[d] \subseteq refs[s]

\* In a WSDL that a user was given, every reference into an imported document
\* is resolved, except from documents that import themselves: nobody
\* post-processed a Schema, for ever, before its own imports were merged.
ReferencesResolved ==
  \A c \in Calls : result[c] # None =>
    \A d \in Promise!Reach(Root[c]) : ~OnCycle(d) => ResolvedIn(result[c], d)

\* The continuations that work for call c: in the running turn, in the queue
\* and waiting for a file.
InTurn(c) ==
  \/ active.op \in {"parse", "include"} /\ loadedBy[active.wsdl] = c
  \/ active.op = "back" /\ active.to = c
  \/ active.op = "back" /\ active.to \in Wsdls /\ loadedBy[active.to] = c

CallOf(task) == IF task.do = "client" THEN task.call ELSE loadedBy[task.wsdl]

Queued(c) == {i \in 1..Len(queue) : CallOf(queue[i]) = c}

Reading(c) == {r \in reads : r.call = c}

Continuations(c) ==
  (IF InTurn(c) THEN 1 ELSE 0) + Cardinality(Queued(c)) + Cardinality(Reading(c))

\* A pending call has one continuation, and others have none: no callback is
\* lost or called twice, whichever caches the calls share and whatever fails,
\* as long as no exception reached the event loop.
OneContinuation ==
  ~crashed =>
    \A c \in Calls : Continuations(c) = IF outcome[c] = "pending" THEN 1 ELSE 0

\* A WSDL object whose load ended has a Schema for each document it imports,
\* also if it took some of them from a cache while they were loading.
LoadedKnowsItsImports ==
  \A w \in Wsdls : stage[w] = "loaded" =>
    \A d \in Imported[Doc(w)] : schemas[w][d] \notin {None, Plain}

\* What a user is given as a WSDL is loaded, at that moment.
GivenIsLoaded ==
  [][\A c \in Calls :
       result'[c] # result[c] => stage[result'[c]] = "loaded"]_vars
=============================================================================
