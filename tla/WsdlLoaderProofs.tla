-------------------------- MODULE WsdlLoaderProofs --------------------------
(***************************************************************************)
(* Proofs about WsdlLoader.                                                 *)
(*                                                                          *)
(* The first half is about any calls, documents, imports and caches, shared *)
(* in any way.  Its invariant IInv has one part per idea: who waits for     *)
(* whom (Chains), what reads, the running turn, the queue and the caches    *)
(* refer to (ReadsOK, TurnOK, QueueOK, CachesOK), that nobody waits for two *)
(* loads (OneLoad), that a call has one continuation (Sole), and which      *)
(* imports an object still lacks (Lacks).                                   *)
(*                                                                          *)
(* The second half, from Separate on, is about calls that do not share a    *)
(* cache: they are given all that their document reaches, whatever the      *)
(* graph of imports, with resolved references.                              *)
(***************************************************************************)
EXTENDS WsdlLoader, FiniteSetTheorems, SequenceTheorems, TLAPS

Live(w) == stage[w] \in {"ticking", "including"}

\* Once the load of a WSDL object has begun, its callback is that of the call it
\* loads for, which asked for this document, or of an object of the same call.
Chain(w) ==
  \/ waiter[w] \in Calls /\ waiter[w] = loadedBy[w] /\ Doc(w) = Root[waiter[w]]
  \/ waiter[w] \in Wsdls /\ loadedBy[waiter[w]] = loadedBy[w]

Chains ==
  \A w \in Wsdls :
    /\ loadedBy[w] = None <=> stage[w] \in {"absent", "unloaded"}
    /\ loadedBy[w] # None => Chain(w)
    /\ Live(w) /\ waiter[w] \in Wsdls => stage[waiter[w]] = "including"

\* A file is read for the first object that a call makes of its document, and
\* for that call or for an object of it that has its imports loaded.
ReadOK(r) ==
  /\ stage[<<r.call, r.doc>>] = "absent"
  /\ \/ r.user = r.call /\ r.doc = Root[r.call]
     \/ /\ r.user \in Wsdls
        /\ loadedBy[r.user] = r.call
        /\ stage[r.user] = "including"

ReadsOK == \A r \in reads : ReadOK(r)

\* The running turn and the tasks of the nextTick queue find the objects they
\* work on in the stage they expect.
TurnOK ==
  /\ active.op = "parse" => stage[active.wsdl] = "ticking" /\ ~crashed
  /\ active.op = "include" => stage[active.wsdl] = "including"
  /\ active.op = "back" /\ active.to \in Wsdls => stage[active.to] = "including"
  /\ active.op = "back" /\ active.wsdl # None =>
       stage[active.wsdl] = "loaded" /\ waiter[active.wsdl] = active.to

QueueOK ==
  \A i \in 1..Len(queue) :
    queue[i].do = "parse" => stage[queue[i].wsdl] = "ticking"

\* What a cache has for a document is an object of that document; the objects
\* that a call has made are in its cache, or other ones that are as good.
CachesOK ==
  /\ \A k \in Caches, d \in Docs : cache[k][d] # None => Doc(cache[k][d]) = d
  /\ \A c \in Calls, d \in Docs :
       stage[<<c, d>>] # "absent" => IsLoaded(cache[ParserCache(c)][d])
  /\ \A c \in Calls, d \in Docs : outcome[c] = "none" => stage[<<c, d>>] = "absent"
  /\ \A c \in Calls : result[c] # None => outcome[c] = "wsdl"

\* An object waits for one thing: a file, another object, or its own turn.
OneLoad ==
  /\ \A v, w \in Wsdls :
       Live(v) /\ Live(w) /\ waiter[v] = waiter[w] /\ waiter[v] \in Wsdls => v = w
  /\ \A r \in reads, v \in Wsdls : Live(v) /\ r.user \in Wsdls => waiter[v] # r.user
  /\ active.op = "include" =>
       /\ \A v \in Wsdls : Live(v) => waiter[v] # active.wsdl
       /\ \A r \in reads : r.user # active.wsdl
  /\ active.op = "back" /\ active.to \in Wsdls =>
       /\ \A v \in Wsdls : Live(v) => waiter[v] # active.to
       /\ \A r \in reads : r.user # active.to

\* The continuations of a call without counting them: none, or one of a kind and
\* none of the others.
NoneOf(c) == ~InTurn(c) /\ Queued(c) = {} /\ Reading(c) = {}

OneOf(c) ==
  \/ InTurn(c) /\ Queued(c) = {} /\ Reading(c) = {}
  \/ ~InTurn(c) /\ (\E i \in 1..Len(queue) : Queued(c) = {i}) /\ Reading(c) = {}
  \/ ~InTurn(c) /\ Queued(c) = {} /\ \E r \in reads : Reading(c) = {r}

Sole == ~crashed => \A c \in Calls : IF outcome[c] = "pending" THEN OneOf(c) ELSE NoneOf(c)

\* The imports of w that are neither in its definitions nor left to do.
Todo(w) == {todo[w][i] : i \in 1..Len(todo[w])}

Missing(w) == {d \in Imported[Doc(w)] : schemas[w][d] = None /\ d \notin Todo(w)}

\* An object lacks at most the import that it waits for.
Lacks ==
  /\ active.op = "include" => Missing(active.wsdl) = {}
  /\ \A r \in reads : r.user \in Wsdls => Missing(r.user) \subseteq {r.doc}
  /\ \A v \in Wsdls : Live(v) /\ waiter[v] \in Wsdls => Missing(waiter[v]) \subseteq {Doc(v)}
  /\ active.op = "back" /\ active.to \in Wsdls /\ active.wsdl # None =>
       Missing(active.to) \subseteq {Doc(active.wsdl)}
  /\ LoadedKnowsItsImports

Order == Chains /\ ReadsOK /\ TurnOK /\ QueueOK /\ CachesOK /\ OneLoad

\* The inductive invariant.
IInv == TypeOK /\ Order /\ Sole /\ Lacks

---------------------------------------------------------------------------
(* What the types say.                                                     *)

\* The fields of the running turn.
LEMMA ActiveLemma ==
  ASSUME TypeOK
  PROVE  /\ active.op \in {"idle", "parse", "include", "back"}
         /\ active = Idle <=> active.op = "idle"
         /\ active.op \in {"parse", "include"} => active.wsdl \in Wsdls
         /\ active.op = "back" => active.to \in Users /\ active.wsdl \in Wsdls \cup {None}
  BY DEF TypeOK, Activities, Idle

\* The fields of a task.
LEMMA TaskLemma ==
  ASSUME NEW t \in Tasks
  PROVE  /\ t.do \in {"parse", "client"}
         /\ t.wsdl \in Wsdls
         /\ t.do = "client" => t.call \in Calls
  BY DEF Tasks

\* Undefined is no WSDL object, no call and no Schema; an object is no call.
LEMMA Distinct ==
  /\ None \notin Wsdls /\ None \notin Calls
  /\ Plain \notin Wsdls /\ Plain # None
  /\ \A w \in Wsdls : w \notin Calls
  BY LoaderAssumption, IdentityAssumption DEF Caches

\* The object that call c makes of document d.
LEMMA PairLemma ==
  ASSUME NEW c \in Calls \cup UserCaches, NEW d \in Docs
  PROVE  <<c, d>> \in Wsdls /\ Doc(<<c, d>>) = d
  BY DEF Wsdls, Doc

\* The document of an object, and what it imports.
LEMMA DocLemma ==
  ASSUME NEW w \in Wsdls
  PROVE  Doc(w) \in Docs /\ Imported[Doc(w)] \subseteq Docs
  BY LoaderAssumption DEF Wsdls, Doc, Imported

\* The parser works with a cache.
LEMMA ParserCacheLemma ==
  ASSUME NEW c \in Calls
  PROVE  ParserCache(c) \in Caches
  BY LoaderAssumption DEF ParserCache, Caches

---------------------------------------------------------------------------
(* The beginning of a load.                                                *)

\* What load and loadSync of an object have in common.
Begins(w, user, c) ==
  /\ stage' = [stage EXCEPT ![w] = "ticking"]
  /\ waiter' = [waiter EXCEPT ![w] = user]
  /\ loadedBy' = [loadedBy EXCEPT ![w] = c]

\* What a load that begins changes.
LEMMA BeginFacts ==
  ASSUME TypeOK, NEW w \in Wsdls, NEW user \in Users, NEW c \in Calls, Begins(w, user, c)
  PROVE  /\ stage' \in [Wsdls -> Stages]
         /\ waiter' \in [Wsdls -> Users \cup {None}]
         /\ loadedBy' \in [Wsdls -> Calls \cup {None}]
         /\ stage'[w] = "ticking" /\ waiter'[w] = user /\ loadedBy'[w] = c
         /\ \A v \in Wsdls \ {w} :
              stage'[v] = stage[v] /\ waiter'[v] = waiter[v] /\ loadedBy'[v] = loadedBy[v]
  BY DEF TypeOK, Begins, Stages

\* For whom a load can begin: for the call, which asked for the document, or for
\* an object that loads for the same call.
Asks(user, d, c) ==
  \/ user = c /\ d = Root[c]
  \/ user \in Wsdls /\ loadedBy[user] = c /\ stage[user] = "including"

\* A load that begins leaves the others as they are.
LEMMA BeginChains ==
  ASSUME TypeOK, Chains, NEW w \in Wsdls, NEW user \in Users, NEW c \in Calls,
         loadedBy[w] = None, Asks(user, Doc(w), c), Begins(w, user, c)
  PROVE  Chains'
  <1>1. \A v \in Wsdls : loadedBy[v] # None => loadedBy'[v] = loadedBy[v]
    BY BeginFacts
  <1>2. \A v \in Wsdls : stage[v] = "including" => stage'[v] = "including" /\ v # w
    BY BeginFacts DEF Chains
  <1>3. user \in Wsdls => loadedBy'[user] = c
    <2>1. user \in Wsdls => loadedBy[user] = c
      BY Distinct DEF Asks
    <2>2. QED
      BY <1>1, <2>1, Distinct
  <1>4. Chain(w)' /\ (waiter'[w] \in Wsdls => stage'[waiter'[w]] = "including")
    BY <1>2, <1>3, BeginFacts, Distinct DEF Asks, Chain
  <1>5. ASSUME NEW v \in Wsdls \ {w}
        PROVE  /\ loadedBy'[v] = None <=> stage'[v] \in {"absent", "unloaded"}
               /\ loadedBy'[v] # None => Chain(v)'
               /\ Live(v)' /\ waiter'[v] \in Wsdls => stage'[waiter'[v]] = "including"
    <2>1. waiter'[v] = waiter[v] /\ stage'[v] = stage[v] /\ loadedBy'[v] = loadedBy[v]
      BY BeginFacts
    <2>2. Live(v)' = Live(v)
      BY <2>1 DEF Live
    <2>3. loadedBy[v] # None => Chain(v)
      BY DEF Chains
    <2>4. Chain(v) /\ loadedBy[v] # None => Chain(v)'
      BY <1>1, <2>1 DEF Chain
    <2>5. QED
      BY <1>2, <2>1, <2>2, <2>3, <2>4 DEF Chains
  <1>6. loadedBy'[w] # None /\ stage'[w] = "ticking"
    BY BeginFacts, Distinct
  <1>7. QED
    BY <1>4, <1>5, <1>6 DEF Chains

\* Files stay awaited by those who await them.
LEMMA BeginReads ==
  ASSUME TypeOK, Chains, ReadsOK, NEW w \in Wsdls, NEW user \in Users, NEW c \in Calls,
         loadedBy[w] = None, Begins(w, user, c), NEW r \in reads, <<r.call, r.doc>> # w
  PROVE  ReadOK(r)'
  <1>1. r.call \in Calls /\ r.doc \in Docs
    BY DEF TypeOK
  <1>2. stage'[<<r.call, r.doc>>] = "absent"
    BY <1>1, BeginFacts, PairLemma DEF ReadsOK, ReadOK
  <1>3. r.user \in Wsdls /\ loadedBy[r.user] = r.call => r.user # w
    BY <1>1, Distinct
  <1>4. QED
    BY <1>2, <1>3, BeginFacts DEF ReadsOK, ReadOK

\* Nobody waits for a load of this user, or the user is a call.
Free(user, files) ==
  user \in Wsdls => /\ \A v \in Wsdls : Live(v) => waiter[v] # user
                    /\ \A r \in files : r.user # user

\* Who waited for nothing waits for the load that begins.
LEMMA BeginOneLoad ==
  ASSUME TypeOK, OneLoad, NEW w \in Wsdls, NEW user \in Users, NEW c \in Calls,
         Begins(w, user, c), reads' \subseteq reads, Free(user, reads'),
         active'.op \notin {"include", "back"}
  PROVE  OneLoad'
  <1>1. ASSUME NEW v \in Wsdls \ {w} PROVE Live(v)' = Live(v) /\ waiter'[v] = waiter[v]
    BY BeginFacts DEF Live
  <1>2. waiter'[w] = user
    BY BeginFacts
  <1>3. ASSUME NEW v \in Wsdls, NEW x \in Wsdls, Live(v)', Live(x)',
               waiter'[v] = waiter'[x], waiter'[v] \in Wsdls
        PROVE  v = x
    <2>1. CASE v # w /\ x # w
      BY <1>1, <1>3, <2>1 DEF OneLoad
    <2>2. CASE v = w \/ x = w
      BY <1>1, <1>2, <1>3, <2>2 DEF Free
    <2>3. QED
      BY <2>1, <2>2
  <1>4. ASSUME NEW r \in reads', NEW v \in Wsdls, Live(v)', r.user \in Wsdls
        PROVE  waiter'[v] # r.user
    <2>1. CASE v # w
      BY <1>1, <1>4, <2>1 DEF OneLoad
    <2>2. CASE v = w
      BY <1>2, <1>4, <2>2 DEF Free
    <2>3. QED
      BY <2>1, <2>2
  <1>5. QED
    BY <1>3, <1>4 DEF OneLoad

\* Only the user of the load may lack a document, the one that is loaded.
LEMMA BeginLacks ==
  ASSUME TypeOK, Chains, Lacks, NEW w \in Wsdls, NEW user \in Users, NEW c \in Calls,
         loadedBy[w] = None, Begins(w, user, c), reads' \subseteq reads, Free(user, reads'),
         active'.op \notin {"include", "back"}, schemas' = schemas,
         \A x \in Wsdls \ {user} : todo'[x] = todo[x],
         user \in Wsdls => Missing(user)' \subseteq {Doc(w)}
  PROVE  Lacks'
  <1>1. \A x \in Wsdls \ {user} : Missing(x)' = Missing(x)
    BY DEF Missing, Todo
  <1>2. ASSUME NEW r \in reads', r.user \in Wsdls PROVE Missing(r.user)' \subseteq {r.doc}
    <2>1. r.user # user
      BY <1>2, Distinct DEF Free
    <2>2. QED
      BY <1>1, <1>2, <2>1 DEF Lacks
  <1>3. ASSUME NEW v \in Wsdls, NEW x \in Wsdls, Live(v)', waiter'[v] = x
        PROVE  Missing(x)' \subseteq {Doc(v)}
    <2>1. CASE v = w
      <3>1. x = user
        BY <1>3, <2>1, BeginFacts
      <3>2. QED
        BY <2>1, <3>1
    <2>2. CASE v # w
      <3>1. waiter[v] = x /\ Live(v)
        BY <1>3, <2>2, BeginFacts DEF Live
      <3>2. x # user
        BY <1>3, <3>1 DEF Free
      <3>3. Missing(x) \subseteq {Doc(v)}
        BY <1>3, <3>1 DEF Lacks
      <3>4. QED
        BY <1>1, <3>2, <3>3
    <2>3. QED
      BY <2>1, <2>2
  <1>4. LoadedKnowsItsImports'
    <2>1. \A x \in Wsdls : stage'[x] = "loaded" => stage[x] = "loaded"
      BY BeginFacts
    <2>2. QED
      BY <2>1 DEF Lacks, LoadedKnowsItsImports
  <1>5. QED
    BY <1>2, <1>3, <1>4 DEF Lacks

---------------------------------------------------------------------------
(* Continuations.                                                          *)

\* The tasks of the queue work for whom they worked, though loads begin.
SameCalls ==
  \A t \in Tasks : (\E i \in 1..Len(queue) : queue[i] = t) => CallOf(t)' = CallOf(t)

\* What the queue holds for a call when nothing happens to the queue, ...
LEMMA QueueSame ==
  ASSUME queue \in Seq(Tasks), SameCalls, queue' = queue, NEW d \in Calls
  PROVE  Queued(d)' = Queued(d)
  <1>1. \A i \in 1..Len(queue) : \E t \in Tasks : t = queue[i] /\ CallOf(t)' = CallOf(t)
    BY DEF SameCalls
  <1>2. QED
    BY <1>1 DEF Queued, CallOf

\* ... when a task is appended, ...
LEMMA QueueAppend ==
  ASSUME queue \in Seq(Tasks), SameCalls, NEW t \in Tasks, queue' = Append(queue, t),
         NEW d \in Calls
  PROVE  /\ Len(queue) + 1 \in 1..Len(queue')
         /\ CallOf(t)' = d => Queued(d)' = Queued(d) \cup {Len(queue) + 1}
         /\ CallOf(t)' # d => Queued(d)' = Queued(d)
  <1>1. \A i \in 1..Len(queue) : \E u \in Tasks : u = queue[i] /\ CallOf(u)' = CallOf(u)
    BY DEF SameCalls
  <1>2. /\ Len(queue') = Len(queue) + 1 /\ queue'[Len(queue) + 1] = t
        /\ \A i \in 1..Len(queue) : queue'[i] = queue[i]
        /\ Len(queue) \in Nat
    OBVIOUS
  <1>3. \A i \in 1..Len(queue') : i \in 1..Len(queue) \/ i = Len(queue) + 1
    BY <1>2
  <1>4. QED
    BY <1>1, <1>2, <1>3 DEF Queued, CallOf

\* ... and when its head is taken.
LEMMA QueueTail ==
  ASSUME queue \in Seq(Tasks), queue # <<>>, queue' = Tail(queue), loadedBy' = loadedBy,
         NEW d \in Calls
  PROVE  /\ Queued(d) = {} => Queued(d)' = {}
         /\ CallOf(Head(queue)) # d =>
              \A i \in Queued(d) : Queued(d) = {i} =>
                i - 1 \in 1..Len(queue') /\ Queued(d)' = {i - 1}
         /\ CallOf(Head(queue)) = d =>
              /\ 1 \in Queued(d)
              /\ \A i \in 1..Len(queue) : Queued(d) = {i} => Queued(d)' = {}
  <1>1. /\ Len(queue) \in Nat \ {0} /\ Len(queue') = Len(queue) - 1
        /\ Head(queue) = queue[1]
        /\ \A i \in 1..Len(queue') : queue'[i] = queue[i + 1]
    OBVIOUS
  <1>2. \A i \in 1..Len(queue') : i \in Queued(d)' <=> i + 1 \in Queued(d)
    BY <1>1 DEF Queued, CallOf
  <1>3. Queued(d)' \subseteq 1..Len(queue') /\ Queued(d) \subseteq 1..Len(queue)
    BY DEF Queued
  <1>4. 1 \in Queued(d) <=> CallOf(Head(queue)) = d
    BY <1>1 DEF Queued
  <1>5. Queued(d) = {} => Queued(d)' = {}
    BY <1>2, <1>3
  <1>6. ASSUME CallOf(Head(queue)) # d, NEW i \in Queued(d), Queued(d) = {i}
        PROVE  i - 1 \in 1..Len(queue') /\ Queued(d)' = {i - 1}
    <2>1. i \in 2..Len(queue)
      BY <1>1, <1>3, <1>4, <1>6
    <2>2. i - 1 \in 1..Len(queue') /\ (i - 1) + 1 = i
      BY <1>1, <2>1
    <2>3. \A j \in 1..Len(queue') : j + 1 = i => j = i - 1
      BY <1>1, <2>1
    <2>4. QED
      BY <1>2, <1>3, <1>6, <2>2, <2>3
  <1>7. ASSUME CallOf(Head(queue)) = d, NEW i \in 1..Len(queue), Queued(d) = {i}
        PROVE  Queued(d)' = {}
    <2>1. i = 1
      BY <1>4, <1>7
    <2>2. \A j \in 1..Len(queue') : j + 1 # 1
      BY <1>1
    <2>3. QED
      BY <1>2, <1>3, <1>7, <2>1, <2>2
  <1>8. QED
    BY <1>4, <1>5, <1>6, <1>7

\* The continuations of a call that a step leaves alone.
Kept(d) ==
  /\ outcome'[d] = outcome[d]
  /\ (InTurn(d)' <=> InTurn(d))
  /\ Reading(d)' = Reading(d)
  /\ Queued(d) = {} => Queued(d)' = {}
  /\ \A i \in 1..Len(queue) : Queued(d) = {i} => \E j \in 1..Len(queue') : Queued(d)' = {j}

\* A step that works for one call has to account for that call only.
LEMMA SoleFrame ==
  ASSUME Sole, ~crashed, NEW c \in Calls, \A d \in Calls \ {c} : Kept(d),
         IF outcome'[c] = "pending" THEN OneOf(c)' ELSE NoneOf(c)'
  PROVE  Sole'
  <1>1. ASSUME NEW d \in Calls \ {c}
        PROVE  IF outcome'[d] = "pending" THEN OneOf(d)' ELSE NoneOf(d)'
    <2>1. Kept(d)
      OBVIOUS
    <2>2. CASE outcome[d] = "pending"
      <3>1. OneOf(d)
        BY <2>2 DEF Sole
      <3>2. \A r \in reads : Reading(d) = {r} => r \in reads'
        BY <2>1 DEF Kept, Reading
      <3>3. QED
        BY <2>1, <2>2, <3>1, <3>2 DEF Kept, OneOf
    <2>3. CASE outcome[d] # "pending"
      <3>1. NoneOf(d)
        BY <2>3 DEF Sole
      <3>2. QED
        BY <2>1, <2>3, <3>1 DEF Kept, NoneOf
    <2>4. QED
      BY <2>2, <2>3
  <1>2. QED
    BY <1>1 DEF Sole

---------------------------------------------------------------------------
(* The beginning of a load: the rest.                                      *)

\* A load that begins takes over no task of another call.
LEMMA BeginSameCalls ==
  ASSUME TypeOK, Chains, QueueOK, NEW w \in Wsdls, NEW user \in Users, NEW c \in Calls,
         loadedBy[w] = None, Begins(w, user, c)
  PROVE  SameCalls
  <1>1. ASSUME NEW t \in Tasks, NEW i \in 1..Len(queue), queue[i] = t
        PROVE  CallOf(t)' = CallOf(t)
    <2>1. CASE t.do = "client"
      BY <2>1 DEF CallOf
    <2>2. CASE t.do = "parse"
      <3>1. stage[t.wsdl] = "ticking" /\ t.wsdl \in Wsdls
        BY <1>1, <2>2, TaskLemma DEF QueueOK
      <3>2. t.wsdl # w
        BY <3>1 DEF Chains
      <3>3. QED
        BY <2>2, <3>1, <3>2, BeginFacts DEF CallOf
    <2>3. QED
      BY <2>1, <2>2, TaskLemma
  <1>2. QED
    BY <1>1 DEF SameCalls

\* The tasks of the queue find their objects as they were, and the new one its
\* object.
LEMMA BeginQueue ==
  ASSUME TypeOK, QueueOK, NEW w \in Wsdls, NEW user \in Users, NEW c \in Calls,
         Begins(w, user, c),
         queue' = queue \/ queue' = Append(queue, [do |-> "parse", wsdl |-> w])
  PROVE  QueueOK' /\ queue' \in Seq(Tasks)
  <1> DEFINE t == [do |-> "parse", wsdl |-> w]
  <1>1. t \in Tasks /\ t.wsdl = w
    BY DEF Tasks
  <1>2. \A x \in Wsdls : stage[x] = "ticking" => stage'[x] = "ticking"
    BY BeginFacts
  <1>3. queue \in Seq(Tasks) /\ \A i \in 1..Len(queue) : queue[i].wsdl \in Wsdls
    BY TaskLemma DEF TypeOK
  <1>4. CASE queue' = queue
    BY <1>2, <1>3, <1>4 DEF QueueOK
  <1>5. CASE queue' = Append(queue, t)
    <2> HIDE DEF t
    <2>1. /\ queue' \in Seq(Tasks)
          /\ \A i \in 1..Len(queue') :
               (i \in 1..Len(queue) /\ queue'[i] = queue[i]) \/ queue'[i] = t
      BY <1>1, <1>3, <1>5
    <2>2. stage'[t.wsdl] = "ticking"
      BY <1>1, BeginFacts
    <2>3. QED
      BY <1>2, <1>3, <2>1, <2>2 DEF QueueOK
  <1>6. QED
    BY <1>4, <1>5

\* What was loaded in a cache stays so when an object of a cache begins to load.
LEMMA BeginCaches ==
  ASSUME TypeOK, CachesOK, NEW w \in Wsdls, NEW user \in Users, NEW c \in Calls,
         Begins(w, user, c), stage[w] = "unloaded", cache' = cache, result' = result,
         \A e \in Calls : outcome'[e] = outcome[e] \/ (outcome'[e] # "none" /\ result[e] = None)
  PROVE  CachesOK'
  <1>1. \A e \in Calls, d \in Docs : <<e, d>> \in Wsdls
    BY PairLemma
  <1>2. \A e \in Calls, d \in Docs : stage'[<<e, d>>] # "absent" => stage[<<e, d>>] # "absent"
    BY <1>1, BeginFacts
  <1>3. \A e \in Calls, d \in Docs :
          stage[<<e, d>>] # "absent" =>
            /\ cache[ParserCache(e)][d] \in Wsdls
            /\ stage'[cache[ParserCache(e)][d]] # "unloaded"
    <2>1. \A e \in Calls, d \in Docs :
            stage[<<e, d>>] # "absent" => IsLoaded(cache[ParserCache(e)][d])
      BY DEF CachesOK
    <2>2. \A e \in Calls, d \in Docs : cache[ParserCache(e)][d] \in Wsdls \cup {None}
      BY ParserCacheLemma DEF TypeOK
    <2>3. QED
      BY <2>1, <2>2, BeginFacts DEF IsLoaded
  <1>4. \A e \in Calls, d \in Docs : outcome'[e] = "none" => stage'[<<e, d>>] = "absent"
    BY <1>1, <1>2 DEF CachesOK
  <1>5. \A e \in Calls : result'[e] # None => outcome'[e] = "wsdl"
    BY DEF CachesOK
  <1>6. \A e \in Calls, d \in Docs :
          stage'[<<e, d>>] # "absent" => IsLoaded(cache[ParserCache(e)][d])'
    BY <1>2, <1>3, Distinct DEF IsLoaded
  <1>7. QED
    BY <1>4, <1>5, <1>6 DEF CachesOK, ParserCache

\* All that Order says survives the beginning of a load.
LEMMA BeginOrder ==
  ASSUME TypeOK, Order, NEW w \in Wsdls, NEW user \in Users, NEW c \in Calls,
         Begins(w, user, c), loadedBy[w] = None, Asks(user, Doc(w), c),
         reads' \subseteq reads, \A r \in reads' : <<r.call, r.doc>> # w,
         Free(user, reads'), active'.op \notin {"include", "back"},
         active'.op = "parse" => active'.wsdl = w /\ ~crashed',
         queue' = queue \/ queue' = Append(queue, [do |-> "parse", wsdl |-> w]),
         CachesOK'
  PROVE  Order'
  <1> USE DEF Order
  <1>1. Chains'
    BY BeginChains
  <1>2. ReadsOK'
    BY BeginReads DEF ReadsOK
  <1>3. TurnOK'
    BY BeginFacts DEF TurnOK
  <1>4. QueueOK'
    BY BeginQueue
  <1>5. OneLoad'
    BY BeginOneLoad
  <1>6. QED
    BY <1>1, <1>2, <1>3, <1>4, <1>5

\* A file that is asked for leaves the loads as they are.
LEMMA FileOrder ==
  ASSUME TypeOK, Order, NEW d \in Docs, NEW user \in Users, NEW c \in Calls,
         Asks(user, d, c), stage[<<c, d>>] = "absent", Free(user, {}),
         reads' = reads \cup {[doc |-> d, user |-> user, call |-> c]},
         UNCHANGED <<stage, waiter, loadedBy, queue>>,
         active'.op \notin {"include", "back", "parse"}, CachesOK'
  PROVE  Order'
  <1> USE DEF Order
  <1> DEFINE file == [doc |-> d, user |-> user, call |-> c]
  <1>1. Chains'
    BY DEF Chains, Chain, Live
  <1>2. ReadOK(file)'
    BY DEF Asks, ReadOK
  <1>3. ReadsOK'
    BY <1>2 DEF ReadsOK, ReadOK
  <1>4. TurnOK' /\ QueueOK'
    BY DEF TurnOK, QueueOK
  <1>5. OneLoad'
    <2>1. ASSUME NEW r \in reads', NEW v \in Wsdls, Live(v)', r.user \in Wsdls
          PROVE  waiter'[v] # r.user
      BY <2>1 DEF OneLoad, Free, Live
    <2>2. QED
      BY <2>1 DEF OneLoad, Live
  <1>6. QED
    BY <1>1, <1>3, <1>4, <1>5

\* Who asked for a file lacks at most its document.
LEMMA FileLacks ==
  ASSUME Lacks, NEW d \in Docs, NEW user \in Users, NEW c \in Calls, Free(user, reads),
         reads' = reads \cup {[doc |-> d, user |-> user, call |-> c]},
         UNCHANGED <<stage, waiter, loadedBy, schemas>>,
         active'.op \notin {"include", "back"},
         \A x \in Wsdls \ {user} : todo'[x] = todo[x],
         user \in Wsdls => Missing(user)' \subseteq {d}
  PROVE  Lacks'
  <1>1. \A x \in Wsdls \ {user} : Missing(x)' = Missing(x)
    BY DEF Missing, Todo
  <1>2. ASSUME NEW r \in reads', r.user \in Wsdls PROVE Missing(r.user)' \subseteq {r.doc}
    <2>1. CASE r \in reads
      BY <1>1, <1>2, <2>1 DEF Lacks, Free
    <2>2. CASE r = [doc |-> d, user |-> user, call |-> c]
      <3>1. r.user = user /\ r.doc = d
        BY <2>2
      <3>2. QED
        BY <1>2, <3>1
    <2>3. QED
      BY <2>1, <2>2
  <1>3. ASSUME NEW v \in Wsdls, NEW x \in Wsdls, Live(v)', waiter'[v] = x
        PROVE  Missing(x)' \subseteq {Doc(v)}
    <2>1. Live(v) /\ waiter[v] = x
      BY <1>3 DEF Live
    <2>2. x # user
      BY <2>1 DEF Free
    <2>3. QED
      BY <1>1, <2>1, <2>2 DEF Lacks
  <1>4. LoadedKnowsItsImports'
    BY DEF Lacks, LoadedKnowsItsImports
  <1>5. QED
    BY <1>2, <1>3, <1>4 DEF Lacks

\* The one continuation of a call is a task that is appended to the queue, ...
LEMMA SoleTask ==
  ASSUME TypeOK, Sole, ~crashed, SameCalls, NEW t \in Tasks, NEW c \in Calls,
         queue' = Append(queue, t), CallOf(t)' = c, Queued(c) = {}, outcome'[c] = "pending",
         ~InTurn(c)', Reading(c)' = {},
         \A d \in Calls \ {c} :
           /\ outcome'[d] = outcome[d]
           /\ (InTurn(d)' <=> InTurn(d))
           /\ Reading(d)' = Reading(d)
  PROVE  Sole'
  <1>1. queue \in Seq(Tasks)
    BY DEF TypeOK
  <1>2. Len(queue) + 1 \in 1..Len(queue') /\ Queued(c)' = {Len(queue) + 1}
    BY <1>1, QueueAppend
  <1>3. OneOf(c)'
    BY <1>2 DEF OneOf
  <1>4. ASSUME NEW d \in Calls \ {c} PROVE Kept(d)
    <2>1. Queued(d)' = Queued(d)
      BY <1>1, QueueAppend
    <2>2. 1..Len(queue) \subseteq 1..Len(queue')
      BY <1>1
    <2>3. QED
      BY <2>1, <2>2 DEF Kept
  <1>5. QED
    BY <1>3, <1>4, SoleFrame

\* ... or a file that is read, ...
LEMMA SoleFile ==
  ASSUME TypeOK, Sole, ~crashed, NEW r, NEW c \in Calls, reads' = reads \cup {r},
         r.call = c, Reading(c) = {}, UNCHANGED <<queue, loadedBy>>, Queued(c) = {},
         outcome'[c] = "pending", ~InTurn(c)',
         \A d \in Calls \ {c} : outcome'[d] = outcome[d] /\ (InTurn(d)' <=> InTurn(d))
  PROVE  Sole'
  <1>1. SameCalls
    BY DEF SameCalls, CallOf
  <1>2. \A d \in Calls : Queued(d)' = Queued(d)
    BY <1>1, QueueSame DEF TypeOK
  <1>3. Reading(c)' = {r} /\ \A d \in Calls \ {c} : Reading(d)' = Reading(d)
    BY DEF Reading
  <1>4. OneOf(c)'
    BY <1>2, <1>3 DEF OneOf
  <1>5. \A d \in Calls \ {c} : Kept(d)
    BY <1>2, <1>3 DEF Kept
  <1>6. QED
    BY <1>4, <1>5, SoleFrame

\* ... or the running turn; or the call has come to its end.
LEMMA SoleTurn ==
  ASSUME TypeOK, Sole, ~crashed, SameCalls, UNCHANGED <<queue, reads>>, NEW c \in Calls,
         Queued(c) = {}, Reading(c) = {}, InTurn(c)' <=> outcome'[c] = "pending",
         \A d \in Calls \ {c} : outcome'[d] = outcome[d] /\ (InTurn(d)' <=> InTurn(d))
  PROVE  Sole'
  <1>1. \A d \in Calls : Queued(d)' = Queued(d)
    BY QueueSame DEF TypeOK
  <1>2. \A d \in Calls : Reading(d)' = Reading(d)
    BY DEF Reading
  <1>3. IF outcome'[c] = "pending" THEN OneOf(c)' ELSE NoneOf(c)'
    BY <1>1, <1>2 DEF OneOf, NoneOf
  <1>4. \A d \in Calls \ {c} : Kept(d)
    BY <1>1, <1>2 DEF Kept
  <1>5. QED
    BY <1>3, <1>4, SoleFrame

---------------------------------------------------------------------------
(* The actions.                                                            *)

\* The initial states satisfy the inductive invariant.
LEMMA InitIInv == Init => IInv
  <1> SUFFICES ASSUME Init PROVE IInv
    OBVIOUS
  <1>1. \A w \in Wsdls : stage[w] \in {"absent", "unloaded"} /\ loadedBy[w] = None
    BY DEF Init
  <1>2. active.op = "idle" /\ queue = <<>> /\ reads = {} /\ Len(queue) = 0
    BY DEF Init, Idle
  <1>3. \A k \in Caches, d \in Docs : cache[k][d] # None => Doc(cache[k][d]) = d
    BY PairLemma DEF Init
  <1>4. TypeOK
    <2>1. cache \in [Caches -> [Docs -> Wsdls \cup {None}]]
      BY PairLemma DEF Init
    <2>2. active \in Activities
      BY DEF Init, Activities
    <2>3. stage \in [Wsdls -> Stages]
      BY DEF Init, Stages
    <2>4. wsdlCache \in Caches
      BY DEF Init, Caches
    <2>5. outcome \in [Calls -> Outcomes]
      BY DEF Init, Outcomes
    <2>6. todo \in [Wsdls -> Seq(Docs)] /\ queue \in Seq(Tasks)
      BY DEF Init
    <2>7. QED
      BY <2>1, <2>2, <2>3, <2>4, <2>5, <2>6 DEF Init, TypeOK
  <1>5. CachesOK
    <2>1. \A c \in Calls, d \in Docs : stage[<<c, d>>] = "absent"
      <3>1. \A c \in Calls, d \in Docs : <<c, d>> \in Wsdls /\ c \notin UserCaches
        BY LoaderAssumption, PairLemma
      <3>2. QED
        BY <3>1 DEF Init
    <2>2. \A c \in Calls : result[c] = None
      BY DEF Init
    <2>3. QED
      BY <1>3, <2>1, <2>2 DEF CachesOK
  <1>6. Order
    BY <1>1, <1>2, <1>5
       DEF Order, Chains, Live, ReadsOK, TurnOK, QueueOK, OneLoad
  <1>7. Sole
    <2>1. \A c \in Calls : NoneOf(c)
      BY <1>2 DEF NoneOf, InTurn, Queued, Reading
    <2>2. \A c \in Calls : outcome[c] # "pending"
      BY DEF Init
    <2>3. QED
      BY <2>1, <2>2 DEF Sole
  <1>8. Lacks
    BY <1>1, <1>2 DEF Lacks, Live, LoadedKnowsItsImports
  <1>9. QED
    BY <1>4, <1>6, <1>7, <1>8 DEF IInv

\* What is in the cache with which the parser works.
LEMMA EntryLemma ==
  ASSUME TypeOK, Chains, CachesOK, NEW c \in Calls, NEW d \in Docs
  PROVE  LET v == cache[ParserCache(c)][d] IN
         /\ v # None => v \in Wsdls /\ Doc(v) = d
         /\ IsUnloaded(v) => v \in Wsdls /\ stage[v] = "unloaded" /\ loadedBy[v] = None
         /\ ~IsLoaded(v) => stage[<<c, d>>] = "absent"
  <1> DEFINE v == cache[ParserCache(c)][d]
  <1>1. v \in Wsdls \cup {None} /\ (v # None => Doc(v) = d)
    BY ParserCacheLemma DEF TypeOK, CachesOK
  <1>2. IsUnloaded(v) => v \in Wsdls /\ stage[v] = "unloaded" /\ loadedBy[v] = None
    BY <1>1 DEF IsUnloaded, Chains
  <1>3. ~IsLoaded(v) => stage[<<c, d>>] = "absent"
    BY DEF CachesOK
  <1>4. QED
    BY <1>1, <1>2, <1>3

\* When no turn runs, no call has a continuation in it.
LEMMA IdleLemma == active = Idle => \A c \in Calls : ~InTurn(c)
  BY DEF Idle, InTurn

\* A call of createClient or WSDL.open.
LEMMA AskIInv ==
  ASSUME IInv, NEW c \in Calls, Ask(c)
  PROVE  IInv'
  <1> USE DEF IInv, Order
  <1>1. /\ active = Idle /\ active' = Idle /\ active.op = "idle" /\ ~crashed
        /\ outcome[c] = "none" /\ outcome'[c] = "pending"
        /\ \A d \in Calls \ {c} : outcome'[d] = outcome[d]
        /\ outcome' \in [Calls -> Outcomes]
    BY DEF Ask, MayStart, Idle, TypeOK, Outcomes
  <1>2. wsdlCache' \in Caches
    BY LoaderAssumption DEF Ask, TypeOK, Caches
  <1>3. NoneOf(c) /\ result[c] = None /\ \A d \in Docs : stage[<<c, d>>] = "absent"
    BY <1>1 DEF Sole, CachesOK
  <1>4. Queued(c) = {} /\ Reading(c) = {}
    BY <1>3 DEF NoneOf
  <1>5. \A d \in Calls : ~InTurn(d) /\ ~InTurn(d)'
    BY <1>1, IdleLemma DEF InTurn, Idle
  <1>7. PICK v : v = cache[ParserCache(c)][Root[c]]
    OBVIOUS
  <1>8. PICK hit : hit = cache[wsdlCache'][Root[c]]
    OBVIOUS
  <1>6. Root[c] \in Docs /\ c \in Users /\ Free(c, reads)
    BY LoaderAssumption, Distinct DEF Users, Free
  <1>9. CASE /\ hit # None
             /\ queue' = Append(queue, [do |-> "client", wsdl |-> hit, call |-> c])
             /\ UNCHANGED <<reads, stage, waiter, loadedBy>>
    <2> DEFINE t == [do |-> "client", wsdl |-> hit, call |-> c]
    <2>1. hit \in Wsdls
      BY <1>2, <1>6, <1>9, <1>8 DEF TypeOK
    <2>2. t \in Tasks /\ CallOf(t)' = c /\ t.do = "client"
      BY <2>1 DEF Tasks, CallOf
    <2> HIDE DEF t
    <2>3. SameCalls
      BY <1>9 DEF SameCalls, CallOf
    <2>4. queue' = Append(queue, t)
      BY <1>9 DEF t
    <2>5. /\ queue' \in Seq(Tasks)
          /\ \A i \in 1..Len(queue') : (i \in 1..Len(queue) /\ queue'[i] = queue[i]) \/ queue'[i] = t
      BY <2>2, <2>4 DEF TypeOK
    <2>6. TypeOK'
      BY <1>1, <1>2, <1>9, <2>5 DEF Ask, TypeOK
    <2>7. Chains' /\ ReadsOK' /\ TurnOK' /\ OneLoad' /\ Lacks'
      <3>1. \A x \in Wsdls : Live(x)' = Live(x) /\ Missing(x)' = Missing(x)
        BY <1>9 DEF Ask, Live, Missing, Todo
      <3>2. Chains' /\ ReadsOK'
        BY <1>9 DEF Chains, Chain, Live, ReadsOK, ReadOK
      <3>3. TurnOK' /\ OneLoad'
        BY <1>1, <1>9, <3>1 DEF TurnOK, OneLoad
      <3>4. LoadedKnowsItsImports'
        BY <1>9 DEF Ask, Lacks, LoadedKnowsItsImports
      <3>5. QED
        BY <1>1, <1>9, <3>1, <3>2, <3>3, <3>4 DEF Lacks
    <2>8. QueueOK'
      BY <1>9, <2>2, <2>5 DEF QueueOK
    <2>9. CachesOK'
      BY <1>1, <1>3, <1>9 DEF Ask, CachesOK, IsLoaded
    <2>10. Sole'
      BY <1>1, <1>4, <1>5, <1>9, <2>2, <2>3, <2>4, SoleTask DEF Reading
    <2>11. QED
      BY <2>6, <2>7, <2>8, <2>9, <2>10
  <1>10. CASE IsUnloaded(v) /\ StartLoad(v, c, c) /\ UNCHANGED reads
    <2> DEFINE t == [do |-> "parse", wsdl |-> v]
    <2>1. v \in Wsdls /\ Doc(v) = Root[c] /\ stage[v] = "unloaded" /\ loadedBy[v] = None
      BY <1>6, <1>10, <1>7, EntryLemma DEF IsUnloaded
    <2>2. Begins(v, c, c) /\ queue' = Append(queue, t)
      BY <1>10 DEF StartLoad, Begins
    <2>3. t \in Tasks /\ CallOf(t)' = c
      <3>1. t \in Tasks /\ t.do = "parse" /\ t.wsdl = v
        BY <2>1 DEF Tasks
      <3>2. loadedBy'[v] = c
        BY <1>6, <2>1, <2>2, BeginFacts
      <3>3. QED
        BY <3>1, <3>2 DEF CallOf
    <2>4. SameCalls
      BY <1>6, <2>1, <2>2, BeginSameCalls
    <2>5. CachesOK'
      <3>1. \A e \in Calls :
              outcome'[e] = outcome[e] \/ (outcome'[e] # "none" /\ result[e] = None)
        BY <1>1, <1>3
      <3>2. cache' = cache /\ result' = result
        BY DEF Ask
      <3>3. QED
        BY <1>6, <2>1, <2>2, <3>1, <3>2, BeginCaches
    <2>6. TypeOK'
      BY <1>1, <1>2, <1>6, <1>10, <2>1, <2>2, BeginFacts, BeginQueue DEF Ask, TypeOK
    <2>7. Order'
      <3>1. \A r \in reads : <<r.call, r.doc>> # v
        BY <2>1 DEF ReadsOK, ReadOK
      <3>2. Asks(c, Doc(v), c)
        BY <2>1 DEF Asks
      <3>3. QED
        BY <1>1, <1>6, <1>10, <2>1, <2>2, <2>5, <3>1, <3>2, BeginOrder
    <2>8. Lacks'
      BY <1>1, <1>6, <1>10, <2>1, <2>2, BeginLacks, Distinct DEF Ask
    <2>9. Sole'
      BY <1>1, <1>4, <1>5, <1>10, <2>2, <2>3, <2>4, SoleTask DEF Reading
    <2>10. QED
      BY <2>6, <2>7, <2>8, <2>9
  <1>11. CASE /\ ~IsUnloaded(v)
             /\ reads' = reads \cup {[doc |-> Root[c], user |-> c, call |-> c]}
             /\ UNCHANGED <<stage, waiter, loadedBy, queue>>
    <2>1. TypeOK'
      BY <1>1, <1>2, <1>6, <1>11 DEF Ask, TypeOK
    <2>2. CachesOK'
      BY <1>1, <1>3, <1>11 DEF Ask, CachesOK, IsLoaded
    <2>3. Order'
      BY <1>1, <1>3, <1>6, <1>11, <2>2, FileOrder, Distinct DEF Asks, Free
    <2>4. Lacks'
      BY <1>1, <1>6, <1>11, FileLacks, Distinct DEF Ask
    <2>5. Sole'
      BY <1>1, <1>4, <1>5, <1>11, SoleFile
    <2>6. QED
      BY <2>1, <2>3, <2>4, <2>5
  <1>12. QED
    BY <1>9, <1>10, <1>11, <1>7, <1>8 DEF Ask, Open

\* A turn that ends without a callback leaves the loads as they are.
LEMMA EndOrder ==
  ASSUME TypeOK, Order, Lacks, UNCHANGED <<stage, waiter, loadedBy, schemas>>, reads' = reads,
         queue' = queue \/ (queue # <<>> /\ queue' = Tail(queue)),
         active'.op = "idle", CachesOK',
         \A x \in Wsdls : Missing(x)' = Missing(x) \/ Free(x, reads)
  PROVE  Order' /\ Lacks'
  <1> USE DEF Order
  <1>1. \A x \in Wsdls : Live(x)' = Live(x)
    BY DEF Live
  <1>2. Chains' /\ ReadsOK' /\ TurnOK' /\ OneLoad'
    BY <1>1 DEF Chains, Chain, ReadsOK, ReadOK, TurnOK, OneLoad
  <1>3. QueueOK'
    <2>1. ASSUME queue # <<>>, queue' = Tail(queue), NEW i \in 1..Len(queue')
          PROVE  i + 1 \in 1..Len(queue) /\ queue'[i] = queue[i + 1]
      BY <2>1 DEF TypeOK
    <2>2. QED
      BY <2>1 DEF QueueOK
  <1>4. \A r \in reads' : r.user \in Wsdls => Missing(r.user)' \subseteq {r.doc}
    BY DEF Lacks, Free
  <1>5. ASSUME NEW v \in Wsdls, NEW x \in Wsdls, Live(v)', waiter'[v] = x
        PROVE  Missing(x)' \subseteq {Doc(v)}
    BY <1>1, <1>5 DEF Lacks, Free
  <1>6. LoadedKnowsItsImports'
    BY DEF Lacks, LoadedKnowsItsImports
  <1>7. QED
    BY <1>2, <1>3, <1>4, <1>5, <1>6 DEF Lacks

\* A call of openSync.
LEMMA AskSyncIInv ==
  ASSUME IInv, NEW c \in Calls, AskSync(c)
  PROVE  IInv'
  <1> USE DEF IInv, Order
  <1>1. active = Idle /\ active.op = "idle" /\ ~crashed /\ outcome[c] = "none"
    BY DEF AskSync, MayStart, Idle
  <1>2. NoneOf(c) /\ result[c] = None /\ \A d \in Docs : stage[<<c, d>>] = "absent"
    BY <1>1 DEF Sole, CachesOK
  <1>3. Queued(c) = {} /\ Reading(c) = {}
    BY <1>2 DEF NoneOf
  <1>4. \A d \in Calls : ~InTurn(d)
    BY <1>1, IdleLemma
  <1>5. Root[c] \in Docs /\ c \in Users /\ Free(c, reads)
    BY LoaderAssumption, Distinct DEF Users, Free
  <1>6. PICK v : v = cache[ParserCache(c)][Root[c]]
    OBVIOUS
  <1>7. CASE /\ IsUnloaded(v)
             /\ Begins(v, c, c)
             /\ active' = [op |-> "parse", wsdl |-> v]
             /\ outcome' = [outcome EXCEPT ![c] = "pending"]
    <2>1. v \in Wsdls /\ Doc(v) = Root[c] /\ stage[v] = "unloaded" /\ loadedBy[v] = None
      BY <1>5, <1>6, <1>7, EntryLemma DEF IsUnloaded
    <2>2. active'.op = "parse" /\ active'.wsdl = v /\ active' \in Activities
      BY <1>7, <2>1 DEF Activities
    <2>3. /\ outcome'[c] = "pending" /\ \A d \in Calls \ {c} : outcome'[d] = outcome[d]
          /\ outcome' \in [Calls -> Outcomes]
      BY <1>7 DEF TypeOK, Outcomes
    <2>4. UNCHANGED <<queue, reads, wsdlCache, cache, todo, schemas, refs, result, crashed, defect>>
      BY DEF AskSync
    <2>5. CachesOK'
      <3>1. \A e \in Calls :
              outcome'[e] = outcome[e] \/ (outcome'[e] # "none" /\ result[e] = None)
        BY <1>2, <2>3
      <3>2. QED
        BY <1>5, <1>7, <2>1, <2>4, <3>1, BeginCaches
    <2>6. TypeOK'
      BY <1>5, <1>7, <2>1, <2>2, <2>3, <2>4, BeginFacts DEF TypeOK
    <2>7. Order'
      <3>1. \A r \in reads : <<r.call, r.doc>> # v
        BY <2>1 DEF ReadsOK, ReadOK
      <3>2. Asks(c, Doc(v), c)
        BY <2>1 DEF Asks
      <3>3. QED
        BY <1>1, <1>5, <1>7, <2>1, <2>2, <2>4, <2>5, <3>1, <3>2, BeginOrder
    <2>8. Lacks'
      BY <1>5, <1>7, <2>1, <2>2, <2>4, BeginLacks, Distinct
    <2>9. Sole'
      <3>1. SameCalls
        BY <1>5, <1>7, <2>1, BeginSameCalls
      <3>2. loadedBy'[v] = c
        BY <1>5, <1>7, <2>1, BeginFacts
      <3>3. \A d \in Calls : InTurn(d)' <=> d = c
        BY <2>2, <3>2 DEF InTurn
      <3>4. QED
        BY <1>1, <1>3, <1>4, <2>3, <2>4, <3>1, <3>3, SoleTurn
    <2>10. QED
      BY <2>6, <2>7, <2>8, <2>9
  <1>8. CASE Raise(c) /\ UNCHANGED <<stage, waiter, loadedBy>>
    <2>1. active' = Idle /\ active'.op = "idle"
      BY <1>8 DEF Raise, Idle
    <2>2. /\ outcome'[c] = "raised" /\ \A d \in Calls \ {c} : outcome'[d] = outcome[d]
          /\ outcome' \in [Calls -> Outcomes]
      BY <1>8 DEF Raise, TypeOK, Outcomes
    <2>3. UNCHANGED <<queue, reads, wsdlCache, cache, todo, schemas, refs, result, crashed, defect>>
      BY DEF AskSync
    <2>4. TypeOK'
      BY <1>1, <1>8, <2>1, <2>2, <2>3 DEF TypeOK
    <2>5. CachesOK'
      BY <1>2, <1>8, <2>2, <2>3 DEF CachesOK, IsLoaded
    <2>6. Order' /\ Lacks'
      <3>1. \A x \in Wsdls : Missing(x)' = Missing(x)
        BY <2>3 DEF Missing, Todo
      <3>2. QED
        BY <1>8, <2>1, <2>3, <2>5, <3>1, EndOrder
    <2>7. Sole'
      <3>1. SameCalls
        BY <1>8 DEF SameCalls, CallOf
      <3>2. \A d \in Calls : ~(InTurn(d)')
        BY <2>1 DEF InTurn
      <3>3. QED
        BY <1>1, <1>3, <1>4, <2>2, <2>3, <3>1, <3>2, SoleTurn
    <2>8. QED
      BY <2>4, <2>6, <2>7
  <1>9. QED
    BY <1>6, <1>7, <1>8 DEF AskSync, OpenSync, Begins

\* A file was read.
LEMMA ReadIInv ==
  ASSUME IInv, NEW r \in reads, Read(r)
  PROVE  IInv'
  <1> USE DEF IInv, Order
  <1>1. active = Idle /\ active' = Idle /\ active.op = "idle" /\ ~crashed
    BY DEF Read, MayStart, Idle
  <1>2. PICK c \in Calls, d \in Docs : c = r.call /\ d = r.doc
    BY DEF TypeOK
  <1>3. PICK w \in Wsdls : w = <<c, d>> /\ Doc(w) = d
    BY PairLemma
  <1>4. PICK user \in Users : user = r.user
    BY DEF TypeOK
  <1>5. stage[w] = "absent" /\ loadedBy[w] = None /\ Asks(user, Doc(w), c)
    BY <1>2, <1>3, <1>4 DEF ReadsOK, ReadOK, Asks, Chains
  <1>6. Begins(w, user, c) /\ queue' = Append(queue, [do |-> "parse", wsdl |-> w])
    BY <1>2, <1>3, <1>4 DEF Read, StartLoad, Begins
  <1>7. /\ cache' = [cache EXCEPT ![ParserCache(c)][d] = w]
        /\ reads' = reads \ {r}
        /\ UNCHANGED <<wsdlCache, todo, schemas, refs, outcome, result, crashed, defect>>
    BY <1>2, <1>3 DEF Read
  <1>8. /\ outcome[c] = "pending" /\ Reading(c) = {r} /\ Queued(c) = {}
    BY <1>1, <1>2 DEF Sole, OneOf, NoneOf, Reading
  <1>9. \A q \in reads' : q.call # c
    BY <1>7, <1>8 DEF Reading
  <1>10. Free(user, reads')
    <2>1. ASSUME user \in Wsdls, NEW q \in reads' PROVE q.user # user
      <3>1. q.user = user => q.call = loadedBy[user]
        <4>1. q \in reads /\ q.call \in Calls
          BY <1>7 DEF TypeOK
        <4>2. user \notin Calls
          BY <2>1, Distinct
        <4>3. ReadOK(q)
          BY <4>1 DEF ReadsOK
        <4>4. QED
          BY <4>1, <4>2, <4>3 DEF ReadOK
      <3>2. loadedBy[user] = c
        BY <1>5, <2>1, Distinct DEF Asks
      <3>3. QED
        BY <1>9, <3>1, <3>2
    <2>2. QED
      BY <1>4, <2>1 DEF OneLoad, Free
  <1>11. ParserCache(c) \in Caches
    BY ParserCacheLemma
  <1>12. TypeOK'
    <2>1. cache' \in [Caches -> [Docs -> Wsdls \cup {None}]]
      BY <1>7, <1>11 DEF TypeOK
    <2>2. QED
      BY <1>1, <1>6, <1>7, <2>1, BeginFacts, BeginQueue DEF TypeOK
  <1>13. CachesOK'
    <2>1. \A k \in Caches, e \in Docs : cache'[k][e] = cache[k][e] \/ (e = d /\ cache'[k][e] = w)
      BY <1>7, <1>11 DEF TypeOK
    <2>2. cache'[ParserCache(c)][d] = w
      BY <1>7, <1>11 DEF TypeOK
    <2>3. ASSUME NEW b \in Calls, NEW e \in Docs, stage'[<<b, e>>] # "absent"
          PROVE  IsLoaded(cache[ParserCache(b)][e])'
      <3>1. <<b, e>> \in Wsdls /\ ParserCache(b) \in Caches
        BY PairLemma, ParserCacheLemma
      <3>2. CASE cache'[ParserCache(b)][e] = w
        BY <3>2, BeginFacts, <1>6, Distinct DEF IsLoaded, ParserCache
      <3>3. CASE cache'[ParserCache(b)][e] # w
        <4>1. <<b, e>> # w
          BY <1>3, <2>2, <3>3
        <4>2. IsLoaded(cache[ParserCache(b)][e])
          BY <1>6, <2>3, <3>1, <4>1, BeginFacts DEF CachesOK
        <4>3. cache'[ParserCache(b)][e] = cache[ParserCache(b)][e]
          BY <2>1, <3>1, <3>3
        <4>4. cache[ParserCache(b)][e] \in Wsdls \cup {None}
          BY <3>1 DEF TypeOK
        <4>5. QED
          BY <1>6, <4>2, <4>3, <4>4, BeginFacts DEF IsLoaded, ParserCache
      <3>4. QED
        BY <3>2, <3>3
    <2>4. ASSUME NEW b \in Calls, NEW e \in Docs, outcome'[b] = "none"
          PROVE  stage'[<<b, e>>] = "absent"
      <3>1. <<b, e>> \in Wsdls /\ <<b, e>> # w
        BY <1>3, <1>7, <1>8, <2>4, PairLemma
      <3>2. QED
        BY <1>6, <1>7, <2>4, <3>1, BeginFacts DEF CachesOK
    <2>5. QED
      BY <1>3, <1>7, <2>1, <2>3, <2>4 DEF CachesOK
  <1>14. \A q \in reads' : <<q.call, q.doc>> # w
    BY <1>3, <1>9
  <1>15. Order'
    BY <1>1, <1>5, <1>6, <1>7, <1>10, <1>13, <1>14, BeginOrder
  <1>16. user \in Wsdls => Missing(user)' \subseteq {Doc(w)}
    BY <1>2, <1>3, <1>4, <1>7 DEF Lacks, Missing, Todo
  <1>17. Lacks'
    BY <1>1, <1>5, <1>6, <1>7, <1>10, <1>16, BeginLacks
  <1>18. Sole'
    <2> DEFINE t == [do |-> "parse", wsdl |-> w]
    <2>1. t \in Tasks /\ CallOf(t)' = c
      <3>1. t \in Tasks /\ t.do = "parse" /\ t.wsdl = w
        BY DEF Tasks
      <3>2. loadedBy'[w] = c
        BY <1>6, BeginFacts
      <3>3. QED
        BY <3>1, <3>2 DEF CallOf
    <2>2. SameCalls
      BY <1>5, <1>6, BeginSameCalls
    <2>3. \A e \in Calls : ~InTurn(e) /\ ~(InTurn(e)')
      BY <1>1, IdleLemma DEF InTurn, Idle
    <2>4. Reading(c)' = {} /\ \A e \in Calls \ {c} : Reading(e)' = Reading(e)
      BY <1>2, <1>7, <1>9 DEF Reading
    <2>5. QED
      BY <1>1, <1>6, <1>7, <1>8, <2>1, <2>2, <2>3, <2>4, SoleTask
  <1>19. QED
    BY <1>12, <1>15, <1>17, <1>18

\* Who is called back works for the call.
LEMMA BackTurn ==
  ASSUME NEW user \in Users, NEW x, NEW c \in Calls, Back(user, x),
         user \in Calls => user = c, user \in Wsdls => loadedBy'[user] = c
  PROVE  \A d \in Calls : InTurn(d)' <=> d = c
  <1>1. active'.op = "back" /\ active'.to = user
    BY DEF Back
  <1>2. user \in Calls \/ user \in Wsdls
    BY DEF Users
  <1>3. QED
    BY <1>1, <1>2, Distinct DEF InTurn

\* A continuation that was a file, and the end of that file.
LEMMA SoleRead ==
  ASSUME TypeOK, Sole, ~crashed, UNCHANGED <<queue, loadedBy, outcome>>, NEW r \in reads,
         reads' = reads \ {r}, NEW c \in Calls, r.call = c,
         \A d \in Calls : ~InTurn(d), \A d \in Calls : InTurn(d)' <=> d = c
  PROVE  Sole'
  <1>1. outcome[c] = "pending" /\ Reading(c) = {r} /\ Queued(c) = {}
    BY DEF Sole, OneOf, NoneOf, Reading
  <1>2. SameCalls
    BY DEF SameCalls, CallOf
  <1>3. \A d \in Calls : Queued(d)' = Queued(d)
    BY <1>2, QueueSame DEF TypeOK
  <1>4. Reading(c)' = {} /\ \A d \in Calls \ {c} : Reading(d)' = Reading(d)
    BY <1>1 DEF Reading
  <1>5. OneOf(c)'
    BY <1>1, <1>3, <1>4 DEF OneOf
  <1>6. \A d \in Calls \ {c} : Kept(d)
    BY <1>3, <1>4 DEF Kept
  <1>7. QED
    BY <1>1, <1>5, <1>6, SoleFrame

\* A continuation that was the head of the queue.
LEMMA SoleHead ==
  ASSUME TypeOK, Sole, ~crashed, queue # <<>>, queue' = Tail(queue),
         UNCHANGED <<loadedBy, reads>>, NEW c \in Calls, CallOf(Head(queue)) = c,
         InTurn(c)' <=> outcome'[c] = "pending",
         \A d \in Calls \ {c} : outcome'[d] = outcome[d] /\ (InTurn(d)' <=> InTurn(d))
  PROVE  /\ Sole'
         /\ outcome[c] = "pending"
         /\ Queued(c) = {1}
  <1>1. queue \in Seq(Tasks)
    BY DEF TypeOK
  <1>2. 1 \in Queued(c)
    BY <1>1, QueueTail
  <1>3. outcome[c] = "pending" /\ Queued(c) = {1} /\ Reading(c) = {}
    BY <1>2 DEF Sole, OneOf, NoneOf
  <1>4. 1 \in 1..Len(queue)
    BY <1>2 DEF Queued
  <1>5. Queued(c)' = {}
    BY <1>1, <1>3, <1>4, QueueTail
  <1>6. \A d \in Calls : Reading(d)' = Reading(d)
    BY DEF Reading
  <1>7. IF outcome'[c] = "pending" THEN OneOf(c)' ELSE NoneOf(c)'
    BY <1>3, <1>5, <1>6 DEF OneOf, NoneOf
  <1>8. ASSUME NEW d \in Calls \ {c} PROVE Kept(d)
    <2>1. CallOf(Head(queue)) # d
      OBVIOUS
    <2>2. Queued(d) = {} => Queued(d)' = {}
      BY <1>1, QueueTail
    <2>3. \A i \in 1..Len(queue) : Queued(d) = {i} => \E j \in 1..Len(queue') : Queued(d)' = {j}
      BY <1>1, <2>1, QueueTail
    <2>4. QED
      BY <1>6, <2>2, <2>3 DEF Kept
  <1>9. QED
    BY <1>3, <1>7, <1>8, SoleFrame

\* A file could not be read.
LEMMA ReadFailsIInv ==
  ASSUME IInv, NEW r \in reads, ReadFails(r)
  PROVE  IInv'
  <1> USE DEF IInv, Order
  <1>1. active = Idle /\ ~crashed /\ \A d \in Calls : ~InTurn(d)
    BY IdleLemma DEF ReadFails, MayStart
  <1>2. PICK c \in Calls : c = r.call
    BY DEF TypeOK
  <1>3. PICK user \in Users : user = r.user
    BY DEF TypeOK
  <1>4. /\ user \in Calls => user = c
        /\ user \in Wsdls => loadedBy[user] = c /\ stage[user] = "including"
    BY <1>2, <1>3, Distinct DEF ReadsOK, ReadOK
  <1>5. /\ reads' = reads \ {r}
        /\ UNCHANGED <<queue, wsdlCache, cache, stage, todo, waiter, loadedBy, schemas,
                       refs, outcome, result, crashed, defect>>
    BY DEF ReadFails
  <1>6. /\ Back(user, None)
        /\ active'.op = "back" /\ active'.to = user /\ active'.wsdl = None
        /\ active' \in Activities
    BY <1>3 DEF ReadFails, Back, Activities
  <1>7. Sole'
    BY <1>1, <1>2, <1>4, <1>5, <1>6, BackTurn, SoleRead
  <1>8. TypeOK'
    BY <1>5, <1>6 DEF TypeOK
  <1>9. Reading(c) = {r}
    BY <1>1, <1>2 DEF Sole, OneOf, NoneOf, Reading
  <1>10. ASSUME user \in Wsdls, NEW q \in reads' PROVE q.user # user
    <2>1. q \in reads /\ q.call \in Calls /\ q.call # c
      BY <1>5, <1>9 DEF TypeOK, Reading
    <2>2. QED
      BY <1>4, <1>10, <2>1, Distinct DEF ReadsOK, ReadOK
  <1>11. Chains' /\ ReadsOK' /\ QueueOK' /\ CachesOK'
    BY <1>5 DEF Chains, Chain, Live, ReadsOK, ReadOK, QueueOK, CachesOK, IsLoaded
  <1>12. TurnOK'
    BY <1>4, <1>5, <1>6 DEF TurnOK
  <1>13. OneLoad'
    BY <1>3, <1>5, <1>6, <1>10 DEF OneLoad, Live
  <1>14. Lacks'
    <2>1. \A x \in Wsdls : Missing(x)' = Missing(x) /\ Live(x)' = Live(x)
      BY <1>5 DEF Missing, Todo, Live
    <2>2. LoadedKnowsItsImports'
      BY <1>5 DEF Lacks, LoadedKnowsItsImports
    <2>3. QED
      BY <1>5, <1>6, <2>1, <2>2 DEF Lacks
  <1>15. QED
    BY <1>7, <1>8, <1>11, <1>12, <1>13, <1>14

\* What is known of an object whose load has begun: the call it loads for, and
\* who gets its callback.
LEMMA LoadLemma ==
  ASSUME TypeOK, Chains, NEW w \in Wsdls, stage[w] \notin {"absent", "unloaded"}
  PROVE  /\ loadedBy[w] \in Calls
         /\ waiter[w] \in Users
         /\ waiter[w] \in Calls => waiter[w] = loadedBy[w] /\ Doc(w) = Root[waiter[w]]
         /\ waiter[w] \in Wsdls => loadedBy[waiter[w]] = loadedBy[w]
  <1>1. loadedBy[w] # None /\ Chain(w)
    BY DEF Chains
  <1>2. loadedBy[w] \in Calls
    BY <1>1 DEF TypeOK
  <1>3. QED
    BY <1>1, <1>2, Distinct DEF Chain, Users

\* A load that ends, well or not, or begins to include: nobody but its user is
\* concerned.
LEMMA StageChains ==
  ASSUME TypeOK, Chains, ReadsOK, NEW w \in Wsdls, Live(w),
         stage[w] = "ticking" \/ ~\E v \in Wsdls : Live(v) /\ waiter[v] = w,
         stage[w] = "ticking" \/ \A r \in reads : r.user # w,
         NEW new \in {"including", "loaded", "failed"},
         stage' = [stage EXCEPT ![w] = new], UNCHANGED <<waiter, loadedBy, reads>>
  PROVE  Chains' /\ ReadsOK' /\ stage' \in [Wsdls -> Stages]
  <1>1. /\ stage' \in [Wsdls -> Stages] /\ stage'[w] = new
        /\ \A v \in Wsdls \ {w} : stage'[v] = stage[v]
    BY DEF TypeOK, Stages
  <1>2. \A v \in Wsdls : stage'[v] \in {"absent", "unloaded"} <=> stage[v] \in {"absent", "unloaded"}
    BY <1>1 DEF Live
  <1>3. ASSUME NEW v \in Wsdls, Live(v)', waiter'[v] \in Wsdls
        PROVE  stage'[waiter'[v]] = "including"
    <2>1. Live(v)
      BY <1>1, <1>3 DEF Live
    <2>2. stage[waiter[v]] = "including"
      BY <1>3, <2>1 DEF Chains
    <2>3. waiter[v] # w
      BY <2>1, <2>2
    <2>4. QED
      BY <1>1, <1>3, <2>2, <2>3
  <1>4. \A v \in Wsdls : loadedBy'[v] # None => Chain(v)'
    BY DEF Chains, Chain
  <1>5. Chains'
    BY <1>2, <1>3, <1>4 DEF Chains
  <1>6. ASSUME NEW r \in reads PROVE ReadOK(r)'
    <2>1. ReadOK(r) /\ <<r.call, r.doc>> \in Wsdls
      BY PairLemma DEF ReadsOK, TypeOK
    <2>2. stage'[<<r.call, r.doc>>] = "absent"
      BY <1>1, <2>1 DEF ReadOK, Live
    <2>3. r.user \in Wsdls /\ stage[r.user] = "including" => stage'[r.user] = "including"
      BY <1>1, <2>1 DEF ReadOK, Live
    <2>4. QED
      BY <2>1, <2>2, <2>3 DEF ReadOK
  <1>7. QED
    BY <1>1, <1>5, <1>6 DEF ReadsOK

\* The caches do not tell the stages of a load apart.
LEMMA StageCaches ==
  ASSUME TypeOK, CachesOK, NEW w \in Wsdls, Live(w), cache' = cache, result' = result,
         outcome' = outcome, NEW new \in {"including", "loaded", "failed"},
         stage' = [stage EXCEPT ![w] = new]
  PROVE  CachesOK'
  <1>1. \A v \in Wsdls :
          /\ stage'[v] = "absent" <=> stage[v] = "absent"
          /\ stage'[v] = "unloaded" <=> stage[v] = "unloaded"
    BY DEF TypeOK, Live
  <1>2. \A c \in Calls, d \in Docs :
          cache[ParserCache(c)][d] \in Wsdls \cup {None} /\ <<c, d>> \in Wsdls
    <2>1. \A c \in Calls, d \in Docs : cache[ParserCache(c)][d] \in Wsdls \cup {None}
      BY ParserCacheLemma DEF TypeOK
    <2>2. QED
      BY <2>1, PairLemma
  <1>3. \A c \in Calls, d \in Docs :
          IsLoaded(cache[ParserCache(c)][d]) => IsLoaded(cache[ParserCache(c)][d])'
    BY <1>1, <1>2 DEF IsLoaded, ParserCache
  <1>4. QED
    BY <1>1, <1>2, <1>3 DEF CachesOK

\* A load that ends calls its user back: this user waited for nothing else.
LEMMA BackOneLoad ==
  ASSUME TypeOK, OneLoad, NEW w \in Wsdls, Live(w), NEW new \in {"loaded", "failed"},
         stage' = [stage EXCEPT ![w] = new], UNCHANGED <<waiter, reads>>,
         active'.op = "back", active'.to = waiter[w]
  PROVE  OneLoad'
  <1>1. \A v \in Wsdls : Live(v)' <=> Live(v) /\ v # w
    BY DEF Live, TypeOK
  <1>2. ASSUME waiter[w] \in Wsdls, NEW v \in Wsdls, Live(v)' PROVE waiter[v] # waiter[w]
    BY <1>1, <1>2 DEF OneLoad
  <1>3. \A r \in reads : waiter[w] \in Wsdls => r.user # waiter[w]
    BY DEF OneLoad
  <1>4. QED
    BY <1>1, <1>2, <1>3 DEF OneLoad

\* An object is parsed, or turns out not to be XML.
LEMMA LoadUpLemma ==
  ASSUME TypeOK, Order, Lacks, NEW w \in Wsdls, stage[w] = "ticking", LoadUp(w),
         QueueOK', queue' \in Seq(Tasks)
  PROVE  /\ TypeOK' /\ Order' /\ Lacks'
         /\ \A d \in Calls : InTurn(d)' <=> d = loadedBy[w]
  <1> USE DEF Order
  <1>1. PICK new \in {"including", "failed"} :
          /\ stage' = [stage EXCEPT ![w] = new]
          /\ new = "failed" => Back(waiter[w], None) /\ UNCHANGED <<todo, schemas>>
          /\ new = "including" =>
               /\ todo' = [todo EXCEPT ![w] = Imports[Doc(w)]]
               /\ schemas' = [schemas EXCEPT ![w][Doc(w)] = w]
               /\ active' = [op |-> "include", wsdl |-> w]
    BY DEF LoadUp
  <1>2. UNCHANGED <<reads, wsdlCache, cache, waiter, loadedBy, refs, outcome, result,
                    crashed, defect>>
    BY DEF LoadUp
  <1>3. Live(w) /\ Doc(w) \in Docs
    BY DocLemma DEF Live
  <1>4. Chains' /\ ReadsOK' /\ stage' \in [Wsdls -> Stages]
    BY <1>1, <1>2, <1>3, StageChains
  <1>5. CachesOK'
    BY <1>1, <1>2, <1>3, StageCaches
  <1>6. /\ loadedBy[w] \in Calls /\ waiter[w] \in Users
        /\ waiter[w] \in Calls => waiter[w] = loadedBy[w]
        /\ waiter[w] \in Wsdls =>
             loadedBy[waiter[w]] = loadedBy[w] /\ stage[waiter[w]] = "including" /\ waiter[w] # w
    BY <1>3, LoadLemma DEF Chains
  <1>7. \A v \in Wsdls : Live(v) => waiter[v] # w
    BY DEF Chains
  <1>8. \A r \in reads : r.user # w
    BY Distinct DEF ReadsOK, ReadOK, TypeOK
  <1>9. \A v \in Wsdls : stage'[v] = IF v = w THEN new ELSE stage[v]
    BY <1>1 DEF TypeOK
  <1>10. CASE new = "failed"
    <2>1. /\ active'.op = "back" /\ active'.to = waiter[w] /\ active'.wsdl = None
          /\ active' \in Activities
      BY <1>1, <1>6, <1>10 DEF Back, Activities
    <2>2. TypeOK'
      BY <1>1, <1>2, <1>4, <1>10, <2>1 DEF TypeOK
    <2>3. TurnOK'
      BY <1>6, <1>9, <2>1 DEF TurnOK
    <2>4. OneLoad'
      BY <1>1, <1>2, <1>3, <1>10, <2>1, BackOneLoad
    <2>5. Lacks'
      <3>1. \A x \in Wsdls : Missing(x)' = Missing(x) /\ (Live(x)' => Live(x))
        BY <1>1, <1>9, <1>10 DEF Missing, Todo, Live
      <3>2. LoadedKnowsItsImports'
        BY <1>1, <1>9, <1>10 DEF Lacks, LoadedKnowsItsImports
      <3>3. QED
        BY <1>2, <2>1, <3>1, <3>2 DEF Lacks
    <2>6. \A d \in Calls : InTurn(d)' <=> d = loadedBy[w]
      BY <1>1, <1>2, <1>6, <1>10, BackTurn
    <2>7. QED
      BY <1>4, <1>5, <2>2, <2>3, <2>4, <2>5, <2>6
  <1>11. CASE new = "including"
    <2>1. active'.op = "include" /\ active'.wsdl = w /\ active' \in Activities
      BY <1>1, <1>11 DEF Activities
    <2>2. TypeOK'
      <3>1. todo' \in [Wsdls -> Seq(Docs)]
        BY <1>1, <1>3, <1>11, LoaderAssumption DEF TypeOK
      <3>2. schemas' \in [Wsdls -> [Docs -> Wsdls \cup {None, Plain}]]
        <4>1. schemas[w] \in [Docs -> Wsdls \cup {None, Plain}]
          BY DEF TypeOK
        <4>2. [schemas[w] EXCEPT ![Doc(w)] = w] \in [Docs -> Wsdls \cup {None, Plain}]
          BY <1>3, <4>1
        <4>3. schemas' = [schemas EXCEPT ![w] = [schemas[w] EXCEPT ![Doc(w)] = w]]
          BY <1>1, <1>11
        <4>4. QED
          BY <4>2, <4>3 DEF TypeOK
      <3>3. QED
        BY <1>2, <1>4, <2>1, <3>1, <3>2 DEF TypeOK
    <2>3. TurnOK'
      BY <1>9, <1>11, <2>1 DEF TurnOK
    <2>4. \A v \in Wsdls : Live(v)' <=> Live(v)
      BY <1>3, <1>9, <1>11 DEF Live
    <2>5. OneLoad'
      BY <1>2, <1>7, <1>8, <2>1, <2>4 DEF OneLoad
    <2>6. \A x \in Wsdls \ {w} : Missing(x)' = Missing(x)
      BY <1>1, <1>11 DEF Missing, Todo, TypeOK
    <2>7. Missing(w)' = {}
      <3>1. todo'[w] = Imports[Doc(w)]
        BY <1>1, <1>11 DEF TypeOK
      <3>2. QED
        BY <1>3, <3>1 DEF Missing, Todo, Imported
    <2>8. LoadedKnowsItsImports'
      <3>1. \A x \in Wsdls : stage'[x] = "loaded" => stage[x] = "loaded" /\ schemas'[x] = schemas[x]
        BY <1>1, <1>9, <1>11 DEF TypeOK
      <3>2. QED
        BY <3>1 DEF Lacks, LoadedKnowsItsImports
    <2>9. \A r \in reads' : r.user \in Wsdls => Missing(r.user)' \subseteq {r.doc}
      BY <1>2, <1>8, <2>6 DEF Lacks
    <2>10. ASSUME NEW v \in Wsdls, NEW x \in Wsdls, Live(v)', waiter'[v] = x
           PROVE  Missing(x)' \subseteq {Doc(v)}
      BY <1>2, <1>7, <2>4, <2>6, <2>10 DEF Lacks
    <2>11. Lacks'
      BY <2>1, <2>7, <2>8, <2>9, <2>10 DEF Lacks
    <2>12. \A d \in Calls : InTurn(d)' <=> d = loadedBy[w]
      BY <1>2, <2>1 DEF InTurn
    <2>13. QED
      BY <1>4, <1>5, <2>2, <2>3, <2>5, <2>11, <2>12
  <1>12. QED
    BY <1>10, <1>11

\* The tick of a load: its document is parsed.
LEMMA ParseIInv ==
  ASSUME IInv, Parse
  PROVE  IInv'
  <1> USE DEF IInv, Order
  <1>1. active = Idle /\ ~crashed /\ queue # <<>> /\ queue' = Tail(queue)
    BY DEF Parse, MayStart
  <1>2. queue' \in Seq(Tasks) /\ Head(queue) = queue[1] /\ 1 \in 1..Len(queue) /\ Head(queue) \in Tasks
    BY <1>1 DEF TypeOK
  <1>3. PICK w \in Wsdls : w = Head(queue).wsdl
    BY <1>2, TaskLemma
  <1>4. stage[w] = "ticking" /\ LoadUp(w) /\ CallOf(Head(queue)) = loadedBy[w]
    BY <1>2, <1>3 DEF Parse, QueueOK, CallOf
  <1>5. PICK c \in Calls : c = loadedBy[w]
    BY <1>4, LoadLemma
  <1>6. ~InTurn(c) /\ \A d \in Calls : ~InTurn(d)
    BY <1>1, IdleLemma
  <1>7. UNCHANGED <<reads, waiter, loadedBy, outcome, crashed, cache, result>>
    BY <1>4 DEF LoadUp
  <1>8. Queued(c) = {1} /\ outcome[c] = "pending"
    <2>1. 1 \in Queued(c)
      BY <1>2, <1>4, <1>5 DEF Queued
    <2>2. QED
      BY <1>1, <2>1 DEF Sole, OneOf, NoneOf
  <1>9. QueueOK'
    <2>1. ASSUME NEW i \in 1..Len(queue'), queue'[i].do = "parse"
          PROVE  stage'[queue'[i].wsdl] = "ticking"
      <3>1. i + 1 \in 1..Len(queue) /\ queue'[i] = queue[i + 1] /\ i + 1 # 1
        BY <1>1, <2>1 DEF TypeOK
      <3>2. CallOf(queue[i + 1]) # c
        BY <1>8, <3>1 DEF Queued
      <3>3. PICK x \in Wsdls : x = queue[i + 1].wsdl
        BY <3>1, TaskLemma DEF TypeOK
      <3>4. x # w /\ stage[x] = "ticking"
        BY <1>5, <2>1, <3>1, <3>2, <3>3 DEF CallOf, QueueOK
      <3>5. stage'[x] = stage[x]
        BY <1>4, <3>4 DEF LoadUp, TypeOK
      <3>6. QED
        BY <3>1, <3>3, <3>4, <3>5
    <2>2. QED
      BY <2>1 DEF QueueOK
  <1>10. /\ TypeOK' /\ Order' /\ Lacks'
         /\ \A d \in Calls : InTurn(d)' <=> d = c
    BY <1>2, <1>4, <1>5, <1>9, LoadUpLemma
  <1>11. Sole'
    BY <1>1, <1>4, <1>5, <1>6, <1>7, <1>8, <1>10, SoleHead
  <1>12. QED
    BY <1>10, <1>11

\* loadSync parses its document in the turn of the call.
LEMMA ParseSyncIInv ==
  ASSUME IInv, ParseSync
  PROVE  IInv'
  <1> USE DEF IInv, Order
  <1>1. active.op = "parse" /\ LoadUp(active.wsdl) /\ queue' = queue
    BY DEF ParseSync
  <1>2. PICK w \in Wsdls : w = active.wsdl
    BY <1>1, ActiveLemma
  <1>3. stage[w] = "ticking" /\ LoadUp(w)
    BY <1>1, <1>2 DEF TurnOK
  <1>4. PICK c \in Calls : c = loadedBy[w]
    BY <1>3, LoadLemma
  <1>5. \A d \in Calls : InTurn(d) <=> d = c
    BY <1>1, <1>2, <1>4 DEF InTurn
  <1>6. UNCHANGED <<reads, waiter, loadedBy, outcome, crashed, cache, result>>
    BY <1>3 DEF LoadUp
  <1>7. ~crashed /\ outcome[c] = "pending" /\ Queued(c) = {} /\ Reading(c) = {}
    <2>1. ~crashed
      BY <1>1 DEF TurnOK
    <2>2. QED
      BY <1>5, <2>1 DEF Sole, OneOf, NoneOf
  <1>8. QueueOK'
    <2>1. ASSUME NEW i \in 1..Len(queue), queue[i].do = "parse"
          PROVE  stage'[queue[i].wsdl] = "ticking"
      <3>1. CallOf(queue[i]) # c
        BY <1>7 DEF Queued
      <3>2. PICK x \in Wsdls : x = queue[i].wsdl
        BY TaskLemma DEF TypeOK
      <3>3. x # w /\ stage[x] = "ticking"
        BY <1>4, <2>1, <3>1, <3>2 DEF CallOf, QueueOK
      <3>4. stage'[x] = stage[x]
        BY <1>3, <3>3 DEF LoadUp, TypeOK
      <3>5. QED
        BY <3>2, <3>3, <3>4
    <2>2. QED
      BY <1>1, <2>1 DEF QueueOK
  <1>9. /\ TypeOK' /\ Order' /\ Lacks'
        /\ \A d \in Calls : InTurn(d)' <=> d = c
    <2>1. queue' \in Seq(Tasks)
      BY <1>1 DEF TypeOK
    <2>2. QED
      BY <1>3, <1>4, <1>8, <2>1, LoadUpLemma
  <1>10. Sole'
    <2>1. SameCalls
      BY <1>6 DEF SameCalls, CallOf
    <2>2. QED
      BY <1>1, <1>5, <1>6, <1>7, <1>9, <2>1, SoleTurn
  <1>11. QED
    BY <1>9, <1>10

\* A client is made from a cached object that may not be loaded.
LEMMA CachedClientIInv ==
  ASSUME IInv, CachedClient
  PROVE  IInv'
  <1> USE DEF IInv, Order
  <1>1. /\ active = Idle /\ active' = Idle /\ active'.op = "idle" /\ ~crashed
        /\ queue # <<>> /\ queue' = Tail(queue)
        /\ UNCHANGED <<reads, wsdlCache, cache, stage, todo, waiter, loadedBy, schemas,
                       refs, defect>>
    BY DEF CachedClient, MayStart, Idle
  <1>2. queue' \in Seq(Tasks) /\ Head(queue) \in Tasks /\ Head(queue).do = "client"
    BY <1>1 DEF TypeOK, CachedClient
  <1>3. PICK w \in Wsdls, c \in Calls : w = Head(queue).wsdl /\ c = Head(queue).call
    BY <1>2, TaskLemma
  <1>4. CallOf(Head(queue)) = c
    BY <1>2, <1>3 DEF CallOf
  <1>5. \A d \in Calls : ~InTurn(d) /\ ~(InTurn(d)')
    BY <1>1, IdleLemma DEF InTurn, Idle
  <1>6. \A x \in Wsdls : Missing(x)' = Missing(x)
    BY <1>1 DEF Missing, Todo
  <1>7. CASE Answer(c, w) /\ crashed' = crashed
    <2>1. /\ outcome'[c] = "wsdl" /\ outcome' \in [Calls -> Outcomes]
          /\ \A d \in Calls \ {c} : outcome'[d] = outcome[d] /\ result'[d] = result[d]
          /\ result' \in [Calls -> Wsdls \cup {None}]
      BY <1>7, Distinct DEF Answer, TypeOK, Outcomes
    <2>2. TypeOK'
      BY <1>1, <1>2, <1>7, <2>1 DEF TypeOK
    <2>3. CachesOK'
      BY <1>1, <2>1 DEF CachesOK, IsLoaded
    <2>4. Order' /\ Lacks'
      BY <1>1, <1>6, <2>3, EndOrder
    <2>5. Sole'
      BY <1>1, <1>4, <1>5, <2>1, SoleHead
    <2>6. QED
      BY <2>2, <2>4, <2>5
  <1>8. CASE crashed' = TRUE /\ UNCHANGED <<outcome, result>>
    <2>1. TypeOK'
      BY <1>1, <1>2, <1>8 DEF TypeOK
    <2>2. CachesOK'
      BY <1>1, <1>8 DEF CachesOK, IsLoaded
    <2>3. Order' /\ Lacks'
      BY <1>1, <1>6, <2>2, EndOrder
    <2>4. Sole'
      BY <1>8 DEF Sole
    <2>5. QED
      BY <2>1, <2>3, <2>4
  <1>9. QED
    BY <1>3, <1>7, <1>8 DEF CachedClient

\* Merging keeps every Schema that is there and leaves something for the
\* document that is merged.
LEMMA MergedLemma ==
  ASSUME TypeOK, NEW w \in Wsdls, NEW v \in Wsdls, schemas' = Merged(w, v)
  PROVE  /\ schemas' \in [Wsdls -> [Docs -> Wsdls \cup {None, Plain}]]
         /\ \A x \in Wsdls \ {w} : schemas'[x] = schemas[x]
         /\ \A e \in Docs : schemas[w][e] # None => schemas'[w][e] # None
         /\ schemas'[w][Doc(v)] # None
  <1> DEFINE Taken(e) == IF schemas[w][e] \in {None, Plain} /\ schemas[v][e] # None
                           THEN schemas[v][e] ELSE schemas[w][e]
  <1>1. Doc(v) \in Docs
    BY DocLemma
  <1>2. \A x \in Wsdls, e \in Docs : schemas[x][e] \in Wsdls \cup {None, Plain}
    BY DEF TypeOK
  <1>3. CASE Parsed(v)
    <2>1. schemas' = [schemas EXCEPT ![w] = [e \in Docs |-> Taken(e)]]
      BY <1>3 DEF Merged
    <2>2. [e \in Docs |-> Taken(e)] \in [Docs -> Wsdls \cup {None, Plain}]
      BY <1>2
    <2>3. schemas'[w] = [e \in Docs |-> Taken(e)]
      BY <2>1 DEF TypeOK
    <2>4. \A e \in Docs : schemas'[w][e] = Taken(e)
      BY <2>3
    <2>5. schemas'[w][Doc(v)] # None
      BY <1>1, <1>3, <2>4, Distinct DEF Parsed
    <2>6. QED
      BY <2>1, <2>2, <2>4, <2>5 DEF TypeOK
  <1>4. CASE ~Parsed(v)
    <2> DEFINE kept == schemas[w][Doc(v)]
               new == IF kept = None THEN Plain ELSE kept
    <2>1. schemas' = [schemas EXCEPT ![w] = [schemas[w] EXCEPT ![Doc(v)] = new]]
      BY <1>4 DEF Merged
    <2>2. schemas[w] \in [Docs -> Wsdls \cup {None, Plain}]
      BY DEF TypeOK
    <2>3. [schemas[w] EXCEPT ![Doc(v)] = new] \in [Docs -> Wsdls \cup {None, Plain}]
      BY <1>1, <2>2
    <2>4. \A e \in Docs : schemas'[w][e] =
            IF e = Doc(v) /\ schemas[w][e] = None THEN Plain ELSE schemas[w][e]
      BY <1>1, <2>1, <2>2 DEF TypeOK
    <2>5. schemas'[w][Doc(v)] # None
      BY <1>1, <2>4, Distinct
    <2>6. QED
      BY <2>1, <2>3, <2>4, <2>5, Distinct DEF TypeOK
  <1>5. QED
    BY <1>3, <1>4

\* After the merge of what was missing nothing is missing.
LEMMA MergeOrder ==
  ASSUME TypeOK, Order, Lacks, NEW w \in Wsdls, NEW v \in Wsdls, Merge(w, v),
         stage[w] = "including",
         \A x \in Wsdls : Live(x) => waiter[x] # w,
         \A r \in reads : r.user # w,
         todo' \in [Wsdls -> Seq(Docs)],
         \A x \in Wsdls \ {w} : todo'[x] = todo[x],
         \A d \in Imported[Doc(w)] : schemas[w][d] = None /\ d # Doc(v) => d \in Todo(w)',
         UNCHANGED <<queue, reads, wsdlCache, cache, stage, waiter, loadedBy, refs, outcome,
                     result, crashed, defect>>
  PROVE  /\ TypeOK' /\ Order' /\ Lacks'
         /\ \A d \in Calls : InTurn(d)' <=> d = loadedBy[w]
  <1> USE DEF Order
  <1>1. active'.op = "include" /\ active'.wsdl = w /\ active' \in Activities
    BY DEF Merge, Activities
  <1>2. /\ schemas' \in [Wsdls -> [Docs -> Wsdls \cup {None, Plain}]]
        /\ \A x \in Wsdls \ {w} : schemas'[x] = schemas[x]
        /\ \A e \in Docs : schemas[w][e] # None => schemas'[w][e] # None
        /\ schemas'[w][Doc(v)] # None
    BY MergedLemma DEF Merge
  <1>3. TypeOK'
    BY <1>1, <1>2 DEF TypeOK
  <1>4. \A x \in Wsdls : Live(x)' <=> Live(x)
    BY DEF Live
  <1>5. Chains' /\ ReadsOK' /\ QueueOK' /\ CachesOK'
    BY DEF Chains, Chain, Live, ReadsOK, ReadOK, QueueOK, CachesOK, IsLoaded
  <1>6. TurnOK' /\ OneLoad'
    BY <1>1, <1>4 DEF TurnOK, OneLoad
  <1>7. Missing(w)' = {}
    <2>1. Imported[Doc(w)] \subseteq Docs
      BY DocLemma
    <2>2. \A d \in Imported[Doc(w)] : schemas'[w][d] # None \/ d \in Todo(w)'
      BY <1>2, <2>1
    <2>3. QED
      BY <2>2 DEF Missing
  <1>8. \A x \in Wsdls \ {w} : Missing(x)' = Missing(x)
    BY <1>2 DEF Missing, Todo
  <1>9. LoadedKnowsItsImports'
    <2>1. \A x \in Wsdls : stage'[x] = "loaded" => stage[x] = "loaded" /\ schemas'[x] = schemas[x]
      BY <1>2
    <2>2. QED
      BY <2>1 DEF Lacks, LoadedKnowsItsImports
  <1>10. \A r \in reads' : r.user \in Wsdls => Missing(r.user)' \subseteq {r.doc}
    BY <1>8 DEF Lacks
  <1>11. ASSUME NEW x \in Wsdls, NEW y \in Wsdls, Live(x)', waiter'[x] = y
         PROVE  Missing(y)' \subseteq {Doc(x)}
    BY <1>4, <1>8, <1>11 DEF Lacks
  <1>12. Lacks'
    BY <1>1, <1>7, <1>9, <1>10, <1>11 DEF Lacks
  <1>13. \A d \in Calls : InTurn(d)' <=> d = loadedBy[w]
    BY <1>1 DEF InTurn
  <1>14. QED
    BY <1>3, <1>5, <1>6, <1>12, <1>13

\* Taking the first of the includes that are left.
LEMMA TodoLemma ==
  ASSUME todo \in [Wsdls -> Seq(Docs)], NEW w \in Wsdls, todo[w] # <<>>,
         todo' = [todo EXCEPT ![w] = Tail(@)]
  PROVE  /\ Head(todo[w]) \in Docs
         /\ todo' \in [Wsdls -> Seq(Docs)]
         /\ \A x \in Wsdls \ {w} : todo'[x] = todo[x]
         /\ Todo(w) \subseteq {Head(todo[w])} \cup Todo(w)'
  <1>1. todo[w] \in Seq(Docs) /\ todo'[w] = Tail(todo[w])
    OBVIOUS
  <1>2. /\ Head(todo[w]) = todo[w][1] /\ Head(todo[w]) \in Docs
        /\ todo'[w] \in Seq(Docs) /\ Len(todo'[w]) = Len(todo[w]) - 1
        /\ \A i \in 1..Len(todo'[w]) : todo'[w][i] = todo[w][i + 1]
        /\ Len(todo[w]) \in Nat
    BY <1>1
  <1>3. ASSUME NEW i \in 1..Len(todo[w]), i # 1 PROVE todo[w][i] \in Todo(w)'
    <2>1. i - 1 \in 1..Len(todo'[w]) /\ (i - 1) + 1 = i
      BY <1>2, <1>3
    <2>2. todo'[w][i - 1] = todo[w][i]
      BY <1>2, <2>1
    <2>3. QED
      BY <2>1, <2>2 DEF Todo
  <1>4. Todo(w) \subseteq {Head(todo[w])} \cup Todo(w)'
    BY <1>2, <1>3 DEF Todo
  <1>5. QED
    BY <1>2, <1>4

\* The next include of a document.
LEMMA IncludeIInv ==
  ASSUME IInv, Include
  PROVE  IInv'
  <1> USE DEF IInv, Order
  <1>1. PICK w \in Wsdls : w = active.wsdl
    BY ActiveLemma DEF Include
  <1>2. active.op = "include" /\ ~crashed /\ stage[w] = "including"
    BY <1>1 DEF Include, TurnOK
  <1>3. PICK c \in Calls : c = loadedBy[w]
    BY <1>2, LoadLemma
  <1>4. \A e \in Calls : InTurn(e) <=> e = c
    BY <1>1, <1>2, <1>3 DEF InTurn
  <1>5. /\ outcome[c] = "pending" /\ Queued(c) = {} /\ Reading(c) = {}
        /\ result[c] = None
    BY <1>2, <1>4 DEF Sole, OneOf, NoneOf, CachesOK
  <1>6. PICK d : d = Head(todo[w])
    OBVIOUS
  <1>7. PICK v : v = cache[ParserCache(c)][d]
    OBVIOUS
  <1>8. /\ todo[w] # <<>> /\ todo' = [todo EXCEPT ![w] = Tail(@)]
        /\ UNCHANGED <<wsdlCache, cache, refs, result, crashed, defect>>
    BY <1>1 DEF Include
  <1>9. /\ d \in Docs
        /\ todo' \in [Wsdls -> Seq(Docs)]
        /\ \A x \in Wsdls \ {w} : todo'[x] = todo[x]
        /\ Todo(w) \subseteq {d} \cup Todo(w)'
    BY <1>6, <1>8, TodoLemma DEF TypeOK
  <1>10. Free(w, reads) /\ w \in Users
    BY <1>1, <1>2 DEF OneLoad, Free, Users
  <1>11. \A e \in Imported[Doc(w)] : schemas[w][e] = None /\ e # d => e \in Todo(w)'
    BY <1>1, <1>2, <1>9 DEF Lacks, Missing
  <1>12. schemas' = schemas => Missing(w)' \subseteq {d}
    BY <1>11 DEF Missing
  <1>13. /\ v # None => v \in Wsdls /\ Doc(v) = d
         /\ IsUnloaded(v) => v \in Wsdls /\ stage[v] = "unloaded" /\ loadedBy[v] = None
         /\ ~IsLoaded(v) => stage[<<c, d>>] = "absent"
    BY <1>7, <1>9, EntryLemma
  <1>14. Asks(w, d, c)
    BY <1>2, <1>3 DEF Asks
  <1>15. CASE /\ IsLoaded(v) /\ Merge(w, v)
              /\ UNCHANGED <<reads, stage, waiter, loadedBy, queue, outcome>>
    <2>1. v \in Wsdls /\ Doc(v) = d
      BY <1>13, <1>15 DEF IsLoaded
    <2>2. TypeOK' /\ Order' /\ Lacks' /\ \A e \in Calls : InTurn(e)' <=> e = c
      BY <1>2, <1>3, <1>8, <1>9, <1>10, <1>11, <1>15, <2>1, MergeOrder DEF Free
    <2>3. SameCalls
      BY <1>15 DEF SameCalls, CallOf
    <2>4. Sole'
      BY <1>2, <1>4, <1>5, <1>15, <2>2, <2>3, SoleTurn
    <2>5. QED
      BY <2>2, <2>4
  <1>16. CASE IsUnloaded(v) /\ Begins(v, w, c) /\ reads' = reads /\ schemas' = schemas
    <2>1. v \in Wsdls /\ stage[v] = "unloaded" /\ loadedBy[v] = None /\ Doc(v) = d
      BY <1>13, <1>16 DEF IsUnloaded
    <2>2. SameCalls
      BY <1>10, <1>16, <2>1, BeginSameCalls
    <2>3. loadedBy'[v] = c
      BY <1>10, <1>16, <2>1, BeginFacts
    <2>4. \A r \in reads' : <<r.call, r.doc>> # v
      BY <1>16, <2>1 DEF ReadsOK, ReadOK
    <2>5. CASE /\ c \notin Sync /\ active' = Idle /\ outcome' = outcome
               /\ queue' = Append(queue, [do |-> "parse", wsdl |-> v])
      <3> DEFINE t == [do |-> "parse", wsdl |-> v]
      <3>1. active'.op = "idle" /\ active' \in Activities
        BY <2>5 DEF Idle, Activities
      <3>2. TypeOK'
        BY <1>8, <1>9, <1>10, <1>16, <2>1, <2>5, <3>1, BeginFacts, BeginQueue DEF TypeOK
      <3>3. CachesOK'
        BY <1>8, <1>10, <1>16, <2>1, <2>5, BeginCaches
      <3>4. Order'
        BY <1>10, <1>14, <1>16, <2>1, <2>4, <2>5, <3>1, <3>3, BeginOrder
      <3>5. Lacks'
        BY <1>9, <1>10, <1>12, <1>16, <2>1, <3>1, BeginLacks
      <3>6. t \in Tasks /\ CallOf(t)' = c
        <4>1. t \in Tasks /\ t.do = "parse" /\ t.wsdl = v
          BY <2>1 DEF Tasks
        <4>2. QED
          BY <2>3, <4>1 DEF CallOf
      <3>7. \A e \in Calls : ~(InTurn(e)') /\ Reading(e)' = Reading(e)
        BY <1>16, <3>1 DEF InTurn, Reading
      <3>8. Sole'
        BY <1>2, <1>4, <1>5, <2>2, <2>5, <3>6, <3>7, SoleTask
      <3>9. QED
        BY <3>2, <3>4, <3>5, <3>8
    <2>6. CASE /\ c \in Sync /\ queue' = queue
               /\ active' = [op |-> "parse", wsdl |-> v]
               /\ outcome' = [outcome EXCEPT ![c] = "pending"]
      <3>1. active'.op = "parse" /\ active'.wsdl = v /\ active' \in Activities
        BY <2>1, <2>6 DEF Activities
      <3>2. outcome' = outcome
        BY <1>5, <2>6 DEF TypeOK
      <3>3. TypeOK'
        BY <1>8, <1>9, <1>10, <1>16, <2>1, <2>6, <3>1, <3>2, BeginFacts DEF TypeOK
      <3>4. CachesOK'
        BY <1>8, <1>10, <1>16, <2>1, <3>2, BeginCaches
      <3>5. Order'
        BY <1>2, <1>8, <1>10, <1>14, <1>16, <2>1, <2>4, <2>6, <3>1, <3>4, BeginOrder
      <3>6. Lacks'
        BY <1>9, <1>10, <1>12, <1>16, <2>1, <3>1, BeginLacks
      <3>7. \A e \in Calls : InTurn(e)' <=> e = c
        BY <2>3, <3>1 DEF InTurn
      <3>8. Sole'
        BY <1>2, <1>4, <1>5, <1>16, <2>2, <2>6, <3>2, <3>7, SoleTurn
      <3>9. QED
        BY <3>3, <3>5, <3>6, <3>8
    <2>7. QED
      BY <1>1, <1>3, <1>6, <1>7, <1>16, <2>5, <2>6
         DEF Include, Open, OpenSync, StartLoad, Raise, IsLoaded, IsUnloaded
  <1>17. CASE /\ ~IsLoaded(v) /\ c \notin Sync /\ active' = Idle
              /\ reads' = reads \cup {[doc |-> d, user |-> w, call |-> c]}
              /\ UNCHANGED <<stage, waiter, loadedBy, queue, schemas, outcome>>
    <2>1. active'.op = "idle" /\ active' \in Activities
      BY <1>17 DEF Idle, Activities
    <2>2. TypeOK'
      BY <1>8, <1>9, <1>10, <1>17, <2>1 DEF TypeOK
    <2>3. CachesOK'
      BY <1>8, <1>17 DEF CachesOK, IsLoaded
    <2>4. Order'
      BY <1>9, <1>10, <1>13, <1>14, <1>17, <2>1, <2>3, FileOrder DEF Free
    <2>5. Lacks'
      BY <1>9, <1>10, <1>12, <1>17, <2>1, FileLacks
    <2>6. \A e \in Calls : ~(InTurn(e)')
      BY <2>1 DEF InTurn
    <2>7. Sole'
      BY <1>2, <1>4, <1>5, <1>17, <2>6, SoleFile
    <2>8. QED
      BY <2>2, <2>4, <2>5, <2>7
  <1>18. CASE /\ ~IsLoaded(v) /\ c \in Sync /\ Raise(c)
              /\ UNCHANGED <<stage, waiter, loadedBy, reads, queue, schemas>>
    <2>1. active'.op = "idle" /\ active' \in Activities
      BY <1>18 DEF Raise, Idle, Activities
    <2>2. /\ outcome'[c] = "raised" /\ \A e \in Calls \ {c} : outcome'[e] = outcome[e]
          /\ outcome' \in [Calls -> Outcomes]
      BY <1>18 DEF Raise, TypeOK, Outcomes
    <2>3. TypeOK'
      BY <1>8, <1>9, <1>18, <2>1, <2>2 DEF TypeOK
    <2>4. CachesOK'
      BY <1>5, <1>8, <1>18, <2>2 DEF CachesOK, IsLoaded
    <2>5. \A x \in Wsdls : Missing(x)' = Missing(x) \/ Free(x, reads)
      BY <1>9, <1>10, <1>18 DEF Missing, Todo
    <2>6. Order' /\ Lacks'
      BY <1>18, <2>1, <2>4, <2>5, EndOrder
    <2>7. SameCalls /\ \A e \in Calls : ~(InTurn(e)')
      BY <1>18, <2>1 DEF SameCalls, CallOf, InTurn
    <2>8. Sole'
      BY <1>2, <1>4, <1>5, <1>18, <2>2, <2>7, SoleTurn
    <2>9. QED
      BY <2>3, <2>6, <2>8
  <1>19. QED
    <2>1. CASE IsLoaded(v)
      BY <1>1, <1>3, <1>6, <1>7, <1>15, <2>1 DEF Include
    <2>2. CASE ~IsLoaded(v) /\ c \notin Sync
      BY <1>1, <1>3, <1>6, <1>7, <1>16, <1>17, <2>2 DEF Include, Open, StartLoad, Begins
    <2>3. CASE ~IsLoaded(v) /\ c \in Sync
      BY <1>1, <1>3, <1>6, <1>7, <1>16, <1>18, <2>3 DEF Include, OpenSync, Begins
    <2>4. QED
      BY <2>1, <2>2, <2>3

\* A load that ends, well or not: its user is called back.
LEMMA EndLoad ==
  ASSUME TypeOK, Order, Lacks, NEW w \in Wsdls, stage[w] = "including",
         \A v \in Wsdls : Live(v) => waiter[v] # w, \A r \in reads : r.user # w,
         NEW x \in {None, w}, Back(waiter[w], x),
         stage' = [stage EXCEPT ![w] = IF x = None THEN "failed" ELSE "loaded"],
         x = w => \A d \in Imported[Doc(w)] : schemas[w][d] \notin {None, Plain},
         refs' \in [Wsdls -> (SUBSET Docs) \cup {None}],
         UNCHANGED <<queue, reads, wsdlCache, cache, todo, waiter, loadedBy, schemas, outcome,
                     result, crashed, defect>>
  PROVE  /\ TypeOK' /\ Order' /\ Lacks'
         /\ \A d \in Calls : InTurn(d)' <=> d = loadedBy[w]
  <1> USE DEF Order
  <1> DEFINE new == IF x = None THEN "failed" ELSE "loaded"
  <1>1. Live(w) /\ new \in {"including", "loaded", "failed"} /\ new \in {"loaded", "failed"}
    BY DEF Live
  <1>2. Chains' /\ ReadsOK' /\ stage' \in [Wsdls -> Stages]
    <2> HIDE DEF new
    <2>1. QED
      BY <1>1, StageChains DEF new
  <1>3. CachesOK'
    <2> HIDE DEF new
    <2>1. QED
      BY <1>1, StageCaches DEF new
  <1>4. /\ loadedBy[w] \in Calls /\ waiter[w] \in Users
        /\ waiter[w] \in Calls => waiter[w] = loadedBy[w]
        /\ waiter[w] \in Wsdls =>
             loadedBy[waiter[w]] = loadedBy[w] /\ stage[waiter[w]] = "including" /\ waiter[w] # w
    BY <1>1, LoadLemma DEF Chains
  <1>5. \A v \in Wsdls : stage'[v] = IF v = w THEN new ELSE stage[v]
    BY DEF TypeOK
  <1>6. /\ active'.op = "back" /\ active'.to = waiter[w] /\ active'.wsdl = x
        /\ active' \in Activities
    BY <1>4 DEF Back, Activities
  <1>7. TypeOK'
    BY <1>2, <1>6 DEF TypeOK
  <1>8. TurnOK'
    BY <1>4, <1>5, <1>6 DEF TurnOK
  <1>9. QueueOK'
    <2>1. \A v \in Wsdls : stage[v] = "ticking" => stage'[v] = "ticking"
      BY <1>5
    <2>2. \A i \in 1..Len(queue) : queue[i].wsdl \in Wsdls
      BY TaskLemma DEF TypeOK
    <2>3. QED
      BY <2>1, <2>2 DEF QueueOK
  <1>10. OneLoad'
    <2> HIDE DEF new
    <2>1. QED
      BY <1>1, <1>6, BackOneLoad DEF new
  <1>11. Lacks'
    <2>1. \A y \in Wsdls : Missing(y)' = Missing(y) /\ (Live(y)' => Live(y))
      BY <1>1, <1>5 DEF Missing, Todo, Live
    <2>2. LoadedKnowsItsImports'
      BY <1>5 DEF Lacks, LoadedKnowsItsImports
    <2>3. waiter[w] \in Wsdls => Missing(waiter[w]) \subseteq {Doc(w)}
      BY <1>1 DEF Lacks
    <2>4. active'.to \in Wsdls /\ active'.wsdl # None =>
            \A y \in Wsdls : y = active'.to => Missing(y)' \subseteq {Doc(w)}
      BY <1>6, <2>1, <2>3
    <2>5. QED
      BY <1>6, <2>1, <2>2, <2>4 DEF Lacks
  <1>12. \A d \in Calls : InTurn(d)' <=> d = loadedBy[w]
    BY <1>4, BackTurn
  <1>13. QED
    BY <1>2, <1>3, <1>7, <1>8, <1>9, <1>10, <1>11, <1>12

\* The end of a call of openSync by an exception.
LEMMA RaiseIInv ==
  ASSUME IInv, ~crashed, NEW c \in Calls, InTurn(c), \A e \in Calls : InTurn(e) => e = c,
         Raise(c),
         UNCHANGED <<queue, reads, wsdlCache, cache, stage, todo, waiter, loadedBy, schemas,
                     result, crashed, defect>>,
         refs' \in [Wsdls -> (SUBSET Docs) \cup {None}]
  PROVE  IInv'
  <1> USE DEF IInv, Order
  <1>1. outcome[c] = "pending" /\ Queued(c) = {} /\ Reading(c) = {} /\ result[c] = None
    BY DEF Sole, OneOf, NoneOf, CachesOK
  <1>2. active'.op = "idle" /\ active' \in Activities
    BY DEF Raise, Idle, Activities
  <1>3. /\ outcome'[c] = "raised" /\ \A e \in Calls \ {c} : outcome'[e] = outcome[e]
        /\ outcome' \in [Calls -> Outcomes]
    BY DEF Raise, TypeOK, Outcomes
  <1>4. TypeOK'
    BY <1>2, <1>3 DEF TypeOK
  <1>5. CachesOK'
    BY <1>1, <1>3 DEF CachesOK, IsLoaded
  <1>6. \A x \in Wsdls : Missing(x)' = Missing(x)
    BY DEF Missing, Todo
  <1>7. Order' /\ Lacks'
    BY <1>2, <1>5, <1>6, EndOrder
  <1>8. SameCalls /\ \A e \in Calls : ~(InTurn(e)')
    BY <1>2 DEF SameCalls, CallOf, InTurn
  <1>9. Sole'
    BY <1>1, <1>3, <1>8, SoleTurn
  <1>10. QED
    BY <1>4, <1>7, <1>9

\* A document without further includes is post-processed.
LEMMA FinishIInv ==
  ASSUME IInv, Finish
  PROVE  IInv'
  <1> USE DEF IInv, Order
  <1>1. PICK w \in Wsdls : w = active.wsdl
    BY ActiveLemma DEF Finish
  <1>2. active.op = "include" /\ ~crashed /\ stage[w] = "including" /\ todo[w] = <<>>
    BY <1>1 DEF Finish, TurnOK
  <1>3. PICK c \in Calls : c = loadedBy[w]
    BY <1>2, LoadLemma
  <1>4. \A e \in Calls : InTurn(e) <=> e = c
    BY <1>1, <1>2, <1>3 DEF InTurn
  <1>5. outcome[c] = "pending" /\ Queued(c) = {} /\ Reading(c) = {}
    BY <1>2, <1>4 DEF Sole, OneOf, NoneOf
  <1>6. UNCHANGED <<queue, reads, wsdlCache, cache, todo, waiter, loadedBy, schemas,
                    result, defect>>
    BY DEF Finish
  <1>7. CASE \E d \in Docs : schemas[w][d] = Plain
    <2>1. /\ LeaveTurn(w) /\ UNCHANGED stage
          /\ refs' \in [Wsdls -> (SUBSET Docs) \cup {None}]
      <3>1. PICK some \in SUBSET {s \in SchemasOf(w) : refs[s] = None} :
                   refs' = ResolvedBy(w, some)
        BY <1>1, <1>7 DEF Finish
      <3>2. refs' \in [Wsdls -> (SUBSET Docs) \cup {None}]
        BY <3>1 DEF TypeOK, ResolvedBy
      <3>3. QED
        BY <1>1, <1>7, <3>2 DEF Finish
    <2>2. CASE c \in Sync
      BY <1>2, <1>3, <1>4, <1>6, <2>1, <2>2, RaiseIInv DEF LeaveTurn
    <2>3. CASE c \notin Sync
      <3>1. crashed' = TRUE /\ UNCHANGED <<active, outcome>>
        BY <1>3, <2>1, <2>3 DEF LeaveTurn
      <3>2. TypeOK'
        BY <1>6, <2>1, <3>1 DEF TypeOK
      <3>3. Chains' /\ ReadsOK' /\ QueueOK' /\ CachesOK'
        BY <1>6, <2>1, <3>1
           DEF Chains, Chain, Live, ReadsOK, ReadOK, QueueOK, CachesOK, IsLoaded
      <3>4. \A x \in Wsdls : Live(x)' = Live(x) /\ Missing(x)' = Missing(x)
        BY <1>6, <2>1 DEF Live, Missing, Todo
      <3>5. TurnOK' /\ OneLoad'
        BY <1>2, <1>6, <2>1, <3>1, <3>4 DEF TurnOK, OneLoad
      <3>6. LoadedKnowsItsImports'
        BY <1>6, <2>1 DEF Lacks, LoadedKnowsItsImports
      <3>7. \A x \in Wsdls : x = active'.wsdl => Missing(x)' = {}
        BY <1>1, <1>2, <3>1, <3>4 DEF Lacks
      <3>8. Lacks'
        BY <1>1, <1>2, <1>6, <3>1, <3>4, <3>6, <3>7 DEF Lacks
      <3>9. Sole'
        BY <3>1 DEF Sole
      <3>10. QED
        BY <3>2, <3>3, <3>5, <3>8, <3>9
    <2>4. QED
      BY <2>2, <2>3
  <1>8. CASE ~\E d \in Docs : schemas[w][d] = Plain
    <2>1. PICK x \in {None, w} :
            /\ Back(waiter[w], x)
            /\ stage' = [stage EXCEPT ![w] = IF x = None THEN "failed" ELSE "loaded"]
      <3>1. w # None
        BY Distinct
      <3>2. \/ Back(waiter[w], None) /\ stage' = [stage EXCEPT ![w] = "failed"]
            \/ Back(waiter[w], w) /\ stage' = [stage EXCEPT ![w] = "loaded"]
        BY <1>1, <1>8 DEF Finish
      <3>3. QED
        BY <3>1, <3>2
    <2>2. UNCHANGED <<crashed, outcome>>
      BY <1>1, <1>8 DEF Finish
    <2>3. refs' \in [Wsdls -> (SUBSET Docs) \cup {None}]
      <3>1. refs' = ResolvedBy(w, {v \in SchemasOf(w) : refs[v] = None})
        BY <1>1, <1>8 DEF Finish
      <3>2. QED
        BY <3>1 DEF TypeOK, ResolvedBy
    <2>4. \A d \in Imported[Doc(w)] : schemas[w][d] \notin {None, Plain}
      <3>1. Imported[Doc(w)] \subseteq Docs
        BY DocLemma
      <3>2. Missing(w) = {} /\ Todo(w) = {}
        BY <1>1, <1>2 DEF Lacks, Todo
      <3>3. QED
        BY <1>8, <3>1, <3>2 DEF Missing
    <2>5. \A v \in Wsdls : Live(v) => waiter[v] # w
      BY <1>1, <1>2 DEF OneLoad
    <2>6. \A r \in reads : r.user # w
      BY <1>1, <1>2 DEF OneLoad
    <2>7. TypeOK' /\ Order' /\ Lacks' /\ \A e \in Calls : InTurn(e)' <=> e = c
      BY <1>2, <1>3, <1>6, <2>1, <2>2, <2>3, <2>4, <2>5, <2>6, EndLoad
    <2>8. SameCalls
      BY <1>6 DEF SameCalls, CallOf
    <2>9. Sole'
      BY <1>2, <1>4, <1>5, <1>6, <2>2, <2>7, <2>8, SoleTurn
    <2>10. QED
      BY <2>7, <2>9
  <1>9. QED
    BY <1>7, <1>8

\* A load that an object waited for has ended.
LEMMA BackToWsdlIInv ==
  ASSUME IInv, BackToWsdl
  PROVE  IInv'
  <1> USE DEF IInv, Order
  <1>1. PICK w \in Wsdls : w = active.to
    BY DEF BackToWsdl
  <1>2. /\ active.op = "back" /\ ~crashed /\ stage[w] = "including"
        /\ active.wsdl \in Wsdls \cup {None}
    BY <1>1, ActiveLemma DEF BackToWsdl, TurnOK
  <1>3. PICK c \in Calls : c = loadedBy[w]
    BY <1>2, LoadLemma
  <1>4. \A e \in Calls : InTurn(e) <=> e = c
    BY <1>1, <1>2, <1>3, Distinct DEF InTurn
  <1>5. outcome[c] = "pending" /\ Queued(c) = {} /\ Reading(c) = {}
    BY <1>2, <1>4 DEF Sole, OneOf, NoneOf
  <1>6. (\A v \in Wsdls : Live(v) => waiter[v] # w) /\ \A r \in reads : r.user # w
    BY <1>1, <1>2 DEF OneLoad
  <1>7. UNCHANGED <<queue, reads, wsdlCache, cache, todo, waiter, loadedBy, refs, result,
                    crashed, defect>>
    BY DEF BackToWsdl
  <1>8. SameCalls
    BY <1>7 DEF SameCalls, CallOf
  <1>9. CASE active.wsdl = None /\ c \notin Sync
    <2>1. /\ Back(waiter[w], None)
          /\ stage' = [stage EXCEPT ![w] = "failed"]
          /\ UNCHANGED <<schemas, outcome>>
      BY <1>1, <1>3, <1>9 DEF BackToWsdl
    <2>2. w # None
      BY Distinct
    <2>3. TypeOK' /\ Order' /\ Lacks' /\ \A e \in Calls : InTurn(e)' <=> e = c
      BY <1>2, <1>3, <1>6, <1>7, <2>1, <2>2, EndLoad DEF TypeOK
    <2>4. Sole'
      BY <1>2, <1>4, <1>5, <1>7, <1>8, <2>1, <2>3, SoleTurn
    <2>5. QED
      BY <2>3, <2>4
  <1>10. CASE active.wsdl = None /\ c \in Sync
    <2>1. Raise(c) /\ UNCHANGED <<stage, schemas>>
      BY <1>1, <1>3, <1>10 DEF BackToWsdl
    <2>2. refs' \in [Wsdls -> (SUBSET Docs) \cup {None}]
      BY <1>7 DEF TypeOK
    <2>3. QED
      BY <1>2, <1>4, <1>7, <2>1, <2>2, RaiseIInv
  <1>11. CASE active.wsdl # None
    <2>1. PICK v \in Wsdls : v = active.wsdl
      BY <1>2, <1>11
    <2>2. Merge(w, v) /\ UNCHANGED <<stage, outcome>>
      BY <1>1, <1>11, <2>1 DEF BackToWsdl
    <2>3. Missing(w) \subseteq {Doc(v)}
      BY <1>1, <1>2, <1>11, <2>1 DEF Lacks
    <2>4. \A d \in Imported[Doc(w)] : schemas[w][d] = None /\ d # Doc(v) => d \in Todo(w)'
      BY <1>7, <2>3 DEF Missing, Todo
    <2>5. todo' \in [Wsdls -> Seq(Docs)]
      BY <1>7 DEF TypeOK
    <2>6. TypeOK' /\ Order' /\ Lacks' /\ \A e \in Calls : InTurn(e)' <=> e = c
      BY <1>2, <1>3, <1>6, <1>7, <2>2, <2>4, <2>5, MergeOrder
    <2>7. Sole'
      BY <1>2, <1>4, <1>5, <1>7, <1>8, <2>2, <2>6, SoleTurn
    <2>8. QED
      BY <2>6, <2>7
  <1>12. QED
    BY <1>9, <1>10, <1>11

\* A call is told how its load ended.
LEMMA BackToCallIInv ==
  ASSUME IInv, BackToCall
  PROVE  IInv'
  <1> USE DEF IInv, Order
  <1>1. PICK c \in Calls : c = active.to
    BY DEF BackToCall
  <1>2. PICK x \in Wsdls \cup {None} : x = active.wsdl
    BY ActiveLemma DEF BackToCall
  <1>3. active.op = "back" /\ ~crashed /\ active'.op = "idle" /\ active' \in Activities
    BY DEF BackToCall, Idle, Activities
  <1>4. \A e \in Calls : InTurn(e) <=> e = c
    BY <1>1, <1>3, Distinct DEF InTurn
  <1>5. outcome[c] = "pending" /\ Queued(c) = {} /\ Reading(c) = {}
    BY <1>3, <1>4 DEF Sole, OneOf, NoneOf
  <1>6. /\ UNCHANGED <<queue, reads, wsdlCache, stage, todo, waiter, loadedBy, schemas, refs,
                       crashed, defect>>
        /\ Answer(c, x)
    BY <1>1, <1>2 DEF BackToCall
  <1>7. /\ outcome' \in [Calls -> Outcomes] /\ result' \in [Calls -> Wsdls \cup {None}]
        /\ \A e \in Calls \ {c} : outcome'[e] = outcome[e] /\ result'[e] = result[e]
        /\ outcome'[c] \notin {"none", "pending"} /\ result'[c] = x
        /\ x # None => outcome'[c] = "wsdl"
    BY <1>6 DEF Answer, TypeOK, Outcomes
  <1>8. x # None => x \in Wsdls /\ Doc(x) = Root[c] /\ ~IsUnloaded(x)
    <2>1. x # None => stage[x] = "loaded" /\ waiter[x] = c
      BY <1>1, <1>2, <1>3 DEF TurnOK
    <2>2. QED
      BY <1>2, <2>1, LoadLemma DEF IsUnloaded
  <1>9. \A k \in Caches, d \in Docs :
          \/ cache'[k][d] = cache[k][d]
          \/ x # None /\ d = Root[c] /\ cache'[k][d] = x
    BY <1>1, <1>2 DEF BackToCall, TypeOK
  <1>10. cache' \in [Caches -> [Docs -> Wsdls \cup {None}]]
    BY <1>1, <1>2 DEF BackToCall, TypeOK
  <1>11. TypeOK'
    BY <1>3, <1>6, <1>7, <1>10 DEF TypeOK
  <1>12. CachesOK'
    <2>1. \A k \in Caches, d \in Docs : cache'[k][d] # None => Doc(cache'[k][d]) = d
      BY <1>8, <1>9 DEF CachesOK
    <2>2. ASSUME NEW e \in Calls, NEW d \in Docs, stage'[<<e, d>>] # "absent"
          PROVE  IsLoaded(cache[ParserCache(e)][d])'
      <3>1. ParserCache(e) \in Caches
        BY ParserCacheLemma
      <3>2. IsLoaded(cache[ParserCache(e)][d])
        BY <1>6, <2>2 DEF CachesOK
      <3>3. CASE cache'[ParserCache(e)][d] = cache[ParserCache(e)][d]
        BY <1>6, <3>2, <3>3 DEF IsLoaded, ParserCache
      <3>4. CASE x # None /\ cache'[ParserCache(e)][d] = x
        BY <1>6, <1>8, <3>4 DEF IsLoaded, IsUnloaded, ParserCache
      <3>5. QED
        BY <1>9, <3>1, <3>3, <3>4
    <2>3. \A e \in Calls : outcome'[e] = "none" => outcome[e] = "none"
      BY <1>7
    <2>4. \A e \in Calls : result'[e] # None => outcome'[e] = "wsdl"
      BY <1>7 DEF CachesOK
    <2>5. QED
      BY <1>6, <2>1, <2>2, <2>3, <2>4 DEF CachesOK
  <1>13. Order' /\ Lacks'
    <2>1. \A y \in Wsdls : Missing(y)' = Missing(y)
      BY <1>6 DEF Missing, Todo
    <2>2. QED
      BY <1>3, <1>6, <1>12, <2>1, EndOrder
  <1>14. Sole'
    <2>1. SameCalls /\ \A e \in Calls : ~(InTurn(e)')
      BY <1>3, <1>6 DEF SameCalls, CallOf, InTurn
    <2>2. QED
      BY <1>3, <1>4, <1>5, <1>6, <1>7, <2>1, SoleTurn
  <1>15. QED
    BY <1>11, <1>13, <1>14

\* Every step keeps the inductive invariant.
LEMMA NextIInv == IInv /\ [Next]_vars => IInv'
  <1> SUFFICES ASSUME IInv, [Next]_vars PROVE IInv'
    OBVIOUS
  <1>1. CASE UNCHANGED vars
    <2> USE <1>1 DEF vars
    <2>1. TypeOK /\ Order /\ Sole /\ Lacks
      BY DEF IInv
    <2>2. TypeOK'
      BY <2>1 DEF TypeOK
    <2>3. \A w \in Wsdls : (Live(w)' <=> Live(w)) /\ (Chain(w) => Chain(w)') /\ Missing(w)' = Missing(w)
      BY DEF Live, Chain, Missing, Todo
    <2>4. Chains' /\ ReadsOK' /\ TurnOK' /\ QueueOK'
      BY <2>1, <2>3 DEF Order, Chains, ReadsOK, ReadOK, TurnOK, QueueOK
    <2>5. CachesOK'
      BY <2>1 DEF Order, CachesOK, IsLoaded, ParserCache
    <2>6. OneLoad'
      BY <2>1, <2>3 DEF Order, OneLoad
    <2>7. \A c \in Calls :
            (InTurn(c)' <=> InTurn(c)) /\ Queued(c)' = Queued(c) /\ Reading(c)' = Reading(c)
      BY DEF InTurn, Queued, CallOf, Reading
    <2>8. Sole'
      BY <2>1, <2>7 DEF Sole, OneOf, NoneOf
    <2>9. Lacks'
      <3>1. LoadedKnowsItsImports'
        BY <2>1 DEF Lacks, LoadedKnowsItsImports
      <3>2. \A r \in reads' : r.user \in Wsdls => Missing(r.user)' \subseteq {r.doc}
        BY <2>1, <2>3 DEF Lacks
      <3>3. \A x \in Wsdls : active.op = "include" /\ x = active.wsdl => Missing(x)' = {}
        BY <2>1, <2>3 DEF Lacks
      <3>4. \A v \in Wsdls, x \in Wsdls :
              Live(v)' /\ x = waiter[v] => Missing(x)' \subseteq {Doc(v)}
        BY <2>1, <2>3 DEF Lacks
      <3>5. \A x \in Wsdls :
              active.op = "back" /\ x = active.to /\ active.wsdl # None =>
                Missing(x)' \subseteq {Doc(active.wsdl)}
        BY <2>1, <2>3 DEF Lacks
      <3>6. active.op = "include" => active.wsdl \in Wsdls
        BY <2>1, ActiveLemma
      <3>7. QED
        BY <3>1, <3>2, <3>3, <3>4, <3>5, <3>6 DEF Lacks
    <2>10. QED
      BY <2>2, <2>4, <2>5, <2>6, <2>8, <2>9 DEF IInv, Order
  <1>2. CASE \E c \in Calls : Ask(c) \/ AskSync(c)
    BY <1>2, AskIInv, AskSyncIInv
  <1>3. CASE \E r \in reads : ReadEnds(r)
    BY <1>3, ReadIInv, ReadFailsIInv DEF ReadEnds
  <1>4. CASE Tick
    BY <1>4, ParseIInv, CachedClientIInv DEF Tick
  <1>5. CASE Turn
    BY <1>5, ParseSyncIInv, IncludeIInv, FinishIInv, BackToWsdlIInv, BackToCallIInv DEF Turn
  <1>6. QED
    BY <1>1, <1>2, <1>3, <1>4, <1>5 DEF Next

---------------------------------------------------------------------------
(* The theorems.                                                           *)

\* All that is needed of the reachable states.
THEOREM Inductive == Spec => []IInv
  BY InitIInv, NextIInv, PTL DEF Spec

\* Turns, queue, files, caches, stages and definitions always have the shape
\* that the functions of wsdl.js and soap.js expect.
THEOREM TypeCorrect == Spec => []TypeOK
  BY Inductive, PTL DEF IInv

\* Counting the continuations of a call.
LEMMA CountLemma ==
  ASSUME NEW c \in Calls
  PROVE  /\ OneOf(c) => Continuations(c) = 1
         /\ NoneOf(c) => Continuations(c) = 0
  <1>1. Cardinality({}) = 0
    BY FS_EmptySet
  <1>2. \A i : Cardinality({i}) = 1
    BY FS_Singleton
  <1>3. ASSUME NoneOf(c) PROVE Continuations(c) = 0
    BY <1>1, <1>3 DEF NoneOf, Continuations
  <1>4. ASSUME InTurn(c), Queued(c) = {}, Reading(c) = {} PROVE Continuations(c) = 1
    BY <1>1, <1>4 DEF Continuations
  <1>5. ASSUME ~InTurn(c), NEW i, Queued(c) = {i}, Reading(c) = {} PROVE Continuations(c) = 1
    <2>1. Cardinality(Queued(c)) = 1 /\ Cardinality(Reading(c)) = 0
      BY <1>1, <1>2, <1>5
    <2>2. QED
      BY <1>5, <2>1 DEF Continuations
  <1>6. ASSUME ~InTurn(c), Queued(c) = {}, NEW r, Reading(c) = {r} PROVE Continuations(c) = 1
    <2>1. Cardinality(Queued(c)) = 0 /\ Cardinality(Reading(c)) = 1
      BY <1>1, <1>2, <1>6
    <2>2. QED
      BY <1>6, <2>1 DEF Continuations
  <1>7. QED
    BY <1>3, <1>4, <1>5, <1>6 DEF OneOf

\* A pending call of createClient, WSDL.open or openSync has exactly one
\* continuation and another call none, however many calls share caches and
\* however their documents import each other: no callback of _loadAsyncOrSync
\* and _processNextInclude is lost or called twice.
THEOREM OneContinuationHolds == Spec => []OneContinuation
  <1>1. IInv => OneContinuation
    BY CountLemma DEF IInv, Sole, OneContinuation
  <1>2. QED
    BY <1>1, Inductive, PTL

\* A WSDL object that counts as loaded has in definitions.schemas a Schema of
\* every document that its own imports, whoever else was loading that document.
THEOREM LoadedKnowsItsImportsHolds == Spec => []LoadedKnowsItsImports
  <1>1. IInv => LoadedKnowsItsImports
    BY DEF IInv, Lacks
  <1>2. QED
    BY <1>1, Inductive, PTL

---------------------------------------------------------------------------
(* What a user is given.                                                   *)

\* A load that has ended stays ended.
LEMMA LoadedStays ==
  ASSUME IInv, Next, NEW x \in Wsdls, stage[x] = "loaded"
  PROVE  stage'[x] = "loaded"
  <1> USE DEF IInv, Order
  <1>1. ASSUME NEW w \in Wsdls, stage[w] # "loaded", NEW new, stage' = [stage EXCEPT ![w] = new]
        PROVE  stage'[x] = "loaded"
    BY <1>1 DEF TypeOK
  <1>2. ASSUME NEW d \in Docs, NEW user, NEW c \in Calls, Open(d, user, c) \/ OpenSync(d, user, c)
        PROVE  stage'[x] = "loaded"
    <2>1. PICK v : v = cache[ParserCache(c)][d]
      OBVIOUS
    <2>2. IsUnloaded(v) => v \in Wsdls /\ stage[v] = "unloaded"
      BY <2>1, EntryLemma
    <2>3. IsUnloaded(v) => stage' = [stage EXCEPT ![v] = "ticking"]
      BY <1>2, <2>1 DEF Open, OpenSync, StartLoad
    <2>4. ~IsUnloaded(v) => stage' = stage
      BY <1>2, <2>1 DEF Open, OpenSync
    <2>5. QED
      BY <1>1, <2>2, <2>3, <2>4
  <1>3. ASSUME NEW w \in Wsdls, stage[w] = "ticking", LoadUp(w) PROVE stage'[x] = "loaded"
    BY <1>1, <1>3 DEF LoadUp
  <1>4. ASSUME NEW c \in Calls, Ask(c) \/ AskSync(c) PROVE stage'[x] = "loaded"
    <2>1. Root[c] \in Docs
      BY LoaderAssumption
    <2>2. stage' = stage \/ Open(Root[c], c, c) \/ OpenSync(Root[c], c, c)
      BY <1>4 DEF Ask, AskSync
    <2>3. QED
      BY <1>2, <2>1, <2>2
  <1>5. ASSUME NEW r \in reads, ReadEnds(r) PROVE stage'[x] = "loaded"
    <2>1. <<r.call, r.doc>> \in Wsdls /\ stage[<<r.call, r.doc>>] = "absent"
      BY PairLemma DEF TypeOK, ReadsOK, ReadOK
    <2>2. stage' = stage \/ stage' = [stage EXCEPT ![<<r.call, r.doc>>] = "ticking"]
      BY <1>5 DEF ReadEnds, Read, ReadFails, StartLoad
    <2>3. QED
      BY <1>1, <2>1, <2>2
  <1>6. ASSUME Parse PROVE stage'[x] = "loaded"
    <2>1. Head(queue) = queue[1] /\ 1 \in 1..Len(queue) /\ queue[1] \in Tasks
      BY <1>6 DEF Parse, TypeOK
    <2>2. Head(queue).wsdl \in Wsdls /\ stage[Head(queue).wsdl] = "ticking"
      BY <1>6, <2>1, TaskLemma DEF Parse, QueueOK
    <2>3. QED
      BY <1>3, <1>6, <2>2 DEF Parse
  <1>7. ASSUME ParseSync PROVE stage'[x] = "loaded"
    BY <1>3, <1>7, ActiveLemma DEF ParseSync, TurnOK
  <1>8. ASSUME Include PROVE stage'[x] = "loaded"
    <2>1. PICK w \in Wsdls : w = active.wsdl /\ stage[w] = "including"
      BY <1>8, ActiveLemma DEF Include, TurnOK
    <2>2. PICK c \in Calls : c = loadedBy[w]
      BY <2>1, LoadLemma
    <2>3. todo[w] # <<>> /\ todo[w] \in Seq(Docs)
      BY <1>8, <2>1 DEF Include, TypeOK
    <2>4. PICK d \in Docs : d = Head(todo[w])
      BY <2>3
    <2>5. stage' = stage \/ Open(d, w, c) \/ OpenSync(d, w, c)
      BY <1>8, <2>1, <2>2, <2>4 DEF Include
    <2>6. QED
      BY <1>2, <2>5
  <1>9. ASSUME Finish PROVE stage'[x] = "loaded"
    <2>1. active.wsdl \in Wsdls /\ stage[active.wsdl] = "including"
      BY <1>9, ActiveLemma DEF Finish, TurnOK
    <2>2. \/ stage' = stage
          \/ \E new \in {"failed", "loaded"} : stage' = [stage EXCEPT ![active.wsdl] = new]
      BY <1>9 DEF Finish
    <2>3. QED
      BY <1>1, <2>1, <2>2
  <1>10. ASSUME BackToWsdl PROVE stage'[x] = "loaded"
    <2>1. active.to \in Wsdls /\ stage[active.to] = "including"
      BY <1>10 DEF BackToWsdl, TurnOK
    <2>2. stage' = stage \/ stage' = [stage EXCEPT ![active.to] = "failed"]
      BY <1>10 DEF BackToWsdl
    <2>3. QED
      BY <1>1, <2>1, <2>2
  <1>11. ASSUME BackToCall \/ CachedClient PROVE stage'[x] = "loaded"
    BY <1>11 DEF BackToCall, CachedClient
  <1>12. QED
    BY <1>4, <1>5, <1>6, <1>7, <1>8, <1>9, <1>10, <1>11 DEF Next, Tick, Turn

\* No call of createClient passes a cache.
OwnCaches == \A c \in Calls \ Direct : Given[c] = None

\* Then the cache of soap.js is never exchanged and the parser does not work with
\* it: all that is in it, and all that is taken from it, is loaded.
Entries ==
  /\ wsdlCache = ModuleCache
  /\ \A d \in Docs : cache[ModuleCache][d] # None => stage[cache[ModuleCache][d]] = "loaded"
  /\ \A i \in 1..Len(queue) : queue[i].do = "client" => stage[queue[i].wsdl] = "loaded"

\* The parser works with another cache than that of soap.js.
LEMMA ParserCacheIsOther ==
  ASSUME NEW c \in Calls
  PROVE  ParserCache(c) # ModuleCache
  BY LoaderAssumption DEF ParserCache

\* What a step does to the queue.
LEMMA QueueStep ==
  ASSUME IInv, Next
  PROVE  \/ queue' = queue
         \/ queue # <<>> /\ queue' = Tail(queue)
         \/ \E w \in Wsdls : queue' = Append(queue, [do |-> "parse", wsdl |-> w])
         \/ \E c \in Calls \ Direct, w \in Wsdls :
              /\ wsdlCache' = IF Given[c] = None THEN wsdlCache ELSE Given[c]
              /\ w = cache[wsdlCache'][Root[c]]
              /\ queue' = Append(queue, [do |-> "client", wsdl |-> w, call |-> c])
  <1> USE DEF IInv, Order
  <1>1. ASSUME NEW d \in Docs, NEW user, NEW c \in Calls, Open(d, user, c)
        PROVE  queue' = queue \/ \E w \in Wsdls : queue' = Append(queue, [do |-> "parse", wsdl |-> w])
    <2>1. PICK v : v = cache[ParserCache(c)][d]
      OBVIOUS
    <2>2. IsUnloaded(v) => v \in Wsdls
      BY <2>1, EntryLemma
    <2>3. QED
      BY <1>1, <2>1, <2>2 DEF Open, StartLoad
  <1>2. ASSUME NEW c \in Calls, Ask(c)
        PROVE  \/ Open(Root[c], c, c)
               \/ \E w \in Wsdls :
                    /\ c \in Calls \ Direct
                    /\ wsdlCache' = IF Given[c] = None THEN wsdlCache ELSE Given[c]
                    /\ w = cache[wsdlCache'][Root[c]]
                    /\ queue' = Append(queue, [do |-> "client", wsdl |-> w, call |-> c])
    <2>1. PICK hit : hit = cache[wsdlCache'][Root[c]]
      OBVIOUS
    <2>2. wsdlCache' \in Caches /\ Root[c] \in Docs
      BY <1>2, LoaderAssumption DEF Ask, TypeOK, Caches
    <2>3. hit \in Wsdls \cup {None}
      BY <1>2, <2>1, <2>2 DEF TypeOK
    <2>4. QED
      BY <1>2, <2>1, <2>3 DEF Ask
  <1>3. ASSUME NEW r \in reads, ReadEnds(r)
        PROVE  queue' = queue \/ \E w \in Wsdls : queue' = Append(queue, [do |-> "parse", wsdl |-> w])
    <2>1. <<r.call, r.doc>> \in Wsdls
      BY PairLemma DEF TypeOK
    <2>2. QED
      BY <1>3, <2>1 DEF ReadEnds, Read, ReadFails, StartLoad
  <1>4. ASSUME Include
        PROVE  queue' = queue \/ \E w \in Wsdls : queue' = Append(queue, [do |-> "parse", wsdl |-> w])
    <2>1. PICK w \in Wsdls : w = active.wsdl /\ stage[w] = "including"
      BY <1>4, ActiveLemma DEF Include, TurnOK
    <2>2. PICK c \in Calls : c = loadedBy[w]
      BY <2>1, LoadLemma
    <2>3. todo[w] # <<>> /\ todo[w] \in Seq(Docs)
      BY <1>4, <2>1 DEF Include, TypeOK
    <2>4. PICK d \in Docs : d = Head(todo[w])
      BY <2>3
    <2>5. queue' = queue \/ Open(d, w, c)
      BY <1>4, <2>1, <2>2, <2>4 DEF Include
    <2>6. QED
      BY <1>1, <2>5
  <1>5. Root \in [Calls -> Docs]
    BY LoaderAssumption
  <1>6. CASE \E c \in Calls : Ask(c) \/ AskSync(c)
    BY <1>1, <1>2, <1>5, <1>6 DEF AskSync
  <1>7. CASE \E r \in reads : ReadEnds(r)
    BY <1>3, <1>7
  <1>8. CASE Tick
    BY <1>8 DEF Tick, Parse, CachedClient
  <1>9. CASE Turn
    BY <1>4, <1>9 DEF Turn, ParseSync, Finish, BackToWsdl, BackToCall
  <1>10. QED
    BY <1>6, <1>7, <1>8, <1>9 DEF Next

\* The cache of soap.js is not exchanged.
LEMMA SameModuleCache ==
  ASSUME Entries, OwnCaches, Next
  PROVE  wsdlCache' = ModuleCache
  <1>1. CASE \E c \in Calls : Ask(c) \/ AskSync(c)
    BY <1>1 DEF Ask, AskSync, Entries, OwnCaches
  <1>2. CASE \E r \in reads : ReadEnds(r)
    BY <1>2 DEF ReadEnds, Read, ReadFails, Entries
  <1>3. CASE Tick \/ Turn
    BY <1>3 DEF Tick, Parse, CachedClient, LoadUp, Turn, ParseSync, Include, Finish, BackToWsdl,
       BackToCall, Entries
  <1>4. QED
    BY <1>1, <1>2, <1>3 DEF Next

\* What a step puts into the cache of soap.js is loaded.
LEMMA ModuleCacheStep ==
  ASSUME IInv, Entries, OwnCaches, Next, NEW d \in Docs
  PROVE  \/ cache'[ModuleCache][d] = cache[ModuleCache][d]
         \/ cache'[ModuleCache][d] \in Wsdls /\ stage[cache'[ModuleCache][d]] = "loaded"
  <1> USE DEF IInv, Order
  <1>1. ModuleCache \in Caches
    BY DEF Caches
  <1>2. ASSUME NEW r \in reads, Read(r)
        PROVE  cache'[ModuleCache][d] = cache[ModuleCache][d]
    <2>1. ParserCache(r.call) # ModuleCache
      BY ParserCacheIsOther DEF TypeOK
    <2>2. QED
      BY <1>1, <1>2, <2>1 DEF Read, TypeOK
  <1>3. ASSUME BackToCall
        PROVE  \/ cache'[ModuleCache][d] = cache[ModuleCache][d]
               \/ cache'[ModuleCache][d] \in Wsdls /\ stage[cache'[ModuleCache][d]] = "loaded"
    <2>1. PICK x \in Wsdls \cup {None} : x = active.wsdl /\ (x # None => stage[x] = "loaded")
      BY <1>3, ActiveLemma DEF BackToCall, TurnOK
    <2>2. \/ cache' = cache
          \/ x # None /\ cache' = [cache EXCEPT ![ModuleCache][Root[active.to]] = x]
      BY <1>3, <2>1 DEF BackToCall, Entries
    <2>3. QED
      BY <1>1, <2>1, <2>2 DEF TypeOK
  <1>4. CASE \E c \in Calls : Ask(c) \/ AskSync(c)
    BY <1>4 DEF Ask, AskSync, Entries, OwnCaches
  <1>5. CASE \E r \in reads : ReadEnds(r)
    BY <1>2, <1>5 DEF ReadEnds, Read, ReadFails, Entries
  <1>6. CASE Tick
    BY <1>6 DEF Tick, Parse, CachedClient, LoadUp, Entries
  <1>7. CASE Turn
    BY <1>3, <1>7 DEF Turn, ParseSync, LoadUp, Include, Finish, BackToWsdl, BackToCall, Entries
  <1>8. QED
    BY <1>4, <1>5, <1>6, <1>7 DEF Next

\* Entries is an invariant.
LEMMA EntriesStep ==
  ASSUME IInv, Entries, OwnCaches, [Next]_vars
  PROVE  Entries'
  <1> USE DEF IInv, Order
  <1>1. CASE UNCHANGED vars
    BY <1>1 DEF vars, Entries
  <1>2. CASE Next
    <2>1. \A w \in Wsdls : stage[w] = "loaded" => stage'[w] = "loaded"
      BY <1>2, LoadedStays
    <2>2. \A d \in Docs : cache[ModuleCache][d] \in Wsdls \cup {None}
      BY DEF TypeOK, Caches
    <2>3. \A d \in Docs : cache'[ModuleCache][d] # None => stage'[cache'[ModuleCache][d]] = "loaded"
      <3>1. ASSUME NEW d \in Docs, cache'[ModuleCache][d] # None
            PROVE  stage'[cache'[ModuleCache][d]] = "loaded"
        <4>1. \/ cache'[ModuleCache][d] = cache[ModuleCache][d]
              \/ cache'[ModuleCache][d] \in Wsdls /\ stage[cache'[ModuleCache][d]] = "loaded"
          BY <1>2, ModuleCacheStep
        <4>2. cache'[ModuleCache][d] \in Wsdls /\ stage[cache'[ModuleCache][d]] = "loaded"
          BY <2>2, <3>1, <4>1 DEF Entries
        <4>3. QED
          BY <2>1, <4>2
      <3>2. QED
        BY <3>1
    <2>4. wsdlCache' = ModuleCache
      BY <1>2, SameModuleCache
    <2>5. \A i \in 1..Len(queue') : queue'[i].do = "client" => stage'[queue'[i].wsdl] = "loaded"
      <3>1. queue \in Seq(Tasks) /\ \A i \in 1..Len(queue) : queue[i].wsdl \in Wsdls
        BY TaskLemma DEF TypeOK
      <3>2. CASE queue' = queue
        BY <2>1, <3>1, <3>2 DEF Entries
      <3>3. CASE queue # <<>> /\ queue' = Tail(queue)
        <4>1. \A i \in 1..Len(queue') : i + 1 \in 1..Len(queue) /\ queue'[i] = queue[i + 1]
          BY <3>1, <3>3
        <4>2. QED
          BY <2>1, <3>1, <4>1 DEF Entries
      <3>4. CASE \E w \in Wsdls : queue' = Append(queue, [do |-> "parse", wsdl |-> w])
        <4>1. PICK w \in Wsdls : queue' = Append(queue, [do |-> "parse", wsdl |-> w])
          BY <3>4
        <4> DEFINE t == [do |-> "parse", wsdl |-> w]
        <4>2. t.do = "parse"
          OBVIOUS
        <4> HIDE DEF t
        <4>3. \A i \in 1..Len(queue') :
                queue'[i] = t \/ (i \in 1..Len(queue) /\ queue'[i] = queue[i])
          BY <3>1, <4>1 DEF t
        <4>4. QED
          BY <2>1, <3>1, <4>2, <4>3 DEF Entries
      <3>5. CASE \E c \in Calls \ Direct, w \in Wsdls :
                   /\ wsdlCache' = IF Given[c] = None THEN wsdlCache ELSE Given[c]
                   /\ w = cache[wsdlCache'][Root[c]]
                   /\ queue' = Append(queue, [do |-> "client", wsdl |-> w, call |-> c])
        <4>1. PICK c \in Calls \ Direct, w \in Wsdls :
                     /\ w = cache[ModuleCache][Root[c]]
                     /\ queue' = Append(queue, [do |-> "client", wsdl |-> w, call |-> c])
          BY <2>4, <3>5
        <4>2. stage'[w] = "loaded"
          BY <2>1, <4>1, Distinct, LoaderAssumption DEF Entries
        <4> DEFINE t == [do |-> "client", wsdl |-> w, call |-> c]
        <4>3. t.wsdl = w
          OBVIOUS
        <4> HIDE DEF t
        <4>4. \A i \in 1..Len(queue') :
                queue'[i] = t \/ (i \in 1..Len(queue) /\ queue'[i] = queue[i])
          BY <3>1, <4>1 DEF t
        <4>5. QED
          BY <2>1, <3>1, <4>2, <4>3, <4>4 DEF Entries
      <3>6. QED
        BY <1>2, <3>2, <3>3, <3>4, <3>5, QueueStep
    <2>6. QED
      BY <2>3, <2>4, <2>5 DEF Entries
  <1>3. QED
    BY <1>1, <1>2

\* A call is given a WSDL in two places only.
LEMMA ResultStep ==
  ASSUME IInv, Entries, Next, NEW c \in Calls, result'[c] # result[c]
  PROVE  stage[result'[c]] = "loaded"
  <1> USE DEF IInv, Order
  <1>1. CASE BackToCall
    <2>1. PICK e \in Calls, x \in Wsdls \cup {None} : e = active.to /\ x = active.wsdl
      BY <1>1, ActiveLemma DEF BackToCall
    <2>2. active.op = "back" /\ ~crashed /\ InTurn(e)
      BY <1>1, <2>1 DEF BackToCall, InTurn
    <2>3. result[e] = None
      BY <2>2 DEF Sole, NoneOf, CachesOK
    <2>4. result' = [result EXCEPT ![e] = x]
      BY <1>1, <2>1 DEF BackToCall, Answer
    <2>5. x # None /\ result'[c] = x
      BY <2>3, <2>4 DEF TypeOK
    <2>6. QED
      BY <2>1, <2>2, <2>5 DEF TurnOK
  <1>2. CASE CachedClient
    <2>1. Head(queue) = queue[1] /\ 1 \in 1..Len(queue) /\ queue[1] \in Tasks
      BY <1>2 DEF CachedClient, TypeOK
    <2>2. stage[Head(queue).wsdl] = "loaded" /\ Head(queue).call \in Calls
      BY <1>2, <2>1, TaskLemma DEF CachedClient, Entries
    <2>3. result' = result \/ result' = [result EXCEPT ![Head(queue).call] = Head(queue).wsdl]
      BY <1>2 DEF CachedClient, Answer
    <2>4. QED
      BY <2>2, <2>3 DEF TypeOK
  <1>3. CASE ~BackToCall /\ ~CachedClient
    <2>1. result' = result
      BY <1>3 DEF Next, Ask, AskSync, ReadEnds, Read, ReadFails, Tick, Parse, LoadUp, Turn, ParseSync,
         Include, Finish, BackToWsdl
    <2>2. QED
      BY <2>1
  <1>4. QED
    BY <1>1, <1>2, <1>3

\* As long as no call of createClient passes a cache, what a user is given as a
\* WSDL is loaded at that moment, also if it comes from the cache of soap.js.
\* With a cache that the parser shares it may still be loading.
THEOREM GivenIsLoadedHolds ==
  ASSUME OwnCaches
  PROVE  Spec => GivenIsLoaded
  <1>1. ASSUME Init PROVE Entries
    <2>1. ModuleCache \in Caches /\ ModuleCache \notin UserCaches
      BY LoaderAssumption DEF Caches
    <2>2. wsdlCache = ModuleCache /\ \A d \in Docs : cache[ModuleCache][d] = None
      BY <1>1, <2>1 DEF Init
    <2>3. queue = <<>> /\ Len(queue) = 0
      BY <1>1 DEF Init
    <2>4. QED
      BY <2>2, <2>3 DEF Entries
  <1>2. IInv /\ Entries /\ [Next]_vars => Entries'
    BY EntriesStep
  <1>3. IInv /\ Entries /\ [Next]_vars =>
          [\A c \in Calls : result'[c] # result[c] => stage[result'[c]] = "loaded"]_vars
    BY ResultStep
  <1>4. QED
    BY <1>1, <1>2, <1>3, Inductive, PTL DEF Spec, GivenIsLoaded

---------------------------------------------------------------------------
(* The promise of LoadContract, for any graph of imports.                  *)
(*                                                                         *)
(* What a call is given has every document that its document reaches, and  *)
(* nothing else.  The objects that load for one call are a line, each one  *)
(* waiting for the next (Line, Awaited).  An object that has ended left    *)
(* all that it knows with one of the line (Told), and its imports were     *)
(* loaded or are (Closed): when the first of the line ends, it is the only *)
(* one, and what ended is closed under imports (Whole).  That nothing else *)
(* is found is Downward; that a call fails only if a document is           *)
(* defective, Blamed.                                                      *)

\* No two calls share a cache, and none is one of openSync, which may raise.
Separate ==
  /\ OwnCaches
  /\ Sync = {}
  /\ \A b, c \in Calls : Given[b] # None /\ Given[b] = Given[c] => b = c

Closes(S) == \A x \in S : Imported[x] \subseteq S

\* Promise!Reach.
Reach(d) == {e \in Docs : \A S \in SUBSET Docs : d \in S /\ Closes(S) => e \in S}

Defective == {d \in Docs : defect[d] # "none"}

\* The cache of a call has what that call made, or what its user put there.
Homes ==
  /\ \A c \in Calls, d \in Docs :
       cache[ParserCache(c)][d] # None =>
         /\ cache[ParserCache(c)][d][1] \in {c, ParserCache(c)}
         /\ stage[cache[ParserCache(c)][d]] # "absent"
  /\ \A w \in Wsdls : loadedBy[w] # None =>
       cache[ParserCache(loadedBy[w])][Doc(w)] = w /\ outcome[loadedBy[w]] # "none"
  /\ \A r \in reads : cache[ParserCache(r.call)][r.doc] = None
  /\ active.op # "parse"

\* What is loaded is imported, and what is known is reached.
Downward ==
  /\ \A w \in Wsdls : Todo(w) \subseteq Imported[Doc(w)]
  /\ \A w \in Wsdls : waiter[w] \in Wsdls => Doc(w) \in Imported[Doc(waiter[w])]
  /\ \A r \in reads : r.user \in Wsdls => r.doc \in Imported[Doc(r.user)]
  /\ \A w \in Wsdls : loadedBy[w] # None => Doc(w) \in Reach(Root[loadedBy[w]])
  /\ \A r \in reads : r.doc \in Reach(Root[r.call])
  /\ \A w \in Wsdls, d \in Docs : schemas[w][d] # None => d \in Reach(Doc(w))
  /\ \A w \in Wsdls, d \in Docs : schemas[w][d] \notin {None, Plain} => Doc(schemas[w][d]) = d
  /\ \A w \in Wsdls : stage[w] \in {"including", "loaded"} => schemas[w][Doc(w)] = w

\* Those that load for a call, as far as one of them, are a line that ends with
\* an object which all others reach through imports.
LiveOf(c) == {w \in Wsdls : Live(w) /\ loadedBy[w] = c}

EndsWith(S, v) ==
  \A x \in S : /\ waiter[x] # v
               /\ Doc(v) \in Reach(Doc(x))
               /\ x # v => \E y \in S : waiter[y] = x

Line ==
  \A c \in Calls : \A S \in SUBSET LiveOf(c) :
    S # {} /\ (\A v \in S : waiter[v] \in Wsdls => waiter[v] \in S) => \E v \in S : EndsWith(S, v)

\* What is not loaded yet waits for its tick, for a file, for another object or
\* for its turn.
Awaited ==
  \A w \in Wsdls :
    /\ stage[w] = "ticking" => \E i \in 1..Len(queue) : queue[i].do = "parse" /\ queue[i].wsdl = w
    /\ stage[w] = "including" =>
         \/ \E v \in Wsdls : Live(v) /\ waiter[v] = w
         \/ \E r \in reads : r.user = w
         \/ active.op = "include" /\ active.wsdl = w
         \/ active.op = "back" /\ active.to = w

\* The load of a call fails, or has failed.
Failing(c) == active.op = "back" /\ active.wsdl = None /\ InTurn(c)
Lost(c) == Failing(c) \/ outcome[c] = "error"

\* The imports of an object were loaded, are loading or are left to do.
Closed ==
  \A w \in Wsdls : stage[w] \in {"including", "loaded"} =>
    \A d \in Imported[Doc(w)] :
      \/ d \in Todo(w) /\ stage[w] = "including"
      \/ IsLoaded(cache[ParserCache(loadedBy[w])][d])
      \/ \E r \in reads : r.user = w /\ r.doc = d
      \/ Lost(loadedBy[w])

\* Of an object that was loaded one knows that is still loading, or has just
\* ended.
Keeps(u, w) ==
  /\ loadedBy[u] = loadedBy[w]
  /\ stage[u] = "including" \/ (active.op = "back" /\ active.wsdl = u)
  /\ schemas[u][Doc(w)] # None

Told ==
  /\ \A w \in Wsdls : stage[w] = "failed" => Lost(loadedBy[w])
  /\ \A w \in Wsdls : stage[w] = "loaded" /\ outcome[loadedBy[w]] = "pending" =>
       Failing(loadedBy[w]) \/ \E u \in Wsdls : Keeps(u, w)

\* A load fails because of a document that it reaches.
Blamed ==
  \A c \in Calls : Failing(c) => Reach(Root[c]) \cap Defective # {}

\* What users are given, or can be.
Complete(w) ==
  stage[w] = "loaded" /\ \A d \in Docs : schemas[w][d] # None <=> d \in Reach(Doc(w))

Whole ==
  /\ \A c \in Calls : result[c] # None => Complete(result[c]) /\ Doc(result[c]) = Root[c]
  /\ \A d \in Docs : cache[ModuleCache][d] # None => Complete(cache[ModuleCache][d])
  /\ \A i \in 1..Len(queue) :
       queue[i].do = "client" => Complete(queue[i].wsdl) /\ Doc(queue[i].wsdl) = Root[queue[i].call]

\* Whose references are resolved: a Schema that is post-processed too early is
\* one of a document that imports itself.  No definitions are merged before they
\* are there.
Resolved ==
  /\ ~crashed
  /\ \A w \in Wsdls, d \in Docs : schemas[w][d] # Plain
  /\ \A w \in Wsdls, d \in Docs :
       schemas[w][d] \notin {None, Plain, w} => stage[schemas[w][d]] = "loaded" \/ OnCycle(d)
  /\ \A w \in Wsdls :
       refs[w] # None => stage[w] \in {"loaded", "failed"} \/ OnCycle(Doc(w))
  /\ \A w \in Wsdls :
       stage[w] = "loaded" /\ ~OnCycle(Doc(w)) => refs[w] # None /\ Imported[Doc(w)] \subseteq refs[w]

Rest == Homes /\ Downward /\ Line /\ Awaited /\ Closed /\ Told /\ Blamed /\ Whole /\ Resolved

RInv == IInv /\ Entries /\ Rest

---------------------------------------------------------------------------
(* What is reached through imports.                                        *)

\* The contract means the same.
LEMMA ReachIsPromised ==
  ASSUME NEW d
  PROVE  /\ Promise!Reach(d) = Reach(d)
         /\ OnCycle(d) <=> \E e \in Imported[d] : d \in Reach(e)
<1>1. \A x : Promise!Reach(x) = Reach(x)
  BY DEF Promise!Reach, Reach, Closes
<1> QED
  BY <1>1 DEF OnCycle

\* What is imported are documents.
LEMMA ImportedLemma == Imported \in [Docs -> SUBSET Docs]
<1>1. \A d \in Docs : \A i \in 1..Len(Imports[d]) : Imports[d][i] \in Docs
  BY LoaderAssumption
<1> QED
  BY <1>1 DEF Imported

\* A document reaches itself, and with a document its imports.
LEMMA ReachLemma ==
  ASSUME NEW d \in Docs
  PROVE  /\ d \in Reach(d)
         /\ Reach(d) \subseteq Docs
         /\ Closes(Reach(d))
<1>1. d \in Reach(d) /\ Reach(d) \subseteq Docs
  BY DEF Reach
<1>2. ASSUME NEW x \in Reach(d), NEW y \in Imported[x]
      PROVE  y \in Reach(d)
  <2>1. x \in Docs /\ y \in Docs
    BY <1>1, ImportedLemma
  <2>2. ASSUME NEW S \in SUBSET Docs, d \in S, Closes(S)
        PROVE  y \in S
    BY <2>2 DEF Closes, Reach
  <2> QED
    BY <2>1, <2>2 DEF Reach
<1> QED
  BY <1>1, <1>2 DEF Closes

\* It is the least set of this kind.
LEMMA ReachLeast ==
  ASSUME NEW d \in Docs, NEW S \in SUBSET Docs, d \in S, Closes(S)
  PROVE  Reach(d) \subseteq S
BY DEF Reach

\* What a document reaches reaches no more.
LEMMA ReachTrans ==
  ASSUME NEW d \in Docs, NEW e \in Reach(d)
  PROVE  e \in Docs /\ Reach(e) \subseteq Reach(d) /\ Imported[e] \subseteq Reach(d)
<1>1. Reach(d) \in SUBSET Docs /\ Closes(Reach(d))
  BY ReachLemma
<1>2. e \in Docs
  BY <1>1
<1>3. Reach(e) \subseteq Reach(d)
  BY <1>1, <1>2, ReachLeast
<1> QED
  BY <1>1, <1>2, <1>3 DEF Closes

\* What a document imports, it reaches, with all that that reaches.
LEMMA ReachImported ==
  ASSUME NEW d \in Docs, NEW e \in Imported[d]
  PROVE  e \in Docs /\ e \in Reach(d) /\ Reach(e) \subseteq Reach(d)
<1>1. e \in Reach(d)
  BY ReachLemma DEF Closes
<1> QED
  BY <1>1, ReachTrans

\* A document that is imported by one that it reaches imports itself.
LEMMA CycleLemma ==
  ASSUME NEW d \in Docs, NEW e \in Reach(d), d \in Imported[e]
  PROVE  OnCycle(d)
<1> DEFINE S == {d} \cup {x \in Docs : \E i \in Imported[d] : x \in Reach(i)}
<1>1. S \in SUBSET Docs /\ d \in S
  OBVIOUS
<1>2. \A i \in Imported[d] : i \in Docs /\ i \in Reach(i) /\ Closes(Reach(i)) /\ Reach(i) \subseteq Docs
  BY ImportedLemma, ReachLemma
<1>3. Closes(S)
  <2>1. ASSUME NEW x \in S, NEW y \in Imported[x]
        PROVE  y \in S
    <3>1. CASE x = d
      BY <1>2, <2>1, <3>1
    <3>2. CASE x # d
      <4>1. PICK i \in Imported[d] : x \in Reach(i)
        BY <3>2
      <4>2. y \in Reach(i) /\ y \in Docs
        BY <1>2, <2>1, <4>1 DEF Closes
      <4> QED
        BY <4>1, <4>2
    <3> QED
      BY <3>1, <3>2
  <2> QED
    BY <2>1 DEF Closes
<1>4. e \in S
  BY <1>1, <1>3, ReachLeast
<1>5. PICK i \in Imported[d] : d \in Reach(i)
  <2>1. CASE e = d
    BY <1>2, <2>1
  <2>2. CASE e # d
    BY <1>2, <1>4, <2>2 DEF Closes
  <2> QED
    BY <2>1, <2>2
<1> QED
  BY <1>5, ReachIsPromised

---------------------------------------------------------------------------
(* Whose objects are whose.                                                *)

\* A cache or an object is of one call.
LEMMA HomeLemma ==
  ASSUME Separate, NEW b \in Calls, NEW c \in Calls, NEW x,
         x \in {b, ParserCache(b)}, x \in {c, ParserCache(c)}
  PROVE  b = c
<1>1. Given[b] \in UserCaches \cup {None} /\ Given[c] \in UserCaches \cup {None}
  BY LoaderAssumption
<1>2. None \notin UserCaches /\ UserCaches \cap Calls = {}
  BY LoaderAssumption DEF Caches
<1> QED
  BY <1>1, <1>2 DEF Separate, ParserCache

\* What the cache of a call has is loaded by that call, or was not touched.
LEMMA OwnLemma ==
  ASSUME IInv, Homes, Separate, NEW c \in Calls, NEW d \in Docs,
         NEW v, v = cache[ParserCache(c)][d]
  PROVE  /\ v # None => v \in Wsdls /\ Doc(v) = d
         /\ IsLoaded(v) => v \in Wsdls /\ v # None /\ loadedBy[v] = c
         /\ ~IsLoaded(v) => v = None \/ (v \in Wsdls /\ stage[v] = "unloaded" /\ loadedBy[v] = None)
<1>0. TypeOK /\ Chains /\ CachesOK
  BY DEF IInv, Order
<1>1. v # None => v \in Wsdls /\ Doc(v) = d
  BY <1>0, EntryLemma
<1>2. ASSUME IsLoaded(v)
      PROVE  v \in Wsdls /\ v # None /\ loadedBy[v] = c
  <2>1. v \in Wsdls /\ v # None /\ stage[v] # "unloaded"
    BY <1>1, <1>2 DEF IsLoaded
  <2>2. stage[v] # "absent" /\ v[1] \in {c, ParserCache(c)}
    BY <2>1 DEF Homes
  <2>3. loadedBy[v] # None /\ loadedBy[v] \in Calls
    BY <1>0, <2>1, <2>2, LoadLemma, Distinct
  <2> DEFINE b == loadedBy[v]
  <2>4. cache[ParserCache(b)][Doc(v)] = v /\ Doc(v) \in Docs
    BY <2>1, <2>3, DocLemma DEF Homes
  <2>5. v[1] \in {b, ParserCache(b)}
    BY <2>1, <2>3, <2>4 DEF Homes
  <2> QED
    BY <2>1, <2>2, <2>3, <2>5, HomeLemma
<1>3. ~IsLoaded(v) => v = None \/ (v \in Wsdls /\ stage[v] = "unloaded" /\ loadedBy[v] = None)
  BY <1>0, <1>1 DEF IsLoaded, Chains
<1> QED
  BY <1>1, <1>2, <1>3

\* Who else waits in the cache of a call is of that call.
LEMMA LiveLemma ==
  ASSUME IInv, NEW c \in Calls, NEW x \in LiveOf(c)
  PROVE  /\ x \in Wsdls /\ Live(x) /\ loadedBy[x] = c
         /\ waiter[x] \in Users
         /\ waiter[x] \in Wsdls => waiter[x] \in LiveOf(c) /\ stage[waiter[x]] = "including"
<1>0. TypeOK /\ Chains
  BY DEF IInv, Order
<1>1. x \in Wsdls /\ Live(x) /\ loadedBy[x] = c
  BY DEF LiveOf
<1>2. /\ waiter[x] \in Users
      /\ waiter[x] \in Wsdls => loadedBy[waiter[x]] = c
  BY <1>0, <1>1, LoadLemma DEF Live
<1>3. waiter[x] \in Wsdls => stage[waiter[x]] = "including"
  BY <1>0, <1>1 DEF Chains
<1> QED
  BY <1>1, <1>2, <1>3 DEF LiveOf, Live

---------------------------------------------------------------------------
(* The steps.  Each lemma of this part is about one kind of step; the next  *)
(* part says of which kind each action is.                                 *)

\* The user of a load: a call, or an object that imports the document.
UserOK(user, d, c) ==
  \/ user = c /\ d = Root[c]
  \/ /\ user \in Wsdls /\ user \notin Calls
     /\ loadedBy[user] = c
     /\ stage[user] = "including"
     /\ d \in Imported[Doc(user)]

\* The includes that are left: one less for the user of a load.
TodoFor(user, d) ==
  /\ \A x \in Wsdls \ {user} : Todo(x)' = Todo(x)
  /\ user \in Wsdls => Todo(user)' \subseteq Todo(user) /\ Todo(user) \subseteq Todo(user)' \cup {d}

\* The document of a load is one that its call reaches.
LEMMA UserLemma ==
  ASSUME IInv, Downward, NEW user, NEW c \in Calls, NEW d \in Docs, UserOK(user, d, c)
  PROVE  d \in Reach(Root[c])
<1>1. Root[c] \in Docs
  BY LoaderAssumption
<1>2. CASE user = c /\ d = Root[c]
  BY <1>1, <1>2, ReachLemma
<1>3. CASE user \in Wsdls /\ loadedBy[user] = c /\ d \in Imported[Doc(user)]
  <2>1. Doc(user) \in Reach(Root[c])
    BY <1>3, Distinct DEF Downward
  <2> QED
    BY <1>1, <1>3, <2>1, ReachTrans
<1> QED
  BY <1>2, <1>3 DEF UserOK

\* A load begins, for a call that has no other continuation: the object is in the
\* cache of the call, or is put there where nothing was.
BeginStep(w, user, c) ==
  /\ loadedBy[w] = None
  /\ Begins(w, user, c)
  /\ UserOK(user, Doc(w), c)
  /\ Free(user, reads')
  /\ queue' = Append(queue, [do |-> "parse", wsdl |-> w])
  /\ active.op \in {"idle", "include"} /\ active'.op = "idle"
  /\ active.op = "include" => active.wsdl = user
  /\ UNCHANGED <<schemas, refs, result, crashed, defect>>
  /\ w[1] \in {c, ParserCache(c)}
  /\ cache[ParserCache(c)][Doc(w)] \in {None, w}
  /\ cache'[ParserCache(c)][Doc(w)] = w
  /\ \A k \in Caches, e \in Docs :
       k # ParserCache(c) \/ e # Doc(w) => cache'[k][e] = cache[k][e]
  /\ \A b \in Calls \ {c} : outcome'[b] = outcome[b]
  /\ outcome'[c] = "pending"
  /\ outcome[c] = "none" \/ outcome[c] = "pending"
  /\ user = c => LiveOf(c) = {}
  /\ reads' \subseteq reads
  /\ \A r \in reads' : r.call # c
  /\ \A r \in reads \ reads' : r.user = user /\ r.doc = Doc(w)
  /\ TodoFor(user, Doc(w))

\* The parts that a step which leaves Failing aside has to keep.
LEMMA BeginRest ==
  ASSUME RInv, IInv', Separate, NEW w \in Wsdls, NEW user, NEW c \in Calls, BeginStep(w, user, c)
  PROVE  Rest'
<1> DEFINE k == ParserCache(c)
           d == Doc(w)
<1> USE Distinct
<1>0. TypeOK /\ Chains /\ ReadsOK /\ CachesOK /\ OneLoad /\ TypeOK' /\ Chains'
      /\ Homes /\ Downward /\ Line /\ Awaited /\ Closed /\ Told /\ Blamed /\ Whole /\ Resolved
  BY DEF RInv, Rest, IInv, Order
<1>1. d \in Docs /\ k \in Caches /\ user \in Users
  BY DocLemma, ParserCacheLemma DEF BeginStep, UserOK, Users
<1>2. /\ stage'[w] = "ticking" /\ waiter'[w] = user /\ loadedBy'[w] = c
      /\ \A x \in Wsdls \ {w} :
           stage'[x] = stage[x] /\ waiter'[x] = waiter[x] /\ loadedBy'[x] = loadedBy[x]
  BY <1>0, <1>1, BeginFacts DEF BeginStep
<1>3. stage[w] \in {"absent", "unloaded"} /\ ~Live(w)
  BY <1>0 DEF BeginStep, Chains, Live
<1>4. /\ \A x \in Wsdls : stage[x] \in {"including", "loaded", "failed"} => x # w /\ stage'[x] = stage[x]
      /\ \A x \in Wsdls : stage'[x] \in {"including", "loaded", "failed"} => x # w /\ stage'[x] = stage[x]
      /\ \A x \in Wsdls : loadedBy[x] # None => x # w /\ loadedBy'[x] = loadedBy[x]
      /\ \A x \in Wsdls : stage[x] # "absent" => stage'[x] # "absent"
      /\ \A x \in Wsdls : stage[x] # "unloaded" => stage'[x] # "unloaded"
  BY <1>2, <1>3 DEF BeginStep
<1>5. \A b \in Calls : ParserCache(b) = k => b = c
  BY HomeLemma
<1>6. \A b \in Calls : ~Failing(b) /\ ~Failing(b)'
  BY DEF Failing, BeginStep
<1>7. \A b \in Calls : outcome[b] = "error" => outcome'[b] = "error"
  BY DEF BeginStep
<1>8. \A b \in Calls, e \in Docs : b # c => cache'[ParserCache(b)][e] = cache[ParserCache(b)][e]
  BY <1>1, <1>5, ParserCacheLemma DEF BeginStep
<1>9. \A e \in Docs : e # d => cache'[k][e] = cache[k][e]
  BY <1>1 DEF BeginStep
<1>10. cache'[k][d] = w /\ cache[k][d] \in {None, w}
  BY DEF BeginStep
<1> HIDE DEF k, d
<1>11. \A b \in Calls, e \in Docs :
         cache'[ParserCache(b)][e] = cache[ParserCache(b)][e] \/ (b = c /\ e = d)
  BY <1>8, <1>9 DEF k
<1>12. Homes'
  <2>1. ASSUME NEW b \in Calls, NEW e \in Docs, cache'[ParserCache(b)][e] # None
        PROVE  /\ cache'[ParserCache(b)][e][1] \in {b, ParserCache(b)}
               /\ stage'[cache'[ParserCache(b)][e]] # "absent"
    <3>1. CASE cache'[ParserCache(b)][e] = w
      <4>1. CASE b = c /\ e = d
        BY <1>2, <3>1, <4>1 DEF BeginStep
      <4>2. CASE cache'[ParserCache(b)][e] = cache[ParserCache(b)][e]
        BY <1>0, <1>2, <2>1, <3>1, <4>2 DEF Homes
      <4> QED
        BY <1>11, <4>1, <4>2
    <3>2. CASE cache'[ParserCache(b)][e] # w
      <4>1. cache'[ParserCache(b)][e] = cache[ParserCache(b)][e]
        BY <1>10, <1>11, <3>2 DEF k
      <4>2. cache[ParserCache(b)][e] \in Wsdls
        BY <1>0, <2>1, <4>1, EntryLemma
      <4> QED
        BY <1>0, <1>4, <2>1, <4>1, <4>2 DEF Homes
    <3> QED
      BY <3>1, <3>2
  <2>2. ASSUME NEW x \in Wsdls, loadedBy'[x] # None
        PROVE  cache'[ParserCache(loadedBy'[x])][Doc(x)] = x /\ outcome'[loadedBy'[x]] # "none"
    <3>1. CASE x = w
      BY <1>2, <1>10, <3>1 DEF BeginStep, k, d
    <3>2. CASE x # w
      <4>1. loadedBy'[x] = loadedBy[x] /\ loadedBy[x] \in Calls /\ Doc(x) \in Docs
        BY <1>0, <1>2, <2>2, <3>2, DocLemma DEF TypeOK
      <4>2. cache[ParserCache(loadedBy[x])][Doc(x)] = x /\ outcome[loadedBy[x]] # "none"
        BY <1>0, <2>2, <4>1 DEF Homes
      <4>3. ~(loadedBy[x] = c /\ Doc(x) = d)
        BY <1>10, <3>2, <4>2 DEF k
      <4>4. cache'[ParserCache(loadedBy[x])][Doc(x)] = x
        BY <1>11, <4>1, <4>2, <4>3
      <4>5. outcome'[loadedBy[x]] # "none"
        BY <4>1, <4>2 DEF BeginStep
      <4> QED
        BY <4>1, <4>4, <4>5
    <3> QED
      BY <3>1, <3>2
  <2>3. ASSUME NEW r \in reads'
        PROVE  cache'[ParserCache(r.call)][r.doc] = None
    <3>1. r \in reads /\ r.call \in Calls /\ r.doc \in Docs /\ r.call # c
      BY <1>0 DEF BeginStep, TypeOK
    <3> QED
      BY <1>0, <1>8, <3>1 DEF Homes
  <2> QED
    BY <2>1, <2>2, <2>3 DEF Homes, BeginStep, ParserCache
<1>13. Downward'
  <2>1. ASSUME NEW x \in Wsdls
        PROVE  /\ Todo(x)' \subseteq Imported[Doc(x)]
               /\ waiter'[x] \in Wsdls => Doc(x) \in Imported[Doc(waiter'[x])]
               /\ loadedBy'[x] # None => Doc(x) \in Reach(Root[loadedBy'[x]])
               /\ stage'[x] \in {"including", "loaded"} => schemas'[x][Doc(x)] = x
    <3>1. Todo(x)' \subseteq Imported[Doc(x)]
      BY <1>0 DEF Downward, BeginStep, TodoFor
    <3>2. waiter'[x] \in Wsdls => Doc(x) \in Imported[Doc(waiter'[x])]
      BY <1>0, <1>2 DEF Downward, BeginStep, UserOK
    <3>3. loadedBy'[x] # None => Doc(x) \in Reach(Root[loadedBy'[x]])
      BY <1>0, <1>1, <1>2, UserLemma DEF Downward, BeginStep, RInv, d
    <3>4. stage'[x] \in {"including", "loaded"} => schemas'[x][Doc(x)] = x
      BY <1>0, <1>4 DEF Downward, BeginStep
    <3> QED
      BY <3>1, <3>2, <3>3, <3>4
  <2>2. \A x \in Wsdls, e \in Docs :
          /\ schemas'[x][e] # None => e \in Reach(Doc(x))
          /\ schemas'[x][e] \notin {None, Plain} => Doc(schemas'[x][e]) = e
    BY <1>0 DEF Downward, BeginStep
  <2>3. \A r \in reads' :
          /\ r.user \in Wsdls => r.doc \in Imported[Doc(r.user)]
          /\ r.doc \in Reach(Root[r.call])
    BY <1>0 DEF Downward, BeginStep
  <2> QED
    BY <2>1, <2>2, <2>3 DEF Downward
<1>14. Line'
  <2> SUFFICES ASSUME NEW b \in Calls, NEW S \in SUBSET (LiveOf(b)'), S # {},
                      \A v \in S : waiter'[v] \in Wsdls => waiter'[v] \in S
               PROVE  \E v \in S : EndsWith(S, v)'
    BY DEF Line
  <2>1. \A x \in S : x # w => x \in LiveOf(b) /\ waiter'[x] = waiter[x]
    BY <1>2 DEF LiveOf, Live
  <2>2. \A x \in S : x \in Wsdls /\ loadedBy'[x] = b
    BY DEF LiveOf
  <2>3. \A x \in Wsdls : Live(x) => waiter[x] # w
    BY <1>0, <1>3 DEF Chains
  <2>4. CASE w \notin S
    <3>1. S \in SUBSET LiveOf(b) /\ \A v \in S : waiter[v] \in Wsdls => waiter[v] \in S
      BY <2>1, <2>4
    <3>2. PICK v \in S : EndsWith(S, v)
      BY <1>0, <3>1 DEF Line
    <3>3. \A x \in S : waiter'[x] = waiter[x]
      BY <2>1, <2>4
    <3> QED
      BY <3>2, <3>3 DEF EndsWith
  <2>5. CASE w \in S
    <3> DEFINE T == S \ {w}
    <3>1. b = c
      BY <1>2, <2>2, <2>5
    <3>2. T \in SUBSET LiveOf(c) /\ \A v \in T : waiter[v] \in Wsdls => waiter[v] \in T
      <4>1. \A v \in T : v \in LiveOf(c) /\ waiter'[v] = waiter[v] /\ waiter[v] # w
        BY <2>1, <2>3, <3>1 DEF LiveOf
      <4> QED
        BY <4>1
    <3>3. \A x \in T : waiter'[x] # w /\ x # w /\ waiter'[x] = waiter[x]
      BY <2>1, <2>3, <3>2 DEF LiveOf
    <3>4. waiter'[w] # w
      BY <1>2, <1>3 DEF BeginStep, UserOK
    <3>5. Doc(w) \in Reach(Doc(w))
      BY <1>1, ReachLemma DEF d
    <3>6. CASE user = c
      <4>1. T = {}
        BY <3>2, <3>6 DEF BeginStep
      <4>2. S = {w}
        BY <2>5, <4>1
      <4> QED
        BY <3>4, <3>5, <4>2 DEF EndsWith
    <3>7. CASE user # c
      <4>1. /\ user \in Wsdls /\ loadedBy[user] = c /\ stage[user] = "including"
            /\ d \in Imported[Doc(user)] /\ user # w
            /\ \A x \in Wsdls : Live(x) => waiter[x] # user
        BY <1>3, <3>7 DEF BeginStep, UserOK, Free, d
      <4>2. user \in T
        BY <1>2, <2>5, <4>1
      <4>3. PICK v \in T : EndsWith(T, v)
        BY <1>0, <3>2, <4>2 DEF Line
      <4>4. v = user
        <5>1. \A y \in T : waiter[y] # user
          BY <3>2, <4>1 DEF LiveOf
        <5> QED
          BY <4>2, <4>3, <5>1 DEF EndsWith
      <4>5. ASSUME NEW x \in S
            PROVE  /\ waiter'[x] # w
                   /\ Doc(w) \in Reach(Doc(x))
                   /\ x # w => \E y \in S : waiter'[y] = x
        <5>1. CASE x = w
          BY <3>4, <3>5, <5>1
        <5>2. CASE x # w
          <6>1. x \in T /\ Doc(user) \in Reach(Doc(x)) /\ Doc(x) \in Docs
            BY <3>2, <4>3, <4>4, <5>2, DocLemma DEF EndsWith, LiveOf
          <6>2. Doc(w) \in Reach(Doc(x))
            BY <4>1, <6>1, ReachTrans DEF d
          <6>3. \E y \in S : waiter'[y] = x
            <7>1. CASE x = user
              BY <1>2, <2>5, <7>1
            <7>2. CASE x # user
              <8>1. PICK y \in T : waiter[y] = x
                BY <4>3, <4>4, <6>1, <7>2 DEF EndsWith
              <8> QED
                BY <3>3, <8>1
            <7> QED
              BY <7>1, <7>2
          <6> QED
            BY <3>3, <6>1, <6>2, <6>3
        <5> QED
          BY <5>1, <5>2
      <4> QED
        BY <2>5, <4>5 DEF EndsWith
    <3> QED
      BY <3>6, <3>7
  <2> QED
    BY <2>4, <2>5
<1>15. Awaited'
  <2> DEFINE t == [do |-> "parse", wsdl |-> w]
             N == Len(queue) + 1
  <2>1. t.do = "parse" /\ t.wsdl = w
    OBVIOUS
  <2> HIDE DEF t
  <2>2. /\ queue \in Seq(Tasks) /\ queue' = Append(queue, t)
        /\ N \in 1..Len(queue') /\ queue'[N] = t
        /\ \A i \in 1..Len(queue) : i \in 1..Len(queue') /\ queue'[i] = queue[i]
    <3>1. queue \in Seq(Tasks) /\ queue' = Append(queue, t)
      BY <1>0 DEF TypeOK, BeginStep, t
    <3> QED
      BY <3>1
  <2> HIDE DEF N
  <2>3. ASSUME NEW x \in Wsdls, stage'[x] = "ticking"
        PROVE  \E i \in 1..Len(queue') : queue'[i].do = "parse" /\ queue'[i].wsdl = x
    <3>1. CASE x = w
      BY <2>1, <2>2, <3>1
    <3>2. CASE x # w
      <4>1. PICK i \in 1..Len(queue) : queue[i].do = "parse" /\ queue[i].wsdl = x
        BY <1>0, <1>2, <2>3, <3>2 DEF Awaited
      <4> QED
        BY <2>2, <4>1
    <3> QED
      BY <3>1, <3>2
  <2>4. ASSUME NEW x \in Wsdls, stage'[x] = "including"
        PROVE  \/ \E v \in Wsdls : Live(v)' /\ waiter'[v] = x
               \/ \E r \in reads' : r.user = x
    <3>1. x # w /\ stage[x] = "including"
      BY <1>4, <2>4
    <3>2. \A v \in Wsdls : Live(v) => v # w /\ Live(v)' /\ waiter'[v] = waiter[v]
      BY <1>2, <1>3 DEF Live
    <3>3. CASE x = user
      BY <1>2, <3>3 DEF Live
    <3>4. CASE x # user
      <4>1. \/ \E v \in Wsdls : Live(v) /\ waiter[v] = x
            \/ \E r \in reads : r.user = x
        BY <1>0, <3>1, <3>4 DEF Awaited, BeginStep
      <4>2. \A r \in reads : r.user = x => r \in reads'
        BY <3>4 DEF BeginStep
      <4> QED
        BY <3>2, <4>1, <4>2
    <3> QED
      BY <3>3, <3>4
  <2> QED
    BY <2>3, <2>4 DEF Awaited
<1>16. Closed'
  <2> SUFFICES ASSUME NEW x \in Wsdls, stage'[x] \in {"including", "loaded"}, NEW e \in Imported[Doc(x)]
               PROVE  \/ e \in Todo(x)' /\ stage'[x] = "including"
                      \/ IsLoaded(cache[ParserCache(loadedBy[x])][e])'
                      \/ \E r \in reads' : r.user = x /\ r.doc = e
                      \/ Lost(loadedBy[x])'
    BY DEF Closed
  <2>1. x # w /\ stage'[x] = stage[x] /\ loadedBy'[x] = loadedBy[x] /\ loadedBy[x] \in Calls /\ e \in Docs
    BY <1>0, <1>2, <1>4, LoadLemma, ImportedLemma, DocLemma
  <2>0. PICK b \in Calls : b = loadedBy[x] /\ b = loadedBy'[x]
    BY <2>1
  <2> DEFINE new == cache'[ParserCache(b)][e]
             Now == new # None /\ stage'[new] # "unloaded"
  <2>2. IsLoaded(cache[ParserCache(b)][e]) => Now
    <3>1. CASE cache'[ParserCache(b)][e] = cache[ParserCache(b)][e]
      <4>1. cache[ParserCache(b)][e] # None => cache[ParserCache(b)][e] \in Wsdls
        BY <1>0, <2>1, EntryLemma
      <4> QED
        BY <1>4, <3>1, <4>1 DEF IsLoaded
    <3>2. CASE b = c /\ e = d
      <4>1. cache'[ParserCache(b)][e] = w
        BY <1>10, <3>2 DEF k
      <4> QED
        BY <1>2, <4>1, Distinct
    <3> QED
      BY <1>11, <2>1, <3>1, <3>2
  <2>3. x = user /\ e = d => Now
    <3> HAVE x = user /\ e = d
    <3>1. b = c
      BY <2>0 DEF BeginStep, UserOK
    <3>2. cache'[ParserCache(b)][e] = w
      BY <1>10, <3>1 DEF k
    <3> QED
      BY <1>2, <3>2, Distinct
  <2>4. Now => IsLoaded(cache[ParserCache(loadedBy[x])][e])'
    BY <2>0 DEF ParserCache, IsLoaded
  <2> HIDE DEF Now
  <2>5. CASE e \in Todo(x) /\ stage[x] = "including"
    <3>1. e \in Todo(x)' \/ (x = user /\ e = d)
      BY <2>5 DEF BeginStep, TodoFor, d
    <3> QED
      BY <2>1, <2>3, <2>4, <2>5, <3>1
  <2>6. CASE IsLoaded(cache[ParserCache(loadedBy[x])][e])
    BY <2>0, <2>2, <2>4, <2>6
  <2>7. CASE \E r \in reads : r.user = x /\ r.doc = e
    <3>1. (\E r \in reads' : r.user = x /\ r.doc = e) \/ (x = user /\ e = d)
      BY <2>7 DEF BeginStep, d
    <3> QED
      BY <2>3, <2>4, <3>1
  <2>8. CASE Lost(loadedBy[x])
    BY <1>6, <1>7, <2>1, <2>8 DEF Lost
  <2> QED
    BY <1>0, <2>1, <2>5, <2>6, <2>7, <2>8 DEF Closed
<1>17. Told'
  <2>1. ASSUME NEW x \in Wsdls, stage'[x] = "failed"
        PROVE  Lost(loadedBy[x])'
    <3>1. stage[x] = "failed" /\ loadedBy'[x] = loadedBy[x] /\ loadedBy[x] \in Calls
      BY <1>0, <1>2, <1>4, <2>1, LoadLemma
    <3> QED
      BY <1>0, <1>6, <1>7, <3>1 DEF Told, Lost
  <2>2. ASSUME NEW x \in Wsdls, stage'[x] = "loaded", outcome'[loadedBy'[x]] = "pending"
        PROVE  \E u \in Wsdls : Keeps(u, x)'
    <3>1. stage[x] = "loaded" /\ x # w /\ loadedBy'[x] = loadedBy[x] /\ loadedBy[x] \in Calls
      BY <1>0, <1>2, <1>4, <2>2, LoadLemma
    <3>2. outcome[loadedBy[x]] = "pending"
      BY <1>0, <2>2, <3>1 DEF BeginStep, Homes
    <3>3. PICK u \in Wsdls : Keeps(u, x)
      BY <1>0, <1>6, <3>1, <3>2 DEF Told
    <3>4. stage[u] = "including"
      BY <3>3 DEF Keeps, BeginStep
    <3> QED
      BY <1>2, <1>4, <3>1, <3>3, <3>4 DEF Keeps, BeginStep
  <2> QED
    BY <2>1, <2>2 DEF Told
<1>18. Blamed'
  BY <1>6 DEF Blamed
<1>19. Whole'
  <2>2. ModuleCache # k /\ ModuleCache \in Caches
    BY ParserCacheIsOther DEF k, Caches
  <2>3. \A e \in Docs : cache'[ModuleCache][e] = cache[ModuleCache][e]
    BY <2>2 DEF BeginStep, k
  <2>4. \A e \in Docs : cache[ModuleCache][e] \in Wsdls \cup {None}
    BY <1>0, <2>2 DEF TypeOK
  <2> DEFINE t == [do |-> "parse", wsdl |-> w]
  <2>5. t.do # "client"
    OBVIOUS
  <2> HIDE DEF t
  <2>6. /\ queue \in Seq(Tasks) /\ queue' = Append(queue, t)
    BY <1>0 DEF TypeOK, BeginStep, t
  <2>7. \A i \in 1..Len(queue') :
          queue'[i].do = "client" => i \in 1..Len(queue) /\ queue'[i] = queue[i] /\ queue[i].wsdl \in Wsdls
    <3>1. \A i \in 1..Len(queue') : queue'[i] = t \/ (i \in 1..Len(queue) /\ queue'[i] = queue[i])
      BY <2>6
    <3>2. \A i \in 1..Len(queue) : queue[i].wsdl \in Wsdls
      BY <2>6, TaskLemma
    <3> QED
      BY <2>5, <3>1, <3>2
  <2> DEFINE Good(x) == stage'[x] = "loaded" /\ \A e \in Docs : schemas'[x][e] # None <=> e \in Reach(Doc(x))
  <2>8. \A x \in Wsdls : Complete(x) => Good(x)
    BY <1>4 DEF Complete, BeginStep
  <2> HIDE DEF Good
  <2>9. \A i \in 1..Len(queue') : queue'[i].do = "client" =>
          Good(queue'[i].wsdl) /\ Doc(queue'[i].wsdl) = Root[queue'[i].call]
    BY <1>0, <2>8, <2>7 DEF Whole
  <2>10. \A b \in Calls : result'[b] # None => Good(result'[b]) /\ Doc(result'[b]) = Root[b]
    BY <1>0, <2>8 DEF Whole, BeginStep, TypeOK
  <2>11. \A e \in Docs : cache'[ModuleCache][e] # None => Good(cache'[ModuleCache][e])
    BY <1>0, <2>8, <2>3, <2>4 DEF Whole
  <2> QED
    BY <2>9, <2>10, <2>11 DEF Whole, Complete, Good
<1>20. Resolved'
  <2>1. schemas' = schemas /\ refs' = refs /\ crashed' = crashed
    BY DEF BeginStep
  <2>2. \A x \in Wsdls, e \in Docs : schemas[x][e] \in Wsdls \cup {None, Plain}
    BY <1>0 DEF TypeOK
  <2> QED
    BY <1>0, <1>4, <2>1, <2>2 DEF Resolved
<1> QED
  BY <1>12, <1>13, <1>14, <1>15, <1>16, <1>17, <1>18, <1>19, <1>20 DEF Rest

---------------------------------------------------------------------------
(* What the other steps keep: they begin no load.                          *)

\* Whose load has begun, for whom, and what is in the caches of the parser.
Settled ==
  /\ UNCHANGED <<waiter, loadedBy, crashed, defect>>
  /\ \A b \in Calls, e \in Docs : cache'[ParserCache(b)][e] = cache[ParserCache(b)][e]
  /\ active'.op # "parse"
  /\ \A b \in Calls : outcome[b] # "none" => outcome'[b] # "none"
  /\ \A x \in Wsdls :
       /\ stage'[x] = "absent" <=> stage[x] = "absent"
       /\ stage'[x] = "unloaded" <=> stage[x] = "unloaded"
       /\ stage[x] = "loaded" => stage'[x] = "loaded" /\ schemas'[x] = schemas[x]
       /\ Live(x)' => Live(x)

\* The caches of the calls stay as they are.
LEMMA HomesKept ==
  ASSUME TypeOK, TypeOK', Chains, CachesOK, Homes, Settled,
         \A r \in reads' : cache[ParserCache(r.call)][r.doc] = None
  PROVE  Homes'
<1>1. ASSUME NEW b \in Calls, NEW e \in Docs, cache'[ParserCache(b)][e] # None
      PROVE  /\ cache'[ParserCache(b)][e][1] \in {b, ParserCache(b)}
             /\ stage'[cache'[ParserCache(b)][e]] # "absent"
  <2>1. cache'[ParserCache(b)][e] = cache[ParserCache(b)][e] /\ cache[ParserCache(b)][e] \in Wsdls
    BY <1>1, EntryLemma DEF Settled
  <2> QED
    BY <1>1, <2>1 DEF Homes, Settled
<1>2. ASSUME NEW x \in Wsdls, loadedBy'[x] # None
      PROVE  cache'[ParserCache(loadedBy'[x])][Doc(x)] = x /\ outcome'[loadedBy'[x]] # "none"
  <2>1. loadedBy'[x] = loadedBy[x] /\ loadedBy[x] \in Calls /\ Doc(x) \in Docs
    BY <1>2, DocLemma DEF TypeOK, Settled
  <2> QED
    BY <1>2, <2>1 DEF Homes, Settled
<1>3. ASSUME NEW r \in reads'
      PROVE  cache'[ParserCache(r.call)][r.doc] = None
  BY DEF TypeOK, Settled
<1> QED
  BY <1>1, <1>2, <1>3 DEF Homes, Settled, ParserCache

\* What is imported and reached is known of the loads that have begun.
LEMMA DownwardKept ==
  ASSUME TypeOK, Downward, Settled,
         \A x \in Wsdls : Todo(x)' \subseteq Imported[Doc(x)],
         \A r \in reads' : /\ r.user \in Wsdls => r.doc \in Imported[Doc(r.user)]
                           /\ r.doc \in Reach(Root[r.call]),
         \A x \in Wsdls, e \in Docs :
           /\ schemas'[x][e] # None => e \in Reach(Doc(x))
           /\ schemas'[x][e] \notin {None, Plain} => Doc(schemas'[x][e]) = e,
         \A x \in Wsdls : stage'[x] \in {"including", "loaded"} => schemas'[x][Doc(x)] = x
  PROVE  Downward'
<1>1. waiter' = waiter /\ loadedBy' = loadedBy
  BY DEF Settled
<1> QED
  BY <1>1 DEF Downward

\* A line from which somebody goes is still one.
LEMMA LineKept ==
  ASSUME Line, Settled
  PROVE  Line'
<1> SUFFICES ASSUME NEW b \in Calls, NEW S \in SUBSET (LiveOf(b)'), S # {},
                    \A v \in S : waiter'[v] \in Wsdls => waiter'[v] \in S
             PROVE  \E v \in S : EndsWith(S, v)'
  BY DEF Line
<1>1. waiter' = waiter /\ S \in SUBSET LiveOf(b)
  BY DEF Settled, LiveOf
<1>2. PICK v \in S : EndsWith(S, v)
  BY <1>1 DEF Line
<1> QED
  BY <1>1, <1>2 DEF EndsWith

\* Whose turn it is.
OnTurn(x) ==
  \/ active.op = "include" /\ active.wsdl = x
  \/ active.op = "back" /\ active.to = x

Ticks(x) == \E i \in 1..Len(queue) : queue[i].do = "parse" /\ queue[i].wsdl = x

\* What was awaited and did not come is still awaited.
LEMMA AwaitedKept ==
  ASSUME Awaited, Settled,
         \A x \in Wsdls : stage'[x] = "ticking" => stage[x] = "ticking" /\ (Ticks(x) => Ticks(x)'),
         \A x \in Wsdls : stage'[x] = "including" => stage[x] = "including" \/ OnTurn(x)',
         \A x \in Wsdls : stage'[x] = "including" /\ OnTurn(x) =>
           OnTurn(x)' \/ \E r \in reads' : r.user = x,
         \A r \in reads : r \in reads' \/ OnTurn(r.user)',
         \A v \in Wsdls : Live(v) => Live(v)' \/ OnTurn(waiter[v])'
  PROVE  Awaited'
<1>1. ASSUME NEW x \in Wsdls, stage'[x] = "ticking"
      PROVE  Ticks(x)'
  BY <1>1 DEF Awaited, Ticks
<1>2. ASSUME NEW x \in Wsdls, stage'[x] = "including", stage[x] = "including"
      PROVE  \/ \E v \in Wsdls : Live(v)' /\ waiter'[v] = x
             \/ \E r \in reads' : r.user = x
             \/ OnTurn(x)'
  <2>1. CASE \E v \in Wsdls : Live(v) /\ waiter[v] = x
    <3>1. PICK v \in Wsdls : Live(v) /\ waiter[v] = x
      BY <2>1
    <3>2. waiter'[v] = x
      BY <3>1 DEF Settled
    <3>3. CASE Live(v)'
      BY <3>2, <3>3
    <3>4. CASE OnTurn(waiter[v])'
      BY <3>1, <3>2, <3>4 DEF OnTurn
    <3> QED
      BY <3>1, <3>3, <3>4
  <2>2. CASE \E r \in reads : r.user = x
    <3>1. PICK r \in reads : r.user = x
      BY <2>2
    <3> QED
      BY <3>1 DEF OnTurn
  <2>3. CASE OnTurn(x)
    BY <1>2, <2>3
  <2> QED
    BY <1>2, <2>1, <2>2, <2>3 DEF Awaited, OnTurn
<1> QED
  BY <1>1, <1>2 DEF Awaited, Ticks, OnTurn

\* A call that has lost a document does not find it again.
LostStays == \A b \in Calls : Lost(b) => Lost(b)'

\* Imports stay accounted for.
LEMMA ClosedKept ==
  ASSUME TypeOK, Chains, CachesOK, Closed, Settled, LostStays,
         \A x \in Wsdls : stage'[x] \in {"including", "loaded"} =>
           \/ stage'[x] = "including" /\ Imported[Doc(x)] \subseteq Todo(x)'
           \/ /\ stage[x] \in {"including", "loaded"}
              /\ \A e \in Todo(x) : stage[x] = "including" =>
                   \/ e \in Todo(x)' /\ stage'[x] = "including"
                   \/ IsLoaded(cache[ParserCache(loadedBy[x])][e])
                   \/ \E r \in reads' : r.user = x /\ r.doc = e,
         \A r \in reads : r \in reads' \/ (r.user \in Wsdls => Lost(loadedBy[r.user])')
  PROVE  Closed'
<1> SUFFICES ASSUME NEW x \in Wsdls, stage'[x] \in {"including", "loaded"}, NEW e \in Imported[Doc(x)]
             PROVE  \/ e \in Todo(x)' /\ stage'[x] = "including"
                    \/ IsLoaded(cache[ParserCache(loadedBy[x])][e])'
                    \/ \E r \in reads' : r.user = x /\ r.doc = e
                    \/ Lost(loadedBy[x])'
  BY DEF Closed
<1>1. CASE stage'[x] = "including" /\ Imported[Doc(x)] \subseteq Todo(x)'
  BY <1>1
<1>2. CASE /\ stage[x] \in {"including", "loaded"}
           /\ \A y \in Todo(x) : stage[x] = "including" =>
                \/ y \in Todo(x)' /\ stage'[x] = "including"
                \/ IsLoaded(cache[ParserCache(loadedBy[x])][y])
                \/ \E r \in reads' : r.user = x /\ r.doc = y
  <2>1. PICK b \in Calls : b = loadedBy[x] /\ b = loadedBy'[x]
    BY <1>2, LoadLemma DEF Settled
  <2>2. e \in Docs
    BY DocLemma
  <2>3. cache[ParserCache(b)][e] # None => cache[ParserCache(b)][e] \in Wsdls
    BY <2>2, EntryLemma
  <2>4. cache'[ParserCache(b)][e] = cache[ParserCache(b)][e]
    BY <2>2 DEF Settled
  <2>5. IsLoaded(cache[ParserCache(b)][e]) => IsLoaded(cache[ParserCache(loadedBy[x])][e])'
    BY <2>1, <2>3, <2>4 DEF IsLoaded, ParserCache, Settled
  <2>6. Lost(b) => Lost(loadedBy[x])'
    <3>1. Lost(b) => Lost(b)'
      BY DEF LostStays
    <3>2. loadedBy'[x] = b
      BY <2>1
    <3> QED
      BY <3>1, <3>2 DEF Lost, Failing, InTurn
  <2>7. \A r \in reads : r.user = x => r \in reads' \/ Lost(loadedBy[x])'
    OBVIOUS
  <2>8. CASE e \in Todo(x) /\ stage[x] = "including"
    BY <1>2, <2>1, <2>5, <2>8
  <2>9. CASE IsLoaded(cache[ParserCache(loadedBy[x])][e])
    BY <2>1, <2>5, <2>9
  <2>10. CASE \E r \in reads : r.user = x /\ r.doc = e
    BY <2>7, <2>10
  <2>11. CASE Lost(loadedBy[x])
    BY <2>1, <2>6, <2>11
  <2> QED
    BY <1>2, <2>8, <2>9, <2>10, <2>11 DEF Closed
<1> QED
  BY <1>1, <1>2

\* Who knows of what was loaded still knows, or somebody else does.
LEMMA ToldKept ==
  ASSUME TypeOK, Chains, Homes, Told, Settled, LostStays,
         \A x \in Wsdls, b \in Calls :
           b = loadedBy[x] /\ stage'[x] = "failed" => stage[x] = "failed" \/ Lost(b)',
         \A x \in Wsdls, b \in Calls :
           b = loadedBy[x] /\ stage'[x] = "loaded" /\ outcome'[b] = "pending" =>
             \/ stage[x] = "loaded" /\ (outcome[b] = "none" \/ outcome[b] = "pending")
             \/ \E u \in Wsdls : Keeps(u, x)',
         \A b \in Calls : Failing(b) /\ outcome'[b] = "pending" => Failing(b)',
         \A u, x \in Wsdls, b \in Calls :
           Keeps(u, x) /\ stage[x] = "loaded" /\ b = loadedBy[x] /\ outcome'[b] = "pending" =>
             Failing(b)' \/ \E y \in Wsdls : Keeps(y, x)'
  PROVE  Told'
<1>1. ASSUME NEW x \in Wsdls, NEW b \in Calls, b = loadedBy[x], stage'[x] = "failed"
      PROVE  Lost(b)'
  BY <1>1 DEF Told, LostStays
<1>2. ASSUME NEW x \in Wsdls, NEW b \in Calls, b = loadedBy[x], stage'[x] = "loaded",
             outcome'[b] = "pending"
      PROVE  Failing(b)' \/ \E u \in Wsdls : Keeps(u, x)'
  <2>1. CASE stage[x] = "loaded" /\ (outcome[b] = "none" \/ outcome[b] = "pending")
    <3>1. outcome[b] = "pending"
      BY <1>2, <2>1, Distinct DEF Homes
    <3>2. Failing(b) \/ \E u \in Wsdls : Keeps(u, x)
      BY <1>2, <2>1, <3>1 DEF Told
    <3> QED
      BY <1>2, <2>1, <3>2
  <2> QED
    BY <1>2, <2>1
<1>3. \A x \in Wsdls : stage'[x] \in {"failed", "loaded"} =>
        loadedBy[x] \in Calls /\ loadedBy'[x] = loadedBy[x]
  <2>1. \A x \in Wsdls : stage'[x] \in {"failed", "loaded"} => stage[x] \notin {"absent", "unloaded"}
    BY DEF Settled
  <2> QED
    BY <2>1, LoadLemma DEF Settled
<1>4. ASSUME NEW x \in Wsdls, stage'[x] = "failed"
      PROVE  Lost(loadedBy[x])'
  <2>1. PICK b \in Calls : b = loadedBy[x] /\ loadedBy'[x] = b
    BY <1>3, <1>4
  <2>2. Lost(b)'
    BY <1>1, <1>4, <2>1
  <2> QED
    BY <2>1, <2>2 DEF Lost, Failing, InTurn
<1>5. ASSUME NEW x \in Wsdls, stage'[x] = "loaded", outcome'[loadedBy'[x]] = "pending"
      PROVE  Failing(loadedBy[x])' \/ \E u \in Wsdls : Keeps(u, x)'
  <2>1. PICK b \in Calls : b = loadedBy[x] /\ loadedBy'[x] = b
    BY <1>3, <1>5
  <2>2. Failing(b)' \/ \E u \in Wsdls : Keeps(u, x)'
    BY <1>2, <1>5, <2>1
  <2> QED
    BY <2>1, <2>2 DEF Failing, InTurn
<1> QED
  BY <1>4, <1>5 DEF Told

\* What users were given stays whole.
LEMMA WholeKept ==
  ASSUME TypeOK, Whole, Settled,
         \A b \in Calls :
           \/ result'[b] \in {None, result[b]}
           \/ \E v \in Wsdls : v = result'[b] /\ Complete(v) /\ Doc(v) = Root[b],
         \A e \in Docs :
           \/ cache'[ModuleCache][e] = cache[ModuleCache][e]
           \/ \E v \in Wsdls : v = cache'[ModuleCache][e] /\ Complete(v),
         \A i \in 1..Len(queue') : queue'[i].do = "client" =>
           \/ \E j \in 1..Len(queue) : queue'[i] = queue[j]
           \/ \E v \in Wsdls, b \in Calls :
                queue'[i].wsdl = v /\ queue'[i].call = b /\ Complete(v) /\ Doc(v) = Root[b]
  PROVE  Whole'
<1> DEFINE Good(x) == stage'[x] = "loaded" /\ \A e \in Docs : schemas'[x][e] # None <=> e \in Reach(Doc(x))
<1>1. \A x \in Wsdls : Complete(x) => Good(x)
  BY DEF Complete, Settled
<1>2. /\ \A b \in Calls : result[b] \in Wsdls \cup {None}
      /\ \A e \in Docs : cache[ModuleCache][e] \in Wsdls \cup {None}
      /\ \A j \in 1..Len(queue) : queue[j].wsdl \in Wsdls
  BY TaskLemma DEF TypeOK, Caches
<1> HIDE DEF Good
<1>3. \A b \in Calls : result'[b] # None => Good(result'[b]) /\ Doc(result'[b]) = Root[b]
  BY <1>1, <1>2 DEF Whole
<1>4. \A e \in Docs : cache'[ModuleCache][e] # None => Good(cache'[ModuleCache][e])
  BY <1>1, <1>2 DEF Whole
<1>5. ASSUME NEW i \in 1..Len(queue'), queue'[i].do = "client"
      PROVE  Good(queue'[i].wsdl) /\ Doc(queue'[i].wsdl) = Root[queue'[i].call]
  <2>1. CASE \E j \in 1..Len(queue) : queue'[i] = queue[j]
    BY <1>1, <1>2, <1>5, <2>1 DEF Whole
  <2>2. CASE \E v \in Wsdls, b \in Calls :
               queue'[i].wsdl = v /\ queue'[i].call = b /\ Complete(v) /\ Doc(v) = Root[b]
    BY <1>1, <2>2
  <2> QED
    BY <1>5, <2>1, <2>2
<1> QED
  BY <1>3, <1>4, <1>5 DEF Whole, Complete, Good

\* So do references.
LEMMA ResolvedKept ==
  ASSUME TypeOK, Resolved, Settled, refs' = refs,
         \A x \in Wsdls : (stage'[x] = "loaded" => stage[x] = "loaded")
                          /\ (stage[x] = "failed" => stage'[x] = "failed"),
         \A x \in Wsdls, e \in Docs :
           \/ schemas'[x][e] = schemas[x][e]
           \/ schemas'[x][e] = x
           \/ \E v \in Wsdls : schemas'[x][e] = v /\ (stage[v] = "loaded" \/ OnCycle(e))
  PROVE  Resolved'
<1>1. \A x \in Wsdls, e \in Docs : schemas[x][e] \in Wsdls \cup {None, Plain}
  BY DEF TypeOK
<1>2. \A x \in Wsdls, e \in Docs : schemas'[x][e] # Plain
  BY Distinct DEF Resolved
<1>3. ASSUME NEW x \in Wsdls, NEW e \in Docs, schemas'[x][e] \notin {None, Plain, x}
      PROVE  stage'[schemas'[x][e]] = "loaded" \/ OnCycle(e)
  <2>1. CASE schemas'[x][e] = schemas[x][e]
    <3>1. stage[schemas[x][e]] = "loaded" \/ OnCycle(e)
      BY <1>3, <2>1 DEF Resolved
    <3>2. schemas[x][e] \in Wsdls
      BY <1>1, <1>3, <2>1
    <3> QED
      BY <2>1, <3>1, <3>2 DEF Settled
  <2>2. CASE \E v \in Wsdls : schemas'[x][e] = v /\ (stage[v] = "loaded" \/ OnCycle(e))
    BY <2>2 DEF Settled
  <2> QED
    BY <1>3, <2>1, <2>2
<1>4. /\ ~crashed'
      /\ \A x \in Wsdls :
           /\ refs'[x] # None => stage'[x] \in {"loaded", "failed"} \/ OnCycle(Doc(x))
           /\ stage'[x] = "loaded" /\ ~OnCycle(Doc(x)) => refs'[x] # None /\ Imported[Doc(x)] \subseteq refs'[x]
  BY DEF Resolved, Settled
<1> QED
  BY <1>2, <1>3, <1>4 DEF Resolved

---------------------------------------------------------------------------
(* The kinds of steps that begin no load.                                  *)

\* A file is asked for, of which the cache of the call has nothing.
FileStep(d, user, c) ==
  /\ UserOK(user, d, c)
  /\ cache[ParserCache(c)][d] = None
  /\ reads' = reads \cup {[doc |-> d, user |-> user, call |-> c]}
  /\ UNCHANGED <<cache, stage, waiter, loadedBy, queue, schemas, refs, result, crashed, defect>>
  /\ active.op \in {"idle", "include"} /\ active'.op = "idle"
  /\ active.op = "include" => active.wsdl = user
  /\ \A b \in Calls : outcome'[b] = outcome[b] \/ (outcome[b] = "none" /\ outcome'[b] = "pending")
  /\ TodoFor(user, d)

\* A file is asked for.
LEMMA FileRest ==
  ASSUME RInv, IInv', Separate, NEW d \in Docs, NEW user, NEW c \in Calls, FileStep(d, user, c)
  PROVE  Rest'
<1> USE Distinct
<1>0. TypeOK /\ Chains /\ ReadsOK /\ CachesOK /\ TypeOK' /\ Chains'
      /\ Homes /\ Downward /\ Line /\ Awaited /\ Closed /\ Told /\ Blamed /\ Whole /\ Resolved
  BY DEF RInv, Rest, IInv, Order
<1> DEFINE file == [doc |-> d, user |-> user, call |-> c]
<1>1. file.doc = d /\ file.user = user /\ file.call = c
  OBVIOUS
<1>2. file \in reads' /\ \A r \in reads' : r \in reads \/ r = file
  BY DEF FileStep
<1> HIDE DEF file
<1>3. Settled
  BY DEF Settled, FileStep, Live
<1>4. \A b \in Calls : ~Failing(b) /\ ~Failing(b)'
  BY DEF Failing, FileStep
<1>5. LostStays
  BY <1>4 DEF LostStays, Lost, FileStep
<1>6. Homes'
  <2>1. \A r \in reads' : cache[ParserCache(r.call)][r.doc] = None
    BY <1>0, <1>1, <1>2 DEF Homes, FileStep
  <2> QED
    BY <1>0, <1>3, <2>1, HomesKept
<1>7. Downward'
  <2>1. \A x \in Wsdls : Todo(x)' \subseteq Imported[Doc(x)]
    BY <1>0 DEF Downward, FileStep, TodoFor
  <2>2. d \in Reach(Root[c])
    BY <1>0, UserLemma DEF RInv, FileStep
  <2>3. \A r \in reads' : /\ r.user \in Wsdls => r.doc \in Imported[Doc(r.user)]
                          /\ r.doc \in Reach(Root[r.call])
    BY <1>0, <1>1, <1>2, <2>2 DEF Downward, FileStep, UserOK
  <2>4. schemas' = schemas /\ stage' = stage
    BY DEF FileStep
  <2>5. \A x \in Wsdls, e \in Docs :
          /\ schemas[x][e] # None => e \in Reach(Doc(x))
          /\ schemas[x][e] \notin {None, Plain} => Doc(schemas[x][e]) = e
    BY <1>0 DEF Downward
  <2>6. \A x \in Wsdls : stage[x] \in {"including", "loaded"} => schemas[x][Doc(x)] = x
    BY <1>0 DEF Downward
  <2> QED
    BY <1>0, <1>3, <2>1, <2>3, <2>4, <2>5, <2>6, DownwardKept
<1>8. Line'
  BY <1>0, <1>3, LineKept
<1>9. Awaited'
  <2>1. \A x \in Wsdls : Ticks(x) => Ticks(x)'
    BY DEF Ticks, FileStep
  <2>2. \A x \in Wsdls : OnTurn(x) => x = user
    BY DEF OnTurn, FileStep
  <2>3. stage' = stage /\ reads \subseteq reads' /\ \A v \in Wsdls : Live(v) => Live(v)'
    BY DEF FileStep, Live
  <2> QED
    BY <1>0, <1>1, <1>2, <1>3, <2>1, <2>2, <2>3, AwaitedKept
<1>10. Closed'
  <2>1. ASSUME NEW x \in Wsdls, stage'[x] \in {"including", "loaded"}
        PROVE  /\ stage[x] \in {"including", "loaded"}
               /\ \A e \in Todo(x) : stage[x] = "including" =>
                    \/ e \in Todo(x)' /\ stage'[x] = "including"
                    \/ \E r \in reads' : r.user = x /\ r.doc = e
    <3>1. stage'[x] = stage[x]
      BY DEF FileStep
    <3>2. \A e \in Todo(x) : e \in Todo(x)' \/ (x = user /\ e = d)
      BY DEF FileStep, TodoFor
    <3> QED
      BY <1>1, <1>2, <2>1, <3>1, <3>2
  <2>2. reads \subseteq reads'
    BY DEF FileStep
  <2> QED
    BY <1>0, <1>3, <1>5, <2>1, <2>2, ClosedKept
<1>11. Told'
  <2>1. \A u, x \in Wsdls : Keeps(u, x) => Keeps(u, x)'
    BY DEF Keeps, FileStep
  <2>2. stage' = stage /\ \A b \in Calls : outcome'[b] = "pending" => outcome[b] = "none" \/ outcome[b] = "pending"
    BY DEF FileStep
  <2> QED
    BY <1>0, <1>3, <1>4, <1>5, <2>1, <2>2, ToldKept
<1>12. Blamed'
  BY <1>4 DEF Blamed
<1>13. Whole'
  <2>1. result' = result /\ cache' = cache /\ queue' = queue
    BY DEF FileStep
  <2> QED
    BY <1>0, <1>3, <2>1, WholeKept
<1>14. Resolved'
  <2>1. refs' = refs /\ stage' = stage /\ schemas' = schemas
    BY DEF FileStep
  <2> QED
    BY <1>0, <1>3, <2>1, ResolvedKept
<1> QED
  BY <1>6, <1>7, <1>8, <1>9, <1>10, <1>11, <1>12, <1>13, <1>14 DEF Rest

\* The queue without its head.
LEMMA TailLemma ==
  ASSUME TypeOK, queue # <<>>, queue' = Tail(queue)
  PROVE  /\ \A i \in 1..Len(queue') : \E j \in 1..Len(queue) : queue'[i] = queue[j]
         /\ \A x : Ticks(x) => Ticks(x)' \/ (Head(queue).do = "parse" /\ Head(queue).wsdl = x)
<1>1. /\ queue \in Seq(Tasks) /\ Len(queue) \in Nat \ {0} /\ Len(queue') = Len(queue) - 1
      /\ Head(queue) = queue[1]
      /\ \A i \in 1..Len(queue') : i + 1 \in 1..Len(queue) /\ queue'[i] = queue[i + 1]
  BY DEF TypeOK
<1>2. \A j \in 1..Len(queue) : j = 1 \/ (j - 1 \in 1..Len(queue') /\ queue'[j - 1] = queue[j])
  BY <1>1
<1> QED
  BY <1>1, <1>2 DEF Ticks

\* A load ends, well with the object, or not.
EndStep(w, x) ==
  /\ Live(w)
  /\ stage' = [stage EXCEPT ![w] = IF x = None THEN "failed" ELSE "loaded"]
  /\ active' = [op |-> "back", to |-> waiter[w], wsdl |-> x]
  /\ UNCHANGED <<reads, cache, todo, waiter, loadedBy, schemas, outcome, result, crashed, defect>>
  /\ \A y \in Wsdls : OnTurn(y) => y = w
  /\ active.op = "back" => active.wsdl = None
  /\ \A b \in Calls : InTurn(b) => b = loadedBy[w]
  /\ \/ queue' = queue /\ stage[w] = "including"
     \/ queue # <<>> /\ queue' = Tail(queue) /\ Head(queue).wsdl = w
  /\ \A y \in Wsdls : y # w => OnCycle(Doc(y)) \/ refs'[y] = refs[y]
  /\ x = None => \A c \in Calls : c = loadedBy[w] => Reach(Root[c]) \cap Defective # {}
  /\ x = w => /\ ~\E b \in Calls : Failing(b)
              /\ stage[w] = "including" /\ Todo(w) = {}
              /\ OnCycle(Doc(w)) \/ (refs'[w] # None /\ Imported[Doc(w)] \subseteq refs'[w])

\* A load ends.
LEMMA EndRest ==
  ASSUME RInv, IInv', Separate, NEW w \in Wsdls, NEW x \in {None, w}, EndStep(w, x)
  PROVE  Rest'
<1> USE Distinct
<1>0. TypeOK /\ Chains /\ ReadsOK /\ CachesOK /\ TypeOK' /\ Chains'
      /\ Homes /\ Downward /\ Line /\ Awaited /\ Closed /\ Told /\ Blamed /\ Whole /\ Resolved
  BY DEF RInv, Rest, IInv, Order
<1>1. PICK c \in Calls : c = loadedBy[w]
  BY <1>0, LoadLemma DEF EndStep, Live
<1>2. /\ stage'[w] = IF x = None THEN "failed" ELSE "loaded"
      /\ \A y \in Wsdls : y # w => stage'[y] = stage[y]
      /\ ~(Live(w)')
      /\ stage[w] \in {"ticking", "including"}
  BY <1>0 DEF EndStep, TypeOK, Live
<1>3. active'.op = "back" /\ active'.to = waiter[w] /\ active'.wsdl = x
  BY DEF EndStep
<1>4. Settled
  BY <1>2, <1>3 DEF Settled, EndStep, Live
<1>5. InTurn(c)'
  <2>1. /\ waiter[w] \in Users
        /\ waiter[w] \in Calls => waiter[w] = c
        /\ waiter[w] \in Wsdls => loadedBy[waiter[w]] = c
    BY <1>0, <1>1, <1>2, LoadLemma
  <2>2. loadedBy' = loadedBy
    BY DEF EndStep
  <2> QED
    BY <1>3, <2>1, <2>2 DEF InTurn, Users
<1>6. \A b \in Calls : Failing(b)' => b = c /\ x = None
  <2>1. \A b \in Calls : InTurn(b)' => b = c
    <3>1. /\ waiter[w] \in Calls => waiter[w] = c
          /\ waiter[w] \in Wsdls => loadedBy[waiter[w]] = c
      BY <1>0, <1>1, <1>2, LoadLemma
    <3>2. loadedBy' = loadedBy
      BY DEF EndStep
    <3> QED
      BY <1>3, <3>1, <3>2 DEF InTurn
  <2> QED
    BY <1>3, <2>1 DEF Failing
<1>7. /\ \A b \in Calls : Failing(b) => b = c /\ x = None
      /\ x = None => Failing(c)'
  BY <1>1, <1>3, <1>5 DEF Failing, EndStep
<1>8. LostStays
  BY <1>7 DEF LostStays, Lost, EndStep
<1>9. Homes'
  BY <1>0, <1>4, HomesKept DEF EndStep, Homes
<1>10. Downward'
  <2>1. reads' = reads /\ schemas' = schemas /\ \A y \in Wsdls : Todo(y)' = Todo(y)
    BY DEF EndStep, Todo
  <2>2. \A y \in Wsdls : stage'[y] \in {"including", "loaded"} => schemas'[y][Doc(y)] = y
    <3>1. stage'[w] = "loaded" => stage[w] = "including"
      BY <1>2 DEF EndStep
    <3> QED
      BY <1>0, <1>2, <2>1, <3>1 DEF Downward
  <2>3. \A y \in Wsdls : Todo(y)' \subseteq Imported[Doc(y)]
    BY <1>0, <2>1 DEF Downward
  <2>4. \A r \in reads' : /\ r.user \in Wsdls => r.doc \in Imported[Doc(r.user)]
                          /\ r.doc \in Reach(Root[r.call])
    BY <1>0, <2>1 DEF Downward
  <2>5. \A y \in Wsdls, e \in Docs :
          /\ schemas'[y][e] # None => e \in Reach(Doc(y))
          /\ schemas'[y][e] \notin {None, Plain} => Doc(schemas'[y][e]) = e
    BY <1>0, <2>1 DEF Downward
  <2> QED
    BY <1>0, <1>4, <2>2, <2>3, <2>4, <2>5, DownwardKept
<1>11. Line'
  BY <1>0, <1>4, LineKept
<1>12. Awaited'
  <2>1. \A y \in Wsdls : stage'[y] = "ticking" => stage[y] = "ticking" /\ (Ticks(y) => Ticks(y)')
    <3>1. CASE queue' = queue
      BY <1>2, <3>1 DEF Ticks
    <3>2. CASE queue # <<>> /\ queue' = Tail(queue) /\ Head(queue).wsdl = w
      BY <1>0, <1>2, <3>2, TailLemma
    <3> QED
      BY <3>1, <3>2 DEF EndStep
  <2>2. \A y \in Wsdls : stage'[y] = "including" => y # w /\ stage[y] = "including" /\ ~OnTurn(y)
    BY <1>2 DEF EndStep
  <2>3. reads' = reads
    BY DEF EndStep
  <2>4. \A v \in Wsdls : Live(v) => Live(v)' \/ OnTurn(waiter[v])'
    <3>1. OnTurn(waiter[w])'
      <4>1. waiter'[w] = waiter[w]
        BY DEF EndStep
      <4> QED
        BY <1>3, <4>1 DEF OnTurn
    <3>2. \A v \in Wsdls : v # w => (Live(v) => Live(v)')
      BY <1>2 DEF Live
    <3> QED
      BY <3>1, <3>2
  <2> QED
    BY <1>0, <1>4, <2>1, <2>2, <2>3, <2>4, AwaitedKept
<1>13. Closed'
  <2>1. ASSUME NEW y \in Wsdls, stage'[y] \in {"including", "loaded"}
        PROVE  /\ stage[y] \in {"including", "loaded"}
               /\ \A e \in Todo(y) : stage[y] = "including" => e \in Todo(y)' /\ stage'[y] = "including"
    <3>1. CASE y = w
      BY <1>2, <2>1, <3>1 DEF EndStep
    <3>2. CASE y # w
      BY <1>2, <2>1, <3>2 DEF EndStep, Todo
    <3> QED
      BY <3>1, <3>2
  <2>2. reads' = reads
    BY DEF EndStep
  <2> QED
    BY <1>0, <1>4, <1>8, <2>1, <2>2, ClosedKept
<1>14. Told'
  <2>1. outcome' = outcome
    BY DEF EndStep
  <2>2. \A y \in Wsdls, b \in Calls :
          b = loadedBy[y] /\ stage'[y] = "failed" => stage[y] = "failed" \/ Lost(b)'
    BY <1>1, <1>2, <1>7 DEF Lost
  <2>3. \A y \in Wsdls, b \in Calls :
          b = loadedBy[y] /\ stage'[y] = "loaded" /\ outcome'[b] = "pending" =>
            \/ stage[y] = "loaded" /\ (outcome[b] = "none" \/ outcome[b] = "pending")
            \/ \E u \in Wsdls : Keeps(u, y)'
    <3>1. x = w => Keeps(w, w)'
      <4>1. x = w => schemas'[w][Doc(w)] = w
        BY <1>0 DEF Downward, EndStep
      <4> QED
        BY <1>3, <4>1 DEF Keeps
    <3> QED
      BY <1>2, <2>1, <3>1
  <2>4. ASSUME NEW u \in Wsdls, NEW y \in Wsdls, Keeps(u, y), loadedBy[y] = c \/ u # w
        PROVE  Failing(c)' \/ Keeps(u, y)'
    <3>1. stage[u] = "including" /\ loadedBy'[u] = loadedBy'[y] /\ schemas'[u][Doc(y)] # None
      BY <2>4 DEF Keeps, EndStep
    <3>2. CASE u = w
      BY <1>2, <1>3, <1>7, <3>1, <3>2 DEF Keeps
    <3>3. CASE u # w
      BY <1>2, <3>1, <3>3 DEF Keeps
    <3> QED
      BY <3>2, <3>3
  <2>5. \A u, y \in Wsdls, b \in Calls :
          Keeps(u, y) /\ stage[y] = "loaded" /\ b = loadedBy[y] /\ outcome'[b] = "pending" =>
            Failing(b)' \/ \E z \in Wsdls : Keeps(z, y)'
    <3> SUFFICES ASSUME NEW u \in Wsdls, NEW y \in Wsdls, NEW b \in Calls, Keeps(u, y), b = loadedBy[y]
                 PROVE  Failing(b)' \/ \E z \in Wsdls : Keeps(z, y)'
      OBVIOUS
    <3>1. CASE b = c
      BY <2>4, <3>1
    <3>2. CASE b # c
      <4>1. u # w
        BY <1>1, <3>2 DEF Keeps
      <4>2. stage[u] = "including" /\ loadedBy'[u] = loadedBy'[y] /\ schemas'[u][Doc(y)] # None
        BY DEF Keeps, EndStep
      <4>3. Keeps(u, y)'
        BY <1>2, <4>1, <4>2 DEF Keeps
      <4> QED
        BY <4>3
    <3> QED
      BY <3>1, <3>2
  <2> QED
    BY <1>0, <1>4, <1>7, <1>8, <2>1, <2>2, <2>3, <2>5, ToldKept
<1>15. Blamed'
  BY <1>1, <1>6 DEF Blamed, EndStep, Defective
<1>16. Whole'
  <2>1. result' = result /\ cache' = cache
    BY DEF EndStep
  <2>2. \A i \in 1..Len(queue') : \E j \in 1..Len(queue) : queue'[i] = queue[j]
    <3>1. CASE queue' = queue
      BY <3>1
    <3>2. CASE queue # <<>> /\ queue' = Tail(queue)
      BY <1>0, <3>2, TailLemma
    <3> QED
      BY <3>1, <3>2 DEF EndStep
  <2> QED
    BY <1>0, <1>4, <2>1, <2>2, WholeKept
<1>17. Resolved'
  <2>1. ~crashed' /\ \A y \in Wsdls, e \in Docs : schemas'[y][e] # Plain
    BY <1>0 DEF Resolved, EndStep
  <2>2. ASSUME NEW y \in Wsdls, NEW e \in Docs, schemas'[y][e] \notin {None, Plain, y}
        PROVE  stage'[schemas'[y][e]] = "loaded" \/ OnCycle(e)
    <3>1. PICK s \in Wsdls : s = schemas'[y][e] /\ s = schemas[y][e]
      BY <1>0, <2>2 DEF TypeOK, EndStep
    <3>2. stage[s] = "loaded" \/ OnCycle(e)
      BY <1>0, <2>2, <3>1 DEF Resolved
    <3> QED
      BY <1>4, <3>1, <3>2 DEF Settled
  <2>3. ASSUME NEW y \in Wsdls
        PROVE  /\ refs'[y] # None => stage'[y] \in {"loaded", "failed"} \/ OnCycle(Doc(y))
               /\ stage'[y] = "loaded" /\ ~OnCycle(Doc(y)) => refs'[y] # None /\ Imported[Doc(y)] \subseteq refs'[y]
    <3>1. CASE y = w
      BY <1>2, <3>1 DEF EndStep
    <3>2. CASE y # w
      BY <1>0, <1>2, <3>2 DEF EndStep, Resolved
    <3> QED
      BY <3>1, <3>2
  <2> QED
    BY <2>1, <2>2, <2>3 DEF Resolved
<1> QED
  BY <1>9, <1>10, <1>11, <1>12, <1>13, <1>14, <1>15, <1>16, <1>17 DEF Rest

\* A file cannot be read.
LEMMA ReadFailsRest ==
  ASSUME RInv, IInv', Separate, NEW r \in reads, ReadFails(r)
  PROVE  Rest'
<1> USE Distinct
<1>0. TypeOK /\ Chains /\ ReadsOK /\ CachesOK /\ TypeOK' /\ Chains'
      /\ Homes /\ Downward /\ Line /\ Awaited /\ Closed /\ Told /\ Blamed /\ Whole /\ Resolved
  BY DEF RInv, Rest, IInv, Order
<1>1. PICK c \in Calls, d \in Docs, user \in Users : c = r.call /\ d = r.doc /\ user = r.user
  BY <1>0 DEF TypeOK
<1>2. /\ user \in Calls => user = c
      /\ user \in Wsdls => loadedBy[user] = c
  BY <1>0, <1>1 DEF ReadsOK, ReadOK
<1>3. /\ active.op = "idle"
      /\ active'.op = "back" /\ active'.to = user /\ active'.wsdl = None
      /\ reads' = reads \ {r} /\ defect[d] = "unreliable"
      /\ UNCHANGED <<queue, cache, stage, todo, waiter, loadedBy, schemas, refs, outcome, result, crashed, defect>>
  BY <1>1 DEF ReadFails, MayStart, Idle, Back
<1>4. Settled
  BY <1>3 DEF Settled, Live
<1>5. \A b \in Calls : ~Failing(b) /\ (Failing(b)' => b = c)
  BY <1>2, <1>3 DEF Failing, InTurn
<1>6. Failing(c)'
  BY <1>2, <1>3 DEF Failing, InTurn, Users
<1>7. LostStays
  BY <1>3, <1>5 DEF LostStays, Lost
<1>8. schemas' = schemas /\ stage' = stage /\ \A y \in Wsdls : Todo(y)' = Todo(y) /\ (Live(y)' <=> Live(y))
  BY <1>3 DEF Todo, Live
<1>9. Homes'
  BY <1>0, <1>3, <1>4, HomesKept DEF Homes
<1>10. Downward'
  <2>1. \A y \in Wsdls : Todo(y)' \subseteq Imported[Doc(y)]
    BY <1>0, <1>8 DEF Downward
  <2>2. \A q \in reads' : /\ q.user \in Wsdls => q.doc \in Imported[Doc(q.user)]
                          /\ q.doc \in Reach(Root[q.call])
    BY <1>0, <1>3 DEF Downward
  <2>3. \A y \in Wsdls, e \in Docs :
          /\ schemas'[y][e] # None => e \in Reach(Doc(y))
          /\ schemas'[y][e] \notin {None, Plain} => Doc(schemas'[y][e]) = e
    BY <1>0, <1>8 DEF Downward
  <2>4. \A y \in Wsdls : stage'[y] \in {"including", "loaded"} => schemas'[y][Doc(y)] = y
    BY <1>0, <1>8 DEF Downward
  <2> QED
    BY <1>0, <1>4, <2>1, <2>2, <2>3, <2>4, DownwardKept
<1>11. Line'
  BY <1>0, <1>4, LineKept
<1>12. Awaited'
  <2>1. \A y \in Wsdls : Ticks(y) => Ticks(y)'
    BY <1>3 DEF Ticks
  <2>2. \A y \in Wsdls : ~OnTurn(y)
    BY <1>3 DEF OnTurn
  <2>3. \A q \in reads : q \in reads' \/ OnTurn(q.user)'
    BY <1>1, <1>3 DEF OnTurn
  <2> QED
    BY <1>0, <1>4, <1>8, <2>1, <2>2, <2>3, AwaitedKept
<1>13. Closed'
  <2>1. \A q \in reads : q \in reads' \/ (q.user \in Wsdls => Lost(loadedBy[q.user])')
    <3>1. user \in Wsdls => Lost(loadedBy[user])'
      <4> HAVE user \in Wsdls
      <4>1. loadedBy'[user] = c
        BY <1>2, <1>3
      <4> QED
        BY <1>6, <4>1 DEF Lost, Failing, InTurn
    <3>2. \A q \in reads : q \in reads' \/ q = r
      BY <1>3
    <3>3. user = r.user
      BY <1>1
    <3> QED
      BY <3>1, <3>2, <3>3
  <2> QED
    BY <1>0, <1>4, <1>7, <1>8, <2>1, ClosedKept
<1>14. Told'
  <2>1. \A u, y \in Wsdls : Keeps(u, y) => Keeps(u, y)'
    BY <1>3 DEF Keeps
  <2> QED
    BY <1>0, <1>3, <1>4, <1>5, <1>7, <1>8, <2>1, ToldKept
<1>15. Blamed'
  <2>1. d \in Defective /\ d \in Reach(Root[c])
    BY <1>0, <1>1, <1>3 DEF Defective, Downward
  <2>2. Defective' = Defective
    BY <1>3 DEF Defective
  <2> QED
    BY <1>5, <2>1, <2>2 DEF Blamed
<1>16. Whole'
  BY <1>0, <1>3, <1>4, WholeKept
<1>17. Resolved'
  BY <1>0, <1>3, <1>4, <1>8, ResolvedKept
<1> QED
  BY <1>9, <1>10, <1>11, <1>12, <1>13, <1>14, <1>15, <1>16, <1>17 DEF Rest

\* A document was parsed, and its imports are next.
LoadUpStep(w) ==
  /\ stage[w] = "ticking"
  /\ stage' = [stage EXCEPT ![w] = "including"]
  /\ todo' = [todo EXCEPT ![w] = Imports[Doc(w)]]
  /\ schemas' = [schemas EXCEPT ![w][Doc(w)] = w]
  /\ active.op = "idle"
  /\ active' = [op |-> "include", wsdl |-> w]
  /\ queue # <<>> /\ queue' = Tail(queue) /\ Head(queue).wsdl = w
  /\ UNCHANGED <<reads, cache, waiter, loadedBy, refs, outcome, result, crashed, defect>>

\* A document was parsed.
LEMMA LoadUpRest ==
  ASSUME RInv, IInv', Separate, NEW w \in Wsdls, LoadUpStep(w)
  PROVE  Rest'
<1> USE Distinct
<1>0. TypeOK /\ Chains /\ ReadsOK /\ CachesOK /\ TypeOK' /\ Chains'
      /\ Homes /\ Downward /\ Line /\ Awaited /\ Closed /\ Told /\ Blamed /\ Whole /\ Resolved
  BY DEF RInv, Rest, IInv, Order
<1>1. /\ stage[w] = "ticking" /\ stage'[w] = "including" /\ todo'[w] = Imports[Doc(w)]
      /\ \A y \in Wsdls : y # w => stage'[y] = stage[y] /\ todo'[y] = todo[y] /\ schemas'[y] = schemas[y]
  BY <1>0 DEF LoadUpStep, TypeOK
<1>2. Doc(w) \in Docs /\ schemas'[w][Doc(w)] = w /\ \A e \in Docs : e # Doc(w) => schemas'[w][e] = schemas[w][e]
  <2>1. Doc(w) \in Docs /\ schemas \in [Wsdls -> [Docs -> Wsdls \cup {None, Plain}]]
    BY <1>0, DocLemma DEF TypeOK
  <2> QED
    BY <2>1 DEF LoadUpStep
<1>3. active.op = "idle" /\ active'.op = "include" /\ active'.wsdl = w
  BY DEF LoadUpStep
<1>4. Settled
  BY <1>1, <1>3 DEF Settled, LoadUpStep, Live
<1>5. \A b \in Calls : ~Failing(b) /\ ~Failing(b)'
  BY <1>3 DEF Failing
<1>6. LostStays
  BY <1>5 DEF LostStays, Lost, LoadUpStep
<1>7. Todo(w)' = Imported[Doc(w)] /\ \A y \in Wsdls : y # w => Todo(y)' = Todo(y)
  BY <1>1, <1>2 DEF Todo, Imported
<1>8. Homes'
  BY <1>0, <1>4, HomesKept DEF Homes, LoadUpStep
<1>9. Downward'
  <2>1. \A y \in Wsdls : Todo(y)' \subseteq Imported[Doc(y)]
    BY <1>0, <1>7 DEF Downward
  <2>2. \A q \in reads' : /\ q.user \in Wsdls => q.doc \in Imported[Doc(q.user)]
                          /\ q.doc \in Reach(Root[q.call])
    BY <1>0 DEF Downward, LoadUpStep
  <2>3. ASSUME NEW y \in Wsdls, NEW e \in Docs
        PROVE  /\ schemas'[y][e] # None => e \in Reach(Doc(y))
               /\ schemas'[y][e] \notin {None, Plain} => Doc(schemas'[y][e]) = e
    <3>1. CASE y = w /\ e = Doc(w)
      BY <1>2, <3>1, ReachLemma
    <3>2. CASE ~(y = w /\ e = Doc(w))
      <4>1. schemas'[y][e] = schemas[y][e]
        BY <1>1, <1>2, <3>2
      <4> QED
        BY <1>0, <4>1 DEF Downward
    <3> QED
      BY <3>1, <3>2
  <2>4. \A y \in Wsdls : stage'[y] \in {"including", "loaded"} => schemas'[y][Doc(y)] = y
    BY <1>0, <1>1, <1>2 DEF Downward
  <2> QED
    BY <1>0, <1>4, <2>1, <2>2, <2>3, <2>4, DownwardKept
<1>10. Line'
  BY <1>0, <1>4, LineKept
<1>11. Awaited'
  <2>1. \A y \in Wsdls : stage'[y] = "ticking" => stage[y] = "ticking" /\ (Ticks(y) => Ticks(y)')
    <3>1. \A y : Ticks(y) => Ticks(y)' \/ w = y
      BY <1>0, TailLemma DEF LoadUpStep
    <3> QED
      BY <1>1, <3>1
  <2>2. OnTurn(w)' /\ \A y \in Wsdls : ~OnTurn(y)
    BY <1>3 DEF OnTurn
  <2>3. reads' = reads /\ \A v \in Wsdls : Live(v) => Live(v)'
    BY <1>1 DEF Live, LoadUpStep
  <2>4. \A y \in Wsdls : stage'[y] = "including" => stage[y] = "including" \/ OnTurn(y)'
    BY <1>1, <2>2
  <2> QED
    BY <1>0, <1>4, <2>1, <2>2, <2>3, <2>4, AwaitedKept
<1>12. Closed'
  <2>1. \A y \in Wsdls : stage'[y] \in {"including", "loaded"} =>
          \/ stage'[y] = "including" /\ Imported[Doc(y)] \subseteq Todo(y)'
          \/ /\ stage[y] \in {"including", "loaded"}
             /\ \A e \in Todo(y) : stage[y] = "including" => e \in Todo(y)' /\ stage'[y] = "including"
    BY <1>1, <1>7
  <2>2. reads' = reads
    BY DEF LoadUpStep
  <2> QED
    BY <1>0, <1>4, <1>6, <2>1, <2>2, ClosedKept
<1>13. Told'
  <2>1. \A u, y \in Wsdls : Keeps(u, y) => Keeps(u, y)'
    <3>1. \A u, y \in Wsdls : Keeps(u, y) =>
            u # w /\ stage'[u] = "including" /\ schemas'[u] = schemas[u] /\ loadedBy' = loadedBy
      BY <1>1, <1>3 DEF Keeps, LoadUpStep
    <3> QED
      BY <3>1 DEF Keeps
  <2>2. outcome' = outcome
    BY DEF LoadUpStep
  <2>3. \A y \in Wsdls : stage'[y] \in {"failed", "loaded"} => stage[y] = stage'[y]
    BY <1>1
  <2> QED
    BY <1>0, <1>4, <1>5, <1>6, <2>1, <2>2, <2>3, ToldKept
<1>14. Blamed'
  BY <1>5 DEF Blamed
<1>15. Whole'
  <2>1. \A i \in 1..Len(queue') : \E j \in 1..Len(queue) : queue'[i] = queue[j]
    BY <1>0, TailLemma DEF LoadUpStep
  <2> QED
    BY <1>0, <1>4, <2>1, WholeKept DEF LoadUpStep
<1>16. Resolved'
  <2>1. \A y \in Wsdls, e \in Docs : schemas'[y][e] = schemas[y][e] \/ schemas'[y][e] = y
    BY <1>1, <1>2
  <2>2. refs' = refs /\ \A y \in Wsdls : (stage'[y] = "loaded" => stage[y] = "loaded") /\ (stage[y] = "failed" => stage'[y] = "failed")
    BY <1>1 DEF LoadUpStep
  <2> QED
    BY <1>0, <1>4, <2>1, <2>2, ResolvedKept
<1> QED
  BY <1>8, <1>9, <1>10, <1>11, <1>12, <1>13, <1>14, <1>15, <1>16 DEF Rest

\* The definitions of v are merged into those of w.
MergeStep(w, v) ==
  /\ stage[w] = "including" /\ stage[v] \in {"including", "loaded"}
  /\ loadedBy[v] = loadedBy[w]
  /\ Doc(v) \in Imported[Doc(w)]
  /\ stage[v] = "loaded" \/ OnCycle(Doc(v))
  /\ \A c \in Calls : c = loadedBy[w] => IsLoaded(cache[ParserCache(c)][Doc(v)])
  /\ schemas' = Merged(w, v)
  /\ OnTurn(w) /\ \A y \in Wsdls : OnTurn(y) => y = w
  /\ active.op = "back" => active.wsdl = v
  /\ active' = [op |-> "include", wsdl |-> w]
  /\ TodoFor(w, Doc(v))
  /\ UNCHANGED <<queue, reads, cache, stage, waiter, loadedBy, refs, outcome, result, crashed, defect>>

\* An included document is merged.
LEMMA MergeRest ==
  ASSUME RInv, IInv', Separate, NEW w \in Wsdls, NEW v \in Wsdls, MergeStep(w, v)
  PROVE  Rest'
<1> USE Distinct
<1>0. TypeOK /\ Chains /\ ReadsOK /\ CachesOK /\ TypeOK' /\ Chains'
      /\ Homes /\ Downward /\ Line /\ Awaited /\ Closed /\ Told /\ Blamed /\ Whole /\ Resolved
  BY DEF RInv, Rest, IInv, Order
<1>1. schemas[v][Doc(v)] = v /\ Doc(v) \in Docs /\ Doc(w) \in Docs
  BY <1>0, DocLemma DEF Downward, MergeStep
<1>2. /\ \A y \in Wsdls : y # w => schemas'[y] = schemas[y]
      /\ \A e \in Docs : schemas'[w][e] = IF schemas[w][e] = None THEN schemas[v][e] ELSE schemas[w][e]
  <2>1. Parsed(v)
    BY <1>1 DEF Parsed
  <2>2. \A e \in Docs : schemas[w][e] # Plain
    BY <1>0 DEF Resolved
  <2> DEFINE Taken(e) == IF schemas[w][e] \in {None, Plain} /\ schemas[v][e] # None
                           THEN schemas[v][e] ELSE schemas[w][e]
  <2>3. schemas' = [schemas EXCEPT ![w] = [e \in Docs |-> Taken(e)]]
    BY <2>1 DEF Merged, MergeStep
  <2>4. schemas'[w] = [e \in Docs |-> Taken(e)] /\ \A y \in Wsdls : y # w => schemas'[y] = schemas[y]
    BY <1>0, <2>3 DEF TypeOK
  <2> QED
    BY <2>2, <2>4
<1>3. active'.op = "include" /\ active'.wsdl = w
  BY DEF MergeStep
<1>4. \A y \in Wsdls, e \in Docs : schemas[y][e] # None => schemas'[y][e] # None
  BY <1>2
<1>5. stage' = stage /\ outcome' = outcome /\ reads' = reads /\ queue' = queue /\ loadedBy' = loadedBy
  BY DEF MergeStep
<1>6. Settled
  BY <1>2, <1>3 DEF Settled, MergeStep, Live
<1>7. \A b \in Calls : ~Failing(b) /\ ~Failing(b)'
  BY <1>3 DEF Failing, MergeStep
<1>8. LostStays
  BY <1>5, <1>7 DEF LostStays, Lost
<1>9. Homes'
  BY <1>0, <1>5, <1>6, HomesKept DEF Homes
<1>10. Downward'
  <2>1. \A y \in Wsdls : Todo(y)' \subseteq Imported[Doc(y)]
    BY <1>0 DEF Downward, MergeStep, TodoFor
  <2>2. \A q \in reads' : /\ q.user \in Wsdls => q.doc \in Imported[Doc(q.user)]
                          /\ q.doc \in Reach(Root[q.call])
    BY <1>0, <1>5 DEF Downward
  <2>3. Reach(Doc(v)) \subseteq Reach(Doc(w))
    BY <1>1, ReachImported DEF MergeStep
  <2>4. \A y \in Wsdls, e \in Docs :
          /\ schemas[y][e] # None => e \in Reach(Doc(y))
          /\ schemas[y][e] \notin {None, Plain} => Doc(schemas[y][e]) = e
    BY <1>0 DEF Downward
  <2>5. ASSUME NEW y \in Wsdls, NEW e \in Docs
        PROVE  /\ schemas'[y][e] # None => e \in Reach(Doc(y))
               /\ schemas'[y][e] \notin {None, Plain} => Doc(schemas'[y][e]) = e
    <3>1. CASE y = w
      BY <1>2, <2>3, <2>4, <3>1
    <3>2. CASE y # w
      BY <1>2, <2>4, <3>2
    <3> QED
      BY <3>1, <3>2
  <2>6. \A y \in Wsdls : stage'[y] \in {"including", "loaded"} => schemas'[y][Doc(y)] = y
    <3>1. \A y \in Wsdls : stage[y] \in {"including", "loaded"} => schemas[y][Doc(y)] = y /\ Doc(y) \in Docs
      BY <1>0, DocLemma DEF Downward
    <3> QED
      BY <1>2, <1>5, <3>1
  <2> QED
    BY <1>0, <1>6, <2>1, <2>2, <2>5, <2>6, DownwardKept
<1>11. Line'
  BY <1>0, <1>6, LineKept
<1>12. Awaited'
  <2>1. \A y \in Wsdls : Ticks(y) => Ticks(y)'
    BY <1>5 DEF Ticks
  <2>2. OnTurn(w)'
    BY <1>3 DEF OnTurn
  <2>3. \A y \in Wsdls : OnTurn(y) => OnTurn(y)'
    BY <2>2 DEF MergeStep
  <2>4. \A y \in Wsdls : Live(y) => Live(y)'
    BY <1>5 DEF Live
  <2> QED
    BY <1>0, <1>5, <1>6, <2>1, <2>3, <2>4, AwaitedKept
<1>13. Closed'
  <2>1. ASSUME NEW y \in Wsdls, NEW e \in Todo(y)
        PROVE  e \in Todo(y)' \/ IsLoaded(cache[ParserCache(loadedBy[y])][e])
    <3>1. e \in Todo(y)' \/ (y = w /\ e = Doc(v))
      BY DEF MergeStep, TodoFor
    <3>2. loadedBy[w] \in Calls
      BY <1>0, LoadLemma DEF MergeStep
    <3> QED
      BY <3>1, <3>2 DEF MergeStep
  <2> QED
    BY <1>0, <1>5, <1>6, <1>8, <2>1, ClosedKept
<1>14. Told'
  <2>1. ASSUME NEW u \in Wsdls, NEW y \in Wsdls, Keeps(u, y)
        PROVE  \E z \in Wsdls : Keeps(z, y)'
    <3>0. Doc(y) \in Docs
      BY DocLemma
    <3>1. CASE stage[u] = "including"
      BY <1>4, <1>5, <2>1, <3>0, <3>1 DEF Keeps
    <3>2. CASE stage[u] # "including"
      <4>1. u = v
        BY <2>1, <3>2 DEF Keeps, MergeStep
      <4>2. schemas'[w][Doc(y)] # None
        BY <1>2, <2>1, <3>0, <4>1 DEF Keeps
      <4>3. Keeps(w, y)'
        BY <1>5, <2>1, <4>1, <4>2 DEF Keeps, MergeStep
      <4> QED
        BY <4>3
    <3> QED
      BY <3>1, <3>2
  <2> QED
    BY <1>0, <1>5, <1>6, <1>7, <1>8, <2>1, ToldKept
<1>15. Blamed'
  BY <1>7 DEF Blamed
<1>16. Whole'
  BY <1>0, <1>5, <1>6, WholeKept DEF MergeStep
<1>17. Resolved'
  <2>1. ASSUME NEW y \in Wsdls, NEW e \in Docs
        PROVE  \/ schemas'[y][e] = schemas[y][e]
               \/ \E x \in Wsdls : schemas'[y][e] = x /\ (stage[x] = "loaded" \/ OnCycle(e))
    <3>1. CASE schemas'[y][e] # schemas[y][e]
      <4>1. y = w /\ schemas[w][e] = None /\ schemas'[y][e] = schemas[v][e] /\ schemas[v][e] # None
        BY <1>2, <3>1
      <4>2. PICK x \in Wsdls : x = schemas[v][e]
        BY <1>0, <4>1 DEF TypeOK, Resolved
      <4>3. x = v => e = Doc(v)
        <5>1. schemas[v][e] \notin {None, Plain} => Doc(schemas[v][e]) = e
          BY <1>0 DEF Downward
        <5> QED
          BY <4>2, <5>1
      <4>4. stage[x] = "loaded" \/ OnCycle(e)
        BY <1>0, <4>1, <4>2, <4>3 DEF Resolved, MergeStep
      <4> QED
        BY <4>1, <4>2, <4>4
    <3> QED
      BY <3>1
  <2>2. refs' = refs
    BY DEF MergeStep
  <2> QED
    BY <1>0, <1>5, <1>6, <2>1, <2>2, ResolvedKept
<1> QED
  BY <1>9, <1>10, <1>11, <1>12, <1>13, <1>14, <1>15, <1>16, <1>17 DEF Rest

\* A call asks for what is in the cache of soap.js, or is answered.
QuietStep ==
  /\ UNCHANGED <<reads, stage, todo, waiter, loadedBy, schemas, refs, crashed, defect>>
  /\ \A b \in Calls, e \in Docs : cache'[ParserCache(b)][e] = cache[ParserCache(b)][e]
  /\ active'.op = "idle"
  /\ \A y \in Wsdls : ~OnTurn(y) /\ (Ticks(y) => Ticks(y)')
  /\ \A b \in Calls :
       /\ Failing(b) \/ outcome[b] = "error" => outcome'[b] = "error"
       /\ outcome[b] # "none" => outcome'[b] # "none"
       /\ outcome'[b] = "pending" => outcome[b] = "none" \/ outcome[b] = "pending"
       /\ outcome'[b] = "pending" /\ active.op = "back" /\ active.wsdl \in Wsdls =>
            loadedBy[active.wsdl] # b
       /\ \/ result'[b] \in {None, result[b]}
          \/ \E v \in Wsdls : v = result'[b] /\ Complete(v) /\ Doc(v) = Root[b]
  /\ \A e \in Docs :
       \/ cache'[ModuleCache][e] = cache[ModuleCache][e]
       \/ \E v \in Wsdls : v = cache'[ModuleCache][e] /\ Complete(v)
  /\ \A i \in 1..Len(queue') : queue'[i].do = "client" =>
       \/ \E j \in 1..Len(queue) : queue'[i] = queue[j]
       \/ \E v \in Wsdls, b \in Calls :
            queue'[i].wsdl = v /\ queue'[i].call = b /\ Complete(v) /\ Doc(v) = Root[b]

\* A step that leaves objects and schemas alone.
LEMMA QuietRest ==
  ASSUME RInv, IInv', QuietStep
  PROVE  Rest'
<1> USE Distinct
<1>0. TypeOK /\ Chains /\ ReadsOK /\ CachesOK /\ TypeOK' /\ Chains'
      /\ Homes /\ Downward /\ Line /\ Awaited /\ Closed /\ Told /\ Blamed /\ Whole /\ Resolved
  BY DEF RInv, Rest, IInv, Order
<1>1. /\ UNCHANGED <<reads, stage, todo, waiter, loadedBy, schemas, refs, crashed, defect>>
      /\ active'.op = "idle"
      /\ \A y \in Wsdls : ~OnTurn(y) /\ (Ticks(y) => Ticks(y)')
  BY DEF QuietStep
<1>2. Settled
  BY <1>1 DEF Settled, Live, QuietStep
<1>3. \A b \in Calls : ~Failing(b)'
  BY <1>1 DEF Failing
<1>4. LostStays
  BY DEF LostStays, Lost, QuietStep
<1>5. \A y \in Wsdls : Todo(y)' = Todo(y) /\ (Live(y)' <=> Live(y))
  BY <1>1 DEF Todo, Live
<1>6. Homes'
  BY <1>0, <1>1, <1>2, HomesKept DEF Homes
<1>7. Downward'
  <2>1. \A y \in Wsdls : Todo(y)' \subseteq Imported[Doc(y)]
    BY <1>0, <1>5 DEF Downward
  <2>2. \A q \in reads' : /\ q.user \in Wsdls => q.doc \in Imported[Doc(q.user)]
                          /\ q.doc \in Reach(Root[q.call])
    BY <1>0, <1>1 DEF Downward
  <2>3. \A y \in Wsdls, e \in Docs :
          /\ schemas'[y][e] # None => e \in Reach(Doc(y))
          /\ schemas'[y][e] \notin {None, Plain} => Doc(schemas'[y][e]) = e
    BY <1>0, <1>1 DEF Downward
  <2>4. \A y \in Wsdls : stage'[y] \in {"including", "loaded"} => schemas'[y][Doc(y)] = y
    BY <1>0, <1>1 DEF Downward
  <2> QED
    BY <1>0, <1>2, <2>1, <2>2, <2>3, <2>4, DownwardKept
<1>8. Line'
  BY <1>0, <1>2, LineKept
<1>9. Awaited'
  BY <1>0, <1>1, <1>2, <1>5, AwaitedKept
<1>10. Closed'
  BY <1>0, <1>1, <1>2, <1>4, <1>5, ClosedKept
<1>11. Told'
  <2>1. ASSUME NEW u \in Wsdls, NEW y \in Wsdls, NEW b \in Calls, Keeps(u, y), b = loadedBy[y],
               outcome'[b] = "pending"
        PROVE  Keeps(u, y)'
    <3>1. stage[u] = "including"
      BY <2>1 DEF Keeps, QuietStep
    <3> QED
      BY <1>1, <2>1, <3>1 DEF Keeps
  <2>2. \A b \in Calls : Failing(b) /\ outcome'[b] = "pending" => Failing(b)'
    BY DEF QuietStep
  <2>3. \A b \in Calls : outcome'[b] = "pending" => outcome[b] = "none" \/ outcome[b] = "pending"
    BY DEF QuietStep
  <2> QED
    BY <1>0, <1>1, <1>2, <1>4, <2>1, <2>2, <2>3, ToldKept
<1>12. Blamed'
  BY <1>3 DEF Blamed
<1>13. Whole'
  BY <1>0, <1>2, WholeKept DEF QuietStep
<1>14. Resolved'
  BY <1>0, <1>1, <1>2, ResolvedKept
<1> QED
  BY <1>6, <1>7, <1>8, <1>9, <1>10, <1>11, <1>12, <1>13, <1>14 DEF Rest

---------------------------------------------------------------------------
(* What a call is given.                                                   *)

\* The line of a call that waits for no tick ends where the turn is, or waits for
\* a file.
LEMMA EndLemma ==
  ASSUME RInv, NEW c \in Calls, Queued(c) = {}, LiveOf(c) # {}
  PROVE  \E v \in LiveOf(c) :
           /\ OnTurn(v) \/ \E r \in Reading(c) : r.user = v
           /\ \A y \in LiveOf(c) : Doc(v) \in Reach(Doc(y))
<1>0. TypeOK /\ Chains /\ ReadsOK /\ Line /\ Awaited /\ IInv
  BY DEF RInv, Rest, IInv, Order
<1>1. \A y \in LiveOf(c) : waiter[y] \in Wsdls => waiter[y] \in LiveOf(c)
  BY <1>0, LiveLemma
<1>2. PICK v \in LiveOf(c) : EndsWith(LiveOf(c), v)
  BY <1>0, <1>1 DEF Line
<1>3. v \in Wsdls /\ Live(v) /\ loadedBy[v] = c
  BY DEF LiveOf
<1>4. stage[v] # "ticking"
  <2> SUFFICES ASSUME stage[v] = "ticking" PROVE FALSE
    OBVIOUS
  <2>1. PICK i \in 1..Len(queue) : queue[i].do = "parse" /\ queue[i].wsdl = v
    BY <1>0, <1>3 DEF Awaited
  <2>2. i \in Queued(c)
    BY <1>3, <2>1 DEF Queued, CallOf
  <2> QED
    BY <2>2
<1>5. ~\E y \in Wsdls : Live(y) /\ waiter[y] = v
  <2> SUFFICES ASSUME NEW y \in Wsdls, Live(y), waiter[y] = v PROVE FALSE
    OBVIOUS
  <2>1. loadedBy[y] = c
    BY <1>0, <1>3, LoadLemma DEF Live
  <2>2. y \in LiveOf(c)
    BY <2>1 DEF LiveOf
  <2> QED
    BY <1>2, <2>2 DEF EndsWith
<1>6. ASSUME NEW r \in reads, r.user = v
      PROVE  r \in Reading(c)
  <2>1. ReadOK(r) /\ r.call \in Calls /\ v \notin Calls
    BY <1>0, <1>3, Distinct DEF ReadsOK, TypeOK
  <2>2. r.call = c
    BY <1>3, <1>6, <2>1 DEF ReadOK
  <2> QED
    BY <2>2 DEF Reading
<1>7. OnTurn(v) \/ \E r \in Reading(c) : r.user = v
  BY <1>0, <1>3, <1>4, <1>5, <1>6 DEF Awaited, OnTurn, Live
<1> QED
  BY <1>2, <1>7 DEF EndsWith

\* When the first object of a call has ended, all that it reaches is loaded, and
\* it knows of it.
LEMMA CompleteLemma ==
  ASSUME RInv, Separate, NEW c \in Calls, NEW x \in Wsdls,
         active.op = "back", active.to = c, active.wsdl = x
  PROVE  Complete(x) /\ Doc(x) = Root[c] /\ loadedBy[x] = c
<1> USE Distinct
<1>0. TypeOK /\ Chains /\ ReadsOK /\ CachesOK /\ TurnOK /\ Sole /\ IInv
      /\ Homes /\ Downward /\ Line /\ Awaited /\ Closed /\ Told /\ Resolved
  BY DEF RInv, Rest, IInv, Order
<1>1. stage[x] = "loaded" /\ waiter[x] = c
  BY <1>0 DEF TurnOK
<1>2. loadedBy[x] = c /\ Doc(x) = Root[c]
  BY <1>0, <1>1, LoadLemma
<1>3. InTurn(c) /\ ~Failing(c)
  BY DEF InTurn, Failing
<1>4. outcome[c] = "pending" /\ Queued(c) = {} /\ Reading(c) = {}
  BY <1>0, <1>3 DEF Sole, OneOf, NoneOf, Resolved
<1>5. LiveOf(c) = {}
  <2> SUFFICES ASSUME LiveOf(c) # {} PROVE FALSE
    OBVIOUS
  <2>1. PICK v \in LiveOf(c) : OnTurn(v)
    BY <1>4, EndLemma
  <2> QED
    BY <2>1 DEF OnTurn, LiveOf
<1>6. ~Lost(c)
  BY <1>3, <1>4 DEF Lost
<1>7. \A y \in Wsdls : stage[y] = "loaded" /\ loadedBy[y] = c => schemas[x][Doc(y)] # None
  <2> TAKE y \in Wsdls
  <2> HAVE stage[y] = "loaded" /\ loadedBy[y] = c
  <2>1. PICK u \in Wsdls : Keeps(u, y)
    BY <1>0, <1>3, <1>4 DEF Told
  <2>2. stage[u] # "including"
    BY <1>5, <2>1 DEF Keeps, LiveOf, Live
  <2> QED
    BY <2>1, <2>2 DEF Keeps
<1> DEFINE S == {d \in Docs : IsLoaded(cache[ParserCache(c)][d])}
<1>8. ASSUME NEW d \in S
      PROVE  \E v \in Wsdls : v = cache[ParserCache(c)][d] /\ Doc(v) = d /\ stage[v] = "loaded" /\ loadedBy[v] = c
  <2>1. PICK v : v = cache[ParserCache(c)][d]
    OBVIOUS
  <2>2. v \in Wsdls /\ v # None /\ loadedBy[v] = c /\ Doc(v) = d
    BY <1>0, <1>8, <2>1, OwnLemma
  <2>3. stage[v] # "unloaded" /\ stage[v] # "absent"
    BY <1>0, <1>8, <2>1, <2>2 DEF Homes, IsLoaded
  <2>4. ~Live(v)
    BY <1>5, <2>2 DEF LiveOf
  <2>5. stage[v] # "failed"
    BY <1>0, <1>6, <2>2 DEF Told
  <2>6. stage[v] = "loaded"
    BY <1>0, <2>2, <2>3, <2>4, <2>5 DEF TypeOK, Stages, Live
  <2> QED
    BY <2>1, <2>2, <2>6
<1>9. Closes(S)
  <2> SUFFICES ASSUME NEW d \in S, NEW e \in Imported[d] PROVE e \in S
    BY DEF Closes
  <2>1. PICK v \in Wsdls : v = cache[ParserCache(c)][d] /\ Doc(v) = d /\ stage[v] = "loaded" /\ loadedBy[v] = c
    BY <1>8
  <2>2. e \in Docs
    BY ImportedLemma
  <2>3. ~\E r \in reads : r.user = v
    <3>1. \A r \in reads : r.user = v => r.call = c
      BY <1>0, <2>1 DEF ReadsOK, ReadOK, TypeOK
    <3> QED
      BY <1>4, <3>1 DEF Reading
  <2>4. IsLoaded(cache[ParserCache(c)][e])
    BY <1>0, <1>6, <2>1, <2>3 DEF Closed
  <2> QED
    BY <2>2, <2>4
<1>10. Doc(x) \in Docs /\ Doc(x) \in S
  <2>1. Doc(x) \in Docs
    BY DocLemma
  <2>2. cache[ParserCache(c)][Doc(x)] = x
    BY <1>0, <1>2 DEF Homes
  <2> QED
    BY <1>1, <2>1, <2>2 DEF IsLoaded
<1>11. Reach(Doc(x)) \subseteq S
  <2> HIDE DEF S
  <2>1. S \in SUBSET Docs
    BY DEF S
  <2> QED
    BY <1>9, <1>10, <2>1, ReachLeast
<1>12. \A d \in Docs : d \in Reach(Doc(x)) => schemas[x][d] # None
  <2> TAKE d \in Docs
  <2> HAVE d \in Reach(Doc(x))
  <2>1. PICK v \in Wsdls : Doc(v) = d /\ stage[v] = "loaded" /\ loadedBy[v] = c
    BY <1>8, <1>11
  <2> QED
    BY <1>7, <2>1
<1>13. \A d \in Docs : schemas[x][d] # None => d \in Reach(Doc(x))
  BY <1>0 DEF Downward
<1> QED
  BY <1>1, <1>2, <1>12, <1>13 DEF Complete

---------------------------------------------------------------------------
(* Of which kind each action is.                                         *)

\* What is left of the includes when the first one is taken.
LEMMA TodoForLemma ==
  ASSUME TypeOK, NEW w \in Wsdls, todo[w] # <<>>, todo' = [todo EXCEPT ![w] = Tail(@)]
  PROVE  Head(todo[w]) \in Todo(w) /\ TodoFor(w, Head(todo[w]))
<1>1. /\ todo[w] \in Seq(Docs) /\ todo'[w] = Tail(todo[w])
      /\ \A x \in Wsdls : x # w => todo'[x] = todo[x]
  BY DEF TypeOK
<1>2. /\ Head(todo[w]) = todo[w][1] /\ 1 \in 1..Len(todo[w])
      /\ \A i \in 1..Len(todo'[w]) : i + 1 \in 1..Len(todo[w]) /\ todo'[w][i] = todo[w][i + 1]
  <2>1. PICK s \in Seq(Docs) : s = todo[w] /\ s # <<>> /\ todo'[w] = Tail(s)
    BY <1>1
  <2>2. /\ Head(s) = s[1] /\ 1 \in 1..Len(s)
        /\ \A i \in 1..Len(Tail(s)) : i + 1 \in 1..Len(s) /\ Tail(s)[i] = s[i + 1]
    BY <2>1
  <2> QED
    BY <2>1, <2>2
<1>3. Todo(w) \subseteq {Head(todo[w])} \cup Todo(w)'
  BY TodoLemma DEF TypeOK
<1>4. Todo(w)' \subseteq Todo(w)
  BY <1>2 DEF Todo
<1>5. Head(todo[w]) \in Todo(w)
  BY <1>2 DEF Todo
<1>6. \A x \in Wsdls \ {w} : Todo(x)' = Todo(x)
  BY <1>1 DEF Todo
<1> QED
  BY <1>3, <1>4, <1>5, <1>6 DEF TodoFor

\* A call is made.
LEMMA AskRest ==
  ASSUME RInv, IInv', Separate, NEW c \in Calls, Ask(c)
  PROVE  Rest'
<1> USE Distinct
<1>0. TypeOK /\ Chains /\ ReadsOK /\ CachesOK /\ Sole /\ IInv /\ Entries /\ Homes /\ Whole
  BY DEF RInv, Rest, IInv, Order
<1>1. /\ active.op = "idle" /\ active'.op = "idle" /\ ~crashed
      /\ outcome[c] = "none" /\ outcome'[c] = "pending"
      /\ \A b \in Calls \ {c} : outcome'[b] = outcome[b]
      /\ UNCHANGED <<cache, todo, schemas, refs, result, crashed, defect>>
  BY <1>0 DEF Ask, MayStart, Idle, TypeOK
<1>2. PICK d \in Docs : d = Root[c]
  BY LoaderAssumption
<1>3. PICK v : v = cache[ParserCache(c)][d]
  OBVIOUS
<1>4. \A r \in reads : r.call # c
  BY <1>0, <1>1 DEF Sole, NoneOf, Reading
<1>5. \A x \in Wsdls : loadedBy[x] # c
  BY <1>0, <1>1 DEF Homes
<1>6. /\ v # None => v \in Wsdls /\ Doc(v) = d
      /\ v = None \/ (v \in Wsdls /\ stage[v] = "unloaded" /\ loadedBy[v] = None)
  BY <1>0, <1>3, <1>5, OwnLemma
<1>7. TodoFor(c, d)
  BY <1>1 DEF TodoFor, Todo
<1>8. CASE IsUnloaded(v) /\ StartLoad(v, c, c) /\ UNCHANGED reads
  <2>1. v \in Wsdls /\ v # None /\ Doc(v) = d /\ loadedBy[v] = None
    BY <1>6, <1>8 DEF IsUnloaded
  <2>2. Begins(v, c, c) /\ queue' = Append(queue, [do |-> "parse", wsdl |-> v]) /\ reads' = reads
    BY <1>8 DEF StartLoad, Begins
  <2>3. v[1] \in {c, ParserCache(c)}
    BY <1>0, <1>3, <2>1 DEF Homes
  <2>4. LiveOf(c) = {}
    BY <1>5 DEF LiveOf
  <2>5. BeginStep(v, c, c)
    BY <1>1, <1>2, <1>3, <1>4, <1>7, <2>1, <2>2, <2>3, <2>4 DEF BeginStep, UserOK, Free
  <2> QED
    BY <2>1, <2>5, BeginRest
<1>9. CASE /\ ~IsUnloaded(v)
           /\ reads' = reads \cup {[doc |-> d, user |-> c, call |-> c]}
           /\ UNCHANGED <<stage, waiter, loadedBy, queue>>
  <2>1. v = None
    BY <1>6, <1>9 DEF IsUnloaded
  <2>2. FileStep(d, c, c)
    BY <1>1, <1>2, <1>3, <1>7, <1>9, <2>1 DEF FileStep, UserOK
  <2> QED
    BY <2>2, FileRest
<1>10. CASE c \notin Direct /\ ~Open(d, c, c)
  <2>1. wsdlCache' = ModuleCache
    BY <1>0, <1>10 DEF Ask, Entries, Separate, OwnCaches
  <2>2. PICK hit : hit = cache[ModuleCache][d]
    OBVIOUS
  <2>3. /\ hit # None /\ queue' = Append(queue, [do |-> "client", wsdl |-> hit, call |-> c])
        /\ UNCHANGED <<reads, stage, waiter, loadedBy>>
    BY <1>2, <1>10, <2>1, <2>2 DEF Ask
  <2>4. hit \in Wsdls /\ Complete(hit) /\ Doc(hit) = Root[c]
    BY <1>0, <1>2, <2>2, <2>3 DEF TypeOK, Caches, Whole, CachesOK
  <2> DEFINE t == [do |-> "client", wsdl |-> hit, call |-> c]
  <2>5. t.wsdl = hit /\ t.call = c
    OBVIOUS
  <2> HIDE DEF t
  <2>6. /\ queue \in Seq(Tasks) /\ queue' = Append(queue, t)
    BY <1>0, <2>3 DEF TypeOK, t
  <2>7. /\ \A i \in 1..Len(queue') : queue'[i] = t \/ \E j \in 1..Len(queue) : queue'[i] = queue[j]
        /\ \A j \in 1..Len(queue) : j \in 1..Len(queue') /\ queue'[j] = queue[j]
    BY <2>6
  <2>8. \A y : ~OnTurn(y) /\ (Ticks(y) => Ticks(y)')
    BY <1>1, <2>7 DEF OnTurn, Ticks
  <2>9. \A b \in Calls : ~Failing(b)
    BY <1>1 DEF Failing
  <2>10. \A i \in 1..Len(queue') : queue'[i].do = "client" =>
           \/ \E j \in 1..Len(queue) : queue'[i] = queue[j]
           \/ \E x \in Wsdls, b \in Calls :
                queue'[i].wsdl = x /\ queue'[i].call = b /\ Complete(x) /\ Doc(x) = Root[b]
    BY <2>4, <2>5, <2>7
  <2>11. QuietStep
    BY <1>1, <2>3, <2>8, <2>9, <2>10 DEF QuietStep
  <2> QED
    BY <2>11, QuietRest
<1> QED
  BY <1>2, <1>3, <1>8, <1>9, <1>10 DEF Ask, Open

\* A file was read.
LEMMA ReadRest ==
  ASSUME RInv, IInv', Separate, NEW r \in reads, Read(r)
  PROVE  Rest'
<1> USE Distinct
<1>0. TypeOK /\ Chains /\ ReadsOK /\ CachesOK /\ OneLoad /\ Sole /\ IInv /\ Homes /\ Downward
  BY DEF RInv, Rest, IInv, Order
<1>1. PICK c \in Calls, d \in Docs, user \in Users : c = r.call /\ d = r.doc /\ user = r.user
  BY <1>0 DEF TypeOK
<1>2. PICK w \in Wsdls : w = <<c, d>> /\ Doc(w) = d /\ w[1] = c
  <2>1. <<c, d>> \in Wsdls /\ Doc(<<c, d>>) = d /\ <<c, d>>[1] = c
    BY PairLemma
  <2> QED
    BY <2>1
<1>3. /\ active.op = "idle" /\ active'.op = "idle" /\ ~crashed
      /\ reads' = reads \ {r}
      /\ cache' = [cache EXCEPT ![ParserCache(c)][d] = w]
      /\ Begins(w, user, c)
      /\ queue' = Append(queue, [do |-> "parse", wsdl |-> w])
      /\ UNCHANGED <<todo, schemas, refs, outcome, result, crashed, defect>>
  BY <1>1, <1>2 DEF Read, MayStart, Idle, StartLoad, Begins
<1>4. loadedBy[w] = None
  BY <1>0, <1>1, <1>2 DEF ReadsOK, ReadOK, Chains
<1>5. /\ \/ user = c /\ d = Root[c]
         \/ user \in Wsdls /\ loadedBy[user] = c /\ stage[user] = "including"
      /\ user \in Wsdls => d \in Imported[Doc(user)]
  BY <1>0, <1>1 DEF ReadsOK, ReadOK, Downward
<1>6. UserOK(user, d, c)
  BY <1>5 DEF UserOK
<1>7. outcome[c] = "pending" /\ Reading(c) = {r} /\ Queued(c) = {}
  BY <1>0, <1>1, <1>3 DEF Sole, OneOf, NoneOf, Reading
<1>8. \A q \in reads' : q.call # c
  BY <1>3, <1>7 DEF Reading
<1>9. Free(user, reads')
  <2> SUFFICES ASSUME user \in Wsdls
               PROVE  /\ \A v \in Wsdls : Live(v) => waiter[v] # user
                      /\ \A q \in reads' : q.user # user
    BY DEF Free
  <2>1. \A v \in Wsdls : Live(v) => waiter[v] # user
    BY <1>0, <1>1 DEF OneLoad
  <2>2. ASSUME NEW q \in reads', q.user = user PROVE FALSE
    <3>1. q \in reads /\ q.call \in Calls
      BY <1>0, <1>3 DEF TypeOK
    <3>2. q.call = loadedBy[user]
      BY <1>0, <2>2, <3>1 DEF ReadsOK, ReadOK
    <3> QED
      BY <1>5, <1>8, <2>2, <3>2
  <2> QED
    BY <2>1, <2>2
<1>10. user = c => LiveOf(c) = {}
  <2> SUFFICES ASSUME user = c, LiveOf(c) # {} PROVE FALSE
    OBVIOUS
  <2>1. PICK v \in LiveOf(c) : OnTurn(v) \/ \E q \in Reading(c) : q.user = v
    BY <1>7, EndLemma
  <2>2. v \in Wsdls /\ ~OnTurn(v)
    BY <1>3 DEF LiveOf, OnTurn
  <2> QED
    BY <1>1, <1>7, <2>1, <2>2
<1>11. /\ cache[ParserCache(c)][d] = None /\ cache'[ParserCache(c)][d] = w
       /\ \A k \in Caches, e \in Docs : k # ParserCache(c) \/ e # d => cache'[k][e] = cache[k][e]
  <2>1. cache[ParserCache(c)][d] = None
    BY <1>0, <1>1 DEF Homes
  <2>2. ParserCache(c) \in Caches /\ cache \in [Caches -> [Docs -> Wsdls \cup {None}]]
    BY <1>0, ParserCacheLemma DEF TypeOK
  <2> QED
    BY <1>3, <2>1, <2>2
<1>12. TodoFor(user, d)
  BY <1>3 DEF TodoFor, Todo
<1>13. BeginStep(w, user, c)
  BY <1>1, <1>2, <1>3, <1>4, <1>6, <1>7, <1>8, <1>9, <1>10, <1>11, <1>12 DEF BeginStep
<1> QED
  BY <1>13, BeginRest

\* The next tick parses a document.
LEMMA ParseRest ==
  ASSUME RInv, IInv', Separate, Parse
  PROVE  Rest'
<1> USE Distinct
<1>0. TypeOK /\ Chains /\ QueueOK /\ Downward
  BY DEF RInv, Rest, IInv, Order
<1>1. queue[1] = Head(queue) /\ 1 \in 1..Len(queue) /\ queue[1] \in Tasks
  BY <1>0 DEF Parse, TypeOK
<1>2. PICK w \in Wsdls : w = Head(queue).wsdl
  BY <1>1, TaskLemma
<1>3. /\ stage[w] = "ticking"
      /\ active.op = "idle" /\ queue # <<>> /\ queue' = Tail(queue)
      /\ LoadUp(w)
  BY <1>0, <1>1, <1>2 DEF QueueOK, Parse, MayStart, Idle
<1>4. UNCHANGED <<reads, wsdlCache, cache, waiter, loadedBy, refs, outcome, result, crashed, defect>>
  BY <1>3 DEF LoadUp
<1>5. CASE /\ defect[Doc(w)] = "syntax"
           /\ stage' = [stage EXCEPT ![w] = "failed"]
           /\ Back(waiter[w], None)
           /\ UNCHANGED <<todo, schemas>>
  <2>1. \A c \in Calls : c = loadedBy[w] => Reach(Root[c]) \cap Defective # {}
    BY <1>0, <1>5, DocLemma DEF Downward, Defective
  <2>2. (\A y \in Wsdls : ~OnTurn(y)) /\ \A b \in Calls : ~InTurn(b)
    BY <1>3 DEF OnTurn, InTurn
  <2>3. EndStep(w, None)
    BY <1>2, <1>3, <1>4, <1>5, <2>1, <2>2 DEF EndStep, Back, Live
  <2> QED
    BY <2>3, EndRest
<1>6. CASE /\ stage' = [stage EXCEPT ![w] = "including"]
           /\ todo' = [todo EXCEPT ![w] = Imports[Doc(w)]]
           /\ schemas' = [schemas EXCEPT ![w][Doc(w)] = w]
           /\ active' = [op |-> "include", wsdl |-> w]
  <2>1. LoadUpStep(w)
    BY <1>2, <1>3, <1>4, <1>6 DEF LoadUpStep
  <2> QED
    BY <2>1, LoadUpRest
<1> QED
  BY <1>3, <1>5, <1>6 DEF LoadUp

\* A user gets a client on what was in the cache of soap.js.
LEMMA CachedClientRest ==
  ASSUME RInv, IInv', Separate, CachedClient
  PROVE  Rest'
<1> USE Distinct
<1>0. TypeOK /\ Chains /\ Sole /\ Whole /\ Resolved
  BY DEF RInv, Rest, IInv, Order
<1>1. queue[1] = Head(queue) /\ 1 \in 1..Len(queue) /\ queue[1] \in Tasks /\ queue[1].do = "client"
  BY <1>0 DEF CachedClient, TypeOK
<1>2. PICK w \in Wsdls, c \in Calls : w = Head(queue).wsdl /\ c = Head(queue).call
  BY <1>1, TaskLemma
<1>3. Complete(w) /\ Doc(w) = Root[c]
  BY <1>0, <1>1, <1>2 DEF Whole
<1>4. Parsed(w)
  BY <1>3, DocLemma, ReachLemma DEF Parsed, Complete
<1>5. /\ active.op = "idle" /\ active'.op = "idle" /\ queue # <<>> /\ queue' = Tail(queue)
      /\ Answer(c, w)
      /\ UNCHANGED <<reads, cache, stage, todo, waiter, loadedBy, schemas, refs, crashed, defect>>
  BY <1>2, <1>4 DEF CachedClient, MayStart, Idle
<1>6. outcome[c] = "pending"
  <2>1. 1 \in Queued(c)
    BY <1>1, <1>2 DEF Queued, CallOf
  <2> QED
    BY <1>0, <2>1 DEF Sole, NoneOf, Resolved
<1>7. /\ outcome'[c] = "wsdl" /\ result'[c] = w
      /\ \A b \in Calls \ {c} : outcome'[b] = outcome[b] /\ result'[b] = result[b]
  BY <1>0, <1>5 DEF Answer, TypeOK
<1>8. \A b \in Calls : result'[b] \in {None, result[b]} \/ \E v \in Wsdls : v = result'[b] /\ Complete(v) /\ Doc(v) = Root[b]
  BY <1>3, <1>7
<1>9. \A y \in Wsdls : ~OnTurn(y) /\ (Ticks(y) => Ticks(y)')
  <2>1. \A y : Ticks(y) => Ticks(y)' \/ Head(queue).do = "parse"
    BY <1>0, <1>5, TailLemma
  <2>2. Head(queue).do = "client"
    BY <1>1
  <2> QED
    BY <1>5, <2>1, <2>2 DEF OnTurn
<1>10. \A i \in 1..Len(queue') : \E j \in 1..Len(queue) : queue'[i] = queue[j]
  BY <1>0, <1>5, TailLemma
<1>11. \A b \in Calls : ~Failing(b)
  BY <1>5 DEF Failing
<1>12. QuietStep
  BY <1>5, <1>6, <1>7, <1>8, <1>9, <1>10, <1>11 DEF QuietStep
<1> QED
  BY <1>12, QuietRest

\* A call is told how its load ended.
LEMMA BackToCallRest ==
  ASSUME RInv, IInv', Separate, BackToCall
  PROVE  Rest'
<1> USE Distinct
<1>0. TypeOK /\ Chains /\ TurnOK /\ Sole /\ Entries /\ Whole /\ Resolved
  BY DEF RInv, Rest, IInv, Order
<1>1. PICK c \in Calls, x \in Wsdls \cup {None} : c = active.to /\ x = active.wsdl
  BY <1>0, ActiveLemma DEF BackToCall
<1>2. /\ active.op = "back" /\ ~crashed /\ active'.op = "idle"
      /\ Answer(c, x)
      /\ cache' = IF x = None \/ c \in Direct THEN cache ELSE [cache EXCEPT ![ModuleCache][Root[c]] = x]
      /\ UNCHANGED <<queue, reads, stage, todo, waiter, loadedBy, schemas, refs, crashed, defect>>
  BY <1>0, <1>1 DEF BackToCall, Idle, Entries
<1>3. x \in Wsdls => Complete(x) /\ Doc(x) = Root[c] /\ loadedBy[x] = c
  BY <1>1, <1>2, CompleteLemma
<1>4. outcome[c] = "pending"
  BY <1>0, <1>1, <1>2 DEF Sole, NoneOf, InTurn
<1>5. /\ outcome'[c] = (IF x = None THEN "error" ELSE "wsdl") /\ result'[c] = x
      /\ \A b \in Calls \ {c} : outcome'[b] = outcome[b] /\ result'[b] = result[b]
  BY <1>0, <1>2 DEF Answer, TypeOK, Separate
<1>6. /\ \A b \in Calls, e \in Docs : cache'[ParserCache(b)][e] = cache[ParserCache(b)][e]
      /\ \A e \in Docs : cache'[ModuleCache][e] = cache[ModuleCache][e] \/ (x # None /\ cache'[ModuleCache][e] = x)
  <2>1. \A b \in Calls : ParserCache(b) # ModuleCache /\ ParserCache(b) \in Caches
    BY ParserCacheIsOther, ParserCacheLemma
  <2>2. ModuleCache \in Caches /\ cache \in [Caches -> [Docs -> Wsdls \cup {None}]]
    BY <1>0 DEF TypeOK, Caches
  <2> QED
    BY <1>2, <2>1, <2>2
<1>7. \A b \in Calls : result'[b] \in {None, result[b]} \/ \E v \in Wsdls : v = result'[b] /\ Complete(v) /\ Doc(v) = Root[b]
  BY <1>3, <1>5
<1>8. \A e \in Docs :
        \/ cache'[ModuleCache][e] = cache[ModuleCache][e]
        \/ \E v \in Wsdls : v = cache'[ModuleCache][e] /\ Complete(v)
  BY <1>3, <1>6
<1>9. \A y \in Wsdls : ~OnTurn(y) /\ (Ticks(y) => Ticks(y)')
  BY <1>1, <1>2 DEF OnTurn, Ticks
<1>10. \A b \in Calls : Failing(b) => b = c /\ x = None
  BY <1>1, <1>2 DEF Failing, InTurn
<1>11. active.wsdl \in Wsdls => loadedBy[active.wsdl] = c
  BY <1>1, <1>3
<1>12. QuietStep
  BY <1>2, <1>4, <1>5, <1>6, <1>7, <1>8, <1>9, <1>10, <1>11 DEF QuietStep
<1> QED
  BY <1>12, QuietRest

\* The next include of an object.
LEMMA IncludeRest ==
  ASSUME RInv, IInv', Separate, Include
  PROVE  Rest'
<1> USE Distinct
<1>0. TypeOK /\ Chains /\ TurnOK /\ OneLoad /\ Sole /\ IInv /\ Homes /\ Downward /\ Awaited /\ Told /\ Resolved
  BY DEF RInv, Rest, IInv, Order
<1>1. PICK w \in Wsdls : w = active.wsdl
  BY <1>0, ActiveLemma DEF Include
<1>2. active.op = "include" /\ ~crashed /\ stage[w] = "including"
  BY <1>0, <1>1 DEF Include, TurnOK
<1>3. PICK c \in Calls : c = loadedBy[w]
  BY <1>0, <1>2, LoadLemma
<1>4. outcome[c] = "pending" /\ Queued(c) = {} /\ Reading(c) = {}
  BY <1>0, <1>1, <1>2, <1>3 DEF Sole, OneOf, NoneOf, InTurn
<1>5. PICK d : d = Head(todo[w])
  OBVIOUS
<1>6. PICK v : v = cache[ParserCache(c)][d]
  OBVIOUS
<1>7. /\ todo[w] # <<>> /\ todo' = [todo EXCEPT ![w] = Tail(@)]
      /\ UNCHANGED <<wsdlCache, cache, refs, result, crashed, defect>>
  BY <1>1 DEF Include
<1>8. TodoFor(w, d) /\ d \in Imported[Doc(w)] /\ d \in Docs /\ Doc(w) \in Docs
  BY <1>0, <1>5, <1>7, TodoForLemma, DocLemma DEF Downward
<1>9. /\ v # None => v \in Wsdls /\ Doc(v) = d
      /\ IsLoaded(v) => v \in Wsdls /\ v # None /\ loadedBy[v] = c
      /\ ~IsLoaded(v) => v = None \/ (v \in Wsdls /\ stage[v] = "unloaded" /\ loadedBy[v] = None)
  BY <1>0, <1>6, <1>8, OwnLemma
<1>10. UserOK(w, d, c) /\ Free(w, reads) /\ w # c /\ \A r \in reads : r.call # c
  BY <1>0, <1>1, <1>2, <1>3, <1>4, <1>8 DEF UserOK, OneLoad, Free, Reading
<1>11. OnTurn(w) /\ \A y \in Wsdls : OnTurn(y) => y = w
  BY <1>1, <1>2 DEF OnTurn
<1>12. CASE /\ IsLoaded(v) /\ Merge(w, v)
            /\ UNCHANGED <<reads, stage, waiter, loadedBy, queue, outcome>>
  <2>1. v \in Wsdls /\ v # None /\ loadedBy[v] = c /\ Doc(v) = d
    BY <1>9, <1>12
  <2>2. stage[v] # "absent" /\ stage[v] # "unloaded"
    BY <1>0, <1>6, <1>8, <1>12, <2>1 DEF Homes, IsLoaded
  <2>3. stage[v] # "ticking"
    <3> SUFFICES ASSUME stage[v] = "ticking" PROVE FALSE
      OBVIOUS
    <3>1. PICK i \in 1..Len(queue) : queue[i].do = "parse" /\ queue[i].wsdl = v
      BY <1>0, <2>1 DEF Awaited
    <3>2. i \in Queued(c)
      BY <2>1, <3>1 DEF Queued, CallOf
    <3> QED
      BY <1>4, <3>2
  <2>4. stage[v] # "failed"
    <3>1. ~Lost(c)
      BY <1>2, <1>4 DEF Lost, Failing
    <3> QED
      BY <1>0, <2>1, <3>1 DEF Told
  <2>5. stage[v] \in {"including", "loaded"}
    BY <1>0, <2>1, <2>2, <2>3, <2>4 DEF TypeOK, Stages
  <2>6. stage[v] = "loaded" \/ OnCycle(d)
    <3> SUFFICES ASSUME stage[v] = "including" PROVE OnCycle(d)
      BY <2>5
    <3>1. v \in LiveOf(c) /\ LiveOf(c) # {}
      BY <2>1 DEF LiveOf, Live
    <3>2. PICK x \in LiveOf(c) : OnTurn(x) /\ \A y \in LiveOf(c) : Doc(x) \in Reach(Doc(y))
      BY <1>4, <3>1, EndLemma
    <3>3. x = w
      BY <1>11, <3>2 DEF LiveOf
    <3>4. Doc(w) \in Reach(d)
      BY <2>1, <3>1, <3>2, <3>3
    <3> QED
      BY <1>8, <3>4, CycleLemma
  <2>7. \A b \in Calls : b = loadedBy[w] => IsLoaded(cache[ParserCache(b)][Doc(v)])
    BY <1>3, <1>6, <1>12, <2>1
  <2>8. MergeStep(w, v)
    BY <1>2, <1>3, <1>7, <1>8, <1>11, <1>12, <2>1, <2>5, <2>6, <2>7 DEF MergeStep, Merge
  <2> QED
    BY <2>1, <2>8, MergeRest
<1>13. CASE ~IsLoaded(v) /\ Open(d, w, c) /\ active' = Idle /\ UNCHANGED <<schemas, outcome>>
  <2>1. active'.op = "idle" /\ (active.op = "include" => active.wsdl = w) /\ outcome'[c] = "pending"
    BY <1>1, <1>4, <1>13 DEF Idle
  <2>2. CASE IsUnloaded(v) /\ StartLoad(v, w, c) /\ UNCHANGED reads
    <3>1. v \in Wsdls /\ v # None /\ Doc(v) = d /\ loadedBy[v] = None
      BY <1>9, <1>13, <2>2 DEF IsUnloaded
    <3>2. Begins(v, w, c) /\ queue' = Append(queue, [do |-> "parse", wsdl |-> v]) /\ reads' = reads
      BY <2>2 DEF StartLoad, Begins
    <3>3. v[1] \in {c, ParserCache(c)}
      BY <1>0, <1>6, <1>8, <3>1 DEF Homes
    <3>4. BeginStep(v, w, c)
      BY <1>2, <1>4, <1>6, <1>7, <1>8, <1>10, <1>13, <2>1, <3>1, <3>2, <3>3 DEF BeginStep
    <3> QED
      BY <3>1, <3>4, BeginRest
  <2>3. CASE /\ ~IsUnloaded(v)
             /\ reads' = reads \cup {[doc |-> d, user |-> w, call |-> c]}
             /\ UNCHANGED <<stage, waiter, loadedBy, queue>>
    <3>1. v = None
      BY <1>9, <1>13, <2>3 DEF IsUnloaded
    <3>2. FileStep(d, w, c)
      BY <1>2, <1>6, <1>7, <1>8, <1>10, <1>13, <2>1, <2>3, <3>1 DEF FileStep
    <3> QED
      BY <1>8, <3>2, FileRest
  <2> QED
    BY <1>6, <1>13, <2>2, <2>3 DEF Open
<1>14. c \notin Sync
  BY DEF Separate
<1>15. \/ /\ IsLoaded(v) /\ Merge(w, v)
          /\ UNCHANGED <<reads, stage, waiter, loadedBy, queue, outcome>>
       \/ ~IsLoaded(v) /\ Open(d, w, c) /\ active' = Idle /\ UNCHANGED <<schemas, outcome>>
  BY <1>1, <1>3, <1>5, <1>6, <1>14 DEF Include
<1> QED
  BY <1>12, <1>13, <1>15

\* No include is left.
LEMMA FinishRest ==
  ASSUME RInv, IInv', Separate, Finish
  PROVE  Rest'
<1> USE Distinct
<1>0. TypeOK /\ Chains /\ TurnOK /\ Lacks /\ Downward /\ Resolved
  BY DEF RInv, Rest, IInv, Order
<1>1. PICK w \in Wsdls : w = active.wsdl
  BY <1>0, ActiveLemma DEF Finish
<1>2. active.op = "include" /\ stage[w] = "including" /\ todo[w] = <<>>
  BY <1>0, <1>1 DEF Finish, TurnOK
<1>3. schemas[w][Doc(w)] = w /\ Doc(w) \in Docs /\ w \in SchemasOf(w)
  BY <1>0, <1>2, DocLemma DEF Downward, SchemasOf
<1>4. PICK fresh : fresh = {s \in SchemasOf(w) : refs[s] = None}
  OBVIOUS
<1>5. /\ refs' = [s \in Wsdls |-> IF s \in fresh THEN {d \in Docs : schemas[w][d] # None} ELSE refs[s]]
      /\ \/ /\ \E s \in fresh : defect[Doc(s)] = "service"
            /\ stage' = [stage EXCEPT ![w] = "failed"]
            /\ Back(waiter[w], None)
         \/ /\ stage' = [stage EXCEPT ![w] = "loaded"]
            /\ Back(waiter[w], w)
      /\ UNCHANGED <<crashed, outcome>>
      /\ UNCHANGED <<queue, reads, wsdlCache, cache, todo, waiter, loadedBy, schemas, result, defect>>
  <2>1. ~\E d \in Docs : schemas[w][d] = Plain
    BY <1>0 DEF Resolved
  <2>2. {d \in Docs : schemas[w][d] \notin {None, Plain}} = {d \in Docs : schemas[w][d] # None}
    BY <2>1
  <2>3. ResolvedBy(w, fresh) =
          [s \in Wsdls |-> IF s \in fresh THEN {d \in Docs : schemas[w][d] # None} ELSE refs[s]]
    BY <2>2 DEF ResolvedBy
  <2> QED
    BY <1>1, <1>4, <2>1, <2>3 DEF Finish
<1>6. ASSUME NEW s \in fresh
      PROVE  /\ s \in Wsdls /\ refs[s] = None /\ Doc(s) \in Reach(Doc(w))
             /\ s # w => stage[s] = "loaded" \/ OnCycle(Doc(s))
  <2>1. refs[s] = None /\ s \notin {None, Plain}
    BY <1>4 DEF SchemasOf
  <2>2. PICK d \in Docs : schemas[w][d] = s
    BY <1>4 DEF SchemasOf
  <2>3. s \in Wsdls
    BY <1>0, <2>1, <2>2 DEF TypeOK
  <2>4. Doc(s) = d /\ d \in Reach(Doc(w))
    BY <1>0, <2>1, <2>2 DEF Downward
  <2>5. s # w => stage[s] = "loaded" \/ OnCycle(d)
    BY <1>0, <2>1, <2>2 DEF Resolved
  <2> QED
    BY <2>1, <2>3, <2>4, <2>5
<1>7. \A y \in Wsdls : y # w => OnCycle(Doc(y)) \/ refs'[y] = refs[y]
  <2> TAKE y \in Wsdls
  <2> HAVE y # w
  <2>1. CASE y \in fresh
    <3>1. refs[y] = None /\ (stage[y] = "loaded" \/ OnCycle(Doc(y)))
      BY <1>6, <2>1
    <3> QED
      BY <1>0, <3>1 DEF Resolved
  <2>2. CASE y \notin fresh
    BY <1>5, <2>2
  <2> QED
    BY <2>1, <2>2
<1>8. OnCycle(Doc(w)) \/ (refs'[w] # None /\ Imported[Doc(w)] \subseteq refs'[w])
  <2>1. CASE refs[w] # None
    BY <1>0, <1>2, <2>1 DEF Resolved
  <2>2. CASE refs[w] = None
    <3>1. refs'[w] = {d \in Docs : schemas[w][d] # None}
      BY <1>3, <1>4, <1>5, <2>2
    <3>2. Missing(w) = {} /\ Todo(w) = {}
      BY <1>0, <1>1, <1>2 DEF Lacks, Todo
    <3>3. Imported[Doc(w)] \subseteq {d \in Docs : schemas[w][d] # None}
      BY <3>2, DocLemma DEF Missing
    <3>4. None \notin SUBSET Docs
      BY IdentityAssumption
    <3> QED
      BY <3>1, <3>3, <3>4
  <2> QED
    BY <2>1, <2>2
<1>9. (\A y \in Wsdls : OnTurn(y) => y = w) /\ (\A b \in Calls : InTurn(b) => b = loadedBy[w])
  BY <1>1, <1>2 DEF OnTurn, InTurn
<1>10. ~\E b \in Calls : Failing(b)
  BY <1>2 DEF Failing
<1>11. Todo(w) = {}
  BY <1>2 DEF Todo
<1>12. CASE /\ \E s \in fresh : defect[Doc(s)] = "service"
            /\ stage' = [stage EXCEPT ![w] = "failed"]
            /\ Back(waiter[w], None)
  <2>1. PICK s \in fresh : defect[Doc(s)] = "service"
    BY <1>12
  <2>2. s \in Wsdls /\ Doc(s) \in Reach(Doc(w)) /\ Doc(s) \in Docs /\ Doc(s) \in Defective
    BY <1>6, <2>1, DocLemma DEF Defective
  <2>3. \A c \in Calls : c = loadedBy[w] => Doc(w) \in Reach(Root[c]) /\ Root[c] \in Docs
    BY <1>0, LoaderAssumption DEF Downward
  <2>4. \A c \in Calls : c = loadedBy[w] => Reach(Root[c]) \cap Defective # {}
    BY <2>2, <2>3, ReachTrans
  <2>5. EndStep(w, None)
    BY <1>2, <1>5, <1>7, <1>9, <1>12, <2>4 DEF EndStep, Back, Live
  <2> QED
    BY <2>5, EndRest
<1>13. CASE stage' = [stage EXCEPT ![w] = "loaded"] /\ Back(waiter[w], w)
  <2>1. EndStep(w, w)
    BY <1>2, <1>5, <1>7, <1>8, <1>9, <1>10, <1>11, <1>13 DEF EndStep, Back, Live
  <2> QED
    BY <2>1, EndRest
<1> QED
  BY <1>5, <1>12, <1>13

\* A load that an object waited for has ended.
LEMMA BackToWsdlRest ==
  ASSUME RInv, IInv', Separate, BackToWsdl
  PROVE  Rest'
<1> USE Distinct
<1>0. TypeOK /\ Chains /\ TurnOK /\ Homes /\ Downward /\ Blamed
  BY DEF RInv, Rest, IInv, Order
<1>1. PICK w \in Wsdls, v \in Wsdls \cup {None} : w = active.to /\ v = active.wsdl
  BY <1>0, ActiveLemma DEF BackToWsdl
<1>2. /\ active.op = "back" /\ stage[w] = "including"
      /\ v # None => stage[v] = "loaded" /\ waiter[v] = w
  BY <1>0, <1>1 DEF BackToWsdl, TurnOK
<1>3. PICK c \in Calls : c = loadedBy[w]
  BY <1>0, <1>2, LoadLemma
<1>4. /\ OnTurn(w) /\ \A y \in Wsdls : OnTurn(y) => y = w
      /\ \A b \in Calls : InTurn(b) <=> b = c
  BY <1>1, <1>2, <1>3 DEF OnTurn, InTurn
<1>5. UNCHANGED <<queue, reads, wsdlCache, cache, todo, waiter, loadedBy, refs, result, crashed, defect>>
  BY DEF BackToWsdl
<1>6. CASE v = None
  <2>1. Back(waiter[w], None) /\ stage' = [stage EXCEPT ![w] = "failed"] /\ UNCHANGED <<schemas, outcome>>
    BY <1>1, <1>3, <1>6 DEF BackToWsdl, Separate
  <2>2. Failing(c)
    BY <1>1, <1>2, <1>4, <1>6 DEF Failing
  <2>3. Reach(Root[c]) \cap Defective # {}
    BY <1>0, <2>2 DEF Blamed
  <2>4. EndStep(w, None)
    BY <1>1, <1>2, <1>3, <1>4, <1>5, <1>6, <2>1, <2>3 DEF EndStep, Back, Live
  <2> QED
    BY <2>4, EndRest
<1>7. CASE v # None
  <2>1. v \in Wsdls /\ stage[v] = "loaded" /\ waiter[v] = w
    BY <1>2, <1>7
  <2>2. Merge(w, v) /\ UNCHANGED <<stage, outcome>>
    BY <1>1, <1>7 DEF BackToWsdl
  <2>3. loadedBy[v] = c /\ Doc(v) \in Imported[Doc(w)]
    BY <1>0, <1>3, <2>1, LoadLemma DEF Downward
  <2>4. cache[ParserCache(c)][Doc(v)] = v
    BY <1>0, <2>1, <2>3 DEF Homes
  <2>5. IsLoaded(cache[ParserCache(c)][Doc(v)])
    BY <2>1, <2>4 DEF IsLoaded
  <2>6. TodoFor(w, Doc(v))
    BY <1>5 DEF TodoFor, Todo
  <2>7. MergeStep(w, v)
    BY <1>1, <1>2, <1>3, <1>4, <1>5, <2>1, <2>2, <2>3, <2>5, <2>6 DEF MergeStep, Merge
  <2> QED
    BY <2>1, <2>7, MergeRest
<1> QED
  BY <1>1, <1>6, <1>7

\* Every step keeps the rest of the invariant.
LEMMA NextRest ==
  ASSUME Separate, RInv, IInv', [Next]_vars
  PROVE  Rest'
<1>1. CASE UNCHANGED vars
  <2> USE <1>1 DEF vars
  <2>0. Rest
    BY DEF RInv
  <2>1. \A x \in Wsdls : (Live(x)' <=> Live(x)) /\ Todo(x)' = Todo(x)
    BY DEF Live, Todo
  <2>2. \A b \in Calls : LiveOf(b)' = LiveOf(b) /\ (Failing(b)' <=> Failing(b)) /\ (Lost(b)' <=> Lost(b))
    BY DEF LiveOf, Live, Failing, Lost, InTurn
  <2>3. \A u, x \in Wsdls : Keeps(u, x) => Keeps(u, x)'
    BY DEF Keeps
  <2>4. Homes'
    BY <2>0 DEF Rest, Homes, ParserCache
  <2>5. Downward'
    BY <2>0, <2>1 DEF Rest, Downward
  <2>6. Line'
    BY <2>0, <2>2 DEF Rest, Line, EndsWith
  <2>7. Awaited'
    BY <2>0, <2>1 DEF Rest, Awaited
  <2>8. TypeOK /\ Chains /\ CachesOK
    BY DEF RInv, IInv, Order
  <2>9. Settled /\ LostStays
    BY <2>0, <2>1, <2>2 DEF Settled, LostStays, Rest, Homes
  <2>10. Closed' /\ Told'
    <3>1. Closed'
      BY <2>0, <2>1, <2>8, <2>9, ClosedKept DEF Rest
    <3>2. Told'
      <4>1. Homes /\ Told
        BY <2>0 DEF Rest
      <4>2. \A x \in Wsdls, b \in Calls :
              b = loadedBy[x] /\ stage'[x] = "failed" => stage[x] = "failed" \/ Lost(b)'
        OBVIOUS
      <4>3. \A x \in Wsdls, b \in Calls :
              b = loadedBy[x] /\ stage'[x] = "loaded" /\ outcome'[b] = "pending" =>
                \/ stage[x] = "loaded" /\ (outcome[b] = "none" \/ outcome[b] = "pending")
                \/ \E u \in Wsdls : Keeps(u, x)'
        OBVIOUS
      <4> QED
        BY <2>2, <2>3, <2>8, <2>9, <4>1, <4>2, <4>3, ToldKept
    <3> QED
      BY <3>1, <3>2
  <2>11. Blamed'
    BY <2>0, <2>2 DEF Rest, Blamed, Defective
  <2>12. Whole' /\ Resolved'
    BY <2>0 DEF Rest, Whole, Complete, Resolved
  <2> QED
    BY <2>4, <2>5, <2>6, <2>7, <2>10, <2>11, <2>12 DEF Rest
<1>2. CASE \E c \in Calls : Ask(c) \/ AskSync(c)
  <2>1. ~\E c \in Calls : AskSync(c)
    BY DEF AskSync, Separate
  <2> QED
    BY <1>2, <2>1, AskRest
<1>3. CASE \E r \in reads : ReadEnds(r)
  BY <1>3, ReadRest, ReadFailsRest DEF ReadEnds
<1>4. CASE Tick
  BY <1>4, ParseRest, CachedClientRest DEF Tick
<1>5. CASE Turn
  <2>1. ~ParseSync
    BY DEF ParseSync, RInv, Rest, Homes
  <2> QED
    BY <1>5, <2>1, IncludeRest, FinishRest, BackToWsdlRest, BackToCallRest DEF Turn
<1> QED
  BY <1>1, <1>2, <1>3, <1>4, <1>5 DEF Next

\* The initial states satisfy it.
LEMMA InitRest ==
  ASSUME Init, Separate
  PROVE  Entries /\ Rest
<1> USE Distinct
<1>1. /\ active.op = "idle" /\ queue = <<>> /\ Len(queue) = 0 /\ reads = {} /\ ~crashed
      /\ \A w \in Wsdls : /\ stage[w] \in {"absent", "unloaded"} /\ loadedBy[w] = None
                          /\ waiter[w] = None /\ refs[w] = None /\ todo[w] = <<>>
                          /\ \A d \in Docs : schemas[w][d] = None
      /\ \A c \in Calls : outcome[c] = "none" /\ result[c] = None
  BY DEF Init, Idle
<1>2. wsdlCache = ModuleCache /\ \A d \in Docs : cache[ModuleCache][d] = None
  <2>1. ModuleCache \in Caches /\ ModuleCache \notin UserCaches
    BY LoaderAssumption DEF Caches
  <2> QED
    BY <2>1 DEF Init
<1>3. Entries
  BY <1>1, <1>2 DEF Entries
<1>4. Homes
  <2>1. ASSUME NEW c \in Calls, NEW d \in Docs, cache[ParserCache(c)][d] # None
        PROVE  /\ cache[ParserCache(c)][d][1] \in {c, ParserCache(c)}
               /\ stage[cache[ParserCache(c)][d]] # "absent"
    <3>1. PICK k \in Caches : k = ParserCache(c)
      BY ParserCacheLemma
    <3>2. k \in UserCaches /\ d \in Preloaded[k] /\ cache[k][d] = <<k, d>>
      BY <2>1, <3>1 DEF Init
    <3>3. <<k, d>> \in Wsdls /\ <<k, d>>[1] = k /\ Doc(<<k, d>>) = d
      BY <3>2, PairLemma
    <3>4. stage[<<k, d>>] = "unloaded"
      BY <3>2, <3>3 DEF Init
    <3> QED
      BY <3>1, <3>2, <3>3, <3>4
  <2> QED
    BY <1>1, <2>1 DEF Homes
<1>5. Downward
  BY <1>1 DEF Downward, Todo
<1>6. Line
  BY <1>1 DEF Line, LiveOf
<1>7. Awaited /\ Closed /\ Told /\ Blamed
  BY <1>1 DEF Awaited, Closed, Told, Blamed, Failing
<1>8. Whole
  BY <1>1, <1>2 DEF Whole
<1>9. Resolved
  BY <1>1 DEF Resolved
<1> QED
  BY <1>3, <1>4, <1>5, <1>6, <1>7, <1>8, <1>9 DEF Rest

\* The invariant of the promise.
THEOREM WholeIsInvariant ==
  ASSUME Separate
  PROVE  Spec => []RInv
<1>1. Init => RInv
  BY InitIInv, InitRest DEF RInv
<1>2. RInv /\ [Next]_vars => RInv'
  <2> SUFFICES ASSUME RInv, [Next]_vars PROVE RInv'
    OBVIOUS
  <2>1. IInv'
    BY NextIInv DEF RInv
  <2>2. Entries'
    BY EntriesStep DEF RInv, Separate
  <2>3. Rest'
    BY <2>1, NextRest
  <2> QED
    BY <2>1, <2>2, <2>3 DEF RInv
<1> QED
  BY <1>1, <1>2, PTL DEF Spec

---------------------------------------------------------------------------
(* What users are given.                                                   *)

\* In a WSDL that a user was given, every reference into an imported document
\* is resolved, except from documents that import themselves: an object that
\* ended last has merged the imports of all others before it post-processed any.
THEOREM ReferencesResolvedHolds ==
  ASSUME Separate
  PROVE  Spec => []ReferencesResolved
<1>1. RInv => ReferencesResolved
  <2> SUFFICES ASSUME RInv, NEW c \in Calls, result[c] # None,
                      NEW d \in Reach(Root[c]), ~OnCycle(d)
               PROVE  ResolvedIn(result[c], d)
    BY ReachIsPromised DEF ReferencesResolved
  <2>0. TypeOK /\ Downward /\ Whole /\ Resolved
    BY DEF RInv, Rest, IInv
  <2>1. PICK w \in Wsdls : w = result[c]
    BY <2>0 DEF TypeOK
  <2>2. Complete(w) /\ Doc(w) = Root[c] /\ d \in Docs
    BY <2>0, <2>1, ReachLemma, LoaderAssumption DEF Whole
  <2>3. PICK s : s = schemas[w][d]
    OBVIOUS
  <2>4. s # None /\ s # Plain /\ s \in Wsdls
    BY <2>0, <2>2, <2>3 DEF Complete, Resolved, TypeOK
  <2>5. Doc(s) = d
    BY <2>0, <2>2, <2>3, <2>4 DEF Downward
  <2>6. stage[s] = "loaded"
    BY <2>0, <2>2, <2>3, <2>4 DEF Complete, Resolved
  <2>7. refs[s] # None /\ Imported[d] \subseteq refs[s]
    BY <2>0, <2>4, <2>5, <2>6 DEF Resolved
  <2> QED
    BY <2>1, <2>3, <2>4, <2>7 DEF ResolvedIn
<1> QED
  BY <1>1, WholeIsInvariant, PTL

\* What a call has found.
LEMMA FoundLemma ==
  ASSUME TypeOK, Whole, NEW c \in Calls
  PROVE  Found(c) = IF result[c] = None THEN {} ELSE Reach(Root[c])
<1>1. CASE result[c] = None
  BY <1>1 DEF Found
<1>2. CASE result[c] # None
  <2>1. Complete(result[c]) /\ Doc(result[c]) = Root[c]
    BY <1>2 DEF Whole
  <2>2. Reach(Root[c]) \subseteq Docs
    BY ReachLemma, LoaderAssumption
  <2> QED
    BY <1>2, <2>1, <2>2 DEF Found, Complete
<1> QED
  BY <1>1, <1>2

\* Also after a step.
LEMMA FoundNext ==
  ASSUME TypeOK', Whole', NEW c \in Calls
  PROVE  Found(c)' = IF result'[c] = None THEN {} ELSE Reach(Root[c])
<1>1. CASE result'[c] = None
  BY <1>1 DEF Found
<1>2. CASE result'[c] # None
  <2>1. Complete(result[c])' /\ Doc(result'[c]) = Root[c]
    BY <1>2 DEF Whole
  <2>2. Reach(Root[c]) \subseteq Docs
    BY ReachLemma, LoaderAssumption
  <2> QED
    BY <1>2, <2>1, <2>2 DEF Found, Complete
<1> QED
  BY <1>1, <1>2

\* What a step does to the calls: it asks for a document, answers one call, or
\* is none of their business.
LEMMA AnswerStep ==
  ASSUME RInv, Separate, Next
  PROVE  /\ defect' = defect
         /\ \/ UNCHANGED <<outcome, result>>
            \/ \E c \in Calls :
                 /\ outcome[c] = "none" /\ outcome' = [outcome EXCEPT ![c] = "pending"]
                 /\ result' = result
            \/ \E c \in Calls, x \in Wsdls \cup {None} :
                 /\ outcome[c] = "pending"
                 /\ outcome' = [outcome EXCEPT ![c] = IF x = None THEN "error" ELSE "wsdl"]
                 /\ result' = [result EXCEPT ![c] = x]
                 /\ x = None => Reach(Root[c]) \cap Defective # {}
<1> USE Distinct
<1>0. TypeOK /\ Chains /\ TurnOK /\ Sole /\ Homes /\ Blamed /\ Whole /\ Resolved
  BY DEF RInv, Rest, IInv, Order
<1>1. CASE \E c \in Calls : Ask(c) \/ AskSync(c)
  BY <1>1 DEF Ask, AskSync, Separate
<1>2. CASE \E r \in reads : ReadEnds(r)
  BY <1>2 DEF ReadEnds, Read, ReadFails
<1>3. CASE Parse
  BY <1>3 DEF Parse, LoadUp
<1>4. CASE CachedClient
  <2>1. queue[1] = Head(queue) /\ 1 \in 1..Len(queue) /\ queue[1] \in Tasks /\ queue[1].do = "client"
    BY <1>0, <1>4 DEF CachedClient, TypeOK
  <2>2. PICK w \in Wsdls, c \in Calls : w = Head(queue).wsdl /\ c = Head(queue).call
    BY <2>1, TaskLemma
  <2>3. Complete(w) /\ Doc(w) = Root[c]
    BY <1>0, <2>1, <2>2 DEF Whole
  <2>4. Parsed(w)
    BY <2>3, DocLemma, ReachLemma DEF Parsed, Complete
  <2>5. 1 \in Queued(c)
    BY <2>1, <2>2 DEF Queued, CallOf
  <2>6. outcome[c] = "pending"
    BY <1>0, <2>5 DEF Sole, NoneOf, Resolved
  <2>7. Answer(c, w) /\ defect' = defect
    BY <1>4, <2>2, <2>4 DEF CachedClient
  <2> QED
    BY <2>6, <2>7 DEF Answer
<1>5. CASE BackToCall
  <2>1. PICK c \in Calls, x \in Wsdls \cup {None} : c = active.to /\ x = active.wsdl
    BY <1>0, <1>5, ActiveLemma DEF BackToCall
  <2>2. active.op = "back" /\ Answer(c, x) /\ defect' = defect
    BY <1>5, <2>1 DEF BackToCall
  <2>3. InTurn(c)
    BY <2>1, <2>2 DEF InTurn
  <2>4. outcome[c] = "pending"
    BY <1>0, <2>3 DEF Sole, NoneOf, Resolved
  <2>5. x = None => Failing(c)
    BY <2>1, <2>2, <2>3 DEF Failing
  <2>6. x = None => Reach(Root[c]) \cap Defective # {}
    BY <1>0, <2>5 DEF Blamed
  <2>7. outcome' = [outcome EXCEPT ![c] = IF x = None THEN "error" ELSE "wsdl"]
        /\ result' = [result EXCEPT ![c] = x]
    BY <2>2 DEF Answer, Separate
  <2> QED
    BY <2>2, <2>4, <2>6, <2>7
<1>6. CASE Turn /\ ~BackToCall
  <2>1. ~ParseSync
    BY <1>0 DEF ParseSync, Homes
  <2>2. CASE Include
    BY <2>2, <1>0 DEF Include, Separate, Open
  <2>3. CASE Finish
    <3>1. active.wsdl \in Wsdls
      BY <1>0, <2>3, ActiveLemma DEF Finish
    <3>2. ~\E d \in Docs : schemas[active.wsdl][d] = Plain
      BY <1>0, <3>1 DEF Resolved
    <3> QED
      BY <2>3, <3>2 DEF Finish
  <2>4. CASE BackToWsdl
    BY <2>4 DEF BackToWsdl, Separate
  <2> QED
    BY <1>6, <2>1, <2>2, <2>3, <2>4 DEF Turn
<1> QED
  BY <1>1, <1>2, <1>3, <1>4, <1>5, <1>6 DEF Next, Tick

\* The loader keeps the safe part of its promise: a call is answered once, with
\* all the documents that its document reaches and no others, or with an error,
\* and then one of these documents is defective.
THEOREM PromiseIsKept ==
  ASSUME Separate
  PROVE  Spec => Promise!ContractInit /\ [][Promise!ContractNext]_(Promise!contractVars)
<1>1. Init => Promise!ContractInit
  <2> SUFFICES ASSUME Init PROVE Promise!ContractInit
    OBVIOUS
  <2>1. \A c \in Calls : Found(c) = {}
    BY DEF Init, Found
  <2> QED
    BY <2>1 DEF Init, Promise!ContractInit
<1>2. RInv /\ RInv' /\ [Next]_vars => [Promise!ContractNext]_(Promise!contractVars)
  <2> SUFFICES ASSUME RInv, RInv', [Next]_vars
               PROVE  [Promise!ContractNext]_(Promise!contractVars)
    OBVIOUS
  <2>0. TypeOK /\ Whole /\ TypeOK' /\ Whole'
    BY DEF RInv, Rest, IInv
  <2> DEFINE F == [c \in Calls |-> Found(c)]
  <2>1. \A c \in Calls : F[c] = IF result[c] = None THEN {} ELSE Reach(Root[c])
    BY <2>0, FoundLemma
  <2>2. \A c \in Calls : F'[c] = IF result'[c] = None THEN {} ELSE Reach(Root[c])
    BY <2>0, FoundNext
  <2>3. F = [c \in Calls |-> F[c]] /\ F' = [c \in Calls |-> F'[c]]
    OBVIOUS
  <2>4. \A c \in Calls : Promise!Reach(Root[c]) = Reach(Root[c])
    BY ReachIsPromised
  <2> HIDE DEF F
  <2>5. CASE UNCHANGED vars
    <3>1. outcome' = outcome /\ defect' = defect /\ result' = result
      BY <2>5 DEF vars
    <3>2. F' = F
      BY <2>1, <2>2, <2>3, <3>1
    <3> QED
      BY <3>1, <3>2 DEF F, Promise!contractVars
  <2>6. CASE Next /\ UNCHANGED <<outcome, result>>
    <3>1. defect' = defect
      BY <2>6, AnswerStep
    <3>2. F' = F
      BY <2>1, <2>2, <2>3, <2>6
    <3> QED
      BY <2>6, <3>1, <3>2 DEF F, Promise!contractVars
  <2>7. ASSUME NEW c \in Calls, Next, outcome[c] = "none",
               outcome' = [outcome EXCEPT ![c] = "pending"], result' = result
        PROVE  Promise!Ask(c)
    <3>1. defect' = defect
      BY <2>7, AnswerStep
    <3>2. F' = F
      BY <2>1, <2>2, <2>3, <2>7
    <3> QED
      BY <2>7, <3>1, <3>2 DEF F, Promise!Ask
  <2>8. ASSUME NEW c \in Calls, NEW x \in Wsdls \cup {None}, Next, outcome[c] = "pending",
               outcome' = [outcome EXCEPT ![c] = IF x = None THEN "error" ELSE "wsdl"],
               result' = [result EXCEPT ![c] = x],
               x = None => Reach(Root[c]) \cap Defective # {}
        PROVE  Promise!Succeed(c) \/ Promise!Fail(c)
    <3>1. defect' = defect
      BY <2>8, AnswerStep
    <3>2. result[c] = None
      BY <2>0, <2>8 DEF RInv, IInv, Order, CachesOK
    <3>3. CASE x = None
      <4>1. result' = result
        BY <2>0, <2>8, <3>2, <3>3 DEF TypeOK
      <4>2. F' = F
        BY <2>1, <2>2, <2>3, <4>1
      <4>3. Promise!Reach(Root[c]) \cap {d \in Docs : defect[d] # "none"} # {}
        BY <2>4, <2>8, <3>3 DEF Defective
      <4> QED
        BY <2>8, <3>1, <3>3, <4>2, <4>3 DEF F, Promise!Fail
    <3>4. CASE x # None
      <4>1. result'[c] = x /\ \A b \in Calls : b # c => result'[b] = result[b]
        BY <2>0, <2>8 DEF TypeOK
      <4>2. F'[c] = Promise!Reach(Root[c]) /\ \A b \in Calls : b # c => F'[b] = F[b]
        BY <2>1, <2>2, <2>4, <3>4, <4>1
      <4>3. F' = [F EXCEPT ![c] = Promise!Reach(Root[c])]
        BY <2>3, <4>2
      <4> QED
        BY <2>8, <3>1, <3>4, <4>3 DEF F, Promise!Succeed
    <3> QED
      BY <3>3, <3>4
  <2> QED
    BY <2>5, <2>6, <2>7, <2>8, AnswerStep DEF Promise!ContractNext
<1> QED
  BY <1>1, <1>2, WholeIsInvariant, PTL DEF Spec
=============================================================================
