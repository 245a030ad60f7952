# strong-soap in TLA+

A model of [strong-soap](../src/README.md), a SOAP client and server for
Node.js: TLA+ modules translated from the code under `src/src`, TLC
configurations that check them on small instances, and theorems about most of
its parts that TLAPS proves for every instance.

Line numbers are those of the files under `src/`. `PROJECT.json` maps each
definition to the lines it stands for.

## 1. The system

| Component | State it keeps | Operations | Interacts with |
|---|---|---|---|
| **Server** `server.js` | listener of the HTTP server, services, per request the `handled` flag and the response | `_requestListener`, `_process`, `_executeMethod`, `handleResult`, `_sendError` | service methods (callback, returned value, exception), XML reader and writer |
| **WSDL loader** `soap.js`, `parser/wsdl.js` | `_wsdlCache`, `options.WSDL_CACHE`, per WSDL object `isLoaded`, definitions, includes to do | `createClient`, `WSDL.open`, `WSDL.load`, `openSync`, `loadSync`, `processIncludes`, `_processNextInclude`, merge, `postProcess` | files and HTTP, `process.nextTick`, parser, clients |
| **WSDL parser** `parser/wsdl.js` `_parse`, `parser/element.js`, `typeRegistry.js`, `wsdl/definitions.js`, `wsdl/types.js`, `xsd/schema.js` | stack of open elements, tree, prefixes of each element, tables of each schema | `onopentag`, `onclosetag`, `startElement`, `endElement`, `addChild`, `getNamespaceURI`, `merge` | sax, every class of element |
| **Schema post-processing and descriptors** `parser/xsd/*` | `_processed`, resolved references, cached descriptors and the arrays they share | `postProcess`, `resolveReferences`, `describe`, `describeChildren` | loader, writer, reader |
| **Namespace context** `parser/nscontext.js` | scopes: mappings, whether they are declared, a counter | `pushContext`, `popContext`, `declareNamespace`, `registerNamespace`, look-ups, `generatePrefix` | writer, base |
| **XML writer** `parser/xmlHandler.js` | the document, the current node, the namespace context | `jsonToXml`, `mapObject`, `addAttributes`, `declareNamespace` | client, server |
| **XML reader** `parser/xmlHandler.js` | stack of open objects, `refs` of multi-reference values | `xmlToJson` with its sax handlers, `merge`, search for a Fault | client, server |
| **Client** `client.js`, `base.js` | SOAP headers, endpoint, options (some of them on the shared WSDL object) | creation, `setEndpoint`, `addSoapHeader` ..., `_defineOperation`, `_invoke`, reply handler | loader, writer, reader, HTTP client |
| **HTTP client** `http.js` | none between requests | `request`, `handleResponse`, NTLM | network |
| **Operation descriptors** `parser/wsdl/operation.js`, `parameter.js`, `binding.js` ... | binding, style, mode, descriptors of input and output | `postProcess`, `getMode`, `describe`, `createEnvelopeDescriptor`, the look-ups of server and client | loader, client, server |
| **Restrictions** `parser/xsd/restriction.js` | the value, from facet to facet | `enforce` | writer |
| **Security, names, helpers** | none that lasts | pure functions | everything |

JavaScript runs to completion. Nothing interrupts a handler; interleaving
happens between *turns* of the event loop: when a service answers later, when a
file was read, on the next tick, when a response arrives. What is hard about
this system is what is left lying between turns, and what handlers assume about
objects that others share:

- a service may call its callback, return a value, throw, or do several of
  these, now or later, while one HTTP response can be written once;
- a WSDL object is in a cache long before it is loaded, loads of several calls
  meet there, documents import each other in circles;
- schemas are shared by reference between definitions and are post-processed by
  whoever comes first;
- prefixes mean something different in each scope, while trees are merged and
  scopes are left;
- descriptors of types share arrays, are used while they are still being made,
  and are changed by the values that are written with them;
- client and server derive the names of elements independently, from parts,
  styles and suffixes, and must derive the same;
- clients of one URL share a WSDL object and write into it; calls of one client
  overlap;
- exceptions: which `try` is around which call, and which flag was set before.

What must hold, per component:

- *server*: one response per request, and no answer lost (module
  `ServerRequest`);
- *loader*: every call is answered once, with everything its document imports
  and with references resolved (`LoadContract`, `WsdlLoader`);
- *descriptors*: they say what the schema says, whoever was described first and
  whatever was written before (`XsdDescribe`);
- *operations*: the server runs what the client called, and the client finds the
  answer (`Operations`);
- *restrictions*: what is sent is valid, what is valid is sent (`Restrictions`);
- *parser*: the tree is that of the document, prefixes keep their meaning,
  declarations are found (`WsdlParser`);
- *namespace context, writer*: the names of the written document mean what the
  descriptors say (`NamespaceContext`, `XmlWriter`);
- *reader*: no element is lost or misplaced, references are filled in, a Fault
  is never taken for a result (`XmlReader`);
- *client*: headers keep their places (`ClientCall`);
- *all of it together*: a caller is told what the service said (`SoapExchange`).

## 2. The modules

```
ServerRequest <--- ServerRequestProofs     ClientCallProofs ---> ClientCall
   ^    ^                  ^                       ^                 ^   ^
   |    |                  +-- SoapExchangeProofs -+                 |   |
   |    |                             |                              |   |
   |    |                             v                              |   |
   |    +------------------------ SoapExchange ----------------------+   |
MCServerRequest                  MCSoapExchange                  MCClientCall

LoadContract  <== refined by ==  WsdlLoader <--- MCWsdlLoader, WsdlLoaderProofs
NamespaceContext <--- XmlWriter <--- MCXmlWriter, XmlWriterProofs
WsdlParser <--- MCWsdlParser, WsdlParserProofs
XmlReader <--- MCXmlReader, XmlReaderProofs
XsdDescribe <--- MCXsdDescribe, XsdDescribeProofs
Operations <--- MCOperations; proofs: the last part of WsdlParserProofs
Restrictions <--- MCRestrictions; proofs: the last part of XmlWriterProofs
```

An arrow leads to a module that is extended or instantiated. An MC module only
defines the constants of the instances. Definitions whose comment begins with
"Mutant" belong to no specification: each is a plausible bug in the definition
after it, and every property fails for at least one of them (`PROJECT.json`,
"mutants"). The specifications of `Operations` and `Restrictions` are called
`OpInit`, `OpNext`, `OpSpec` and `EnforceInit`, `EnforceNext`, `EnforceSpec`, because
a proof module extends each of them together with another component: operations
are post-processed by the loader that parsed them, restrictions are enforced by
the writer.

### ServerRequest (`server.js`)

`turn` is the request whose handler is on the call stack. Between turns a
request waits in one of the phases of `pc`: *idle* (not arrived), *receiving*
(its `end` event is to come), *returned* (its method is done), *foreign* (left to
the user's own listeners), *closed*. Inside a turn it goes through *process*,
*execute* and *service*.

| Action | Code |
|---|---|
| `Listen` | the listener of the constructor, `_requestListener` to the point where data comes in |
| `End`, `Process` | the `end` handler and `_process`; `kind[r].lookup` says what the look-up of service and operation will give, "raises" being any exception on the way |
| `ListenerThrow` | a listener of the server's `request` or `headers` event throws inside of `_process` |
| `Execute` | `_executeMethod` up to the call of the method, one-way answer included |
| `CallBack`, `CallBackLater` | `handleResult`, in the turn of the method or in a later one |
| `ReturnNothing`, `ReturnValue`, `Throw` | the three ways in which a method ends |

`Ignore`, `Deliver` and `Spoil` are the outcomes of `handleResult`: already
handled; answered; raised after `handled` was set. `Leave` is what the catch
clauses make of something thrown. What services say is
abstracted to what `server.js` tells apart: a result, an error without a Fault, a
Fault object (with its `statusCode`, which `_sendError` erases), and whether it
can be serialised. A Fault object may be empty (`EmptyFaults`): nothing of it is
written but the element. The body of a reply is known by its kind; its status is
what was set last (`StatusLeft`). A thrown string, or `null`, ends as an Error does: what is
written is no XML. A method that is a promise is not in the code.

### LoadContract and WsdlLoader (`soap.js`, `parser/wsdl.js`)

`LoadContract` is the promise: a call is pending, then it succeeds with all the
documents that its document reaches through imports, or fails, which it may only
do if one of them is defective; and it does so in the end.

`WsdlLoader` is how. All continuations of the loader are tail calls, so the
stack of a turn is the record `active`. `queue` is the nextTick queue, `reads`
the files that are being read; Node serves the queue before I/O, hence
`queue = <<>>` in `Read`. A call of `openSync` (`AskSync`, `ParseSync`) is one
turn: it finds everything in its cache or raises, and it may meet there what an
asynchronous load has begun; its `loadSync` passes over errors, so that it ends
with a WSDL, with `undefined`, or with an exception (`LeaveTurn`, `Raise`).
`stage` of a WSDL object follows `isLoaded`: it is set a tick before the document
is parsed. `schemas[w][d]` is the Schema in the definitions of `w` for the namespace of document `d`; each document has a
namespace of its own. A Schema is known by the WSDL object that parsed it, so
that sharing by reference is visible; `refs` remembers which namespaces were
there when a Schema was post-processed, once. If one of the Schema objects turns out
to be none, `postProcess` raises after those that come before it, and which these are
is left open (`Finish`).

Three kinds of cache are apart: those of users (`options.WSDL_CACHE`), that of
`soap.js` (which forgets its own when a call brings another), and the fresh one
that the parser makes for a call without one. A document is sound, cannot be
read at times, is not XML, or fails in `postProcess`.

### WsdlParser (`_parse`, `element.js`, `schema.js`, `types.js`, `definitions.js`)

The environment is a document: any tree of definitions, types, schemas, imports,
components and foreign elements. `Open` and `Close` are the sax handlers; `node`
is what became an object, `stack` the code's stack, `doc` the truth. Elements
inside a foreign element become no objects, yet their closing tags are seen by
the innermost object. `Hoisted` is `addChild` of `Element` (through `extend`),
which gives bindings of children to the root. `AddToTypes` merges a second schema
of a namespace into the first, prefixes included. `Lineage` and `GetNamespaceURI`
go up from an element to the root by recursive functions.

Left out: text of elements, the `strict` option, the schema of XSD itself; the
class of an element is given by its tag. The imports of the definitions come
before `types`, as in the documents of WS-I.

### XsdDescribe (`parser/xsd/*.js`, `xmlHandler.js`, `client.js`)

`describe` of one node calls that of others, so a `stack` of frames is walked: a
frame knows its node, the descriptor it makes and how many of the nodes that it
asks for (`Asks`) are done. `Call` enters a node without a descriptor, `Reuse`
takes one that is there, finished or not, `Return` gives the frame's own to the
frame below, which does with it what its class does (`Absorbed`): an element of a
named type shares the arrays of the type (one of elements, one of attributes), a
ref is cloned, a particle appends. `heap` has descriptors and pairs of arrays
apart, because sharing is the point; `With` and `WithNew` change and add a
descriptor. `Early`
are the classes that remember their descriptor before it is complete. A turn is a
call of a client (`Invoke`: all types, then `DescribeChildren`, then the element)
or of `describe` alone (`DescribeOperation`); between turns `WriteXsiType` is what
`jsonToXml` does to a descriptor for a value with an `xsi:type`, and
`DescribeXsiType` that `getXsiType` describes such a type if nobody did
(xmlHandler.js:267).

Which class a node has is given; the classes that describe alike share one name
(*particle*: all, choice, sequence; *group*: group, attributeGroup; *content*:
complexContent, simpleContent). The map names the lines of one class for what all classes do, and lists the
others beside them. Left out: names, forms and nillability of descriptors, `any`,
and how a QName is resolved (links are chosen).

### Operations (`operation.js`, `parameter.js`, `binding.js`, `part.js`, `server.js`, `client.js`)

The WSDL is chosen at the beginning: the style of the binding, and for two
operations their style, use, parts and selection of parts, for request and answer,
output, output name,
faults and headers. `PostProcess` is the loop of `Binding.postProcess`, which
computes the modes and may raise; `SetDefaultStyle` is the default that
`loadUpSchemas` gives the binding afterwards. A call goes through `Call`
(`_invoke`: the names of the Body by the descriptor), `Dispatch` (the look-up of
`Server._process`), `Respond` (`handleResult`) and `Receive` (the look-up of the
result by the reply handler). A message is the sequence of the names in its Body,
and a name is a base with one of the suffixes that the code adds and removes. Of a
value only its truth counts, which the code tests. Left out: namespaces of these
names, the elements of a SOAP Fault, messages that are not found.

### Restrictions (`restriction.js`)

One action per group of facets, in the order of `enforce`, since some of them
change the value that the next ones see. Numbers are counted in hundredths, facets
are texts as in the code, where `<` between texts compares characters; `toFixed`
rounds half up, and ties, which depend on the binary form, are left out
((`RestrictionsAssumption`), as are negative numbers and the bases Boolean and Date.
For a base that is a number, `IsNumeral` is `isNaN`, for which blank text is a number. The
digits of a text are counted as the code does: fraction digits after the last dot,
all digits without the first dot and the white space around. A pattern is a set of
texts that are searched for. `ValueOf` is the reference: the number that a numeral
stands for.

### NamespaceContext and XmlWriter (`nscontext.js`, `xmlHandler.js`, `base.js`)

A context is a sequence of scopes; the operators of `NamespaceContext` are its
methods as functions, `DeclareNamespace` with the branch that reads `prefix` of
`undefined` (`returns` is false). `XmlWriter` walks any value along any
descriptors: an action opens an element with a qualified or an unqualified name,
closes it, makes it nil, or adds a qualified attribute or an `xsi:type`. `open`
is the document as a reader of XML would see it: for each open element, its
`xmlns` attributes and the names in it that rely on them. Which of several
declared prefixes of a URI is used depends on insertion order in the code, and is
any of them here.

### XmlReader (`xmlToJson`)

The message is the environment: any order of tags and text, which may also end
too early, since sax does not raise for that. An object is known by the element
it was made for. `is` says what the variable of the code holds: `undefined`,
`null` (xsi:nil), a text, or an object. `refs` is the table of multi-reference
values; `Merged` fills them in at the end, then `HasFault` looks for a Fault.
Left out: namespaces of names and `parseValue`, of which texts are opaque
values, and the fields of an XML document inside a CDATA section.

### ClientCall and SoapExchange (`client.js`, `base.js`, `http.js`)

`Bind` is the property access that yields a method, with the location of the
moment; `Invoke` is its call, which may raise before it sends, and which replaces
the headers of its client if it brings one; `Reply` is the reply handler. What
comes back is a `Replies` class, as far as the handler and `xmlToJson` tell them
apart. What a client keeps for logs, its `lastRequest` and `lastResponse` among
it, is left out. All clients share one WSDL object, as clients of one URL do; of the
options that `Base` writes into it `envelopeKey` stands for all. `replaced`
remembers the clients whose headers a call with a header of its own replaced.

`SoapExchange` puts both ends together: a call that was sent is the HTTP request
of the same name, the first reply that the server writes is what the client
receives, and the network may fail while the server works. `Received` is how the
client reads a body that the server wrote: a result may turn out to be empty, no
object, or even a Fault, and a Fault without content is read as a Body with a
field that is undefined, for which `xmlToJson` does not raise. `word` remembers
what each service said first, which is what the caller should hear.

## 3. The runs

| Run | Question | Bounds | Result |
|---|---|---|---|
| `server` | Is there one answer, and is there one in the end? | 2 requests of every kind, one Fault object between them, 2 callback calls each | 56744 states |
| `exchange` | Is a caller told what the service said first? | 1 client, 2 calls, one of them one-way, 1 callback call each, 2 Fault objects, one of them empty | 258704 states |
| `client` | Do headers stay where they belong? | 2 clients, 2 calls, 1 header of clients and 1 of calls, up to 3 at a time, 2 endpoints | 920290 states |
| `operations` | Do client and server understand each other? | 2 operations, up to 2 parts, every style, use and mode, selected parts: 25920 WSDLs | 248504 states |
| `loader` | Does the loader keep its contract? | 2 `createClient` and 1 `WSDL.open`, 4 documents with a diamond and a cycle, 256 ways of being defective | 257558 states |
| `loader_shared` | And if calls of every kind share a cache that the user filled? | `createClient`, `WSDL.open` and 2 `openSync`, the same documents | 80232 states |
| `parser` | Is the tree that of the document? | 5 objects, 4 deep, 2 namespaces, 1 prefix with 2 meanings | 1844382 states |
| `describe` | Do descriptors say what the schema says? | 17 nodes, 48 ways to link them, each with and without repetitions, up to 19 arrays | 52028 states |
| `restrictions` | Is what is sent valid, and what is valid sent? | 11 numbers, 46 texts, 1246 types | 347888 states |
| `xml_writer` | Do written names mean what was meant? | 3 open elements, 2 application namespaces, the WSDL may bind `soap`, `tns` and `ns1` | 225679 states |
| `xml_reader` | Do objects have what the message has? | 4 elements, 4 names, 1 label, 1 text each | 4241678 states |
| `server_thrown_fault` | Is a Fault sent that a service throws? | 1 request | violated, see section 6 |

What the properties say, and why they are worth a run:

- `server`. `OneAnswer`: at most one write/end pair, two if an exception came
  out of the service method. A unit test would have to write each order of
  callback, return and throw over two turns. `HandledIsFinal`: the step version,
  also for one-way operations. `StillAnswerable`: no answer is swallowed by the
  flag. `OneWayIsEmpty`: a method that returns a value or calls back does not
  write into a response that was ended. `EventuallyAnswered`: liveness.
- `exchange`. `FaultIsNoSuccess` and `ResultWasSaid` relate the callback of the
  caller to the service's first word, through both handlers, unless an empty Fault
  was written (`LosesFault`), which the caller does hear as a success; `CallIsTold`
  is liveness over the network.
- `client`. `HeadersAreDense`, for clients whose headers no call replaced.
- `server_thrown_fault`. `ThrownFaultIsSent` states what the documentation says, and
  is expected to fail.
- `operations`. `AskedIsCalled` relates two derivations of names that nothing in
  the code connects: the elements that the descriptor of the client gives a
  request, and the part that the server looks at. `CanBeFound` names what a WSDL
  must have for that. `AnswerIsFound`: the same for the way back, with the
  descriptor that types the answer; `CanBeRead` says when a result has a name to
  be found by. `CallIsTold`: no call is lost on the way, if styles are declared.
- `loader`. `KeepsPromise` is the refinement of `LoadContract`, with liveness.
  `ReferencesResolved`: in what a user is given, references into imports are
  resolved, but for documents that import themselves. `GivenIsLoaded` looks at
  the step of delivery.
- `loader_shared`. `OneContinuation`: at any time a pending call has exactly one
  continuation somewhere, so that no callback is lost or called twice, where loads
  of four calls meet in one cache and some of them do not wait. Here
  `KeepsPromise` does not hold: exceptions reach the event loop.
  `LoadedKnowsItsImports`, although documents are taken from the cache while they
  load.
- `parser`. `StackIsDocument`: the WSDL and XSD elements of the code's stack are
  those that are open, whatever foreign elements do to it.
  `PrefixesKeepTheirMeaning`: prefixes that elements look up, at any time, mean
  what the document says, although bindings wander to the root; below a schema
  that was merged they need not. `DeclarationsAreFound`: with several schemas of
  a namespace, and imports of it, nothing that is declared is lost.
- `describe`. `DescriptorsMatchSchema` compares what the shared, cached and
  extended arrays have with the content that the schema gives an element, whatever
  the order of `describe` and of the writes in between. `TypeIsFinal`: a type that
  was described is never changed by those who share it. `Terminates`: recursive
  types end.
- `restrictions`. `NumberIsValid` and `TextIsValid` are soundness of `enforce`
  against XML Schema, `ValidIsSent` completeness; their exemptions are the
  disagreements listed in section 6.
- `xml_writer`. `NamesResolve` is the correctness of the writer: also for names
  inside children when the parent declares more afterwards. `NoShadowing`,
  `DeclaredIsWritten` and `MappingsAreStable` are why.
- `xml_reader`. `FieldsAreElements`, `HrefsAreMerged` (the element with the id
  before, after or around those that refer to it), `FaultIsRaised`.

Why the bounds are enough. Requests and calls meet only through what they share
(a Fault object, a cache, a client), so two show an interference, and a third
call of the loader brings the other entry point into it. Four documents are the
smallest with a diamond and a cycle through it. Five elements are definitions,
types, two schemas and a component; a schema and its prefixes can be merged,
hoisted and looked up. Three open elements let a prefix be declared above, at and
below the place where it is used. Two operations let a look-up find
the wrong one. The schema of 17 nodes has refs, a base, a group and an attribute
(a restriction does as an extension does, a simple type adds nothing), and its
links close every kind of cycle. Eleven numbers lie about 0, 1 and 10, where digits are
carried; texts of three characters have white space at both ends and inside. Four
elements are Envelope, Body, Fault and its content, or an array, or an element and
its reference in a third. Numbers
`ns1` to `ns6` are more than three scopes can generate. `CHECK_DEADLOCK FALSE`
is in every configuration but that of `describe`, because those systems stop: all
requests are answered, all calls are told, a load failed, the document or the
value is at its end.

## 4. Fairness

- `ServerRequest`: the event loop runs a handler that can run (`Step`), a service
  method comes to an end (`Finish`), and a service that is to answer later calls
  its callback once (`CallBackLater`). The first is Node's; the others are what
  server.js asks of a service, and `EventuallyAnswered` holds only under them.
  Nothing is assumed of whether requests come.
- `WsdlLoader`: a turn runs to its end, the nextTick queue is served, a read ends,
  well or not. Users need not call.
- `XsdDescribe`: a turn runs to its end (`Step`); users need not call.
- `Operations`: both programs run, the network delivers and the service answers
  (`Work`); what is sent when the network fails is the subject of `SoapExchange`.
- `SoapExchange`: as the server, and what was written arrives unless the network
  fails, which it may at any time but need not.

All fairness is weak: none of these steps is enabled again and again by luck.

## 5. What is proved

Eight modules hold theorems about all ten components that have a state machine
(two modules hold those of a second component in their last part), and for every
value of the constants: any sets of requests, calls, clients, documents, WSDLs,
names and nodes, any graph of imports, any schema, any restriction, and any of the
bounds that make TLC's instances finite. The assumptions are those on constants that the modules state
(`ServerAssumption`, `ClientAssumption`, `ExchangeAssumption`,
`LoaderAssumption`, `IdentityAssumption`, `NamespaceAssumption`,
`WriterAssumption`, `ReaderAssumption`, `ParserAssumption`,
`DescribeAssumption`, `OperationsAssumption`, `RestrictionsAssumption`): subsets
are subsets, the parts of a WSDL are sequences of parts, facets are numbers or
`Unset`, bounds are numbers, and markers like
`None` are none of the values they are told apart from. `DescribeAssumption` also says
what any schema document has: finitely many nodes, each with one parent and a depth;
what `type`, `ref` and `base` refer to stands at the top, where nothing has a `ref`;
what has a `maxOccurs` contains no attributes. TLC evaluates each of them in
the runs. Three theorems about the loader and one about the reader have a
hypothesis besides, named below.

Each proof has the same shape: an invariant `IInv` with a theorem `Inductive`
(`Spec => []IInv`), one lemma per action or group of actions for the step, and
the theorems below as consequences.

| Module | Theorem | States |
|---|---|---|
| `ServerRequestProofs` | `TypeCorrect` | `[]TypeOK` |
| | `OneAnswerHolds` | `[]OneAnswer` |
| | `StillAnswerableHolds` | `[]StillAnswerable` |
| | `OneWayIsEmptyHolds` | `[]OneWayIsEmpty` |
| | `HandledIsFinalHolds` | `HandledIsFinal`, an action property |
| `ClientCallProofs` | `TypeCorrect` | `[]TypeOK` (of the proof module) |
| | `HeadersAreDenseHolds` | `[]HeadersAreDense` |
| `SoapExchangeProofs` | `ServerImplemented` | the composition implements `ServerRequest!Spec` |
| | `ClientImplemented` | the composition implements `ClientCall!Spec` |
| | `OneAnswerInExchange` | `[]OneAnswer`, of the composition |
| | `ResultWasSaidHolds` | `[]ResultWasSaid` |
| | `FaultIsNoSuccessHolds` | `[]FaultIsNoSuccess` |
| `WsdlLoaderProofs` | `TypeCorrect` | `[]TypeOK` |
| | `OneContinuationHolds` | `[]OneContinuation` |
| | `LoadedKnowsItsImportsHolds` | `[]LoadedKnowsItsImports` |
| | `GivenIsLoadedHolds` | `GivenIsLoaded`, if `OwnCaches` |
| | `ReferencesResolvedHolds` | `[]ReferencesResolved`, if `Separate` |
| | `PromiseIsKept` | the safe part of `LoadContract`, if `Separate` |
| `WsdlParserProofs` | `TypeCorrect` | `[]TypeOK` |
| | `StackIsDocumentHolds` | `[]StackIsDocument` |
| | `DeclarationsAreFoundHolds` | `[]DeclarationsAreFound` |
| | `PrefixesKeepTheirMeaningHolds` | `[]PrefixesKeepTheirMeaning` |
| | `AskedIsCalledHolds` | `OpSpec => []AskedIsCalled` |
| | `AnswerIsFoundHolds` | `OpSpec => []AnswerIsFound` |
| `XsdDescribeProofs` | `TypeCorrect` | `[]TypeOK` |
| | `TypeIsFinalHolds` | `TypeIsFinal`, an action property |
| | `DescriptorsMatchSchemaHolds` | `[]DescriptorsMatchSchema` |
| `XmlWriterProofs` | `TypeCorrect` | `[]TypeOK` |
| | `NoShadowingHolds` | `[]NoShadowing` |
| | `DeclaredIsWrittenHolds` | `[]DeclaredIsWritten` |
| | `NamesResolveHold` | `[]NamesResolve` |
| | `MappingsAreStableHolds` | `MappingsAreStable`, an action property |
| | `NumberIsValidHolds` | `EnforceSpec => []NumberIsValid` |
| | `TextIsValidHolds` | `EnforceSpec => []TextIsValid` |
| | `ValidIsSentHolds` | `EnforceSpec => []ValidIsSent` |
| `XmlReaderProofs` | `TypeCorrect` | `[]TypeOK` |
| | `FieldsAreElementsHolds` | `[]FieldsAreElements` |
| | `HrefsAreMergedHolds` | `[]HrefsAreMerged` |
| | `FaultIsRaisedHolds` | `[]FaultIsRaised`, if `PlainEnvelope` |

### Server

`OneAnswer` is not inductive: that a callback finds a request unhandled says
nothing yet about its replies. `IInv` is `TypeOK` and, for every request,
`Local(r)`: as long as the method is not over no exception came out of it;
nothing is handled before `_executeMethod`; a handled request has a reply, or its
answer could not be serialised; a request that the callback may still answer has
no reply but the one of an exception; and the bound itself. `FrameLemma`
reduces each step to the one request it changes; there is one lemma per action,
and lemmas on what a reply, an answer, the catch clause and `handleResult` do to
the state. `OneWayIsEmpty` needs more (`OneWayInv`): that a one-way request which
reached its method is handled, so that `handleResult` does nothing for it.

### Client

`IInv` is the typing of what `client.js` keeps, that a call which is under way has
a method (`BoundHasMethod`), and `HandedAreIndexes`: for a client whose headers no
call replaced, the indexes that `addSoapHeader` returned are within the array,
and the array has no hole. The second half alone is not inductive:
`changeSoapHeader` beyond the end would make one. The lemmas on `WithElement` say
what setting an element of a JavaScript array gives, within it and beyond its end.

### Client and server together

A step of the composition is a step of the server or leaves its variables alone,
so the theorems about the server are inherited (`ServerImplemented`). For the
client this needs an invariant: `ClientCall` lets a call get any `Replies`, the
composition what the server wrote, and it must be shown that there is nothing
else on the wire (`ReceiveHeard`). `HInv` has per call (`Heard`) the chain from
the service to the caller: nothing was said before a request that the callback
may still answer; a result that was written first is what was said first; what a
caller was told was written first, or an empty Fault was. It is inductive together with the server's
`IInv`.

### Loader

`IInv` holds however calls share caches, with `openSync` among them, and is
`TypeOK`, `Order`, `Sole` and `Lacks`:

- `Order` is how the continuations hang together: a WSDL object that is loading
  calls back the call that it loads for or an object of the same call (`Chains`);
  reads, the running turn, the queue and the caches refer to objects in the
  stage that goes with it (`ReadsOK`, `TurnOK`, `QueueOK`, `CachesOK`); nobody
  waits for two loads (`OneLoad`).
- `Sole`: of all that could go on for a call there is one, stated by cases with
  one-element sets, since the provers know little of cardinalities; `CountLemma`
  turns it into the numbers of `OneContinuation`.
- `Lacks`: an object lacks at most the import that it waits for.

`GivenIsLoaded` needs that no call of `createClient` passes a cache
(`OwnCaches`); otherwise it is false, as section 6 says of soap.js:27. The run
`loader`, which checks it, has such calls only; in `loader_shared`, where
`createClient` passes a cache, it is not claimed.

The contract is kept by calls that share no cache at all, and without `openSync`,
which raises into the event loop (`Separate`; the instance of the run `loader`
satisfies it). Its invariant, `RInv`, adds to `IInv` that what is loading for a call
is a line in which each object waits for the next (`Line`, `Awaited`), that what
ended has left all it knows with one of the line (`Told`), that its imports were
loaded or are in the line (`Closed`), that nothing but what is imported is found
(`Downward`), that a load only fails for a defective document (`Blamed`), and what
follows for users when the line ends (`Whole`, `Resolved`). What a document
reaches is defined as the least set closed under imports, which needs no
induction over paths.

`PromiseIsKept` is `Spec => Init /\ [][Next]` of `LoadContract`; that calls are
answered in the end is left to TLC.

### Parser

The stack alone says little of tables that wander from schema to schema, so that
`IInv` says of each element that ended where its declarations are: with the schema
that it was in (`TablesOK`), with the first schema of its namespace (`SchemasOK`),
with the root (`RootOK`). It needs that the running element is inside of what
is still open (`DocOK`, `StackOK`), and that elements are nested as they may be
(`NodesOK`). An element is known by its number, so that "the later one of two
declarations" is an inequality.

`PrefixesKeepTheirMeaning` is about bindings that wander upwards while elements
close. `BInv` says of a single element that it binds a prefix as the document does
or leaves it to the element above, for which it means the same (`Keeps`); that the
root collects bindings cannot hurt, because it is asked last and a binding of its
own is not replaced. From there to the answer of a look-up is a step for each
element on the way up. `GetNamespaceURI` is a recursive function on `0..i`: it is
shown to be defined, and equal to the meaning, by the least element for which it
were not (`LeastLemma`).

### Operations

`OperationsInv` has `LoadingOK`, that operations which `postProcess` passed have their
mode and raised nothing, and that a WSDL is ready with its style set; and `CallOK`,
that what a call carries is what the descriptors give: the request that of the
operation of the client, the answer that of the operation which the server ran.
What is left is about the pure part, one lemma per look-up: the first name of a
request is that of the first part (`ElementsOfLemma`, for sequences of any length),
the first operation with it in the order of the binding is the one asked for, and
which of the three ways to look for a result finds the first element of an answer.

### Descriptors

`TypeIsFinal` is about sharing: no call but that of the complex type itself
adds to its arrays (`Owned`). This depends on who may be on the call stack below
whom (`Frames`), on the class of descriptor that a node has in the cache
(`Results`), and, for what `jsonToXml` does to a type with an `xsi:type`, on all
complex types having been described before (`TypesFirst`). `Careful` is the fact
about a step, and each action is shown to be careful.

`DescriptorsMatchSchema` has an invariant of its own, `MatchInv`. What the schema
says is a recursive function over a graph, `Contents`, which counts the steps; for a
schema in which no ref and no base leads back to itself (`WellFounded`) it satisfies
the equation that a node contains the parts of what it asks for, in order
(`ContentsLemma`, by what can be within a node: a type may have elements of its own
type, but cannot be within itself). From there `MatchInv` says how far everybody is:

- A running call has in its arrays the parts of its node up to where it is (`Fills`),
  so that a type is complete when its call returns, and stays so (`Completes`), since
  no other type has its arrays (`Alone`).
- An element has the arrays of its type, complete or not, or some of its own that
  begin with what the type contains, which `jsonToXml` made, or nothing as long as its
  call is still to get the type (`Elements`). This is where early caching and
  sharing meet: an element whose type is still described will match because the
  array is shared, and a copy would not.
- Running calls are about different nodes and add to different descriptors (`Apart`);
  what is remembered for a node is about it (`Labels`); what types contain is no
  mere ref (`Plain`). That a call cannot meet itself, but through the type of an
  element, is what `WellFounded` gives (`FarLemma`).

The lemmas are about any heap (`h` before a step, `g` after it), any memory and any
stack, so that each says what one part of a step does; the last part of the module
puts the actions together from them.

### Writer

`NamesResolve` speaks of the document only and `DeclaredIsWritten` of one
direction between context and document; neither is inductive. `IInv` has the
converse (`WrittenIsDeclared`: an `xmlns` attribute stands for a mapping of the
scope of its element), the two exceptions (`Root`, since the envelope declares its
prefix without asking the context, and `XsiIsXsi`), and that a name got its prefix
from a scope around it (`NamesAreDeclared`). `NoShadowing` then makes the nearest
declaration the only one. The lemmas on the operators of `NamespaceContext` are
in the same module.

### Restrictions

`EnforceInv` says for each stage what value it is given and what is known if nothing
was found violated (`NumberAt`, `TextAt`), and of a value that must not be refused
that nothing was found (`AllowedNumber`, `AllowedText`). The steps follow from what the
conversions compute, for numbers and texts of any size: the text of a number has no
leading zero and as many characters as it has digits (`Decimal`, `Written`), the value
of the text is the number again (`ValueOf`), rounding moves a number by half a unit of
the last place and so over no bound that is a whole number, collapsing a text leaves
it normalised, and leaves a normalised text as it is. The recursive functions among
them are unfolded through `ChainLemma`, a value that each number has from a smaller
one, proved by a least counterexample.

### Reader

`IInv` has `FieldsAreElements` and `HrefsAreMerged` themselves, and what makes them
inductive: the stack is a path of the message, and what has ended below an element
of it came before the element above it on the stack (`StackOK`); the entry of a
label in `refs` has the elements that refer to it and, once that ended, the one
that has it (`RefsOK`); only objects have fields, and what contains an element that
ended is one, or nil (`ObjectsOK`, `Parents`). `FaultIsRaised` is false if
the Envelope or the Body may be a reference to another element, since merging
replaces its fields: `PlainEnvelope` excludes it, and so does the instance.

### What the proofs changed in the models

- Arms of a CASE overlapped (`Outcome` in `ClientCall`, `Asks` in
  `XsdDescribe`): TLC takes the first arm, the semantics does not say which.
- A marker could be one of the values: `None` a set of documents in
  `WsdlLoader`, the class of a descriptor in `XsdDescribe`.
- An attribute with a `ref` had a descriptor before its call returned.
- The items of a descriptor are two arrays, as in the code, not one of both kinds.
- `FieldsAreElements` and `StackIsDocument` are stated by sets and positions,
  where they were filtered sequences; look-ups along a tree and conversions of
  texts are recursive functions, where they were recursive operators and folds.
- `ValidIsSent` was false for a number with `maxLength`: `toFixed` makes a text of it,
  which then has a length, so that 10 with two fraction digits is refused by a
  `maxLength` of 3. No restriction of the instance had both facets; the proof did
  not go through for it, TLC found the state when the instance got one, and the
  property exempts it now, as it did `length` (restriction.js:165-187).
- What a schema says (`Contents`) is a function per class that counts steps from the
  inside, where it had fuel, and `DescribeAssumption` names what it relied on.
- `CanBeFound` allowed a `soap:body` that selects no part of a message, for which the
  server finds nothing.
- The digits of a text with several dots were counted from the first one.
- A white space of *preserve* was missing among the facets.

### What is only model-checked

- Liveness, which needs ENABLED: `EventuallyAnswered`, both `CallIsTold`,
  `Terminates`, the fair part of `KeepsPromise`.

All invariants and all action properties that passing runs check are theorems.

## 6. Where the code does something else than is said

Shown by a run: `server_thrown_fault`. A Fault that an rpc service throws is
answered with a stack trace: server.js:258 reads `operations`, which only the
document branch assigns. `src/README.md:736` says that services reply with a
Fault by throwing.

Seen while modelling; the models behave this way, and where a property would
contradict it, its statement names the exemption:

- An empty Fault is a success to the caller, although client.js:321 takes a Fault
  for something that is thrown: `{Fault: {}}` is written as `<soap:Fault/>`, read as
  a field that is `undefined`, and not raised (xmlHandler.js:744), so that the
  callback gets neither an error nor a result. Without the exemption `LosesFault`
  `FaultIsNoSuccess` and `ResultWasSaid` are violated. A Fault with nothing but a
  `statusCode` is empty only with the option `ignoreUnknownProperties`: the field
  is set to `undefined`, not deleted, and `mapObject` (xmlHandler.js:342) writes an
  element `<statusCode/>` for it, by which the client finds the Fault. (This is
  not what `src/README.md:741` says, that the status is not in the XML.)
- A Fault object that is thrown again is sent with status 500: `_sendError`
  erases its `statusCode` (server.js:393), although `src/README.md:740` says that
  the status is the one that was set on the Fault.
- The options of the client that was created last hold for all clients of a URL
  (base.js:67), although `src/README.md:166` offers them to customize the client.
- With a shared `WSDL_CACHE` a second `createClient` finds the WSDL object of the
  first one before it is loaded (soap.js:27), and gives a client without methods,
  or raises in a later tick (`CachedClient`).
- The `soapHeaders` of one call replace those of the client (client.js:178); an
  index that `addSoapHeader` returned is then beyond the array, `changeSoapHeader`
  leaves a hole, and later calls raise (`replaced` in `HeadersAreDense`).
- For a JSON response of which the HTTP module made an object, `body.indexOf`
  (client.js:300) raises outside the try block: the callback is never called
  (`Reply`, outcome *lost*).
- `openSync` raises for a document that is loaded (wsdl.js:539), although the
  comment above says that it is returned; and `loadSync` passes over the error of
  its callback (wsdl.js:52), so that it returns `undefined` for a document that
  cannot be parsed.
- A binding without a style gets *document* after its operations were
  post-processed (wsdl.js:107), so that they have no mode, and the reply handler
  raises outside its try block (client.js:343).
- The server looks for an operation by the first part of its message
  (server.js:226); a `soap:body` that selects other parts, or an operation before
  it whose first part is a type, makes it fail.
- A result that is falsy is passed over in favour of another name
  (client.js:349-360).
- `maxOccurs` of a particle is lost for what its nested particles contain
  (descriptor.js:52-59), a base or a ref that leads back to itself gives an
  incomplete descriptor (extension.js:25, element.js:46), and after an `xsi:type`
  was written every later value has the elements of the extension
  (xmlHandler.js:200).
- `enforce` checks bounds before it rounds, so that 9.96 passes an exclusive
  maximum of 10 and is sent as 10.0; a number with both digit facets may be refused
  for zeros that `toFixed` added; `length` and `minLength` are checked before white
  space is collapsed; a text is compared with a bound as text.
- An unprefixed QName is looked up in the target namespace, whatever `xmlns` says
  (element.js:194).
- An Error without a Fault that is passed to the callback is serialised as a
  result, with status 200 (server.js:302).
- `declareNamespace` raises if an enclosing scope has the mapping undeclared
  (nscontext.js:293), for example for the `xsi:type` of an element whose prefix
  the WSDL binds too.
- `WSDL.load` gives out objects that are not parsed, of which the definitions are
  `undefined` (wsdl.js:432), so that an empty object is merged in place of a
  Schema.
- A schema on a cycle of imports is post-processed before its imports are there,
  and never again (xsd/schema.js:96).
- Merging two schemas changes what the prefixes of the first mean
  (xsd/schema.js:38).
- Two imports of a namespace by the definitions, or an import and a schema of
  the types: one replaces the other, and its location is not included
  (wsdl/definitions.js:39).
- A method that was looked up before `setEndpoint` uses the old endpoint
  (client.js:103).
- Blank text is a number to `enforce` (restriction.js:112).
- A response whose Body is a text is told as an error without `soapError`
  (client.js:333).
- A document that was redirected is cached under its last location only; sax
  accepts documents that end too early; pieces of a numeric text are added.

## 7. What is not modelled

Security objects (headers and options that libraries compute), how an HTTP
request is built, NTLM, names and string helpers, logging: no state of their own.
Redirects and `loadSystemSchemas` of the loader are I/O; `soap.listen`,
`soap-stub.js` and `soapModel.js` are glue. The promise that a call without a
callback returns is a callback like any other. The resolution of QNames within a
schema is a look-up in the tables and prefixes that `WsdlParser` has, and
`XsdDescribe` takes its result as given. Lists and unions enforce nothing. The
elements of a SOAP Fault in the envelope descriptor are constants.

## 8. Plan

Done so far, in this order: the server and its proofs; the namespace context and
the writer; the loader and its contract, then with `openSync`; client and
exchange; the parser; the reader; descriptors of types; operations; restrictions;
then the proofs about client, exchange, loader, parser, descriptors, writer and
reader; then those about prefixes, operations, restrictions and what descriptors
have.

Next: `CallIsTold` and `EventuallyAnswered` have a safe half each: a state in which
nothing can be done has no request that waits. It can be stated without ENABLED
and proved from the invariants above.
