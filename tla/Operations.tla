------------------------------ MODULE Operations ------------------------------
(***************************************************************************)
(* How the operations of a binding are prepared when a WSDL is loaded, and  *)
(* whether a client and a server that loaded it understand each other: the  *)
(* client names the elements of a request by the descriptor of the          *)
(* operation, the server looks the operation up by the first of them, names *)
(* the answer, and the client looks for its result in that.                 *)
(*                                                                          *)
(* The two programs have descriptors of their own, made alike from the same *)
(* WSDL, which is chosen at the beginning.  Messages are the names of the   *)
(* elements in their Body; a name has a base and a suffix, because names    *)
(* are derived by adding and removing suffixes.                             *)
(***************************************************************************)
EXTENDS Naturals, Sequences, SequencesExt

CONSTANTS
  Wsdls,      \* the WSDLs
  Order,      \* the operations of the binding, in order
  Elements,   \* the names of the global elements
  Inner,      \* the first element in each of them, None if it is simple
  PartNames,  \* the names of parts
  None        \* undefined

Ops == ToSet(Order)

NameSuffixes == {"", "Response", "Out", "Output"}

Name(base, suffix) == [base |-> base, suffix |-> suffix]

Values == {"truthy", "falsy"}

ElementNames == [base : Ops \cup {n.base : n \in Elements}, suffix : NameSuffixes]

Modes ==
  {"documentLiteralWrapped", "documentLiteral", "documentEncoded", "rpcEncoded", "rpcLiteral"}

\* The parts of messages.
Parts == [name : PartNames, element : {None} \cup Elements]

ASSUME OperationsAssumption ==
  /\ Order \in Seq(Ops)
  /\ \A w \in Wsdls :
       /\ w.style \in {"document", "rpc", None}
       /\ \A o \in Ops :
            /\ w.ops[o].style \in {"document", "rpc", ""}
            /\ w.ops[o].use \in {"literal", "encoded"}
            /\ w.ops[o].faults \in {"none", "element", "type", "empty"}
            /\ w.ops[o].in \in {None} \cup Seq(Parts)
            /\ w.ops[o].out \in {None} \cup Seq(Parts)
            /\ w.ops[o].select \in {None} \cup Seq(Nat)
            /\ w.ops[o].outSelect \in {None} \cup Seq(Nat)
            /\ w.ops[o].headers \in Seq(Parts)
            /\ w.ops[o].outName \in {None} \cup ElementNames
  /\ Elements \subseteq ElementNames
  /\ Inner \in [Elements -> {None} \cup Elements \cup PartNames]
  /\ None \notin Ops /\ None \notin ElementNames /\ None \notin PartNames
  /\ None \notin Parts /\ None \notin Values \cup {"other"}
  /\ None \notin Modes \cup {"document", "rpc"}

VARIABLES
  wsdl,       \* the WSDL: its binding and, for each operation, what it declares
  todo,       \* the operations that Binding.postProcess has not come to
  mode,       \* the mode of each operation
  style,      \* the style of the binding
  load,       \* whether the WSDL is loaded
  call        \* the last call

opVars == <<wsdl, todo, mode, style, load, call>>

NoCall == [phase |-> "none", op |-> None, request |-> <<>>, called |-> None,
           reply |-> <<>>, value |-> None, result |-> None, typed |-> FALSE]

OpInit ==
  /\ wsdl \in Wsdls
  /\ todo = Order
  /\ mode = [o \in Ops |-> None]
  /\ style = wsdl.style
  /\ load = "running"
  /\ call = NoCall

---------------------------------------------------------------------------
(* Loading.                                                                *)

\* The style of an operation: its own or that of its binding.
StyleOf(o) == IF wsdl.ops[o].style = "" THEN wsdl.style ELSE wsdl.ops[o].style

\* The parts that soap:body selects, all of the message if it does not say.  A
\* part that the message does not have is None.
Selected(message, selection) ==
  IF message = None THEN <<>>
  ELSE IF selection = None THEN message
  ELSE [i \in 1..Len(selection) |->
          IF selection[i] \in 1..Len(message) THEN message[selection[i]] ELSE None]

InParts(o) == Selected(wsdl.ops[o].in, wsdl.ops[o].select)
OutParts(o) == Selected(wsdl.ops[o].out, wsdl.ops[o].outSelect)

IsElement(part) == part # None /\ part.element # None

\* The only part of a request has the name of the operation and the answer has
\* one part.
MayBeWrapped(o) ==
  Len(InParts(o)) = 1 /\ InParts(o)[1].element = Name(o, "")

IsLiteral(o) == StyleOf(o) = "document" /\ wsdl.ops[o].use = "literal"

\* Parameter.postProcess and getMode raise.
PostProcessRaises(o) ==
  /\ IsLiteral(o)
  /\ \/ \E part \in ToSet(InParts(o)) : ~IsElement(part)
     \/ MayBeWrapped(o) /\ \E part \in ToSet(OutParts(o)) : ~IsElement(part)

\* Mutant: rpc operations are literal.
NoEncoded(o) ==
  CASE IsLiteral(o) -> IF MayBeWrapped(o) /\ Len(OutParts(o)) = 1
                         THEN "documentLiteralWrapped" ELSE "documentLiteral"
    [] StyleOf(o) = "document" /\ ~IsLiteral(o)                  -> "documentEncoded"
    [] StyleOf(o) = "rpc" /\ wsdl.ops[o].use = "literal"         -> "rpcLiteral"
    [] OTHER                                                     -> None

\* Operation.getMode.
GetMode(o) ==
  CASE IsLiteral(o) -> IF MayBeWrapped(o) /\ Len(OutParts(o)) = 1
                         THEN "documentLiteralWrapped" ELSE "documentLiteral"
    [] StyleOf(o) = "document" /\ ~IsLiteral(o)                  -> "documentEncoded"
    [] StyleOf(o) = "rpc" /\ wsdl.ops[o].use = "encoded"         -> "rpcEncoded"
    [] StyleOf(o) = "rpc" /\ wsdl.ops[o].use = "literal"         -> "rpcLiteral"
    [] OTHER                                                     -> None

\* Binding.postProcess comes to the next operation.  WSDL.load reports what is
\* raised and stops.
PostProcess ==
  /\ load = "running"
  /\ todo # <<>>
  /\ LET o == Head(todo) IN
     IF PostProcessRaises(o)
       THEN load' = "failed" /\ UNCHANGED <<todo, mode>>
       ELSE mode' = [mode EXCEPT ![o] = GetMode(o)] /\ todo' = Tail(todo) /\ UNCHANGED load
  /\ UNCHANGED <<wsdl, style, call>>

\* WSDL.load gives a binding its default style, after its operations got theirs.
SetDefaultStyle ==
  /\ load = "running"
  /\ todo = <<>>
  /\ style' = IF style = None THEN "document" ELSE style
  /\ load' = "ready"
  /\ UNCHANGED <<wsdl, todo, mode, call>>

---------------------------------------------------------------------------
(* Descriptors.                                                            *)

\* The elements of those parts that have one.
ElementsOf(parts) ==
  LET upTo[i \in 0..Len(parts)] ==
        IF i = 0 THEN <<>>
        ELSE IF IsElement(parts[i]) THEN Append(upTo[i - 1], parts[i].element)
        ELSE upTo[i - 1]
  IN upTo[Len(parts)]

IsRpc(o) == mode[o] \in {"rpcLiteral", "rpcEncoded"}

\* Operation.describe raises: for a part that soap:body selects and the message
\* does not have, and for a fault, if its message has no part.
DescribeRaises(o) ==
  \/ mode[o] = "documentEncoded"
  \/ /\ IsRpc(o) \/ mode[o] = "documentLiteral"
     /\ None \in ToSet(InParts(o) \o OutParts(o))
  \/ wsdl.ops[o].faults = "empty"

\* The elements of a Body by the descriptor of an operation.  One that has no
\* mode has no descriptor: the names are those that its user gives.
BodyElements(o, parts, suffix) ==
  CASE IsRpc(o)                            -> <<Name(o, suffix)>>
    [] mode[o] = "documentLiteralWrapped"  -> SubSeq(ElementsOf(parts), 1, 1)
    [] OTHER                               -> ElementsOf(parts)

Request(o) == BodyElements(o, InParts(o), "")
Answer(o) == BodyElements(o, OutParts(o), "Response")

\* The `elements' of the descriptor of an answer: those in the element that wraps it.
OutElements(o) ==
  CASE IsRpc(o) ->
         [i \in 1..Len(OutParts(o)) |->
            IF IsElement(OutParts(o)[i]) THEN OutParts(o)[i].element ELSE OutParts(o)[i].name]
    [] mode[o] = "documentLiteralWrapped" ->
         IF Inner[Answer(o)[1]] = None THEN <<>> ELSE <<Inner[Answer(o)[1]]>>
    [] OTHER -> Answer(o)

\* The elements that the descriptor of the envelope of an answer has for its
\* Body: those of the headers are among them.
OutputEnvelope(o) == Answer(o) \o ElementsOf(wsdl.ops[o].headers)

---------------------------------------------------------------------------
(* A call.                                                                 *)

Idle == call.phase \in {"none", "raised", "lost", "told"}

\* Client._invoke names the elements of the request.
Call(o) ==
  /\ load = "ready"
  /\ Idle
  /\ call' = IF DescribeRaises(o)
               THEN [NoCall EXCEPT !.phase = "raised", !.op = o]
               ELSE [NoCall EXCEPT !.phase = "sent", !.op = o, !.request = Request(o)]
  /\ UNCHANGED <<wsdl, todo, mode, style, load>>

\* The first part of a message, None if the lookup of its element raises.
FirstElement(message) ==
  IF message = None \/ message = <<>> THEN None
  ELSE message[1].element

\* The first element of the request that the server looks at.
Key == IF call.request = <<>> THEN None ELSE call.request[1]

\* Mutant: all parts of a message are looked at.
LookUpByAnyPart ==
  LET fits(i) == \E p \in 1..Len(wsdl.ops[Order[i]].in) :
                   wsdl.ops[Order[i]].in[p].element = Key
      found == {i \in 1..Len(Order) : wsdl.ops[Order[i]].in # None /\ fits(i)}
  IN IF found = {} THEN None ELSE Order[CHOOSE i \in found : \A j \in found : i <= j]

\* Server._process looks for the first operation whose message begins with that
\* element; an operation before it that has no such message makes it raise.
LookUp ==
  LET first(i) == FirstElement(wsdl.ops[Order[i]].in)
      found == {i \in 1..Len(Order) : first(i) = Key /\ \A j \in 1..i : first(j) # None}
  IN IF found = {} THEN None ELSE Order[CHOOSE i \in found : \A j \in found : i <= j]

\* The operation that the server finds, None if it raises or finds none.
Found ==
  IF style = "rpc"
    THEN IF Key # None /\ Key.suffix = "" /\ Key.base \in Ops THEN Key.base ELSE None
    ELSE LET o == LookUp IN
         IF o # None /\ wsdl.ops[o].out # None /\ FirstElement(wsdl.ops[o].out) = None
           THEN None ELSE o

\* The server takes the request.  What is raised is answered by an error.
Dispatch ==
  /\ call.phase = "sent"
  /\ call' = [call EXCEPT !.called = Found,
                          !.phase = IF Found = None THEN "error" ELSE "called"]
  /\ UNCHANGED <<wsdl, todo, mode, style, load>>

\* The service of the operation answers with an element that has a value v, or
\* not at all if there is no output: the answer is empty then.  If the descriptor
\* cannot be made, an exception is answered by an error when the service returned
\* the answer, and by nothing when it called back later.
Respond(v, how) ==
  /\ call.phase = "called"
  /\ LET o == call.called IN
     call' = IF wsdl.ops[o].out = None
               THEN [call EXCEPT !.phase = "answered"]
             ELSE IF DescribeRaises(o)
               THEN [call EXCEPT !.phase = how]
               ELSE [call EXCEPT !.phase = "answered", !.reply = Answer(o), !.value = v]
  /\ UNCHANGED <<wsdl, todo, mode, style, load>>

\* What the client reads for a name in the Body: the first element has the
\* value, the others have one of their own.
InReply(n) ==
  CASE call.reply # <<>> /\ call.reply[1] = n -> call.value
    [] call.reply # <<>> /\ call.reply[1] # n /\ n \in ToSet(call.reply) -> "other"
    [] OTHER -> None

IsTruthy(v) == v \in {"truthy", "other"}

\* The value for the name of the operation and a suffix; the last one counts.
\* (A dot before the suffix is left out.)
BySuffix(o) ==
  LET some == {s \in {"Response", "Out", "Output"} : Name(o, s) \in ToSet(call.reply)} IN
  CASE "Output" \in some                         -> InReply(Name(o, "Output"))
    [] "Output" \notin some /\ "Out" \in some    -> InReply(Name(o, "Out"))
    [] some = {"Response"}                       -> InReply(Name(o, "Response"))
    [] OTHER                                     -> None

\* Mutant: there is no third way to look for it.
ResultByName(o) ==
  LET first == IF OutElements(o) = <<>> THEN None ELSE InReply(OutElements(o)[1])
      stripped == IF wsdl.ops[o].outName = None THEN None
                  ELSE InReply(Name(wsdl.ops[o].outName.base, ""))
  IN IF IsTruthy(first) THEN first ELSE stripped

\* The result of the client: the first element of the descriptor, the name of
\* the output without its suffix, the name of the operation with one.
Result(o) ==
  LET first == IF OutElements(o) = <<>> THEN None ELSE InReply(OutElements(o)[1])
      stripped == IF wsdl.ops[o].outName = None THEN None
                  ELSE InReply(Name(wsdl.ops[o].outName.base, ""))
  IN IF IsTruthy(first) THEN first
     ELSE IF IsTruthy(stripped) \/ BySuffix(o) = None THEN stripped
     ELSE BySuffix(o)

\* The reply handler of the client.  An operation without a mode makes it raise
\* outside of its try block: nobody is told.
Receive ==
  /\ call.phase \in {"answered", "error"}
  /\ LET o == call.op IN
     call' = IF call.phase = "error" \/ wsdl.ops[o].out = None \/ call.reply = <<>>
               THEN [call EXCEPT !.phase = "told"]
             ELSE IF mode[o] = None
               THEN [call EXCEPT !.phase = "lost"]
               ELSE [call EXCEPT !.phase = "told", !.result = Result(o),
                                 !.typed = call.reply[1] \in ToSet(OutputEnvelope(o))]
  /\ UNCHANGED <<wsdl, todo, mode, style, load>>

Work ==
  \/ PostProcess
  \/ SetDefaultStyle
  \/ Dispatch
  \/ \E v \in Values, how \in {"error", "lost"} : Respond(v, how)
  \/ Receive

OpNext == Work \/ \E o \in Ops : Call(o)

OpSpec == OpInit /\ [][OpNext]_opVars

\* Both programs run, the network delivers and the service answers.
OpFairSpec == OpSpec /\ WF_opVars(Work)

---------------------------------------------------------------------------
(* Properties.                                                             *)

\* The binding or all operations say what their style is.
StyleIsDeclared == \A o \in Ops : StyleOf(o) # None

\* What a server needs to find an operation: in a document binding, each
\* operation up to it has a request that begins with an element, no other one
\* with the same, and soap:body leaves the first part the first.
CanBeFound(o) ==
  LET first(p) == FirstElement(wsdl.ops[p].in)
      at(p) == CHOOSE i \in 1..Len(Order) : Order[i] = p
  IN /\ StyleOf(o) = wsdl.style
     /\ \/ wsdl.style = "rpc"
        \/ /\ \A i \in 1..at(o) : first(Order[i]) # None
           /\ \A i \in 1..(at(o) - 1) : first(Order[i]) # first(o)
           /\ \/ wsdl.ops[o].select = None
              \/ wsdl.ops[o].select # <<>> /\ wsdl.ops[o].select[1] = 1
           /\ wsdl.ops[o].out = None \/ FirstElement(wsdl.ops[o].out) # None

\* The server runs the operation that the client called: what Operation.describe
\* names (operation.js:113-209) is what Server._process looks for
\* (server.js:199-255).
AskedIsCalled ==
  (call.phase \in {"called", "error", "answered", "lost", "told"} /\ CanBeFound(call.op))
    => call.called = call.op

\* What a client needs to find a result: an element of its own, or one that is
\* called after the operation or the output.
CanBeRead(o, v) ==
  \/ IsRpc(o)
  \/ mode[o] = "documentLiteral" /\ v = "truthy"
  \/ /\ mode[o] = "documentLiteralWrapped"
     /\ \/ \E s \in NameSuffixes \ {""} : Answer(o)[1] = Name(o, s)
        \/ wsdl.ops[o].outName # None /\ Answer(o)[1] = Name(wsdl.ops[o].outName.base, "")

\* The result that a callback gets is the element with which the service
\* answered, and it was read with its descriptor (client.js:340-360,
\* operation.js:246-275).
AnswerIsFound ==
  (/\ call.phase = "told"
   /\ call.called = call.op
   /\ call.reply # <<>>
   /\ CanBeRead(call.op, call.value))
    => call.result = call.value /\ call.typed

\* Each call that was sent is told to its callback, if the WSDL says what style
\* its operations have and all of them can be described (operation.js:349-395,
\* wsdl.js:107, client.js:343).
CallIsTold ==
  (call.phase = "sent" /\ StyleIsDeclared /\ \A o \in Ops : ~DescribeRaises(o))
    ~> (call.phase = "told")
===============================================================================
