--------------------------- MODULE ServerRequest ---------------------------
(***************************************************************************)
(* How src/src/server.js answers one HTTP request: the listener installed  *)
(* by the constructor, _requestListener, _process, _executeMethod,         *)
(* handleResult and _sendError, with the service method as environment.    *)
(*                                                                         *)
(* JavaScript runs to completion, so `turn' names the request whose        *)
(* handler is on the call stack: no other handler starts until it is over, *)
(* and requests interleave only between turns.  Inside its turn a service  *)
(* method may call the callback it was given any number of times, and then *)
(* return nothing, return a value or throw; it keeps the callback and may  *)
(* call it again in later turns.                                           *)
(*                                                                         *)
(* A reply is one `res.write(...); res.end()' pair: the first one is what  *)
(* the client receives, a second one is a write after the end.             *)
(***************************************************************************)
EXTENDS Naturals, Sequences

CONSTANTS
  Requests,    \* identities of the HTTP requests
  NoRequest,   \* the event loop is idle
  Faults,      \* the {Fault: {...}} objects that services throw or pass
  EmptyFaults, \* those of which nothing is written but an empty element
  FaultStatus, \* the statusCode each Fault object was created with, 0 = none
  MaxCalls     \* bound: how often a service method calls its callback

ASSUME ServerAssumption ==
  /\ NoRequest \notin Requests
  /\ EmptyFaults \subseteq Faults
  /\ FaultStatus \in [Faults -> Nat]
  /\ MaxCalls \in Nat

VARIABLES
  turn,     \* the request whose handler is running, or NoRequest
  pc,       \* where each request is in server.js
  kind,     \* what the HTTP request is and what looking it up will give
  handled,  \* `handled' in the closure of _executeMethod
  calls,    \* how often the service method has called its callback
  replies,  \* the write/end pairs made on the response, in order
  raised,   \* an exception came out of the call of the service method
  spoiled,  \* handleResult raised after it had set `handled'
  uncaught, \* an exception of this request reached the event loop
  code      \* the statusCode field each Fault object holds now, 0 = none

vars == <<turn, pc, kind, handled, calls, replies, raised, spoiled, uncaught, code>>

Styles == {"rpc", "document"}

\* What the method, path and headers select, the style of the binding, whether
\* the operation has an output, and what the look-up on the way to the service
\* method finds: "raises" is any exception of _process before _executeMethod
\* (XML that does not parse, authenticate(), no binding, no such element, or a
\* listener of `request' or `headers' that throws).
Kinds ==
  [route : {"denied", "foreign", "wsdl", "empty", "untyped"},
   style : {"document"}, oneWay : {FALSE}, lookup : {"found"}]
  \cup
  [route : {"post"}, style : Styles, oneWay : BOOLEAN,
   lookup : {"raises", "noService", "noMethod", "found"}]

\* What a service passes to its callback or returns: a result, an error that
\* has no Fault, or a Fault; ok is false if it cannot be serialised.
Plain == [is : {"result", "error"}, ok : BOOLEAN]
FaultValues == [is : {"fault"}, fault : Faults, ok : BOOLEAN]
Said == Plain \cup FaultValues

\* What a service or a listener throws: an Error, an object with neither Fault
\* nor stack, or an object with a Fault.
Thrown == [is : {"error", "object"}] \cup FaultValues

Bodies == {"wsdl", "empty", "untyped", "result", "fault", "emptyFault", "stack"}
Replies == [body : Bodies, status : Nat \ {0}]

Phases == {"idle", "receiving", "process", "execute", "service", "returned",
           "foreign", "closed"}

Init ==
  /\ turn = NoRequest
  /\ pc = [r \in Requests |-> "idle"]
  /\ kind \in [Requests -> Kinds]
  /\ handled = [r \in Requests |-> FALSE]
  /\ calls = [r \in Requests |-> 0]
  /\ replies = [r \in Requests |-> <<>>]
  /\ raised = [r \in Requests |-> FALSE]
  /\ spoiled = [r \in Requests |-> FALSE]
  /\ uncaught = [r \in Requests |-> FALSE]
  /\ code = FaultStatus

Reply(r, body, status) ==
  replies' = [replies EXCEPT ![r] = Append(@, [body |-> body, status |-> status])]

Goto(r, next) == pc' = [pc EXCEPT ![r] = next]

\* The catch of the `end' handler: a 500 with the stack as its body.
Catch(r) ==
  /\ Reply(r, "stack", 500)
  /\ Goto(r, "returned")
  /\ turn' = NoRequest

---------------------------------------------------------------------------
(* The HTTP listener.                                                      *)

\* The listener of the constructor and the branches of _requestListener that
\* end the response at once.
Listen(r) ==
  LET route == kind[r].route IN
  /\ turn = NoRequest
  /\ pc[r] = "idle"
  /\ \/ /\ route = "foreign"
        /\ Goto(r, "foreign")
        /\ UNCHANGED replies
     \/ /\ route \in {"denied", "empty"}
        /\ Goto(r, "closed")
        /\ Reply(r, "empty", 200)
     \/ /\ route = "wsdl"
        /\ Goto(r, "closed")
        /\ Reply(r, "wsdl", 200)
     \/ /\ route = "untyped"
        /\ Goto(r, "closed")
        /\ Reply(r, "untyped", 415)
     \/ /\ route = "post"
        /\ Goto(r, "receiving")
        /\ UNCHANGED replies
  /\ UNCHANGED <<turn, kind, handled, calls, raised, spoiled, uncaught, code>>

\* The request's `end' event: the chunks are joined and _process is called.
End(r) ==
  /\ turn = NoRequest
  /\ pc[r] = "receiving"
  /\ turn' = r
  /\ Goto(r, "process")
  /\ UNCHANGED <<kind, handled, calls, replies, raised, spoiled, uncaught, code>>

\* _process up to the call of _executeMethod.
Process(r) ==
  /\ turn = r
  /\ pc[r] = "process"
  /\ \/ /\ kind[r].lookup = "raises"
        /\ Catch(r)
     \/ /\ kind[r].lookup # "raises"
        /\ Goto(r, "execute")
        /\ UNCHANGED <<turn, replies>>
  /\ UNCHANGED <<kind, handled, calls, raised, spoiled, uncaught, code>>

\* _executeMethod up to the call of the service method.  Without an
\* implementation of the service the envelope object itself is written, which
\* raises.  A one-way operation is answered before its method is called.
Execute(r) ==
  LET k == kind[r]
      empty == [body |-> "empty", status |-> 200]
      stack == [body |-> "stack", status |-> 500]
      early == IF k.oneWay THEN <<empty>> ELSE <<>>
  IN
  /\ turn = r
  /\ pc[r] = "execute"
  /\ \/ /\ k.lookup = "noService"
        /\ Catch(r)
        /\ UNCHANGED <<handled, raised>>
     \/ /\ k.lookup = "noMethod"
        /\ handled' = [handled EXCEPT ![r] = k.oneWay]
        /\ raised' = [raised EXCEPT ![r] = TRUE]
        /\ replies' = [replies EXCEPT ![r] = @ \o early \o <<stack>>]
        /\ Goto(r, "returned")
        /\ turn' = NoRequest
     \/ /\ k.lookup = "found"
        /\ handled' = [handled EXCEPT ![r] = k.oneWay]
        /\ replies' = [replies EXCEPT ![r] = @ \o early]
        /\ Goto(r, "service")
        /\ UNCHANGED <<turn, raised>>
  /\ UNCHANGED <<kind, calls, spoiled, uncaught, code>>

---------------------------------------------------------------------------
(* Results and faults.                                                     *)

\* Mutant: no default status.
OwnCode(f) == code[f]

FaultCode(f) == IF code[f] # 0 THEN code[f] ELSE 500

\* _sendError takes the statusCode out of the Fault object before it
\* serialises what is left.
TakeCode(v) ==
  code' = IF v.is = "fault" THEN [code EXCEPT ![v.fault] = 0] ELSE code

\* res.statusCode when nothing sets it: what the reply before has left, or the
\* catch of the `end' handler whose own write raised.
StatusLeft(r) ==
  IF uncaught[r] THEN 500
  ELSE IF replies[r] = <<>> THEN 200 ELSE replies[r][Len(replies[r])].status

FaultBody(f) == IF f \in EmptyFaults THEN "emptyFault" ELSE "fault"

\* What handleResult or _sendError writes for a value it can serialise.
Answer(r, v) ==
  IF v.is = "fault" THEN Reply(r, FaultBody(v.fault), FaultCode(v.fault))
                    ELSE Reply(r, "result", StatusLeft(r))

\* Mutant: the flag is not set.
LeaveUnhandled(r) == UNCHANGED handled

MarkHandled(r) == handled' = [handled EXCEPT ![r] = TRUE]

\* handleResult(v) when an answer was already given.
Ignore(r) ==
  /\ handled[r]
  /\ UNCHANGED <<handled, replies, code>>

\* Mutant: the flag is not looked at.
DeliverAlways(r, v) ==
  /\ v.ok
  /\ MarkHandled(r)
  /\ Answer(r, v)
  /\ TakeCode(v)

\* handleResult(v) that answers.
Deliver(r, v) ==
  /\ ~handled[r]
  /\ v.ok
  /\ MarkHandled(r)
  /\ Answer(r, v)
  /\ TakeCode(v)

\* handleResult(v) that raises: `handled' stays set and nothing was written.
Spoil(r, v) ==
  /\ ~handled[r]
  /\ ~v.ok
  /\ MarkHandled(r)
  /\ spoiled' = [spoiled EXCEPT ![r] = TRUE]
  /\ TakeCode(v)

---------------------------------------------------------------------------
(* The service method, in its own turn and after it.                       *)

CountCall(r) ==
  /\ calls[r] < MaxCalls
  /\ calls' = [calls EXCEPT ![r] = @ + 1]

\* The method calls its callback before it returns.  An exception of
\* handleResult comes out of that call: the method may catch it, or let it
\* through to the catch of the `end' handler.
CallBack(r, v) ==
  /\ turn = r
  /\ pc[r] = "service"
  /\ CountCall(r)
  /\ \/ /\ Ignore(r) \/ Deliver(r, v)
        /\ UNCHANGED <<turn, pc, raised, spoiled>>
     \/ /\ Spoil(r, v)
        /\ UNCHANGED <<turn, pc, replies, raised>>
     \/ /\ Spoil(r, v)
        /\ raised' = [raised EXCEPT ![r] = TRUE]
        /\ Catch(r)
  /\ UNCHANGED <<kind, uncaught>>

\* Mutant: undefined is taken for a result that is left to the callback.
ReturnHandled(r) ==
  /\ turn = r
  /\ pc[r] = "service"
  /\ turn' = NoRequest
  /\ Goto(r, "returned")
  /\ MarkHandled(r)
  /\ UNCHANGED <<kind, calls, replies, raised, spoiled, uncaught, code>>

\* The method returns undefined.
ReturnNothing(r) ==
  /\ turn = r
  /\ pc[r] = "service"
  /\ turn' = NoRequest
  /\ Goto(r, "returned")
  /\ UNCHANGED <<kind, handled, calls, replies, raised, spoiled, uncaught, code>>

\* The method returns a value: handleResult(null, value), so that a Fault in
\* it is not looked at.
ReturnValue(r, v) ==
  /\ turn = r
  /\ pc[r] = "service"
  /\ v.is = "result"
  /\ \/ /\ Ignore(r) \/ Deliver(r, v)
        /\ turn' = NoRequest
        /\ Goto(r, "returned")
        /\ UNCHANGED spoiled
     \/ /\ Spoil(r, v)
        /\ Catch(r)
  /\ UNCHANGED <<kind, calls, raised, uncaught>>

\* Something is thrown inside the try block of _process.  Its catch sends a
\* Fault for the document style; for the rpc style it reads `operations', which
\* only the document branch assigns, and raises in its turn.  An object without a
\* stack cannot be written either, and leaves the `end' handler.
Leave(r, v) ==
  /\ \/ /\ v.is = "fault"
        /\ kind[r].style = "document"
        /\ IF v.ok THEN Answer(r, v) ELSE Reply(r, "stack", 500)
        /\ TakeCode(v)
        /\ UNCHANGED uncaught
     \/ /\ v.is = "error" \/ (v.is = "fault" /\ kind[r].style = "rpc")
        /\ Reply(r, "stack", 500)
        /\ UNCHANGED <<code, uncaught>>
     \/ /\ v.is = "object"
        /\ uncaught' = [uncaught EXCEPT ![r] = TRUE]
        /\ UNCHANGED <<code, replies>>
  /\ turn' = NoRequest
  /\ Goto(r, "returned")

\* The method throws.
Throw(r, v) ==
  /\ turn = r
  /\ pc[r] = "service"
  /\ raised' = [raised EXCEPT ![r] = TRUE]
  /\ Leave(r, v)
  /\ UNCHANGED <<kind, handled, calls, spoiled>>

\* A listener of `request' or `headers' throws, before _executeMethod is called.
ListenerThrow(r, v) ==
  /\ turn = r
  /\ pc[r] = "process"
  /\ kind[r].lookup = "raises"
  /\ Leave(r, v)
  /\ UNCHANGED <<kind, handled, calls, raised, spoiled>>

\* The callback is called in a later turn, from a timer or an I/O callback of
\* the service: an exception of handleResult has nobody to catch it.
CallBackLater(r, v) ==
  /\ turn = NoRequest
  /\ pc[r] = "returned"
  /\ kind[r].lookup = "found"
  /\ CountCall(r)
  /\ \/ /\ Ignore(r) \/ Deliver(r, v)
        /\ UNCHANGED <<spoiled, uncaught>>
     \/ /\ Spoil(r, v)
        /\ uncaught' = [uncaught EXCEPT ![r] = TRUE]
        /\ UNCHANGED replies
  /\ UNCHANGED <<turn, pc, kind, raised>>

\* One step of the handlers of request r, and one step of its service method
\* that ends the method.
Step(r) == Listen(r) \/ End(r) \/ Process(r) \/ Execute(r)

Finish(r) ==
  \/ ReturnNothing(r)
  \/ \E v \in Plain : ReturnValue(r, v)
  \/ \E v \in Thrown : Throw(r, v)

Next ==
  \E r \in Requests :
    \/ Step(r)
    \/ Finish(r)
    \/ \E v \in Thrown : ListenerThrow(r, v)
    \/ \E v \in Said : CallBack(r, v) \/ CallBackLater(r, v)

Spec == Init /\ [][Next]_vars

\* The event loop runs the handlers, a service method comes to its end, and a
\* service that returned nothing calls its callback at least once.
FairSpec ==
  /\ Spec
  /\ \A r \in Requests :
       /\ WF_vars(Step(r))
       /\ WF_vars(Finish(r))
       /\ WF_vars(\E v \in Said : CallBackLater(r, v))

---------------------------------------------------------------------------
(* Properties.                                                             *)

\* Type invariant of the state that server.js keeps per request.
TypeOK ==
  /\ turn \in Requests \cup {NoRequest}
  /\ pc \in [Requests -> Phases]
  /\ kind \in [Requests -> Kinds]
  /\ handled \in [Requests -> BOOLEAN]
  /\ calls \in [Requests -> 0..MaxCalls]
  /\ replies \in [Requests -> Seq(Replies)]
  /\ raised \in [Requests -> BOOLEAN]
  /\ spoiled \in [Requests -> BOOLEAN]
  /\ uncaught \in [Requests -> BOOLEAN]
  /\ code \in [Faults -> Nat]

\* However often and however late a service method calls its callback, and
\* whatever it returns as well, a response is written twice only if an
\* exception came out of the call of the method, and then only twice: the
\* `handled' flag of _executeMethod against the catch clauses around it.
OneAnswer ==
  \A r \in Requests : Len(replies[r]) <= (IF raised[r] THEN 2 ELSE 1)

\* Once a request is handled, by a callback, a returned value or the empty
\* answer of a one-way operation, only an exception out of its own turn adds a
\* reply: no later callback of the service, in whatever turn, writes again.
HandledIsFinal ==
  [][\A r \in Requests :
       handled[r] /\ replies'[r] # replies[r] => raised'[r] /\ turn = r]_vars

\* A request whose method is done and which has no reply can still be
\* answered by the callback, unless serialising the answer failed or an
\* exception left the server: handleResult never swallows an answer.
StillAnswerable ==
  \A r \in Requests :
    pc[r] = "returned" /\ replies[r] = <<>> /\ ~spoiled[r] => ~handled[r]

\* A one-way operation is answered with an empty 200 before its method runs,
\* and unless an exception comes out of the method nothing follows: neither a
\* value it returns nor what a callback, early or late, is called with.
OneWayIsEmpty ==
  \A r \in Requests :
    /\ kind[r].oneWay /\ kind[r].lookup = "found"
    /\ pc[r] \in {"service", "returned"} /\ ~raised[r]
    => replies[r] = <<[body |-> "empty", status |-> 200]>>

\* A request that reached its `end' event gets a reply, if its service obeys
\* the callback contract, except where serialisation failed or an exception
\* left the server.
EventuallyAnswered ==
  \A r \in Requests :
    pc[r] = "process" ~> (replies[r] # <<>> \/ spoiled[r] \/ uncaught[r])

\* README.md, SOAP Fault: "A service method can reply with a SOAP Fault to a
\* client by `throw'ing an object with a `Fault' property."  The step in which
\* the method throws a Fault that can be serialised, before anything was
\* replied, replies with that Fault.
ThrownFaultIsSent ==
  [][\A r \in Requests, v \in FaultValues :
       Throw(r, v) /\ v.ok /\ replies[r] = <<>> =>
         replies'[r][1].body = FaultBody(v.fault)]_vars
=============================================================================
