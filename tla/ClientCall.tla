----------------------------- MODULE ClientCall -----------------------------
(***************************************************************************)
(* The calls that clients make: the functions that _defineOperation of      *)
(* src/src/client.js returns, _invoke and its reply handler, HttpClient of  *)
(* src/src/http.js, and the state that src/src/base.js keeps for a client:  *)
(* its SOAP headers, and the options that it writes into its WSDL object.   *)
(*                                                                          *)
(* All the clients here have one WSDL object, as createClient gives it to   *)
(* those that ask for the same URL.  Of the options that Base copies into   *)
(* it, envelopeKey stands for all.  The fields of a client that are kept for *)
(* logs (lastRequest, lastResponse and the like) are left out.              *)
(***************************************************************************)
EXTENDS Naturals, Sequences

CONSTANTS
  Clients,     \* instances of Client
  Calls,       \* calls of an operation, each made once
  OneWay,      \* the calls of operations without an output
  Headers,     \* SOAP headers
  OwnHeaders,  \* those that calls pass among their options
  Keys,        \* prefixes of the envelope
  Endpoints,   \* locations of the service
  None,        \* undefined
  MaxHeaders   \* bound: SOAP headers of a client when another is added

ASSUME ClientAssumption ==
  /\ OneWay \subseteq Calls
  /\ OwnHeaders \subseteq Headers
  /\ None \notin Headers \cup Keys \cup Calls
  /\ MaxHeaders \in Nat

VARIABLES
  wsdlKey,      \* options.envelopeKey of the WSDL object, None at first
  ownKey,       \* the envelopeKey that each client was created with
  endpoint,     \* the location that the methods of each client have
  soapHeaders,  \* the soapHeaders of each client; None is a hole
  handed,       \* the indexes that addSoapHeader returned since a clear
  replaced,     \* the clients whose headers a call replaced since a clear
  phase,        \* where each call is: see below
  method,       \* the method of each call: a client and a location
  request,      \* the request that each call sent
  told,         \* what the callback of each call was given, None before: an
                \* error, nothing, the HTTP response or a result
  soapError     \* the calls for which `soapError' was emitted

clientVars == <<wsdlKey, ownKey, endpoint, soapHeaders, handed, replaced, phase, method,
                request, told, soapError>>

userVars == <<wsdlKey, ownKey, endpoint, soapHeaders, handed, replaced>>

callVars == <<phase, method, request, told, soapError>>

\* A call is "idle" at first; "bound" once its method was looked up; "sent", or
\* "raised" if it raised instead of being sent; "told", or "lost" if its reply
\* handler raised.

\* What comes back from HttpClient: an error; a body that the HTTP module made
\* an object of; text that is JSON, or no XML at all; a Fault with content;
\* nothing, or an envelope with no Body or an empty one; a Body with text or with
\* elements, of which one may be an empty Fault.
Replies == {"error", "object", "json", "garbage", "fault", "empty", "text", "elements"}

Init ==
  /\ wsdlKey = None
  /\ ownKey = [k \in Clients |-> None]
  /\ endpoint \in {[k \in Clients |-> e] : e \in Endpoints}
  /\ soapHeaders = [k \in Clients |-> <<>>]
  /\ handed = [k \in Clients |-> {}]
  /\ replaced = {}
  /\ phase = [c \in Calls |-> "idle"]
  /\ method = [c \in Calls |-> None]
  /\ request = [c \in Calls |-> None]
  /\ told = [c \in Calls |-> None]
  /\ soapError = {}

Goto(c, next) == phase' = [phase EXCEPT ![c] = next]

---------------------------------------------------------------------------
(* The client.                                                             *)

Created(k) == ownKey[k] # None

\* new Client: Base copies the options into the WSDL object.
Create(k, key) ==
  /\ ~Created(k)
  /\ ownKey' = [ownKey EXCEPT ![k] = key]
  /\ wsdlKey' = key
  /\ UNCHANGED <<endpoint, soapHeaders, handed, replaced, callVars>>

\* setEndpoint defines the methods of the client anew.
SetEndpoint(k, e) ==
  /\ Created(k)
  /\ endpoint' = [endpoint EXCEPT ![k] = e]
  /\ UNCHANGED <<wsdlKey, ownKey, soapHeaders, handed, replaced, callVars>>

\* The index of the element that is pushed next.
Index(array) == Len(array) + 1

\* addSoapHeader returns the index of the header.
AddSoapHeader(k, h) ==
  /\ Created(k)
  /\ Len(soapHeaders[k]) < MaxHeaders
  /\ soapHeaders' = [soapHeaders EXCEPT ![k] = Append(@, h)]
  /\ handed' = [handed EXCEPT ![k] = @ \cup {Index(soapHeaders[k])}]
  /\ UNCHANGED <<wsdlKey, ownKey, endpoint, replaced, callVars>>

\* An array after its i-th element was set; i may be beyond its end.
WithElement(array, i, x) ==
  [j \in 1..(IF i > Len(array) THEN i ELSE Len(array)) |->
     IF j = i THEN x ELSE IF j <= Len(array) THEN array[j] ELSE None]

\* changeSoapHeader, with an index that addSoapHeader returned.
ChangeSoapHeader(k, i, h) ==
  /\ i \in handed[k]
  /\ soapHeaders' = [soapHeaders EXCEPT ![k] = WithElement(@, i, h)]
  /\ UNCHANGED <<wsdlKey, ownKey, endpoint, handed, replaced, callVars>>

ClearSoapHeaders(k) ==
  /\ soapHeaders[k] # <<>>
  /\ soapHeaders' = [soapHeaders EXCEPT ![k] = <<>>]
  /\ handed' = [handed EXCEPT ![k] = {}]
  /\ replaced' = replaced \ {k}
  /\ UNCHANGED <<wsdlKey, ownKey, endpoint, callVars>>

---------------------------------------------------------------------------
(* A call.                                                                 *)

\* client.service.port.operation: a function with the location of the moment.
Bind(c, k) ==
  /\ Created(k)
  /\ phase[c] = "idle"
  /\ Goto(c, "bound")
  /\ method' = [method EXCEPT ![c] = [client |-> k, location |-> endpoint[k]]]
  /\ UNCHANGED <<request, told, soapError, userVars>>

Elements(array) == {array[i] : i \in 1..Len(array)}

\* Mutant: a call without a SOAP header of its own clears those of the client.
ReplacedHeaders(k, own) == IF own = None THEN <<>> ELSE <<own>>

\* The SOAP headers that a client has from a call on.
HeadersFor(k, own) == IF own = None THEN soapHeaders[k] ELSE <<own>>

\* The method is called, perhaps with a SOAP header among its options, which
\* takes the place of those of the client.  A hole among them or arguments that
\* jsonToXml cannot write raise before anything is sent.
Invoke(c, own, ok) ==
  LET k == method[c].client
      headers == HeadersFor(k, own)
  IN
  /\ phase[c] = "bound"
  /\ soapHeaders' = [soapHeaders EXCEPT ![k] = headers]
  /\ replaced' = IF own = None THEN replaced ELSE replaced \cup {k}
  /\ \/ /\ None \in Elements(headers) \/ ~ok
        /\ Goto(c, "raised")
        /\ UNCHANGED request
     \/ /\ None \notin Elements(headers) /\ ok
        /\ Goto(c, "sent")
        /\ request' = [request EXCEPT ![c] =
             [key |-> wsdlKey, headers |-> Elements(headers), location |-> method[c].location]]
  /\ UNCHANGED <<wsdlKey, ownKey, endpoint, handed, method, told, soapError>>

\* Mutant: a Fault is read like any other body.
UnreadableText(reply) == reply \in {"json", "garbage"}

\* xmlToJson raises for what is no XML and for a Fault.
Unreadable(reply) == reply \in {"json", "garbage", "fault"}

\* What the reply handler gives to the callback.
Outcome(c, reply) ==
  CASE reply = "error" -> "error"
    [] reply = "json" /\ c \in OneWay -> "response"
    [] Unreadable(reply) /\ ~(reply = "json" /\ c \in OneWay) -> "error"
    [] reply # "error" /\ ~Unreadable(reply) /\ (c \in OneWay \/ reply = "empty") -> "nothing"
    [] reply = "text" /\ c \notin OneWay -> "error"
    [] OTHER -> "result"

\* The reply handler.  An object has no indexOf, which the handler calls outside
\* of its try block.
Reply(c, reply) ==
  /\ phase[c] = "sent"
  /\ \/ /\ reply = "object"
        /\ Goto(c, "lost")
        /\ UNCHANGED <<told, soapError>>
     \/ /\ reply # "object"
        /\ Goto(c, "told")
        /\ told' = [told EXCEPT ![c] = Outcome(c, reply)]
        /\ soapError' = IF Unreadable(reply) /\ Outcome(c, reply) = "error"
                          THEN soapError \cup {c} ELSE soapError
  /\ UNCHANGED <<method, request, userVars>>

User(k) ==
  \/ \E key \in Keys : Create(k, key)
  \/ \E e \in Endpoints : SetEndpoint(k, e)
  \/ \E h \in Headers : AddSoapHeader(k, h)
  \/ \E i \in handed[k], h \in Headers : ChangeSoapHeader(k, i, h)
  \/ ClearSoapHeaders(k)

MakeCall(c) ==
  \/ \E k \in Clients : Bind(c, k)
  \/ \E own \in OwnHeaders \cup {None}, ok \in BOOLEAN : Invoke(c, own, ok)

ReplyArrives(c) == \E reply \in Replies : Reply(c, reply)

Next ==
  \/ \E k \in Clients : User(k)
  \/ \E c \in Calls : MakeCall(c) \/ ReplyArrives(c)

Spec == Init /\ [][Next]_clientVars

---------------------------------------------------------------------------
(* Properties.                                                             *)

\* README.md: "`index' index of the header to replace with provided new value".
\* An index that addSoapHeader returned stays good while calls are made, so that
\* changeSoapHeader leaves no hole among the headers, on which every later call
\* would raise; only a call with a SOAP header of its own makes indexes stale.
HeadersAreDense ==
  \A k \in Clients \ replaced : None \notin Elements(soapHeaders[k])
=============================================================================
