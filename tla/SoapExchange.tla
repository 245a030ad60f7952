---------------------------- MODULE SoapExchange ----------------------------
(***************************************************************************)
(* The clients of ClientCall and the server of ServerRequest together: each *)
(* call that is sent becomes the HTTP request of the same name, and what    *)
(* the server writes first is the reply that the call receives.             *)
(*                                                                          *)
(* The network may fail at any time while a call waits, and it loses the    *)
(* connection if an exception reaches the event loop of the server.         *)
(***************************************************************************)
EXTENDS Naturals, Sequences

CONSTANTS
  Clients, Calls, OneWay, Headers, OwnHeaders, Keys, Endpoints, None, MaxHeaders,
  NoRequest, Faults, EmptyFaults, FaultStatus, MaxCalls

VARIABLES
  wsdlKey, ownKey, endpoint, soapHeaders, handed, replaced, phase, method, request,
  told, soapError,
  turn, pc, kind, handled, calls, replies, raised, spoiled, uncaught, code,
  word       \* the first thing that the service of each request, or a listener
             \* before it, said, or None

Client == INSTANCE ClientCall
Server == INSTANCE ServerRequest WITH Requests <- Calls

clientVars ==
  <<wsdlKey, ownKey, endpoint, soapHeaders, handed, replaced, phase, method, request,
    told, soapError>>
serverVars ==
  <<turn, pc, kind, handled, calls, replies, raised, spoiled, uncaught, code>>
vars == <<clientVars, serverVars, word>>

\* The assumptions of both ends, and that None is nothing that a service says
\* or a caller is told.
ASSUME ExchangeAssumption ==
  /\ OneWay \subseteq Calls
  /\ OwnHeaders \subseteq Headers
  /\ None \notin Headers \cup Keys \cup Calls
  /\ MaxHeaders \in Nat
  /\ NoRequest \notin Calls
  /\ EmptyFaults \subseteq Faults
  /\ FaultStatus \in [Faults -> Nat]
  /\ MaxCalls \in Nat
  /\ None \notin Server!Said \cup Server!Thrown
  /\ None \notin {"error", "nothing", "response", "result"}

\* A client sends POST requests with a content type, and knows from the WSDL of
\* the server which operations are one-way.
Init ==
  /\ Client!Init
  /\ Server!Init
  /\ \A c \in Calls : kind[c].route = "post" /\ (kind[c].oneWay <=> c \in OneWay)
  /\ word = [c \in Calls |-> None]

\* What the client makes of a body that the server wrote.  A result may have no
\* elements, be no object at all, or have a field `Fault'.  An empty Fault is a
\* field of the Body like any other: it is undefined, and xmlToJson raises for a
\* Fault that is neither undefined nor null.  A stack trace is no XML.
Received(body) ==
  CASE body = "result" -> {"elements", "empty", "text", "fault"}
    [] body = "fault" -> {"fault"}
    [] body = "emptyFault" -> {"elements"}
    [] body = "stack" -> {"garbage"}
    [] body = "empty" -> {"empty"}

Say(c, v) == word' = [word EXCEPT ![c] = IF @ = None THEN v ELSE @]

\* The user of a client.
Use ==
  /\ \/ \E k \in Clients : Client!User(k)
     \/ \E c \in Calls : Client!MakeCall(c)
  /\ UNCHANGED <<serverVars, word>>

\* The handlers of the server; the first one needs a request that was sent.
Serve(c) ==
  /\ request[c] # None
  /\ Server!Step(c)
  /\ UNCHANGED <<clientVars, word>>

\* The service method says something to its callback, in its turn or later, ...
Speak(c) ==
  /\ \E v \in Server!Said : (Server!CallBack(c, v) \/ Server!CallBackLater(c, v)) /\ Say(c, v)
  /\ UNCHANGED clientVars

\* ... and ends without, or with a word, or a listener throws one before it.  An
\* object that is neither an Error nor holds a Fault says nothing: it leaves the
\* server.
EndMethod(c) ==
  /\ \/ Server!ReturnNothing(c) /\ UNCHANGED word
     \/ \E v \in Server!Plain : Server!ReturnValue(c, v) /\ Say(c, v)
     \/ \E v \in Server!Thrown :
          /\ Server!Throw(c, v) \/ Server!ListenerThrow(c, v)
          /\ IF v.is = "object" THEN UNCHANGED word ELSE Say(c, v)
  /\ UNCHANGED clientVars

Receive(c) ==
  /\ replies[c] # <<>>
  /\ \E reply \in Received(Head(replies[c]).body) : Client!Reply(c, reply)
  /\ UNCHANGED <<serverVars, word>>

\* The network fails, or a timeout that the user asked for runs out.
Disconnect(c) ==
  /\ Client!Reply(c, "error")
  /\ UNCHANGED <<serverVars, word>>

Next ==
  \/ Use
  \/ \E c \in Calls :
       Serve(c) \/ Speak(c) \/ EndMethod(c) \/ Receive(c) \/ Disconnect(c)

Spec == Init /\ [][Next]_vars

\* The server is as fair as in ServerRequest, and what it wrote arrives.
FairSpec ==
  /\ Spec
  /\ \A c \in Calls :
       /\ WF_vars(Serve(c))
       /\ WF_vars(EndMethod(c))
       /\ WF_vars(Speak(c) /\ pc[c] = "returned")
       /\ WF_vars(Receive(c))

---------------------------------------------------------------------------
(* Properties.                                                             *)

\* What was written first for a call is an empty Fault, which its client does not
\* see as one.
LosesFault(c) == replies[c] # <<>> /\ Head(replies[c]).body = "emptyFault"

\* A call whose service said a Fault before anything else, whether it passed it
\* to the callback or threw it, and whether it can be written or not, is told
\* an error or nothing yet, never a success, unless what was written is an empty
\* Fault; a one-way call was told before.
FaultIsNoSuccess ==
  \A c \in Calls \ OneWay :
    word[c] # None /\ word[c].is = "fault" /\ ~LosesFault(c) => told[c] \in {None, "error"}

\* A call that is told a result, or that there is none, got what the service
\* said first, after the service said it, unless what was written is an empty
\* Fault: a second word of the service, in the same turn or a later one, does not
\* reach the client.
ResultWasSaid ==
  \A c \in Calls \ OneWay :
    told[c] \in {"result", "nothing"} /\ ~LosesFault(c) =>
      /\ word[c] # None
      /\ word[c] \in Server!Plain
      /\ word[c].ok

\* A call that was sent is told, if the service obeys the callback contract, or
\* else its answer could not be written, or an exception left the server: over
\* both handlers and the network, no reply is lost.
CallIsTold ==
  \A c \in Calls :
    phase[c] = "sent" ~> (told[c] # None \/ spoiled[c] \/ uncaught[c])
=============================================================================
