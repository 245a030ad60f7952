------------------------- MODULE SoapExchangeProofs -------------------------
(***************************************************************************)
(* Proofs about SoapExchange, for any clients, calls, headers and Fault     *)
(* objects: each end of it behaves as its own module says, so that what is  *)
(* proved of the ends holds of the composition too; and what a caller is    *)
(* told is what the service said first.                                     *)
(***************************************************************************)
EXTENDS SoapExchange, SequenceTheorems, TLAPS

ServerProved == INSTANCE ServerRequestProofs WITH Requests <- Calls
ClientProved == INSTANCE ClientCallProofs

\* The assumptions of both ends hold of the composition.
LEMMA Assumptions == ServerProved!ServerAssumption /\ ClientProved!ClientAssumption
  BY ExchangeAssumption DEF ServerProved!ServerAssumption, ClientProved!ClientAssumption

---------------------------------------------------------------------------
(* The ends.                                                               *)

\* The handlers of the server are those that the proofs are about ...
LEMMA SameStep ==
  ASSUME NEW r
  PROVE  Server!Step(r) <=> ServerProved!Step(r)
  <1>1. Server!Listen(r) <=> ServerProved!Listen(r)
    BY DEF Server!Listen, ServerProved!Listen, Server!Goto, ServerProved!Goto,
       Server!Reply, ServerProved!Reply
  <1>2. Server!End(r) <=> ServerProved!End(r)
    BY DEF Server!End, ServerProved!End, Server!Goto, ServerProved!Goto
  <1>3. Server!Process(r) <=> ServerProved!Process(r)
    BY DEF Server!Process, ServerProved!Process, Server!Goto, ServerProved!Goto,
       Server!Catch, ServerProved!Catch, Server!Reply, ServerProved!Reply
  <1>4. Server!Execute(r) <=> ServerProved!Execute(r)
    BY DEF Server!Execute, ServerProved!Execute, Server!Goto, ServerProved!Goto,
       Server!Catch, ServerProved!Catch, Server!Reply, ServerProved!Reply
  <1>5. QED
    BY <1>1, <1>2, <1>3, <1>4 DEF Server!Step, ServerProved!Step

\* ... and so are its answers ...
LEMMA SameAnswers ==
  ASSUME NEW r, NEW v
  PROVE  /\ Server!Ignore(r) <=> ServerProved!Ignore(r)
         /\ Server!Deliver(r, v) <=> ServerProved!Deliver(r, v)
         /\ Server!Spoil(r, v) <=> ServerProved!Spoil(r, v)
         /\ Server!Catch(r) <=> ServerProved!Catch(r)
         /\ Server!Answer(r, v) <=> ServerProved!Answer(r, v)
         /\ Server!TakeCode(v) <=> ServerProved!TakeCode(v)
  <1>1. Server!Answer(r, v) <=> ServerProved!Answer(r, v)
    BY DEF Server!Answer, ServerProved!Answer, Server!Reply, ServerProved!Reply,
       Server!FaultCode, ServerProved!FaultCode, Server!FaultBody, ServerProved!FaultBody,
       Server!StatusLeft, ServerProved!StatusLeft
  <1>2. Server!TakeCode(v) <=> ServerProved!TakeCode(v)
    BY DEF Server!TakeCode, ServerProved!TakeCode
  <1>3. Server!Ignore(r) <=> ServerProved!Ignore(r)
    BY DEF Server!Ignore, ServerProved!Ignore
  <1>4. Server!Deliver(r, v) <=> ServerProved!Deliver(r, v)
    BY <1>1, <1>2 DEF Server!Deliver, ServerProved!Deliver, Server!MarkHandled,
       ServerProved!MarkHandled
  <1>5. Server!Spoil(r, v) <=> ServerProved!Spoil(r, v)
    BY <1>2 DEF Server!Spoil, ServerProved!Spoil, Server!MarkHandled, ServerProved!MarkHandled
  <1>6. Server!Catch(r) <=> ServerProved!Catch(r)
    BY DEF Server!Catch, ServerProved!Catch, Server!Reply, ServerProved!Reply, Server!Goto,
       ServerProved!Goto
  <1>7. QED
    BY <1>1, <1>2, <1>3, <1>4, <1>5, <1>6

\* ... and what services do.
LEMMA SameMethod ==
  ASSUME NEW r, NEW v
  PROVE  /\ Server!CallBack(r, v) <=> ServerProved!CallBack(r, v)
         /\ Server!CallBackLater(r, v) <=> ServerProved!CallBackLater(r, v)
         /\ Server!ReturnNothing(r) <=> ServerProved!ReturnNothing(r)
         /\ Server!ReturnValue(r, v) <=> ServerProved!ReturnValue(r, v)
         /\ Server!Throw(r, v) <=> ServerProved!Throw(r, v)
         /\ Server!ListenerThrow(r, v) <=> ServerProved!ListenerThrow(r, v)
  <1>1. /\ Server!CountCall(r) <=> ServerProved!CountCall(r)
        /\ Server!Goto(r, "returned") <=> ServerProved!Goto(r, "returned")
        /\ Server!Reply(r, "stack", 500) <=> ServerProved!Reply(r, "stack", 500)
    BY DEF Server!CountCall, ServerProved!CountCall, Server!Goto, ServerProved!Goto,
       Server!Reply, ServerProved!Reply
  <1>2. Server!CallBack(r, v) <=> ServerProved!CallBack(r, v)
    BY <1>1, SameAnswers DEF Server!CallBack, ServerProved!CallBack
  <1>3. Server!CallBackLater(r, v) <=> ServerProved!CallBackLater(r, v)
    BY <1>1, SameAnswers DEF Server!CallBackLater, ServerProved!CallBackLater
  <1>4. Server!ReturnNothing(r) <=> ServerProved!ReturnNothing(r)
    BY <1>1 DEF Server!ReturnNothing, ServerProved!ReturnNothing
  <1>5. Server!ReturnValue(r, v) <=> ServerProved!ReturnValue(r, v)
    BY <1>1, SameAnswers DEF Server!ReturnValue, ServerProved!ReturnValue
  <1>6. Server!Leave(r, v) <=> ServerProved!Leave(r, v)
    BY <1>1, SameAnswers DEF Server!Leave, ServerProved!Leave
  <1>7. Server!Throw(r, v) <=> ServerProved!Throw(r, v)
    BY <1>6 DEF Server!Throw, ServerProved!Throw
  <1>8. Server!ListenerThrow(r, v) <=> ServerProved!ListenerThrow(r, v)
    BY <1>6 DEF Server!ListenerThrow, ServerProved!ListenerThrow
  <1>9. QED
    BY <1>2, <1>3, <1>4, <1>5, <1>7, <1>8

\* What the values of the server are.
LEMMA SameValues ==
  /\ Server!Said = ServerProved!Said /\ Server!Thrown = ServerProved!Thrown
  /\ Server!Plain = ServerProved!Plain
  BY DEF Server!Said, ServerProved!Said, Server!Thrown, ServerProved!Thrown, Server!Plain,
     ServerProved!Plain, Server!FaultValues, ServerProved!FaultValues

\* What happens to one call at the server.
LEMMA ServerMoves ==
  ASSUME NEW c \in Calls, Serve(c) \/ Speak(c) \/ EndMethod(c)
  PROVE  ServerProved!Next
  <1>1. CASE Serve(c)
    BY <1>1, SameStep DEF Serve, ServerProved!Next
  <1>2. CASE Speak(c)
    <2>1. PICK v \in ServerProved!Said : Server!CallBack(c, v) \/ Server!CallBackLater(c, v)
      BY <1>2, SameValues DEF Speak
    <2>2. QED
      BY <2>1, SameMethod DEF ServerProved!Next
  <1>3. CASE EndMethod(c)
    <2>1. \/ Server!ReturnNothing(c)
          \/ \E v \in ServerProved!Plain : Server!ReturnValue(c, v)
          \/ \E v \in ServerProved!Thrown : Server!Throw(c, v) \/ Server!ListenerThrow(c, v)
      BY <1>3, SameValues DEF EndMethod
    <2>2. \/ ServerProved!Finish(c)
          \/ \E v \in ServerProved!Thrown : ServerProved!ListenerThrow(c, v)
      BY <2>1, SameMethod DEF ServerProved!Finish
    <2>3. QED
      BY <2>2 DEF ServerProved!Next
  <1>4. QED
    BY <1>1, <1>2, <1>3

\* In the composition the server takes the steps of ServerRequest, and no others.
LEMMA ServerStep == [Next]_vars => [ServerProved!Next]_ServerProved!vars
  <1> SUFFICES ASSUME [Next]_vars PROVE ServerProved!Next \/ UNCHANGED ServerProved!vars
    OBVIOUS
  <1>1. CASE UNCHANGED vars
    BY <1>1 DEF vars, serverVars, ServerProved!vars
  <1>2. CASE Use
    BY <1>2 DEF Use, serverVars, ServerProved!vars
  <1>3. ASSUME NEW c \in Calls, Receive(c) \/ Disconnect(c) PROVE UNCHANGED ServerProved!vars
    BY <1>3 DEF Receive, Disconnect, serverVars, ServerProved!vars
  <1>4. QED
    BY <1>1, <1>2, <1>3, ServerMoves DEF Next

\* What clients and callers do is what the proofs are about.
LEMMA SameClient ==
  ASSUME NEW k, NEW c, NEW reply
  PROVE  /\ Client!User(k) <=> ClientProved!User(k)
         /\ Client!MakeCall(c) <=> ClientProved!MakeCall(c)
         /\ Client!Reply(c, reply) <=> ClientProved!Reply(c, reply)
  <1>1. Client!User(k) <=> ClientProved!User(k)
    BY DEF Client!User, ClientProved!User, Client!Create, ClientProved!Create, Client!SetEndpoint,
       ClientProved!SetEndpoint, Client!AddSoapHeader, ClientProved!AddSoapHeader,
       Client!ChangeSoapHeader, ClientProved!ChangeSoapHeader, Client!ClearSoapHeaders,
       ClientProved!ClearSoapHeaders, Client!Created, ClientProved!Created, Client!Index,
       ClientProved!Index, Client!WithElement, ClientProved!WithElement, Client!callVars,
       ClientProved!callVars
  <1>2. Client!MakeCall(c) <=> ClientProved!MakeCall(c)
    BY DEF Client!MakeCall, ClientProved!MakeCall, Client!Bind, ClientProved!Bind, Client!Invoke,
       ClientProved!Invoke, Client!Created, ClientProved!Created, Client!Goto, ClientProved!Goto,
       Client!HeadersFor, ClientProved!HeadersFor, Client!Elements, ClientProved!Elements,
       Client!userVars, ClientProved!userVars
  <1>3. Client!Reply(c, reply) <=> ClientProved!Reply(c, reply)
    BY DEF Client!Reply, ClientProved!Reply, Client!Goto,
       ClientProved!Goto, Client!Outcome, ClientProved!Outcome, Client!Unreadable,
       ClientProved!Unreadable, Client!userVars, ClientProved!userVars
  <1>4. QED
    BY <1>1, <1>2, <1>3

---------------------------------------------------------------------------
(* What the server has written first, and what its service said first.     *)

Words == Server!Said \cup Server!Thrown

First(c) == Head(replies[c]).body

\* What holds of each call: what can be written first; nothing was said before
\* a request that the callback may still answer is answered; a result that was
\* written first is what was said first; where a caller was told a result, or
\* that there is none, one or an empty Fault was written first.
Heard(c) ==
  /\ kind[c].route = "post" /\ (kind[c].oneWay <=> c \in OneWay)
  /\ replies[c] # <<>> =>
       \/ First(c) \in {"result", "fault", "emptyFault", "stack"}
       \/ c \in OneWay /\ First(c) = "empty"
  /\ replies[c] = <<>> /\ ~handled[c] => word[c] = None
  /\ replies[c] # <<>> /\ First(c) = "result" => word[c] \in Server!Plain /\ word[c].ok
  /\ c \notin OneWay => told[c] \in {None, "error", "nothing", "result"}
  /\ c \notin OneWay /\ told[c] \in {"nothing", "result"} =>
       replies[c] # <<>> /\ First(c) \in {"result", "emptyFault"}

\* The invariant, on top of that of the server.
HInv ==
  /\ word \in [Calls -> Words \cup {None}]
  /\ told \in [Calls -> {None, "error", "nothing", "response", "result"}]
  /\ \A c \in Calls : Heard(c)

\* Only the call of the step is concerned.
Alone(c) ==
  /\ kind' = kind
  /\ \A d \in Calls \ {c} :
       replies'[d] = replies[d] /\ handled'[d] = handled[d] /\ word'[d] = word[d]
          /\ told'[d] = told[d]

\* What was said first stays.
WordStays(c) == word[c] # None => word'[c] = word[c]

\* A reply is written after those that were.
Writes(c, body) ==
  /\ replies'[c] # <<>>
  /\ replies[c] # <<>> => First(c)' = First(c)
  /\ replies[c] = <<>> => First(c)' = body

\* A step about one call: what the others heard and said stays.
LEMMA AloneLemma ==
  ASSUME HInv, NEW c \in Calls, Alone(c), Heard(c)',
         word' \in [Calls -> Words \cup {None}],
         told' \in [Calls -> {None, "error", "nothing", "response", "result"}]
  PROVE  HInv'
  <1>1. ASSUME NEW d \in Calls \ {c} PROVE Heard(d)'
    <2>1. Heard(d)
      BY DEF HInv
    <2>2. QED
      BY <2>1 DEF Alone, Heard, First
  <1>2. QED
    BY <1>1 DEF HInv

\* A step that writes nothing: nothing new was said, or the answer was spoiled.
LEMMA SilentLemma ==
  ASSUME HInv, NEW c \in Calls, kind' = kind, told' = told, WordStays(c),
         replies'[c] = replies[c],
         handled'[c] \/ (handled'[c] = handled[c] /\ word'[c] = word[c])
  PROVE  Heard(c)'
  <1>1. Heard(c)
    BY DEF HInv
  <1>2. \A x \in Server!Plain : x # None
    BY ExchangeAssumption DEF Server!Said
  <1>3. QED
    BY <1>1, <1>2 DEF Heard, First, WordStays

\* A step that writes something.
LEMMA WritesLemma ==
  ASSUME HInv, NEW c \in Calls, kind' = kind, told' = told, WordStays(c), NEW body,
         Writes(c, body),
         \/ body \in {"fault", "emptyFault", "stack"}
         \/ body = "empty" /\ c \in OneWay
         \/ body = "result" /\ (replies[c] = <<>> => word'[c] \in Server!Plain /\ word'[c].ok)
  PROVE  Heard(c)'
  <1>1. Heard(c)
    BY DEF HInv
  <1>2. \A x \in Server!Plain : x # None
    BY ExchangeAssumption DEF Server!Said
  <1>3. CASE replies[c] = <<>>
    BY <1>1, <1>3 DEF Heard, Writes, First
  <1>4. CASE replies[c] # <<>>
    BY <1>1, <1>2, <1>4 DEF Heard, Writes, First, WordStays
  <1>5. QED
    BY <1>3, <1>4

\* The head of a sequence stays when something is appended.
LEMMA HeadLemma ==
  ASSUME NEW S, NEW s \in Seq(S), NEW e \in S
  PROVE  /\ Append(s, e) # <<>>
         /\ s = <<>> => Head(Append(s, e)) = e
         /\ s # <<>> => Head(Append(s, e)) = Head(s)
  OBVIOUS

\* A reply that is written.
LEMMA ReplyLemma ==
  ASSUME ServerProved!TypeOK, NEW c \in Calls, NEW body \in Server!Bodies, NEW status \in Nat \ {0},
         Server!Reply(c, body, status)
  PROVE  Writes(c, body) /\ \A d \in Calls \ {c} : replies'[d] = replies[d]
  <1> DEFINE e == [body |-> body, status |-> status]
  <1>1. e \in ServerProved!Replies /\ e.body = body
    BY DEF ServerProved!Replies, ServerProved!Bodies, Server!Bodies
  <1>2. replies[c] \in Seq(ServerProved!Replies)
    BY DEF ServerProved!TypeOK
  <1>3. replies' = [replies EXCEPT ![c] = Append(replies[c], e)]
    BY DEF Server!Reply
  <1>4. replies'[c] = Append(replies[c], e) /\ \A d \in Calls \ {c} : replies'[d] = replies[d]
    BY <1>3 DEF ServerProved!TypeOK
  <1> HIDE DEF e
  <1>5. Append(replies[c], e) # <<>> /\ (replies[c] = <<>> => Head(replies'[c]) = e)
          /\ (replies[c] # <<>> => Head(replies'[c]) = Head(replies[c]))
    BY <1>1, <1>2, <1>4, HeadLemma
  <1>6. QED
    BY <1>1, <1>4, <1>5 DEF Writes, First

\* Something that is said.
LEMMA SayLemma ==
  ASSUME HInv, NEW c \in Calls, NEW v \in Words, Say(c, v)
  PROVE  /\ WordStays(c)
         /\ word[c] = None => word'[c] = v
         /\ \A d \in Calls \ {c} : word'[d] = word[d]
         /\ word' \in [Calls -> Words \cup {None}]
  BY DEF HInv, Say, WordStays

\* What is said is a value of the service.
LEMMA WordsLemma ==
  ASSUME NEW v \in Server!Said
  PROVE  /\ v \in Words /\ v.ok \in BOOLEAN
         /\ v.is = "fault" => v.fault \in Faults
         /\ v.is # "fault" => v \in Server!Plain
  BY DEF Words, Server!Said, Server!Plain, Server!FaultValues

\* The status and the body of a Fault.
LEMMA FaultLemma ==
  ASSUME ServerProved!TypeOK, NEW f \in Faults
  PROVE  /\ Server!FaultCode(f) \in Nat \ {0}
         /\ Server!FaultBody(f) \in {"fault", "emptyFault"}
  BY DEF ServerProved!TypeOK, Server!FaultCode, Server!FaultBody

\* The status of a result.
LEMMA StatusLemma ==
  ASSUME ServerProved!TypeOK, NEW c \in Calls
  PROVE  Server!StatusLeft(c) \in Nat \ {0}
  <1>1. ServerProved!StatusLeft(c) \in Nat \ {0}
    BY Assumptions, ServerProved!StatusLemma
  <1>2. QED
    BY <1>1 DEF Server!StatusLeft, ServerProved!StatusLeft

\* An answer that is written.
LEMMA AnswerLemma ==
  ASSUME ServerProved!TypeOK, NEW c \in Calls, NEW v, Server!Answer(c, v),
         v.is = "fault" => v.fault \in Faults
  PROVE  /\ Writes(c, IF v.is = "fault" THEN Server!FaultBody(v.fault) ELSE "result")
         /\ \A d \in Calls \ {c} : replies'[d] = replies[d]
  <1>1. CASE v.is = "fault"
    <2>1. /\ Server!FaultCode(v.fault) \in Nat \ {0}
          /\ Server!FaultBody(v.fault) \in Server!Bodies
      BY <1>1, FaultLemma DEF Server!Bodies
    <2>2. Server!Reply(c, Server!FaultBody(v.fault), Server!FaultCode(v.fault))
      BY <1>1 DEF Server!Answer
    <2>3. QED
      BY <1>1, <2>1, <2>2, ReplyLemma
  <1>2. CASE v.is # "fault"
    <2>1. Server!Reply(c, "result", Server!StatusLeft(c))
      BY <1>2 DEF Server!Answer
    <2>2. QED
      BY <1>2, <2>1, StatusLemma, ReplyLemma DEF Server!Bodies
  <1>3. QED
    BY <1>1, <1>2

\* An answer of handleResult with what was said.
LEMMA DeliverLemma ==
  ASSUME ServerProved!TypeOK, HInv, NEW c \in Calls, NEW v \in Server!Said,
         Server!Deliver(c, v), Say(c, v), kind' = kind, told' = told
  PROVE  HInv'
  <1>1. ~handled[c] /\ v.ok /\ Server!Answer(c, v) /\ handled' = [handled EXCEPT ![c] = TRUE]
    BY DEF Server!Deliver, Server!MarkHandled
  <1>2. PICK body : /\ body = IF v.is = "fault" THEN Server!FaultBody(v.fault) ELSE "result"
                    /\ Writes(c, body)
                    /\ \A d \in Calls \ {c} : replies'[d] = replies[d]
    BY <1>1, AnswerLemma, WordsLemma
  <1>3. /\ WordStays(c) /\ (word[c] = None => word'[c] = v)
        /\ \A d \in Calls \ {c} : word'[d] = word[d]
        /\ word' \in [Calls -> Words \cup {None}]
    BY SayLemma, WordsLemma
  <1>4. replies[c] = <<>> => word[c] = None
    BY <1>1 DEF HInv, Heard
  <1>5. /\ v.is # "fault" => v \in Server!Plain /\ body = "result"
        /\ v.is = "fault" => body \in {"fault", "emptyFault"}
    BY <1>2, WordsLemma, FaultLemma
  <1>6. Heard(c)'
    BY <1>1, <1>2, <1>3, <1>4, <1>5, WritesLemma
  <1>7. Alone(c)
    BY <1>1, <1>2, <1>3 DEF Alone, ServerProved!TypeOK
  <1>8. QED
    BY <1>3, <1>6, <1>7, AloneLemma DEF HInv

\* An answer that came too late, or that could not be written.
LEMMA NoAnswerLemma ==
  ASSUME ServerProved!TypeOK, HInv, NEW c \in Calls, NEW v \in Server!Said, Say(c, v),
         kind' = kind, told' = told,
         \/ Server!Ignore(c)
         \/ Server!Spoil(c, v) /\ (replies' = replies \/ Server!Catch(c))
  PROVE  HInv'
  <1>1. /\ WordStays(c)
        /\ \A d \in Calls \ {c} : word'[d] = word[d]
        /\ word' \in [Calls -> Words \cup {None}]
    BY SayLemma, WordsLemma
  <1>2. handled'[c] /\ \A d \in Calls \ {c} : handled'[d] = handled[d]
    BY DEF Server!Ignore, Server!Spoil, Server!MarkHandled, ServerProved!TypeOK
  <1>3. CASE replies' = replies
    <2>1. Heard(c)'
      BY <1>1, <1>2, <1>3, SilentLemma
    <2>2. Alone(c)
      BY <1>1, <1>2, <1>3 DEF Alone
    <2>3. QED
      BY <1>1, <2>1, <2>2, AloneLemma DEF HInv
  <1>4. CASE Server!Catch(c)
    <2>1. Writes(c, "stack") /\ \A d \in Calls \ {c} : replies'[d] = replies[d]
      BY <1>4, ReplyLemma DEF Server!Catch, Server!Bodies
    <2>2. Heard(c)'
      BY <1>1, <2>1, WritesLemma
    <2>3. Alone(c)
      BY <1>1, <1>2, <2>1 DEF Alone
    <2>4. QED
      BY <1>1, <2>2, <2>3, AloneLemma DEF HInv
  <1>5. QED
    BY <1>3, <1>4 DEF Server!Ignore

\* The service calls its callback.
LEMMA SpeakHeard ==
  ASSUME ServerProved!TypeOK, HInv, NEW c \in Calls, Speak(c)
  PROVE  HInv'
  <1>1. PICK v \in Server!Said :
               (Server!CallBack(c, v) \/ Server!CallBackLater(c, v)) /\ Say(c, v)
    BY DEF Speak
  <1>2. kind' = kind /\ told' = told
    BY <1>1 DEF Speak, clientVars, Server!CallBack, Server!CallBackLater
  <1>3. \/ Server!Deliver(c, v)
        \/ Server!Ignore(c)
        \/ Server!Spoil(c, v) /\ (replies' = replies \/ Server!Catch(c))
    BY <1>1 DEF Server!CallBack, Server!CallBackLater
  <1>4. QED
    BY <1>1, <1>2, <1>3, DeliverLemma, NoAnswerLemma

\* The service method throws, or a listener before it.
LEMMA ThrowHeard ==
  ASSUME ServerProved!TypeOK, HInv, NEW c \in Calls, NEW v \in Server!Thrown,
         Server!Throw(c, v) \/ Server!ListenerThrow(c, v),
         IF v.is = "object" THEN UNCHANGED word ELSE Say(c, v), told' = told
  PROVE  HInv'
  <1>1. kind' = kind /\ handled' = handled /\ Server!Leave(c, v)
    BY DEF Server!Throw, Server!ListenerThrow
  <1>2. CASE v.is = "object"
    <2>1. replies' = replies /\ word' = word
      BY <1>1, <1>2 DEF Server!Leave
    <2>2. Heard(c)'
      BY <1>1, <2>1, SilentLemma DEF WordStays
    <2>3. QED
      BY <1>1, <2>1, <2>2, AloneLemma DEF Alone, HInv
  <1>3. CASE v.is # "object"
    <2>1. /\ WordStays(c)
          /\ \A d \in Calls \ {c} : word'[d] = word[d]
          /\ word' \in [Calls -> Words \cup {None}]
      BY <1>3, SayLemma DEF Words
    <2>2. \/ v.is = "fault" /\ Server!Answer(c, v)
          \/ Server!Reply(c, "stack", 500)
      BY <1>1, <1>3 DEF Server!Leave
    <2>3. v.is = "fault" => v.fault \in Faults
      BY DEF Server!Thrown, Server!FaultValues
    <2>4. \E body \in {"fault", "emptyFault", "stack"} :
            Writes(c, body) /\ \A d \in Calls \ {c} : replies'[d] = replies[d]
      BY <2>2, <2>3, AnswerLemma, FaultLemma, ReplyLemma DEF Server!Bodies
    <2>5. Heard(c)'
      BY <1>1, <2>1, <2>4, WritesLemma
    <2>6. QED
      BY <1>1, <2>1, <2>4, <2>5, AloneLemma DEF Alone, HInv
  <1>4. QED
    BY <1>2, <1>3

\* The service method ends.
LEMMA EndMethodHeard ==
  ASSUME ServerProved!TypeOK, HInv, NEW c \in Calls, EndMethod(c)
  PROVE  HInv'
  <1>1. told' = told
    BY DEF EndMethod, clientVars
  <1>2. CASE Server!ReturnNothing(c) /\ UNCHANGED word
    <2>1. UNCHANGED <<kind, handled, replies, word>>
      BY <1>2 DEF Server!ReturnNothing
    <2>2. Heard(c)'
      BY <1>1, <2>1, SilentLemma DEF WordStays
    <2>3. QED
      BY <1>1, <2>1, <2>2, AloneLemma DEF Alone, HInv
  <1>3. ASSUME NEW v \in Server!Plain, Server!ReturnValue(c, v), Say(c, v) PROVE HInv'
    <2>1. v \in Server!Said
      BY DEF Server!Said
    <2>2. kind' = kind
      BY <1>3 DEF Server!ReturnValue
    <2>3. \/ Server!Deliver(c, v)
          \/ Server!Ignore(c)
          \/ Server!Spoil(c, v) /\ Server!Catch(c)
      BY <1>3 DEF Server!ReturnValue
    <2>4. QED
      BY <1>1, <1>3, <2>1, <2>2, <2>3, DeliverLemma, NoAnswerLemma
  <1>4. QED
    BY <1>1, <1>2, <1>3, ThrowHeard DEF EndMethod

\* The handlers of the server run.
LEMMA ServeHeard ==
  ASSUME ServerProved!IInv, HInv, NEW c \in Calls, Serve(c)
  PROVE  HInv'
  <1> USE DEF ServerProved!IInv
  <1>1. told' = told /\ word' = word
    BY DEF Serve, clientVars
  <1>2. kind[c].route = "post" /\ (kind[c].oneWay <=> c \in OneWay)
    BY DEF HInv, Heard
  <1>3. ASSUME UNCHANGED <<kind, handled, replies>> PROVE HInv'
    <2>1. Heard(c)'
      BY <1>1, <1>3, SilentLemma DEF WordStays
    <2>2. QED
      BY <1>1, <1>3, <2>1, AloneLemma DEF Alone, HInv
  <1>4. ASSUME kind' = kind, NEW body, Writes(c, body),
               body = "stack" \/ (body = "empty" /\ c \in OneWay),
               \A d \in Calls \ {c} : replies'[d] = replies[d] /\ handled'[d] = handled[d]
        PROVE  HInv'
    <2>1. Heard(c)'
      BY <1>1, <1>4, WritesLemma DEF WordStays
    <2>2. QED
      BY <1>1, <1>4, <2>1, AloneLemma DEF Alone, HInv
  <1>5. CASE Server!Listen(c) \/ Server!End(c)
    BY <1>2, <1>3, <1>5 DEF Server!Listen, Server!End
  <1>6. ASSUME Server!Catch(c), UNCHANGED <<kind, handled>> PROVE HInv'
    <2>1. Writes(c, "stack") /\ \A d \in Calls \ {c} : replies'[d] = replies[d]
      BY <1>6, ReplyLemma DEF Server!Catch, Server!Bodies
    <2>2. QED
      BY <1>4, <1>6, <2>1
  <1>7. CASE Server!Process(c)
    BY <1>3, <1>6, <1>7 DEF Server!Process
  <1>8. CASE Server!Execute(c)
    <2> DEFINE empty == [body |-> "empty", status |-> 200]
               stack == [body |-> "stack", status |-> 500]
               early == IF kind[c].oneWay THEN <<empty>> ELSE <<>>
    <2>1. kind' = kind
      BY <1>8 DEF Server!Execute
    <2>2. empty \in ServerProved!Replies /\ stack \in ServerProved!Replies
      BY DEF ServerProved!Replies, ServerProved!Bodies
    <2>3. replies \in [Calls -> Seq(ServerProved!Replies)] /\ handled \in [Calls -> BOOLEAN]
      BY DEF ServerProved!TypeOK
    <2>4. CASE kind[c].lookup = "noService"
      BY <1>6, <1>8, <2>4 DEF Server!Execute
    <2>5. CASE kind[c].lookup = "noMethod"
      <3>1. /\ replies' = [replies EXCEPT ![c] = replies[c] \o early \o <<stack>>]
            /\ handled' = [handled EXCEPT ![c] = kind[c].oneWay]
        BY <1>8, <2>5 DEF Server!Execute
      <3>2. /\ replies'[c] = replies[c] \o early \o <<stack>>
            /\ \A d \in Calls \ {c} : replies'[d] = replies[d] /\ handled'[d] = handled[d]
        BY <2>3, <3>1
      <3>3. CASE kind[c].oneWay
        <4>1. replies'[c] = Append(Append(replies[c], empty), stack)
          BY <2>2, <2>3, <3>2, <3>3
        <4> HIDE DEF empty, stack
        <4>2. PICK s \in Seq(ServerProved!Replies) : s = Append(replies[c], empty)
          <5>1. Append(replies[c], empty) \in Seq(ServerProved!Replies)
            BY <2>2, <2>3
          <5>2. QED
            BY <5>1
        <4>3. /\ s # <<>> /\ replies'[c] # <<>> /\ Head(replies'[c]) = Head(s)
              /\ replies[c] = <<>> => Head(s) = empty
              /\ replies[c] # <<>> => Head(s) = Head(replies[c])
          BY <2>2, <2>3, <4>1, <4>2, HeadLemma
        <4>4. Writes(c, "empty")
          BY <4>3 DEF Writes, First, empty
        <4>5. QED
          BY <1>2, <1>4, <2>1, <3>2, <3>3, <4>4
      <3>4. CASE ~kind[c].oneWay
        <4>1. replies'[c] = Append(replies[c], stack)
          BY <2>2, <2>3, <3>2, <3>4
        <4>2. Writes(c, "stack")
          BY <2>2, <2>3, <4>1, HeadLemma DEF Writes, First
        <4>3. QED
          BY <1>4, <2>1, <3>2, <4>2
      <3>5. QED
        BY <3>3, <3>4
    <2>6. CASE kind[c].lookup = "found"
      <3>1. /\ replies' = [replies EXCEPT ![c] = replies[c] \o early]
            /\ handled' = [handled EXCEPT ![c] = kind[c].oneWay]
        BY <1>8, <2>6 DEF Server!Execute
      <3>2. /\ replies'[c] = replies[c] \o early /\ handled'[c] = kind[c].oneWay
            /\ \A d \in Calls \ {c} : replies'[d] = replies[d] /\ handled'[d] = handled[d]
        BY <2>3, <3>1
      <3>3. CASE kind[c].oneWay
        <4>1. replies'[c] = Append(replies[c], empty)
          BY <2>2, <2>3, <3>2, <3>3
        <4>2. Writes(c, "empty")
          BY <2>2, <2>3, <4>1, HeadLemma DEF Writes, First
        <4>3. QED
          BY <1>2, <1>4, <2>1, <3>2, <3>3, <4>2
      <3>4. CASE ~kind[c].oneWay
        <4>1. replies'[c] = replies[c]
          BY <2>3, <3>2, <3>4
        <4>2. ~handled[c]
          BY <1>8 DEF Server!Execute, ServerProved!Local
        <4>3. kind[c].oneWay = FALSE
          BY <3>4 DEF ServerProved!TypeOK, ServerProved!Kinds
        <4>4. handled'[c] = handled[c]
          BY <2>3, <3>2, <4>2, <4>3
        <4>5. Heard(c)'
          BY <1>1, <2>1, <4>1, <4>4, SilentLemma DEF WordStays
        <4>6. QED
          BY <1>1, <2>1, <3>2, <4>5, AloneLemma DEF Alone, HInv
      <3>5. QED
        BY <3>3, <3>4
    <2>7. QED
      BY <1>8, <2>4, <2>5, <2>6 DEF Server!Execute
  <1>9. QED
    BY <1>5, <1>7, <1>8 DEF Serve, Server!Step

\* A client acts: what it hears is what the server wrote first.
LEMMA ReceiveHeard ==
  ASSUME HInv, NEW c \in Calls, Receive(c)
  PROVE  /\ HInv'
         /\ \E reply \in {"elements", "empty", "text", "fault", "garbage"} : Client!Reply(c, reply)
  <1>1. Heard(c) /\ UNCHANGED <<kind, handled, replies, word>> /\ replies[c] # <<>>
    BY DEF HInv, Receive, serverVars
  <1>2. \/ First(c) \in {"result", "fault", "emptyFault", "stack"}
        \/ c \in OneWay /\ First(c) = "empty"
    BY <1>1 DEF Heard
  <1>3. PICK reply \in {"elements", "empty", "text", "fault", "garbage"} :
               /\ Client!Reply(c, reply)
               /\ c \notin OneWay /\ reply \in {"elements", "empty"} =>
                    First(c) \in {"result", "emptyFault"}
    <2>1. PICK reply \in Received(First(c)) : Client!Reply(c, reply)
      BY DEF Receive, First
    <2>2. CASE First(c) = "result"
      BY <2>1, <2>2 DEF Received
    <2>3. CASE First(c) = "fault"
      BY <2>1, <2>3 DEF Received
    <2>4. CASE First(c) = "emptyFault"
      BY <2>1, <2>4 DEF Received
    <2>5. CASE First(c) = "stack"
      BY <2>1, <2>5 DEF Received
    <2>6. CASE c \in OneWay /\ First(c) = "empty"
      BY <2>1, <2>6 DEF Received
    <2>7. QED
      BY <1>2, <2>2, <2>3, <2>4, <2>5, <2>6
  <1>4. told' = [told EXCEPT ![c] = Client!Outcome(c, reply)]
    BY <1>3 DEF Client!Reply
  <1>5. /\ Client!Outcome(c, reply) \in {"error", "nothing", "result"}
        /\ c \notin OneWay /\ reply \notin {"elements", "empty"} =>
             Client!Outcome(c, reply) = "error"
    <2>1. CASE reply \in {"fault", "garbage"}
      BY <2>1 DEF Client!Outcome, Client!Unreadable
    <2>2. CASE reply \in {"elements", "empty", "text"}
      BY <2>2 DEF Client!Outcome, Client!Unreadable
    <2>3. QED
      BY <2>1, <2>2
  <1>6. /\ told' \in [Calls -> {None, "error", "nothing", "response", "result"}]
        /\ told'[c] = Client!Outcome(c, reply) /\ \A d \in Calls \ {c} : told'[d] = told[d]
    BY <1>4, <1>5 DEF HInv
  <1>7. Heard(c)'
    BY <1>1, <1>3, <1>5, <1>6 DEF Heard, First
  <1>8. QED
    BY <1>1, <1>3, <1>6, <1>7, AloneLemma DEF Alone, HInv

\* The network fails.
LEMMA DisconnectHeard ==
  ASSUME HInv, NEW c \in Calls, Disconnect(c)
  PROVE  HInv'
  <1>1. Heard(c) /\ UNCHANGED <<kind, handled, replies, word>>
    BY DEF HInv, Disconnect, serverVars
  <1>2. told' = [told EXCEPT ![c] = Client!Outcome(c, "error")]
    BY DEF Disconnect, Client!Reply
  <1>3. Client!Outcome(c, "error") = "error"
    BY DEF Client!Outcome, Client!Unreadable
  <1>4. /\ told' \in [Calls -> {None, "error", "nothing", "response", "result"}]
        /\ told'[c] = "error" /\ \A d \in Calls \ {c} : told'[d] = told[d]
    BY <1>2, <1>3 DEF HInv
  <1>5. Heard(c)'
    BY <1>1, <1>4, ExchangeAssumption DEF Heard, First
  <1>6. QED
    BY <1>1, <1>4, <1>5, AloneLemma DEF Alone, HInv

\* The user of a client hears nothing.
LEMMA UseHeard ==
  ASSUME HInv, Use
  PROVE  HInv'
  <1>1. told' = told
    BY DEF Use, Client!User, Client!MakeCall, Client!Create, Client!SetEndpoint, Client!AddSoapHeader,
       Client!ChangeSoapHeader, Client!ClearSoapHeaders, Client!Bind, Client!Invoke, Client!callVars
  <1>2. UNCHANGED <<kind, handled, replies, word>>
    BY DEF Use, serverVars
  <1>3. QED
    BY <1>1, <1>2 DEF HInv, Heard, First

---------------------------------------------------------------------------
(* The theorems.                                                           *)

\* Every step keeps the invariant.
LEMMA HInvStep == ServerProved!IInv /\ HInv /\ [Next]_vars => HInv'
  <1> SUFFICES ASSUME ServerProved!IInv, HInv, [Next]_vars PROVE HInv'
    OBVIOUS
  <1>1. ServerProved!TypeOK
    BY DEF ServerProved!IInv
  <1>2. CASE UNCHANGED vars
    BY <1>2 DEF vars, clientVars, serverVars, HInv, Heard, First
  <1>3. ASSUME NEW c \in Calls, Serve(c) \/ Speak(c) \/ EndMethod(c) \/ Receive(c) \/ Disconnect(c)
        PROVE  HInv'
    BY <1>1, <1>3, ServeHeard, SpeakHeard, EndMethodHeard, ReceiveHeard, DisconnectHeard
  <1>4. QED
    BY <1>2, <1>3, UseHeard DEF Next

\* At first nobody has said or heard anything.
LEMMA HInvInit == Init => HInv
  <1> SUFFICES ASSUME Init PROVE HInv
    OBVIOUS
  <1>1. ASSUME NEW c \in Calls PROVE Heard(c)
    BY ExchangeAssumption DEF Init, Server!Init, Client!Init, Heard
  <1>2. QED
    BY <1>1 DEF Init, Client!Init, HInv

\* The server of the composition behaves as ServerRequest says.
THEOREM ServerImplemented == Spec => ServerProved!Spec
  <1>1. Init => ServerProved!Init
    BY DEF Init, Server!Init, ServerProved!Init, Server!Kinds, ServerProved!Kinds, Server!Styles,
       ServerProved!Styles
  <1>2. QED
    BY <1>1, ServerStep, PTL DEF Spec, ServerProved!Spec

\* What is needed of the reachable states.
THEOREM Inductive == Spec => [](ServerProved!IInv /\ HInv)
  <1>1. ServerProved!Spec => []ServerProved!IInv
    BY Assumptions, ServerProved!Inductive
  <1>2. QED
    BY <1>1, ServerImplemented, HInvInit, HInvStep, PTL DEF Spec

\* With clients in front of it, too, handleResult and the catch clauses of the
\* server answer a request once, or twice after an exception.
THEOREM OneAnswerInExchange == Spec => []ServerProved!OneAnswer
  BY Assumptions, ServerImplemented, ServerProved!OneAnswerHolds, PTL

\* A call that is told a result, or that there is none, got what its service said
\* first, or an empty Fault: through handleResult, the network and the reply handler
\* of _invoke, for any number of clients, calls and words of each service.
THEOREM ResultWasSaidHolds == Spec => []ResultWasSaid
  <1>1. HInv => ResultWasSaid
    <2>1. \A x \in Server!Plain : x # None
      BY ExchangeAssumption DEF Server!Said
    <2>2. QED
      BY <2>1 DEF HInv, Heard, ResultWasSaid, LosesFault, First
  <1>2. QED
    BY <1>1, Inductive, PTL

\* A call whose service said a Fault first, by its callback or by throwing it, is
\* told an error or nothing yet, unless an empty Fault was written: whatever was said
\* next, and whatever else was written.
THEOREM FaultIsNoSuccessHolds == Spec => []FaultIsNoSuccess
  <1>1. HInv => FaultIsNoSuccess
    <2>1. \A x \in Server!Plain : x.is # "fault"
      BY DEF Server!Plain
    <2>2. QED
      BY <2>1 DEF HInv, Heard, FaultIsNoSuccess, LosesFault, First
  <1>2. QED
    BY <1>1, Inductive, PTL

\* In the composition the clients take the steps of ClientCall, and no others: the
\* server writes nothing that the reply handler does not know.
LEMMA ClientStep == HInv /\ [Next]_vars => [ClientProved!Next]_ClientProved!clientVars
  <1> SUFFICES ASSUME HInv, [Next]_vars
               PROVE  ClientProved!Next \/ UNCHANGED ClientProved!clientVars
    OBVIOUS
  <1>1. CASE UNCHANGED vars
    BY <1>1 DEF vars, clientVars, ClientProved!clientVars
  <1>2. CASE Use
    BY <1>2, SameClient DEF Use, ClientProved!Next
  <1>3. ASSUME NEW c \in Calls, Receive(c) \/ Disconnect(c) PROVE ClientProved!Next
    <2>1. PICK reply \in ClientProved!Replies : Client!Reply(c, reply)
      BY <1>3, ReceiveHeard DEF Disconnect, ClientProved!Replies
    <2>2. QED
      BY <2>1, SameClient DEF ClientProved!Next, ClientProved!ReplyArrives
  <1>4. ASSUME NEW c \in Calls, Serve(c) \/ Speak(c) \/ EndMethod(c)
        PROVE  UNCHANGED ClientProved!clientVars
    BY <1>4 DEF Serve, Speak, EndMethod, clientVars, ClientProved!clientVars
  <1>5. QED
    BY <1>1, <1>2, <1>3, <1>4 DEF Next

\* The clients of the composition behave as ClientCall says.
THEOREM ClientImplemented == Spec => ClientProved!Spec
  <1>1. Init => ClientProved!Init
    BY DEF Init, Client!Init, ClientProved!Init
  <1>2. QED
    BY <1>1, ClientStep, Inductive, PTL DEF Spec, ClientProved!Spec
=============================================================================
