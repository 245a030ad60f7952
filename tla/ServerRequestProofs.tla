------------------------ MODULE ServerRequestProofs ------------------------
(***************************************************************************)
(* Proofs about ServerRequest, for any set of requests and of Fault        *)
(* objects and any bound on callback calls.                                *)
(***************************************************************************)
EXTENDS ServerRequest, SequenceTheorems, TLAPS

\* How many replies a request may have while a callback could still answer it.
Before(r) == IF raised[r] THEN 1 ELSE 0

\* What holds of each request between two steps: before its method is over no
\* exception came out of it; nothing is handled before _executeMethod runs; a
\* handled request has a reply, or its answer could not be serialised; a request
\* that the callback may still answer has no reply, but the one of an exception;
\* and the bound on all replies.
Local(r) ==
  /\ pc[r] # "returned" => ~raised[r]
  /\ pc[r] \in {"idle", "receiving", "process", "execute"} => ~handled[r]
  /\ handled[r] => spoiled[r] \/ Len(replies[r]) > 0
  /\ /\ ~handled[r]
     /\ pc[r] # "closed"
     /\ pc[r] = "returned" => kind[r].lookup = "found"
     => Len(replies[r]) <= Before(r)
  /\ Len(replies[r]) <= (IF raised[r] THEN 2 ELSE 1)

\* The inductive invariant.
IInv == TypeOK /\ \A r \in Requests : Local(r)

\* The initial states satisfy the inductive invariant.
LEMMA InitIInv == Init => IInv
  <1> SUFFICES ASSUME Init PROVE IInv
    OBVIOUS
  <1>1. TypeOK
    BY ServerAssumption DEF Init, TypeOK, Phases
  <1>2. ASSUME NEW r \in Requests PROVE Local(r)
    <2>1. Len(replies[r]) = 0
      BY DEF Init
    <2>2. pc[r] = "idle" /\ ~handled[r] /\ ~raised[r]
      BY DEF Init
    <2>3. QED
      BY <2>1, <2>2 DEF Local, Before
  <1>3. QED
    BY <1>1, <1>2 DEF IInv

\* A step that changes the state of one request only has to re-establish what
\* holds of that request.
LEMMA FrameLemma ==
  ASSUME IInv, NEW r \in Requests, TypeOK', Local(r)',
         \A q \in Requests \ {r} :
           /\ pc'[q] = pc[q]
           /\ kind'[q] = kind[q]
           /\ handled'[q] = handled[q]
           /\ raised'[q] = raised[q]
           /\ spoiled'[q] = spoiled[q]
           /\ replies'[q] = replies[q]
  PROVE  IInv'
  <1>1. ASSUME NEW q \in Requests \ {r} PROVE Local(q)'
    BY <1>1 DEF IInv, Local, Before
  <1>2. QED
    BY <1>1 DEF IInv

\* Appending a reply keeps the sequences of replies well typed and makes one
\* of them longer.
LEMMA ReplyLemma ==
  ASSUME NEW r \in Requests, NEW body \in Bodies, NEW status \in Nat \ {0},
         replies \in [Requests -> Seq(Replies)],
         Reply(r, body, status)
  PROVE  /\ replies' \in [Requests -> Seq(Replies)]
         /\ Len(replies'[r]) = Len(replies[r]) + 1
         /\ \A q \in Requests \ {r} : replies'[q] = replies[q]
  <1> DEFINE entry == [body |-> body, status |-> status]
  <1>1. entry \in Replies
    BY DEF Replies
  <1>2. replies[r] \in Seq(Replies)
    OBVIOUS
  <1> HIDE DEF entry
  <1>3. /\ Append(replies[r], entry) \in Seq(Replies)
        /\ Len(Append(replies[r], entry)) = Len(replies[r]) + 1
    BY <1>1, <1>2
  <1>4. replies' = [replies EXCEPT ![r] = Append(replies[r], entry)]
    BY DEF Reply, entry
  <1>5. QED
    BY <1>3, <1>4

\* The status that the reply before has left is one.
LEMMA StatusLemma ==
  ASSUME NEW r \in Requests, TypeOK
  PROVE  StatusLeft(r) \in Nat \ {0}
  <1>1. CASE uncaught[r] \/ replies[r] = <<>>
    BY <1>1 DEF StatusLeft
  <1>2. CASE ~uncaught[r] /\ replies[r] # <<>>
    <2>1. replies[r] \in Seq(Replies)
      BY DEF TypeOK
    <2>2. replies[r][Len(replies[r])] \in Replies
      BY <1>2, <2>1
    <2>3. QED
      BY <1>2, <2>2 DEF StatusLeft, Replies
  <1>3. QED
    BY <1>1, <1>2

\* The same for the reply that stands for a value a service said.
LEMMA AnswerLemma ==
  ASSUME NEW r \in Requests, NEW v \in Said, TypeOK, Answer(r, v)
  PROVE  /\ replies' \in [Requests -> Seq(Replies)]
         /\ Len(replies'[r]) = Len(replies[r]) + 1
         /\ \A q \in Requests \ {r} : replies'[q] = replies[q]
  <1>1. CASE v.is = "fault"
    <2>1. v \in FaultValues
      BY <1>1 DEF Said, Plain
    <2>2. FaultCode(v.fault) \in Nat \ {0}
      BY <2>1 DEF FaultValues, FaultCode, TypeOK
    <2>3. FaultBody(v.fault) \in Bodies
      BY DEF FaultBody, Bodies
    <2>4. Reply(r, FaultBody(v.fault), FaultCode(v.fault))
      BY <1>1 DEF Answer
    <2>5. QED
      BY <2>2, <2>3, <2>4, ReplyLemma DEF TypeOK
  <1>2. CASE v.is # "fault"
    <2>1. Reply(r, "result", StatusLeft(r))
      BY <1>2 DEF Answer
    <2>2. QED
      BY <2>1, StatusLemma, ReplyLemma DEF TypeOK, Bodies
  <1>3. QED
    BY <1>1, <1>2

\* Taking the status code out of a Fault object keeps the codes numbers.
LEMMA TakeCodeLemma ==
  ASSUME NEW v \in Said \cup Thrown, TypeOK, TakeCode(v)
  PROVE  code' \in [Faults -> Nat]
  <1>1. CASE v.is = "fault"
    <2>1. v \in FaultValues
      BY <1>1 DEF Said, Thrown, Plain
    <2>2. v.fault \in Faults
      BY <2>1 DEF FaultValues
    <2>3. QED
      BY <1>1, <2>2 DEF TakeCode, TypeOK
  <1>2. CASE v.is # "fault"
    BY <1>2 DEF TakeCode, TypeOK
  <1>3. QED
    BY <1>1, <1>2


\* Steps of the listener, the `end' event and _process.
LEMMA ListenIInv ==
  ASSUME IInv, NEW r \in Requests, Listen(r)
  PROVE  IInv'
  <1> USE DEF IInv
  <1>1. Len(replies[r]) = 0 /\ ~handled[r] /\ ~raised[r]
    <2>1. ~handled[r] /\ ~raised[r] /\ Len(replies[r]) <= 0
      BY DEF Listen, Local, Before
    <2>2. Len(replies[r]) \in Nat
      BY DEF TypeOK
    <2>3. QED
      BY <2>1, <2>2
  <1>2. \/ UNCHANGED replies /\ pc'[r] \in {"foreign", "receiving"}
        \/ \E body \in Bodies, status \in Nat \ {0} :
             Reply(r, body, status) /\ pc'[r] = "closed"
    BY DEF Listen, TypeOK, Goto, Bodies
  <1>3. /\ replies' \in [Requests -> Seq(Replies)]
        /\ \A q \in Requests \ {r} : replies'[q] = replies[q]
        /\ Len(replies'[r]) <= 1
        /\ pc'[r] # "closed" => Len(replies'[r]) = 0
    BY <1>1, <1>2, ReplyLemma DEF TypeOK
  <1>4. /\ pc' \in [Requests -> Phases]
        /\ pc'[r] \in {"foreign", "closed", "receiving"}
        /\ \A q \in Requests \ {r} : pc'[q] = pc[q]
    BY DEF Listen, TypeOK, Goto, Phases
  <1>5. TypeOK'
    BY <1>3, <1>4 DEF Listen, TypeOK
  <1>6. Local(r)'
    BY <1>1, <1>3, <1>4 DEF Listen, Local, Before
  <1>7. QED
    BY <1>3, <1>4, <1>5, <1>6, FrameLemma DEF Listen

\* The data of a request has come to its end.
LEMMA EndIInv ==
  ASSUME IInv, NEW r \in Requests, End(r)
  PROVE  IInv'
  <1> USE DEF IInv
  <1>1. /\ pc' \in [Requests -> Phases]
        /\ pc'[r] = "process"
        /\ \A q \in Requests \ {r} : pc'[q] = pc[q]
    BY DEF End, TypeOK, Goto, Phases
  <1>2. TypeOK'
    BY <1>1 DEF End, TypeOK
  <1>3. Local(r)'
    BY <1>1 DEF End, Local, Before
  <1>4. QED
    BY <1>1, <1>2, <1>3, FrameLemma DEF End

\* The catch clause adds one reply and ends the turn.
LEMMA CatchLemma ==
  ASSUME NEW r \in Requests, TypeOK, Catch(r)
  PROVE  /\ replies' \in [Requests -> Seq(Replies)]
         /\ Len(replies'[r]) = Len(replies[r]) + 1
         /\ pc' \in [Requests -> Phases]
         /\ pc'[r] = "returned"
         /\ turn' = NoRequest
         /\ \A q \in Requests \ {r} : replies'[q] = replies[q] /\ pc'[q] = pc[q]
  BY ReplyLemma DEF Catch, TypeOK, Goto, Phases, Bodies

\* The service and the operation of a request are looked up.
LEMMA ProcessIInv ==
  ASSUME IInv, NEW r \in Requests, Process(r)
  PROVE  IInv'
  <1> USE DEF IInv
  <1>1. Len(replies[r]) = 0 /\ ~handled[r] /\ ~raised[r]
    <2>1. ~handled[r] /\ ~raised[r] /\ Len(replies[r]) <= 0
      BY DEF Process, Local, Before
    <2>2. Len(replies[r]) \in Nat
      BY DEF TypeOK
    <2>3. QED
      BY <2>1, <2>2
  <1>2. CASE kind[r].lookup = "raises" /\ Catch(r)
    <2>1. TypeOK'
      BY <1>2, CatchLemma DEF Process, TypeOK
    <2>2. Local(r)'
      BY <1>1, <1>2, CatchLemma DEF Process, Local, Before
    <2>3. QED
      BY <1>2, <2>1, <2>2, CatchLemma, FrameLemma DEF Process
  <1>3. CASE Goto(r, "execute") /\ UNCHANGED <<turn, replies>>
    <2>1. /\ pc' \in [Requests -> Phases]
          /\ pc'[r] = "execute"
          /\ \A q \in Requests \ {r} : pc'[q] = pc[q]
      BY <1>3 DEF TypeOK, Goto, Phases
    <2>2. TypeOK'
      BY <1>3, <2>1 DEF Process, TypeOK
    <2>3. Local(r)'
      BY <1>1, <1>3, <2>1 DEF Process, Local, Before
    <2>4. QED
      BY <1>3, <2>1, <2>2, <2>3, FrameLemma DEF Process
  <1>4. QED
    BY <1>2, <1>3 DEF Process

\* The number of replies is a natural number.
LEMMA LenLemma ==
  ASSUME TypeOK, NEW r \in Requests
  PROVE  Len(replies[r]) \in Nat
  BY DEF TypeOK

\* The method is called; a one-way operation is answered before.
LEMMA ExecuteIInv ==
  ASSUME IInv, NEW r \in Requests, Execute(r)
  PROVE  IInv'
  <1> USE DEF IInv
  <1> DEFINE empty == [body |-> "empty", status |-> 200]
             stack == [body |-> "stack", status |-> 500]
             early == IF kind[r].oneWay THEN <<empty>> ELSE <<>>
  <1>1. Len(replies[r]) = 0 /\ ~handled[r] /\ ~raised[r]
    BY LenLemma DEF Execute, Local, Before
  <1>2. replies[r] = <<>>
    BY <1>1 DEF TypeOK
  <1>3. empty \in Replies /\ stack \in Replies
    BY DEF Replies, Bodies
  <1>4. kind[r].oneWay \in BOOLEAN
    BY DEF TypeOK, Kinds
  <1>5. CASE kind[r].lookup = "noService"
    <2>1. Catch(r) /\ UNCHANGED <<handled, raised>>
      BY <1>5 DEF Execute
    <2>2. TypeOK'
      BY <2>1, CatchLemma DEF Execute, TypeOK
    <2>3. Local(r)'
      BY <1>1, <1>5, <2>1, CatchLemma DEF Execute, Local, Before
    <2>4. QED
      BY <2>1, <2>2, <2>3, CatchLemma, FrameLemma DEF Execute
  <1>6. CASE kind[r].lookup = "noMethod"
    <2>1. /\ handled' = [handled EXCEPT ![r] = kind[r].oneWay]
          /\ raised' = [raised EXCEPT ![r] = TRUE]
          /\ replies' = [replies EXCEPT ![r] = @ \o early \o <<stack>>]
          /\ Goto(r, "returned")
          /\ turn' = NoRequest
      BY <1>6 DEF Execute
    <2>2. /\ replies'[r] \in Seq(Replies)
          /\ Len(replies'[r]) = IF kind[r].oneWay THEN 2 ELSE 1
      <3>1. replies'[r] = replies[r] \o early \o <<stack>>
        <4> HIDE DEF early, stack
        <4>1. QED
          BY <2>1 DEF TypeOK
      <3>2. early \in Seq(Replies) /\ Len(early) = IF kind[r].oneWay THEN 1 ELSE 0
        <4> HIDE DEF empty
        <4>1. QED
          BY <1>3, <1>4
      <3>3. <<stack>> \in Seq(Replies) /\ Len(<<stack>>) = 1
        <4> HIDE DEF stack
        <4>1. QED
          BY <1>3
      <3> DEFINE last == <<stack>>
      <3>4. last \in Seq(Replies) /\ Len(last) = 1 /\ replies'[r] = replies[r] \o early \o last
        BY <3>1, <3>3
      <3> HIDE DEF early, last
      <3>5. replies[r] \in Seq(Replies)
        BY DEF TypeOK
      <3>6. /\ replies[r] \o early \in Seq(Replies)
            /\ Len(replies[r] \o early) = Len(replies[r]) + Len(early)
        BY <3>2, <3>5, ConcatProperties
      <3>7. /\ (replies[r] \o early) \o last \in Seq(Replies)
            /\ Len((replies[r] \o early) \o last) = Len(replies[r] \o early) + Len(last)
        BY <3>4, <3>6, ConcatProperties
      <3>8. Len(replies'[r]) = Len(early) + 1
        BY <1>1, <3>2, <3>4, <3>6, <3>7
      <3>9. QED
        BY <1>4, <3>2, <3>4, <3>7, <3>8
    <2>3. /\ replies' \in [Requests -> Seq(Replies)]
          /\ \A q \in Requests \ {r} : replies'[q] = replies[q]
      BY <2>1, <2>2 DEF TypeOK
    <2>4. /\ pc' \in [Requests -> Phases]
          /\ pc'[r] = "returned"
          /\ \A q \in Requests \ {r} : pc'[q] = pc[q]
      BY <2>1 DEF TypeOK, Goto, Phases
    <2>5. TypeOK'
      BY <1>4, <2>1, <2>3, <2>4 DEF Execute, TypeOK
    <2>6. Local(r)'
      BY <1>4, <1>6, <2>1, <2>2, <2>4 DEF Execute, TypeOK, Local, Before
    <2>7. QED
      BY <2>1, <2>3, <2>4, <2>5, <2>6, FrameLemma DEF Execute, TypeOK
  <1>7. CASE kind[r].lookup = "found"
    <2>1. /\ handled' = [handled EXCEPT ![r] = kind[r].oneWay]
          /\ replies' = [replies EXCEPT ![r] = @ \o early]
          /\ Goto(r, "service")
          /\ UNCHANGED <<turn, raised>>
      BY <1>7 DEF Execute
    <2>2. /\ replies'[r] \in Seq(Replies)
          /\ Len(replies'[r]) = IF kind[r].oneWay THEN 1 ELSE 0
      <3>1. replies'[r] = early
        <4>1. replies'[r] = <<>> \o early
          BY <1>2, <2>1 DEF TypeOK
        <4> HIDE DEF empty
        <4>2. QED
          BY <1>3, <1>4, <4>1
      <3> HIDE DEF empty
      <3>2. QED
        BY <1>3, <3>1
    <2>3. /\ replies' \in [Requests -> Seq(Replies)]
          /\ \A q \in Requests \ {r} : replies'[q] = replies[q]
      BY <2>1, <2>2 DEF TypeOK
    <2>4. /\ pc' \in [Requests -> Phases]
          /\ pc'[r] = "service"
          /\ \A q \in Requests \ {r} : pc'[q] = pc[q]
      BY <2>1 DEF TypeOK, Goto, Phases
    <2>5. TypeOK'
      BY <1>4, <2>1, <2>3, <2>4 DEF Execute, TypeOK
    <2>6. Local(r)'
      BY <1>1, <1>4, <2>1, <2>2, <2>4 DEF TypeOK, Local, Before
    <2>7. QED
      BY <2>1, <2>3, <2>4, <2>5, <2>6, FrameLemma DEF Execute, TypeOK
  <1>8. QED
    BY <1>5, <1>6, <1>7 DEF Execute

\* handleResult without an exception: the request is handled, and has one more
\* reply only if it was not handled before.
LEMMA ResultLemma ==
  ASSUME NEW r \in Requests, NEW v \in Said, TypeOK, Ignore(r) \/ Deliver(r, v)
  PROVE  /\ handled' \in [Requests -> BOOLEAN]
         /\ handled'[r]
         /\ replies' \in [Requests -> Seq(Replies)]
         /\ code' \in [Faults -> Nat]
         /\ handled[r] => Len(replies'[r]) = Len(replies[r])
         /\ ~handled[r] => Len(replies'[r]) = Len(replies[r]) + 1
         /\ \A q \in Requests \ {r} :
              handled'[q] = handled[q] /\ replies'[q] = replies[q]
  <1>1. CASE Ignore(r)
    BY <1>1, LenLemma DEF Ignore, TypeOK
  <1>2. CASE Deliver(r, v)
    BY <1>2, AnswerLemma, TakeCodeLemma DEF Deliver, MarkHandled, TypeOK
  <1>3. QED
    BY <1>1, <1>2

\* handleResult with an exception: the request is handled, nothing is written.
LEMMA SpoilLemma ==
  ASSUME NEW r \in Requests, NEW v \in Said, TypeOK, Spoil(r, v)
  PROVE  /\ handled' \in [Requests -> BOOLEAN]
         /\ ~handled[r] /\ handled'[r]
         /\ spoiled' \in [Requests -> BOOLEAN]
         /\ spoiled'[r]
         /\ code' \in [Faults -> Nat]
         /\ \A q \in Requests \ {r} :
              handled'[q] = handled[q] /\ spoiled'[q] = spoiled[q]
  BY TakeCodeLemma DEF Spoil, MarkHandled, TypeOK

\* Counting a call of the callback stays within the bound.
LEMMA CountLemma ==
  ASSUME NEW r \in Requests, TypeOK, CountCall(r)
  PROVE  calls' \in [Requests -> 0..MaxCalls]
  BY ServerAssumption DEF CountCall, TypeOK

\* The callback inside the turn of the method.
LEMMA CallBackIInv ==
  ASSUME IInv, NEW r \in Requests, NEW v \in Said, CallBack(r, v)
  PROVE  IInv'
  <1> USE DEF IInv
  <1>1. ~raised[r] /\ (~handled[r] => Len(replies[r]) <= 0) /\ Len(replies[r]) <= 1
    BY DEF CallBack, Local, Before
  <1>2. calls' \in [Requests -> 0..MaxCalls]
    BY CountLemma DEF CallBack
  <1>3. CASE (Ignore(r) \/ Deliver(r, v)) /\ UNCHANGED <<turn, pc, raised, spoiled>>
    <2>1. TypeOK'
      BY <1>2, <1>3, ResultLemma DEF CallBack, TypeOK
    <2>2. Local(r)'
      <3>1. Len(replies'[r]) <= 1
        BY <1>1, <1>3, LenLemma, ResultLemma
      <3>2. handled'[r] /\ pc'[r] = "service" /\ ~raised'[r]
        BY <1>1, <1>3, ResultLemma DEF CallBack
      <3>3. spoiled'[r] \/ Len(replies'[r]) > 0
        <4>1. handled[r] => spoiled[r] \/ Len(replies[r]) > 0
          BY DEF Local
        <4>2. QED
          BY <1>3, <4>1, LenLemma, ResultLemma
      <3>4. QED
        BY <3>1, <3>2, <3>3 DEF Local, Before
    <2>3. QED
      BY <1>3, <2>1, <2>2, ResultLemma, FrameLemma DEF CallBack
  <1>4. CASE Spoil(r, v) /\ UNCHANGED <<turn, pc, replies, raised>>
    <2>1. TypeOK'
      BY <1>2, <1>4, SpoilLemma DEF CallBack, TypeOK
    <2>2. Local(r)'
      BY <1>1, <1>4, SpoilLemma DEF CallBack, Local, Before
    <2>3. QED
      BY <1>4, <2>1, <2>2, SpoilLemma, FrameLemma DEF CallBack
  <1>5. CASE /\ Spoil(r, v)
             /\ raised' = [raised EXCEPT ![r] = TRUE]
             /\ Catch(r)
    <2>1. TypeOK'
      BY <1>2, <1>5, SpoilLemma, CatchLemma DEF CallBack, TypeOK
    <2>2. raised'[r] /\ Len(replies'[r]) <= 1
      <3>1. Len(replies[r]) <= 0
        BY <1>1, <1>5, SpoilLemma
      <3>2. Len(replies'[r]) <= 1
        BY <1>5, <3>1, LenLemma, CatchLemma
      <3>3. QED
        BY <1>5, <3>2 DEF TypeOK
    <2>3. Local(r)'
      BY <1>5, <2>2, SpoilLemma, CatchLemma DEF Local, Before
    <2>4. QED
      BY <1>5, <2>1, <2>3, SpoilLemma, CatchLemma, FrameLemma DEF CallBack, TypeOK
  <1>6. QED
    BY <1>3, <1>4, <1>5 DEF CallBack

\* The method comes back without a result.
LEMMA ReturnNothingIInv ==
  ASSUME IInv, NEW r \in Requests, ReturnNothing(r)
  PROVE  IInv'
  <1> USE DEF IInv
  <1>1. /\ pc' \in [Requests -> Phases]
        /\ pc'[r] = "returned"
        /\ \A q \in Requests \ {r} : pc'[q] = pc[q]
    BY DEF ReturnNothing, TypeOK, Goto, Phases
  <1>2. TypeOK'
    BY <1>1 DEF ReturnNothing, TypeOK
  <1>3. Local(r)'
    BY <1>1 DEF ReturnNothing, Local, Before
  <1>4. QED
    BY <1>1, <1>2, <1>3, FrameLemma DEF ReturnNothing

\* The method comes back with a result.
LEMMA ReturnValueIInv ==
  ASSUME IInv, NEW r \in Requests, NEW v \in Plain, ReturnValue(r, v)
  PROVE  IInv'
  <1> USE DEF IInv
  <1>1. ~raised[r] /\ (~handled[r] => Len(replies[r]) <= 0) /\ Len(replies[r]) <= 1
    BY DEF ReturnValue, Local, Before
  <1>2. v \in Said
    BY DEF Said
  <1>3. CASE /\ Ignore(r) \/ Deliver(r, v)
             /\ turn' = NoRequest
             /\ Goto(r, "returned")
             /\ UNCHANGED spoiled
    <2>1. /\ pc' \in [Requests -> Phases]
          /\ pc'[r] = "returned"
          /\ \A q \in Requests \ {r} : pc'[q] = pc[q]
      BY <1>3 DEF TypeOK, Goto, Phases
    <2>2. TypeOK'
      BY <1>2, <1>3, <2>1, ResultLemma DEF ReturnValue, TypeOK
    <2>3. Local(r)'
      <3>1. Len(replies'[r]) <= 1
        BY <1>1, <1>2, <1>3, LenLemma, ResultLemma
      <3>2. handled'[r] /\ ~raised'[r]
        BY <1>1, <1>2, <1>3, ResultLemma DEF ReturnValue
      <3>3. spoiled'[r] \/ Len(replies'[r]) > 0
        BY <1>2, <1>3, LenLemma, ResultLemma DEF Local
      <3>4. QED
        BY <2>1, <3>1, <3>2, <3>3 DEF Local, Before
    <2>4. QED
      BY <1>2, <1>3, <2>1, <2>2, <2>3, ResultLemma, FrameLemma DEF ReturnValue
  <1>4. CASE Spoil(r, v) /\ Catch(r)
    <2>1. TypeOK'
      BY <1>2, <1>4, SpoilLemma, CatchLemma DEF ReturnValue, TypeOK
    <2>2. /\ Len(replies'[r]) <= 1
          /\ handled'[r] /\ spoiled'[r] /\ pc'[r] = "returned"
      BY <1>1, <1>2, <1>4, LenLemma, SpoilLemma, CatchLemma
    <2>3. Local(r)'
      BY <1>1, <2>2 DEF ReturnValue, Local, Before
    <2>4. QED
      BY <1>2, <1>4, <2>1, <2>3, SpoilLemma, CatchLemma, FrameLemma DEF ReturnValue
  <1>5. QED
    BY <1>3, <1>4 DEF ReturnValue

\* An exception inside the try block of _process adds at most one reply and
\* ends the turn.
LEMMA LeaveLemma ==
  ASSUME NEW r \in Requests, NEW v \in Thrown, TypeOK, Leave(r, v)
  PROVE  /\ replies' \in [Requests -> Seq(Replies)]
         /\ Len(replies'[r]) \in {Len(replies[r]), Len(replies[r]) + 1}
         /\ pc' \in [Requests -> Phases]
         /\ pc'[r] = "returned"
         /\ turn' = NoRequest
         /\ uncaught' \in [Requests -> BOOLEAN]
         /\ code' \in [Faults -> Nat]
         /\ \A q \in Requests \ {r} : replies'[q] = replies[q] /\ pc'[q] = pc[q]
  <1>1. /\ pc' \in [Requests -> Phases]
        /\ pc'[r] = "returned"
        /\ \A q \in Requests \ {r} : pc'[q] = pc[q]
    BY DEF Leave, TypeOK, Goto, Phases
  <1>2. /\ replies' \in [Requests -> Seq(Replies)]
        /\ Len(replies'[r]) \in {Len(replies[r]), Len(replies[r]) + 1}
        /\ \A q \in Requests \ {r} : replies'[q] = replies[q]
    <2>1. CASE v.is = "fault" /\ v.ok /\ Answer(r, v)
      <3>1. v \in Said
        BY <2>1 DEF Thrown, Said
      <3>2. QED
        BY <2>1, <3>1, AnswerLemma
    <2>2. CASE Reply(r, "stack", 500)
      BY <2>2, ReplyLemma DEF TypeOK, Bodies
    <2>3. CASE UNCHANGED replies
      BY <2>3 DEF TypeOK
    <2>4. QED
      BY <2>1, <2>2, <2>3 DEF Leave
  <1>3. code' \in [Faults -> Nat]
    BY TakeCodeLemma DEF Leave, TypeOK
  <1>4. uncaught' \in [Requests -> BOOLEAN]
    BY DEF Leave, TypeOK
  <1>5. turn' = NoRequest
    BY DEF Leave
  <1>6. QED
    BY <1>1, <1>2, <1>3, <1>4, <1>5

\* The method throws.
LEMMA ThrowIInv ==
  ASSUME IInv, NEW r \in Requests, NEW v \in Thrown, Throw(r, v)
  PROVE  IInv'
  <1> USE DEF IInv
  <1>1. Len(replies[r]) <= 1
    BY DEF Throw, Local
  <1>2. /\ raised' \in [Requests -> BOOLEAN]
        /\ raised'[r]
        /\ \A q \in Requests \ {r} : raised'[q] = raised[q]
    BY DEF Throw, TypeOK
  <1>3. Leave(r, v)
    BY DEF Throw
  <1>4. TypeOK'
    BY <1>2, <1>3, LeaveLemma DEF Throw, TypeOK
  <1>5. Len(replies'[r]) <= 2
    BY <1>1, <1>3, LenLemma, LeaveLemma
  <1>6. Local(r)'
    <2>1. ~handled[r] => Len(replies[r]) <= 0
      BY DEF Throw, Local, Before
    <2>2. ~handled'[r] => Len(replies'[r]) <= 1
      BY <1>3, <2>1, LenLemma, LeaveLemma DEF Throw
    <2>3. handled'[r] => spoiled'[r] \/ Len(replies'[r]) > 0
      <3>1. handled[r] => spoiled[r] \/ Len(replies[r]) > 0
        BY DEF Local
      <3>2. Len(replies'[r]) >= Len(replies[r])
        BY <1>3, LenLemma, LeaveLemma
      <3>3. QED
        BY <3>1, <3>2, <1>3, LenLemma, LeaveLemma DEF Throw
    <2>4. QED
      BY <1>2, <1>3, <1>5, <2>2, <2>3, LeaveLemma DEF Local, Before
  <1>7. QED
    BY <1>2, <1>3, <1>4, <1>6, LeaveLemma, FrameLemma DEF Throw

\* A listener throws: nothing was replied before, and no callback exists.
LEMMA ListenerThrowIInv ==
  ASSUME IInv, NEW r \in Requests, NEW v \in Thrown, ListenerThrow(r, v)
  PROVE  IInv'
  <1> USE DEF IInv
  <1>1. Len(replies[r]) = 0 /\ ~handled[r] /\ ~raised[r]
    BY LenLemma DEF ListenerThrow, Local, Before
  <1>2. Leave(r, v)
    BY DEF ListenerThrow
  <1>3. TypeOK'
    BY <1>2, LeaveLemma DEF ListenerThrow, TypeOK
  <1>4. Len(replies'[r]) <= 1
    BY <1>1, <1>2, LeaveLemma
  <1>5. Local(r)'
    BY <1>1, <1>2, <1>4, LeaveLemma DEF ListenerThrow, Local
  <1>6. QED
    BY <1>2, <1>3, <1>5, LeaveLemma, FrameLemma DEF ListenerThrow

\* The callback in a later turn.
LEMMA CallBackLaterIInv ==
  ASSUME IInv, NEW r \in Requests, NEW v \in Said, CallBackLater(r, v)
  PROVE  IInv'
  <1> USE DEF IInv
  <1>1. /\ ~handled[r] => Len(replies[r]) <= Before(r)
        /\ Len(replies[r]) <= (IF raised[r] THEN 2 ELSE 1)
    BY DEF CallBackLater, Local
  <1>2. calls' \in [Requests -> 0..MaxCalls]
    BY CountLemma DEF CallBackLater
  <1>3. CASE (Ignore(r) \/ Deliver(r, v)) /\ UNCHANGED <<spoiled, uncaught>>
    <2>1. TypeOK'
      BY <1>2, <1>3, ResultLemma DEF CallBackLater, TypeOK
    <2>2. Len(replies'[r]) <= (IF raised[r] THEN 2 ELSE 1)
      <3>1. CASE handled[r]
        BY <1>1, <1>3, <3>1, LenLemma, ResultLemma
      <3>2. CASE ~handled[r]
        BY <1>1, <1>3, <3>2, LenLemma, ResultLemma DEF Before
      <3>3. QED
        BY <3>1, <3>2
    <2>3. handled'[r] /\ pc'[r] = "returned" /\ raised'[r] = raised[r]
      BY <1>3, ResultLemma DEF CallBackLater
    <2>4. spoiled'[r] \/ Len(replies'[r]) > 0
      <3>1. handled[r] => spoiled[r] \/ Len(replies[r]) > 0
        BY DEF Local
      <3>2. CASE handled[r]
        BY <1>3, <3>1, <3>2, LenLemma, ResultLemma
      <3>3. CASE ~handled[r]
        BY <1>3, <3>3, LenLemma, ResultLemma
      <3>4. QED
        BY <3>2, <3>3
    <2>5. Local(r)'
      BY <2>2, <2>3, <2>4 DEF Local, Before
    <2>6. QED
      BY <1>3, <2>1, <2>5, ResultLemma, FrameLemma DEF CallBackLater
  <1>4. CASE /\ Spoil(r, v)
             /\ uncaught' = [uncaught EXCEPT ![r] = TRUE]
             /\ UNCHANGED replies
    <2>1. TypeOK'
      BY <1>2, <1>4, SpoilLemma DEF CallBackLater, TypeOK
    <2>2. Local(r)'
      BY <1>1, <1>4, SpoilLemma DEF CallBackLater, Local, Before
    <2>3. QED
      BY <1>4, <2>1, <2>2, SpoilLemma, FrameLemma DEF CallBackLater
  <1>5. QED
    BY <1>3, <1>4 DEF CallBackLater

\* Every step preserves the inductive invariant.
LEMMA NextIInv == IInv /\ [Next]_vars => IInv'
  <1> SUFFICES ASSUME IInv, [Next]_vars PROVE IInv'
    OBVIOUS
  <1>1. ASSUME NEW r \in Requests, Step(r) PROVE IInv'
    BY <1>1, ListenIInv, EndIInv, ProcessIInv, ExecuteIInv DEF Step
  <1>2. ASSUME NEW r \in Requests, Finish(r) PROVE IInv'
    BY <1>2, ReturnNothingIInv, ReturnValueIInv, ThrowIInv DEF Finish
  <1>3. ASSUME NEW r \in Requests, NEW v \in Said,
               CallBack(r, v) \/ CallBackLater(r, v)
        PROVE  IInv'
    BY <1>3, CallBackIInv, CallBackLaterIInv
  <1>4. ASSUME NEW r \in Requests, NEW v \in Thrown, ListenerThrow(r, v)
        PROVE  IInv'
    BY <1>4, ListenerThrowIInv
  <1>5. CASE UNCHANGED vars
    BY <1>5 DEF IInv, TypeOK, Local, Before, vars
  <1>6. QED
    BY <1>1, <1>2, <1>3, <1>4, <1>5 DEF Next

\* The inductive invariant holds in every reachable state.
THEOREM Inductive == Spec => []IInv
  BY InitIInv, NextIInv, PTL DEF Spec

\* The state that server.js keeps per request stays well typed, whatever the
\* services do.
THEOREM TypeCorrect == Spec => []TypeOK
  <1>1. IInv => TypeOK
    BY DEF IInv
  <1>2. QED
    BY <1>1, Inductive, PTL

\* A response is written at most once, or twice if an exception came out of the
\* call of the service method, for any number of requests and of callback calls.
THEOREM OneAnswerHolds == Spec => []OneAnswer
  <1>1. IInv => OneAnswer
    BY DEF IInv, Local, OneAnswer
  <1>2. QED
    BY <1>1, Inductive, PTL

\* A request whose method is done and which has no reply is open to a callback,
\* unless its answer could not be serialised: handleResult swallows no answer,
\* for any number of requests and of callback calls.
THEOREM StillAnswerableHolds == Spec => []StillAnswerable
  <1>1. ASSUME IInv, NEW r \in Requests, replies[r] = <<>>, ~spoiled[r]
        PROVE  ~handled[r]
    <2>1. Len(replies[r]) = 0
      BY <1>1
    <2>2. QED
      BY <1>1, <2>1 DEF IInv, Local
  <1>2. IInv => StillAnswerable
    BY <1>1 DEF StillAnswerable
  <1>3. QED
    BY <1>2, Inductive, PTL

\* A step that changes the replies of a handled request is its method throwing,
\* in its own turn.
LEMMA FinalStep ==
  ASSUME IInv, Next, NEW q \in Requests, handled[q], replies'[q] # replies[q]
  PROVE  raised'[q] /\ turn = q
  <1> USE DEF IInv
  <1>1. pc[q] \notin {"idle", "receiving", "process", "execute"}
    BY DEF Local
  <1>2. ASSUME NEW r \in Requests, Step(r) PROVE FALSE
    <2>1. pc[r] \in {"idle", "receiving", "process", "execute"}
      BY <1>2 DEF Step, Listen, End, Process, Execute
    <2>2. q # r
      BY <1>1, <2>1
    <2>3. replies'[q] = replies[q]
      BY <1>2, <2>2 DEF Step, Listen, End, Process, Execute, Catch, Reply, TypeOK
    <2>4. QED
      BY <2>3
  <1>3. ASSUME NEW r \in Requests, NEW v \in Said, Ignore(r) \/ Deliver(r, v)
        PROVE  FALSE
    <2>1. CASE r = q
      BY <1>3, <2>1 DEF Ignore, Deliver
    <2>2. CASE r # q
      BY <1>3, <2>2, ResultLemma
    <2>3. QED
      BY <2>1, <2>2
  <1>4. ASSUME NEW r \in Requests, NEW v \in Said, Spoil(r, v), Catch(r)
        PROVE  FALSE
    BY <1>4, CatchLemma DEF Spoil
  <1>5. ASSUME NEW r \in Requests, Finish(r)
        PROVE  raised'[q] /\ turn = q
    <2>1. ASSUME NEW v \in Plain, ReturnValue(r, v) PROVE FALSE
      BY <1>3, <1>4, <2>1 DEF ReturnValue, Said
    <2>2. ASSUME NEW v \in Thrown, Throw(r, v) PROVE raised'[q] /\ turn = q
      <3>1. replies'[q] = replies[q] \/ r = q
        BY <2>2, LeaveLemma DEF Throw
      <3>2. QED
        BY <2>2, <3>1 DEF Throw, TypeOK
    <2>3. QED
      BY <1>5, <2>1, <2>2 DEF Finish, ReturnNothing
  <1>6. ASSUME NEW r \in Requests, NEW v \in Said,
               CallBack(r, v) \/ CallBackLater(r, v)
        PROVE  FALSE
    BY <1>3, <1>4, <1>6 DEF CallBack, CallBackLater
  <1>7. ASSUME NEW r \in Requests, NEW v \in Thrown, ListenerThrow(r, v)
        PROVE  FALSE
    <2>1. r # q
      BY <1>1, <1>7 DEF ListenerThrow
    <2>2. QED
      BY <1>7, <2>1, LeaveLemma DEF ListenerThrow
  <1>8. QED
    BY <1>2, <1>5, <1>6, <1>7 DEF Next

\* Once a request is handled, no callback of its service, early or late, writes
\* another reply: only an exception in its own turn does.
THEOREM HandledIsFinalHolds == Spec => HandledIsFinal
  <1>1. IInv /\ [Next]_vars =>
          [\A r \in Requests :
             handled[r] /\ replies'[r] # replies[r] => raised'[r] /\ turn = r]_vars
    BY FinalStep DEF vars
  <1>2. QED
    BY <1>1, Inductive, PTL DEF Spec, HandledIsFinal

---------------------------------------------------------------------------
(* One-way operations.                                                     *)

Acknowledged == <<[body |-> "empty", status |-> 200]>>

\* What makes OneWayIsEmpty inductive: from the call of its method on, a one-way
\* operation is handled, which closes every way of answering but an exception.
OneWay(r) ==
  /\ kind[r].oneWay /\ kind[r].lookup = "found"
  /\ pc[r] \in {"service", "returned"}
  => handled[r] /\ (~raised[r] => replies[r] = Acknowledged)

OneWayInv == IInv /\ \A r \in Requests : OneWay(r)

\* A request that a step leaves alone keeps its part of the invariant.
LEMMA OneWayFrame ==
  ASSUME NEW q \in Requests, OneWay(q),
         pc'[q] = pc[q] \/ pc'[q] \notin {"service", "returned"},
         kind'[q] = kind[q], handled'[q] = handled[q],
         raised'[q] = raised[q], replies'[q] = replies[q]
  PROVE  OneWay(q)'
  BY DEF OneWay

\* handleResult does nothing for a request that is handled.
LEMMA HandledResult ==
  ASSUME NEW r \in Requests, NEW v \in Said, handled[r],
         Ignore(r) \/ Deliver(r, v) \/ Spoil(r, v)
  PROVE  UNCHANGED <<handled, replies>>
  BY DEF Ignore, Deliver, Spoil

\* handleResult leaves the other requests alone.
LEMMA OtherResult ==
  ASSUME NEW r \in Requests, NEW v \in Said, TypeOK,
         \/ Ignore(r) \/ Deliver(r, v)
         \/ Spoil(r, v) /\ (UNCHANGED replies \/ Catch(r)),
         NEW q \in Requests \ {r}
  PROVE  handled'[q] = handled[q] /\ replies'[q] = replies[q]
  BY ResultLemma, SpoilLemma, CatchLemma

\* The handlers: only _executeMethod brings a request with a service method to
\* that method, and it has acknowledged a one-way operation by then.
LEMMA OneWayStep ==
  ASSUME OneWayInv, NEW r \in Requests, Step(r)
  PROVE  OneWay(r)'
  <1> USE DEF OneWayInv, IInv
  <1>1. CASE Listen(r)
    <2>1. pc'[r] \in {"foreign", "closed", "receiving"}
      BY <1>1 DEF Listen, Goto, TypeOK
    <2>2. QED
      BY <2>1 DEF OneWay
  <1>2. CASE End(r)
    BY <1>2 DEF End, Goto, TypeOK, OneWay
  <1>3. CASE Process(r)
    BY <1>3 DEF Process, Catch, Goto, TypeOK, OneWay
  <1>4. CASE Execute(r) /\ kind[r].lookup # "found"
    BY <1>4 DEF Execute, OneWay
  <1>5. CASE Execute(r) /\ kind[r].lookup = "found"
    <2>1. replies[r] = <<>>
      <3>1. Len(replies[r]) = 0
        BY <1>5, LenLemma DEF Execute, Local, Before
      <3>2. QED
        BY <3>1 DEF TypeOK
    <2>2. ASSUME kind[r].oneWay
          PROVE  handled'[r] /\ replies'[r] = Acknowledged
      <3>1. /\ handled'[r] = kind[r].oneWay
            /\ replies'[r] = replies[r] \o Acknowledged
        BY <1>5, <2>2 DEF Execute, TypeOK, Acknowledged
      <3>2. Acknowledged \in Seq(Replies)
        BY DEF Acknowledged, Replies, Bodies
      <3>3. QED
        BY <2>1, <2>2, <3>1, <3>2
    <2>3. kind' = kind
      BY <1>5 DEF Execute
    <2>4. QED
      BY <2>2, <2>3 DEF OneWay
  <1>6. QED
    BY <1>1, <1>2, <1>3, <1>4, <1>5 DEF Step

\* The method: whatever it returns, a handled request keeps its one reply, and
\* an exception is recorded.
LEMMA OneWayFinish ==
  ASSUME OneWayInv, NEW r \in Requests, Finish(r)
  PROVE  OneWay(r)'
  <1> USE DEF OneWayInv, IInv
  <1>1. pc[r] = "service" /\ kind' = kind
    BY DEF Finish, ReturnNothing, ReturnValue, Throw
  <1>2. CASE ReturnNothing(r)
    BY <1>1, <1>2 DEF ReturnNothing, OneWay
  <1>3. ASSUME NEW v \in Plain, ReturnValue(r, v) PROVE OneWay(r)'
    <2>1. v \in Said
      BY DEF Said
    <2>2. CASE handled[r]
      <3>1. UNCHANGED <<handled, replies, raised>>
        BY <1>3, <2>1, <2>2, HandledResult DEF ReturnValue, Spoil
      <3>2. QED
        BY <1>1, <3>1 DEF OneWay
    <2>3. CASE ~handled[r]
      BY <1>1, <2>3 DEF OneWay
    <2>4. QED
      BY <2>2, <2>3
  <1>4. ASSUME NEW v \in Thrown, Throw(r, v) PROVE OneWay(r)'
    BY <1>1, <1>4 DEF Throw, OneWay, TypeOK
  <1>5. QED
    BY <1>2, <1>3, <1>4 DEF Finish

\* The callback, early or late: it is ignored.
LEMMA OneWayCallBack ==
  ASSUME OneWayInv, NEW r \in Requests, NEW v \in Said,
         CallBack(r, v) \/ CallBackLater(r, v)
  PROVE  OneWay(r)'
  <1> USE DEF OneWayInv, IInv
  <1>1. pc[r] \in {"service", "returned"} /\ kind' = kind
    BY DEF CallBack, CallBackLater
  <1>2. CASE handled[r]
    <2>1. UNCHANGED <<handled, replies, raised>>
      BY <1>2, HandledResult DEF CallBack, CallBackLater, Spoil
    <2>2. QED
      BY <1>1, <2>1 DEF OneWay
  <1>3. CASE ~handled[r]
    BY <1>1, <1>3 DEF OneWay
  <1>4. QED
    BY <1>2, <1>3

\* A listener is called on no way to a service method.
LEMMA OneWayListener ==
  ASSUME OneWayInv, NEW r \in Requests, NEW v \in Thrown, ListenerThrow(r, v)
  PROVE  OneWay(r)'
  BY DEF ListenerThrow, OneWay

\* No step of one request touches what is known of another.
LEMMA OneWayOther ==
  ASSUME OneWayInv, NEW r \in Requests, NEW q \in Requests \ {r},
         \/ Step(r) \/ Finish(r)
         \/ \E v \in Thrown : ListenerThrow(r, v)
         \/ \E v \in Said : CallBack(r, v) \/ CallBackLater(r, v)
  PROVE  OneWay(q)'
  <1> USE DEF OneWayInv, IInv
  <1>1. CASE Step(r)
    BY <1>1, OneWayFrame
       DEF Step, Listen, End, Process, Execute, Catch, Reply, Goto, TypeOK
  <1>2. ASSUME NEW v \in Plain, ReturnValue(r, v) PROVE OneWay(q)'
    <2>1. v \in Said
      BY DEF Said
    <2>2. handled'[q] = handled[q] /\ replies'[q] = replies[q]
      BY <1>2, <2>1, OtherResult DEF ReturnValue
    <2>3. QED
      BY <1>2, <2>2, OneWayFrame DEF ReturnValue, Catch, Goto, TypeOK
  <1>3. ASSUME NEW v \in Thrown, Throw(r, v) PROVE OneWay(q)'
    BY <1>3, LeaveLemma, OneWayFrame DEF Throw, TypeOK
  <1>4. CASE ReturnNothing(r)
    BY <1>4, OneWayFrame DEF ReturnNothing, Goto, TypeOK
  <1>5. ASSUME NEW v \in Said, CallBack(r, v) PROVE OneWay(q)'
    <2>1. handled'[q] = handled[q] /\ replies'[q] = replies[q]
      BY <1>5, OtherResult DEF CallBack
    <2>2. QED
      BY <1>5, <2>1, OneWayFrame DEF CallBack, Catch, Goto, TypeOK
  <1>6. ASSUME NEW v \in Said, CallBackLater(r, v) PROVE OneWay(q)'
    <2>1. handled'[q] = handled[q] /\ replies'[q] = replies[q]
      BY <1>6, OtherResult DEF CallBackLater
    <2>2. QED
      BY <1>6, <2>1, OneWayFrame DEF CallBackLater
  <1>7. ASSUME NEW v \in Thrown, ListenerThrow(r, v) PROVE OneWay(q)'
    BY <1>7, LeaveLemma, OneWayFrame DEF ListenerThrow
  <1>8. QED
    BY <1>1, <1>2, <1>3, <1>4, <1>5, <1>6, <1>7 DEF Finish

\* Once the method of a one-way operation runs, its empty 200 is the only reply,
\* unless the method throws: for any number of requests, and whatever the method
\* returns or passes to its callback.
THEOREM OneWayIsEmptyHolds == Spec => []OneWayIsEmpty
  <1>1. Init => OneWayInv
    BY InitIInv DEF Init, OneWay, OneWayInv
  <1>2. OneWayInv /\ [Next]_vars => OneWayInv'
    <2> SUFFICES ASSUME OneWayInv, [Next]_vars PROVE OneWayInv'
      OBVIOUS
    <2>1. IInv'
      BY NextIInv DEF OneWayInv
    <2>2. ASSUME Next, NEW q \in Requests PROVE OneWay(q)'
      <3>1. PICK r \in Requests :
              \/ Step(r) \/ Finish(r)
              \/ \E v \in Thrown : ListenerThrow(r, v)
              \/ \E v \in Said : CallBack(r, v) \/ CallBackLater(r, v)
        BY <2>2 DEF Next
      <3>2. CASE r = q
        BY <3>1, <3>2, OneWayStep, OneWayFinish, OneWayCallBack, OneWayListener
      <3>3. CASE r # q
        BY <3>1, <3>3, OneWayOther
      <3>4. QED
        BY <3>2, <3>3
    <2>3. ASSUME UNCHANGED vars, NEW q \in Requests PROVE OneWay(q)'
      BY <2>3, OneWayFrame DEF vars, OneWayInv
    <2>4. QED
      BY <2>1, <2>2, <2>3 DEF OneWayInv
  <1>3. OneWayInv => OneWayIsEmpty
    BY DEF OneWayInv, OneWay, OneWayIsEmpty, Acknowledged
  <1>4. QED
    BY <1>1, <1>2, <1>3, PTL DEF Spec
=============================================================================
