-------------------------- MODULE ClientCallProofs --------------------------
(***************************************************************************)
(* Proofs about ClientCall, for any set of clients, calls and headers and   *)
(* any bound on the SOAP headers of a client.                               *)
(***************************************************************************)
EXTENDS ClientCall, SequenceTheorems, TLAPS

PhasesOfCall == {"idle", "bound", "sent", "raised", "told", "lost"}

Methods == [client : Clients, location : Endpoints]

Outcomes == {"error", "response", "nothing", "result"}

Requests == [key : Keys \cup {None}, headers : SUBSET Headers, location : Endpoints]

\* The state that client.js and base.js keep is well typed.
TypeOK ==
  /\ wsdlKey \in Keys \cup {None}
  /\ ownKey \in [Clients -> Keys \cup {None}]
  /\ endpoint \in [Clients -> Endpoints]
  /\ soapHeaders \in [Clients -> Seq(Headers \cup {None})]
  /\ handed \in [Clients -> SUBSET (Nat \ {0})]
  /\ replaced \subseteq Clients
  /\ phase \in [Calls -> PhasesOfCall]
  /\ method \in [Calls -> Methods \cup {None}]
  /\ request \in [Calls -> Requests \cup {None}]
  /\ told \in [Calls -> Outcomes \cup {None}]
  /\ soapError \subseteq Calls

\* A call has a method of some client from its Bind on.
BoundHasMethod == \A c \in Calls : phase[c] # "idle" => method[c] \in Methods

\* The indexes that a client may use are those of its headers, and none of these
\* is a hole, as long as no call replaced the headers: with the typing alone
\* HeadersAreDense would not survive ChangeSoapHeader.
HandedAreIndexes ==
  \A k \in Clients \ replaced :
    /\ handed[k] \subseteq 1..Len(soapHeaders[k])
    /\ soapHeaders[k] \in Seq(Headers)

\* The inductive invariant.
IInv == TypeOK /\ BoundHasMethod /\ HandedAreIndexes

---------------------------------------------------------------------------
(* Arrays.                                                                 *)

\* Setting an element of an array gives an array, with holes if the index is
\* beyond the end.
LEMMA WithElementType ==
  ASSUME NEW S, NEW array \in Seq(S), NEW i \in Nat \ {0}, NEW x \in S, None \in S
  PROVE  WithElement(array, i, x) \in Seq(S)
  <1> DEFINE n == IF i > Len(array) THEN i ELSE Len(array)
             Element(j) == IF j = i THEN x ELSE IF j <= Len(array) THEN array[j] ELSE None
  <1>1. n \in Nat
    OBVIOUS
  <1>2. \A j \in 1..n : Element(j) \in S
    OBVIOUS
  <1>3. WithElement(array, i, x) = [j \in 1..n |-> Element(j)]
    BY DEF WithElement
  <1> HIDE DEF n, Element
  <1>4. WithElement(array, i, x) \in [1..n -> S]
    BY <1>2, <1>3
  <1>5. QED
    BY <1>1, <1>4, SeqDef

\* An index of the array makes no hole and keeps the length.
LEMMA WithElementInside ==
  ASSUME NEW S, NEW array \in Seq(S), NEW i \in 1..Len(array), NEW x \in S
  PROVE  /\ WithElement(array, i, x) \in Seq(S)
         /\ Len(WithElement(array, i, x)) = Len(array)
  <1> DEFINE n == Len(array)
             Element(j) == IF j = i THEN x ELSE array[j]
  <1>1. n \in Nat /\ ~(i > n)
    OBVIOUS
  <1>2. \A j \in 1..n : Element(j) \in S
    OBVIOUS
  <1>3. WithElement(array, i, x) = [j \in 1..n |-> Element(j)]
    BY DEF WithElement
  <1> HIDE DEF Element
  <1>4. WithElement(array, i, x) \in [1..n -> S]
    BY <1>2, <1>3
  <1>5. DOMAIN WithElement(array, i, x) = 1..n
    BY <1>3
  <1> HIDE DEF n
  <1>6. WithElement(array, i, x) \in Seq(S)
    BY <1>1, <1>4, SeqDef
  <1>7. Len(WithElement(array, i, x)) = n
    BY <1>1, <1>5, <1>6
  <1>8. QED
    BY <1>6, <1>7 DEF n

\* A sequence of headers has no hole.
LEMMA DenseLemma ==
  ASSUME NEW array \in Seq(Headers)
  PROVE  None \notin Elements(array) /\ Elements(array) \subseteq Headers
  BY ClientAssumption DEF Elements

---------------------------------------------------------------------------
(* The inductive invariant.                                                *)

\* The initial states satisfy the inductive invariant.
LEMMA InitIInv == Init => IInv
  <1> SUFFICES ASSUME Init PROVE IInv
    OBVIOUS
  <1>1. TypeOK
    BY DEF Init, TypeOK, PhasesOfCall
  <1>2. BoundHasMethod
    BY DEF Init, BoundHasMethod
  <1>3. HandedAreIndexes
    <2>1. \A k \in Clients : soapHeaders[k] = <<>> /\ handed[k] = {}
      BY DEF Init
    <2>2. <<>> \in Seq(Headers)
      OBVIOUS
    <2>3. QED
      BY <2>1, <2>2 DEF HandedAreIndexes
  <1>4. QED
    BY <1>1, <1>2, <1>3 DEF IInv

\* What a user does with a client.
LEMMA UserIInv ==
  ASSUME IInv, NEW k \in Clients, User(k)
  PROVE  IInv'
  <1> USE DEF IInv
  <1>1. ASSUME NEW key \in Keys, Create(k, key) PROVE IInv'
    BY <1>1 DEF Create, callVars, TypeOK, BoundHasMethod, HandedAreIndexes
  <1>2. ASSUME NEW e \in Endpoints, SetEndpoint(k, e) PROVE IInv'
    BY <1>2 DEF SetEndpoint, callVars, TypeOK, BoundHasMethod, HandedAreIndexes
  <1>3. ASSUME NEW h \in Headers, AddSoapHeader(k, h) PROVE IInv'
    <2>1. /\ soapHeaders' = [soapHeaders EXCEPT ![k] = Append(soapHeaders[k], h)]
          /\ handed' = [handed EXCEPT ![k] = handed[k] \cup {Len(soapHeaders[k]) + 1}]
      BY <1>3 DEF AddSoapHeader, Index
    <2>2. soapHeaders[k] \in Seq(Headers \cup {None})
      BY DEF TypeOK
    <2>3. /\ Append(soapHeaders[k], h) \in Seq(Headers \cup {None})
          /\ Len(Append(soapHeaders[k], h)) = Len(soapHeaders[k]) + 1
          /\ Len(soapHeaders[k]) \in Nat
      BY <2>2
    <2>4. TypeOK'
      <3>1. soapHeaders' \in [Clients -> Seq(Headers \cup {None})]
        BY <2>1, <2>3 DEF TypeOK
      <3>2. handed' \in [Clients -> SUBSET (Nat \ {0})]
        BY <2>1, <2>3 DEF TypeOK
      <3>3. QED
        BY <1>3, <3>1, <3>2 DEF AddSoapHeader, callVars, TypeOK
    <2>5. ASSUME NEW j \in Clients \ replaced
          PROVE  /\ handed'[j] \subseteq 1..Len(soapHeaders'[j])
                 /\ soapHeaders'[j] \in Seq(Headers)
      <3>1. handed[j] \subseteq 1..Len(soapHeaders[j]) /\ soapHeaders[j] \in Seq(Headers)
        BY DEF HandedAreIndexes
      <3>2. CASE j = k
        <4>1. /\ soapHeaders'[k] = Append(soapHeaders[k], h)
              /\ handed'[k] = handed[k] \cup {Len(soapHeaders[k]) + 1}
          BY <2>1 DEF TypeOK
        <4>2. Append(soapHeaders[k], h) \in Seq(Headers)
          BY <3>1, <3>2
        <4>3. QED
          BY <2>3, <3>1, <3>2, <4>1, <4>2
      <3>3. CASE j # k
        BY <2>1, <3>1, <3>3 DEF TypeOK
      <3>4. QED
        BY <3>2, <3>3
    <2>6. QED
      BY <1>3, <2>4, <2>5 DEF AddSoapHeader, callVars, BoundHasMethod, HandedAreIndexes
  <1>4. ASSUME NEW i \in handed[k], NEW h \in Headers, ChangeSoapHeader(k, i, h)
        PROVE  IInv'
    <2>1. soapHeaders' = [soapHeaders EXCEPT ![k] = WithElement(soapHeaders[k], i, h)]
      BY <1>4 DEF ChangeSoapHeader
    <2>2. i \in Nat \ {0}
      BY DEF TypeOK
    <2>3. WithElement(soapHeaders[k], i, h) \in Seq(Headers \cup {None})
      BY <2>2, WithElementType DEF TypeOK
    <2>4. TypeOK'
      BY <1>4, <2>1, <2>3 DEF ChangeSoapHeader, callVars, TypeOK
    <2>5. ASSUME NEW j \in Clients \ replaced
          PROVE  /\ handed[j] \subseteq 1..Len(soapHeaders'[j])
                 /\ soapHeaders'[j] \in Seq(Headers)
      <3>1. handed[j] \subseteq 1..Len(soapHeaders[j]) /\ soapHeaders[j] \in Seq(Headers)
        BY DEF HandedAreIndexes
      <3>2. CASE j = k
        <4>1. i \in 1..Len(soapHeaders[k]) /\ soapHeaders[k] \in Seq(Headers)
          BY <3>1, <3>2
        <4>2. soapHeaders'[k] = WithElement(soapHeaders[k], i, h)
          BY <2>1 DEF TypeOK
        <4>3. /\ WithElement(soapHeaders[k], i, h) \in Seq(Headers)
              /\ Len(WithElement(soapHeaders[k], i, h)) = Len(soapHeaders[k])
          BY <4>1, WithElementInside
        <4>4. QED
          BY <3>1, <3>2, <4>2, <4>3
      <3>3. CASE j # k
        BY <2>1, <3>1, <3>3 DEF TypeOK
      <3>4. QED
        BY <3>2, <3>3
    <2>6. QED
      BY <1>4, <2>4, <2>5 DEF ChangeSoapHeader, callVars, BoundHasMethod, HandedAreIndexes
  <1>5. CASE ClearSoapHeaders(k)
    <2>1. /\ soapHeaders'[k] = <<>>
          /\ handed'[k] = {}
          /\ \A j \in Clients \ {k} : soapHeaders'[j] = soapHeaders[j] /\ handed'[j] = handed[j]
      BY <1>5 DEF ClearSoapHeaders, TypeOK
    <2>2. TypeOK'
      BY <1>5 DEF ClearSoapHeaders, callVars, TypeOK
    <2>3. HandedAreIndexes'
      BY <1>5, <2>1 DEF ClearSoapHeaders, HandedAreIndexes
    <2>4. QED
      BY <1>5, <2>2, <2>3 DEF ClearSoapHeaders, callVars, BoundHasMethod
  <1>6. QED
    BY <1>1, <1>2, <1>3, <1>4, <1>5 DEF User

\* A call up to its request.
LEMMA MakeCallIInv ==
  ASSUME IInv, NEW c \in Calls, MakeCall(c)
  PROVE  IInv'
  <1> USE DEF IInv
  <1>1. ASSUME NEW k \in Clients, Bind(c, k) PROVE IInv'
    <2>1. [client |-> k, location |-> endpoint[k]] \in Methods
      BY DEF TypeOK, Methods
    <2>2. TypeOK'
      BY <1>1, <2>1 DEF Bind, Goto, userVars, TypeOK, PhasesOfCall
    <2>3. BoundHasMethod'
      BY <1>1, <2>1 DEF Bind, Goto, TypeOK, BoundHasMethod
    <2>4. QED
      BY <1>1, <2>2, <2>3 DEF Bind, userVars, HandedAreIndexes
  <1>2. ASSUME NEW own \in OwnHeaders \cup {None}, NEW ok \in BOOLEAN, Invoke(c, own, ok)
        PROVE  IInv'
    <2> DEFINE k == method[c].client
               headers == HeadersFor(k, own)
    <2>1. phase[c] = "bound" /\ method[c] \in Methods
      BY <1>2 DEF Invoke, BoundHasMethod
    <2>2. k \in Clients /\ method[c].location \in Endpoints
      BY <2>1 DEF Methods
    <2>3. soapHeaders' = [soapHeaders EXCEPT ![k] = headers]
      BY <1>2 DEF Invoke
    <2>4. /\ headers \in Seq(Headers \cup {None})
          /\ own # None => headers \in Seq(Headers)
          /\ own = None => headers = soapHeaders[k]
      <3>1. CASE own = None
        BY <2>2, <3>1 DEF HeadersFor, TypeOK
      <3>2. CASE own # None
        <4>1. own \in Headers
          BY <3>2, ClientAssumption
        <4>2. headers = <<own>>
          BY <3>2 DEF HeadersFor
        <4>3. QED
          BY <3>2, <4>1, <4>2
      <3>3. QED
        BY <3>1, <3>2
    <2>5. soapHeaders' \in [Clients -> Seq(Headers \cup {None})]
      BY <2>2, <2>3, <2>4 DEF TypeOK
    <2>6. replaced' = IF own = None THEN replaced ELSE replaced \cup {k}
      BY <1>2 DEF Invoke
    <2>7. HandedAreIndexes'
      <3>1. ASSUME NEW j \in Clients \ replaced'
            PROVE  soapHeaders'[j] = soapHeaders[j] /\ j \notin replaced
        <4>1. own # None => j # k
          BY <2>6, <3>1
        <4>2. QED
          BY <2>3, <2>4, <2>6, <4>1 DEF TypeOK
      <3>2. handed' = handed
        BY <1>2 DEF Invoke
      <3>3. QED
        BY <3>1, <3>2 DEF HandedAreIndexes
    <2>8. phase' \in [Calls -> PhasesOfCall] /\ phase[c] # "idle"
      BY <1>2, <2>1 DEF Invoke, Goto, TypeOK, PhasesOfCall
    <2>9. request' \in [Calls -> Requests \cup {None}]
      <3>1. CASE None \notin Elements(headers)
        <4>1. Elements(headers) \in SUBSET Headers
          BY <2>4, <3>1 DEF Elements
        <4>2. [key |-> wsdlKey, headers |-> Elements(headers),
               location |-> method[c].location] \in Requests
          BY <2>2, <4>1 DEF Requests, TypeOK
        <4>3. QED
          BY <1>2, <4>2 DEF Invoke, TypeOK
      <3>2. CASE None \in Elements(headers)
        BY <1>2, <3>2 DEF Invoke, TypeOK
      <3>3. QED
        BY <3>1, <3>2
    <2>10. TypeOK'
      BY <1>2, <2>2, <2>5, <2>6, <2>8, <2>9 DEF Invoke, TypeOK
    <2>11. BoundHasMethod'
      BY <1>2, <2>1 DEF Invoke, Goto, TypeOK, BoundHasMethod
    <2>12. QED
      BY <2>7, <2>10, <2>11
  <1>3. QED
    BY <1>1, <1>2 DEF MakeCall

\* The reply of a call.
LEMMA ReplyIInv ==
  ASSUME IInv, NEW c \in Calls, NEW reply \in Replies, Reply(c, reply)
  PROVE  IInv'
  <1> USE DEF IInv
  <1>1. phase[c] = "sent" /\ method[c] \in Methods
    BY DEF Reply, BoundHasMethod
  <1>2. Outcome(c, reply) \in Outcomes
    BY DEF Outcome, Outcomes, Unreadable
  <1>3. phase' \in [Calls -> PhasesOfCall] /\ \A d \in Calls : phase'[d] # "idle" => phase[d] # "idle"
    BY <1>1 DEF Reply, Goto, TypeOK, PhasesOfCall
  <1>4. told' \in [Calls -> Outcomes \cup {None}] /\ soapError' \subseteq Calls
    BY <1>2 DEF Reply, TypeOK
  <1>5. TypeOK'
    BY <1>3, <1>4 DEF Reply, userVars, TypeOK
  <1>6. QED
    BY <1>3, <1>5 DEF Reply, userVars, BoundHasMethod, HandedAreIndexes

\* Every step preserves the inductive invariant.
LEMMA NextIInv == IInv /\ [Next]_clientVars => IInv'
  <1> SUFFICES ASSUME IInv, [Next]_clientVars PROVE IInv'
    OBVIOUS
  <1>1. CASE Next
    BY <1>1, UserIInv, MakeCallIInv, ReplyIInv DEF Next, ReplyArrives
  <1>2. CASE UNCHANGED clientVars
    BY <1>2 DEF clientVars, IInv, TypeOK, BoundHasMethod, HandedAreIndexes
  <1>3. QED
    BY <1>1, <1>2

\* The inductive invariant holds in every reachable state.
THEOREM Inductive == Spec => []IInv
  BY InitIInv, NextIInv, PTL DEF Spec

\* The state of the clients and of their calls stays well typed: each request
\* that was sent has only headers, each method that was looked up is that of a
\* client, and a callback is told one of the four outcomes.
THEOREM TypeCorrect == Spec => []TypeOK
  <1>1. IInv => TypeOK
    BY DEF IInv
  <1>2. QED
    BY <1>1, Inductive, PTL

\* However clients add, change and clear their SOAP headers and whatever calls
\* they make meanwhile, a client whose headers no call replaced has no hole
\* among them.
THEOREM HeadersAreDenseHolds == Spec => []HeadersAreDense
  <1>1. IInv => HeadersAreDense
    BY DenseLemma DEF IInv, HandedAreIndexes, HeadersAreDense
  <1>2. QED
    BY <1>1, Inductive, PTL
=============================================================================
