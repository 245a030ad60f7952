SPECIFICATION OpFairSpec
CONSTANTS
  o1 = o1  o2 = o2  e = e  f = f  p = p
  Wsdls <- MCWsdls
  Order <- MCOrder
  Elements <- MCElements
  Inner <- MCInner
  PartNames <- MCPartNames
  None = None
INVARIANTS
  AskedIsCalled
  AnswerIsFound
PROPERTIES
  CallIsTold
\* A WSDL that failed to load is of no further use.
CHECK_DEADLOCK FALSE
