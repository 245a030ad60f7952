SPECIFICATION FairSpec
CONSTANTS
  Requests = {r1, r2}
  NoRequest = NoRequest
  Faults = {f1}
  EmptyFaults = {}
  FaultStatus <- MCFaultStatus
  MaxCalls = 2
INVARIANTS
  TypeOK
  OneAnswer
  StillAnswerable
  OneWayIsEmpty
PROPERTIES
  HandledIsFinal
  EventuallyAnswered
CHECK_DEADLOCK FALSE
