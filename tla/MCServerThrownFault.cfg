SPECIFICATION Spec
CONSTANTS
  Requests = {r1}
  NoRequest = NoRequest
  Faults = {f1}
  EmptyFaults = {}
  FaultStatus <- MCFaultStatus
  MaxCalls = 1
PROPERTIES
  ThrownFaultIsSent
CHECK_DEADLOCK FALSE
