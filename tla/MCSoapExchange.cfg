SPECIFICATION FairSpec
CONSTANTS
  call1 = call1
  call2 = call2
  Clients = {k1}
  Calls = {call1, call2}
  OneWay = {call2}
  Headers = {}
  OwnHeaders = {}
  Keys = {soap}
  Endpoints = {here}
  None = None
  MaxHeaders = 0
  NoRequest = NoRequest
  Faults = {f1, f2}
  EmptyFaults = {f2}
  FaultStatus <- MCFaultStatus
  MaxCalls = 1
INVARIANTS
  FaultIsNoSuccess
  ResultWasSaid
PROPERTIES
  CallIsTold
CHECK_DEADLOCK FALSE
