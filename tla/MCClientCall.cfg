SPECIFICATION Spec
CONSTANTS
  call1 = call1
  call2 = call2
  h1 = h1
  Clients = {k1, k2}
  Calls = {call1, call2}
  OneWay = {call2}
  Headers = {h1}
  OwnHeaders = {h1}
  Keys = {soap}
  Endpoints = {here, there}
  None = None
  MaxHeaders = 3
INVARIANTS
  HeadersAreDense
CHECK_DEADLOCK FALSE
