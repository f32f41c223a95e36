SPECIFICATION DeliverySpec
CONSTANTS
  e1 = e1
  e2 = e2
  a1 = a1
  a2 = a2
  b1 = b1
  Instances = {i1}
  Requests = {a1, a2, b1}
  Events = {e1, e2}
  EventOf <- TwoEvents
  MaxStarts = 2
  Header = Header
  Torn = Torn
  Garbled = Garbled
  None = None
INVARIANTS
  FailedIsNotAcked
