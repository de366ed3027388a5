SPECIFICATION Spec
CONSTANTS
  p1 = p1
  p2 = p2
  s1 = s1
  s2 = s2
  s3 = s3
  m1 = m1
  m2 = m2
  Pods = {p1, p2}
  Sockets = {s1, s2}
  Msgs = {m1}
  MaxFaults = 1
SYMMETRY DeliverySymmetry
INVARIANTS
  ServedIsSubscribed
  SubscriptionIsOwned
  LossNeedsDisconnect
PROPERTIES
  DeletedWasWritten
CHECK_DEADLOCK FALSE
