SPECIFICATION FairSpec
CONSTANTS
  p1 = p1
  p2 = p2
  s1 = s1
  s2 = s2
  s3 = s3
  k1 = k1
  k2 = k2
  Pods = {p1, p2}
  Sockets = {s1, s2, s3}
  Packages = {k1}
  Limit = 2
  MaxFaults = 1
INVARIANTS
  LimitHolds
  CountIsExplained
PROPERTIES
  GateRecovers
  OnlineIsFindable
CHECK_DEADLOCK FALSE
