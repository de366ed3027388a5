SPECIFICATION Spec
CONSTANTS
  t1 = t1
  t2 = t2
  r1 = r1
  r2 = r2
  d1 = d1
  d2 = d2
  w1 = w1
  w2 = w2
  None = none
  Trips = {t1, t2}
  Riders = {r1, r2}
  Drivers = {d1, d2}
  Workers = {w1, w2}
  MaxCalls = 3
  MaxFaults = 2
SYMMETRY PairSymmetry
INVARIANTS
  RelayServes
  NoticeIsTied
  StreamsEnd
CHECK_DEADLOCK FALSE
