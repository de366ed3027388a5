SPECIFICATION Spec
CONSTANTS
  t1 = t1
  t2 = t2
  d1 = d1
  d2 = d2
  s1 = s1
  s2 = s2
  s3 = s3
  NoSession = nosession
  Trips = {t1, t2}
  Drivers = {d1, d2}
  Sessions = {s1, s2, s3}
  MayFail = TRUE
  MayExpire = TRUE
SYMMETRY PaymentSymmetry
INVARIANTS
  SessionIsOwn
PROPERTIES
  KeepsContract
CHECK_DEADLOCK FALSE
