SPECIFICATION FairSpec
CONSTANTS
  t1 = t1
  t2 = t2
  d1 = d1
  d2 = d2
  s1 = s1
  s2 = s2
  s3 = s3
  NoSession = nosession
  Trips = {t1, t2}
  Drivers = {d1, d2}
  Sessions = {s1, s2, s3}
  MayFail = FALSE
  MayExpire = FALSE
INVARIANTS
  OneSessionPerTrip
  PaidForOneDriver
PROPERTIES
  CommandIsAnswered
CHECK_DEADLOCK FALSE
