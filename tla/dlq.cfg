SPECIFICATION FairSpec
CONSTANTS
  m1 = m1
  q1 = q1
  q2 = q2
  Msgs = {m1}
  Queues = {q1, q2}
  Route <- ToAll
  MaxRetries = 1
  MaxBrokerRetries = 1
  MayFail = TRUE
INVARIANTS
  NoSilentLoss
  CountIsHonest
  DroppedWasTried
PROPERTIES
  MessageIsTried
CHECK_DEADLOCK FALSE
