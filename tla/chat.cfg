SPECIFICATION FairChatSpec
CONSTANTS
  p1 = p1
  p2 = p2
  s1 = s1
  s2 = s2
  s3 = s3
  m1 = m1
  m2 = m2
  r1 = r1
  Pods = {p1, p2}
  Sockets = {s1, s2, s3}
  Rooms = {r1}
  Msgs = {m1, m2}
  Ids = {i1}
  i1 = i1
  Earlier = {m2}
  IdOf <- OneId
  Home <- TwoPods
  RoomOf <- OneRoom
  MaxChatFaults = 1
INVARIANTS
  RoomsAreSubscribed
  NoDuplicate
  MessageIsKept
PROPERTIES
  MemberHears
CHECK_DEADLOCK FALSE
