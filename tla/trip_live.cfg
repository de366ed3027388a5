SPECIFICATION FairSpec
CONSTANTS
  t1 = t1
  t2 = t2
  r1 = r1
  d1 = d1
  d2 = d2
  home = home
  Zero = zero
  NoDriver = nodriver
  Trips = {t1}
  Riders = {r1}
  Drivers = {d1, d2}
  Places = {home, zero}
  Owner <- OneOwner
  Pickup <- OnePickup
  Position <- OnePosition
  MaxInputs = 5
  MayFail = FALSE
  Repeatable = {"created"}
INVARIANTS
  CancelledIsAnnounced
PROPERTIES
  DispatchProgress
  AcceptProgress
  PaymentProgress
CHECK_DEADLOCK FALSE
