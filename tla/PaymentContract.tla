-------------------------- MODULE PaymentContract --------------------------
(***************************************************************************)
(* What trip-service relies on: a payment event is published only for a    *)
(* trip and a driver it asked a payment session for.  TripLifecycle's      *)
(* PaymentSucceeds is this Succeed; PaymentSession implements it.          *)
(***************************************************************************)
CONSTANTS Trips, Drivers

VARIABLES
  asked,     \* <<t, d>>: payment.cmd.create_session was published
  succeeded  \* <<t, d>>: payment.event.success was published

Init == asked = {} /\ succeeded = {}

Ask(t, d) ==
  /\ asked' = asked \cup {<<t, d>>}
  /\ UNCHANGED succeeded

Succeed(t, d) ==
  /\ <<t, d>> \in asked
  /\ succeeded' = succeeded \cup {<<t, d>>}
  /\ UNCHANGED asked

Next == \E t \in Trips, d \in Drivers : Ask(t, d) \/ Succeed(t, d)

Spec == Init /\ [][Next]_<<asked, succeeded>>
=============================================================================
