----------------------------- MODULE RideOffer -----------------------------
(***************************************************************************)
(* What a rider is promised: a ride is booked at a price that was offered  *)
(* to that very rider, and an offer that was made never changes.  An offer *)
(* is a record with fields user, fare and price.                           *)
(***************************************************************************)
CONSTANT Users

VARIABLES
  offers,  \* the offers made
  rides    \* the offers taken

Init == offers = {} /\ rides = {}

\* New offers for u, under names that were never used.
MakeOffers(u) ==
  /\ offers \subseteq offers'
  /\ \A o \in offers' \ offers :
       /\ o.user = u
       /\ \A p \in offers : p.fare # o.fare
  /\ UNCHANGED rides

Book(o) ==
  /\ o \in offers
  /\ rides' = rides \cup {o}
  /\ UNCHANGED offers

Next == (\E u \in Users : MakeOffers(u)) \/ (\E o \in offers : Book(o))

Spec == Init /\ [][Next]_<<offers, rides>>
=============================================================================
