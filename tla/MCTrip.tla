------------------------------- MODULE MCTrip -------------------------------
EXTENDS TripLifecycle, TLC
CONSTANTS t1, t2, r1, d1, d2, home
OneOwner == [t \in Trips |-> r1]
OnePickup == [t \in Trips |-> home]
OnePosition == [d \in Drivers |-> home]
DriverSymmetry == Permutations(Drivers)
=============================================================================
