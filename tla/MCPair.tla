------------------------------- MODULE MCPair -------------------------------
EXTENDS TripPair, TLC
CONSTANTS t1, t2, r1, r2, d1, d2, w1, w2
PairSymmetry == Permutations(Trips) \cup Permutations(Riders)
                  \cup Permutations(Drivers) \cup Permutations(Workers)
=============================================================================
