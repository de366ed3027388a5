------------------------------- MODULE MCFare -------------------------------
EXTENDS FareQuote, TLC
CONSTANTS u1, u2, c1, c2, v1, v2
Near == [distance |-> 2, duration |-> 3]
Far == [distance |-> 5, duration |-> 8]
TwoRoutes == {Near, Far}
FareSymmetry == Permutations({u1, u2}) \cup Permutations({c1, c2})
                  \cup Permutations({v1, v2})
=============================================================================
