----------------------------- MODULE MCDelivery -----------------------------
EXTENDS UserDelivery, TLC
CONSTANTS p1, p2, s1, s2, s3, m1, m2
DeliverySymmetry == Permutations(Pods) \cup Permutations(Sockets)
                      \cup Permutations(Msgs)
=============================================================================
