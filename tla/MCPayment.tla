----------------------------- MODULE MCPayment -----------------------------
EXTENDS PaymentSession, TLC
CONSTANTS t1, t2, d1, d2, s1, s2, s3
PaymentSymmetry == Permutations(Trips) \cup Permutations(Drivers)
                     \cup Permutations(Sessions)
=============================================================================
