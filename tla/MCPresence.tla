----------------------------- MODULE MCPresence -----------------------------
EXTENDS DriverPresence, TLC
CONSTANTS p1, p2, s1, s2, s3, k1, k2
=============================================================================
