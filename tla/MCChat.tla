------------------------------- MODULE MCChat -------------------------------
EXTENDS ChatRoom, TLC
CONSTANTS p1, p2, s1, s2, s3, m1, m2, r1, i1
\* Two sockets on one pod, a third on the other; one trip.
TwoPods == (s1 :> p1) @@ (s2 :> p1) @@ (s3 :> p2)
OneRoom == [m \in Msgs |-> r1]
\* The message that is relayed has the id of one that was sent before.
OneId == [m \in Msgs |-> i1]
=============================================================================
