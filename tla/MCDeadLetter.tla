---------------------------- MODULE MCDeadLetter ----------------------------
EXTENDS DeadLetter, TLC
CONSTANTS m1, q1, q2
ToAll == [m \in Msgs |-> Queues]
=============================================================================
