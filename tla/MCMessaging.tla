---------------------------- MODULE MCMessaging ----------------------------
EXTENDS Messaging, TLC
CONSTANTS r1
\* Every handle is bound to the peer r1.
MCBound == [h \in Alias |-> r1]
Symmetry == Permutations(Msg) \cup Permutations(Proc \ Listener)
=============================================================================
