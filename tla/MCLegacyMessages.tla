------------------------- MODULE MCLegacyMessages -------------------------
EXTENDS LegacyMessages, TLC
CONSTANTS u1, a1, a2, m1, m2
MCAddrs == [u \in Users |-> Addrs]
MCVersions == [u \in Users |-> {0, 4, 5}]
MCTo == [m \in Msgs |-> u1]
MCSymmetry == Permutations(Addrs) \cup Permutations(Msgs)
=============================================================================
