-------------------------- MODULE MCSessionManager --------------------------
(* Instances of SessionManager for TLC: one account, a few connections of    *)
(* either kind, of which MaxStarted ever sign on.  Where three of both kinds *)
(* replace one another, nobody else closes sessions.                         *)
EXTENDS SessionManager, TLC

CONSTANTS m1, m2, m3, s1, s2, s3, k1, u1, MaxStarted

OneAccount == [x \in Conns |-> u1]
Symmetry == Permutations(MultiConns) \cup Permutations(Conns \ MultiConns)
Started == {c \in Conns : pc[c] # "start"}
FewStarted ==
    /\ Cardinality(Started) <= MaxStarted
    /\ Cardinality(Started) = 3 /\ ~(Started \subseteq MultiConns) => \A k \in Closers : job[k] = Idle
=============================================================================
