--------------------------- MODULE MCChatSessions ---------------------------
(***************************************************************************)
(* Instances of ChatSessions for TLC: one room, two users, connections of   *)
(* u1 (a1, a2) and u2 (b1), and the teardown k1 of u1's BOS session.        *)
(***************************************************************************)
EXTENDS ChatSessions

CONSTANTS u1, u2, r1, a1, a2, b1, b2, k1

MCUserOf == [x \in Conns \cup Teardowns |-> IF x \in {a1, a2, k1} THEN u1 ELSE u2]
MCRoomOf == [c \in Conns |-> r1]
=============================================================================
