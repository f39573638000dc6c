---- MODULE MCPresence ----
(* Instances of Presence for TLC.  A client keeps its buddy list itself or in *)
(* the feedbag.                                                              *)
EXTENDS Presence, TLC

CONSTANTS u1, u2, u3

Symmetry == Permutations(Users)

ClientSideKinds == {"AddBuddies", "DelBuddies", "AddDenyListEntries", "DelDenyListEntries",
                    "AddPermListEntries", "DelPermListEntries", "SetUserInfoFields", "IdleNotification"}
FeedbagKinds == {"Use", "UpsertItem", "UpsertItems", "DeleteItem", "StartCluster", "EndCluster"}
Loading == {"AddBuddies", "AddDenyListEntries", "AddPermListEntries", "Use"}

ClientSide == [u \in Users |-> ClientSideKinds]
OneOfEach == [u \in Users |-> IF u = u1 THEN ClientSideKinds ELSE FeedbagKinds]
NoClusters == [u \in Users |-> OneOfEach[u] \ {"StartCluster", "EndCluster"}]

OneAtATime == [kinds |-> NoClusters, modes |-> {2, 5}, late |-> {}, requests |-> 3, inFlight |-> 1]
Overlapping == [kinds |-> OneOfEach, modes |-> {1}, late |-> {u2}, requests |-> 2, inFlight |-> 4]
SerialAndOverlapping == {OneAtATime, Overlapping}
ClientSideOnly == {[kinds |-> ClientSide, modes |-> {1}, late |-> {}, requests |-> 2, inFlight |-> 1]}
====
