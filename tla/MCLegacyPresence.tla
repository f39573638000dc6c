-------------------------- MODULE MCLegacyPresence --------------------------
(* Two users with clients of any two versions. *)
EXTENDS LegacyPresence

CONSTANTS u1, u2

MCUsers == {u1, u2}
MCNobody == {}
\* A client of any version and one of each family: the second version, and those told directly.
MCVersions == u1 :> (1..5) @@ u2 :> {4}
\* Not available (as newer clients encode it) and invisible; V3 clients log in as online, 0.
MCStatuses == {5, 256}
=============================================================================
