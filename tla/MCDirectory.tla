------------------------------ MODULE MCDirectory ------------------------------
(* Two users and a free number; the requests of one user, two at a time. *)
EXTENDS Directory

MCTLVs == {{"names"}, {"email", "publish"}, {"notes", "role", "hpcat"}}
=============================================================================
