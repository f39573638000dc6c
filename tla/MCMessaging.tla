----------------------------- MODULE MCMessaging -----------------------------
(***************************************************************************)
(* Instances of Messaging for TLC.                                          *)
(***************************************************************************)
EXTENDS Messaging

CONSTANTS s1, s2, i1, i2

\* Two messages of one sender and one of another.
MCFrom == <<s1, s1, s2>>
MCFromTwo == <<s1, s2>>
MCFromOne == <<s1, s1>>
==============================================================================
