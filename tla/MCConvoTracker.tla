--------------------------- MODULE MCConvoTracker ---------------------------
(***************************************************************************)
(* Instances of ConvoTracker for TLC.                                       *)
(***************************************************************************)
EXTENDS ConvoTracker, TLC

CONSTANTS c1, c2, i1, i2, k1, k2

\* Two conversations with keys of their own.
MCKeys == c1 :> k1 @@ c2 :> k2
MCOneKey == c1 :> k1

\* "abc" to "defg" and "abcd" to "efg": the names run together the same way.
MCSameKey == c1 :> k1 @@ c2 :> k1
==============================================================================
