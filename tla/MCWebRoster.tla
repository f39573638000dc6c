---- MODULE MCWebRoster ----
(***************************************************************************)
(* Scenarios for WebRoster: each initial state allows a few things of one    *)
(* kind, so that one run covers all of them.                                 *)
(***************************************************************************)
EXTENDS WebRoster

CONSTANTS b1, b2

MCSymmetry == Permutations(Sessions)

\* An unnamed group with b1 and a group "G" with b2.
MCRows == [k \in {Root, Key(1, 0), Key(1, 11), Key(2, 0), Key(2, 12)} |->
  CASE k = Root -> [Row("") EXCEPT !.order = <<1, 2>>]
    [] k = Key(1, 0) -> [Row("") EXCEPT !.order = <<11>>]
    [] k = Key(1, 11) -> Row(b1)
    [] k = Key(2, 0) -> [Row("G") EXCEPT !.order = <<12>>]
    [] k = Key(2, 12) -> [Row(b2) EXCEPT !.alias = "A"]]

None0 == [starts |-> 1, ticks |-> 0, losses |-> 0, misses |-> 0, quits |-> 0, ends |-> 0, boots |-> 0,
          stops |-> 0, faults |-> 0, edits |-> 0, moves |-> 0, ims |-> 0, ops |-> {},
          signedOn |-> {{}}, watched |-> FALSE]

op(do, g, b) == [do |-> do, group |-> g, buddy |-> b, new |-> "", before |-> None, alias |-> "",
                 collapsed |-> FALSE]
AddOps == {op("addBuddy", "Buddies", b2), op("addBuddy", "G", b1), op("addGroup", "N", None),
           op("addGroup", "G", None)}
RemoveOps == {op("removeBuddy", "G", b2), op("removeBuddy", "*", b1), op("removeBuddy", "Buddies", b1),
              op("removeGroup", "G", None), op("removeGroup", "Buddies", None)}
ChangeOps == {[op("renameGroup", "Buddies", None) EXCEPT !.new = "N"],
              [op("renameGroup", "G", None) EXCEPT !.new = "N"],
              [op("moveBuddy", "G", b2) EXCEPT !.new = "Buddies", !.before = b1],
              [op("moveBuddy", "Buddies", b1) EXCEPT !.new = "G"],
              [op("setAlias", "", b1) EXCEPT !.alias = "A"],
              op("setAlias", "", b2),
              [op("setCollapsed", "", None) EXCEPT !.collapsed = TRUE]}

PairOps == {op("addBuddy", "Buddies", b2), op("removeGroup", "Buddies", None),
            [op("moveBuddy", "G", b2) EXCEPT !.new = "Buddies", !.before = b1],
            op("removeBuddy", "*", b2)}

MCBudgets == {
  \* one edit of every kind, which may fail half-way
  [None0 EXCEPT !.edits = 1, !.faults = 1, !.ops = AddOps \cup RemoveOps \cup ChangeOps],
  \* two edits at a time
  [None0 EXCEPT !.edits = 2, !.ops = PairOps],
  \* two sessions, one edit
  [None0 EXCEPT !.starts = 2, !.edits = 1, !.ops = {op("addBuddy", "G", b1), op("removeGroup", "G", None)}],
  \* buddies coming and going while the list grows
  [None0 EXCEPT !.edits = 1, !.moves = 2, !.signedOn = {{b1}}, !.watched = TRUE,
                !.ops = {op("addBuddy", "G", b1)}],
  \* polls that are lost, left or late, and a queue that overflows
  [None0 EXCEPT !.ticks = 3, !.losses = 2, !.misses = 1, !.ims = 4],
  \* the lease
  [None0 EXCEPT !.ticks = 9, !.losses = 1, !.misses = 2, !.quits = 1, !.ims = 1],
  \* two sessions that start, fail, end or are closed, with a shutdown
  [None0 EXCEPT !.starts = 2, !.ticks = 1, !.ends = 1, !.boots = 1, !.stops = 1, !.faults = 1],
  \* two sessions that expire, with a shutdown
  [None0 EXCEPT !.starts = 2, !.ticks = 7, !.quits = 2, !.stops = 1]}
====
