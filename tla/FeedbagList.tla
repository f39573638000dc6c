---- MODULE FeedbagList ----
(***************************************************************************)
(* state/feedbag_list.go: an edit of a server-side buddy list.  A list is   *)
(* read whole, changed in memory, and written back as the rows that were    *)
(* deleted and the rows that were added or changed.                         *)
(*                                                                         *)
(* A list is a function from keys [g |-> group id, i |-> item id] to rows.  *)
(* Item 0 of a group is the group's own row, whose order lists its items;   *)
(* group 0 is the root, whose order lists the groups.  Ids are drawn at     *)
(* random by the code; here the caller supplies ids never used before.      *)
(***************************************************************************)
EXTENDS Naturals, Sequences, SequencesExt

CONSTANT NoOrder    \* a row without an order attribute

Key(g, i) == [g |-> g, i |-> i]
Root == Key(0, 0)
Row(name) == [name |-> name, order |-> NoOrder, alias |-> "", collapsed |-> FALSE]

\* FeedbagList: the rows, and what PendingUpdates and PendingDeletes will yield.
NewFeedbagList(items) == [items |-> items, updates |-> <<>>, deletes |-> <<>>]

groupKeys(items) == {k \in DOMAIN items : k.i = 0 /\ k.g # 0}
buddyKeys(items) == {k \in DOMAIN items : k.i # 0}

\* groupByName and buddyItem return nil where these sets are empty.
groupByName(fl, name) == {k \in groupKeys(fl.items) : fl.items[k].name = name}
buddyItem(fl, g, name) == {k \in buddyKeys(fl.items) : k.g = g /\ fl.items[k].name = name}
buddyItemsByName(fl, name) == {k \in buddyKeys(fl.items) : fl.items[k].name = name}
\* The store's unique index yields the rows by group and item.
Before(k, k2) == k.g < k2.g \/ (k.g = k2.g /\ k.i <= k2.i)
first(ks) == CHOOSE k \in ks : \A k2 \in ks : Before(k, k2)
inOrder(ks) == SetToSortSeq(ks, Before)

trackUpdate(fl, k) ==
  IF Contains(fl.updates, k) THEN fl ELSE [fl EXCEPT !.updates = Append(@, k)]

\* Storing a row under a key, new or not, and tracking it.
put(fl, k, row) ==
  trackUpdate([fl EXCEPT !.items = [x \in DOMAIN @ \cup {k} |-> IF x = k THEN row ELSE @[x]]], k)

AppendOrderMembers(row, id) ==
  [row EXCEPT !.order = IF @ = NoOrder THEN <<id>> ELSE Append(@, id)]
RemoveOrderMembers(row, id) ==
  [row EXCEPT !.order = IF @ = NoOrder THEN @ ELSE SelectSeq(@, LAMBDA x : x # id)]

rootGroup(fl) == IF Root \in DOMAIN fl.items THEN fl ELSE put(fl, Root, Row(""))

\* itemsMatch knows a buddy by group and name, but any group's row, the root's
\* included, by its name alone.
itemsMatch(items, k) ==
  IF k.i = 0 THEN {x \in DOMAIN items : x.i = 0 /\ items[x].name = items[k].name}
  ELSE {x \in buddyKeys(items) : x.g = k.g /\ items[x].name = items[k].name}

\* deleteItem removes the first row that matches and remembers it.
deleteItem(fl, k) ==
  LET gone == first(itemsMatch(fl.items, k))
  IN  [fl EXCEPT !.items = [x \in DOMAIN @ \ {gone} |-> @[x]],
                 !.deletes = Append(@, [key |-> gone, name |-> fl.items[gone].name])]

AddGroup(fl, name, id) ==
  IF groupByName(fl, name) # {} THEN fl
  ELSE LET added == rootGroup([fl EXCEPT !.items = [x \in DOMAIN @ \cup {Key(id, 0)} |->
                                 IF x = Key(id, 0) THEN Row(name) ELSE @[x]]])
           ordered == put(added, Root, AppendOrderMembers(added.items[Root], id))
       IN  trackUpdate(ordered, Key(id, 0))

\* DeleteGroup deletes a row for each row of the group and takes the group out
\* of the root's order.  For the group with the empty name, the row matched for
\* the group's own is the root's.
DeleteGroup(fl, name) ==
  IF groupByName(fl, name) = {} THEN fl
  ELSE LET g == first(groupByName(fl, name)).g
           rows == inOrder({k \in DOMAIN fl.items : k.g = g})
           gone == FoldLeft(deleteItem, fl, rows)
       IN  IF Root \in DOMAIN gone.items
           THEN put(gone, Root, RemoveOrderMembers(gone.items[Root], g))
           ELSE gone

\* addBuddyItem: a buddy the group already has is replaced if it differs (the
\* callers add no attributes to one that is there); a new one joins the order.
addBuddyItem(fl, gname, name, alias, id) ==
  LET g == first(groupByName(fl, gname))
      there == buddyItem(fl, g.g, name)
      row == [Row(name) EXCEPT !.alias = alias]
      inserted == put(fl, Key(g.g, id), row)
  IN  IF there = {} THEN put(inserted, g, AppendOrderMembers(fl.items[g], id))
      ELSE IF fl.items[first(there)] = row THEN fl
      ELSE put(fl, first(there), row)

removeFrom(fl, g, name) ==
  IF buddyItem(fl, g.g, name) = {} THEN fl
  ELSE LET k == first(buddyItem(fl, g.g, name))
       IN  put(deleteItem(fl, k), g, RemoveOrderMembers(fl.items[g], k.i))

\* DeleteBuddy of one group, or of every group for "*".
DeleteBuddy(fl, gname, name) ==
  IF gname = "*"
  THEN FoldLeft(LAMBDA l, g : removeFrom(l, g, name), fl, inOrder(groupKeys(fl.items)))
  ELSE removeFrom(fl, first(groupByName(fl, gname)), name)

RenameGroup(fl, old, new) ==
  LET g == first(groupByName(fl, old))
  IN  IF old = new THEN fl ELSE put(fl, g, [fl.items[g] EXCEPT !.name = new])

\* reorderInGroupOrder puts an item before another one, or last.
reorderInGroupOrder(fl, g, id, before) ==
  LET order == fl.items[g].order
      filtered == SelectSeq(order, LAMBDA x : x # id)
      at == IF Contains(filtered, before) THEN CHOOSE n \in DOMAIN filtered : filtered[n] = before
            ELSE Len(filtered) + 1
  IN  IF order = NoOrder THEN fl
      ELSE put(fl, g, [fl.items[g] EXCEPT !.order = InsertAt(filtered, at, id)])

\* MoveBuddy deletes and re-adds a buddy that changes its group, and then puts
\* it before another one if asked.
MoveBuddy(fl, from, to, name, before, id) ==
  LET src == first(groupByName(fl, from))
      alias == fl.items[first(buddyItem(fl, src.g, name))].alias
      dst == IF to \in {"", from} THEN src ELSE first(groupByName(fl, to))
      moved == IF dst = src THEN fl
               ELSE addBuddyItem(DeleteBuddy(fl, from, name), to, name, alias, id)
      ahead == buddyItem(moved, dst.g, before)
  IN  IF before = "" \/ ahead = {} THEN moved
      ELSE reorderInGroupOrder(moved, dst, first(buddyItem(moved, dst.g, name)).i, first(ahead).i)

SetBuddyAlias(fl, name, alias) ==
  FoldLeft(LAMBDA l, k : put(l, k, [l.items[k] EXCEPT !.alias = alias]), fl,
           inOrder(buddyItemsByName(fl, name)))
SetGroupCollapsed(fl, name, collapsed) ==
  LET g == first(groupByName(fl, name)) IN put(fl, g, [fl.items[g] EXCEPT !.collapsed = collapsed])

---------------------------------------------------------------------------
(* The store (user_store.go FeedbagUpsert, FeedbagDelete).                   *)

FeedbagUpsert(items, rows) == [k \in DOMAIN items \cup DOMAIN rows |->
                                 IF k \in DOMAIN rows THEN rows[k] ELSE items[k]]
FeedbagDelete(items, ks) == [k \in DOMAIN items \ ks |-> items[k]]
====
