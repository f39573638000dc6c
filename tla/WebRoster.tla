---- MODULE WebRoster ----
(***************************************************************************)
(* server/webapi: the buddy list as the web sessions of one user show it.   *)
(* Requests read the stored list, edit a copy and store the difference in    *)
(* several calls; every call tells the sessions, whose listeners reload and  *)
(* push the whole list as an event.  Buddies come and go meanwhile.          *)
(*                                                                         *)
(* The feedbag service and the relay are foodgroup's: a call stores its rows *)
(* and then sends a status to its own session, the change to the user's      *)
(* other sessions and the arrivals of the buddies it names to all of them.   *)
(***************************************************************************)
EXTENDS WebSession, FeedbagList

CONSTANTS Buddies, Requests,
          Rows0,            \* the list stored at first
          PartialWrites     \* a failing call may have stored some of its rows

VARIABLES
  stored,     \* table feedbag of the user
  online,     \* which buddies are signed on
  cache,      \* Session.feedbag (and aliases): None when not loaded
  presence,   \* Session.presence
  inbox,      \* SNACs on the way to a session's listener
  render,     \* per session: a list rendered and not yet pushed, by listener and by seed
  req         \* the edits under way: [s, op, at, plan, gone]

rosterVars == <<stored, online, cache, presence, inbox, render, req>>
vars == <<websessionVars, rosterVars>>

NoReq == [s |-> None, op |-> None, at |-> "none", plan |-> <<>>, gone |-> {}]

Init ==
  /\ SessionInit
  /\ stored = Rows0
  /\ online \in budget.signedOn
  /\ cache = [s \in Sessions |-> None]
  /\ presence = [s \in Sessions |-> [b \in Buddies |-> "unseen"]]
  /\ inbox = [s \in Sessions |-> <<>>]
  /\ render = [s \in Sessions |-> [listener |-> None, seed |-> None, mark |-> 0]]
  /\ req = [r \in Requests |-> NoReq]

---------------------------------------------------------------------------
(* Reading the list.                                                        *)

listed(rows) == {rows[k].name : k \in buddyKeys(rows)}

\* Feedbag loads under a lock: what is cached is what the store held then.
Loaded(s) == IF cache[s] = None THEN stored ELSE cache[s]

\* GetBuddyListForUser: the groups by the root's order, or by id without one;
\* of a group the buddies its order names.  Buddies of a group without a row
\* never show, as there is no order for them.
GetBuddyListForUser(rows) ==
  LET groups == {k.g : k \in groupKeys(rows)} \cup {k.g : k \in buddyKeys(rows)}
      rootOrder == IF Root \notin DOMAIN rows \/ rows[Root].order = NoOrder THEN <<>> ELSE rows[Root].order
      groupOrder == IF rootOrder = <<>> THEN SetToSortSeq(groups, <) ELSE rootOrder
      shownAs(g) == IF Key(g, 0) \notin DOMAIN rows \/ rows[Key(g, 0)].name = "" THEN "Buddies"
                    ELSE rows[Key(g, 0)].name
      members(g) == IF Key(g, 0) \notin DOMAIN rows \/ rows[Key(g, 0)].order = NoOrder THEN <<>>
                    ELSE SelectSeq(rows[Key(g, 0)].order, LAMBDA i : Key(g, i) \in DOMAIN rows)
      info(g, i) == [name |-> rows[Key(g, i)].name, friendly |-> rows[Key(g, i)].alias]
      known == SelectSeq(groupOrder, LAMBDA g : g \in groups)
  IN  [n \in DOMAIN known |-> [name |-> shownAs(known[n]),
         buddies |-> [m \in DOMAIN members(known[n]) |-> info(known[n], members(known[n])[m])]]]

\* A rendered list with the buddies it shows as online.
Rendered(rows, seenBy) ==
  [list |-> GetBuddyListForUser(rows),
   on |-> {b \in listed(rows) : seenBy[b] = "online"}, late |-> FALSE]

---------------------------------------------------------------------------
(* The edits: what each request makes of the list it read.  A plan is a       *)
(* sequence of calls: rows to delete, or rows to store.                       *)

Upsert(fl, ks) == [del |-> <<>>, keys |-> ks, rows |-> fl.items]
Delete(fl) == [del |-> fl.deletes, keys |-> <<>>, rows |-> fl.items]
calls(all) == SelectSeq(all, LAMBDA c : c.del # <<>> \/ c.keys # <<>>)

\* storedGroupNameForRequest: the first group of that name, where the unnamed one answers to "Buddies".
storedGroups(rows, g) == {k \in groupKeys(rows) : rows[k].name = g \/ (g = "Buddies" /\ rows[k].name = "")}
storedGroup(rows, g) == rows[first(storedGroups(rows, g))].name

Ids(r) == <<2 * r + 20, 2 * r + 21>>

addGroupToFeedbag(op, rows, r) ==
  LET fl == AddGroup(NewFeedbagList(rows), op.group, Ids(r)[1])
  IN  [calls |-> calls(<<Upsert(fl, fl.updates)>>), gone |-> {}]

\* addBuddyToFeedbag: the group if it is missing, then the buddy, then the
\* group's order.
addBuddyToFeedbag(op, rows, r) ==
  LET grouped == AddGroup(NewFeedbagList(rows), op.group, Ids(r)[1])
      fl == addBuddyItem([grouped EXCEPT !.updates = <<>>], op.group, op.buddy, "", Ids(r)[2])
      added == Key(first(groupByName(fl, op.group)).g, Ids(r)[2])
      rest == IF added \notin DOMAIN fl.items THEN <<>>
              ELSE <<Upsert(fl, <<added>>), Upsert(fl, SelectSeq(fl.updates, LAMBDA k : k.i = 0))>>
  IN  [calls |-> calls(<<Upsert(grouped, grouped.updates)>> \o rest), gone |-> {}]

\* RemoveBuddyFromFeedbag asks for the stored name, not the one shown.
RemoveBuddyFromFeedbag(op, rows) ==
  LET fl == DeleteBuddy(NewFeedbagList(rows), op.group, op.buddy)
      found == op.group = "*" \/ groupByName(NewFeedbagList(rows), op.group) # {}
  IN  IF ~found \/ fl.deletes = <<>> THEN [calls |-> <<>>, gone |-> {}]
      ELSE [calls |-> calls(<<Delete(fl), Upsert(fl, fl.updates)>>),
            gone |-> {op.buddy} \ listed(fl.items)]

RemoveGroupFromFeedbag(op, rows) ==
  LET fl == DeleteGroup(NewFeedbagList(rows), storedGroup(rows, op.group))
      names == {d.name : d \in {fl.deletes[n] : n \in {m \in DOMAIN fl.deletes : fl.deletes[m].key.i # 0}}}
  IN  IF storedGroups(rows, op.group) = {} THEN [calls |-> <<>>, gone |-> {}]
      ELSE [calls |-> calls(<<Delete(fl), Upsert(fl, fl.updates)>>), gone |-> names \ listed(fl.items)]

RenameGroupInFeedbag(op, rows) ==
  LET fl == RenameGroup(NewFeedbagList(rows), storedGroup(rows, op.group), op.new)
      taken == op.new # storedGroup(rows, op.group) /\ groupByName(NewFeedbagList(rows), op.new) # {}
  IN  IF storedGroups(rows, op.group) = {} \/ taken THEN [calls |-> <<>>, gone |-> {}]
      ELSE [calls |-> calls(<<Upsert(fl, fl.updates)>>), gone |-> {}]

\* MoveBuddyInFeedbag deletes, then inserts the buddy, then stores the groups' orders.
MoveBuddyInFeedbag(op, rows, r) ==
  LET from == storedGroup(rows, op.group)
      to == IF op.new = "" THEN "" ELSE storedGroup(rows, op.new)
      new == NewFeedbagList(rows)
      fl == MoveBuddy(new, from, to, op.buddy, op.before, Ids(r)[2])
      missing == \/ storedGroups(rows, op.group) = {}
                 \/ op.new # "" /\ storedGroups(rows, op.new) = {}
                 \/ buddyItem(new, first(groupByName(new, from)).g, op.buddy) = {}
  IN  IF missing THEN [calls |-> <<>>, gone |-> {}]
      ELSE [calls |-> calls(<<Delete(fl), Upsert(fl, SelectSeq(fl.updates, LAMBDA k : k.i # 0)),
                              Upsert(fl, SelectSeq(fl.updates, LAMBDA k : k.i = 0))>>), gone |-> {}]

SetBuddyAttributeInFeedbag(op, rows) ==
  LET fl == SetBuddyAlias(NewFeedbagList(rows), op.buddy, op.alias)
  IN  [calls |-> calls(<<Upsert(fl, fl.updates)>>), gone |-> {}]

\* An empty group asks for the unnamed group itself.
SetGroupAttributeInFeedbag(op, rows) ==
  LET name == IF op.group = "" THEN "" ELSE storedGroup(rows, op.group)
      found == storedGroups(rows, op.group) # {}
      fl == SetGroupCollapsed(NewFeedbagList(rows), name, op.collapsed)
  IN  IF ~found THEN [calls |-> <<>>, gone |-> {}]
      ELSE [calls |-> calls(<<Upsert(fl, fl.updates)>>), gone |-> {}]

Plan(op, rows, r) ==
  CASE op.do = "addGroup" -> addGroupToFeedbag(op, rows, r)
    [] op.do = "addBuddy" -> addBuddyToFeedbag(op, rows, r)
    [] op.do = "removeBuddy" -> RemoveBuddyFromFeedbag(op, rows)
    [] op.do = "removeGroup" -> RemoveGroupFromFeedbag(op, rows)
    [] op.do = "renameGroup" -> RenameGroupInFeedbag(op, rows)
    [] op.do = "moveBuddy" -> MoveBuddyInFeedbag(op, rows, r)
    [] op.do = "setAlias" -> SetBuddyAttributeInFeedbag(op, rows)
    [] op.do = "setCollapsed" -> SetGroupAttributeInFeedbag(op, rows)

---------------------------------------------------------------------------
(* The requests.                                                            *)

SignedOn(s) == sess[s].inst = "open" /\ sess[s].start # "registered"
tell(box, ss, snac) == [s \in Sessions |-> IF s \in ss /\ SignedOn(s) THEN box[s] \o snac ELSE box[s]]
SNAC(kind, names) == [kind |-> kind, names |-> names]

\* BroadcastVisibility tells the user of the named buddies (of all if none is
\* named) that are on the list and signed on.
arrivals(rows, names) ==
  LET who == (IF names = {} THEN Buddies ELSE names) \cap listed(rows) \cap online
  IN  [n \in 1..Cardinality(who) |-> SNAC("arrived", {SetToSeq(who)[n]})]

Edit(r, s, op) ==
  /\ req[r] = NoReq /\ client[s].mode \in {"idle", "polling"} /\ op \in budget.ops
  /\ \A r2 \in Requests : r2 < r => req[r2] # NoReq
  /\ RequireSession(s) /\ Touch(s) /\ Spend("edits")
  /\ req' = [req EXCEPT ![r] = [NoReq EXCEPT !.s = s, !.op = op, !.at = "query"]]
  /\ UNCHANGED <<mgr, closing, queue, poll, client, stored, online, cache, presence, inbox, render>>

\* Query, past the session's cache.
EditReads(r) ==
  LET plan == Plan(req[r].op, stored, r)
  IN  /\ req[r].at = "query"
      /\ req' = [req EXCEPT ![r].at = IF plan.calls = <<>> THEN "end" ELSE "store",
                            ![r].plan = plan.calls, ![r].gone = plan.gone]
      /\ UNCHANGED <<websessionVars, stored, online, cache, presence, inbox, render>>

\* The rows of a call, the first n of them.
written(call, n) ==
  IF call.del # <<>> THEN FeedbagDelete(stored, {call.del[m].key : m \in 1..n})
  ELSE FeedbagUpsert(stored, [k \in {call.keys[m] : m \in 1..n} |-> call.rows[k]])
size(call) == Len(call.del) + Len(call.keys)

EditStores(r) ==
  /\ req[r].at = "store"
  /\ stored' = written(Head(req[r].plan), size(Head(req[r].plan)))
  /\ req' = [req EXCEPT ![r].at = "relay"]
  /\ UNCHANGED <<websessionVars, online, cache, presence, inbox, render>>

\* A call that fails ends the request: nothing is told of what it stored.
EditFails(r) ==
  /\ req[r].at = "store" /\ Spend("faults")
  /\ \E n \in 0..(IF PartialWrites THEN size(Head(req[r].plan)) - 1 ELSE 0) :
       stored' = written(Head(req[r].plan), n)
  /\ req' = [req EXCEPT ![r].at = "end"]
  /\ UNCHANGED <<mgr, sess, closing, queue, poll, client, online, cache, presence, inbox, render>>

\* The rest of UpsertItem and DeleteItem.
EditTells(r) ==
  LET call == Head(req[r].plan)
      named == IF call.del # <<>> THEN {call.del[n].name : n \in {m \in DOMAIN call.del : call.del[m].key.i # 0}}
               ELSE {call.rows[call.keys[n]].name : n \in {m \in DOMAIN call.keys : call.keys[m].i # 0}}
      others == <<SNAC(IF call.del # <<>> THEN "delete" ELSE "update", named)>>
      seenOn == IF call.del = <<>> /\ named = {} THEN <<>> ELSE arrivals(stored, named)
  IN  /\ req[r].at = "relay"
      /\ inbox' = tell(tell(tell(inbox, {req[r].s}, <<SNAC("status", {})>>),
                            Sessions \ {req[r].s}, others), Sessions, seenOn)
      /\ req' = [req EXCEPT ![r].at = IF call.del # <<>> /\ req[r].gone # {} THEN "forget"
                                      ELSE IF Len(req[r].plan) > 1 THEN "store" ELSE "end",
                            ![r].plan = Tail(@)]
      /\ UNCHANGED <<websessionVars, stored, online, cache, presence, render>>

\* After a removal: forgetBuddyPresence of the buddies no longer listed.
EditForgets(r) ==
  /\ req[r].at = "forget"
  /\ presence' = [presence EXCEPT ![req[r].s] =
                    [b \in Buddies |-> IF b \in req[r].gone THEN "unseen" ELSE @[b]]]
  /\ req' = [req EXCEPT ![r].at = IF req[r].plan # <<>> THEN "store" ELSE "end"]
  /\ UNCHANGED <<websessionVars, stored, online, cache, inbox, render>>

\* The deferred InvalidateFeedbag.
EditEnds(r) ==
  /\ req[r].at = "end"
  /\ cache' = [cache EXCEPT ![req[r].s] = None]
  /\ req' = [req EXCEPT ![r] = [NoReq EXCEPT !.at = "done"]]
  /\ UNCHANGED <<websessionVars, stored, online, presence, inbox, render>>

---------------------------------------------------------------------------
(* The listener, the seed of StartSession and the buddies.                   *)

\* SetInfo and ClientOnline: the buddies that are signed on are announced.
ClientOnline(s) ==
  /\ sess[s].start = "registered"
  /\ sess' = [sess EXCEPT ![s].start = "online"]
  /\ inbox' = [inbox EXCEPT ![s] = IF sess[s].inst = "open" THEN @ \o arrivals(stored, {}) ELSE @]
  /\ UNCHANGED <<budget, mgr, closing, queue, poll, client, stored, online, cache, presence, render, req>>

Listening(s, kinds) ==
  /\ sess[s].listener = "running"
  /\ inbox[s] # <<>> /\ Head(inbox[s]).kind \in kinds
  /\ inbox' = [inbox EXCEPT ![s] = Tail(@)]

\* Mutant: the cache is not invalidated.
handleFeedbagMessageCached(s) ==
  LET snac == Head(inbox[s])
      forgot == [b \in Buddies |-> IF snac.kind = "delete" /\ b \in snac.names \ listed(Loaded(s))
                                   THEN "unseen" ELSE presence[s][b]]
  IN  /\ Listening(s, {"status", "update", "delete"})
      /\ cache' = [cache EXCEPT ![s] = Loaded(s)]
      /\ presence' = [presence EXCEPT ![s] = forgot]
      /\ render' = [render EXCEPT ![s].listener = Rendered(cache'[s], forgot)]
      /\ sess' = [sess EXCEPT ![s].listener = "busy"]
      /\ UNCHANGED <<budget, mgr, closing, queue, poll, client, stored, online, req>>

\* handleFeedbagMessage: invalidate, forget what a deletion unlisted, reload and render ...
handleFeedbagMessage(s) ==
  LET snac == Head(inbox[s])
      forgot == [b \in Buddies |-> IF snac.kind = "delete" /\ b \in snac.names \ listed(stored)
                                   THEN "unseen" ELSE presence[s][b]]
  IN  /\ Listening(s, {"status", "update", "delete"})
      /\ cache' = [cache EXCEPT ![s] = stored]
      /\ presence' = [presence EXCEPT ![s] = forgot]
      /\ render' = [render EXCEPT ![s].listener = Rendered(cache'[s], forgot)]
      /\ sess' = [sess EXCEPT ![s].listener = "busy"]
      /\ UNCHANGED <<budget, mgr, closing, queue, poll, client, stored, online, req>>

\* ... and push.
refreshBuddyList(s) ==
  /\ sess[s].listener = "busy"
  /\ queue' = [queue EXCEPT ![s] = Push(@, "buddylist", render[s].listener)]
  /\ render' = [render EXCEPT ![s].listener = None]
  /\ sess' = [sess EXCEPT ![s].listener = "running"]
  /\ UNCHANGED <<budget, mgr, closing, poll, client, stored, online, cache, presence, inbox, req>>

\* handleBuddyArrived and handleBuddyDeparted; the alias loads the list.
handleBuddyMessage(s) ==
  LET snac == Head(inbox[s])
      b == CHOOSE x \in snac.names : TRUE
  IN  /\ Listening(s, {"arrived", "departed"})
      /\ presence' = [presence EXCEPT ![s][b] = IF snac.kind = "arrived" THEN "online" ELSE "offline"]
      /\ cache' = [cache EXCEPT ![s] = Loaded(s)]
      /\ queue' = [queue EXCEPT ![s] = Push(@, snac.kind, b)]
      /\ UNCHANGED <<budget, mgr, sess, closing, poll, client, stored, online, render, req>>

handleIncomingIM(s) ==
  /\ Listening(s, {"im"})
  /\ cache' = [cache EXCEPT ![s] = Loaded(s)]
  /\ queue' = [queue EXCEPT ![s] = Push(@, "im", None)]
  /\ UNCHANGED <<budget, mgr, sess, closing, poll, client, stored, online, presence, render, req>>

\* StartSession renders the list it seeds the client with, and pushes it later.
SeedRenders(s) ==
  /\ sess[s].start = "listening"
  /\ cache' = [cache EXCEPT ![s] = Loaded(s)]
  /\ render' = [render EXCEPT ![s].seed = Rendered(cache'[s], presence[s]), ![s].mark = queue[s].seq]
  /\ sess' = [sess EXCEPT ![s].start = "seeding"]
  /\ UNCHANGED <<budget, mgr, closing, queue, poll, client, stored, online, presence, inbox, req>>

\* late: the listener has pushed something newer meanwhile.
SeedPushes(s) ==
  LET late == \E n \in DOMAIN queue[s].events :
                 queue[s].events[n].seq > render[s].mark /\ queue[s].events[n].type # "im"
  IN  /\ sess[s].start = "seeding"
      /\ queue' = [queue EXCEPT ![s] = Push(@, "buddylist", [render[s].seed EXCEPT !.late = late])]
      /\ render' = [render EXCEPT ![s].seed = None, ![s].mark = 0]
      /\ sess' = [sess EXCEPT ![s].start = "done"]
      /\ client' = [client EXCEPT ![s].mode = "idle"]
      /\ UNCHANGED <<budget, mgr, closing, poll, stored, online, cache, presence, inbox, req>>

\* A buddy signs on or off; the user's sessions are told if they list it.
BuddyMoves(b) ==
  LET snac == <<SNAC(IF b \in online THEN "departed" ELSE "arrived", {b})>>
  IN  /\ Spend("moves")
      /\ online' = IF b \in online THEN online \ {b} ELSE online \cup {b}
      /\ inbox' = IF b \in listed(stored) THEN tell(inbox, Sessions, snac) ELSE inbox
      /\ UNCHANGED <<mgr, sess, closing, queue, poll, client, stored, cache, presence, render, req>>

ReceiveIM(s) ==
  /\ SignedOn(s) /\ Spend("ims")
  /\ inbox' = tell(inbox, {s}, <<SNAC("im", {})>>)
  /\ UNCHANGED <<mgr, sess, closing, queue, poll, client, stored, online, cache, presence, render, req>>

\* A tick passes only with nothing under way here either.
RosterSettled ==
  /\ \A r \in Requests : req[r].at \in {"none", "done"}
  /\ \A s \in Sessions : /\ sess[s].listener # "busy"
                         /\ sess[s].listener = "running" => inbox[s] = <<>>

SessionStep == SessionNext /\ UNCHANGED rosterVars
TimePasses == RosterSettled /\ Tick /\ UNCHANGED rosterVars

Next ==
  \/ SessionStep \/ TimePasses
  \/ \E s \in Sessions :
       \/ ClientOnline(s) \/ SeedRenders(s) \/ SeedPushes(s) \/ ReceiveIM(s)
       \/ handleFeedbagMessage(s) \/ refreshBuddyList(s) \/ handleBuddyMessage(s) \/ handleIncomingIM(s)
  \/ \E b \in Buddies : BuddyMoves(b)
  \/ \E r \in Requests :
       \/ EditReads(r) \/ EditStores(r) \/ EditFails(r) \/ EditTells(r) \/ EditForgets(r) \/ EditEnds(r)
       \/ \E s \in Sessions, op \in budget.ops : Edit(r, s, op)

Spec == Init /\ [][Next]_vars

---------------------------------------------------------------------------
\* A session whose client has fetched everything, with nothing under way.
Quiet(s) ==
  /\ \A r \in Requests : req[r].at \in {"none", "done"}
  /\ inbox[s] = <<>>
  /\ sess[s].listener = "running" /\ sess[s].inst = "open" /\ sess[s].start = "done"
  /\ client[s].view.last = queue[s].seq /\ ~client[s].view.gap /\ ~queue[s].closed

\* What a client shows is what is stored: when everything has been delivered,
\* each session shows the stored list, and each buddy on it as it is, after any
\* edits made through any of the sessions, one failing included
\* (session.go:885-957, buddy_list_manager.go).  A seed pushed after newer
\* events is excepted until the next list comes.
ListIsCurrent ==
  \A s \in Sessions : (Quiet(s) /\ ~client[s].view.late) =>
    /\ client[s].view.list = GetBuddyListForUser(stored)
    /\ budget.watched => client[s].view.shown \cap listed(stored) = online \cap listed(stored)

\* The same of every list, the seed included: the presence events correct the seed
\* (buddy_list_manager.go:161).  The code breaks it (README, section 6).
SeedIsCurrent ==
  \A s \in Sessions : Quiet(s) => client[s].view.list = GetBuddyListForUser(stored)

\* A removed group is gone from what is stored (buddy_list_manager.go:284).  The
\* code breaks it for the unnamed group (README, section 6).
RemovedGroupIsGone ==
  \A r \in Requests :
    (/\ req[r].at = "end" /\ req[r].plan = <<>> /\ req[r].op.do = "removeGroup"
     /\ \A r2 \in Requests \ {r} : req[r2] = NoReq)
      => storedGroups(stored, req[r].op.group) = {}
====
