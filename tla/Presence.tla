------------------------------ MODULE Presence ------------------------------
(***************************************************************************)
(* Who sees whom online.  A user's privacy settings live in the database:  *)
(* the client-side buddy list with its mode, both dropped when the user    *)
(* signs off, and the feedbag, which stays.  Every request that touches    *)
(* them, and every sign-on and sign-off, ends in a broadcast that reads    *)
(* the relationships once and then relays arrivals and departures one user *)
(* at a time (foodgroup/buddy.go), without a lock: requests of different   *)
(* users, and a user's request and the teardown of its session, interleave *)
(* between any two of these steps.                                         *)
(*                                                                         *)
(* A client keeps the set of buddies it shows as online; messages to one   *)
(* client are queued in the order they are relayed, so a relay updates the *)
(* set at once.  An account has one connection here (SessionManager has    *)
(* several).  Screen names are AIM names: no ICQ authorization.            *)
(***************************************************************************)
EXTENDS Naturals, FiniteSets

CONSTANTS
  Users,
  NoRow,        \* the user has no row in buddyListMode
  EarlyKinds,   \* the kinds of requests a client sends before it says it is online
  MaxSignOns,   \* bound: sign-ons of one user
  Loads         \* what the clients do (load below): one element, or several for one run

ASSUME PresenceAssumption ==
  /\ IsFiniteSet(Users)
  /\ NoRow \notin [useFeedbag : BOOLEAN, pd : 0..5]
  /\ \A l \in Loads : /\ DOMAIN l.kinds = Users
                      /\ l.modes \subseteq 1..5
                      /\ l.late \subseteq Users

PermitAll == 1
DenyAll == 2
PermitSome == 3
DenySome == 4
PermitOnList == 5

VARIABLES
  modeRow,     \* table buddyListMode: user -> row or NoRow
  clientSide,  \* table clientSideBuddyList: user -> (listed user -> flags)
  feedbag,     \* table feedbag: user -> items
  conn,        \* "off", "registered", "online" (sign-on complete) or "closing"
  contactsInit,\* SessionInstance.contactsInit
  invisible,
  txn,         \* the feedbag transaction of the connection
  job,         \* what the connection's goroutine and the close hook are doing
  view,        \* the users a client shows as online
  requests, signOns,
  load         \* kinds: the kinds of requests each client sends; modes: the modes they
               \* ask for; late: the users whose client may say it is online before it
               \* sends or activates its list; requests, inFlight: bounds on the requests
               \* of one user and on what is under way at once (requests, clusters, teardowns)

stored == <<modeRow, clientSide, feedbag>>
bounds == <<requests, signOns, load>>
vars == <<modeRow, clientSide, feedbag, conn, contactsInit, invisible, txn, job,
          view, requests, signOns, load>>

Procs == Users \X {"conn", "hook"}
Owner(p) == p[1]
Idle == [pc |-> "idle"]
NoTxn == [active |-> FALSE, send |-> FALSE, names |-> {}]
Flags == {"buddy", "permit", "deny"}
Entries == [class : Flags, name : Users]
PdInfos == [class : {"pdinfo"}, mode : 1..5]
Empty == [w \in {} |-> {}]

Init ==
  /\ modeRow = [u \in Users |-> NoRow]
  /\ clientSide = [u \in Users |-> Empty]
  /\ feedbag = [u \in Users |-> {}]
  /\ conn = [u \in Users |-> "off"]
  /\ contactsInit = [u \in Users |-> FALSE]
  /\ invisible = [u \in Users |-> FALSE]
  /\ txn = [u \in Users |-> NoTxn]
  /\ job = [p \in Procs |-> Idle]
  /\ view = [u \in Users |-> {}]
  /\ requests = [u \in Users |-> 0]
  /\ signOns = [u \in Users |-> 0]
  /\ load \in Loads

-----------------------------------------------------------------------------
(* AllRelationships: one query over the three tables.                      *)

UsesFeedbag(u) == modeRow[u] # NoRow /\ modeRow[u].useFeedbag

\* The flags user u has set for user w, in either list.
FlagsOf(u, w) ==
  (IF w \in DOMAIN clientSide[u] THEN clientSide[u][w] ELSE {})
    \cup {f \in Flags : UsesFeedbag(u) /\ [class |-> f, name |-> w] \in feedbag[u]}

Listed(u) ==
  DOMAIN clientSide[u]
    \cup {w \in Users : UsesFeedbag(u) /\ \E f \in Flags : [class |-> f, name |-> w] \in feedbag[u]}

\* The feedbag's mode: it holds one at most.
pdPref(prefs) == IF prefs = {} THEN PermitAll ELSE CHOOSE m \in prefs : TRUE

pdMode(u) ==
  IF ~UsesFeedbag(u) THEN modeRow[u].pd ELSE pdPref({i.mode : i \in feedbag[u] \cap PdInfos})

Blocks(u, w) ==
  \/ pdMode(u) = DenyAll
  \/ pdMode(u) = PermitSome /\ "permit" \notin FlagsOf(u, w)
  \/ pdMode(u) = DenySome /\ "deny" \in FlagsOf(u, w)
  \/ pdMode(u) = PermitOnList /\ "buddy" \notin FlagsOf(u, w)

\* The rows of the query for me.  An empty filter means everybody.
AllRelationships(me, filter) ==
  {[user |-> w,
    youBlock |-> Blocks(me, w),
    blocksYou |-> Blocks(w, me),
    onTheirs |-> "buddy" \in FlagsOf(w, me),
    onYours |-> "buddy" \in FlagsOf(me, w)] :
     w \in {v \in Users \ {me} : /\ modeRow[me] # NoRow
                                 /\ modeRow[v] # NoRow
                                 /\ v \in Listed(me) \/ me \in Listed(v)
                                 /\ filter = {} \/ v \in filter}}

\* Relationship: the row of one user, or the default one.
Relationship(me, them) ==
  LET rows == AllRelationships(me, {them})
  IN  IF rows # {} THEN CHOOSE r \in rows : TRUE
      ELSE [user |-> them, youBlock |-> FALSE, blocksYou |-> FALSE,
            onTheirs |-> FALSE, onYours |-> FALSE]

-----------------------------------------------------------------------------
(* Relaying.  RetrieveSession and the relay itself look for a live         *)
(* instance: signed on completely and not closed.                          *)

live(u) == conn[u] = "online"

\* The clients' sets after the messages msgs = {<<to, about, arrived>>, ...}
\* were relayed.  A client ignores users it does not list.
relayed(msgs) ==
  [u \in Users |->
     IF ~live(u) THEN view[u]
     ELSE (view[u] \cup {w \in Users : <<u, w, TRUE>> \in msgs /\ "buddy" \in FlagsOf(u, w)})
            \ {w \in Users : <<u, w, FALSE>> \in msgs}]

goto(p, j) == job' = [job EXCEPT ![p] = j]

BroadcastVisibility(filter, doSendDepartures) ==
  [pc |-> "read", filter |-> filter, departures |-> doSendDepartures]

\* It reads the relationships and the caller's own user info.
readVisibility(p) ==
  /\ job[p].pc = "read"
  /\ goto(p, [pc |-> "next", departures |-> job[p].departures,
              rows |-> {r \in AllRelationships(Owner(p), job[p].filter) : ~r.blocksYou},
              visible |-> ~invisible[Owner(p)]])
  /\ UNCHANGED <<stored, conn, contactsInit, invisible, txn, view, bounds>>

\* It takes the next row and looks the other user's session up.
lookup(p) ==
  /\ job[p].pc = "next"
  /\ IF job[p].rows = {} THEN goto(p, Idle)
     ELSE \E r \in job[p].rows :
            LET j == job[p]
                rest == j.rows \ {r}
            IN  IF ~live(r.user)
                THEN goto(p, [pc |-> "next", departures |-> j.departures, rows |-> rest, visible |-> j.visible])
                ELSE goto(p, [pc |-> "tell", departures |-> j.departures, rows |-> rest, visible |-> j.visible,
                              row |-> r, theirs |-> ~invisible[r.user]])
  /\ UNCHANGED <<stored, conn, contactsInit, invisible, txn, view, bounds>>

\* It tells the other user and the caller about each other: arrivals where
\* the caller does not block, departures where it does.
tell(p) ==
  LET j == job[p]
      arrived == ~j.row.youBlock
      sends(isVisible) == IF arrived THEN isVisible ELSE j.departures
  IN  /\ j.pc = "tell"
      /\ view' = relayed(
           {m \in {<<j.row.user, Owner(p), arrived>>} : j.row.onTheirs /\ sends(j.visible)} \cup
           {m \in {<<Owner(p), j.row.user, arrived>>} : j.row.onYours /\ sends(j.theirs)})
      /\ goto(p, [pc |-> "next", departures |-> j.departures, rows |-> j.rows, visible |-> j.visible])
      /\ UNCHANGED <<stored, conn, contactsInit, invisible, txn, bounds>>

\* BroadcastBuddyArrived and BroadcastBuddyDeparted: the same recipients.
Broadcast(arrived) == [pc |-> "readAll", arrived |-> arrived]

readRecipients(p) ==
  /\ job[p].pc = "readAll"
  /\ goto(p, [pc |-> "relay", arrived |-> job[p].arrived,
              to |-> {r.user : r \in {q \in AllRelationships(Owner(p), {}) :
                                        q.onTheirs /\ ~q.youBlock /\ ~q.blocksYou}}])
  /\ UNCHANGED <<stored, conn, contactsInit, invisible, txn, view, bounds>>

relay(p) ==
  /\ job[p].pc = "relay"
  /\ IF job[p].to = {}
     THEN /\ goto(p, IF p[2] = "hook" THEN [pc |-> "unregister"] ELSE Idle)
          /\ UNCHANGED view
     ELSE \E u \in job[p].to :
            /\ view' = relayed({<<u, Owner(p), job[p].arrived>>})
            /\ goto(p, [pc |-> "relay", arrived |-> job[p].arrived, to |-> job[p].to \ {u}])
  /\ UNCHANGED <<stored, conn, contactsInit, invisible, txn, bounds>>

-----------------------------------------------------------------------------
(* The store's statements.                                                 *)

\* RegisterBuddyList and UnregisterBuddyList.
RegisterBuddyList(u) ==
  modeRow' = [modeRow EXCEPT ![u] = IF @ = NoRow THEN [useFeedbag |-> FALSE, pd |-> PermitAll] ELSE @]

\* Mutant: the list is left behind.
UnregisterModeOnly(u) ==
  /\ modeRow' = [modeRow EXCEPT ![u] = NoRow]
  /\ UNCHANGED clientSide

UnregisterBuddyList(u) ==
  /\ modeRow' = [modeRow EXCEPT ![u] = NoRow]
  /\ clientSide' = [clientSide EXCEPT ![u] = Empty]

UseFeedbag(u) == modeRow' = [modeRow EXCEPT ![u] = [useFeedbag |-> TRUE, pd |-> 0]]

\* SetPDMode: nothing when the mode is set already; else the permit and deny
\* flags go, and with them the rows that are left blank.
SetPDMode(u, mode) ==
  IF modeRow[u] # NoRow /\ modeRow[u].pd = mode
  THEN UNCHANGED <<modeRow, clientSide>>
  ELSE /\ modeRow' = [modeRow EXCEPT ![u] = [useFeedbag |-> UsesFeedbag(u), pd |-> mode]]
       /\ clientSide' = [clientSide EXCEPT ![u] =
                           [w \in {v \in DOMAIN clientSide[u] : "buddy" \in clientSide[u][v]} |-> {"buddy"}]]

\* AddBuddy, DenyBuddy, PermitBuddy: a row is made where there is none.
setFlag(u, names, flag) ==
  clientSide' = [clientSide EXCEPT ![u] =
    [w \in DOMAIN clientSide[u] \cup names |->
       (IF w \in DOMAIN clientSide[u] THEN clientSide[u][w] ELSE {}) \cup {f \in {flag} : w \in names}]]

\* RemoveBuddy, RemoveDenyBuddy, RemovePermitBuddy: the row stays.
clearFlag(u, names, flag) ==
  clientSide' = [clientSide EXCEPT ![u] =
    [w \in DOMAIN clientSide[u] |-> clientSide[u][w] \ {f \in {flag} : w \in names}]]

FeedbagUpsert(u, item) ==
  feedbag' = [feedbag EXCEPT ![u] =
    (IF item.class = "pdinfo" THEN @ \ PdInfos ELSE @) \cup {item}]

FeedbagDelete(u, item) ==
  feedbag' = [feedbag EXCEPT ![u] = @ \ {item}]

\* The server starts with an empty registry (cmd/server/factory.go).
ClearBuddyListRegistry ==
  /\ modeRow' = [u \in Users |-> NoRow]
  /\ clientSide' = [u \in Users |-> Empty]

-----------------------------------------------------------------------------
(* Signing on.                                                             *)

\* An open cluster of another user is under way too: its changes are stored
\* and not yet broadcast.
inCluster(u) == txn[u].active /\ conn[u] \in {"registered", "online"}

mayStart(u) ==
  Cardinality({p \in Procs : job[p] # Idle} \cup {<<w, "cluster">> : w \in {v \in Users \ {u} : inCluster(v)}})
    < load.inFlight

\* RegisterBOSSession succeeded and RunOnce made the buddy list visible.
SignOn(u) ==
  /\ conn[u] = "off" /\ job[<<u, "conn">>] = Idle
  /\ signOns[u] < MaxSignOns
  /\ conn' = [conn EXCEPT ![u] = "registered"]
  /\ RegisterBuddyList(u)
  /\ contactsInit' = [contactsInit EXCEPT ![u] = FALSE]
  /\ invisible' = [invisible EXCEPT ![u] = FALSE]
  /\ txn' = [txn EXCEPT ![u] = NoTxn]
  /\ signOns' = [signOns EXCEPT ![u] = @ + 1]
  /\ UNCHANGED <<clientSide, feedbag, job, view, requests, load>>

ClientOnline(u) ==
  LET p == <<u, "conn">>
  IN  /\ conn[u] = "registered" /\ job[p] = Idle /\ mayStart(u)
      /\ u \in load.late \/ contactsInit[u]
      /\ conn' = [conn EXCEPT ![u] = "online"]
      /\ IF contactsInit[u] THEN goto(p, BroadcastVisibility({}, FALSE)) ELSE UNCHANGED job
      /\ UNCHANGED <<stored, contactsInit, invisible, txn, view, bounds>>

-----------------------------------------------------------------------------
(* Requests.  The connection's goroutine handles one at a time.            *)

RequestsOf(u) ==
  LET others == SUBSET (Users \ {u})
      some == others \ {{}}
      of(kind, args) == {[kind |-> kind, arg |-> a] : a \in {b \in args : kind \in load.kinds[u]}}
      \* a single name, one's own, stands for everybody
      modes == {i \in PdInfos : i.mode \in load.modes}
      items == {e \in Entries : e.name # u} \cup modes
  IN  of("AddBuddies", others) \cup of("DelBuddies", some)
        \cup of("AddDenyListEntries", some \cup {{u}}) \cup of("DelDenyListEntries", some)
        \cup of("AddPermListEntries", some \cup {{u}}) \cup of("DelPermListEntries", some)
        \cup of("SetUserInfoFields", BOOLEAN) \cup of("IdleNotification", {{}})
        \cup of("Use", {{}}) \cup of("StartCluster", {{}}) \cup of("EndCluster", {{}})
        \cup of("UpsertItem", {{i} : i \in items})
        \cup of("UpsertItems", {{i, pd} : i \in items \ PdInfos, pd \in modes})
        \cup of("DeleteItem", {{i} : i \in items})

\* A request arrives.  Feedbag requests are those of clients that use it.
Receive(u) ==
  /\ conn[u] \in {"registered", "online"}
  /\ job[<<u, "conn">>] = Idle
  /\ mayStart(u) /\ requests[u] < load.requests
  /\ \E r \in RequestsOf(u) :
       /\ conn[u] = "online" \/ r.kind \in EarlyKinds
       /\ r.kind \in {"UpsertItem", "UpsertItems", "DeleteItem", "StartCluster", "EndCluster"} => UsesFeedbag(u)
       /\ goto(<<u, "conn">>, [pc |-> "handle", req |-> r, signedOn |-> live(u)])
  /\ requests' = [requests EXCEPT ![u] = @ + 1]
  /\ UNCHANGED <<stored, conn, contactsInit, invisible, txn, view, signOns, load>>

handling(u, kind) ==
  /\ job[<<u, "conn">>].pc = "handle"
  /\ job[<<u, "conn">>].req.kind = kind

arg(u) == job[<<u, "conn">>].req.arg
signedOn(u) == job[<<u, "conn">>].signedOn
done(u) == goto(<<u, "conn">>, Idle)
broadcast(u, filter, doSendDepartures) ==
  goto(<<u, "conn">>, BroadcastVisibility(filter, doSendDepartures))

\* Only clients that finished signing on are told.
maybeBroadcastVisibility(u, filter) ==
  IF signedOn(u) THEN broadcast(u, filter, TRUE) ELSE done(u)

\* A client that removes a buddy forgets what it showed of it.
forget(u, names) == view' = [view EXCEPT ![u] = @ \ names]

AddBuddies(u) ==
  /\ handling(u, "AddBuddies")
  /\ setFlag(u, arg(u), "buddy")
  /\ contactsInit' = [contactsInit EXCEPT ![u] = TRUE]
  /\ IF arg(u) # {} THEN maybeBroadcastVisibility(u, arg(u)) ELSE done(u)
  /\ UNCHANGED <<modeRow, feedbag, conn, invisible, txn, view, bounds>>

DelBuddies(u) ==
  /\ handling(u, "DelBuddies")
  /\ clearFlag(u, arg(u), "buddy")
  /\ forget(u, arg(u))
  /\ broadcast(u, arg(u), TRUE)
  /\ UNCHANGED <<modeRow, feedbag, conn, contactsInit, invisible, txn, bounds>>

\* The mode is stored first, the entries by statements of their own.
addEntries(u, kind, all, mode, flag) ==
  /\ handling(u, kind)
  /\ IF arg(u) = {u}
     THEN SetPDMode(u, all) /\ maybeBroadcastVisibility(u, {})
     ELSE /\ SetPDMode(u, mode)
          /\ goto(<<u, "conn">>, [pc |-> "entries", flag |-> flag, names |-> arg(u), signedOn |-> signedOn(u)])
  /\ UNCHANGED <<feedbag, conn, contactsInit, invisible, txn, view, bounds>>

AddDenyListEntries(u) == addEntries(u, "AddDenyListEntries", PermitAll, DenySome, "deny")
AddPermListEntries(u) == addEntries(u, "AddPermListEntries", DenyAll, PermitSome, "permit")

\* Mutant: arrivals only.
storeEntriesNoDepartures(u) ==
  LET j == job[<<u, "conn">>]
  IN  /\ j.pc = "entries"
      /\ setFlag(u, j.names, j.flag)
      /\ IF j.signedOn THEN broadcast(u, {}, FALSE) ELSE done(u)
      /\ UNCHANGED <<modeRow, feedbag, conn, contactsInit, invisible, txn, view, bounds>>

storeEntries(u) ==
  LET j == job[<<u, "conn">>]
  IN  /\ j.pc = "entries"
      /\ setFlag(u, j.names, j.flag)
      /\ IF j.signedOn THEN broadcast(u, {}, TRUE) ELSE done(u)
      /\ UNCHANGED <<modeRow, feedbag, conn, contactsInit, invisible, txn, view, bounds>>

delEntries(u, kind, flag) ==
  /\ handling(u, kind)
  /\ clearFlag(u, arg(u), flag)
  /\ maybeBroadcastVisibility(u, arg(u))
  /\ UNCHANGED <<modeRow, feedbag, conn, contactsInit, invisible, txn, view, bounds>>

DelDenyListEntries(u) == delEntries(u, "DelDenyListEntries", "deny")
DelPermListEntries(u) == delEntries(u, "DelPermListEntries", "permit")

SetUserInfoFields(u) ==
  /\ handling(u, "SetUserInfoFields")
  /\ invisible' = [invisible EXCEPT ![u] = arg(u)]
  /\ goto(<<u, "conn">>, Broadcast(~arg(u)))
  /\ UNCHANGED <<stored, conn, contactsInit, txn, view, bounds>>

\* As SetInfo and every other change of a user's info; nothing is sent while
\* the user is invisible.
IdleNotification(u) ==
  /\ handling(u, "IdleNotification")
  /\ IF invisible[u] THEN done(u) ELSE goto(<<u, "conn">>, Broadcast(TRUE))
  /\ UNCHANGED <<stored, conn, contactsInit, invisible, txn, view, bounds>>

-----------------------------------------------------------------------------
(* Feedbag requests.                                                       *)

Use(u) ==
  /\ handling(u, "Use")
  /\ UseFeedbag(u)
  /\ contactsInit' = [contactsInit EXCEPT ![u] = TRUE]
  /\ IF signedOn(u) THEN broadcast(u, {}, FALSE) ELSE done(u)
  /\ UNCHANGED <<clientSide, feedbag, conn, invisible, txn, view, bounds>>

namesIn(items) == {i.name : i \in items \ PdInfos}

\* NotifyTxn while a cluster is open, else the broadcast.
notify(u, filter) ==
  IF txn[u].active
  THEN /\ txn' = [txn EXCEPT ![u].send = TRUE, ![u].names = @ \cup filter]
       /\ done(u)
  ELSE broadcast(u, filter, TRUE) /\ UNCHANGED txn

\* FeedbagUpsert stores the items one after another.
UpsertItem(u) ==
  LET j == job[<<u, "conn">>]
      left == IF "left" \in DOMAIN j THEN j.left ELSE arg(u)
  IN  /\ handling(u, "UpsertItem") \/ handling(u, "UpsertItems")
      /\ \E item \in left :
           /\ FeedbagUpsert(u, item)
           /\ IF left = {item} THEN notify(u, namesIn(arg(u)))
              ELSE /\ goto(<<u, "conn">>, [pc |-> "handle", req |-> j.req, signedOn |-> j.signedOn,
                                           left |-> left \ {item}])
                   /\ UNCHANGED txn
      /\ UNCHANGED <<modeRow, clientSide, conn, contactsInit, invisible, view, bounds>>

DeleteItem(u) ==
  /\ handling(u, "DeleteItem")
  /\ \E item \in arg(u) : FeedbagDelete(u, item)
  /\ forget(u, {i.name : i \in {e \in arg(u) : e.class = "buddy"}})
  /\ notify(u, namesIn(arg(u)))
  /\ UNCHANGED <<modeRow, clientSide, conn, contactsInit, invisible, bounds>>

StartCluster(u) ==
  /\ handling(u, "StartCluster")
  /\ txn' = [txn EXCEPT ![u] = [active |-> TRUE, send |-> FALSE, names |-> {}]]
  /\ done(u)
  /\ UNCHANGED <<stored, conn, contactsInit, invisible, view, bounds>>

EndCluster(u) ==
  /\ handling(u, "EndCluster")
  /\ txn' = [txn EXCEPT ![u] = NoTxn]
  /\ IF txn[u].active /\ txn[u].send THEN broadcast(u, txn[u].names, TRUE) ELSE done(u)
  /\ UNCHANGED <<stored, conn, contactsInit, invisible, view, bounds>>

-----------------------------------------------------------------------------
(* Signing off, and the server.                                            *)

\* The connection closes, at any time: from now on it is not live, and the
\* close hook runs.
Close(u) ==
  /\ conn[u] \in {"registered", "online"} /\ mayStart(u)
  /\ conn' = [conn EXCEPT ![u] = "closing"]
  /\ view' = [view EXCEPT ![u] = {}]
  /\ goto(<<u, "hook">>, Broadcast(FALSE))
  /\ UNCHANGED <<stored, contactsInit, invisible, txn, bounds>>

\* Mutant: the session may leave the registry before the departures are out.
SignoutEarly(u) ==
  LET p == <<u, "hook">>
  IN  /\ job[p].pc \in {"relay", "unregister"}
      /\ IF conn[u] = "closing"
         THEN UnregisterBuddyList(u) /\ conn' = [conn EXCEPT ![u] = "off"]
         ELSE UNCHANGED <<modeRow, clientSide, conn>>
      /\ IF job[p].pc = "unregister" THEN goto(p, Idle) ELSE conn[u] = "closing" /\ UNCHANGED job
      /\ UNCHANGED <<feedbag, contactsInit, invisible, txn, view, bounds>>

\* The rest of the hook: the registry is cleared, the session removed.
Signout(u) ==
  /\ job[<<u, "hook">>].pc = "unregister"
  /\ UnregisterBuddyList(u)
  /\ conn' = [conn EXCEPT ![u] = "off"]
  /\ goto(<<u, "hook">>, Idle)
  /\ UNCHANGED <<feedbag, contactsInit, invisible, txn, view, bounds>>

\* The server stops and starts again.
Restart ==
  /\ \E u \in Users : conn[u] # "off"
  /\ ClearBuddyListRegistry
  /\ conn' = [u \in Users |-> "off"]
  /\ job' = [p \in Procs |-> Idle]
  /\ view' = [u \in Users |-> {}]
  /\ UNCHANGED <<feedbag, contactsInit, invisible, txn, bounds>>

step(p) ==
  \/ readVisibility(p) \/ lookup(p) \/ tell(p)
  \/ readRecipients(p) \/ relay(p)

Next ==
  \/ \E p \in Procs : step(p)
  \/ \E u \in Users :
       \/ SignOn(u) \/ ClientOnline(u) \/ Receive(u) \/ Close(u) \/ Signout(u)
       \/ AddBuddies(u) \/ DelBuddies(u)
       \/ AddDenyListEntries(u) \/ AddPermListEntries(u) \/ storeEntries(u)
       \/ DelDenyListEntries(u) \/ DelPermListEntries(u)
       \/ SetUserInfoFields(u) \/ IdleNotification(u)
       \/ Use(u) \/ UpsertItem(u) \/ DeleteItem(u) \/ StartCluster(u) \/ EndCluster(u)
  \/ Restart

Spec == Init /\ [][Next]_vars

-----------------------------------------------------------------------------
(* Properties.                                                             *)

TypeOK ==
  /\ \A u \in Users :
       /\ modeRow[u] = NoRow \/ modeRow[u] \in [useFeedbag : BOOLEAN, pd : 0..5]
       /\ DOMAIN clientSide[u] \subseteq Users \ {u}
       /\ \A w \in DOMAIN clientSide[u] : clientSide[u][w] \subseteq Flags
       /\ feedbag[u] \subseteq Entries \cup PdInfos
       /\ Cardinality(feedbag[u] \cap PdInfos) <= 1
       /\ view[u] \subseteq Users \ {u}
       /\ conn[u] = "off" => view[u] = {}
  /\ conn \in [Users -> {"off", "registered", "online", "closing"}]
  /\ contactsInit \in [Users -> BOOLEAN] /\ invisible \in [Users -> BOOLEAN]
  /\ txn \in [Users -> [active : BOOLEAN, send : BOOLEAN, names : SUBSET Users]]

Quiet == /\ \A p \in Procs : job[p] = Idle
         /\ \A u \in Users : ~inCluster(u)

Visible(u, w) == ~invisible[w] /\ ~Blocks(u, w) /\ ~Blocks(w, u)

\* When nothing is under way, a client whose contact list is ready shows every
\* buddy that is online, announced (its own list is ready), visible, and blocked
\* by neither side: no interleaving of sign-ons, sign-offs and privacy changes
\* makes one miss an arrival for good (BroadcastVisibility, AllRelationships).
BuddiesSeen ==
  Quiet => \A u, w \in Users :
    u # w /\ live(u) /\ contactsInit[u] /\ live(w) /\ contactsInit[w]
          /\ "buddy" \in FlagsOf(u, w) /\ Visible(u, w)
      => w \in view[u]

\* When nothing is under way, and no two requests or teardowns have overlapped,
\* a client shows no buddy that has signed off, is invisible, or is blocked by
\* either side: every departure reached it after the last arrival
\* (BroadcastVisibility's doc, buddy.go:294).
NoGhosts ==
  Quiet /\ load.inFlight = 1 => \A u, w \in Users :
    u # w /\ live(u) /\ w \in view[u] /\ "buddy" \in FlagsOf(u, w)
      => conn[w] \in {"registered", "online"} /\ (conn[w] = "online" => Visible(u, w))

\* An account that has signed off leaves no row behind in the buddy list
\* registry, so its next session starts with an empty list and no mode
\* (UnregisterBuddyList in the close hook, ClearBuddyListRegistry), as long as
\* no request is still at work when the session closes.
RegistryMatchesSessions ==
  load.inFlight = 1 => \A u \in Users : conn[u] = "off" => modeRow[u] = NoRow /\ clientSide[u] = Empty

\* Relationship.BlocksYou is what its doc says, for every two users with an
\* active buddy list (relationship.go:148-153).
BlocksYouAsDocumented ==
  \A u, w \in Users : u # w /\ modeRow[u] # NoRow /\ modeRow[w] # NoRow
    => Relationship(u, w).blocksYou = Blocks(w, u)
=============================================================================
