--------------------------- MODULE Presence_proofs ---------------------------
(***************************************************************************)
(* Proofs about Presence, for every finite set of users, all kinds of       *)
(* clients and any number of requests and sign-ons.                        *)
(***************************************************************************)
EXTENDS Presence, FiniteSetTheorems, TLAPS

Tables ==
  /\ modeRow = [u \in Users |-> modeRow[u]]
  /\ clientSide = [u \in Users |-> clientSide[u]]
  /\ conn = [u \in Users |-> conn[u]]
  /\ job = [p \in Procs |-> job[p]]

\* A connection has work only between sign-on and close, its close hook only from the close
\* to the end of the teardown.
WorkInv == \A u \in Users : /\ job[<<u, "conn">>] # Idle => conn[u] \in {"registered", "online"}
                            /\ job[<<u, "hook">>] # Idle => conn[u] = "closing"

RowsInv == \A u \in Users : conn[u] = "off" => modeRow[u] = NoRow /\ clientSide[u] = Empty

RegistryInv == Tables /\ (load.inFlight = 1 => WorkInv /\ RowsInv)

-----------------------------------------------------------------------------
\* Where one thing at a time is under way, what starts finds all the others idle.
LEMMA StartsAlone ==
  ASSUME NEW u \in Users, mayStart(u), load.inFlight = 1
  PROVE  \A p \in Procs : job[p] = Idle
  <1> DEFINE Busy == {p \in Procs : job[p] # Idle}
             Clusters == {<<w, "cluster">> : w \in {v \in Users \ {u} : inCluster(v)}}
  <1>1. IsFiniteSet({"conn", "hook", "cluster"})
    <2>1. IsFiniteSet({"conn"})
      BY FS_Singleton
    <2>2. IsFiniteSet({"conn"} \cup {"hook"})
      BY <2>1, FS_AddElement
    <2>3. IsFiniteSet(({"conn"} \cup {"hook"}) \cup {"cluster"})
      BY <2>2, FS_AddElement
    <2>4. {"conn", "hook", "cluster"} = ({"conn"} \cup {"hook"}) \cup {"cluster"}
      OBVIOUS
    <2> QED BY <2>3, <2>4
  <1>2. IsFiniteSet(Users \X {"conn", "hook", "cluster"})
    BY <1>1, PresenceAssumption, FS_Product
  <1>3. Busy \cup Clusters \subseteq Users \X {"conn", "hook", "cluster"}
    BY DEF Procs
  <1>4. IsFiniteSet(Busy \cup Clusters)
    BY <1>2, <1>3, FS_Subset
  <1>5. Cardinality(Busy \cup Clusters) < 1
    BY DEF mayStart
  <1> HIDE DEF Busy, Clusters
  <1>6. Busy \cup Clusters = {}
    BY <1>4, <1>5, FS_EmptySet, FS_CardinalityType
  <1> QED BY <1>6 DEF Busy

\* The steps of a connection's goroutine and of a close hook, which write the rows of their
\* own user only, and end with their work.
LEMMA WorkStep ==
  ASSUME RegistryInv, NEW u \in Users, NEW p \in {<<u, "conn">>, <<u, "hook">>}, NEW j,
         job[p] # Idle, job' = [job EXCEPT ![p] = j],
         UNCHANGED <<conn, load>>,
         p = <<u, "hook">> => UNCHANGED <<modeRow, clientSide>>,
         modeRow' = modeRow \/ \E r : modeRow' = [modeRow EXCEPT ![u] = r],
         clientSide' = clientSide \/ \E c : clientSide' = [clientSide EXCEPT ![u] = c]
  PROVE  RegistryInv'
  <1>1. p \in Procs /\ <<u, "conn">> # <<u, "hook">>
    BY DEF Procs
  <1>2. Tables'
    BY DEF RegistryInv, Tables
  <1>3. ASSUME load.inFlight = 1 PROVE WorkInv'
    <2>1. ASSUME NEW w \in Users, NEW t \in {"conn", "hook"}, job'[<<w, t>>] # Idle
          PROVE  job[<<w, t>>] # Idle
      BY <1>1, <2>1 DEF RegistryInv, Tables, Procs
    <2> QED BY <1>3, <2>1 DEF RegistryInv, WorkInv
  <1>4. ASSUME load.inFlight = 1 PROVE RowsInv'
    <2>1. conn[u] # "off"
      BY <1>3, <1>4 DEF RegistryInv, WorkInv
    <2>2. ASSUME NEW w \in Users \ {u} PROVE modeRow'[w] = modeRow[w] /\ clientSide'[w] = clientSide[w]
      BY DEF RegistryInv, Tables
    <2> QED BY <1>4, <2>1, <2>2 DEF RegistryInv, RowsInv
  <1> QED BY <1>2, <1>3, <1>4 DEF RegistryInv

LEMMA InitRegistry == Init => RegistryInv
  BY DEF Init, RegistryInv, Tables, WorkInv, RowsInv, Procs

LEMMA SignOnStep ==
  ASSUME RegistryInv, NEW u \in Users, SignOn(u)
  PROVE  RegistryInv'
  <1>1. Tables'
    BY DEF RegistryInv, Tables, SignOn, RegisterBuddyList
  <1>2. ASSUME load.inFlight = 1 PROVE WorkInv' /\ RowsInv'
    <2>1. WorkInv /\ RowsInv /\ conn[u] = "off" /\ job' = job /\ clientSide' = clientSide
      BY <1>2 DEF RegistryInv, SignOn
    <2>2. conn'[u] = "registered" /\ \A w \in Users \ {u} : conn'[w] = conn[w] /\ modeRow'[w] = modeRow[w]
      BY DEF RegistryInv, Tables, SignOn, RegisterBuddyList
    <2> QED BY <2>1, <2>2 DEF WorkInv, RowsInv
  <1>3. load' = load
    BY DEF SignOn
  <1> QED BY <1>1, <1>2, <1>3 DEF RegistryInv

LEMMA ClientOnlineStep ==
  ASSUME RegistryInv, NEW u \in Users, ClientOnline(u)
  PROVE  RegistryInv'
  <1>1. /\ conn' = [conn EXCEPT ![u] = "online"] /\ UNCHANGED <<modeRow, clientSide, load>>
        /\ conn[u] = "registered"
        /\ job' = job \/ \E j : job' = [job EXCEPT ![<<u, "conn">>] = j]
    BY DEF ClientOnline, goto, stored, bounds
  <1>2. Tables'
    BY <1>1 DEF RegistryInv, Tables
  <1>3. ASSUME load.inFlight = 1 PROVE WorkInv' /\ RowsInv'
    <2>1. WorkInv /\ RowsInv
      BY <1>3 DEF RegistryInv
    <2>2. conn'[u] = "online" /\ \A w \in Users \ {u} : conn'[w] = conn[w]
      BY <1>1 DEF RegistryInv, Tables
    <2>3. \A w \in Users : job'[<<w, "hook">>] = job[<<w, "hook">>]
      BY <1>1 DEF RegistryInv, Tables, Procs
    <2>4. \A w \in Users \ {u} : job'[<<w, "conn">>] = job[<<w, "conn">>]
      BY <1>1 DEF RegistryInv, Tables, Procs
    <2> QED BY <1>1, <2>1, <2>2, <2>3, <2>4 DEF WorkInv, RowsInv
  <1> QED BY <1>1, <1>2, <1>3 DEF RegistryInv

LEMMA ReceiveStep ==
  ASSUME RegistryInv, NEW u \in Users, Receive(u)
  PROVE  RegistryInv'
  <1>1. /\ UNCHANGED <<modeRow, clientSide, conn, load>> /\ conn[u] \in {"registered", "online"}
        /\ \E j : job' = [job EXCEPT ![<<u, "conn">>] = j]
    BY DEF Receive, goto, stored
  <1>2. Tables'
    BY <1>1 DEF RegistryInv, Tables
  <1>3. ASSUME load.inFlight = 1 PROVE WorkInv' /\ RowsInv'
    <2>1. \A w \in Users : job'[<<w, "hook">>] = job[<<w, "hook">>]
      BY <1>1 DEF RegistryInv, Tables, Procs
    <2>2. \A w \in Users \ {u} : job'[<<w, "conn">>] = job[<<w, "conn">>]
      BY <1>1 DEF RegistryInv, Tables, Procs
    <2> QED BY <1>1, <1>3, <2>1, <2>2 DEF RegistryInv, WorkInv, RowsInv
  <1> QED BY <1>1, <1>2, <1>3 DEF RegistryInv

LEMMA CloseStep ==
  ASSUME RegistryInv, NEW u \in Users, Close(u)
  PROVE  RegistryInv'
  <1>1. /\ conn' = [conn EXCEPT ![u] = "closing"] /\ UNCHANGED <<modeRow, clientSide, load>>
        /\ mayStart(u)
        /\ \E j : job' = [job EXCEPT ![<<u, "hook">>] = j]
    BY DEF Close, goto, stored, bounds
  <1>2. Tables'
    BY <1>1 DEF RegistryInv, Tables
  <1>3. ASSUME load.inFlight = 1 PROVE WorkInv' /\ RowsInv'
    <2>1. conn'[u] = "closing" /\ \A w \in Users \ {u} : conn'[w] = conn[w]
      BY <1>1 DEF RegistryInv, Tables
    <2>2. \A p \in Procs : job[p] = Idle
      BY <1>1, <1>3, StartsAlone
    <2>3. \A p \in Procs : p # <<u, "hook">> => job'[p] = Idle
      BY <1>1, <2>2 DEF RegistryInv, Tables, Procs
    <2>4. \A w \in Users : job'[<<w, "conn">>] = Idle /\ (w # u => job'[<<w, "hook">>] = Idle)
      BY <2>3 DEF Procs
    <2> QED BY <1>1, <1>3, <2>1, <2>4 DEF RegistryInv, WorkInv, RowsInv
  <1> QED BY <1>1, <1>2, <1>3 DEF RegistryInv

\* The rows are gone by the time the account's slot is free, and nobody is left to write any.
LEMMA SignoutStep ==
  ASSUME RegistryInv, NEW u \in Users, Signout(u)
  PROVE  RegistryInv'
  <1>1. /\ conn' = [conn EXCEPT ![u] = "off"] /\ job' = [job EXCEPT ![<<u, "hook">>] = Idle]
        /\ modeRow' = [modeRow EXCEPT ![u] = NoRow] /\ clientSide' = [clientSide EXCEPT ![u] = Empty]
        /\ load' = load /\ job[<<u, "hook">>] # Idle
    BY DEF Signout, UnregisterBuddyList, goto, bounds, Idle
  <1>2. Tables'
    BY <1>1 DEF RegistryInv, Tables
  <1>3. ASSUME load.inFlight = 1 PROVE WorkInv' /\ RowsInv'
    <2>1. WorkInv /\ RowsInv
      BY <1>3 DEF RegistryInv
    <2>2. conn[u] = "closing" /\ job[<<u, "conn">>] = Idle
      BY <1>1, <2>1 DEF WorkInv
    <2>3. /\ modeRow'[u] = NoRow /\ clientSide'[u] = Empty
          /\ \A w \in Users \ {u} : /\ conn'[w] = conn[w] /\ modeRow'[w] = modeRow[w]
                                    /\ clientSide'[w] = clientSide[w]
      BY <1>1 DEF RegistryInv, Tables
    <2>4. job'[<<u, "hook">>] = Idle /\ \A p \in Procs : p # <<u, "hook">> => job'[p] = job[p]
      BY <1>1 DEF RegistryInv, Tables, Procs
    <2>5. /\ job'[<<u, "conn">>] = Idle
          /\ \A w \in Users \ {u} : /\ job'[<<w, "conn">>] = job[<<w, "conn">>]
                                    /\ job'[<<w, "hook">>] = job[<<w, "hook">>]
      BY <2>2, <2>4 DEF Procs
    <2> QED BY <2>1, <2>3, <2>4, <2>5 DEF WorkInv, RowsInv
  <1> QED BY <1>1, <1>2, <1>3 DEF RegistryInv

LEMMA RestartStep ==
  ASSUME RegistryInv, Restart
  PROVE  RegistryInv'
  <1>1. /\ conn' = [u \in Users |-> "off"] /\ job' = [p \in Procs |-> Idle] /\ load' = load
        /\ modeRow' = [u \in Users |-> NoRow] /\ clientSide' = [u \in Users |-> Empty]
    BY DEF Restart, ClearBuddyListRegistry, bounds
  <1> QED BY <1>1 DEF RegistryInv, Tables, WorkInv, RowsInv, Procs

\* What is not idle has a place in its work.
LEMMA Busy ==
  ASSUME NEW p, NEW at, job[p].pc = at, at # "idle"
  PROVE  job[p] # Idle
  <1>1. Idle.pc = "idle"
    BY DEF Idle
  <1> QED BY <1>1

Goes(p) == \E j : job' = [job EXCEPT ![p] = j]

LEMMA GotoGoes == ASSUME NEW p, NEW j, goto(p, j) PROVE Goes(p)
  BY DEF goto, Goes

\* The ways a request ends.
LEMMA EndsGoing ==
  ASSUME NEW u, NEW filter, NEW departures,
         done(u) \/ broadcast(u, filter, departures) \/ maybeBroadcastVisibility(u, filter)
                 \/ notify(u, filter)
  PROVE  Goes(<<u, "conn">>)
  <1>1. ASSUME NEW f, NEW d, broadcast(u, f, d) PROVE Goes(<<u, "conn">>)
    BY <1>1, GotoGoes DEF broadcast
  <1>2. ASSUME done(u) PROVE Goes(<<u, "conn">>)
    BY <1>2, GotoGoes DEF done
  <1> QED BY <1>1, <1>2 DEF maybeBroadcastVisibility, notify

\* Broadcasts and relays, of a connection or of a hook.
LEMMA RelayStep ==
  ASSUME RegistryInv, NEW p \in Procs, step(p)
  PROVE  RegistryInv'
  <1>1. PICK u \in Users : p \in {<<u, "conn">>, <<u, "hook">>}
    BY DEF Procs
  <1>2. UNCHANGED <<modeRow, clientSide, conn, load>> /\ job[p] # Idle /\ Goes(p)
    <2>1. CASE readVisibility(p)
      BY <2>1, Busy, GotoGoes DEF readVisibility, stored, bounds
    <2>2. CASE lookup(p)
      BY <2>2, Busy, GotoGoes DEF lookup, stored, bounds
    <2>3. CASE tell(p)
      BY <2>3, Busy, GotoGoes DEF tell, stored, bounds
    <2>4. CASE readRecipients(p)
      BY <2>4, Busy, GotoGoes DEF readRecipients, stored, bounds
    <2>5. CASE relay(p)
      BY <2>5, Busy, GotoGoes DEF relay, stored, bounds
    <2> QED BY <2>1, <2>2, <2>3, <2>4, <2>5 DEF step
  <1>3. PICK j : job' = [job EXCEPT ![p] = j]
    BY <1>2 DEF Goes
  <1> QED BY <1>1, <1>2, <1>3, WorkStep

Handles(u) ==
  \/ AddBuddies(u) \/ DelBuddies(u)
  \/ AddDenyListEntries(u) \/ AddPermListEntries(u) \/ storeEntries(u)
  \/ DelDenyListEntries(u) \/ DelPermListEntries(u)
  \/ SetUserInfoFields(u) \/ IdleNotification(u)
  \/ Use(u) \/ UpsertItem(u) \/ DeleteItem(u) \/ StartCluster(u) \/ EndCluster(u)

\* A request writes its own user's rows, and no others.
LEMMA RequestStep ==
  ASSUME RegistryInv, NEW u \in Users, Handles(u)
  PROVE  RegistryInv'
  <1> DEFINE p == <<u, "conn">>
             Mode == modeRow' = modeRow \/ \E r : modeRow' = [modeRow EXCEPT ![u] = r]
             Side == clientSide' = clientSide \/ \E c : clientSide' = [clientSide EXCEPT ![u] = c]
             Own == job[p] # Idle /\ conn' = conn /\ load' = load /\ Mode /\ Side /\ Goes(p)
  <1>1. ASSUME NEW names, NEW flag, setFlag(u, names, flag) \/ clearFlag(u, names, flag) PROVE Side
    BY <1>1 DEF setFlag, clearFlag
  <1>2. ASSUME NEW all, NEW mode, NEW kind, NEW flag, addEntries(u, kind, all, mode, flag)
        PROVE  Own
    <2>1. job[p] # Idle /\ conn' = conn /\ load' = load
      BY <1>2, Busy DEF addEntries, handling, bounds
    <2>2. ASSUME NEW m, SetPDMode(u, m) PROVE Mode /\ Side
      BY <2>2 DEF SetPDMode
    <2>3. Mode /\ Side
      BY <1>2, <2>2 DEF addEntries
    <2>4. Goes(p)
      BY <1>2, EndsGoing, GotoGoes DEF addEntries
    <2> QED BY <2>1, <2>3, <2>4
  <1>3. ASSUME NEW kind, NEW flag, delEntries(u, kind, flag) PROVE Own
    BY <1>1, <1>3, Busy, EndsGoing DEF delEntries, handling, bounds
  <1>4. Own
    <2>1. CASE AddBuddies(u)
      BY <1>1, <2>1, Busy, EndsGoing DEF AddBuddies, handling, bounds
    <2>2. CASE DelBuddies(u)
      BY <1>1, <2>2, Busy, EndsGoing DEF DelBuddies, handling, bounds
    <2>3. CASE AddDenyListEntries(u) \/ AddPermListEntries(u)
      BY <1>2, <2>3 DEF AddDenyListEntries, AddPermListEntries
    <2>4. CASE storeEntries(u)
      BY <1>1, <2>4, Busy, EndsGoing DEF storeEntries, bounds
    <2>5. CASE DelDenyListEntries(u) \/ DelPermListEntries(u)
      BY <1>3, <2>5 DEF DelDenyListEntries, DelPermListEntries
    <2>6. CASE SetUserInfoFields(u)
      BY <2>6, Busy, GotoGoes DEF SetUserInfoFields, handling, stored, bounds
    <2>7. CASE IdleNotification(u)
      BY <2>7, Busy, EndsGoing, GotoGoes DEF IdleNotification, handling, stored, bounds
    <2>8. CASE Use(u)
      <3>1. Mode
        BY <2>8 DEF Use, UseFeedbag
      <3> QED BY <2>8, <3>1, Busy, EndsGoing DEF Use, handling, bounds
    <2>9. CASE UpsertItem(u)
      BY <2>9, Busy, EndsGoing, GotoGoes DEF UpsertItem, handling, bounds
    <2>10. CASE DeleteItem(u)
      BY <2>10, Busy, EndsGoing DEF DeleteItem, handling, bounds
    <2>11. CASE StartCluster(u)
      BY <2>11, Busy, EndsGoing DEF StartCluster, handling, stored, bounds
    <2>12. CASE EndCluster(u)
      BY <2>12, Busy, EndsGoing DEF EndCluster, handling, stored, bounds
    <2> QED BY <2>1, <2>2, <2>3, <2>4, <2>5, <2>6, <2>7, <2>8, <2>9, <2>10, <2>11, <2>12 DEF Handles
  <1>5. p # <<u, "hook">> /\ p \in {<<u, "conn">>, <<u, "hook">>}
    OBVIOUS
  <1>6. PICK j : job' = [job EXCEPT ![p] = j]
    BY <1>4 DEF Goes
  <1> HIDE DEF p
  <1> QED BY <1>4, <1>5, <1>6, WorkStep

LEMMA RegistryStep == RegistryInv /\ [Next]_vars => RegistryInv'
  <1> SUFFICES ASSUME RegistryInv, [Next]_vars PROVE RegistryInv'
    OBVIOUS
  <1>1. CASE \E p \in Procs : step(p)
    BY <1>1, RelayStep
  <1>2. ASSUME NEW u \in Users,
               SignOn(u) \/ ClientOnline(u) \/ Receive(u) \/ Close(u) \/ Signout(u) \/ Handles(u)
        PROVE  RegistryInv'
    BY <1>2, SignOnStep, ClientOnlineStep, ReceiveStep, CloseStep, SignoutStep, RequestStep
  <1>3. CASE Restart
    BY <1>3, RestartStep
  <1>4. CASE UNCHANGED vars
    BY <1>4 DEF vars, RegistryInv, Tables, WorkInv, RowsInv
  <1> QED BY <1>1, <1>2, <1>3, <1>4 DEF Next, Handles

\* An account that has signed off has left neither a mode nor a list in the registry, for
\* every finite set of users and all kinds of clients, as long as sessions close between
\* requests (UnregisterBuddyList in the close hook, ClearBuddyListRegistry).
THEOREM NothingLeftBehind == Spec => []RegistryMatchesSessions
  <1>1. RegistryInv => RegistryMatchesSessions
    BY DEF RegistryInv, RowsInv, RegistryMatchesSessions
  <1> QED BY InitRegistry, RegistryStep, <1>1, PTL DEF Spec

-----------------------------------------------------------------------------
(***************************************************************************)
(* Who is shown.                                                           *)
(***************************************************************************)
\* Requests that announce nothing before the client is online.
Unannounced == {"AddBuddies", "AddDenyListEntries", "AddPermListEntries", "DelDenyListEntries",
                "DelPermListEntries", "Use"}

\* Where one thing at a time is under way: a client that says it is online has its list
\* ready, which it keeps in one place and edits without clusters; it stores a mode together
\* with a buddy only if there is nobody else to tell.
Orderly ==
  /\ EarlyKinds \subseteq Unannounced
  /\ \A l \in Loads : l.inFlight = 1 =>
       /\ l.late = {}
       /\ \A u \in Users :
            /\ "StartCluster" \notin l.kinds[u]
            /\ "Use" \in l.kinds[u] => "AddBuddies" \notin l.kinds[u]
            /\ "UpsertItems" \in l.kinds[u] => \A v, w \in Users \ {u} : v = w

Rows == [useFeedbag : BOOLEAN, pd : 0..5]

MoreTables ==
  /\ feedbag = [u \in Users |-> feedbag[u]]
  /\ contactsInit = [u \in Users |-> contactsInit[u]]
  /\ invisible = [u \in Users |-> invisible[u]]
  /\ txn = [u \in Users |-> txn[u]]
  /\ view = [u \in Users |-> view[u]]
  /\ load \in Loads

StoreInv ==
  \A u \in Users : /\ modeRow[u] = NoRow \/ modeRow[u] \in Rows
                   /\ conn[u] # "off" => modeRow[u] # NoRow
                   /\ feedbag[u] \subseteq Entries \cup PdInfos
                   /\ ~txn[u].active

\* A client that uses the feedbag has activated it before it is online.
ListInv ==
  \A u \in Users :
    /\ conn[u] = "online" => contactsInit[u]
    /\ conn[u] \in {"registered", "online"} /\ contactsInit[u] /\ "Use" \in load.kinds[u] => UsesFeedbag(u)

Alone == \A p, q \in Procs : job[p] # Idle /\ job[q] # Idle => p = q

\* What a row that was read says of a user who is still online is still so.
RowInv(r, o) ==
  /\ r.user \in Users \ {o}
  /\ live(r.user) => /\ r.youBlock \in BOOLEAN
                     /\ r.youBlock <=> Blocks(o, r.user)
                     /\ ~Blocks(r.user, o)

\* And so is what a process knows that is at work.
ConnInv(u, j) ==
  /\ j = Idle \/ j.pc \in {"handle", "entries", "read", "next", "tell", "readAll", "relay"}
  /\ j.pc = "handle" =>
       /\ j.req \in RequestsOf(u)
       /\ conn[u] = "online" \/ j.req.kind \in EarlyKinds
       /\ "left" \in DOMAIN j => j.req.kind = "UpsertItems" /\ j.left \subseteq j.req.arg
  /\ j.pc \in {"handle", "entries"} => (j.signedOn <=> live(u))
  /\ j.pc \in {"read", "next", "tell", "readAll", "relay"} => conn[u] = "online"
  /\ j.pc \in {"next", "tell"} => /\ j.visible <=> ~invisible[u]
                                  /\ \A r \in j.rows : RowInv(r, u)
  /\ j.pc = "tell" => /\ RowInv(j.row, u) /\ live(j.row.user)
                      /\ j.theirs <=> ~invisible[j.row.user]
  /\ j.pc \in {"readAll", "relay"} => j.arrived \in BOOLEAN /\ (j.arrived <=> ~invisible[u])
  /\ j.pc = "relay" => \A v \in j.to : v \in Users \ {u} /\ (live(v) => ~Blocks(u, v) /\ ~Blocks(v, u))

HookInv(j) ==
  /\ j = Idle \/ j.pc \in {"readAll", "relay", "unregister"}
  /\ j.pc \in {"readAll", "relay"} => j.arrived = FALSE

KnowsInv == \A u \in Users : ConnInv(u, job[<<u, "conn">>]) /\ HookInv(job[<<u, "hook">>])

ViewInv == \A u \in Users : \A w \in view[u] : live(u) /\ "buddy" \in FlagsOf(u, w)

\* A client may show w to u; a client would, but for a block.
Good(u, w) == conn[w] = "online" /\ Visible(u, w)
Unseen(u, w) == conn[w] = "online" /\ ~invisible[w]

RowsLeft(j) == IF j.pc = "tell" THEN j.rows \cup {j.row} ELSE j.rows

\* The request at work will have departures sent for its user and v, if it has blocked v.
Notice(j, v) ==
  \/ j.pc = "entries"
  \/ j.pc = "handle" /\ "left" \in DOMAIN j
  \/ j.pc = "read" /\ j.departures /\ (j.filter = {} \/ v \in j.filter)

\* mine: to its user; else to v.
BlockDue(o, v, mine, j) ==
  /\ ~Blocks(v, o)
  /\ \/ Notice(j, v)
     \/ /\ j.pc \in {"next", "tell"} /\ j.departures
        /\ \E r \in RowsLeft(j) :
             r.user = v /\ r.youBlock /\ (IF mine THEN r.onYours ELSE r.onTheirs)

\* The departure of w, who has left or become invisible, will be sent to u.
LeaveDue(u, w, j) ==
  /\ ~Blocks(u, w) /\ ~Blocks(w, u)
  /\ \/ j.pc = "readAll" /\ ~j.arrived
     \/ j.pc = "relay" /\ ~j.arrived /\ u \in j.to

Due(u, w) ==
  \/ Unseen(u, w) /\ BlockDue(u, w, TRUE, job[<<u, "conn">>])
  \/ Unseen(u, w) /\ BlockDue(w, u, FALSE, job[<<w, "conn">>])
  \/ LeaveDue(u, w, job[<<w, "conn">>]) \/ LeaveDue(u, w, job[<<w, "hook">>])

\* Whom a client shows it may show, or else a departure is on its way.
ShownInv == \A u, w \in Users : u # w /\ w \in view[u] => Good(u, w) \/ Due(u, w)

SerialInv == /\ MoreTables /\ StoreInv /\ ListInv
             /\ Alone /\ KnowsInv /\ ViewInv /\ ShownInv

\* The same, of the process at work and what it has got to do.
Dues(p, j, u, w) ==
  \/ p = <<u, "conn">> /\ Unseen(u, w) /\ BlockDue(u, w, TRUE, j)
  \/ p = <<w, "conn">> /\ Unseen(u, w) /\ BlockDue(w, u, FALSE, j)
  \/ p \in {<<w, "conn">>, <<w, "hook">>} /\ LeaveDue(u, w, j)

-----------------------------------------------------------------------------
\* What a user blocks depends on the user's own rows only.
LEMMA SameRows ==
  ASSUME NEW u \in Users, modeRow'[u] = modeRow[u], clientSide'[u] = clientSide[u], feedbag'[u] = feedbag[u]
  PROVE  /\ UsesFeedbag(u)' <=> UsesFeedbag(u)
         /\ \A w \in Users : FlagsOf(u, w)' = FlagsOf(u, w)
         /\ \A w \in Users : Blocks(u, w)' <=> Blocks(u, w)
  <1>1. UsesFeedbag(u)' <=> UsesFeedbag(u)
    BY DEF UsesFeedbag
  <1>2. ASSUME NEW w \in Users PROVE FlagsOf(u, w)' = FlagsOf(u, w)
    BY <1>1 DEF FlagsOf
  <1>3. pdMode(u)' = pdMode(u)
    BY <1>1 DEF pdMode
  <1>4. ASSUME NEW w \in Users PROVE Blocks(u, w)' <=> Blocks(u, w)
    BY <1>2, <1>3 DEF Blocks
  <1> QED BY <1>1, <1>2, <1>4

LEMMA SameMode ==
  ASSUME NEW u \in Users, UsesFeedbag(u)' <=> UsesFeedbag(u),
         UsesFeedbag(u) \/ modeRow'[u] = modeRow[u],
         \A i \in PdInfos : i \in feedbag'[u] <=> i \in feedbag[u]
  PROVE  pdMode(u)' = pdMode(u)
  <1>1. feedbag'[u] \cap PdInfos = feedbag[u] \cap PdInfos
    OBVIOUS
  <1> QED BY <1>1 DEF pdMode

LEMMA SameBlocks ==
  ASSUME NEW u, NEW w, pdMode(u)' = pdMode(u), FlagsOf(u, w)' = FlagsOf(u, w)
  PROVE  Blocks(u, w)' <=> Blocks(u, w)
  BY DEF Blocks

LEMMA IsFlag == "buddy" \in Flags /\ "permit" \in Flags /\ "deny" \in Flags /\ "pdinfo" \notin Flags
  BY DEF Flags

LEMMA BuddyIsListed ==
  ASSUME NEW u \in Users, NEW w \in Users, "buddy" \in FlagsOf(u, w)
  PROVE  w \in Listed(u)
  BY DEF FlagsOf, Listed

\* What the rows of the query say.
LEMMA RowSays ==
  ASSUME NEW o \in Users, NEW filter, NEW r \in AllRelationships(o, filter)
  PROVE  /\ r.user \in Users \ {o}
         /\ r.youBlock \in BOOLEAN /\ r.blocksYou \in BOOLEAN
         /\ r.youBlock <=> Blocks(o, r.user)
         /\ r.blocksYou <=> Blocks(r.user, o)
         /\ r.onTheirs <=> "buddy" \in FlagsOf(r.user, o)
         /\ r.onYours <=> "buddy" \in FlagsOf(o, r.user)
  <1>1. PICK w \in Users \ {o} :
          r = [user |-> w, youBlock |-> Blocks(o, w), blocksYou |-> Blocks(w, o),
               onTheirs |-> "buddy" \in FlagsOf(w, o), onYours |-> "buddy" \in FlagsOf(o, w)]
    BY DEF AllRelationships
  <1>2. Blocks(o, w) \in BOOLEAN /\ Blocks(w, o) \in BOOLEAN
    BY DEF Blocks
  <1> QED BY <1>1, <1>2

\* Two users with a list, of whom one lists the other, have a row.
LEMMA RowFound ==
  ASSUME NEW o \in Users, NEW v \in Users \ {o}, NEW filter,
         modeRow[o] # NoRow, modeRow[v] # NoRow,
         v \in Listed(o) \/ o \in Listed(v),
         filter = {} \/ v \in filter
  PROVE  \E r \in AllRelationships(o, filter) : r.user = v
  <1> DEFINE row == [user |-> v, youBlock |-> Blocks(o, v), blocksYou |-> Blocks(v, o),
                     onTheirs |-> "buddy" \in FlagsOf(v, o), onYours |-> "buddy" \in FlagsOf(o, v)]
  <1>1. row \in AllRelationships(o, filter)
    BY DEF AllRelationships
  <1>2. row.user = v
    OBVIOUS
  <1> QED BY <1>1, <1>2

LEMMA Relayed ==
  ASSUME NEW msgs, view' = relayed(msgs), NEW u \in Users
  PROVE  /\ \A w \in Users : w \in view'[u] =>
              \/ w \in view[u]
              \/ live(u) /\ <<u, w, TRUE>> \in msgs /\ "buddy" \in FlagsOf(u, w)
         /\ \A w \in Users : live(u) /\ <<u, w, FALSE>> \in msgs => w \notin view'[u]
         /\ \A w \in view'[u] : w \in view[u] \/ w \in Users
  <1>1. view'[u] = IF ~live(u) THEN view[u]
                   ELSE (view[u] \cup {w \in Users : <<u, w, TRUE>> \in msgs /\ "buddy" \in FlagsOf(u, w)})
                          \ {w \in Users : <<u, w, FALSE>> \in msgs}
    BY DEF relayed
  <1> QED BY <1>1

LEMMA IdleIsIdle == Idle.pc = "idle" /\ "left" \notin DOMAIN Idle
  BY DEF Idle

-----------------------------------------------------------------------------
LEMMA OthersIdle ==
  ASSUME Alone, NEW p \in Procs, job[p] # Idle
  PROVE  \A q \in Procs : q # p => job[q] = Idle
  BY DEF Alone

LEMMA IdleOwes ==
  ASSUME NEW u, NEW w, NEW mine
  PROVE  ~BlockDue(u, w, mine, Idle) /\ ~LeaveDue(u, w, Idle) /\ ~Notice(Idle, u)
  BY IdleIsIdle DEF BlockDue, LeaveDue, Notice

LEMMA DueIs ==
  ASSUME Alone, NEW p \in Procs, job[p] # Idle, NEW u \in Users, NEW w \in Users, Due(u, w)
  PROVE  Dues(p, job[p], u, w)
  <1>1. /\ p # <<u, "conn">> => job[<<u, "conn">>] = Idle
        /\ p # <<w, "conn">> => job[<<w, "conn">>] = Idle
        /\ p # <<w, "hook">> => job[<<w, "hook">>] = Idle
    BY OthersIdle DEF Procs
  <1> QED BY <1>1, IdleOwes DEF Due, Dues

LEMMA IsDue ==
  ASSUME NEW p, NEW u, NEW w, NEW j, job'[p] = j, Dues(p, j, u, w)'
  PROVE  Due(u, w)'
  BY DEF Due, Dues

LEMMA NoneDue ==
  ASSUME \A p \in Procs : job[p] = Idle, NEW u \in Users, NEW w \in Users
  PROVE  ~Due(u, w)
  <1>1. job[<<u, "conn">>] = Idle /\ job[<<w, "conn">>] = Idle /\ job[<<w, "hook">>] = Idle
    BY DEF Procs
  <1> QED BY <1>1, IdleOwes DEF Due

\* One process goes on, alone.
LEMMA StaysAlone ==
  ASSUME Tables, Alone, NEW p \in Procs, NEW j, job' = [job EXCEPT ![p] = j],
         job[p] # Idle \/ \A q \in Procs : job[q] = Idle
  PROVE  /\ Alone' /\ job'[p] = j
         /\ \A q \in Procs : q # p => job'[q] = Idle
  <1>1. \A q \in Procs : q # p => job[q] = Idle
    BY DEF Alone
  <1>2. job'[p] = j /\ \A q \in Procs : q # p => job'[q] = job[q]
    BY DEF Tables
  <1> QED BY <1>1, <1>2 DEF Alone

LEMMA KnowsAlone ==
  ASSUME NEW p \in Procs, NEW j, job'[p] = j, \A q \in Procs : q # p => job'[q] = Idle,
         NEW o \in Users,
         \/ p = <<o, "conn">> /\ ConnInv(o, j)'
         \/ p = <<o, "hook">> /\ HookInv(j)
  PROVE  KnowsInv'
  <1>1. ASSUME NEW u \in Users PROVE ConnInv(u, Idle)' /\ HookInv(Idle)
    BY IdleIsIdle DEF ConnInv, HookInv
  <1>2. ASSUME NEW u \in Users PROVE ConnInv(u, job[<<u, "conn">>])'
    <2>1. CASE p = <<u, "conn">>
      <3>1. o = u /\ ConnInv(o, j)'
        BY <2>1
      <3> QED BY <2>1, <3>1
    <2>2. CASE p # <<u, "conn">>
      BY <1>1, <2>2 DEF Procs
    <2> QED BY <2>1, <2>2
  <1>3. ASSUME NEW u \in Users PROVE HookInv(job[<<u, "hook">>])'
    <2>1. CASE p = <<u, "hook">>
      <3>1. HookInv(j)
        BY <2>1
      <3> QED BY <2>1, <3>1 DEF HookInv
    <2>2. CASE p # <<u, "hook">>
      <3>1. job'[<<u, "hook">>] = Idle
        BY <2>2 DEF Procs
      <3> QED BY <1>1, <3>1 DEF HookInv
    <2> QED BY <2>1, <2>2
  <1> QED BY <1>2, <1>3 DEF KnowsInv

\* Where the tables and the sessions stay, so do the relationships.
LEMMA SameState ==
  ASSUME UNCHANGED <<stored, conn, invisible>>
  PROVE  /\ \A u, w \in Users : /\ Blocks(u, w)' <=> Blocks(u, w)
                                /\ FlagsOf(u, w)' = FlagsOf(u, w)
                                /\ Good(u, w)' <=> Good(u, w)
                                /\ Unseen(u, w)' <=> Unseen(u, w)
         /\ \A u \in Users : live(u)' <=> live(u)
         /\ \A u \in Users : UsesFeedbag(u)' <=> UsesFeedbag(u)
  <1>1. ASSUME NEW u \in Users
        PROVE  /\ UsesFeedbag(u)' <=> UsesFeedbag(u)
               /\ \A w \in Users : FlagsOf(u, w)' = FlagsOf(u, w) /\ (Blocks(u, w)' <=> Blocks(u, w))
    BY SameRows DEF stored
  <1> QED BY <1>1 DEF Good, Visible, Unseen, live

\* Steps of broadcasts and relays.
LEMMA BroadcastStep ==
  ASSUME RegistryInv, SerialInv, NEW p \in Procs, NEW o \in Users, NEW j,
         p \in {<<o, "conn">>, <<o, "hook">>},
         job[p] # Idle, goto(p, j),
         UNCHANGED <<stored, conn, contactsInit, invisible, txn, load>>,
         view' = [u \in Users |-> view'[u]],
         p = <<o, "conn">> => ConnInv(o, j)',
         p = <<o, "hook">> => HookInv(j),
         \A u \in Users : \A w \in view'[u] : w \in view[u] \/ (live(u) /\ "buddy" \in FlagsOf(u, w)),
         \A u, w \in Users : u # w /\ w \in view'[u] => Good(u, w) \/ Dues(p, j, u, w)'
  PROVE  SerialInv'
  <1>1. Alone' /\ job'[p] = j /\ \A q \in Procs : q # p => job'[q] = Idle
    BY StaysAlone DEF RegistryInv, SerialInv, goto
  <1>2. KnowsInv'
    BY <1>1, KnowsAlone
  <1>3. MoreTables' /\ StoreInv' /\ ListInv'
    BY SameState DEF SerialInv, MoreTables, StoreInv, ListInv, stored
  <1>4. ViewInv'
    <2> SUFFICES ASSUME NEW u \in Users, NEW w \in view'[u]
                 PROVE  live(u)' /\ "buddy" \in FlagsOf(u, w)'
      BY DEF ViewInv
    <2>1. live(u) /\ "buddy" \in FlagsOf(u, w)
      BY DEF SerialInv, ViewInv
    <2>2. FlagsOf(u, w)' = FlagsOf(u, w)
      <3>1. UsesFeedbag(u)' <=> UsesFeedbag(u)
        BY SameState
      <3> QED BY <3>1 DEF FlagsOf, stored
    <2> QED BY <2>1, <2>2, SameState
  <1>5. ShownInv'
    BY <1>1, SameState, IsDue DEF ShownInv
  <1> QED BY <1>1, <1>2, <1>3, <1>4, <1>5 DEF SerialInv

LEMMA QuietStep ==
  ASSUME RegistryInv, SerialInv, NEW o \in Users, NEW p \in Procs, NEW j,
         p = <<o, "conn">>, job[p] # Idle, goto(p, j),
         UNCHANGED <<stored, conn, contactsInit, invisible, txn, load>>, view' = view,
         ConnInv(o, j)',
         \A u, w \in Users : u # w /\ w \in view[u] => Good(u, w) \/ Dues(p, j, u, w)'
  PROVE  SerialInv'
  <1>1. p \in {<<o, "conn">>, <<o, "hook">>} /\ (p = <<o, "hook">> => HookInv(j))
    OBVIOUS
  <1>2. view' = [u \in Users |-> view'[u]]
    BY DEF SerialInv, MoreTables
  <1>3. /\ \A u \in Users : \A w \in view'[u] : w \in view[u] \/ (live(u) /\ "buddy" \in FlagsOf(u, w))
        /\ \A u, w \in Users : u # w /\ w \in view'[u] => Good(u, w) \/ Dues(p, j, u, w)'
    OBVIOUS
  <1> QED BY <1>1, <1>2, <1>3, BroadcastStep

LEMMA OwnerOf ==
  ASSUME NEW p \in Procs
  PROVE  /\ Owner(p) \in Users
         /\ p = <<Owner(p), "conn">> \/ p = <<Owner(p), "hook">>
  BY DEF Procs, Owner

LEMMA ConnKnows ==
  ASSUME KnowsInv, NEW p \in Procs, job[p].pc \in {"read", "next", "tell", "handle", "entries"}
  PROVE  \E o \in Users : p = <<o, "conn">> /\ Owner(p) = o /\ ConnInv(o, job[p]) /\ job[p] # Idle
  <1>1. job[p] # Idle
    BY IdleIsIdle
  <1>2. PICK o \in Users : Owner(p) = o /\ (p = <<o, "conn">> \/ p = <<o, "hook">>)
    BY OwnerOf
  <1>3. CASE p = <<o, "conn">>
    BY <1>1, <1>2, <1>3 DEF KnowsInv
  <1>4. CASE p = <<o, "hook">>
    BY <1>1, <1>2, <1>4 DEF KnowsInv, HookInv
  <1> QED BY <1>2, <1>3, <1>4

LEMMA StateStays ==
  ASSUME UNCHANGED <<stored, conn, contactsInit, invisible, txn, bounds>>
  PROVE  UNCHANGED <<stored, conn, contactsInit, invisible, txn, load>>
  BY DEF bounds

LEMMA RowSame ==
  ASSUME UNCHANGED <<stored, conn, invisible>>, NEW o \in Users, NEW r
  PROVE  RowInv(r, o)' <=> RowInv(r, o)
  BY SameState DEF RowInv

\* The rows that are read are those of everybody who is owed a departure.
LEMMA ReadVisibilityStep ==
  ASSUME RegistryInv, SerialInv, NEW p \in Procs, readVisibility(p)
  PROVE  SerialInv'
  <1>0. PICK o \in Users : p = <<o, "conn">> /\ Owner(p) = o /\ ConnInv(o, job[p]) /\ job[p] # Idle
    BY ConnKnows DEF SerialInv, readVisibility
  <1> DEFINE found == {r \in AllRelationships(o, job[p].filter) : ~r.blocksYou}
             next == [pc |-> "next", departures |-> job[p].departures, rows |-> found, visible |-> ~invisible[o]]
  <1>1. /\ job[p].pc = "read" /\ job' = [job EXCEPT ![p] = next]
        /\ UNCHANGED <<stored, conn, contactsInit, invisible, txn, view, bounds>>
    BY <1>0 DEF readVisibility, goto
  <1>2. PICK j : j = next
    OBVIOUS
  <1>9. PICK rows : rows = found
    OBVIOUS
  <1>10. /\ job' = [job EXCEPT ![p] = j] /\ j.pc = "next" /\ j.departures = job[p].departures
         /\ j.rows = rows /\ (j.visible <=> ~invisible[o])
    BY <1>1, <1>2, <1>9
  <1> HIDE DEF next
  <1>3. conn[o] = "online"
    BY <1>0, <1>1 DEF ConnInv
  <1>4. \A r \in rows : RowInv(r, o)
    BY <1>9, RowSays DEF RowInv
  <1>5. ConnInv(o, j)'
    <2>1. \A r \in rows : RowInv(r, o)'
      BY <1>1, <1>4, RowSame
    <2>2. conn'[o] = "online" /\ (j.visible <=> ~invisible'[o])
      BY <1>1, <1>3, <1>10
    <2> QED BY <1>10, <2>1, <2>2 DEF ConnInv
  <1>6. ASSUME NEW u \in Users, NEW w \in Users, u # w, w \in view[u]
        PROVE  Good(u, w) \/ Dues(p, j, u, w)'
    <2>1. CASE Good(u, w)
      BY <2>1
    <2>2. CASE Due(u, w)
      <3>1. Dues(p, job[p], u, w)
        BY <1>0, <2>2, DueIs DEF SerialInv
      <3>2. /\ \/ o = u /\ BlockDue(u, w, TRUE, job[p])
               \/ o = w /\ BlockDue(w, u, FALSE, job[p])
            /\ Unseen(u, w)
        BY <1>0, <1>1, <3>1 DEF Dues, LeaveDue
      <3>3. PICK v \in Users \ {o} : (o = u /\ v = w) \/ (o = w /\ v = u)
        BY <1>6, <3>2
      <3>4. ~Blocks(v, o) /\ Notice(job[p], v)
        BY <1>1, <3>2, <3>3 DEF BlockDue
      <3>5. job[p].departures /\ (job[p].filter = {} \/ v \in job[p].filter)
        BY <1>1, <3>4 DEF Notice
      <3>6. live(u) /\ "buddy" \in FlagsOf(u, w)
        BY <1>6 DEF SerialInv, ViewInv
      <3>7. modeRow[o] # NoRow /\ modeRow[v] # NoRow
        BY <1>3, <3>2, <3>3, <3>6 DEF SerialInv, StoreInv, live, Unseen
      <3>8. v \in Listed(o) \/ o \in Listed(v)
        BY <3>3, <3>6, BuddyIsListed
      <3>9. PICK r \in AllRelationships(o, job[p].filter) : r.user = v
        BY <3>5, <3>7, <3>8, RowFound
      <3>10. r \in rows /\ (r.onTheirs <=> "buddy" \in FlagsOf(v, o))
                        /\ (r.onYours <=> "buddy" \in FlagsOf(o, v))
        BY <1>9, <3>4, <3>9, RowSays
      <3>11. CASE Blocks(o, v)
        <4>1. r.youBlock
          BY <3>9, <3>11, RowSays
        <4>2. RowsLeft(j) = rows
          BY <1>10 DEF RowsLeft
        <4>3. Unseen(u, w)' /\ ~Blocks(v, o)'
          BY <1>1, <3>2, <3>4, SameState
        <4>4. CASE o = u
          <5>1. v = w /\ BlockDue(u, w, TRUE, j)'
            BY <1>6, <1>10, <3>3, <3>5, <3>6, <3>9, <3>10, <4>1, <4>2, <4>3, <4>4 DEF BlockDue
          <5> QED BY <1>0, <4>3, <4>4, <5>1 DEF Dues
        <4>5. CASE o = w
          <5>1. v = u /\ BlockDue(w, u, FALSE, j)'
            BY <1>6, <1>10, <3>3, <3>5, <3>6, <3>9, <3>10, <4>1, <4>2, <4>3, <4>5 DEF BlockDue
          <5> QED BY <1>0, <4>3, <4>5, <5>1 DEF Dues
        <4> QED BY <3>2, <4>4, <4>5
      <3>12. CASE ~Blocks(o, v)
        BY <1>6, <3>2, <3>3, <3>4, <3>12 DEF Good, Unseen, Visible
      <3> QED BY <3>11, <3>12
    <2> QED BY <1>6, <2>1, <2>2 DEF SerialInv, ShownInv
  <1>7. UNCHANGED <<stored, conn, contactsInit, invisible, txn, load>> /\ view' = view
    BY <1>1, StateStays
  <1>12. goto(p, j)
    BY <1>10 DEF goto
  <1>11. \A u, w \in Users : u # w /\ w \in view[u] => Good(u, w) \/ Dues(p, j, u, w)'
    BY <1>6
  <1> QED BY <1>0, <1>5, <1>7, <1>11, <1>12, QuietStep

\* A user who is not online any more shows nobody, and is shown to nobody.
LEMMA LookupStep ==
  ASSUME RegistryInv, SerialInv, NEW p \in Procs, lookup(p)
  PROVE  SerialInv'
  <1> DEFINE k == job[p]
  <1>1. /\ k.pc = "next" /\ UNCHANGED <<stored, conn, contactsInit, invisible, txn, view, bounds>>
        /\ \/ k.rows = {} /\ job' = [job EXCEPT ![p] = Idle]
           \/ \E r \in k.rows :
                \/ /\ ~live(r.user)
                   /\ job' = [job EXCEPT ![p] = [pc |-> "next", departures |-> k.departures,
                                                 rows |-> k.rows \ {r}, visible |-> k.visible]]
                \/ /\ live(r.user)
                   /\ job' = [job EXCEPT ![p] = [pc |-> "tell", departures |-> k.departures,
                                                 rows |-> k.rows \ {r}, visible |-> k.visible,
                                                 row |-> r, theirs |-> ~invisible[r.user]]]
    BY DEF lookup, goto
  <1>2. PICK o \in Users : p = <<o, "conn">> /\ ConnInv(o, k) /\ k # Idle
    BY <1>1, ConnKnows DEF SerialInv
  <1>3. /\ conn[o] = "online" /\ (k.visible <=> ~invisible[o])
        /\ \A r \in k.rows : RowInv(r, o)
    BY <1>1, <1>2 DEF ConnInv
  <1>4. UNCHANGED <<stored, conn, contactsInit, invisible, txn, load>> /\ view' = view
    BY <1>1, StateStays
  \* Whoever is owed a departure is online.
  <1>6. ASSUME NEW u \in Users, NEW w \in Users, u # w, w \in view[u], ~Good(u, w)
        PROVE  /\ Unseen(u, w)
               /\ \/ o = u /\ BlockDue(u, w, TRUE, k) /\ live(w)
                  \/ o = w /\ BlockDue(w, u, FALSE, k) /\ live(u)
    <2>1. Dues(p, k, u, w)
      BY <1>2, <1>6, DueIs DEF SerialInv, ShownInv
    <2>2. live(u)
      BY <1>6 DEF SerialInv, ViewInv
    <2> QED BY <1>1, <1>2, <2>1, <2>2 DEF Dues, LeaveDue, Unseen, live
  <1>7. CASE k.rows = {} /\ job' = [job EXCEPT ![p] = Idle]
    <2>1. ConnInv(o, Idle)'
      BY IdleIsIdle DEF ConnInv
    <2>2. RowsLeft(k) = {} /\ \A v : ~Notice(k, v)
      BY <1>1, <1>7 DEF RowsLeft, Notice
    <2>3. \A u, w \in Users : u # w /\ w \in view[u] => Good(u, w)
      BY <1>6, <2>2 DEF BlockDue
    <2>4. goto(p, Idle)
      BY <1>7 DEF goto
    <2> QED BY <1>2, <1>4, <2>1, <2>3, <2>4, QuietStep
  <1>8. ASSUME NEW r \in k.rows, NEW j, job' = [job EXCEPT ![p] = j],
               j.pc \in {"next", "tell"}, j.departures = k.departures, j.rows = k.rows \ {r},
               j.visible = k.visible,
               \/ ~live(r.user) /\ j.pc = "next"
               \/ live(r.user) /\ j.pc = "tell" /\ j.row = r /\ (j.theirs <=> ~invisible[r.user])
        PROVE  SerialInv'
    <2>1. ConnInv(o, j)'
      <3>1. \A q \in k.rows : RowInv(q, o)'
        BY <1>2, <1>3, <1>4, RowSame
      <3>2. r.user \in Users
        BY <1>3 DEF RowInv
      <3> QED BY <1>3, <1>4, <1>8, <3>1, <3>2, SameState DEF ConnInv
    <2>2. ASSUME NEW u \in Users, NEW w \in Users, u # w, w \in view[u], ~Good(u, w)
          PROVE  Dues(p, j, u, w)'
      <3>1. /\ Unseen(u, w)
            /\ \/ o = u /\ BlockDue(u, w, TRUE, k) /\ live(w)
               \/ o = w /\ BlockDue(w, u, FALSE, k) /\ live(u)
        BY <1>6, <2>2
      <3>2. Unseen(u, w)' /\ (Blocks(u, w)' <=> Blocks(u, w)) /\ (Blocks(w, u)' <=> Blocks(w, u))
        BY <1>4, <3>1, SameState
      <3>3. \A v : ~Notice(k, v)
        BY <1>1 DEF Notice
      <3>4. ASSUME NEW q \in RowsLeft(k), live(q.user) PROVE q \in RowsLeft(j)
        BY <1>1, <1>8, <3>4 DEF RowsLeft
      <3>5. CASE o = u /\ BlockDue(u, w, TRUE, k) /\ live(w)
        <4>1. BlockDue(u, w, TRUE, j)'
          BY <1>8, <3>2, <3>3, <3>4, <3>5 DEF BlockDue
        <4> QED BY <1>2, <3>2, <3>5, <4>1 DEF Dues
      <3>6. CASE o = w /\ BlockDue(w, u, FALSE, k) /\ live(u)
        <4>1. BlockDue(w, u, FALSE, j)'
          BY <1>8, <3>2, <3>3, <3>4, <3>6 DEF BlockDue
        <4> QED BY <1>2, <3>2, <3>6, <4>1 DEF Dues
      <3> QED BY <3>1, <3>5, <3>6
    <2>3. \A u, w \in Users : u # w /\ w \in view[u] => Good(u, w) \/ Dues(p, j, u, w)'
      BY <2>2
    <2>4. goto(p, j)
      BY <1>8 DEF goto
    <2> QED BY <1>2, <1>4, <2>1, <2>3, <2>4, QuietStep
  <1>9. ASSUME NEW r \in k.rows, ~live(r.user),
               job' = [job EXCEPT ![p] = [pc |-> "next", departures |-> k.departures,
                                          rows |-> k.rows \ {r}, visible |-> k.visible]]
        PROVE  SerialInv'
    BY <1>8, <1>9
  <1>10. ASSUME NEW r \in k.rows, live(r.user),
                job' = [job EXCEPT ![p] = [pc |-> "tell", departures |-> k.departures,
                                           rows |-> k.rows \ {r}, visible |-> k.visible,
                                           row |-> r, theirs |-> ~invisible[r.user]]]
        PROVE  SerialInv'
    <2>1. PICK j : j = [pc |-> "tell", departures |-> k.departures, rows |-> k.rows \ {r},
                        visible |-> k.visible, row |-> r, theirs |-> ~invisible[r.user]]
      OBVIOUS
    <2>2. /\ j.pc = "tell" /\ j.departures = k.departures /\ j.rows = k.rows \ {r}
          /\ j.visible = k.visible /\ j.row = r /\ (j.theirs <=> ~invisible[r.user])
      BY <2>1
    <2>3. job' = [job EXCEPT ![p] = j]
      BY <1>10, <2>1
    <2> QED BY <1>8, <1>10, <2>2, <2>3
  <1> QED BY <1>1, <1>7, <1>9, <1>10

\* A departure takes its pair off; an arrival is of a pair that may see each other.
LEMMA TellStep ==
  ASSUME RegistryInv, SerialInv, NEW p \in Procs, tell(p)
  PROVE  SerialInv'
  <1>1. PICK o \in Users : p = <<o, "conn">> /\ Owner(p) = o /\ ConnInv(o, job[p]) /\ job[p] # Idle
    BY ConnKnows DEF SerialInv, tell
  <1> DEFINE k == job[p]
             arrived == ~k.row.youBlock
             toTheirs == k.row.onTheirs /\ (IF arrived THEN k.visible ELSE k.departures)
             toYours == k.row.onYours /\ (IF arrived THEN k.theirs ELSE k.departures)
             sent == {m \in {<<k.row.user, o, arrived>>} : toTheirs} \cup
                     {m \in {<<o, k.row.user, arrived>>} : toYours}
             next == [pc |-> "next", departures |-> k.departures, rows |-> k.rows, visible |-> k.visible]
  <1>2. /\ k.pc = "tell" /\ job' = [job EXCEPT ![p] = next] /\ view' = relayed(sent)
        /\ UNCHANGED <<stored, conn, contactsInit, invisible, txn, bounds>>
    BY <1>1 DEF tell, goto
  <1>16. PICK j : j = next
    OBVIOUS
  <1>3. /\ job' = [job EXCEPT ![p] = j] /\ j.pc = "next" /\ j.departures = k.departures
        /\ j.rows = k.rows /\ j.visible = k.visible
    BY <1>2, <1>16
  <1>4. UNCHANGED <<stored, conn, contactsInit, invisible, txn, load>>
    BY <1>2, StateStays
  <1>5. /\ conn[o] = "online" /\ (k.visible <=> ~invisible[o])
        /\ \A r \in k.rows \cup {k.row} : RowInv(r, o)
        /\ live(k.row.user) /\ (k.theirs <=> ~invisible[k.row.user])
    BY <1>1, <1>2 DEF ConnInv
  <1>6. PICK v \in Users \ {o} : /\ v = k.row.user /\ live(v) /\ k.row.youBlock \in BOOLEAN
                                 /\ (k.row.youBlock <=> Blocks(o, v)) /\ ~Blocks(v, o)
    BY <1>5 DEF RowInv
  <1>7. ConnInv(o, j)'
    <2>1. \A q \in k.rows : RowInv(q, o)'
      BY <1>4, <1>5, RowSame
    <2> QED BY <1>3, <1>4, <1>5, <2>1 DEF ConnInv
  <1>8. PICK msgs : msgs = sent
    OBVIOUS
  <1>9. /\ view' = relayed(msgs)
        /\ \A u, w : <<u, w, TRUE>> \in msgs =>
              arrived /\ ((u = v /\ w = o /\ toTheirs) \/ (u = o /\ w = v /\ toYours))
        /\ toTheirs => <<v, o, arrived>> \in msgs
        /\ toYours => <<o, v, arrived>> \in msgs
    BY <1>2, <1>6, <1>8
  <1>10. ASSUME NEW u \in Users, NEW w \in Users, u # w, w \in view[u], w \in view'[u], ~Good(u, w)
         PROVE  Dues(p, j, u, w)'
    <2>1. Dues(p, k, u, w)
      BY <1>1, <1>10, DueIs DEF SerialInv, ShownInv
    <2>2. /\ Unseen(u, w)
          /\ \/ o = u /\ BlockDue(u, w, TRUE, k)
             \/ o = w /\ BlockDue(w, u, FALSE, k)
      BY <1>1, <1>2, <2>1 DEF Dues, LeaveDue
    <2>3. live(u)
      BY <1>10 DEF SerialInv, ViewInv
    <2>4. /\ Unseen(u, w)' /\ (Blocks(u, w)' <=> Blocks(u, w)) /\ (Blocks(w, u)' <=> Blocks(w, u))
      BY <1>4, <2>2, SameState
    <2>5. RowsLeft(k) = k.rows \cup {k.row} /\ RowsLeft(j) = k.rows /\ \A x : ~Notice(k, x)
      BY <1>2, <1>3 DEF RowsLeft, Notice
    <2>6. CASE o = u /\ BlockDue(u, w, TRUE, k)
      <3>1. PICK q \in k.rows \cup {k.row} : q.user = w /\ q.youBlock /\ q.onYours
        BY <2>5, <2>6 DEF BlockDue
      <3>2. ~Blocks(w, o) /\ k.departures
        BY <2>5, <2>6 DEF BlockDue
      <3>3. CASE q = k.row
        <4>1. w = v /\ arrived = FALSE /\ toYours
          BY <1>6, <3>1, <3>2, <3>3
        <4>2. <<u, w, FALSE>> \in msgs
          BY <1>9, <2>6, <4>1
        <4> QED BY <1>9, <1>10, <2>3, <4>2, Relayed
      <3>4. CASE q \in k.rows
        <4>1. BlockDue(u, w, TRUE, j)'
          BY <1>3, <2>4, <2>5, <2>6, <3>1, <3>2, <3>4 DEF BlockDue
        <4> QED BY <1>1, <2>4, <2>6, <4>1 DEF Dues
      <3> QED BY <3>1, <3>3, <3>4
    <2>7. CASE o = w /\ BlockDue(w, u, FALSE, k)
      <3>1. PICK q \in k.rows \cup {k.row} : q.user = u /\ q.youBlock /\ q.onTheirs
        BY <2>5, <2>7 DEF BlockDue
      <3>2. ~Blocks(u, o) /\ k.departures
        BY <2>5, <2>7 DEF BlockDue
      <3>3. CASE q = k.row
        <4>1. u = v /\ arrived = FALSE /\ toTheirs
          BY <1>6, <3>1, <3>2, <3>3
        <4>2. <<u, w, FALSE>> \in msgs
          BY <1>9, <2>7, <4>1
        <4> QED BY <1>9, <1>10, <2>3, <4>2, Relayed
      <3>4. CASE q \in k.rows
        <4>1. BlockDue(w, u, FALSE, j)'
          BY <1>3, <2>4, <2>5, <2>7, <3>1, <3>2, <3>4 DEF BlockDue
        <4> QED BY <1>1, <2>4, <2>7, <4>1 DEF Dues
      <3> QED BY <3>1, <3>3, <3>4
    <2> QED BY <2>2, <2>6, <2>7
  <1>11. ASSUME NEW u \in Users, NEW w \in Users, <<u, w, TRUE>> \in msgs
         PROVE  Good(u, w)
    <2>1. arrived /\ ((u = v /\ w = o /\ toTheirs) \/ (u = o /\ w = v /\ toYours))
      BY <1>9, <1>11
    <2>2. ~Blocks(o, v) /\ ~Blocks(v, o)
      BY <1>6, <2>1
    <2> QED BY <1>5, <1>6, <2>1, <2>2 DEF Good, Visible, live
  <1>12. \A u, w \in Users : u # w /\ w \in view'[u] => Good(u, w) \/ Dues(p, j, u, w)'
    BY <1>9, <1>10, <1>11, Relayed
  <1>13. \A u \in Users : \A w \in view'[u] : w \in view[u] \/ (live(u) /\ "buddy" \in FlagsOf(u, w))
    BY <1>9, Relayed
  <1>14. view' = [u \in Users |-> view'[u]]
    BY <1>9 DEF relayed
  <1>15. goto(p, j) /\ p \in {<<o, "conn">>, <<o, "hook">>} /\ (p = <<o, "hook">> => HookInv(j))
    BY <1>1, <1>3 DEF goto
  <1> QED BY <1>1, <1>4, <1>7, <1>12, <1>13, <1>14, <1>15, BroadcastStep

\* The process at work is a connection's or a hook's.
LEMMA WorkKnows ==
  ASSUME KnowsInv, NEW p \in Procs, job[p].pc \in {"readAll", "relay"}
  PROVE  \E o \in Users : /\ Owner(p) = o /\ job[p] # Idle /\ job[p].arrived \in BOOLEAN
                          /\ \/ p = <<o, "conn">> /\ ConnInv(o, job[p])
                             \/ p = <<o, "hook">> /\ job[p].arrived = FALSE
  <1>1. job[p] # Idle
    BY IdleIsIdle
  <1>2. PICK o \in Users : Owner(p) = o /\ (p = <<o, "conn">> \/ p = <<o, "hook">>)
    BY OwnerOf
  <1>3. CASE p = <<o, "conn">>
    <2>1. ConnInv(o, job[p])
      BY <1>3 DEF KnowsInv
    <2> QED BY <1>1, <1>2, <1>3, <2>1 DEF ConnInv
  <1>4. CASE p = <<o, "hook">>
    BY <1>1, <1>2, <1>4 DEF KnowsInv, HookInv
  <1> QED BY <1>2, <1>3, <1>4

\* Who is shown to somebody although it is not to be is a user who leaves.
LEMMA LeaveOwed ==
  ASSUME SerialInv, NEW p \in Procs, job[p].pc \in {"readAll", "relay"}, NEW o \in Users, Owner(p) = o,
         NEW u \in Users, NEW w \in Users, u # w, w \in view[u], ~Good(u, w)
  PROVE  w = o /\ LeaveDue(u, o, job[p]) /\ live(u) /\ "buddy" \in FlagsOf(u, o)
  <1>1. job[p] # Idle
    BY IdleIsIdle
  <1>2. Dues(p, job[p], u, w)
    BY <1>1, DueIs DEF SerialInv, ShownInv
  <1>3. \A x, y, mine : ~BlockDue(x, y, mine, job[p])
    BY DEF BlockDue, Notice
  <1>4. LeaveDue(u, w, job[p]) /\ p \in {<<w, "conn">>, <<w, "hook">>}
    BY <1>2, <1>3 DEF Dues
  <1>5. w = o
    BY <1>4 DEF Owner
  <1> QED BY <1>4, <1>5 DEF SerialInv, ViewInv

LEMMA ReadRecipientsStep ==
  ASSUME RegistryInv, SerialInv, load.inFlight = 1, NEW p \in Procs, readRecipients(p)
  PROVE  SerialInv'
  <1>1. PICK o \in Users : /\ Owner(p) = o /\ job[p] # Idle /\ job[p].arrived \in BOOLEAN
                           /\ \/ p = <<o, "conn">> /\ ConnInv(o, job[p])
                              \/ p = <<o, "hook">> /\ job[p].arrived = FALSE
    BY WorkKnows DEF SerialInv, readRecipients
  <1> DEFINE k == job[p]
             all == {r.user : r \in {q \in AllRelationships(o, {}) : q.onTheirs /\ ~q.youBlock /\ ~q.blocksYou}}
  <1>2. /\ k.pc = "readAll" /\ UNCHANGED <<stored, conn, contactsInit, invisible, txn, view, bounds>>
        /\ job' = [job EXCEPT ![p] = [pc |-> "relay", arrived |-> k.arrived, to |-> all]]
    BY <1>1 DEF readRecipients, goto
  <1>3. PICK to : to = all
    OBVIOUS
  <1>14. PICK j : j = [pc |-> "relay", arrived |-> k.arrived, to |-> all]
    OBVIOUS
  <1>4. job' = [job EXCEPT ![p] = j] /\ j.pc = "relay" /\ j.arrived = k.arrived /\ j.to = to
    BY <1>2, <1>3, <1>14
  <1>5. UNCHANGED <<stored, conn, contactsInit, invisible, txn, load>> /\ view' = view
    BY <1>2, StateStays
  <1>6. \A v \in to : v \in Users \ {o} /\ ~Blocks(o, v) /\ ~Blocks(v, o)
    BY <1>3, RowSays
  <1>7. p = <<o, "conn">> => ConnInv(o, j)'
    <2>1. \A v \in to : v \in Users \ {o} /\ (live(v)' => ~Blocks(o, v)' /\ ~Blocks(v, o)')
      BY <1>5, <1>6, SameState
    <2> QED BY <1>1, <1>2, <1>4, <1>5, <2>1 DEF ConnInv
  <1>8. p = <<o, "hook">> => HookInv(j)
    BY <1>1, <1>4 DEF HookInv
  <1>9. modeRow[o] # NoRow
    <2>1. conn[o] # "off"
      BY <1>1, <1>2 DEF RegistryInv, WorkInv, ConnInv
    <2> QED BY <2>1 DEF SerialInv, StoreInv
  <1>10. ASSUME NEW u \in Users, NEW w \in Users, u # w, w \in view[u], ~Good(u, w)
         PROVE  Dues(p, j, u, w)'
    <2>1. w = o /\ LeaveDue(u, o, k) /\ live(u) /\ "buddy" \in FlagsOf(u, o)
      BY <1>1, <1>2, <1>10, LeaveOwed
    <2>2. modeRow[u] # NoRow /\ o \in Listed(u) /\ u \in Users \ {o}
      BY <1>10, <2>1, BuddyIsListed DEF SerialInv, StoreInv, live
    <2>3. PICK r \in AllRelationships(o, {}) : r.user = u
      BY <1>9, <2>2, RowFound
    <2>4. u \in to
      BY <1>3, <2>1, <2>3, RowSays DEF LeaveDue
    <2>5. LeaveDue(u, w, j)'
      BY <1>2, <1>4, <1>5, <2>1, <2>4, SameState DEF LeaveDue
    <2> QED BY <1>1, <2>1, <2>5 DEF Dues
  <1>11. /\ \A u \in Users : \A w \in view'[u] : w \in view[u] \/ (live(u) /\ "buddy" \in FlagsOf(u, w))
         /\ \A u, w \in Users : u # w /\ w \in view'[u] => Good(u, w) \/ Dues(p, j, u, w)'
    BY <1>5, <1>10
  <1>12. view' = [u \in Users |-> view'[u]]
    BY <1>5 DEF SerialInv, MoreTables
  <1>13. goto(p, j) /\ p \in {<<o, "conn">>, <<o, "hook">>}
    BY <1>1, <1>4 DEF goto
  <1> QED BY <1>1, <1>5, <1>7, <1>8, <1>11, <1>12, <1>13, BroadcastStep

LEMMA OneRelayed ==
  ASSUME RegistryInv, SerialInv, NEW p \in Procs, relay(p)
  PROVE  SerialInv'
  <1>1. PICK o \in Users : /\ Owner(p) = o /\ job[p] # Idle /\ job[p].arrived \in BOOLEAN
                           /\ \/ p = <<o, "conn">> /\ ConnInv(o, job[p])
                              \/ p = <<o, "hook">> /\ job[p].arrived = FALSE
    BY WorkKnows DEF SerialInv, relay
  <1> DEFINE k == job[p]
  <1>2. k.pc = "relay" /\ UNCHANGED <<stored, conn, contactsInit, invisible, txn, load>>
    BY DEF relay, bounds
  <1>3. p \in {<<o, "conn">>, <<o, "hook">>}
    BY <1>1
  <1>4. CASE k.to = {}
    <2> DEFINE end == IF p[2] = "hook" THEN [pc |-> "unregister"] ELSE Idle
    <2>1. PICK j : j = end
      OBVIOUS
    <2>2. goto(p, j) /\ view' = view
      BY <1>4, <2>1 DEF relay
    <2>3. (p = <<o, "conn">> => j = Idle) /\ (p = <<o, "hook">> => j.pc = "unregister")
      BY <2>1
    <2>4. p = <<o, "conn">> => ConnInv(o, j)'
      BY <2>3, IdleIsIdle DEF ConnInv
    <2>5. p = <<o, "hook">> => HookInv(j)
      BY <2>3 DEF HookInv
    <2>6. ASSUME NEW u \in Users, NEW w \in Users, u # w, w \in view[u] PROVE Good(u, w)
      <3>1. ~LeaveDue(u, o, k)
        BY <1>2, <1>4 DEF LeaveDue
      <3> QED BY <1>1, <1>2, <2>6, <3>1, LeaveOwed
    <2>7. /\ \A u \in Users : \A w \in view'[u] : w \in view[u] \/ (live(u) /\ "buddy" \in FlagsOf(u, w))
          /\ \A u, w \in Users : u # w /\ w \in view'[u] => Good(u, w) \/ Dues(p, j, u, w)'
      BY <2>2, <2>6
    <2>8. view' = [u \in Users |-> view'[u]]
      BY <2>2 DEF SerialInv, MoreTables
    <2> QED BY <1>1, <1>2, <1>3, <2>2, <2>4, <2>5, <2>7, <2>8, BroadcastStep
  <1>5. CASE k.to # {}
    <2>1. PICK v \in k.to : /\ view' = relayed({<<v, o, k.arrived>>})
                            /\ goto(p, [pc |-> "relay", arrived |-> k.arrived, to |-> k.to \ {v}])
      BY <1>1, <1>5 DEF relay
    <2>2. PICK j : j = [pc |-> "relay", arrived |-> k.arrived, to |-> k.to \ {v}]
      OBVIOUS
    <2>3. goto(p, j) /\ j.pc = "relay" /\ j.arrived = k.arrived /\ j.to = k.to \ {v}
      BY <2>1, <2>2
    <2>4. PICK msgs : msgs = {<<v, o, k.arrived>>}
      OBVIOUS
    <2>5. /\ view' = relayed(msgs)
          /\ \A u, w : <<u, w, TRUE>> \in msgs => k.arrived /\ u = v /\ w = o
          /\ ~k.arrived => <<v, o, FALSE>> \in msgs
      BY <1>1, <2>1, <2>4
    <2>6. p = <<o, "conn">> =>
            /\ conn[o] = "online" /\ (k.arrived <=> ~invisible[o])
            /\ \A x \in k.to : x \in Users \ {o} /\ (live(x) => ~Blocks(o, x) /\ ~Blocks(x, o))
      BY <1>1, <1>2 DEF ConnInv
    <2>7. p = <<o, "conn">> => ConnInv(o, j)'
      <3>1. p = <<o, "conn">> =>
              \A x \in j.to : x \in Users \ {o} /\ (live(x)' => ~Blocks(o, x)' /\ ~Blocks(x, o)')
        BY <1>2, <2>3, <2>6, SameState
      <3> QED BY <1>1, <1>2, <2>3, <2>6, <3>1 DEF ConnInv
    <2>8. p = <<o, "hook">> => HookInv(j)
      BY <1>1, <2>3 DEF HookInv
    <2>9. ASSUME NEW u \in Users, NEW w \in Users, u # w, w \in view[u], w \in view'[u], ~Good(u, w)
          PROVE  Dues(p, j, u, w)'
      <3>1. w = o /\ LeaveDue(u, o, k) /\ live(u)
        BY <1>1, <1>2, <2>9, LeaveOwed
      <3>2. u \in k.to /\ ~k.arrived /\ ~Blocks(u, o) /\ ~Blocks(o, u)
        BY <1>2, <3>1 DEF LeaveDue
      <3>3. u # v
        BY <2>5, <2>9, <3>1, <3>2, Relayed
      <3>4. LeaveDue(u, w, j)'
        BY <1>2, <2>3, <3>1, <3>2, <3>3, SameState DEF LeaveDue
      <3> QED BY <1>3, <3>1, <3>4 DEF Dues
    <2>10. ASSUME NEW u \in Users, NEW w \in Users, <<u, w, TRUE>> \in msgs, live(u)
           PROVE  Good(u, w)
      <3>1. k.arrived /\ u = v /\ w = o
        BY <2>5, <2>10
      <3>2. p = <<o, "conn">>
        BY <1>1, <3>1
      <3> QED BY <2>1, <2>6, <2>10, <3>1, <3>2 DEF Good, Visible
    <2>11. \A u, w \in Users : u # w /\ w \in view'[u] => Good(u, w) \/ Dues(p, j, u, w)'
      BY <2>5, <2>9, <2>10, Relayed
    <2>12. \A u \in Users : \A w \in view'[u] : w \in view[u] \/ (live(u) /\ "buddy" \in FlagsOf(u, w))
      BY <2>5, Relayed
    <2>13. view' = [u \in Users |-> view'[u]]
      BY <2>5 DEF relayed
    <2> QED BY <1>1, <1>2, <1>3, <2>3, <2>7, <2>8, <2>11, <2>12, <2>13, BroadcastStep
  <1> QED BY <1>4, <1>5

LEMMA SerialRelays ==
  ASSUME RegistryInv, SerialInv, load.inFlight = 1, NEW p \in Procs, step(p)
  PROVE  SerialInv'
  BY ReadVisibilityStep, LookupStep, TellStep, ReadRecipientsStep, OneRelayed DEF step

-----------------------------------------------------------------------------
(* Sign-ons, closes, teardowns, and the server's own.                      *)
-----------------------------------------------------------------------------

LEMMA InitSerial == Init => SerialInv
  <1> SUFFICES ASSUME Init PROVE SerialInv
    OBVIOUS
  <1>1. MoreTables /\ StoreInv
    BY DEF Init, MoreTables, StoreInv, NoTxn
  <1>2. ListInv /\ Alone /\ ViewInv /\ ShownInv
    BY DEF Init, ListInv, Alone, ViewInv, ShownInv
  <1>3. KnowsInv
    BY IdleIsIdle DEF Init, KnowsInv, ConnInv, HookInv, Procs
  <1> QED BY <1>1, <1>2, <1>3 DEF SerialInv

LEMMA SerialRestart ==
  ASSUME SerialInv, Restart
  PROVE  SerialInv'
  <1>1. /\ conn' = [u \in Users |-> "off"] /\ job' = [p \in Procs |-> Idle]
        /\ view' = [u \in Users |-> {}] /\ modeRow' = [u \in Users |-> NoRow]
        /\ UNCHANGED <<feedbag, contactsInit, invisible, txn, load>>
    BY DEF Restart, ClearBuddyListRegistry, bounds
  <1>2. MoreTables' /\ StoreInv'
    BY <1>1 DEF SerialInv, MoreTables, StoreInv
  <1>3. ListInv' /\ Alone' /\ ViewInv' /\ ShownInv'
    BY <1>1 DEF ListInv, Alone, ViewInv, ShownInv
  <1>4. KnowsInv'
    <2>1. \A u \in Users : job'[<<u, "conn">>] = Idle /\ job'[<<u, "hook">>] = Idle
      BY <1>1 DEF Procs
    <2> QED BY <2>1, IdleIsIdle DEF KnowsInv, ConnInv, HookInv
  <1> QED BY <1>2, <1>3, <1>4 DEF SerialInv

\* Nobody waits for news of an account that signs on, and no process is about it.
LEMMA SerialSignOn ==
  ASSUME RegistryInv, SerialInv, load.inFlight = 1, NEW u \in Users, SignOn(u)
  PROVE  SerialInv'
  <1>1. /\ conn[u] = "off" /\ job[<<u, "conn">>] = Idle /\ job[<<u, "hook">>] = Idle
        /\ UNCHANGED <<clientSide, feedbag, job, view, load>>
        /\ conn' = [conn EXCEPT ![u] = "registered"]
        /\ contactsInit' = [contactsInit EXCEPT ![u] = FALSE]
        /\ invisible' = [invisible EXCEPT ![u] = FALSE]
        /\ txn' = [txn EXCEPT ![u] = NoTxn]
        /\ modeRow' = [modeRow EXCEPT ![u] = IF @ = NoRow THEN [useFeedbag |-> FALSE, pd |-> PermitAll] ELSE @]
    BY DEF SignOn, RegisterBuddyList, RegistryInv, WorkInv
  <1>2. \A w \in Users \ {u} : /\ conn'[w] = conn[w] /\ contactsInit'[w] = contactsInit[w]
                               /\ invisible'[w] = invisible[w] /\ txn'[w] = txn[w]
                               /\ modeRow'[w] = modeRow[w]
    BY <1>1 DEF SerialInv, MoreTables, RegistryInv, Tables
  <1>3. /\ conn'[u] = "registered" /\ contactsInit'[u] = FALSE /\ ~invisible'[u] /\ ~txn'[u].active
        /\ modeRow'[u] \in Rows
    <2>1. [useFeedbag |-> FALSE, pd |-> PermitAll] \in Rows
      BY DEF Rows, PermitAll
    <2>2. modeRow'[u] = IF modeRow[u] = NoRow THEN [useFeedbag |-> FALSE, pd |-> PermitAll] ELSE modeRow[u]
      BY <1>1 DEF RegistryInv, Tables
    <2>3. modeRow'[u] \in Rows
      BY <2>1, <2>2 DEF SerialInv, StoreInv
    <2>4. conn'[u] = "registered"
      BY <1>1 DEF RegistryInv, Tables
    <2>5. contactsInit'[u] = FALSE /\ invisible'[u] = FALSE /\ txn'[u] = NoTxn
      BY <1>1 DEF SerialInv, MoreTables
    <2>6. NoTxn.active = FALSE
      BY DEF NoTxn
    <2> QED BY <2>3, <2>4, <2>5, <2>6
  <1>4. modeRow'[u] # NoRow
    BY <1>3, PresenceAssumption DEF Rows
  <1>5. \A v \in Users : live(v)' <=> live(v)
    BY <1>1, <1>2, <1>3 DEF live
  <1>6. \A v \in Users : live(v) => v # u
    BY <1>1 DEF live
  <1>7. \A v \in Users \ {u} : /\ UsesFeedbag(v)' <=> UsesFeedbag(v)
                               /\ \A w \in Users : /\ FlagsOf(v, w)' = FlagsOf(v, w)
                                                   /\ Blocks(v, w)' <=> Blocks(v, w)
    BY <1>1, <1>2, SameRows
  <1>8. MoreTables' /\ StoreInv' /\ ListInv'
    <2>1. MoreTables'
      BY <1>1 DEF SerialInv, MoreTables
    <2>2. StoreInv'
      BY <1>1, <1>2, <1>3, <1>4 DEF SerialInv, StoreInv
    <2>3. ListInv'
      BY <1>1, <1>2, <1>3, <1>7 DEF SerialInv, ListInv
    <2> QED BY <2>1, <2>2, <2>3
  <1>9. Alone'
    BY <1>1 DEF SerialInv, Alone
  <1>10. KnowsInv'
    <2> SUFFICES ASSUME NEW o \in Users
                 PROVE  ConnInv(o, job[<<o, "conn">>])' /\ HookInv(job[<<o, "hook">>])'
      BY DEF KnowsInv
    <2>1. job' = job /\ ConnInv(o, job[<<o, "conn">>]) /\ HookInv(job[<<o, "hook">>])
      BY <1>1 DEF SerialInv, KnowsInv
    <2>2. HookInv(job[<<o, "hook">>])'
      BY <2>1 DEF HookInv
    <2>3. CASE o = u
      BY <1>1, <2>1, <2>2, <2>3, IdleIsIdle DEF ConnInv
    <2>4. CASE o # u
      <3> DEFINE j == job[<<o, "conn">>]
      <3>1. PICK k : k = j
        OBVIOUS
      <3>2. conn'[o] = conn[o] /\ invisible'[o] = invisible[o] /\ (live(o)' <=> live(o))
        BY <1>2, <1>5, <2>4
      <3>3. \A r : RowInv(r, o) => RowInv(r, o)'
        BY <1>5, <1>6, <1>7, <2>4 DEF RowInv
      <3>4. k.pc = "handle" => (k.req \in RequestsOf(o) => k.req \in RequestsOf(o)')
        BY <1>1 DEF RequestsOf
      <3>5. \A v \in Users : live(v)' => /\ Blocks(o, v)' <=> Blocks(o, v)
                                         /\ Blocks(v, o)' <=> Blocks(v, o)
                                         /\ invisible'[v] = invisible[v]
        BY <1>2, <1>5, <1>6, <1>7, <2>4
      <3>6. ConnInv(o, k)
        BY <2>1, <3>1
      <3>7. k.pc = "handle" =>
               /\ k.req \in RequestsOf(o)'
               /\ conn'[o] = "online" \/ k.req.kind \in EarlyKinds
               /\ "left" \in DOMAIN k => k.req.kind = "UpsertItems" /\ k.left \subseteq k.req.arg
        BY <3>2, <3>4, <3>6 DEF ConnInv
      <3>8. k.pc = "tell" => /\ RowInv(k.row, o)' /\ live(k.row.user)'
                             /\ k.theirs <=> ~invisible'[k.row.user]
        <4> SUFFICES ASSUME k.pc = "tell"
                     PROVE  /\ RowInv(k.row, o)' /\ live(k.row.user)'
                            /\ k.theirs <=> ~invisible'[k.row.user]
          OBVIOUS
        <4>1. RowInv(k.row, o) /\ live(k.row.user) /\ (k.theirs <=> ~invisible[k.row.user])
          BY <3>6 DEF ConnInv
        <4>2. k.row.user \in Users \ {u}
          BY <1>6, <4>1 DEF RowInv
        <4> QED BY <1>2, <1>5, <3>3, <4>1, <4>2
      <3>9. /\ k.pc \in {"next", "tell"} => /\ k.visible <=> ~invisible'[o]
                                            /\ \A r \in k.rows : RowInv(r, o)'
            /\ k.pc = "relay" => \A v \in k.to : v \in Users \ {o}
                                   /\ (live(v)' => ~Blocks(o, v)' /\ ~Blocks(v, o)')
        BY <1>5, <3>2, <3>3, <3>5, <3>6 DEF ConnInv
      <3>10. ConnInv(o, k)'
        BY <3>2, <3>6, <3>7, <3>8, <3>9 DEF ConnInv
      <3>11. job'[<<o, "conn">>] = k
        BY <2>1, <3>1
      <3> QED BY <2>2, <3>10, <3>11
    <2> QED BY <2>3, <2>4
  <1>11. ViewInv'
    <2> SUFFICES ASSUME NEW v \in Users, NEW w \in view[v] PROVE live(v)' /\ "buddy" \in FlagsOf(v, w)'
      BY <1>1 DEF ViewInv
    <2>1. live(v) /\ "buddy" \in FlagsOf(v, w) /\ v # u
      BY <1>6 DEF SerialInv, ViewInv
    <2>2. FlagsOf(v, w)' = FlagsOf(v, w)
      BY <1>1, <1>7, <2>1 DEF FlagsOf
    <2> QED BY <1>5, <2>1, <2>2
  <1>12. ShownInv'
    <2> SUFFICES ASSUME NEW v \in Users, NEW w \in Users, v # w, w \in view[v]
                 PROVE  Good(v, w)' \/ Due(v, w)'
      BY <1>1 DEF ShownInv
    <2>1. v # u
      BY <1>6 DEF SerialInv, ViewInv
    <2>2. Good(v, w) \/ Due(v, w)
      BY DEF SerialInv, ShownInv
    <2>3. w # u
      <3>1. ~Good(v, u) /\ ~Unseen(v, u)
        BY <1>1 DEF Good, Unseen
      <3>2. ~LeaveDue(v, u, job[<<u, "conn">>]) /\ ~LeaveDue(v, u, job[<<u, "hook">>])
        BY <1>1, IdleOwes
      <3> QED BY <2>2, <3>1, <3>2 DEF Due
    <2>4. /\ Blocks(v, w)' <=> Blocks(v, w)
          /\ Blocks(w, v)' <=> Blocks(w, v)
          /\ Good(v, w)' <=> Good(v, w)
          /\ Unseen(v, w)' <=> Unseen(v, w)
      BY <1>2, <1>7, <2>1, <2>3 DEF Good, Visible, Unseen
    <2>5. Due(v, w)' <=> Due(v, w)
      <3>1. \A j : \A mine \in BOOLEAN : /\ BlockDue(v, w, mine, j)' <=> BlockDue(v, w, mine, j)
                                         /\ BlockDue(w, v, mine, j)' <=> BlockDue(w, v, mine, j)
                                         /\ LeaveDue(v, w, j)' <=> LeaveDue(v, w, j)
        BY <2>4 DEF BlockDue, LeaveDue
      <3> QED BY <1>1, <2>4, <3>1 DEF Due
    <2> QED BY <2>2, <2>4, <2>5
  <1> QED BY <1>8, <1>9, <1>10, <1>11, <1>12 DEF SerialInv

\* Where all processes are idle, whoever is shown may be.
LEMMA IdleShows ==
  ASSUME SerialInv, \A p \in Procs : job[p] = Idle,
         NEW u \in Users, NEW w \in Users, u # w, w \in view[u]
  PROVE  Good(u, w) /\ live(u) /\ "buddy" \in FlagsOf(u, w)
  BY NoneDue DEF SerialInv, ShownInv, ViewInv

LEMMA OrderlyLoad ==
  ASSUME Orderly, SerialInv, load.inFlight = 1
  PROVE  /\ load.late = {} /\ EarlyKinds \subseteq Unannounced
         /\ \A u \in Users :
              /\ "StartCluster" \notin load.kinds[u]
              /\ "Use" \in load.kinds[u] => "AddBuddies" \notin load.kinds[u]
              /\ "UpsertItems" \in load.kinds[u] => \A v, w \in Users \ {u} : v = w
  BY DEF Orderly, SerialInv, MoreTables

\* A client that comes online has been shown to nobody yet.
LEMMA SerialClientOnline ==
  ASSUME RegistryInv, SerialInv, Orderly, load.inFlight = 1, NEW u \in Users, ClientOnline(u)
  PROVE  SerialInv'
  <1> DEFINE p == <<u, "conn">>
  <1>1. contactsInit[u]
    BY OrderlyLoad DEF ClientOnline
  <1>2. /\ conn[u] = "registered" /\ mayStart(u) /\ conn' = [conn EXCEPT ![u] = "online"]
        /\ goto(p, BroadcastVisibility({}, FALSE))
        /\ UNCHANGED <<modeRow, clientSide, feedbag, contactsInit, invisible, txn, view, load>>
    BY <1>1 DEF ClientOnline, stored, bounds
  <1>3. \A q \in Procs : job[q] = Idle
    BY <1>2, StartsAlone
  <1>4. PICK j : j = BroadcastVisibility({}, FALSE)
    OBVIOUS
  <1>5. j.pc = "read" /\ j.departures = FALSE
    BY <1>4 DEF BroadcastVisibility
  <1>6. p \in Procs /\ job' = [job EXCEPT ![p] = j]
    BY <1>2, <1>4 DEF goto, Procs
  <1>7. Alone' /\ job'[p] = j /\ \A q \in Procs : q # p => job'[q] = Idle
    BY <1>3, <1>6, StaysAlone DEF RegistryInv, SerialInv
  <1>8. conn'[u] = "online" /\ \A v \in Users \ {u} : conn'[v] = conn[v]
    BY <1>2 DEF RegistryInv, Tables
  <1>9. KnowsInv'
    <2>1. ConnInv(u, j)'
      BY <1>5, <1>8 DEF ConnInv
    <2> QED BY <1>6, <1>7, <2>1, KnowsAlone
  <1>10. \A v, w \in Users : /\ Blocks(v, w)' <=> Blocks(v, w)
                             /\ UsesFeedbag(v)' <=> UsesFeedbag(v)
    BY <1>2, SameRows
  <1>11. MoreTables' /\ StoreInv' /\ ListInv'
    <2>1. MoreTables'
      BY <1>2 DEF SerialInv, MoreTables
    <2>2. StoreInv'
      BY <1>2, <1>8 DEF SerialInv, StoreInv
    <2>3. ListInv'
      BY <1>1, <1>2, <1>8, <1>10 DEF SerialInv, ListInv
    <2> QED BY <2>1, <2>2, <2>3
  <1>12. ViewInv'
    <2> SUFFICES ASSUME NEW v \in Users, NEW w \in view[v] PROVE live(v)' /\ "buddy" \in FlagsOf(v, w)'
      BY <1>2 DEF ViewInv
    <2>1. live(v) /\ "buddy" \in FlagsOf(v, w)
      BY DEF SerialInv, ViewInv
    <2>2. FlagsOf(v, w)' = FlagsOf(v, w)
      <3>1. UsesFeedbag(v)' <=> UsesFeedbag(v)
        BY <1>10
      <3> QED BY <1>2, <3>1 DEF FlagsOf
    <2> QED BY <1>2, <1>8, <2>1, <2>2 DEF live
  <1>13. ShownInv'
    <2> SUFFICES ASSUME NEW v \in Users, NEW w \in Users, v # w, w \in view[v] PROVE Good(v, w)'
      BY <1>2 DEF ShownInv
    <2>1. Good(v, w)
      BY <1>3, IdleShows
    <2> QED BY <1>2, <1>8, <1>10, <2>1 DEF Good, Visible
  <1> QED BY <1>7, <1>9, <1>11, <1>12, <1>13 DEF SerialInv

LEMMA SerialReceive ==
  ASSUME RegistryInv, SerialInv, load.inFlight = 1, NEW u \in Users, Receive(u)
  PROVE  SerialInv'
  <1> DEFINE p == <<u, "conn">>
  <1>1. PICK r \in RequestsOf(u) :
          /\ conn[u] = "online" \/ r.kind \in EarlyKinds
          /\ goto(p, [pc |-> "handle", req |-> r, signedOn |-> live(u)])
    BY DEF Receive
  <1>2. mayStart(u) /\ UNCHANGED <<stored, conn, contactsInit, invisible, txn, view, load>>
    BY DEF Receive
  <1>3. \A q \in Procs : job[q] = Idle
    BY <1>2, StartsAlone
  <1>4. PICK j : j = [pc |-> "handle", req |-> r, signedOn |-> live(u)]
    OBVIOUS
  <1>5. j.pc = "handle" /\ j.req = r /\ (j.signedOn <=> live(u)) /\ "left" \notin DOMAIN j
    BY <1>4 DEF live
  <1>6. p \in Procs /\ job' = [job EXCEPT ![p] = j]
    BY <1>1, <1>4 DEF goto, Procs
  <1>7. Alone' /\ job'[p] = j /\ \A q \in Procs : q # p => job'[q] = Idle
    BY <1>3, <1>6, StaysAlone DEF RegistryInv, SerialInv
  <1>8. KnowsInv'
    <2>1. r \in RequestsOf(u)'
      BY <1>2 DEF RequestsOf
    <2>2. ConnInv(u, j)'
      BY <1>1, <1>2, <1>5, <2>1 DEF ConnInv, live
    <2> QED BY <1>6, <1>7, <2>2, KnowsAlone
  <1>9. MoreTables' /\ StoreInv' /\ ListInv'
    BY <1>2, SameState DEF SerialInv, MoreTables, StoreInv, ListInv, stored
  <1>10. ViewInv'
    <2> SUFFICES ASSUME NEW v \in Users, NEW w \in view[v] PROVE live(v)' /\ "buddy" \in FlagsOf(v, w)'
      BY <1>2 DEF ViewInv
    <2>1. live(v) /\ "buddy" \in FlagsOf(v, w)
      BY DEF SerialInv, ViewInv
    <2>2. FlagsOf(v, w)' = FlagsOf(v, w)
      <3>1. UsesFeedbag(v)' <=> UsesFeedbag(v)
        BY <1>2, SameState
      <3> QED BY <1>2, <3>1 DEF FlagsOf, stored
    <2> QED BY <1>2, <2>1, <2>2 DEF live
  <1>11. ShownInv'
    BY <1>2, <1>3, IdleShows, SameState DEF ShownInv
  <1> QED BY <1>7, <1>8, <1>9, <1>10, <1>11 DEF SerialInv

\* Whom an account that closes was shown to will be told, and it shows nobody itself.
LEMMA SerialClose ==
  ASSUME RegistryInv, SerialInv, load.inFlight = 1, NEW u \in Users, Close(u)
  PROVE  SerialInv'
  <1> DEFINE p == <<u, "hook">>
  <1>1. /\ conn[u] \in {"registered", "online"} /\ mayStart(u)
        /\ conn' = [conn EXCEPT ![u] = "closing"] /\ view' = [view EXCEPT ![u] = {}]
        /\ goto(p, Broadcast(FALSE))
        /\ UNCHANGED <<modeRow, clientSide, feedbag, contactsInit, invisible, txn, load>>
    BY DEF Close, stored, bounds
  <1>2. \A q \in Procs : job[q] = Idle
    BY <1>1, StartsAlone
  <1>3. PICK j : j = Broadcast(FALSE)
    OBVIOUS
  <1>4. j.pc = "readAll" /\ j.arrived = FALSE
    BY <1>3 DEF Broadcast
  <1>5. p \in Procs /\ job' = [job EXCEPT ![p] = j]
    BY <1>1, <1>3 DEF goto, Procs
  <1>6. Alone' /\ job'[p] = j /\ \A q \in Procs : q # p => job'[q] = Idle
    BY <1>2, <1>5, StaysAlone DEF RegistryInv, SerialInv
  <1>7. /\ conn'[u] = "closing" /\ \A v \in Users \ {u} : conn'[v] = conn[v]
        /\ view'[u] = {} /\ \A v \in Users \ {u} : view'[v] = view[v]
    BY <1>1 DEF RegistryInv, Tables, SerialInv, MoreTables
  <1>8. KnowsInv'
    <2>1. HookInv(j)
      BY <1>4 DEF HookInv
    <2> QED BY <1>5, <1>6, <2>1, KnowsAlone
  <1>9. \A v, w \in Users : /\ Blocks(v, w)' <=> Blocks(v, w)
                            /\ UsesFeedbag(v)' <=> UsesFeedbag(v)
    BY <1>1, SameRows
  <1>10. MoreTables' /\ StoreInv' /\ ListInv'
    <2>1. MoreTables'
      BY <1>1 DEF SerialInv, MoreTables
    <2>2. StoreInv'
      BY <1>1, <1>7 DEF SerialInv, StoreInv
    <2>3. ListInv'
      BY <1>1, <1>7, <1>9 DEF SerialInv, ListInv
    <2> QED BY <2>1, <2>2, <2>3
  <1>11. ViewInv'
    <2> SUFFICES ASSUME NEW v \in Users, NEW w \in view'[v] PROVE live(v)' /\ "buddy" \in FlagsOf(v, w)'
      BY DEF ViewInv
    <2>1. v # u /\ w \in view[v]
      BY <1>7
    <2>2. live(v) /\ "buddy" \in FlagsOf(v, w)
      BY <2>1 DEF SerialInv, ViewInv
    <2>3. FlagsOf(v, w)' = FlagsOf(v, w)
      <3>1. UsesFeedbag(v)' <=> UsesFeedbag(v)
        BY <1>9
      <3> QED BY <1>1, <3>1 DEF FlagsOf
    <2> QED BY <1>7, <2>1, <2>2, <2>3 DEF live
  <1>12. ShownInv'
    <2> SUFFICES ASSUME NEW v \in Users, NEW w \in Users, v # w, w \in view'[v]
                 PROVE  Good(v, w)' \/ Due(v, w)'
      BY DEF ShownInv
    <2>1. v # u /\ w \in view[v]
      BY <1>7
    <2>2. Good(v, w)
      BY <1>2, <2>1, IdleShows
    <2>3. CASE w # u
      BY <1>1, <1>7, <1>9, <2>2, <2>3 DEF Good, Visible
    <2>4. CASE w = u
      <3>1. LeaveDue(v, w, j)'
        BY <1>4, <1>9, <2>2 DEF LeaveDue, Good, Visible
      <3> QED BY <1>6, <2>4, <3>1 DEF Due
    <2> QED BY <2>3, <2>4
  <1> QED BY <1>6, <1>8, <1>10, <1>11, <1>12 DEF SerialInv

\* By the end of the teardown nobody shows the account any more.
LEMMA SerialSignout ==
  ASSUME RegistryInv, SerialInv, load.inFlight = 1, NEW u \in Users, Signout(u)
  PROVE  SerialInv'
  <1> DEFINE p == <<u, "hook">>
  <1>1. /\ job[p].pc = "unregister" /\ goto(p, Idle) /\ conn' = [conn EXCEPT ![u] = "off"]
        /\ modeRow' = [modeRow EXCEPT ![u] = NoRow] /\ clientSide' = [clientSide EXCEPT ![u] = Empty]
        /\ UNCHANGED <<feedbag, contactsInit, invisible, txn, view, load>>
    BY DEF Signout, UnregisterBuddyList, bounds
  <1>2. p \in Procs /\ job[p] # Idle /\ job' = [job EXCEPT ![p] = Idle]
    BY <1>1, IdleIsIdle DEF Procs, goto
  <1>3. conn[u] = "closing"
    BY <1>2 DEF RegistryInv, WorkInv
  <1>4. Alone' /\ job'[p] = Idle /\ \A q \in Procs : q # p => job'[q] = Idle
    BY <1>2, StaysAlone DEF RegistryInv, SerialInv
  <1>5. KnowsInv'
    <2>1. HookInv(Idle)
      BY IdleIsIdle DEF HookInv
    <2> QED BY <1>2, <1>4, <2>1, KnowsAlone
  <1>6. /\ conn'[u] = "off" /\ modeRow'[u] = NoRow
        /\ \A v \in Users \ {u} : conn'[v] = conn[v] /\ modeRow'[v] = modeRow[v] /\ clientSide'[v] = clientSide[v]
    BY <1>1 DEF RegistryInv, Tables
  <1>7. \A v \in Users \ {u} : /\ UsesFeedbag(v)' <=> UsesFeedbag(v)
                               /\ \A w \in Users : Blocks(v, w)' <=> Blocks(v, w)
    BY <1>1, <1>6, SameRows
  <1>8. MoreTables' /\ StoreInv' /\ ListInv'
    <2>1. MoreTables'
      BY <1>1 DEF SerialInv, MoreTables
    <2>2. StoreInv'
      BY <1>1, <1>6 DEF SerialInv, StoreInv
    <2>3. ListInv'
      BY <1>1, <1>6, <1>7 DEF SerialInv, ListInv
    <2> QED BY <2>1, <2>2, <2>3
  <1>9. ASSUME NEW v \in Users, NEW w \in view[v] PROVE live(v) /\ "buddy" \in FlagsOf(v, w) /\ v # u
    BY <1>3, <1>9 DEF SerialInv, ViewInv, live
  <1>10. ViewInv'
    <2> SUFFICES ASSUME NEW v \in Users, NEW w \in view[v] PROVE live(v)' /\ "buddy" \in FlagsOf(v, w)'
      BY <1>1 DEF ViewInv
    <2>1. live(v) /\ "buddy" \in FlagsOf(v, w) /\ v # u
      BY <1>9
    <2>2. FlagsOf(v, w)' = FlagsOf(v, w)
      <3>1. UsesFeedbag(v)' <=> UsesFeedbag(v)
        BY <1>7, <2>1
      <3> QED BY <1>1, <1>6, <2>1, <3>1 DEF FlagsOf
    <2> QED BY <1>6, <2>1, <2>2 DEF live
  <1>11. ShownInv'
    <2> SUFFICES ASSUME NEW v \in Users, NEW w \in Users, v # w, w \in view[v] PROVE Good(v, w)'
      BY <1>1 DEF ShownInv
    <2>1. v # u
      BY <1>9
    <2>2. Good(v, w)
      <3>1. ~Due(v, w)
        <4>1. \A x, y, mine : ~BlockDue(x, y, mine, job[p]) /\ ~LeaveDue(x, y, job[p])
          BY <1>1 DEF BlockDue, LeaveDue, Notice
        <4>2. ~Dues(p, job[p], v, w)
          BY <4>1 DEF Dues
        <4> QED BY <1>2, <4>2, DueIs DEF SerialInv
      <3> QED BY <3>1 DEF SerialInv, ShownInv
    <2>3. w # u
      BY <1>3, <2>2 DEF Good
    <2> QED BY <1>1, <1>6, <1>7, <2>1, <2>2, <2>3 DEF Good, Visible
  <1> QED BY <1>4, <1>5, <1>8, <1>10, <1>11 DEF SerialInv

-----------------------------------------------------------------------------
(* Requests.                                                               *)
-----------------------------------------------------------------------------

LEMMA RequestIs ==
  ASSUME NEW u \in Users, NEW r \in RequestsOf(u)
  PROVE  /\ r.kind \in load.kinds[u]
         /\ r.kind \in {"AddBuddies", "DelBuddies", "DelDenyListEntries", "DelPermListEntries"}
              => r.arg \subseteq Users \ {u}
         /\ r.kind \in {"DelBuddies", "DelDenyListEntries", "DelPermListEntries"} => r.arg # {}
         /\ r.kind = "SetUserInfoFields" => r.arg \in BOOLEAN
         /\ r.kind \in {"UpsertItem", "DeleteItem"} =>
              \E i \in Entries \cup PdInfos : r.arg = {i} /\ (i \in Entries => i.name # u)
         /\ r.kind = "UpsertItems" =>
              /\ r.arg \subseteq Entries \cup PdInfos
              /\ \E i \in r.arg \ PdInfos : i.name \in Users \ {u}
  <1>1. r.kind \in load.kinds[u]
    BY DEF RequestsOf
  <1>2. r.kind \in {"AddBuddies", "DelBuddies", "DelDenyListEntries", "DelPermListEntries"}
          => r.arg \subseteq Users \ {u}
    BY DEF RequestsOf
  <1>3. r.kind \in {"DelBuddies", "DelDenyListEntries", "DelPermListEntries"} => r.arg # {}
    BY DEF RequestsOf
  <1>4. r.kind = "SetUserInfoFields" => r.arg \in BOOLEAN
    BY DEF RequestsOf
  <1>5. r.kind \in {"UpsertItem", "DeleteItem"} =>
          \E i \in Entries \cup PdInfos : r.arg = {i} /\ (i \in Entries => i.name # u)
    <2> DEFINE items == {e \in Entries : e.name # u} \cup {i \in PdInfos : i.mode \in load.modes}
    <2>1. r.kind \in {"UpsertItem", "DeleteItem"} => \E i \in items : r.arg = {i}
      BY DEF RequestsOf
    <2>2. Entries \cap PdInfos = {}
      BY IsFlag DEF Entries, PdInfos
    <2> QED BY <2>1, <2>2
  <1>6. r.kind = "UpsertItems" =>
          /\ r.arg \subseteq Entries \cup PdInfos
          /\ \E i \in r.arg \ PdInfos : i.name \in Users \ {u}
    <2> DEFINE modes == {i \in PdInfos : i.mode \in load.modes}
               items == {e \in Entries : e.name # u} \cup modes
    <2>1. r.kind = "UpsertItems" => \E i \in items \ PdInfos : \E pd \in modes : r.arg = {i, pd}
      BY DEF RequestsOf
    <2>2. \A i \in items \ PdInfos : i \in Entries /\ i.name \in Users \ {u}
      BY DEF Entries
    <2> QED BY <2>1, <2>2
  <1> QED BY <1>1, <1>2, <1>3, <1>4, <1>5, <1>6

\* A step of a request: what it newly blocks it will announce, and so will what was owed before.
LEMMA AfterRequest ==
  ASSUME RegistryInv, SerialInv, NEW o \in Users, NEW p \in Procs, NEW j,
         p = <<o, "conn">>, job[p].pc \in {"handle", "entries"}, goto(p, j),
         UNCHANGED <<conn, invisible, load>>,
         \A v \in Users \ {o} : /\ modeRow'[v] = modeRow[v] /\ clientSide'[v] = clientSide[v]
                                /\ feedbag'[v] = feedbag[v] /\ view'[v] = view[v],
         \A w \in view'[o] : w \in view[o] /\ "buddy" \in FlagsOf(o, w)',
         MoreTables', StoreInv', ListInv', ConnInv(o, j)',
         live(o) => \A v \in Users \ {o} :
           \/ Notice(j, v)
           \/ (Blocks(o, v)' => Blocks(o, v)) /\ ~Notice(job[p], v)
  PROVE  SerialInv'
  <1>1. job[p] # Idle
    BY IdleIsIdle
  <1>2. Alone' /\ job'[p] = j /\ \A q \in Procs : q # p => job'[q] = Idle
    BY <1>1, StaysAlone DEF RegistryInv, SerialInv, goto
  <1>3. KnowsInv'
    BY <1>2, KnowsAlone
  <1>4. \A v \in Users \ {o} : /\ UsesFeedbag(v)' <=> UsesFeedbag(v)
                               /\ \A w \in Users : Blocks(v, w)' <=> Blocks(v, w)
    BY SameRows
  <1>5. \A u \in Users : \A w \in view'[u] : w \in view[u]
    OBVIOUS
  <1>6. ViewInv'
    <2> SUFFICES ASSUME NEW u \in Users, NEW w \in view'[u] PROVE live(u)' /\ "buddy" \in FlagsOf(u, w)'
      BY DEF ViewInv
    <2>1. live(u) /\ "buddy" \in FlagsOf(u, w)
      BY <1>5 DEF SerialInv, ViewInv
    <2>2. CASE u # o
      <3>1. FlagsOf(u, w)' = FlagsOf(u, w)
        <4>1. UsesFeedbag(u)' <=> UsesFeedbag(u)
          BY <1>4, <2>2
        <4> QED BY <2>2, <4>1 DEF FlagsOf
      <3> QED BY <2>1, <3>1 DEF live
    <2>3. CASE u = o
      BY <2>1, <2>3 DEF live
    <2> QED BY <2>2, <2>3
  <1>7. ASSUME NEW u \in Users, NEW w \in Users, u # w, w \in view'[u]
        PROVE  Good(u, w)' \/ Due(u, w)'
    <2>1. w \in view[u] /\ live(u)
      BY <1>5, <1>7 DEF SerialInv, ViewInv
    <2>2. Good(u, w) \/ Dues(p, job[p], u, w)
      BY <1>1, <1>7, <2>1, DueIs DEF SerialInv, ShownInv
    <2>3. Good(u, w) \/ /\ Unseen(u, w)
                        /\ \/ o = u /\ ~Blocks(w, o) /\ Notice(job[p], w)
                           \/ o = w /\ ~Blocks(u, o) /\ Notice(job[p], u)
      BY <2>2 DEF Dues, LeaveDue, BlockDue
    <2>4. CASE o # u /\ o # w
      BY <1>4, <2>3, <2>4 DEF Good, Visible
    <2>5. ASSUME NEW v \in Users \ {o}, (o = u /\ v = w) \/ (o = w /\ v = u)
          PROVE  Good(u, w)' \/ Due(u, w)'
      <3>1. Unseen(u, w) /\ ~Blocks(v, o) /\ live(o)
        BY <2>1, <2>3, <2>5 DEF Good, Visible, Unseen, live
      <3>2. Unseen(u, w)' /\ ~Blocks(v, o)'
        BY <1>4, <3>1 DEF Unseen
      <3>3. CASE Notice(j, v)
        <4>1. BlockDue(o, v, TRUE, j)' /\ BlockDue(o, v, FALSE, j)'
          BY <3>2, <3>3 DEF BlockDue
        <4>2. Dues(p, j, u, w)'
          BY <2>5, <3>2, <4>1 DEF Dues
        <4> QED BY <1>2, <4>2, IsDue
      <3>4. CASE (Blocks(o, v)' => Blocks(o, v)) /\ ~Notice(job[p], v)
        <4>1. Good(u, w) /\ ~Blocks(o, v)
          BY <2>3, <2>5, <3>4 DEF Good, Visible
        <4> QED BY <2>5, <3>2, <3>4, <4>1 DEF Good, Visible, Unseen
      <3> QED BY <3>1, <3>3, <3>4
    <2> QED BY <1>7, <2>4, <2>5
  <1>8. ShownInv'
    BY <1>7 DEF ShownInv
  <1> QED BY <1>2, <1>3, <1>6, <1>8 DEF SerialInv

\* What a request of a connection is, and who is online.
LEMMA AtWork ==
  ASSUME RegistryInv, SerialInv, load.inFlight = 1, NEW o \in Users, NEW kind, handling(o, kind)
  PROVE  LET j == job[<<o, "conn">>]
         IN  /\ j.pc = "handle" /\ j.req.kind = kind /\ j.req \in RequestsOf(o)
             /\ conn[o] \in {"registered", "online"} /\ modeRow[o] \in Rows
             /\ kind \notin EarlyKinds => live(o)
             /\ signedOn(o) <=> live(o)
             /\ "left" \notin DOMAIN j => \A v : ~Notice(j, v)
             /\ "left" \in DOMAIN j => kind = "UpsertItems" /\ j.left \subseteq j.req.arg
             /\ ~live(o) => view[o] = {}
  <1> DEFINE j == job[<<o, "conn">>]
  <1>1. j.pc = "handle" /\ j.req.kind = kind /\ j # Idle
    BY IdleIsIdle DEF handling
  <1>2. ConnInv(o, j)
    BY DEF SerialInv, KnowsInv
  <1>3. conn[o] \in {"registered", "online"}
    BY <1>1 DEF RegistryInv, WorkInv
  <1>4. modeRow[o] \in Rows
    BY <1>3 DEF SerialInv, StoreInv
  <1>5. ~live(o) => view[o] = {}
    BY DEF SerialInv, ViewInv
  <1>6. /\ j.req \in RequestsOf(o)
        /\ kind \notin EarlyKinds => live(o)
        /\ signedOn(o) <=> live(o)
        /\ "left" \in DOMAIN j => kind = "UpsertItems" /\ j.left \subseteq j.req.arg
    BY <1>1, <1>2 DEF ConnInv, live, signedOn
  <1>7. "left" \notin DOMAIN j => \A v : ~Notice(j, v)
    BY <1>1 DEF Notice
  <1> QED BY <1>1, <1>3, <1>4, <1>5, <1>6, <1>7

\* The ways a request goes on.
LEMMA MaybeSends ==
  ASSUME NEW o, NEW filter, maybeBroadcastVisibility(o, filter)
  PROVE  \E j : /\ goto(<<o, "conn">>, j)
                /\ signedOn(o) => j.pc = "read" /\ j.departures = TRUE /\ j.filter = filter
                /\ ~signedOn(o) => j = Idle
  <1>1. CASE signedOn(o)
    <2>1. goto(<<o, "conn">>, BroadcastVisibility(filter, TRUE))
      BY <1>1 DEF maybeBroadcastVisibility, broadcast
    <2> QED BY <1>1, <2>1 DEF BroadcastVisibility
  <1>2. CASE ~signedOn(o)
    <2>1. goto(<<o, "conn">>, Idle)
      BY <1>2 DEF maybeBroadcastVisibility, done
    <2> QED BY <1>2, <2>1
  <1> QED BY <1>1, <1>2

LEMMA Sends ==
  ASSUME NEW o, NEW filter, broadcast(o, filter, TRUE)
  PROVE  \E j : goto(<<o, "conn">>, j) /\ j.pc = "read" /\ j.departures = TRUE /\ j.filter = filter
  <1>1. goto(<<o, "conn">>, BroadcastVisibility(filter, TRUE))
    BY DEF broadcast
  <1> QED BY <1>1 DEF BroadcastVisibility

LEMMA EndKnows ==
  ASSUME NEW o \in Users, NEW j, j = Idle \/ (j.pc = "read" /\ conn'[o] = "online")
  PROVE  ConnInv(o, j)'
  BY IdleIsIdle DEF ConnInv

LEMMA FlagSet ==
  ASSUME Tables, NEW o \in Users, NEW names, NEW flag, setFlag(o, names, flag), UNCHANGED <<modeRow, feedbag>>
  PROVE  /\ clientSide' = [u \in Users |-> clientSide'[u]]
         /\ pdMode(o)' = pdMode(o)
         /\ \A w : FlagsOf(o, w) \subseteq FlagsOf(o, w)'
         /\ \A w \in Users \ names : Blocks(o, w)' <=> Blocks(o, w)
         /\ \A u \in Users \ {o} : clientSide'[u] = clientSide[u]
         /\ \A u \in Users : UsesFeedbag(u)' <=> UsesFeedbag(u)
  <1>1. /\ clientSide' = [u \in Users |-> clientSide'[u]]
        /\ \A u \in Users \ {o} : clientSide'[u] = clientSide[u]
        /\ clientSide'[o] =
             [w \in DOMAIN clientSide[o] \cup names |->
                (IF w \in DOMAIN clientSide[o] THEN clientSide[o][w] ELSE {}) \cup {f \in {flag} : w \in names}]
    BY DEF Tables, setFlag
  <1>2. \A u \in Users : UsesFeedbag(u)' <=> UsesFeedbag(u)
    BY DEF UsesFeedbag
  <1>3. pdMode(o)' = pdMode(o)
    BY <1>2, SameMode
  <1>4. ASSUME NEW w
        PROVE  FlagsOf(o, w) \subseteq FlagsOf(o, w)' /\ (w \notin names => FlagsOf(o, w)' = FlagsOf(o, w))
    BY <1>1, <1>2 DEF FlagsOf
  <1>5. ASSUME NEW w \in Users \ names PROVE Blocks(o, w)' <=> Blocks(o, w)
    BY <1>3, <1>4, SameBlocks
  <1> QED BY <1>1, <1>2, <1>3, <1>4, <1>5

LEMMA FlagCleared ==
  ASSUME Tables, NEW o \in Users, NEW names, NEW flag, clearFlag(o, names, flag), UNCHANGED <<modeRow, feedbag>>
  PROVE  /\ clientSide' = [u \in Users |-> clientSide'[u]]
         /\ \A w : "buddy" \in FlagsOf(o, w) /\ (flag # "buddy" \/ w \notin names)
                               => "buddy" \in FlagsOf(o, w)'
         /\ \A w \in Users \ names : Blocks(o, w)' <=> Blocks(o, w)
         /\ \A u \in Users \ {o} : clientSide'[u] = clientSide[u]
         /\ \A u \in Users : UsesFeedbag(u)' <=> UsesFeedbag(u)
  <1>1. /\ clientSide' = [u \in Users |-> clientSide'[u]]
        /\ \A u \in Users \ {o} : clientSide'[u] = clientSide[u]
        /\ clientSide'[o] = [w \in DOMAIN clientSide[o] |-> clientSide[o][w] \ {f \in {flag} : w \in names}]
    BY DEF Tables, clearFlag
  <1>2. \A u \in Users : UsesFeedbag(u)' <=> UsesFeedbag(u)
    BY DEF UsesFeedbag
  <1>3. pdMode(o)' = pdMode(o)
    BY <1>2, SameMode
  <1>4. ASSUME NEW w \in Users \ names PROVE FlagsOf(o, w)' = FlagsOf(o, w)
    BY <1>1, <1>2 DEF FlagsOf
  <1>5. ASSUME NEW w, "buddy" \in FlagsOf(o, w), flag # "buddy" \/ w \notin names
        PROVE  "buddy" \in FlagsOf(o, w)'
    BY <1>1, <1>2, <1>5 DEF FlagsOf
  <1>6. ASSUME NEW w \in Users \ names PROVE Blocks(o, w)' <=> Blocks(o, w)
    BY <1>3, <1>4, SameBlocks
  <1> QED BY <1>1, <1>2, <1>5, <1>6

LEMMA SameList ==
  ASSUME SerialInv, UNCHANGED <<conn, load, contactsInit>>,
         \A u \in Users : UsesFeedbag(u)' <=> UsesFeedbag(u)
  PROVE  ListInv'
  BY DEF SerialInv, ListInv

LEMMA SerialAddBuddies ==
  ASSUME RegistryInv, SerialInv, Orderly, load.inFlight = 1, NEW o \in Users, AddBuddies(o)
  PROVE  SerialInv'
  <1> DEFINE p == <<o, "conn">>
  <1>1. /\ handling(o, "AddBuddies") /\ setFlag(o, arg(o), "buddy")
        /\ contactsInit' = [contactsInit EXCEPT ![o] = TRUE]
        /\ IF arg(o) # {} THEN maybeBroadcastVisibility(o, arg(o)) ELSE done(o)
        /\ UNCHANGED <<modeRow, feedbag, conn, invisible, txn, view, load>>
    BY DEF AddBuddies, bounds
  <1>2. PICK k : k = job[p]
    OBVIOUS
  <1>3. /\ k.pc = "handle" /\ k.req.kind = "AddBuddies" /\ k.req \in RequestsOf(o)
        /\ signedOn(o) <=> live(o)
        /\ \A v : ~Notice(k, v)
    BY <1>1, <1>2, AtWork
  <1>4. PICK names : names = arg(o)
    OBVIOUS
  <1>5. /\ "Use" \notin load.kinds[o] /\ load \in Loads
    BY <1>3, RequestIs DEF Orderly, SerialInv, MoreTables
  <1>6. /\ \A w : FlagsOf(o, w) \subseteq FlagsOf(o, w)'
        /\ \A w \in Users \ names : Blocks(o, w)' <=> Blocks(o, w)
        /\ \A u \in Users \ {o} : clientSide'[u] = clientSide[u]
        /\ \A u \in Users : UsesFeedbag(u)' <=> UsesFeedbag(u)
    BY <1>1, <1>4, FlagSet DEF RegistryInv
  <1>7. \E j : /\ goto(p, j) /\ (j = Idle \/ (j.pc = "read" /\ live(o)))
               /\ live(o) => \A v \in names : Notice(j, v)
    <2>1. CASE names # {}
      <3>1. PICK j : /\ goto(p, j)
                     /\ signedOn(o) => j.pc = "read" /\ j.departures = TRUE /\ j.filter = names
                     /\ ~signedOn(o) => j = Idle
        BY <1>1, <1>4, <2>1, MaybeSends
      <3>2. live(o) => \A v \in names : Notice(j, v)
        BY <1>3, <3>1 DEF Notice
      <3> QED BY <1>3, <3>1, <3>2
    <2>2. CASE names = {}
      <3>1. goto(p, Idle)
        BY <1>1, <1>4, <2>2 DEF done
      <3> QED BY <2>2, <3>1
    <2> QED BY <2>1, <2>2
  <1>8. PICK j : /\ goto(p, j) /\ (j = Idle \/ (j.pc = "read" /\ live(o)))
                 /\ live(o) => \A v \in names : Notice(j, v)
    BY <1>7
  <1>9. ConnInv(o, j)'
    BY <1>1, <1>8, EndKnows DEF live
  <1>10. MoreTables' /\ StoreInv'
    BY <1>1 DEF SerialInv, MoreTables, StoreInv
  <1>11. ListInv'
    <2>1. contactsInit'[o] = TRUE /\ \A u \in Users \ {o} : contactsInit'[u] = contactsInit[u]
      BY <1>1 DEF SerialInv, MoreTables
    <2> QED BY <1>1, <1>5, <1>6, <2>1 DEF SerialInv, ListInv
  <1>12. \A w \in view'[o] : w \in view[o] /\ "buddy" \in FlagsOf(o, w)'
    BY <1>1, <1>6 DEF SerialInv, ViewInv
  <1>13. live(o) => \A v \in Users \ {o} :
           Notice(j, v) \/ ((Blocks(o, v)' => Blocks(o, v)) /\ ~Notice(job[p], v))
    BY <1>2, <1>3, <1>6, <1>8
  <1>14. \A v \in Users \ {o} : /\ modeRow'[v] = modeRow[v] /\ clientSide'[v] = clientSide[v]
                                /\ feedbag'[v] = feedbag[v] /\ view'[v] = view[v]
    BY <1>1, <1>6
  <1>15. p \in Procs /\ job[p].pc = "handle"
    BY <1>2, <1>3 DEF Procs
  <1> QED BY <1>1, <1>8, <1>9, <1>10, <1>11, <1>12, <1>13, <1>14, <1>15, AfterRequest

LEMMA SerialDelBuddies ==
  ASSUME RegistryInv, SerialInv, Orderly, load.inFlight = 1, NEW o \in Users, DelBuddies(o)
  PROVE  SerialInv'
  <1> DEFINE p == <<o, "conn">>
  <1>1. /\ handling(o, "DelBuddies") /\ clearFlag(o, arg(o), "buddy")
        /\ view' = [view EXCEPT ![o] = @ \ arg(o)]
        /\ broadcast(o, arg(o), TRUE)
        /\ UNCHANGED <<modeRow, feedbag, conn, contactsInit, invisible, txn, load>>
    BY DEF DelBuddies, forget, bounds
  <1>2. PICK k : k = job[p]
    OBVIOUS
  <1>3. /\ k.pc = "handle" /\ k.req.kind = "DelBuddies" /\ k.req \in RequestsOf(o)
        /\ "DelBuddies" \notin EarlyKinds => live(o)
        /\ \A v : ~Notice(k, v)
    BY <1>1, <1>2, AtWork
  <1>4. live(o)
    BY <1>3 DEF Orderly, Unannounced
  <1>5. PICK names : names = arg(o)
    OBVIOUS
  <1>6. /\ \A w : "buddy" \in FlagsOf(o, w) /\ w \notin names => "buddy" \in FlagsOf(o, w)'
        /\ \A w \in Users \ names : Blocks(o, w)' <=> Blocks(o, w)
        /\ \A u \in Users \ {o} : clientSide'[u] = clientSide[u]
        /\ \A u \in Users : UsesFeedbag(u)' <=> UsesFeedbag(u)
    BY <1>1, <1>5, FlagCleared DEF RegistryInv
  <1>7. PICK j : goto(p, j) /\ j.pc = "read" /\ j.departures = TRUE /\ j.filter = names
    <2>1. broadcast(o, names, TRUE)
      BY <1>1, <1>5
    <2> QED BY <2>1, Sends
  <1>8. \A v \in names : Notice(j, v)
    BY <1>7 DEF Notice
  <1>9. ConnInv(o, j)'
    BY <1>1, <1>4, <1>7, EndKnows DEF live
  <1>10. MoreTables' /\ StoreInv' /\ ListInv'
    BY <1>1, <1>6, SameList DEF SerialInv, MoreTables, StoreInv
  <1>11. view'[o] = view[o] \ names /\ \A u \in Users \ {o} : view'[u] = view[u]
    BY <1>1, <1>5 DEF SerialInv, MoreTables
  <1>12. \A w \in view'[o] : w \in view[o] /\ "buddy" \in FlagsOf(o, w)'
    BY <1>6, <1>11 DEF SerialInv, ViewInv
  <1>13. live(o) => \A v \in Users \ {o} :
           Notice(j, v) \/ ((Blocks(o, v)' => Blocks(o, v)) /\ ~Notice(job[p], v))
    BY <1>2, <1>3, <1>6, <1>8
  <1>14. \A v \in Users \ {o} : /\ modeRow'[v] = modeRow[v] /\ clientSide'[v] = clientSide[v]
                                /\ feedbag'[v] = feedbag[v] /\ view'[v] = view[v]
    BY <1>1, <1>6, <1>11
  <1>15. p \in Procs /\ job[p].pc = "handle"
    BY <1>2, <1>3 DEF Procs
  <1> QED BY <1>1, <1>7, <1>9, <1>10, <1>12, <1>13, <1>14, <1>15, AfterRequest

LEMMA SerialDelEntries ==
  ASSUME RegistryInv, SerialInv, load.inFlight = 1, NEW o \in Users,
         NEW kind \in {"DelDenyListEntries", "DelPermListEntries"},
         NEW flag \in {"deny", "permit"}, delEntries(o, kind, flag)
  PROVE  SerialInv'
  <1> DEFINE p == <<o, "conn">>
  <1>1. /\ handling(o, kind) /\ clearFlag(o, arg(o), flag)
        /\ maybeBroadcastVisibility(o, arg(o))
        /\ UNCHANGED <<modeRow, feedbag, conn, contactsInit, invisible, txn, view, load>>
    BY DEF delEntries, bounds
  <1>2. PICK k : k = job[p]
    OBVIOUS
  <1>3. /\ k.pc = "handle" /\ k.req.kind = kind /\ k.req \in RequestsOf(o)
        /\ signedOn(o) <=> live(o)
        /\ \A v : ~Notice(k, v)
    <2>1. /\ k.pc = "handle" /\ k.req.kind = kind /\ k.req \in RequestsOf(o)
          /\ signedOn(o) <=> live(o)
          /\ "left" \notin DOMAIN k => \A v : ~Notice(k, v)
          /\ "left" \in DOMAIN k => kind = "UpsertItems"
      BY <1>1, <1>2, AtWork
    <2> QED BY <2>1
  <1>4. PICK names : names = arg(o)
    OBVIOUS
  <1>5. /\ \A w : "buddy" \in FlagsOf(o, w) => "buddy" \in FlagsOf(o, w)'
        /\ \A w \in Users \ names : Blocks(o, w)' <=> Blocks(o, w)
        /\ \A u \in Users \ {o} : clientSide'[u] = clientSide[u]
        /\ \A u \in Users : UsesFeedbag(u)' <=> UsesFeedbag(u)
    BY <1>1, <1>4, FlagCleared DEF RegistryInv
  <1>6. PICK j : /\ goto(p, j)
                 /\ signedOn(o) => j.pc = "read" /\ j.departures = TRUE /\ j.filter = names
                 /\ ~signedOn(o) => j = Idle
    BY <1>1, <1>4, MaybeSends
  <1>7. live(o) => \A v \in names : Notice(j, v)
    BY <1>3, <1>6 DEF Notice
  <1>8. ConnInv(o, j)'
    BY <1>1, <1>3, <1>6, EndKnows DEF live
  <1>9. MoreTables' /\ StoreInv' /\ ListInv'
    BY <1>1, <1>5, SameList DEF SerialInv, MoreTables, StoreInv
  <1>10. \A w \in view'[o] : w \in view[o] /\ "buddy" \in FlagsOf(o, w)'
    BY <1>1, <1>5 DEF SerialInv, ViewInv
  <1>11. live(o) => \A v \in Users \ {o} :
           Notice(j, v) \/ ((Blocks(o, v)' => Blocks(o, v)) /\ ~Notice(job[p], v))
    BY <1>2, <1>3, <1>5, <1>7
  <1>12. \A v \in Users \ {o} : /\ modeRow'[v] = modeRow[v] /\ clientSide'[v] = clientSide[v]
                                /\ feedbag'[v] = feedbag[v] /\ view'[v] = view[v]
    BY <1>1, <1>5
  <1>13. p \in Procs /\ job[p].pc = "handle"
    BY <1>2, <1>3 DEF Procs
  <1> QED BY <1>1, <1>6, <1>8, <1>9, <1>10, <1>11, <1>12, <1>13, AfterRequest

\* The mode that is set, and what stays of the list.
LEMMA ModeSet ==
  ASSUME Tables, NEW o \in Users, NEW mode \in 1..5, SetPDMode(o, mode), modeRow[o] \in Rows,
         UNCHANGED feedbag
  PROVE  /\ modeRow' = [u \in Users |-> modeRow'[u]] /\ clientSide' = [u \in Users |-> clientSide'[u]]
         /\ modeRow'[o] \in Rows
         /\ \A u \in Users \ {o} : modeRow'[u] = modeRow[u] /\ clientSide'[u] = clientSide[u]
         /\ \A u \in Users : UsesFeedbag(u)' <=> UsesFeedbag(u)
         /\ \A w : "buddy" \in FlagsOf(o, w) => "buddy" \in FlagsOf(o, w)'
  <1>1. CASE UNCHANGED <<modeRow, clientSide>>
    BY <1>1 DEF Tables, UsesFeedbag, FlagsOf
  <1>2. ASSUME modeRow' = [modeRow EXCEPT ![o] = [useFeedbag |-> UsesFeedbag(o), pd |-> mode]],
               clientSide' = [clientSide EXCEPT ![o] =
                               [w \in {v \in DOMAIN clientSide[o] : "buddy" \in clientSide[o][v]} |-> {"buddy"}]]
        PROVE  /\ modeRow' = [u \in Users |-> modeRow'[u]] /\ clientSide' = [u \in Users |-> clientSide'[u]]
               /\ modeRow'[o] \in Rows
               /\ \A u \in Users \ {o} : modeRow'[u] = modeRow[u] /\ clientSide'[u] = clientSide[u]
               /\ \A u \in Users : UsesFeedbag(u)' <=> UsesFeedbag(u)
               /\ \A w : "buddy" \in FlagsOf(o, w) => "buddy" \in FlagsOf(o, w)'
    <2>1. /\ modeRow'[o] = [useFeedbag |-> UsesFeedbag(o), pd |-> mode]
          /\ clientSide'[o] = [w \in {v \in DOMAIN clientSide[o] : "buddy" \in clientSide[o][v]} |-> {"buddy"}]
          /\ \A u \in Users \ {o} : modeRow'[u] = modeRow[u] /\ clientSide'[u] = clientSide[u]
      BY <1>2 DEF Tables
    <2>2. UsesFeedbag(o) \in BOOLEAN
      BY DEF Rows, UsesFeedbag
    <2>3. modeRow'[o] \in Rows
      BY <2>1, <2>2 DEF Rows
    <2>4. modeRow'[o] # NoRow /\ modeRow[o] # NoRow
      BY <2>3, PresenceAssumption DEF Rows
    <2>5. modeRow'[o].useFeedbag <=> UsesFeedbag(o)
      BY <2>1, <2>2
    <2>6. \A u \in Users : UsesFeedbag(u)' <=> UsesFeedbag(u)
      BY <2>1, <2>4, <2>5 DEF UsesFeedbag
    <2>7. ASSUME NEW w, "buddy" \in FlagsOf(o, w) PROVE "buddy" \in FlagsOf(o, w)'
      BY <1>2, <2>1, <2>6, <2>7 DEF FlagsOf
    <2>8. modeRow' = [u \in Users |-> modeRow'[u]] /\ clientSide' = [u \in Users |-> clientSide'[u]]
      BY <1>2 DEF Tables
    <2> QED BY <2>1, <2>3, <2>6, <2>7, <2>8
  <1> QED BY <1>1, <1>2 DEF SetPDMode

LEMMA SerialAddEntries ==
  ASSUME RegistryInv, SerialInv, load.inFlight = 1, NEW o \in Users,
         NEW kind \in {"AddDenyListEntries", "AddPermListEntries"}, NEW all \in 1..5, NEW mode \in 1..5,
         NEW flag, addEntries(o, kind, all, mode, flag)
  PROVE  SerialInv'
  <1> DEFINE p == <<o, "conn">>
  <1>1. /\ handling(o, kind)
        /\ \/ SetPDMode(o, all) /\ maybeBroadcastVisibility(o, {})
           \/ SetPDMode(o, mode) /\ goto(p, [pc |-> "entries", flag |-> flag, names |-> arg(o),
                                             signedOn |-> signedOn(o)])
        /\ UNCHANGED <<feedbag, conn, contactsInit, invisible, txn, view, load>>
    BY DEF addEntries, bounds
  <1>2. PICK k : k = job[p]
    OBVIOUS
  <1>3. /\ k.pc = "handle" /\ k.req.kind = kind /\ modeRow[o] \in Rows
        /\ signedOn(o) <=> live(o)
    BY <1>1, <1>2, AtWork
  <1>4. /\ modeRow' = [u \in Users |-> modeRow'[u]] /\ clientSide' = [u \in Users |-> clientSide'[u]]
        /\ modeRow'[o] \in Rows
        /\ \A u \in Users \ {o} : modeRow'[u] = modeRow[u] /\ clientSide'[u] = clientSide[u]
        /\ \A u \in Users : UsesFeedbag(u)' <=> UsesFeedbag(u)
        /\ \A w : "buddy" \in FlagsOf(o, w) => "buddy" \in FlagsOf(o, w)'
    BY <1>1, <1>3, ModeSet DEF RegistryInv
  <1>5. \E j : goto(p, j) /\ ConnInv(o, j)' /\ (live(o) => \A v \in Users : Notice(j, v))
    <2>1. CASE maybeBroadcastVisibility(o, {})
      <3>1. PICK j : /\ goto(p, j)
                     /\ signedOn(o) => j.pc = "read" /\ j.departures = TRUE /\ j.filter = {}
                     /\ ~signedOn(o) => j = Idle
        BY <2>1, MaybeSends
      <3>2. ConnInv(o, j)'
        BY <1>1, <1>3, <3>1, EndKnows DEF live
      <3>3. live(o) => \A v \in Users : Notice(j, v)
        BY <1>3, <3>1 DEF Notice
      <3> QED BY <3>1, <3>2, <3>3
    <2>2. CASE goto(p, [pc |-> "entries", flag |-> flag, names |-> arg(o), signedOn |-> signedOn(o)])
      <3>1. PICK j : j = [pc |-> "entries", flag |-> flag, names |-> arg(o), signedOn |-> signedOn(o)]
        OBVIOUS
      <3>2. goto(p, j) /\ j.pc = "entries" /\ j.signedOn = signedOn(o)
        BY <2>2, <3>1
      <3>3. ConnInv(o, j)'
        BY <1>1, <1>3, <3>2, IdleIsIdle DEF ConnInv, live
      <3> QED BY <3>2, <3>3 DEF Notice
    <2> QED BY <1>1, <2>1, <2>2
  <1>6. PICK j : goto(p, j) /\ ConnInv(o, j)' /\ (live(o) => \A v \in Users : Notice(j, v))
    BY <1>5
  <1>7. MoreTables' /\ ListInv'
    BY <1>1, <1>4, SameList DEF SerialInv, MoreTables
  <1>8. StoreInv'
    <2>1. modeRow'[o] # NoRow
      BY <1>4, PresenceAssumption DEF Rows
    <2> QED BY <1>1, <1>4, <2>1 DEF SerialInv, StoreInv
  <1>9. \A w \in view'[o] : w \in view[o] /\ "buddy" \in FlagsOf(o, w)'
    BY <1>1, <1>4 DEF SerialInv, ViewInv
  <1>10. live(o) => \A v \in Users \ {o} :
           Notice(j, v) \/ ((Blocks(o, v)' => Blocks(o, v)) /\ ~Notice(job[p], v))
    BY <1>6
  <1>11. \A v \in Users \ {o} : /\ modeRow'[v] = modeRow[v] /\ clientSide'[v] = clientSide[v]
                                /\ feedbag'[v] = feedbag[v] /\ view'[v] = view[v]
    BY <1>1, <1>4
  <1>12. p \in Procs /\ job[p].pc = "handle"
    BY <1>2, <1>3 DEF Procs
  <1> QED BY <1>1, <1>6, <1>7, <1>8, <1>9, <1>10, <1>11, <1>12, AfterRequest

LEMMA SerialStoreEntries ==
  ASSUME RegistryInv, SerialInv, NEW o \in Users, storeEntries(o)
  PROVE  SerialInv'
  <1> DEFINE p == <<o, "conn">>
  <1>1. PICK k : k = job[p]
    OBVIOUS
  <1>2. /\ k.pc = "entries" /\ setFlag(o, k.names, k.flag)
        /\ IF k.signedOn THEN broadcast(o, {}, TRUE) ELSE done(o)
        /\ UNCHANGED <<modeRow, feedbag, conn, contactsInit, invisible, txn, view, load>>
    BY <1>1 DEF storeEntries, bounds
  <1>3. k.signedOn <=> live(o)
    BY <1>1, <1>2 DEF SerialInv, KnowsInv, ConnInv
  <1>4. PICK names : names = k.names
    OBVIOUS
  <1>5. /\ \A w : FlagsOf(o, w) \subseteq FlagsOf(o, w)'
        /\ clientSide' = [u \in Users |-> clientSide'[u]]
        /\ \A u \in Users \ {o} : clientSide'[u] = clientSide[u]
        /\ \A u \in Users : UsesFeedbag(u)' <=> UsesFeedbag(u)
    BY <1>2, FlagSet DEF RegistryInv
  <1>6. \E j : /\ goto(p, j) /\ (j = Idle \/ (j.pc = "read" /\ live(o)))
               /\ live(o) => \A v \in Users : Notice(j, v)
    <2>1. CASE k.signedOn
      <3>1. PICK j : goto(p, j) /\ j.pc = "read" /\ j.departures = TRUE /\ j.filter = {}
        BY <1>2, <2>1, Sends
      <3> QED BY <1>3, <2>1, <3>1 DEF Notice
    <2>2. CASE ~k.signedOn
      <3>1. goto(p, Idle)
        BY <1>2, <2>2 DEF done
      <3> QED BY <1>3, <2>2, <3>1
    <2> QED BY <2>1, <2>2
  <1>7. PICK j : /\ goto(p, j) /\ (j = Idle \/ (j.pc = "read" /\ live(o)))
                 /\ live(o) => \A v \in Users : Notice(j, v)
    BY <1>6
  <1>8. ConnInv(o, j)'
    BY <1>2, <1>7, EndKnows DEF live
  <1>9. MoreTables' /\ StoreInv' /\ ListInv'
    BY <1>2, <1>5, SameList DEF SerialInv, MoreTables, StoreInv
  <1>10. \A w \in view'[o] : w \in view[o] /\ "buddy" \in FlagsOf(o, w)'
    BY <1>2, <1>5 DEF SerialInv, ViewInv
  <1>11. live(o) => \A v \in Users \ {o} :
           Notice(j, v) \/ ((Blocks(o, v)' => Blocks(o, v)) /\ ~Notice(job[p], v))
    BY <1>7
  <1>12. \A v \in Users \ {o} : /\ modeRow'[v] = modeRow[v] /\ clientSide'[v] = clientSide[v]
                                /\ feedbag'[v] = feedbag[v] /\ view'[v] = view[v]
    BY <1>2, <1>5
  <1>13. p \in Procs /\ job[p].pc = "entries"
    BY <1>1, <1>2 DEF Procs
  <1> QED BY <1>2, <1>7, <1>8, <1>9, <1>10, <1>11, <1>12, <1>13, AfterRequest

\* Becoming invisible is announced to everybody who shows the user.
LEMMA SerialSetUserInfoFields ==
  ASSUME RegistryInv, SerialInv, Orderly, load.inFlight = 1, NEW o \in Users, SetUserInfoFields(o)
  PROVE  SerialInv'
  <1> DEFINE p == <<o, "conn">>
  <1>1. /\ handling(o, "SetUserInfoFields") /\ invisible' = [invisible EXCEPT ![o] = arg(o)]
        /\ goto(p, Broadcast(~arg(o)))
        /\ UNCHANGED <<modeRow, clientSide, feedbag, conn, contactsInit, txn, view, load>>
    BY DEF SetUserInfoFields, stored, bounds
  <1>2. PICK k : k = job[p]
    OBVIOUS
  <1>3. /\ k.pc = "handle" /\ k.req.kind = "SetUserInfoFields" /\ k.req \in RequestsOf(o)
        /\ "SetUserInfoFields" \notin EarlyKinds => live(o)
        /\ \A v : ~Notice(k, v)
    BY <1>1, <1>2, AtWork
  <1>4. live(o)
    BY <1>3 DEF Orderly, Unannounced
  <1>5. arg(o) \in BOOLEAN
    BY <1>2, <1>3, RequestIs DEF arg
  <1>6. PICK j : j = Broadcast(~arg(o))
    OBVIOUS
  <1>7. goto(p, j) /\ j.pc = "readAll" /\ j.arrived \in BOOLEAN /\ (j.arrived <=> ~arg(o))
    BY <1>1, <1>5, <1>6 DEF Broadcast
  <1>8. (invisible'[o] <=> arg(o)) /\ \A u \in Users \ {o} : invisible'[u] = invisible[u]
    BY <1>1 DEF SerialInv, MoreTables
  <1>9. ConnInv(o, j)'
    BY <1>1, <1>4, <1>7, <1>8 DEF ConnInv, live
  <1>10. p \in Procs /\ job[p] # Idle
    BY <1>2, <1>3, IdleIsIdle DEF Procs
  <1>11. Alone' /\ job'[p] = j /\ \A q \in Procs : q # p => job'[q] = Idle
    BY <1>7, <1>10, StaysAlone DEF RegistryInv, SerialInv, goto
  <1>12. KnowsInv'
    BY <1>9, <1>10, <1>11, KnowsAlone
  <1>13. \A v, w \in Users : /\ Blocks(v, w)' <=> Blocks(v, w)
                             /\ UsesFeedbag(v)' <=> UsesFeedbag(v)
    BY <1>1, SameRows
  <1>14. MoreTables' /\ StoreInv' /\ ListInv'
    BY <1>1, <1>13, SameList DEF SerialInv, MoreTables, StoreInv
  <1>15. ViewInv'
    <2> SUFFICES ASSUME NEW v \in Users, NEW w \in view[v] PROVE live(v)' /\ "buddy" \in FlagsOf(v, w)'
      BY <1>1 DEF ViewInv
    <2>1. live(v) /\ "buddy" \in FlagsOf(v, w)
      BY DEF SerialInv, ViewInv
    <2>2. FlagsOf(v, w)' = FlagsOf(v, w)
      <3>1. UsesFeedbag(v)' <=> UsesFeedbag(v)
        BY <1>13
      <3> QED BY <1>1, <3>1 DEF FlagsOf
    <2> QED BY <1>1, <2>1, <2>2 DEF live
  <1>16. ShownInv'
    <2> SUFFICES ASSUME NEW v \in Users, NEW w \in Users, v # w, w \in view[v]
                 PROVE  Good(v, w)' \/ Due(v, w)'
      BY <1>1 DEF ShownInv
    <2>1. Good(v, w)
      <3>1. ~Dues(p, job[p], v, w)
        BY <1>2, <1>3 DEF Dues, BlockDue, LeaveDue
      <3> QED BY <1>10, <3>1, DueIs DEF SerialInv, ShownInv
    <2>2. CASE w # o
      BY <1>1, <1>8, <1>13, <2>1, <2>2 DEF Good, Visible
    <2>3. CASE w = o /\ ~arg(o)
      BY <1>1, <1>8, <1>13, <2>1, <2>3 DEF Good, Visible
    <2>4. CASE w = o /\ arg(o)
      <3>1. LeaveDue(v, w, j)'
        BY <1>7, <1>13, <2>1, <2>4 DEF LeaveDue, Good, Visible
      <3>2. Dues(p, j, v, w)'
        BY <2>4, <3>1 DEF Dues
      <3> QED BY <1>11, <3>2, IsDue
    <2> QED BY <2>2, <2>3, <2>4
  <1> QED BY <1>11, <1>12, <1>14, <1>15, <1>16 DEF SerialInv

\* Nothing is sent that a client does not know already, unless it missed it.
LEMMA SerialIdle ==
  ASSUME RegistryInv, SerialInv, Orderly, load.inFlight = 1, NEW o \in Users, IdleNotification(o)
  PROVE  SerialInv'
  <1> DEFINE p == <<o, "conn">>
             next == IF invisible[o] THEN Idle ELSE Broadcast(TRUE)
  <1>1. /\ handling(o, "IdleNotification")
        /\ IF invisible[o] THEN goto(p, Idle) ELSE goto(p, Broadcast(TRUE))
        /\ UNCHANGED <<stored, conn, contactsInit, invisible, txn, load>> /\ view' = view
    BY DEF IdleNotification, bounds, done
  <1>2. PICK k : k = job[p]
    OBVIOUS
  <1>3. /\ k.pc = "handle" /\ k.req.kind = "IdleNotification"
        /\ "IdleNotification" \notin EarlyKinds => live(o)
        /\ \A v : ~Notice(k, v)
    BY <1>1, <1>2, AtWork
  <1>4. live(o)
    BY <1>3 DEF Orderly, Unannounced
  <1>5. PICK j : j = next
    OBVIOUS
  <1>6. goto(p, j) /\ (j = Idle \/ (j.pc = "readAll" /\ j.arrived = TRUE /\ ~invisible[o]))
    BY <1>1, <1>5 DEF Broadcast
  <1>7. ConnInv(o, j)'
    BY <1>1, <1>4, <1>6, IdleIsIdle DEF ConnInv, live
  <1>8. p \in Procs /\ job[p] # Idle
    BY <1>2, <1>3, IdleIsIdle DEF Procs
  <1>9. ASSUME NEW u \in Users, NEW w \in Users, u # w, w \in view[u] PROVE Good(u, w)
    <2>1. ~Dues(p, job[p], u, w)
      BY <1>2, <1>3 DEF Dues, BlockDue, LeaveDue
    <2> QED BY <1>8, <1>9, <2>1, DueIs DEF SerialInv, ShownInv
  <1>10. \A u, w \in Users : u # w /\ w \in view[u] => Good(u, w) \/ Dues(p, j, u, w)'
    BY <1>9
  <1> QED BY <1>1, <1>6, <1>7, <1>8, <1>10, QuietStep

\* A client that is online has activated its feedbag before: it blocks whom it blocked.
LEMMA SerialUse ==
  ASSUME RegistryInv, SerialInv, load.inFlight = 1, NEW o \in Users, Use(o)
  PROVE  SerialInv'
  <1> DEFINE p == <<o, "conn">>
  <1>1. /\ handling(o, "Use") /\ modeRow' = [modeRow EXCEPT ![o] = [useFeedbag |-> TRUE, pd |-> 0]]
        /\ contactsInit' = [contactsInit EXCEPT ![o] = TRUE]
        /\ IF signedOn(o) THEN goto(p, BroadcastVisibility({}, FALSE)) ELSE goto(p, Idle)
        /\ UNCHANGED <<clientSide, feedbag, conn, invisible, txn, view, load>>
    BY DEF Use, UseFeedbag, bounds, broadcast, done
  <1>2. PICK k : k = job[p]
    OBVIOUS
  <1>3. /\ k.pc = "handle" /\ k.req.kind = "Use" /\ k.req \in RequestsOf(o)
        /\ signedOn(o) <=> live(o)
        /\ conn[o] \in {"registered", "online"} /\ modeRow[o] \in Rows
        /\ ~live(o) => view[o] = {}
        /\ \A v : ~Notice(k, v)
    BY <1>1, <1>2, AtWork
  <1>4. live(o) => UsesFeedbag(o)
    <2>1. "Use" \in load.kinds[o]
      BY <1>3, RequestIs
    <2> QED BY <2>1 DEF SerialInv, ListInv, live
  <1>5. /\ modeRow'[o] = [useFeedbag |-> TRUE, pd |-> 0] /\ contactsInit'[o] = TRUE
        /\ \A u \in Users \ {o} : modeRow'[u] = modeRow[u] /\ contactsInit'[u] = contactsInit[u]
    BY <1>1 DEF RegistryInv, Tables, SerialInv, MoreTables
  <1>6. modeRow'[o] \in Rows /\ modeRow'[o] # NoRow
    <2>1. TRUE \in BOOLEAN /\ 0 \in 0..5
      OBVIOUS
    <2>2. [useFeedbag |-> TRUE, pd |-> 0] \in Rows
      BY <2>1, Zenon DEF Rows
    <2> QED BY <1>5, <2>2, PresenceAssumption DEF Rows
  <1>7. /\ UsesFeedbag(o)'
        /\ \A u \in Users \ {o} : UsesFeedbag(u)' <=> UsesFeedbag(u)
    BY <1>5, <1>6 DEF UsesFeedbag
  <1>8. live(o) => \A v : (Blocks(o, v)' <=> Blocks(o, v)) /\ FlagsOf(o, v)' = FlagsOf(o, v)
    <2>1. ASSUME live(o) PROVE pdMode(o)' = pdMode(o)
      BY <1>1, <1>4, <1>7, <2>1, SameMode
    <2>2. ASSUME live(o), NEW v PROVE FlagsOf(o, v)' = FlagsOf(o, v)
      BY <1>1, <1>4, <1>7, <2>2 DEF FlagsOf
    <2> QED BY <2>1, <2>2, SameBlocks
  <1>9. PICK j : goto(p, j) /\ (j = Idle \/ (j.pc = "read" /\ live(o)))
    <2> DEFINE next == IF signedOn(o) THEN BroadcastVisibility({}, FALSE) ELSE Idle
    <2>1. PICK j : j = next
      OBVIOUS
    <2>2. goto(p, j) /\ (j = Idle \/ (j.pc = "read" /\ live(o)))
      BY <1>1, <1>3, <2>1 DEF BroadcastVisibility
    <2> QED BY <2>2
  <1>10. ConnInv(o, j)'
    BY <1>1, <1>9, EndKnows DEF live
  <1>11. MoreTables' /\ StoreInv'
    BY <1>1, <1>5, <1>6 DEF SerialInv, MoreTables, StoreInv
  <1>12. ListInv'
    BY <1>1, <1>5, <1>7 DEF SerialInv, ListInv
  <1>13. \A w \in view'[o] : w \in view[o] /\ "buddy" \in FlagsOf(o, w)'
    BY <1>1, <1>3, <1>8 DEF SerialInv, ViewInv
  <1>14. live(o) => \A v \in Users \ {o} :
           Notice(j, v) \/ ((Blocks(o, v)' => Blocks(o, v)) /\ ~Notice(job[p], v))
    BY <1>2, <1>3, <1>8
  <1>15. \A v \in Users \ {o} : /\ modeRow'[v] = modeRow[v] /\ clientSide'[v] = clientSide[v]
                                /\ feedbag'[v] = feedbag[v] /\ view'[v] = view[v]
    BY <1>1, <1>5
  <1>16. p \in Procs /\ job[p].pc = "handle"
    BY <1>2, <1>3 DEF Procs
  <1> QED BY <1>1, <1>9, <1>10, <1>11, <1>12, <1>13, <1>14, <1>15, <1>16, AfterRequest

LEMMA SerialEndCluster ==
  ASSUME RegistryInv, SerialInv, load.inFlight = 1, NEW o \in Users, EndCluster(o)
  PROVE  SerialInv'
  <1> DEFINE p == <<o, "conn">>
  <1>1. ~txn[o].active
    BY DEF SerialInv, StoreInv
  <1>2. /\ handling(o, "EndCluster") /\ txn' = [txn EXCEPT ![o] = NoTxn] /\ goto(p, Idle)
        /\ UNCHANGED <<modeRow, clientSide, feedbag, conn, contactsInit, invisible, view, load>>
    BY <1>1 DEF EndCluster, bounds, stored, done
  <1>3. PICK k : k = job[p]
    OBVIOUS
  <1>4. k.pc = "handle" /\ \A v : ~Notice(k, v)
    BY <1>2, <1>3, AtWork
  <1>5. ConnInv(o, Idle)'
    BY EndKnows
  <1>6. /\ \A u, w \in Users : Blocks(u, w)' <=> Blocks(u, w)
        /\ \A u \in Users : UsesFeedbag(u)' <=> UsesFeedbag(u)
    BY <1>2, SameRows
  <1>7. MoreTables' /\ StoreInv' /\ ListInv'
    <2>1. txn'[o] = NoTxn /\ \A u \in Users \ {o} : txn'[u] = txn[u]
      BY <1>2 DEF SerialInv, MoreTables
    <2>2. txn' = [u \in Users |-> txn'[u]]
      BY <1>2 DEF SerialInv, MoreTables
    <2> QED BY <1>2, <1>6, <2>1, <2>2, SameList DEF SerialInv, MoreTables, StoreInv, NoTxn
  <1>8. \A w \in view'[o] : w \in view[o] /\ "buddy" \in FlagsOf(o, w)'
    <2>1. UsesFeedbag(o)' <=> UsesFeedbag(o)
      BY <1>6
    <2>2. ASSUME NEW w PROVE FlagsOf(o, w)' = FlagsOf(o, w)
      BY <1>2, <2>1 DEF FlagsOf
    <2> QED BY <1>2, <2>2 DEF SerialInv, ViewInv
  <1>9. live(o) => \A v \in Users \ {o} :
          Notice(Idle, v) \/ ((Blocks(o, v)' => Blocks(o, v)) /\ ~Notice(job[p], v))
    BY <1>3, <1>4, <1>6
  <1>10. p \in Procs /\ job[p].pc = "handle"
    BY <1>3, <1>4 DEF Procs
  <1> QED BY <1>2, <1>5, <1>7, <1>8, <1>9, <1>10, AfterRequest

\* A change of an item concerns the entry's name, or with the mode everybody.
LEMMA ItemConcerns ==
  ASSUME NEW o \in Users, NEW i \in Entries \cup PdInfos,
         clientSide'[o] = clientSide[o], modeRow'[o] = modeRow[o],
         \A e \in Entries \cup PdInfos : e # i /\ (e \in PdInfos => i \notin PdInfos)
                                           => (e \in feedbag'[o] <=> e \in feedbag[o])
  PROVE  /\ UsesFeedbag(o)' <=> UsesFeedbag(o)
         /\ i \notin PdInfos => \A v \in Users : v # i.name => (Blocks(o, v)' <=> Blocks(o, v))
         /\ \A v \in Users, f \in Flags : i # [class |-> f, name |-> v] =>
              (f \in FlagsOf(o, v)' <=> f \in FlagsOf(o, v))
  <1>1. UsesFeedbag(o)' <=> UsesFeedbag(o)
    BY DEF UsesFeedbag
  <1>2. \A v \in Users, f \in Flags :
          [class |-> f, name |-> v] \in Entries /\ [class |-> f, name |-> v] \notin PdInfos
    BY IsFlag DEF Entries, PdInfos
  <1>3. ASSUME NEW v \in Users, NEW f \in Flags, i # [class |-> f, name |-> v]
        PROVE  f \in FlagsOf(o, v)' <=> f \in FlagsOf(o, v)
    <2>1. [class |-> f, name |-> v] \in feedbag'[o] <=> [class |-> f, name |-> v] \in feedbag[o]
      BY <1>2, <1>3
    <2> QED BY <1>1, <2>1 DEF FlagsOf
  <1>4. ASSUME i \notin PdInfos, NEW v \in Users, v # i.name
        PROVE  Blocks(o, v)' <=> Blocks(o, v)
    <2>1. pdMode(o)' = pdMode(o)
      <3>1. \A e \in PdInfos : e \in feedbag'[o] <=> e \in feedbag[o]
        BY <1>4
      <3> QED BY <1>1, <3>1, SameMode
    <2>2. \A f \in Flags : f \in FlagsOf(o, v)' <=> f \in FlagsOf(o, v)
      BY <1>3, <1>4
    <2> QED BY <2>1, <2>2, IsFlag DEF Blocks
  <1> QED BY <1>1, <1>3, <1>4

LEMMA NamesIn ==
  ASSUME NEW i
  PROVE  namesIn({i}) = IF i \in PdInfos THEN {} ELSE {i.name}
  BY DEF namesIn

\* The feedbag's requests: without a cluster the broadcast follows at once.
LEMMA NotifySends ==
  ASSUME NEW o \in Users, NEW filter, notify(o, filter), ~txn[o].active
  PROVE  /\ txn' = txn
         /\ \E j : goto(<<o, "conn">>, j) /\ j.pc = "read" /\ j.departures = TRUE /\ j.filter = filter
  <1>1. broadcast(o, filter, TRUE) /\ txn' = txn
    BY DEF notify
  <1> QED BY <1>1, Sends

LEMMA SerialDelete ==
  ASSUME RegistryInv, SerialInv, Orderly, load.inFlight = 1, NEW o \in Users, DeleteItem(o)
  PROVE  SerialInv'
  <1> DEFINE p == <<o, "conn">>
             forgotten == {e.name : e \in {x \in arg(o) : x.class = "buddy"}}
  <1>1. /\ handling(o, "DeleteItem")
        /\ \E e \in arg(o) : feedbag' = [feedbag EXCEPT ![o] = @ \ {e}]
        /\ view' = [view EXCEPT ![o] = @ \ forgotten]
        /\ notify(o, namesIn(arg(o)))
        /\ UNCHANGED <<modeRow, clientSide, conn, contactsInit, invisible, load>>
    BY DEF DeleteItem, FeedbagDelete, forget, bounds
  <1>2. PICK k : k = job[p]
    OBVIOUS
  <1>3. /\ k.pc = "handle" /\ k.req.kind = "DeleteItem" /\ k.req \in RequestsOf(o)
        /\ "DeleteItem" \notin EarlyKinds => live(o)
        /\ \A v : ~Notice(k, v)
    BY <1>1, <1>2, AtWork
  <1>4. live(o)
    BY <1>3 DEF Orderly, Unannounced
  <1>5. PICK i \in Entries \cup PdInfos : arg(o) = {i}
    BY <1>2, <1>3, RequestIs DEF arg
  <1>6. /\ feedbag'[o] = feedbag[o] \ {i} /\ \A u \in Users \ {o} : feedbag'[u] = feedbag[u]
        /\ feedbag' = [u \in Users |-> feedbag'[u]]
        /\ view'[o] = view[o] \ forgotten /\ \A u \in Users \ {o} : view'[u] = view[u]
        /\ view' = [u \in Users |-> view'[u]]
    BY <1>1, <1>5 DEF SerialInv, MoreTables
  <1>7. PICK names : names = namesIn(arg(o))
    OBVIOUS
  <1>8. names = IF i \in PdInfos THEN {} ELSE {i.name}
    BY <1>5, <1>7, NamesIn
  <1>9. ~txn[o].active
    BY DEF SerialInv, StoreInv
  <1>10. /\ txn' = txn
         /\ \E j : goto(p, j) /\ j.pc = "read" /\ j.departures = TRUE /\ j.filter = names
    <2>1. notify(o, names)
      BY <1>1, <1>7
    <2> QED BY <1>9, <2>1, NotifySends
  <1>11. PICK j : goto(p, j) /\ j.pc = "read" /\ j.departures = TRUE /\ j.filter = names
    BY <1>10
  <1>12. ConnInv(o, j)'
    BY <1>1, <1>4, <1>11, EndKnows DEF live
  <1>13. /\ UsesFeedbag(o)' <=> UsesFeedbag(o)
         /\ i \notin PdInfos => \A v \in Users : v # i.name => (Blocks(o, v)' <=> Blocks(o, v))
         /\ \A v \in Users, f \in Flags : i # [class |-> f, name |-> v] =>
              (f \in FlagsOf(o, v)' <=> f \in FlagsOf(o, v))
    BY <1>1, <1>6, ItemConcerns
  <1>14. \A u \in Users : UsesFeedbag(u)' <=> UsesFeedbag(u)
    BY <1>1 DEF UsesFeedbag
  <1>15. MoreTables' /\ StoreInv' /\ ListInv'
    BY <1>1, <1>6, <1>10, <1>14, SameList DEF SerialInv, MoreTables, StoreInv
  <1>16. \A w \in view'[o] : w \in view[o] /\ "buddy" \in FlagsOf(o, w)'
    <2> SUFFICES ASSUME NEW w \in view[o], w \notin forgotten PROVE "buddy" \in FlagsOf(o, w)'
      BY <1>6
    <2>1. "buddy" \in FlagsOf(o, w)
      BY DEF SerialInv, ViewInv
    <2>2. i # [class |-> "buddy", name |-> w]
      BY <1>5
    <2> QED BY <1>1, <1>6, <1>14, <2>1, <2>2 DEF FlagsOf
  <1>17. live(o) => \A v \in Users \ {o} :
           Notice(j, v) \/ ((Blocks(o, v)' => Blocks(o, v)) /\ ~Notice(job[p], v))
    BY <1>2, <1>3, <1>8, <1>11, <1>13 DEF Notice
  <1>18. \A v \in Users \ {o} : /\ modeRow'[v] = modeRow[v] /\ clientSide'[v] = clientSide[v]
                                /\ feedbag'[v] = feedbag[v] /\ view'[v] = view[v]
    BY <1>1, <1>6
  <1>19. p \in Procs /\ job[p].pc = "handle"
    BY <1>2, <1>3 DEF Procs
  <1> QED BY <1>1, <1>11, <1>12, <1>15, <1>16, <1>17, <1>18, <1>19, AfterRequest

\* A mode and a buddy in one request are stored one after the other, and announced once, to
\* the buddy: the only other user there is.
LEMMA SerialUpsert ==
  ASSUME RegistryInv, SerialInv, Orderly, load.inFlight = 1, NEW o \in Users, UpsertItem(o)
  PROVE  SerialInv'
  <1> DEFINE p == <<o, "conn">>
  <1>1. PICK k : k = job[p]
    OBVIOUS
  <1>2. PICK left : left = IF "left" \in DOMAIN k THEN k.left ELSE k.req.arg
    OBVIOUS
  <1>3. PICK kind \in {"UpsertItem", "UpsertItems"} : handling(o, kind)
    BY DEF UpsertItem
  <1>4. PICK i \in left :
          /\ feedbag' = [feedbag EXCEPT ![o] = (IF i.class = "pdinfo" THEN @ \ PdInfos ELSE @) \cup {i}]
          /\ IF left = {i} THEN notify(o, namesIn(k.req.arg))
             ELSE /\ goto(p, [pc |-> "handle", req |-> k.req, signedOn |-> k.signedOn, left |-> left \ {i}])
                  /\ UNCHANGED txn
    BY <1>1, <1>2 DEF UpsertItem, FeedbagUpsert, arg
  <1>5. UNCHANGED <<modeRow, clientSide, conn, contactsInit, invisible, view, load>>
    BY DEF UpsertItem, bounds
  <1>6. /\ k.pc = "handle" /\ k.req.kind = kind /\ k.req \in RequestsOf(o)
        /\ kind \notin EarlyKinds => live(o)
        /\ k.signedOn <=> live(o)
        /\ "left" \notin DOMAIN k => \A v : ~Notice(k, v)
        /\ "left" \in DOMAIN k => kind = "UpsertItems" /\ k.left \subseteq k.req.arg
    BY <1>1, <1>3, AtWork DEF signedOn
  <1>7. live(o)
    BY <1>6 DEF Orderly, Unannounced
  <1>8. left \subseteq k.req.arg
    BY <1>2, <1>6
  <1>9. kind = "UpsertItem" => "left" \notin DOMAIN k /\ k.req.arg = {i} /\ left = {i}
    BY <1>2, <1>6, RequestIs
  <1>10. i \in Entries \cup PdInfos
    BY <1>6, <1>8, RequestIs
  <1>11. /\ feedbag'[o] = (IF i.class = "pdinfo" THEN feedbag[o] \ PdInfos ELSE feedbag[o]) \cup {i}
         /\ \A u \in Users \ {o} : feedbag'[u] = feedbag[u]
         /\ feedbag' = [u \in Users |-> feedbag'[u]]
    BY <1>4 DEF SerialInv, MoreTables
  <1>12. i.class = "pdinfo" <=> i \in PdInfos
    BY <1>10, IsFlag DEF Entries, PdInfos
  <1>13. /\ i \notin PdInfos => \A v \in Users : v # i.name => (Blocks(o, v)' <=> Blocks(o, v))
         /\ \A v \in Users, f \in Flags : i # [class |-> f, name |-> v] =>
              (f \in FlagsOf(o, v)' <=> f \in FlagsOf(o, v))
    <2>1. ASSUME NEW e \in Entries \cup PdInfos, e # i, e \in PdInfos => i \notin PdInfos
          PROVE  e \in feedbag'[o] <=> e \in feedbag[o]
      BY <1>11, <1>12, <2>1
    <2>2. clientSide'[o] = clientSide[o] /\ modeRow'[o] = modeRow[o]
      BY <1>5
    <2> QED BY <1>10, <2>1, <2>2, ItemConcerns
  <1>14. \E j : /\ goto(p, j) /\ ConnInv(o, j)' /\ txn' = txn
                /\ \A v \in Users \ {o} : Notice(j, v) \/ ((Blocks(o, v)' => Blocks(o, v)) /\ ~Notice(k, v))
    <2>1. CASE left = {i}
      <3>1. PICK names : names = namesIn(k.req.arg)
        OBVIOUS
      <3>2. ~txn[o].active
        BY DEF SerialInv, StoreInv
      <3>3. txn' = txn /\ \E j : goto(p, j) /\ j.pc = "read" /\ j.departures = TRUE /\ j.filter = names
        <4>1. notify(o, names)
          BY <1>4, <2>1, <3>1
        <4> QED BY <3>2, <4>1, NotifySends
      <3>4. PICK j : goto(p, j) /\ j.pc = "read" /\ j.departures = TRUE /\ j.filter = names
        BY <3>3
      <3>5. ConnInv(o, j)'
        BY <1>5, <1>7, <3>4, EndKnows DEF live
      <3>6. CASE kind = "UpsertItem"
        <4>1. names = IF i \in PdInfos THEN {} ELSE {i.name}
          BY <1>9, <3>1, <3>6, NamesIn
        <4>2. \A v \in Users \ {o} : Notice(j, v) \/ ((Blocks(o, v)' => Blocks(o, v)) /\ ~Notice(k, v))
          BY <1>6, <1>9, <1>13, <3>4, <3>6, <4>1 DEF Notice
        <4> QED BY <3>3, <3>4, <3>5, <4>2
      <3>7. CASE kind = "UpsertItems"
        <4>1. PICK e \in k.req.arg \ PdInfos : e.name \in Users \ {o}
          BY <1>6, <3>7, RequestIs
        <4>2. e.name \in names
          BY <3>1 DEF namesIn
        <4>3. \A v \in Users \ {o} : v = e.name
          <5>1. "UpsertItems" \in load.kinds[o] /\ load \in Loads
            BY <1>6, <3>7, RequestIs DEF SerialInv, MoreTables
          <5> QED BY <4>1, <5>1 DEF Orderly
        <4>4. \A v \in Users \ {o} : Notice(j, v)
          BY <3>4, <4>2, <4>3 DEF Notice
        <4> QED BY <3>3, <3>4, <3>5, <4>4
      <3> QED BY <3>6, <3>7
    <2>2. CASE left # {i}
      <3>1. PICK j : j = [pc |-> "handle", req |-> k.req, signedOn |-> k.signedOn, left |-> left \ {i}]
        OBVIOUS
      <3>2. /\ goto(p, j) /\ txn' = txn
            /\ j.pc = "handle" /\ j.req = k.req /\ j.signedOn = k.signedOn
            /\ "left" \in DOMAIN j /\ j.left = left \ {i}
        BY <1>4, <2>2, <3>1
      <3>3. kind = "UpsertItems"
        BY <1>9, <2>2
      <3>4. k.req \in RequestsOf(o)'
        BY <1>5, <1>6 DEF RequestsOf
      <3>5. ConnInv(o, j)'
        BY <1>5, <1>6, <1>7, <1>8, <3>2, <3>3, <3>4, IdleIsIdle DEF ConnInv, live
      <3>6. \A v : Notice(j, v)
        BY <3>2 DEF Notice
      <3> QED BY <3>2, <3>5, <3>6
    <2> QED BY <2>1, <2>2
  <1>15. PICK j : /\ goto(p, j) /\ ConnInv(o, j)' /\ txn' = txn
                  /\ \A v \in Users \ {o} : Notice(j, v) \/ ((Blocks(o, v)' => Blocks(o, v)) /\ ~Notice(k, v))
    BY <1>14
  <1>16. \A u \in Users : UsesFeedbag(u)' <=> UsesFeedbag(u)
    BY <1>5 DEF UsesFeedbag
  <1>17. StoreInv'
    BY <1>5, <1>10, <1>11, <1>15 DEF SerialInv, StoreInv
  <1>18. MoreTables' /\ ListInv'
    BY <1>5, <1>11, <1>15, <1>16, SameList DEF SerialInv, MoreTables
  <1>19. \A w \in view'[o] : w \in view[o] /\ "buddy" \in FlagsOf(o, w)'
    <2> SUFFICES ASSUME NEW w \in view[o] PROVE "buddy" \in FlagsOf(o, w)'
      BY <1>5
    <2>1. "buddy" \in FlagsOf(o, w)
      BY DEF SerialInv, ViewInv
    <2>2. [class |-> "buddy", name |-> w] \notin PdInfos
      BY DEF PdInfos
    <2>3. [class |-> "buddy", name |-> w] \in feedbag[o] => [class |-> "buddy", name |-> w] \in feedbag'[o]
      BY <1>11, <2>2
    <2> QED BY <1>5, <1>16, <2>1, <2>3 DEF FlagsOf
  <1>20. live(o) => \A v \in Users \ {o} :
           Notice(j, v) \/ ((Blocks(o, v)' => Blocks(o, v)) /\ ~Notice(job[p], v))
    BY <1>1, <1>15
  <1>21. \A v \in Users \ {o} : /\ modeRow'[v] = modeRow[v] /\ clientSide'[v] = clientSide[v]
                                /\ feedbag'[v] = feedbag[v] /\ view'[v] = view[v]
    BY <1>5, <1>11
  <1>22. p \in Procs /\ job[p].pc = "handle"
    BY <1>1, <1>6 DEF Procs
  <1> QED BY <1>5, <1>15, <1>17, <1>18, <1>19, <1>20, <1>21, <1>22, AfterRequest

LEMMA SerialHandles ==
  ASSUME RegistryInv, SerialInv, Orderly, load.inFlight = 1, NEW o \in Users, Handles(o)
  PROVE  SerialInv'
  <1>1. CASE AddDenyListEntries(o) \/ AddPermListEntries(o)
    BY <1>1, SerialAddEntries
       DEF AddDenyListEntries, AddPermListEntries, PermitAll, DenyAll, PermitSome, DenySome
  <1>2. CASE DelDenyListEntries(o) \/ DelPermListEntries(o)
    BY <1>2, SerialDelEntries DEF DelDenyListEntries, DelPermListEntries
  <1>3. ~StartCluster(o)
    <2> SUFFICES ASSUME StartCluster(o) PROVE FALSE
      OBVIOUS
    <2>1. handling(o, "StartCluster")
      BY DEF StartCluster
    <2>2. PICK k : k = job[<<o, "conn">>]
      OBVIOUS
    <2>3. k.req.kind = "StartCluster" /\ k.req \in RequestsOf(o)
      BY <2>1, <2>2, AtWork
    <2>4. "StartCluster" \in load.kinds[o]
      BY <2>3, RequestIs
    <2> QED BY <2>4, OrderlyLoad
  <1> QED BY <1>1, <1>2, <1>3, SerialAddBuddies, SerialDelBuddies, SerialStoreEntries,
             SerialSetUserInfoFields, SerialIdle, SerialUse, SerialUpsert, SerialDelete,
             SerialEndCluster DEF Handles

LEMMA LoadStays == [Next]_vars => load' = load
  <1>1. ASSUME NEW p \in Procs, step(p) PROVE load' = load
    BY <1>1 DEF step, readVisibility, lookup, tell, readRecipients, relay, bounds
  <1>2. ASSUME NEW u \in Users,
               SignOn(u) \/ ClientOnline(u) \/ Receive(u) \/ Close(u) \/ Signout(u)
        PROVE  load' = load
    BY <1>2 DEF SignOn, ClientOnline, Receive, Close, Signout, bounds
  <1>3. ASSUME NEW u \in Users, Handles(u) PROVE load' = load
    <2>1. CASE AddDenyListEntries(u) \/ AddPermListEntries(u) \/ DelDenyListEntries(u) \/ DelPermListEntries(u)
      BY <2>1 DEF AddDenyListEntries, AddPermListEntries, DelDenyListEntries, DelPermListEntries,
                  addEntries, delEntries, bounds
    <2>2. CASE AddBuddies(u) \/ DelBuddies(u) \/ storeEntries(u) \/ SetUserInfoFields(u)
               \/ IdleNotification(u) \/ Use(u)
      BY <2>2 DEF AddBuddies, DelBuddies, storeEntries, SetUserInfoFields, IdleNotification, Use, bounds
    <2>3. CASE UpsertItem(u) \/ DeleteItem(u) \/ StartCluster(u) \/ EndCluster(u)
      BY <2>3 DEF UpsertItem, DeleteItem, StartCluster, EndCluster, bounds
    <2> QED BY <1>3, <2>1, <2>2, <2>3 DEF Handles
  <1>4. Restart => load' = load
    BY DEF Restart, bounds
  <1>5. UNCHANGED vars => load' = load
    BY DEF vars
  <1> QED BY <1>1, <1>2, <1>3, <1>4, <1>5 DEF Next, Handles

LEMMA SerialStays ==
  ASSUME SerialInv, UNCHANGED vars
  PROVE  SerialInv'
  <1>1. UNCHANGED <<stored, conn, contactsInit, invisible, txn, load>> /\ view' = view /\ job' = job
    BY DEF vars, stored
  <1>2. MoreTables' /\ StoreInv' /\ ListInv'
    BY <1>1, SameState DEF SerialInv, MoreTables, StoreInv, ListInv, stored
  <1>3. Alone'
    BY <1>1 DEF SerialInv, Alone
  <1>4. KnowsInv'
    <2>1. ASSUME NEW u \in Users, NEW j, ConnInv(u, j) PROVE ConnInv(u, j)'
      <3>1. \A r : RowInv(r, u)' <=> RowInv(r, u)
        BY <1>1, RowSame
      <3>2. RequestsOf(u)' = RequestsOf(u)
        BY <1>1 DEF RequestsOf
      <3>3. ASSUME NEW v \in Users
            PROVE  /\ Blocks(u, v)' <=> Blocks(u, v)
                   /\ Blocks(v, u)' <=> Blocks(v, u)
                   /\ live(v)' <=> live(v)
        BY <1>1, SameState
      <3> QED BY <1>1, <2>1, <3>1, <3>2, <3>3 DEF ConnInv, RowInv
    <2> QED BY <1>1, <2>1 DEF SerialInv, KnowsInv, HookInv
  <1>5. ViewInv'
    <2> SUFFICES ASSUME NEW v \in Users, NEW w \in view[v] PROVE live(v)' /\ "buddy" \in FlagsOf(v, w)'
      BY <1>1 DEF ViewInv
    <2>1. live(v) /\ "buddy" \in FlagsOf(v, w)
      BY DEF SerialInv, ViewInv
    <2>2. FlagsOf(v, w)' = FlagsOf(v, w)
      <3>1. UsesFeedbag(v)' <=> UsesFeedbag(v)
        BY <1>1, SameState
      <3> QED BY <1>1, <3>1 DEF FlagsOf, stored
    <2> QED BY <1>1, <2>1, <2>2 DEF live
  <1>6. ShownInv'
    <2> SUFFICES ASSUME NEW v \in Users, NEW w \in Users, v # w, w \in view[v]
                 PROVE  Good(v, w)' \/ Due(v, w)'
      BY <1>1 DEF ShownInv
    <2>1. Good(v, w) \/ Due(v, w)
      BY DEF SerialInv, ShownInv
    <2>2. /\ Good(v, w)' <=> Good(v, w)
          /\ Unseen(v, w)' <=> Unseen(v, w)
          /\ Blocks(v, w)' <=> Blocks(v, w)
          /\ Blocks(w, v)' <=> Blocks(w, v)
      BY <1>1, SameState
    <2> QED BY <1>1, <2>1, <2>2 DEF Due, BlockDue, LeaveDue
  <1> QED BY <1>2, <1>3, <1>4, <1>5, <1>6 DEF SerialInv

OrderlyInv == load.inFlight = 1 => SerialInv

LEMMA OrderlyStep == Orderly /\ RegistryInv /\ OrderlyInv /\ [Next]_vars => OrderlyInv'
  <1> SUFFICES ASSUME Orderly, RegistryInv, SerialInv, load.inFlight = 1, [Next]_vars PROVE SerialInv'
    <2>1. [Next]_vars => load' = load
      BY LoadStays
    <2> QED BY <2>1 DEF OrderlyInv
  <1>1. CASE \E p \in Procs : step(p)
    BY <1>1, SerialRelays
  <1>2. ASSUME NEW u \in Users,
               SignOn(u) \/ ClientOnline(u) \/ Receive(u) \/ Close(u) \/ Signout(u) \/ Handles(u)
        PROVE  SerialInv'
    BY <1>2, SerialSignOn, SerialClientOnline, SerialReceive, SerialClose, SerialSignout, SerialHandles
  <1>3. CASE Restart
    BY <1>3, SerialRestart
  <1>4. CASE UNCHANGED vars
    BY <1>4, SerialStays
  <1> QED BY <1>1, <1>2, <1>3, <1>4 DEF Next, Handles

\* Where requests and teardowns do not overlap, a client that has been told everything shows
\* no buddy that has signed off, is invisible, or is blocked by either side: for every finite
\* set of users, and clients that are online with their list ready, keep it in one place and
\* edit it without clusters (BroadcastVisibility, BroadcastBuddyDeparted; buddy.go:294).
THEOREM NoGhostsShown == ASSUME Orderly PROVE Spec => []NoGhosts
  <1>1. Init => OrderlyInv
    BY InitSerial DEF OrderlyInv
  <1>2. RegistryInv /\ OrderlyInv => NoGhosts
    <2> SUFFICES ASSUME SerialInv, Quiet, NEW u \in Users, NEW w \in Users, u # w, w \in view[u]
                 PROVE  conn[w] = "online" /\ Visible(u, w)
      BY DEF OrderlyInv, NoGhosts
    <2>1. Good(u, w)
      BY IdleShows DEF Quiet
    <2> QED BY <2>1 DEF Good
  <1>3. RegistryInv /\ OrderlyInv /\ [Next]_vars => (RegistryInv /\ OrderlyInv)'
    BY RegistryStep, OrderlyStep
  <1> QED BY InitRegistry, <1>1, <1>2, <1>3, PTL DEF Spec

-----------------------------------------------------------------------------
(***************************************************************************)
(* Who is to be seen.  Requests, broadcasts and teardowns overlap freely.  *)
(***************************************************************************)
\* A client whose list is ready only after it says it is online activates a feedbag.  A mode is
\* not announced together with other changes, unless there is nobody else to tell.
Announcing ==
  \A l \in Loads :
    /\ \A u \in l.late : "AddBuddies" \notin l.kinds[u]
    /\ \A u \in Users :
         l.modes # {} /\ ("UpsertItems" \in l.kinds[u] \/ "StartCluster" \in l.kinds[u])
           => \A v, w \in Users \ {u} : v = w

\* No client starts a cluster in the middle of one that has something to announce.
NoNesting == \A u \in Users : handling(u, "StartCluster") => ~(txn[u].active /\ txn[u].send)

\* The connection of o will read its relationship with v, or does so when its cluster ends.
WillRead(j, v) ==
  \/ j.pc = "entries"
  \/ j.pc = "handle" /\ "left" \in DOMAIN j
  \/ j.pc = "read" /\ (j.filter = {} \/ v \in j.filter)

Pending(o, v) == txn[o].active /\ txn[o].send /\ (txn[o].names = {} \/ v \in txn[o].names)

\* The connection of o, with j to do, will show v to its client, and o to v's.
WillSee(o, j, v) ==
  \/ WillRead(j, v) \/ Pending(o, v)
  \/ /\ j.pc \in {"next", "tell"}
     /\ \E r \in RowsLeft(j) : r.user = v /\ ~r.youBlock /\ r.onYours /\ (r \in j.rows \/ j.theirs)

WillShow(o, j, v) ==
  \/ WillRead(j, v) \/ Pending(o, v)
  \/ /\ j.pc \in {"next", "tell"} /\ j.visible
     /\ \E r \in RowsLeft(j) : r.user = v /\ ~r.youBlock /\ r.onTheirs
  \/ j.pc = "readAll" /\ j.arrived
  \/ j.pc = "relay" /\ j.arrived /\ v \in j.to

Wants(u, w) ==
  live(u) /\ contactsInit[u] /\ live(w) /\ contactsInit[w] /\ "buddy" \in FlagsOf(u, w) /\ Visible(u, w)

Coming(u, w) == WillSee(u, job[<<u, "conn">>], w) \/ WillShow(w, job[<<w, "conn">>], u)

\* Whom a client is to show it shows, or else an arrival is on its way.
News(u, w) == Wants(u, w) => w \in view[u] \/ Coming(u, w)

NewsInv == \A u, w \in Users : u # w => News(u, w)

\* What the connection of a client that is online knows of its own user is so.
OwnInv(o, j) ==
  /\ j.pc \in {"handle", "entries"} => j.signedOn
  /\ j.pc = "handle" /\ "left" \in DOMAIN j => j.req.kind = "UpsertItems" /\ j.left \subseteq j.req.arg
  /\ j.pc \in {"next", "tell"} =>
       /\ j.visible <=> ~invisible[o]
       /\ \A r \in RowsLeft(j) : /\ r.user \in Users \ {o} /\ r.youBlock \in BOOLEAN
                                 /\ r.youBlock <=> Blocks(o, r.user)
  /\ j.pc \in {"readAll", "relay"} => j.arrived \in BOOLEAN /\ (j.arrived <=> ~invisible[o])

\* A cluster's announcement to everybody is that of a mode.
TxnInv(u) ==
  /\ txn[u] = [f \in {"active", "send", "names"} |-> txn[u][f]]
  /\ txn[u].names \subseteq Users \ {u}
  /\ txn[u].active => "StartCluster" \in load.kinds[u]
  /\ txn[u].send /\ txn[u].names = {} => load.modes # {}

PartOf(u) ==
  /\ modeRow[u] = NoRow \/ modeRow[u] \in Rows
  /\ conn[u] \in {"registered", "online"} => modeRow[u] # NoRow
  /\ TxnInv(u)
  /\ job[<<u, "hook">>] # Idle => conn[u] = "closing"
  /\ job[<<u, "conn">>].pc = "handle" => job[<<u, "conn">>].req \in RequestsOf(u)
  /\ live(u) => contactsInit[u] \/ u \in load.late
  /\ live(u) => OwnInv(u, job[<<u, "conn">>])

PartsInv == \A u \in Users : PartOf(u)

SeenInv == MoreTables /\ NewsInv /\ PartsInv

-----------------------------------------------------------------------------
\* What one user's processes do leaves the others' rows and processes alone, and their views
\* of each other.
OthersKeep(o) ==
  /\ \A v \in Users \ {o} :
       /\ modeRow'[v] = modeRow[v] /\ clientSide'[v] = clientSide[v] /\ feedbag'[v] = feedbag[v]
       /\ conn'[v] = conn[v] /\ contactsInit'[v] = contactsInit[v]
       /\ invisible'[v] = invisible[v] /\ txn'[v] = txn[v]
       /\ job'[<<v, "conn">>] = job[<<v, "conn">>] /\ job'[<<v, "hook">>] = job[<<v, "hook">>]
       /\ \A w \in Users \ {o} : w \in view[v] => w \in view'[v]
  /\ load' = load

LEMMA OwnSame ==
  ASSUME NEW o \in Users, NEW j, OwnInv(o, j), invisible'[o] = invisible[o],
         \A v \in Users : Blocks(o, v)' <=> Blocks(o, v)
  PROVE  OwnInv(o, j)'
  BY DEF OwnInv

\* So only the pairs the user is in are to be looked at.
LEMMA OnesNews ==
  ASSUME NewsInv, PartsInv, NEW o \in Users, OthersKeep(o), PartOf(o)',
         \A v \in Users \ {o} : live(o)' /\ live(v) => News(o, v)' /\ News(v, o)'
  PROVE  NewsInv' /\ PartsInv'
  <1>1. \A v \in Users \ {o} : /\ modeRow'[v] = modeRow[v] /\ clientSide'[v] = clientSide[v]
                               /\ feedbag'[v] = feedbag[v]
                               /\ conn'[v] = conn[v] /\ contactsInit'[v] = contactsInit[v]
                               /\ invisible'[v] = invisible[v] /\ txn'[v] = txn[v]
                               /\ job'[<<v, "conn">>] = job[<<v, "conn">>]
                               /\ job'[<<v, "hook">>] = job[<<v, "hook">>]
                               /\ \A w \in Users \ {o} : w \in view[v] => w \in view'[v]
    BY DEF OthersKeep
  <1>2. load' = load
    BY DEF OthersKeep
  <1>3. \A v \in Users \ {o} : /\ live(v)' <=> live(v)
                               /\ \A w \in Users : /\ FlagsOf(v, w)' = FlagsOf(v, w)
                                                   /\ Blocks(v, w)' <=> Blocks(v, w)
    BY <1>1, SameRows DEF live
  <1>4. ASSUME NEW v \in Users \ {o} PROVE PartOf(v)'
    <2>1. PartOf(v)
      BY DEF PartsInv
    <2>2. RequestsOf(v)' = RequestsOf(v)
      BY <1>2 DEF RequestsOf
    <2>3. PICK k : k = job[<<v, "conn">>]
      OBVIOUS
    <2>4. job'[<<v, "conn">>] = k
      BY <1>1, <2>3
    <2>5. live(v)' => OwnInv(v, k)'
      BY <1>1, <1>3, <2>1, <2>3, OwnSame DEF PartOf
    <2>6. TxnInv(v)'
      BY <1>1, <1>2, <2>1 DEF PartOf, TxnInv
    <2>7. live(v)' => contactsInit'[v] \/ v \in load'.late
      BY <1>1, <1>2, <1>3, <2>1 DEF PartOf
    <2> QED BY <1>1, <2>1, <2>2, <2>3, <2>4, <2>5, <2>6, <2>7 DEF PartOf
  <1>5. ASSUME NEW u \in Users \ {o}, NEW w \in Users \ {o}, u # w PROVE News(u, w)'
    <2>1. News(u, w)
      BY <1>5 DEF NewsInv
    <2>2. Wants(u, w)' => Wants(u, w)
      BY <1>1, <1>3 DEF Wants, Visible
    <2>3. ASSUME NEW a \in Users \ {o}, NEW b, NEW j
          PROVE  /\ WillSee(a, j, b)' <=> WillSee(a, j, b)
                 /\ WillShow(a, j, b)' <=> WillShow(a, j, b)
      <3>1. Pending(a, b)' <=> Pending(a, b)
        BY <1>1 DEF Pending
      <3> QED BY <3>1 DEF WillSee, WillShow
    <2>4. Coming(u, w) => Coming(u, w)'
      BY <1>1, <2>3 DEF Coming
    <2> QED BY <1>1, <2>1, <2>2, <2>4 DEF News
  <1>6. ASSUME NEW v \in Users \ {o} PROVE News(o, v)' /\ News(v, o)'
    <2>1. ~(live(o)' /\ live(v)') => ~Wants(o, v)' /\ ~Wants(v, o)'
      BY DEF Wants
    <2> QED BY <1>3, <2>1 DEF News
  <1>7. NewsInv'
    BY <1>5, <1>6 DEF NewsInv
  <1> QED BY <1>4, <1>7 DEF PartsInv

LEMMA SeenSame ==
  ASSUME UNCHANGED <<stored, conn, contactsInit, invisible, txn>>
  PROVE  /\ \A u, w \in Users : Wants(u, w)' <=> Wants(u, w)
         /\ \A u \in Users : live(u)' <=> live(u)
         /\ \A u \in Users : \A w, j : /\ WillSee(u, j, w)' <=> WillSee(u, j, w)
                                       /\ WillShow(u, j, w)' <=> WillShow(u, j, w)
  <1>1. \A u, w \in Users : /\ Blocks(u, w)' <=> Blocks(u, w)
                            /\ FlagsOf(u, w)' = FlagsOf(u, w)
    BY SameState
  <1>2. \A u \in Users : live(u)' <=> live(u)
    BY SameState
  <1>3. \A u, w \in Users : Wants(u, w)' <=> Wants(u, w)
    BY <1>1, <1>2 DEF Wants, Visible
  <1>4. \A u, w : Pending(u, w)' <=> Pending(u, w)
    BY DEF Pending
  <1>5. \A u, w, j : /\ WillSee(u, j, w)' <=> WillSee(u, j, w)
                     /\ WillShow(u, j, w)' <=> WillShow(u, j, w)
    BY <1>4 DEF WillSee, WillShow
  <1> QED BY <1>2, <1>3, <1>5

\* A process of o writes its own place.
LEMMA OwnPlace ==
  ASSUME Tables, NEW o \in Users, NEW j, NEW t \in {"conn", "hook"}, goto(<<o, t>>, j)
  PROVE  /\ job'[<<o, t>>] = j
         /\ \A v \in Users, s \in {"conn", "hook"} : <<v, s>> # <<o, t>> => job'[<<v, s>>] = job[<<v, s>>]
  BY DEF Tables, goto, Procs

\* A step of a broadcast, or of a relay.
LEMMA BroadcastNews ==
  ASSUME RegistryInv, SeenInv, NEW o \in Users, NEW k, NEW j,
         k = job[<<o, "conn">>], goto(<<o, "conn">>, j), j.pc # "handle",
         UNCHANGED <<stored, conn, contactsInit, invisible, txn, load>>,
         \A v, w \in Users \ {o} : w \in view[v] => w \in view'[v],
         live(o) => OwnInv(o, j),
         live(o) => \A v \in Users \ {o} :
           /\ Wants(o, v) /\ (v \in view[o] \/ WillSee(o, k, v)) => v \in view'[o] \/ WillSee(o, j, v)
           /\ Wants(v, o) /\ (o \in view[v] \/ WillShow(o, k, v)) => o \in view'[v] \/ WillShow(o, j, v)
  PROVE  NewsInv' /\ PartsInv'
  <1>1. /\ job'[<<o, "conn">>] = j /\ job'[<<o, "hook">>] = job[<<o, "hook">>]
        /\ \A v \in Users \ {o} : /\ job'[<<v, "conn">>] = job[<<v, "conn">>]
                                  /\ job'[<<v, "hook">>] = job[<<v, "hook">>]
    BY OwnPlace DEF RegistryInv
  <1>2. OthersKeep(o)
    BY <1>1 DEF OthersKeep, stored
  <1>3. PartOf(o)'
    <2>1. PartOf(o)
      BY DEF SeenInv, PartsInv
    <2>2. live(o)' => OwnInv(o, j)'
      BY SameState, OwnSame
    <2>3. TxnInv(o)'
      BY <2>1 DEF PartOf, TxnInv
    <2>4. live(o)' => contactsInit'[o] \/ o \in load'.late
      BY <2>1 DEF PartOf, live
    <2> QED BY <1>1, <2>1, <2>2, <2>3, <2>4 DEF PartOf, stored
  <1>4. ASSUME NEW v \in Users \ {o}, live(o)', live(v) PROVE News(o, v)' /\ News(v, o)'
    <2>1. News(o, v) /\ News(v, o)
      BY DEF SeenInv, NewsInv
    <2>2. live(o)
      BY <1>4, SameState
    <2>3. /\ Wants(o, v)' <=> Wants(o, v)
          /\ Wants(v, o)' <=> Wants(v, o)
          /\ WillSee(o, j, v)' <=> WillSee(o, j, v)
          /\ WillShow(o, j, v)' <=> WillShow(o, j, v)
      BY SeenSame
    <2>4. PICK m : m = job[<<v, "conn">>]
      OBVIOUS
    <2>5. /\ WillSee(v, m, o)' <=> WillSee(v, m, o)
          /\ WillShow(v, m, o)' <=> WillShow(v, m, o)
      BY SeenSame
    <2>6. job'[<<v, "conn">>] = m
      BY <1>1, <2>4
    <2>7. News(o, v)'
      <3>1. Coming(o, v) <=> WillSee(o, k, v) \/ WillShow(v, m, o)
        BY <2>4 DEF Coming
      <3>2. Coming(o, v)' <=> WillSee(o, j, v) \/ WillShow(v, m, o)
        BY <1>1, <2>3, <2>5, <2>6 DEF Coming
      <3>3. Wants(o, v) => v \in view'[o] \/ WillSee(o, j, v) \/ WillShow(v, m, o)
        BY <2>1, <2>2, <3>1 DEF News
      <3> QED BY <2>3, <3>2, <3>3 DEF News
    <2>8. News(v, o)'
      <3>1. Coming(v, o) <=> WillSee(v, m, o) \/ WillShow(o, k, v)
        BY <2>4 DEF Coming
      <3>2. Coming(v, o)' <=> WillSee(v, m, o) \/ WillShow(o, j, v)
        BY <1>1, <2>3, <2>5, <2>6 DEF Coming
      <3>3. \/ o \in view[v]
            \/ WillSee(v, m, o) \/ WillShow(o, k, v) \/ ~Wants(v, o)
        BY <2>1, <3>1 DEF News
      <3>4. Wants(v, o) => o \in view'[v] \/ WillSee(v, m, o) \/ WillShow(o, j, v)
        BY <2>2, <3>3
      <3> QED BY <2>3, <3>2, <3>4 DEF News
    <2> QED BY <2>7, <2>8
  <1> QED BY <1>2, <1>3, <1>4, OnesNews DEF SeenInv

\* A step of a close hook: its user is not online any more.
LEMMA HookNews ==
  ASSUME RegistryInv, SeenInv, NEW o \in Users, NEW j,
         job[<<o, "hook">>] # Idle, goto(<<o, "hook">>, j),
         UNCHANGED <<stored, conn, contactsInit, invisible, txn, load>>,
         \A v, w \in Users \ {o} : w \in view[v] => w \in view'[v]
  PROVE  NewsInv' /\ PartsInv'
  <1>1. /\ job'[<<o, "conn">>] = job[<<o, "conn">>]
        /\ \A v \in Users \ {o} : /\ job'[<<v, "conn">>] = job[<<v, "conn">>]
                                  /\ job'[<<v, "hook">>] = job[<<v, "hook">>]
    BY OwnPlace DEF RegistryInv
  <1>2. OthersKeep(o)
    BY <1>1 DEF OthersKeep, stored
  <1>3. PartOf(o)
    BY DEF SeenInv, PartsInv
  <1>4. conn[o] = "closing" /\ ~live(o)'
    BY <1>3 DEF PartOf, live
  <1>5. PartOf(o)'
    <2>1. TxnInv(o)'
      BY <1>3 DEF PartOf, TxnInv
    <2>2. RequestsOf(o)' = RequestsOf(o)
      BY DEF RequestsOf
    <2> QED BY <1>1, <1>3, <1>4, <2>1, <2>2 DEF PartOf, stored
  <1> QED BY <1>2, <1>4, <1>5, OnesNews DEF SeenInv

\* The rows that are read are those of everybody who is to be told.
LEMMA ReadNews ==
  ASSUME RegistryInv, SeenInv, NEW o \in Users, readVisibility(<<o, "conn">>)
  PROVE  NewsInv' /\ PartsInv'
  <1> DEFINE p == <<o, "conn">>
  <1>1. PICK k : k = job[p]
    OBVIOUS
  <1>2. PICK rows : rows = {r \in AllRelationships(o, k.filter) : ~r.blocksYou}
    OBVIOUS
  <1>3. PICK j : j = [pc |-> "next", departures |-> k.departures, rows |-> rows, visible |-> ~invisible[o]]
    OBVIOUS
  <1>4. /\ k.pc = "read" /\ goto(p, j)
        /\ UNCHANGED <<stored, conn, contactsInit, invisible, txn, view, load>>
    BY <1>1, <1>2, <1>3 DEF readVisibility, Owner, bounds
  <1>5. j.pc = "next" /\ j.rows = rows /\ (j.visible <=> ~invisible[o]) /\ RowsLeft(j) = rows
    BY <1>3 DEF RowsLeft
  <1>6. OwnInv(o, j)
    <2>1. \A r \in rows : /\ r.user \in Users \ {o} /\ r.youBlock \in BOOLEAN
                          /\ r.youBlock <=> Blocks(o, r.user)
      BY <1>2, RowSays
    <2> QED BY <1>5, <2>1 DEF OwnInv
  <1>7. ASSUME NEW v \in Users \ {o}, WillRead(k, v), live(o), live(v), ~Blocks(o, v), ~Blocks(v, o),
               v \in Listed(o) \/ o \in Listed(v)
        PROVE  \E r \in rows : /\ r.user = v /\ ~r.youBlock
                               /\ r.onTheirs <=> "buddy" \in FlagsOf(v, o)
                               /\ r.onYours <=> "buddy" \in FlagsOf(o, v)
    <2>1. k.filter = {} \/ v \in k.filter
      BY <1>4, <1>7 DEF WillRead
    <2>2. modeRow[o] # NoRow /\ modeRow[v] # NoRow
      BY <1>7 DEF SeenInv, PartsInv, PartOf, live
    <2>3. PICK r \in AllRelationships(o, k.filter) : r.user = v
      BY <1>7, <2>1, <2>2, RowFound
    <2>4. /\ r.youBlock <=> Blocks(o, v)
          /\ r.blocksYou <=> Blocks(v, o)
          /\ r.onTheirs <=> "buddy" \in FlagsOf(v, o)
          /\ r.onYours <=> "buddy" \in FlagsOf(o, v)
      BY <2>3, RowSays
    <2> QED BY <1>2, <1>7, <2>3, <2>4
  <1>8. ASSUME NEW v \in Users \ {o}, live(o)
        PROVE  /\ Wants(o, v) /\ WillSee(o, k, v) => WillSee(o, j, v)
               /\ Wants(v, o) /\ WillShow(o, k, v) => WillShow(o, j, v)
    <2>1. ASSUME Wants(o, v), WillSee(o, k, v) PROVE WillSee(o, j, v)
      <3>1. Pending(o, v) \/ WillRead(k, v)
        BY <1>4, <2>1 DEF WillSee
      <3>2. ASSUME WillRead(k, v) PROVE WillSee(o, j, v)
        <4>1. \E r \in rows : r.user = v /\ ~r.youBlock /\ r.onYours
          BY <1>7, <2>1, <3>2, BuddyIsListed DEF Wants, Visible
        <4> QED BY <1>5, <4>1 DEF WillSee
      <3> QED BY <3>1, <3>2 DEF WillSee
    <2>2. ASSUME Wants(v, o), WillShow(o, k, v) PROVE WillShow(o, j, v)
      <3>1. Pending(o, v) \/ WillRead(k, v)
        BY <1>4, <2>2 DEF WillShow
      <3>2. ASSUME WillRead(k, v) PROVE WillShow(o, j, v)
        <4>1. (\E r \in rows : r.user = v /\ ~r.youBlock /\ r.onTheirs) /\ ~invisible[o]
          BY <1>7, <2>2, <3>2, BuddyIsListed DEF Wants, Visible
        <4> QED BY <1>5, <4>1 DEF WillShow
      <3> QED BY <3>1, <3>2 DEF WillShow
    <2> QED BY <2>1, <2>2
  <1>9. /\ \A v, w \in Users \ {o} : w \in view[v] => w \in view'[v]
        /\ live(o) => \A v \in Users \ {o} :
             /\ Wants(o, v) /\ (v \in view[o] \/ WillSee(o, k, v)) => v \in view'[o] \/ WillSee(o, j, v)
             /\ Wants(v, o) /\ (o \in view[v] \/ WillShow(o, k, v)) => o \in view'[v] \/ WillShow(o, j, v)
    BY <1>4, <1>8
  <1>10. j.pc # "handle"
    BY <1>5
  <1> QED BY <1>1, <1>4, <1>6, <1>9, <1>10, BroadcastNews

\* Who has gone offline in the meantime is passed over, and is told when back.
LEMMA LookupNews ==
  ASSUME RegistryInv, SeenInv, NEW o \in Users, lookup(<<o, "conn">>)
  PROVE  NewsInv' /\ PartsInv'
  <1> DEFINE p == <<o, "conn">>
  <1>1. PICK k : k = job[p]
    OBVIOUS
  <1>2. /\ k.pc = "next" /\ UNCHANGED <<stored, conn, contactsInit, invisible, txn, view, load>>
        /\ \/ k.rows = {} /\ goto(p, Idle)
           \/ \E r \in k.rows :
                \/ /\ ~live(r.user)
                   /\ goto(p, [pc |-> "next", departures |-> k.departures,
                               rows |-> k.rows \ {r}, visible |-> k.visible])
                \/ /\ live(r.user)
                   /\ goto(p, [pc |-> "tell", departures |-> k.departures,
                               rows |-> k.rows \ {r}, visible |-> k.visible,
                               row |-> r, theirs |-> ~invisible[r.user]])
    BY <1>1 DEF lookup, bounds
  <1>3. live(o) => OwnInv(o, k)
    BY <1>1 DEF SeenInv, PartsInv, PartOf
  <1>4. RowsLeft(k) = k.rows /\ \A v : ~WillRead(k, v)
    BY <1>2 DEF RowsLeft, WillRead
  <1>5. CASE k.rows = {} /\ goto(p, Idle)
    <2>1. \A v : (WillSee(o, k, v) => Pending(o, v)) /\ (WillShow(o, k, v) => Pending(o, v))
      BY <1>2, <1>4, <1>5 DEF WillSee, WillShow
    <2>2. \A v : Pending(o, v) => WillSee(o, Idle, v) /\ WillShow(o, Idle, v)
      BY DEF WillSee, WillShow
    <2>3. OwnInv(o, Idle) /\ Idle.pc # "handle"
      BY IdleIsIdle DEF OwnInv
    <2>4. /\ \A v, w \in Users \ {o} : w \in view[v] => w \in view'[v]
          /\ live(o) => \A v \in Users \ {o} :
               /\ Wants(o, v) /\ (v \in view[o] \/ WillSee(o, k, v)) => v \in view'[o] \/ WillSee(o, Idle, v)
               /\ Wants(v, o) /\ (o \in view[v] \/ WillShow(o, k, v)) => o \in view'[v] \/ WillShow(o, Idle, v)
      BY <1>2, <2>1, <2>2
    <2> QED BY <1>1, <1>2, <1>5, <2>3, <2>4, BroadcastNews
  <1>6. ASSUME NEW r \in k.rows, NEW j, goto(p, j), j.pc \in {"next", "tell"}, j.rows = k.rows \ {r},
               j.visible = k.visible,
               \/ ~live(r.user) /\ j.pc = "next"
               \/ live(r.user) /\ j.pc = "tell" /\ j.row = r /\ (j.theirs <=> ~invisible[r.user])
        PROVE  NewsInv' /\ PartsInv'
    <2>1. RowsLeft(j) \subseteq k.rows
      BY <1>6 DEF RowsLeft
    <2>2. live(o) => OwnInv(o, j)
      BY <1>2, <1>3, <1>4, <1>6, <2>1 DEF OwnInv
    <2>3. ASSUME NEW q \in k.rows, live(q.user)
          PROVE  q \in RowsLeft(j) /\ (q \in j.rows \/ q = r)
      BY <1>6, <2>3 DEF RowsLeft
    <2>4. ASSUME NEW v \in Users \ {o}, Wants(o, v), WillSee(o, k, v) PROVE WillSee(o, j, v)
      <3>1. CASE Pending(o, v)
        BY <3>1 DEF WillSee
      <3>2. CASE \E q \in k.rows : q.user = v /\ ~q.youBlock /\ q.onYours
        <4>1. PICK q \in k.rows : q.user = v /\ ~q.youBlock /\ q.onYours
          BY <3>2
        <4>2. live(v) /\ ~invisible[v]
          BY <2>4 DEF Wants, Visible
        <4>3. q \in RowsLeft(j) /\ (q \in j.rows \/ q = r)
          BY <2>3, <4>1, <4>2
        <4>4. q \in j.rows \/ j.theirs
          BY <1>6, <4>1, <4>2, <4>3
        <4> QED BY <1>6, <4>1, <4>3, <4>4 DEF WillSee
      <3> QED BY <1>2, <1>4, <2>4, <3>1, <3>2 DEF WillSee
    <2>5. ASSUME NEW v \in Users \ {o}, Wants(v, o), WillShow(o, k, v) PROVE WillShow(o, j, v)
      <3>1. CASE Pending(o, v)
        BY <3>1 DEF WillShow
      <3>2. CASE k.visible /\ \E q \in k.rows : q.user = v /\ ~q.youBlock /\ q.onTheirs
        <4>1. PICK q \in k.rows : q.user = v /\ ~q.youBlock /\ q.onTheirs
          BY <3>2
        <4>2. q \in RowsLeft(j)
          BY <2>3, <2>5, <4>1 DEF Wants
        <4> QED BY <1>6, <3>2, <4>1, <4>2 DEF WillShow
      <3> QED BY <1>2, <1>4, <2>5, <3>1, <3>2 DEF WillShow
    <2>6. /\ \A v, w \in Users \ {o} : w \in view[v] => w \in view'[v]
          /\ live(o) => \A v \in Users \ {o} :
               /\ Wants(o, v) /\ (v \in view[o] \/ WillSee(o, k, v)) => v \in view'[o] \/ WillSee(o, j, v)
               /\ Wants(v, o) /\ (o \in view[v] \/ WillShow(o, k, v)) => o \in view'[v] \/ WillShow(o, j, v)
      BY <1>2, <2>4, <2>5
    <2>7. j.pc # "handle"
      BY <1>6
    <2> QED BY <1>1, <1>2, <1>6, <2>2, <2>6, <2>7, BroadcastNews
  <1>7. ASSUME NEW r \in k.rows, ~live(r.user),
               goto(p, [pc |-> "next", departures |-> k.departures, rows |-> k.rows \ {r}, visible |-> k.visible])
        PROVE  NewsInv' /\ PartsInv'
    <2>1. PICK j : j = [pc |-> "next", departures |-> k.departures, rows |-> k.rows \ {r}, visible |-> k.visible]
      OBVIOUS
    <2>2. goto(p, j) /\ j.pc = "next" /\ j.rows = k.rows \ {r} /\ j.visible = k.visible
      BY <1>7, <2>1
    <2> QED BY <1>6, <1>7, <2>2
  <1>8. ASSUME NEW r \in k.rows, live(r.user),
               goto(p, [pc |-> "tell", departures |-> k.departures, rows |-> k.rows \ {r}, visible |-> k.visible,
                        row |-> r, theirs |-> ~invisible[r.user]])
        PROVE  NewsInv' /\ PartsInv'
    <2>1. PICK j : j = [pc |-> "tell", departures |-> k.departures, rows |-> k.rows \ {r},
                        visible |-> k.visible, row |-> r, theirs |-> ~invisible[r.user]]
      OBVIOUS
    <2>2. /\ goto(p, j) /\ j.pc = "tell" /\ j.rows = k.rows \ {r} /\ j.visible = k.visible
          /\ j.row = r /\ (j.theirs <=> ~invisible[r.user])
      BY <1>8, <2>1
    <2> QED BY <1>6, <1>8, <2>2
  <1> QED BY <1>2, <1>5, <1>7, <1>8

\* A relay shows whom it is about, and takes off only whom it says has left.
LEMMA ViewAfter ==
  ASSUME NEW msgs, view' = relayed(msgs), NEW u \in Users, NEW w \in Users
  PROVE  /\ w \in view[u] /\ <<u, w, FALSE>> \notin msgs => w \in view'[u]
         /\ live(u) /\ <<u, w, TRUE>> \in msgs /\ <<u, w, FALSE>> \notin msgs /\ "buddy" \in FlagsOf(u, w)
              => w \in view'[u]
  <1>1. view'[u] = IF ~live(u) THEN view[u]
                   ELSE (view[u] \cup {x \in Users : <<u, x, TRUE>> \in msgs /\ "buddy" \in FlagsOf(u, x)})
                          \ {x \in Users : <<u, x, FALSE>> \in msgs}
    BY DEF relayed
  <1> QED BY <1>1

\* Departures are sent where the user still blocks the other.
LEMMA TellNews ==
  ASSUME RegistryInv, SeenInv, NEW o \in Users, tell(<<o, "conn">>)
  PROVE  NewsInv' /\ PartsInv'
  <1> DEFINE p == <<o, "conn">>
  <1>1. PICK k : k = job[p]
    OBVIOUS
  <1> DEFINE arrived == ~k.row.youBlock
             toTheirs == k.row.onTheirs /\ (IF arrived THEN k.visible ELSE k.departures)
             toYours == k.row.onYours /\ (IF arrived THEN k.theirs ELSE k.departures)
             sent == {m \in {<<k.row.user, o, arrived>>} : toTheirs} \cup
                     {m \in {<<o, k.row.user, arrived>>} : toYours}
  <1>2. PICK j : j = [pc |-> "next", departures |-> k.departures, rows |-> k.rows, visible |-> k.visible]
    OBVIOUS
  <1>3. /\ k.pc = "tell" /\ goto(p, j) /\ view' = relayed(sent)
        /\ UNCHANGED <<stored, conn, contactsInit, invisible, txn, load>>
    BY <1>1, <1>2 DEF tell, Owner, bounds
  <1>4. j.pc = "next" /\ j.rows = k.rows /\ j.visible = k.visible
    BY <1>2
  <1>5. /\ RowsLeft(k) = k.rows \cup {k.row} /\ RowsLeft(j) = k.rows
        /\ \A v : ~WillRead(k, v)
    BY <1>3, <1>4 DEF RowsLeft, WillRead
  <1>6. live(o) => OwnInv(o, k)
    BY <1>1 DEF SeenInv, PartsInv, PartOf
  <1>7. live(o) => OwnInv(o, j)
    BY <1>3, <1>4, <1>5, <1>6 DEF OwnInv
  <1>8. PICK msgs : msgs = sent
    OBVIOUS
  <1>9. /\ view' = relayed(msgs)
        /\ \A u, w, a : <<u, w, a>> \in msgs =>
             /\ a = arrived
             /\ (u = k.row.user /\ w = o) \/ (u = o /\ w = k.row.user)
        /\ toTheirs => <<k.row.user, o, arrived>> \in msgs
        /\ toYours => <<o, k.row.user, arrived>> \in msgs
    BY <1>3, <1>8
  <1>10. \A v, w \in Users \ {o} : w \in view[v] => w \in view'[v]
    BY <1>9, ViewAfter
  <1>11. ASSUME live(o), NEW v \in Users \ {o}, ~Blocks(o, v)
         PROVE  /\ <<o, v, FALSE>> \notin msgs /\ <<v, o, FALSE>> \notin msgs
                /\ k.row.user = v => k.row.youBlock = FALSE /\ arrived = TRUE
    <2>1. k.row.youBlock \in BOOLEAN /\ (k.row.youBlock <=> Blocks(o, k.row.user))
      BY <1>3, <1>5, <1>6, <1>11 DEF OwnInv
    <2>2. ASSUME k.row.user = v PROVE k.row.youBlock = FALSE /\ arrived = TRUE
      <3>1. Blocks(o, k.row.user) <=> Blocks(o, v)
        BY <2>2
      <3>2. k.row.youBlock = FALSE
        BY <1>11, <2>1, <3>1
      <3> QED BY <3>2
    <2>3. ASSUME NEW u, NEW w, <<u, w, FALSE>> \in msgs, {u, w} = {o, v} PROVE FALSE
      <3>1. arrived = FALSE
        BY <1>9, <2>3
      <3>2. k.row.user = v
        BY <1>9, <2>3
      <3> QED BY <2>2, <3>1, <3>2
    <2>4. {o, v} = {v, o}
      OBVIOUS
    <2> QED BY <2>2, <2>3, <2>4
  <1>12. ASSUME live(o), NEW v \in Users \ {o}, Wants(o, v), v \in view[o] \/ WillSee(o, k, v)
         PROVE  v \in view'[o] \/ WillSee(o, j, v)
    <2>1. live(o) /\ ~Blocks(o, v) /\ "buddy" \in FlagsOf(o, v)
      BY <1>12 DEF Wants, Visible
    <2>2. CASE v \in view[o]
      BY <1>9, <1>11, <2>1, <2>2, ViewAfter
    <2>3. CASE Pending(o, v)
      BY <2>3 DEF WillSee
    <2>4. CASE \E r \in k.rows \cup {k.row} : r.user = v /\ ~r.youBlock /\ r.onYours /\ (r \in k.rows \/ k.theirs)
      <3>1. PICK r \in k.rows \cup {k.row} : r.user = v /\ ~r.youBlock /\ r.onYours /\ (r \in k.rows \/ k.theirs)
        BY <2>4
      <3>2. CASE r \in k.rows
        BY <1>4, <1>5, <3>1, <3>2 DEF WillSee
      <3>3. CASE r \notin k.rows
        <4>1. toYours /\ k.row.user = v /\ arrived = TRUE
          BY <1>11, <2>1, <3>1, <3>3
        <4>2. <<o, v, TRUE>> \in msgs
          BY <1>9, <4>1
        <4> QED BY <1>9, <1>11, <2>1, <4>2, ViewAfter
      <3> QED BY <3>2, <3>3
    <2> QED BY <1>3, <1>5, <1>12, <2>2, <2>3, <2>4 DEF WillSee
  <1>13. ASSUME live(o), NEW v \in Users \ {o}, Wants(v, o), o \in view[v] \/ WillShow(o, k, v)
         PROVE  o \in view'[v] \/ WillShow(o, j, v)
    <2>1. live(v) /\ ~Blocks(o, v) /\ "buddy" \in FlagsOf(v, o)
      BY <1>13 DEF Wants, Visible
    <2>2. CASE o \in view[v]
      BY <1>9, <1>11, <1>13, <2>1, <2>2, ViewAfter
    <2>3. CASE Pending(o, v)
      BY <2>3 DEF WillShow
    <2>4. CASE k.visible /\ \E r \in k.rows \cup {k.row} : r.user = v /\ ~r.youBlock /\ r.onTheirs
      <3>1. PICK r \in k.rows \cup {k.row} : r.user = v /\ ~r.youBlock /\ r.onTheirs
        BY <2>4
      <3>2. CASE r \in k.rows
        BY <1>4, <1>5, <2>4, <3>1, <3>2 DEF WillShow
      <3>3. CASE r \notin k.rows
        <4>1. toTheirs /\ k.row.user = v /\ arrived = TRUE
          BY <1>11, <1>13, <2>1, <2>4, <3>1, <3>3
        <4>2. <<v, o, TRUE>> \in msgs
          BY <1>9, <4>1
        <4> QED BY <1>9, <1>11, <1>13, <2>1, <4>2, ViewAfter
      <3> QED BY <3>2, <3>3
    <2> QED BY <1>3, <1>5, <1>13, <2>2, <2>3, <2>4 DEF WillShow
  <1>14. j.pc # "handle"
    BY <1>4
  <1>15. live(o) => \A v \in Users \ {o} :
           /\ Wants(o, v) /\ (v \in view[o] \/ WillSee(o, k, v)) => v \in view'[o] \/ WillSee(o, j, v)
           /\ Wants(v, o) /\ (o \in view[v] \/ WillShow(o, k, v)) => o \in view'[v] \/ WillShow(o, j, v)
    BY <1>12, <1>13
  <1> QED BY <1>1, <1>3, <1>7, <1>10, <1>14, <1>15, BroadcastNews

\* Who is to be told of an arrival is among the recipients.
LEMMA RecipientsNews ==
  ASSUME RegistryInv, SeenInv, NEW o \in Users, readRecipients(<<o, "conn">>)
  PROVE  NewsInv' /\ PartsInv'
  <1> DEFINE p == <<o, "conn">>
  <1>1. PICK k : k = job[p]
    OBVIOUS
  <1>2. PICK to : to = {r.user : r \in {q \in AllRelationships(o, {}) : q.onTheirs /\ ~q.youBlock /\ ~q.blocksYou}}
    OBVIOUS
  <1>3. PICK j : j = [pc |-> "relay", arrived |-> k.arrived, to |-> to]
    OBVIOUS
  <1>4. /\ k.pc = "readAll" /\ goto(p, j)
        /\ UNCHANGED <<stored, conn, contactsInit, invisible, txn, view, load>>
    BY <1>1, <1>2, <1>3 DEF readRecipients, Owner, bounds
  <1>5. j.pc = "relay" /\ j.arrived = k.arrived /\ j.to = to
    BY <1>3
  <1>6. live(o) => OwnInv(o, j)
    BY <1>1, <1>4, <1>5 DEF SeenInv, PartsInv, PartOf, OwnInv
  <1>7. \A v : ~WillRead(k, v)
    BY <1>4 DEF WillRead
  <1>8. ASSUME NEW v \in Users \ {o}, WillSee(o, k, v) PROVE WillSee(o, j, v)
    BY <1>4, <1>7, <1>8 DEF WillSee
  <1>9. ASSUME NEW v \in Users \ {o}, Wants(v, o), WillShow(o, k, v) PROVE WillShow(o, j, v)
    <2>1. CASE Pending(o, v)
      BY <2>1 DEF WillShow
    <2>2. CASE k.arrived
      <3>1. /\ "buddy" \in FlagsOf(v, o) /\ ~Blocks(o, v) /\ ~Blocks(v, o)
            /\ modeRow[o] # NoRow /\ modeRow[v] # NoRow
        BY <1>9 DEF Wants, Visible, SeenInv, PartsInv, PartOf, live
      <3>2. o \in Listed(v)
        BY <3>1, BuddyIsListed
      <3>3. PICK r \in AllRelationships(o, {}) : r.user = v
        BY <3>1, <3>2, RowFound
      <3>4. v \in to
        BY <1>2, <3>1, <3>3, RowSays
      <3> QED BY <1>5, <2>2, <3>4 DEF WillShow
    <2> QED BY <1>4, <1>7, <1>9, <2>1, <2>2 DEF WillShow
  <1>10. /\ \A v, w \in Users \ {o} : w \in view[v] => w \in view'[v]
         /\ live(o) => \A v \in Users \ {o} :
              /\ Wants(o, v) /\ (v \in view[o] \/ WillSee(o, k, v)) => v \in view'[o] \/ WillSee(o, j, v)
              /\ Wants(v, o) /\ (o \in view[v] \/ WillShow(o, k, v)) => o \in view'[v] \/ WillShow(o, j, v)
    BY <1>4, <1>8, <1>9
  <1>11. j.pc # "handle"
    BY <1>5
  <1> QED BY <1>1, <1>4, <1>6, <1>10, <1>11, BroadcastNews

\* A departure is relayed only of a user who is still invisible.
LEMMA RelayedNews ==
  ASSUME RegistryInv, SeenInv, NEW o \in Users, relay(<<o, "conn">>)
  PROVE  NewsInv' /\ PartsInv'
  <1> DEFINE p == <<o, "conn">>
  <1>1. PICK k : k = job[p]
    OBVIOUS
  <1>2. k.pc = "relay" /\ UNCHANGED <<stored, conn, contactsInit, invisible, txn, load>>
    BY <1>1 DEF relay, bounds
  <1>3. live(o) => OwnInv(o, k)
    BY <1>1 DEF SeenInv, PartsInv, PartOf
  <1>4. \A v : ~WillRead(k, v)
    BY <1>2 DEF WillRead
  <1>5. ASSUME NEW v, WillSee(o, k, v) PROVE Pending(o, v)
    BY <1>2, <1>4, <1>5 DEF WillSee
  <1>6. ASSUME NEW v, WillShow(o, k, v) PROVE Pending(o, v) \/ (k.arrived /\ v \in k.to)
    BY <1>2, <1>4, <1>6 DEF WillShow
  <1>7. \A v, j : Pending(o, v) => WillSee(o, j, v) /\ WillShow(o, j, v)
    BY DEF WillSee, WillShow
  <1>8. CASE k.to = {}
    <2>1. goto(p, Idle) /\ view' = view
      BY <1>1, <1>8 DEF relay
    <2>2. OwnInv(o, Idle) /\ Idle.pc # "handle"
      BY IdleIsIdle DEF OwnInv
    <2>3. /\ \A v, w \in Users \ {o} : w \in view[v] => w \in view'[v]
          /\ live(o) => \A v \in Users \ {o} :
               /\ Wants(o, v) /\ (v \in view[o] \/ WillSee(o, k, v)) => v \in view'[o] \/ WillSee(o, Idle, v)
               /\ Wants(v, o) /\ (o \in view[v] \/ WillShow(o, k, v)) => o \in view'[v] \/ WillShow(o, Idle, v)
      BY <1>5, <1>6, <1>7, <1>8, <2>1
    <2> QED BY <1>1, <1>2, <2>1, <2>2, <2>3, BroadcastNews
  <1>9. CASE k.to # {}
    <2>1. PICK x \in k.to : /\ view' = relayed({<<x, o, k.arrived>>})
                            /\ goto(p, [pc |-> "relay", arrived |-> k.arrived, to |-> k.to \ {x}])
      BY <1>1, <1>9 DEF relay, Owner
    <2>2. PICK j : j = [pc |-> "relay", arrived |-> k.arrived, to |-> k.to \ {x}]
      OBVIOUS
    <2>3. goto(p, j) /\ j.pc = "relay" /\ j.arrived = k.arrived /\ j.to = k.to \ {x}
      BY <2>1, <2>2
    <2>4. PICK msgs : msgs = {<<x, o, k.arrived>>}
      OBVIOUS
    <2>5. view' = relayed(msgs) /\ \A u, w, a : <<u, w, a>> \in msgs => u = x /\ w = o /\ a = k.arrived
      BY <2>1, <2>4
    <2>6. live(o) => OwnInv(o, j)
      BY <1>2, <1>3, <2>3 DEF OwnInv
    <2>7. \A v, w \in Users \ {o} : w \in view[v] => w \in view'[v]
      BY <2>5, ViewAfter
    <2>8. ASSUME NEW v \in Users \ {o}, v \in view[o] \/ WillSee(o, k, v)
          PROVE  v \in view'[o] \/ WillSee(o, j, v)
      <3>1. <<o, v, FALSE>> \notin msgs
        BY <2>5, <2>8
      <3>2. v \in view[o] => v \in view'[o]
        BY <2>5, <3>1, ViewAfter
      <3> QED BY <1>5, <1>7, <2>8, <3>2
    <2>9. ASSUME live(o), NEW v \in Users \ {o}, Wants(v, o), o \in view[v] \/ WillShow(o, k, v)
          PROVE  o \in view'[v] \/ WillShow(o, j, v)
      <3>1. k.arrived = TRUE
        BY <1>2, <1>3, <2>9 DEF OwnInv, Wants, Visible
      <3>2. <<v, o, FALSE>> \notin msgs
        BY <2>5, <3>1
      <3>3. CASE o \in view[v]
        BY <2>5, <2>9, <3>2, <3>3, ViewAfter
      <3>4. CASE Pending(o, v)
        BY <1>7, <3>4
      <3>5. CASE v \in k.to /\ v # x
        BY <2>3, <3>1, <3>5 DEF WillShow
      <3>6. CASE v = x
        <4>1. <<v, o, TRUE>> \in msgs
          BY <2>4, <3>1, <3>6
        <4>2. live(v) /\ "buddy" \in FlagsOf(v, o)
          BY <2>9 DEF Wants
        <4> QED BY <2>5, <2>9, <3>2, <4>1, <4>2, ViewAfter
      <3> QED BY <1>6, <2>9, <3>3, <3>4, <3>5, <3>6
    <2>10. live(o) => \A v \in Users \ {o} :
             /\ Wants(o, v) /\ (v \in view[o] \/ WillSee(o, k, v)) => v \in view'[o] \/ WillSee(o, j, v)
             /\ Wants(v, o) /\ (o \in view[v] \/ WillShow(o, k, v)) => o \in view'[v] \/ WillShow(o, j, v)
      BY <2>8, <2>9
    <2>11. j.pc # "handle"
      BY <2>3
    <2> QED BY <1>1, <1>2, <2>3, <2>6, <2>7, <2>10, <2>11, BroadcastNews
  <1> QED BY <1>8, <1>9

\* A hook's relays are about its own user.
LEMMA HookStep ==
  ASSUME RegistryInv, SeenInv, NEW o \in Users, step(<<o, "hook">>)
  PROVE  NewsInv' /\ PartsInv'
  <1> DEFINE p == <<o, "hook">>
  <1>1. PICK k : k = job[p]
    OBVIOUS
  <1>2. /\ k # Idle /\ UNCHANGED <<stored, conn, contactsInit, invisible, txn, load>>
        /\ \E j : goto(p, j)
        /\ view' = view \/ tell(p) \/ (relay(p) /\ k.to # {})
    <2>1. CASE readVisibility(p)
      BY <1>1, <2>1, IdleIsIdle DEF readVisibility, bounds
    <2>2. CASE lookup(p)
      BY <1>1, <2>2, IdleIsIdle DEF lookup, bounds
    <2>3. CASE tell(p)
      BY <1>1, <2>3, IdleIsIdle DEF tell, bounds
    <2>4. CASE readRecipients(p)
      BY <1>1, <2>4, IdleIsIdle DEF readRecipients, bounds
    <2>5. CASE relay(p)
      BY <1>1, <2>5, IdleIsIdle DEF relay, bounds
    <2> QED BY <2>1, <2>2, <2>3, <2>4, <2>5 DEF step
  <1>3. ASSUME NEW msgs, view' = relayed(msgs), \A u, w, a : <<u, w, a>> \in msgs => u = o \/ w = o
        PROVE  \A v, w \in Users \ {o} : w \in view[v] => w \in view'[v]
    BY <1>3, ViewAfter
  <1>4. \A v, w \in Users \ {o} : w \in view[v] => w \in view'[v]
    <2>1. CASE tell(p)
      <3> DEFINE arrived == ~k.row.youBlock
                 toTheirs == k.row.onTheirs /\ (IF arrived THEN k.visible ELSE k.departures)
                 toYours == k.row.onYours /\ (IF arrived THEN k.theirs ELSE k.departures)
                 sent == {m \in {<<k.row.user, o, arrived>>} : toTheirs} \cup
                         {m \in {<<o, k.row.user, arrived>>} : toYours}
      <3>1. view' = relayed(sent)
        BY <1>1, <2>1 DEF tell, Owner
      <3>2. \A u, w, a : <<u, w, a>> \in sent => u = o \/ w = o
        OBVIOUS
      <3> QED BY <1>3, <3>1, <3>2
    <2>2. CASE relay(p) /\ k.to # {}
      <3>1. PICK x : view' = relayed({<<x, o, k.arrived>>})
        BY <1>1, <2>2 DEF relay, Owner
      <3>2. \A u, w, a : <<u, w, a>> \in {<<x, o, k.arrived>>} => u = o \/ w = o
        OBVIOUS
      <3> QED BY <1>3, <3>1, <3>2
    <2> QED BY <1>2, <2>1, <2>2
  <1> QED BY <1>1, <1>2, <1>4, HookNews

LEMMA RelaysNews ==
  ASSUME RegistryInv, SeenInv, NEW p \in Procs, step(p)
  PROVE  NewsInv' /\ PartsInv'
  <1>1. PICK o \in Users : p = <<o, "conn">> \/ p = <<o, "hook">>
    BY OwnerOf
  <1>2. CASE p = <<o, "conn">>
    BY <1>2, ReadNews, LookupNews, TellNews, RecipientsNews, RelayedNews DEF step
  <1>3. CASE p = <<o, "hook">>
    BY <1>3, HookStep
  <1> QED BY <1>1, <1>2, <1>3

-----------------------------------------------------------------------------
LEMMA InitSeen == Init => SeenInv
  <1> SUFFICES ASSUME Init PROVE SeenInv
    OBVIOUS
  <1>1. MoreTables
    BY DEF Init, MoreTables
  <1>2. \A u \in Users : ~live(u)
    BY DEF Init, live
  <1>3. NewsInv
    BY <1>2 DEF NewsInv, News, Wants
  <1>4. ASSUME NEW u \in Users PROVE PartOf(u)
    <2>1. txn[u] = NoTxn
      BY DEF Init
    <2>2. TxnInv(u)
      BY <2>1 DEF TxnInv, NoTxn
    <2>3. job[<<u, "conn">>] = Idle /\ job[<<u, "hook">>] = Idle
      BY DEF Init, Procs
    <2> QED BY <1>2, <2>2, <2>3, IdleIsIdle DEF Init, PartOf
  <1> QED BY <1>1, <1>3, <1>4 DEF SeenInv, PartsInv

LEMMA RestartNews ==
  ASSUME SeenInv, Restart
  PROVE  NewsInv' /\ PartsInv'
  <1>1. /\ conn' = [u \in Users |-> "off"] /\ job' = [p \in Procs |-> Idle]
        /\ modeRow' = [u \in Users |-> NoRow]
        /\ UNCHANGED <<txn, load>>
    BY DEF Restart, ClearBuddyListRegistry, bounds
  <1>2. \A u \in Users : ~live(u)'
    BY <1>1 DEF live
  <1>3. NewsInv'
    BY <1>2 DEF NewsInv, News, Wants
  <1>4. ASSUME NEW u \in Users PROVE PartOf(u)'
    <2>1. TxnInv(u)'
      BY <1>1 DEF SeenInv, PartsInv, PartOf, TxnInv
    <2>2. job'[<<u, "conn">>] = Idle /\ job'[<<u, "hook">>] = Idle
      BY <1>1 DEF Procs
    <2> QED BY <1>1, <1>2, <2>1, <2>2, IdleIsIdle DEF PartOf
  <1> QED BY <1>3, <1>4 DEF PartsInv

LEMMA SignOnNews ==
  ASSUME RegistryInv, SeenInv, NEW u \in Users, SignOn(u)
  PROVE  NewsInv' /\ PartsInv'
  <1>1. /\ conn[u] = "off" /\ job[<<u, "conn">>] = Idle
        /\ UNCHANGED <<clientSide, feedbag, job, view, load>>
        /\ conn' = [conn EXCEPT ![u] = "registered"]
        /\ contactsInit' = [contactsInit EXCEPT ![u] = FALSE]
        /\ invisible' = [invisible EXCEPT ![u] = FALSE]
        /\ txn' = [txn EXCEPT ![u] = NoTxn]
        /\ modeRow' = [modeRow EXCEPT ![u] = IF @ = NoRow THEN [useFeedbag |-> FALSE, pd |-> PermitAll] ELSE @]
    BY DEF SignOn, RegisterBuddyList
  <1>2. OthersKeep(u)
    BY <1>1 DEF SeenInv, MoreTables, RegistryInv, Tables, OthersKeep
  <1>3. conn'[u] = "registered" /\ txn'[u] = NoTxn
    BY <1>1 DEF SeenInv, MoreTables, RegistryInv, Tables
  <1>4. modeRow'[u] \in Rows
    <2>1. [useFeedbag |-> FALSE, pd |-> PermitAll] \in Rows
      BY DEF Rows, PermitAll
    <2>2. modeRow'[u] = IF modeRow[u] = NoRow THEN [useFeedbag |-> FALSE, pd |-> PermitAll] ELSE modeRow[u]
      BY <1>1 DEF RegistryInv, Tables
    <2> QED BY <2>1, <2>2 DEF SeenInv, PartsInv, PartOf
  <1>5. modeRow'[u] # NoRow
    BY <1>4, PresenceAssumption DEF Rows
  <1>6. TxnInv(u)'
    BY <1>3 DEF TxnInv, NoTxn
  <1>7. job'[<<u, "hook">>] = Idle
    BY <1>1 DEF SeenInv, PartsInv, PartOf
  <1>8. ~live(u)'
    BY <1>3 DEF live
  <1>9. PartOf(u)'
    BY <1>1, <1>4, <1>5, <1>6, <1>7, <1>8, IdleIsIdle DEF PartOf
  <1> QED BY <1>2, <1>8, <1>9, OnesNews DEF SeenInv

LEMMA EndOwns ==
  ASSUME NEW o \in Users, NEW j, j = Idle \/ j.pc = "read"
  PROVE  OwnInv(o, j)' /\ j.pc # "handle"
  BY IdleIsIdle DEF OwnInv

\* When a client with its list comes online, everybody's relationship with it will be read.
LEMMA ClientOnlineNews ==
  ASSUME RegistryInv, SeenInv, NEW u \in Users, ClientOnline(u)
  PROVE  NewsInv' /\ PartsInv'
  <1> DEFINE p == <<u, "conn">>
             next == IF contactsInit[u] THEN BroadcastVisibility({}, FALSE) ELSE Idle
  <1>1. PartOf(u) /\ Tables
    BY DEF SeenInv, PartsInv, RegistryInv
  <1>2. /\ conn[u] = "registered" /\ conn' = [conn EXCEPT ![u] = "online"]
        /\ job[p] = Idle /\ (contactsInit[u] \/ u \in load.late)
        /\ IF contactsInit[u] THEN goto(p, BroadcastVisibility({}, FALSE)) ELSE job' = job
        /\ UNCHANGED <<modeRow, clientSide, feedbag, contactsInit, invisible, txn, view, load>>
    BY DEF ClientOnline, stored, bounds
  <1>3. PICK j : j = next
    OBVIOUS
  <1>4. (j = Idle \/ j.pc = "read") /\ (contactsInit[u] => j.pc = "read" /\ j.filter = {})
    BY <1>3 DEF BroadcastVisibility
  <1>5. /\ job'[p] = j /\ job'[<<u, "hook">>] = job[<<u, "hook">>]
        /\ \A v \in Users \ {u} : /\ job'[<<v, "conn">>] = job[<<v, "conn">>]
                                  /\ job'[<<v, "hook">>] = job[<<v, "hook">>]
    <2>1. CASE contactsInit[u]
      <3>1. goto(p, j)
        BY <1>2, <1>3, <2>1
      <3> QED BY <1>1, <3>1, OwnPlace
    <2>2. CASE ~contactsInit[u]
      BY <1>2, <1>3, <2>2
    <2> QED BY <2>1, <2>2
  <1>6. conn'[u] = "online" /\ \A v \in Users \ {u} : conn'[v] = conn[v]
    BY <1>1, <1>2 DEF Tables
  <1>7. OthersKeep(u)
    BY <1>2, <1>5, <1>6 DEF OthersKeep
  <1>8. PartOf(u)'
    <2>1. OwnInv(u, j)' /\ j.pc # "handle"
      BY <1>4, EndOwns
    <2>2. TxnInv(u)'
      BY <1>1, <1>2 DEF PartOf, TxnInv
    <2>3. job'[<<u, "hook">>] = Idle
      BY <1>1, <1>2, <1>5 DEF PartOf
    <2> QED BY <1>1, <1>2, <1>5, <1>6, <2>1, <2>2, <2>3 DEF PartOf
  <1>9. ASSUME NEW v \in Users \ {u} PROVE News(u, v)' /\ News(v, u)'
    <2>1. CASE contactsInit[u]
      <3>1. WillRead(j, v)
        BY <1>4, <2>1 DEF WillRead
      <3>2. WillSee(u, j, v)' /\ WillShow(u, j, v)'
        BY <3>1 DEF WillSee, WillShow
      <3>3. Coming(u, v)' /\ Coming(v, u)'
        BY <1>5, <3>2 DEF Coming
      <3> QED BY <3>3 DEF News
    <2>2. CASE ~contactsInit[u]
      BY <1>2, <2>2 DEF News, Wants
    <2> QED BY <2>1, <2>2
  <1> QED BY <1>7, <1>8, <1>9, OnesNews DEF SeenInv

LEMMA CloseNews ==
  ASSUME RegistryInv, SeenInv, NEW u \in Users, Close(u)
  PROVE  NewsInv' /\ PartsInv'
  <1>1. /\ conn' = [conn EXCEPT ![u] = "closing"] /\ view' = [view EXCEPT ![u] = {}]
        /\ goto(<<u, "hook">>, Broadcast(FALSE))
        /\ UNCHANGED <<modeRow, clientSide, feedbag, contactsInit, invisible, txn, load>>
    BY DEF Close, stored, bounds
  <1>2. /\ job'[<<u, "conn">>] = job[<<u, "conn">>]
        /\ \A v \in Users \ {u} : /\ job'[<<v, "conn">>] = job[<<v, "conn">>]
                                  /\ job'[<<v, "hook">>] = job[<<v, "hook">>]
    BY <1>1, OwnPlace DEF RegistryInv
  <1>3. /\ conn'[u] = "closing" /\ \A v \in Users \ {u} : conn'[v] = conn[v]
        /\ \A v \in Users \ {u} : view'[v] = view[v]
    BY <1>1 DEF RegistryInv, Tables, SeenInv, MoreTables
  <1>4. OthersKeep(u)
    BY <1>1, <1>2, <1>3 DEF OthersKeep
  <1>5. ~live(u)'
    BY <1>3 DEF live
  <1>6. PartOf(u)'
    <2>1. PartOf(u)
      BY DEF SeenInv, PartsInv
    <2>2. TxnInv(u)' /\ RequestsOf(u)' = RequestsOf(u)
      BY <1>1, <2>1 DEF PartOf, TxnInv, RequestsOf
    <2> QED BY <1>1, <1>2, <1>3, <1>5, <2>1, <2>2 DEF PartOf
  <1> QED BY <1>4, <1>5, <1>6, OnesNews DEF SeenInv

LEMMA SignoutNews ==
  ASSUME RegistryInv, SeenInv, NEW u \in Users, Signout(u)
  PROVE  NewsInv' /\ PartsInv'
  <1>1. /\ goto(<<u, "hook">>, Idle) /\ conn' = [conn EXCEPT ![u] = "off"]
        /\ modeRow' = [modeRow EXCEPT ![u] = NoRow] /\ clientSide' = [clientSide EXCEPT ![u] = Empty]
        /\ UNCHANGED <<feedbag, contactsInit, invisible, txn, view, load>>
    BY DEF Signout, UnregisterBuddyList, bounds
  <1>2. /\ job'[<<u, "conn">>] = job[<<u, "conn">>] /\ job'[<<u, "hook">>] = Idle
        /\ \A v \in Users \ {u} : /\ job'[<<v, "conn">>] = job[<<v, "conn">>]
                                  /\ job'[<<v, "hook">>] = job[<<v, "hook">>]
    BY <1>1, OwnPlace DEF RegistryInv
  <1>3. /\ conn'[u] = "off" /\ modeRow'[u] = NoRow
        /\ \A v \in Users \ {u} : conn'[v] = conn[v] /\ modeRow'[v] = modeRow[v] /\ clientSide'[v] = clientSide[v]
    BY <1>1 DEF RegistryInv, Tables
  <1>4. OthersKeep(u)
    BY <1>1, <1>2, <1>3 DEF OthersKeep
  <1>5. ~live(u)'
    BY <1>3 DEF live
  <1>6. PartOf(u)'
    <2>1. PartOf(u)
      BY DEF SeenInv, PartsInv
    <2>2. TxnInv(u)' /\ RequestsOf(u)' = RequestsOf(u)
      BY <1>1, <2>1 DEF PartOf, TxnInv, RequestsOf
    <2> QED BY <1>2, <1>3, <1>5, <2>1, <2>2 DEF PartOf
  <1> QED BY <1>4, <1>5, <1>6, OnesNews DEF SeenInv

LEMMA SeenStays ==
  ASSUME SeenInv, UNCHANGED vars
  PROVE  SeenInv'
  <1>1. UNCHANGED <<stored, conn, contactsInit, invisible, txn, load>> /\ view' = view /\ job' = job
    BY DEF vars, stored
  <1>2. MoreTables'
    BY <1>1 DEF SeenInv, MoreTables, stored
  <1>3. NewsInv'
    <2> SUFFICES ASSUME NEW u \in Users, NEW w \in Users, u # w PROVE News(u, w)'
      BY DEF NewsInv
    <2>1. News(u, w)
      BY DEF SeenInv, NewsInv
    <2>2. Coming(u, w)' <=> Coming(u, w)
      BY <1>1, SeenSame DEF Coming
    <2> QED BY <1>1, <2>1, <2>2, SeenSame DEF News
  <1>4. ASSUME NEW u \in Users PROVE PartOf(u)'
    <2>1. PartOf(u)
      BY DEF SeenInv, PartsInv
    <2>2. live(u)' => OwnInv(u, job[<<u, "conn">>])'
      <3>1. PICK k : k = job[<<u, "conn">>]
        OBVIOUS
      <3>2. live(u)' => OwnInv(u, k)'
        BY <1>1, <2>1, <3>1, SameState, OwnSame DEF PartOf
      <3> QED BY <1>1, <3>1, <3>2
    <2>3. TxnInv(u)' /\ RequestsOf(u)' = RequestsOf(u)
      BY <1>1, <2>1 DEF PartOf, TxnInv, RequestsOf
    <2>4. live(u)' => contactsInit'[u] \/ u \in load'.late
      BY <1>1, <2>1 DEF PartOf, live
    <2> QED BY <1>1, <2>1, <2>2, <2>3, <2>4 DEF PartOf, stored
  <1> QED BY <1>2, <1>3, <1>4 DEF SeenInv, PartsInv

-----------------------------------------------------------------------------
\* Nothing has changed that v's client or o's would have to be told.
NothingNew(o, v) ==
  /\ Blocks(o, v) => Blocks(o, v)'
  /\ "buddy" \in FlagsOf(o, v)' => "buddy" \in FlagsOf(o, v)
  /\ v \in view[o] => v \in view'[o]
  /\ contactsInit'[o] => contactsInit[o]

LEMMA HandledNews ==
  ASSUME RegistryInv, SeenInv, NEW o \in Users, NEW k, NEW j,
         k = job[<<o, "conn">>], k.pc \in {"idle", "handle", "entries"}, goto(<<o, "conn">>, j),
         UNCHANGED <<conn, invisible, load>>,
         \A v \in Users \ {o} : /\ modeRow'[v] = modeRow[v] /\ clientSide'[v] = clientSide[v]
                                /\ feedbag'[v] = feedbag[v] /\ contactsInit'[v] = contactsInit[v]
                                /\ txn'[v] = txn[v] /\ view'[v] = view[v],
         contactsInit[o] => contactsInit'[o],
         modeRow'[o] = modeRow[o] \/ modeRow'[o] \in Rows,
         TxnInv(o)',
         j.pc = "handle" => j.req \in RequestsOf(o),
         live(o) => OwnInv(o, j)',
         live(o) => \A v \in Users \ {o} :
           \/ WillRead(j, v) \/ Pending(o, v)'
           \/ ~WillRead(k, v) /\ ~Pending(o, v) /\ NothingNew(o, v)
  PROVE  NewsInv' /\ PartsInv'
  <1>1. /\ job'[<<o, "conn">>] = j /\ job'[<<o, "hook">>] = job[<<o, "hook">>]
        /\ \A v \in Users \ {o} : /\ job'[<<v, "conn">>] = job[<<v, "conn">>]
                                  /\ job'[<<v, "hook">>] = job[<<v, "hook">>]
    BY OwnPlace DEF RegistryInv
  <1>2. OthersKeep(o)
    BY <1>1 DEF OthersKeep
  <1>3. live(o)' <=> live(o)
    BY DEF live
  <1>4. PartOf(o)'
    <2>1. PartOf(o)
      BY DEF SeenInv, PartsInv
    <2>2. modeRow'[o] \in Rows => modeRow'[o] # NoRow
      BY PresenceAssumption DEF Rows
    <2>3. j.pc = "handle" => j.req \in RequestsOf(o)'
      BY DEF RequestsOf
    <2> QED BY <1>1, <1>3, <2>1, <2>2, <2>3 DEF PartOf
  <1>5. ASSUME NEW v \in Users \ {o}, live(o)' PROVE News(o, v)' /\ News(v, o)'
    <2>1. CASE WillRead(j, v) \/ Pending(o, v)'
      <3>1. WillSee(o, j, v)' /\ WillShow(o, j, v)'
        BY <2>1 DEF WillSee, WillShow, WillRead
      <3>2. Coming(o, v)' /\ Coming(v, o)'
        BY <1>1, <3>1 DEF Coming
      <3> QED BY <3>2 DEF News
    <2>2. CASE ~WillRead(k, v) /\ ~Pending(o, v) /\ NothingNew(o, v)
      <3>1. News(o, v) /\ News(v, o)
        BY DEF SeenInv, NewsInv
      <3>2. /\ FlagsOf(v, o)' = FlagsOf(v, o)
            /\ Blocks(v, o)' <=> Blocks(v, o)
        BY SameRows
      <3>3. /\ Wants(o, v)' => Wants(o, v)
            /\ Wants(v, o)' => Wants(v, o)
        BY <2>2, <3>2 DEF Wants, Visible, live, NothingNew
      <3>4. ~WillSee(o, k, v) /\ ~WillShow(o, k, v)
        BY <2>2 DEF WillSee, WillShow
      <3>5. PICK m : m = job[<<v, "conn">>]
        OBVIOUS
      <3>6. Pending(v, o)' <=> Pending(v, o)
        BY DEF Pending
      <3>7. /\ WillSee(v, m, o)' <=> WillSee(v, m, o)
            /\ WillShow(v, m, o)' <=> WillShow(v, m, o)
        BY <3>6 DEF WillSee, WillShow
      <3>8. job'[<<v, "conn">>] = m
        BY <1>1, <3>5
      <3>9. Coming(o, v) => Coming(o, v)'
        <4>1. Coming(o, v) => WillShow(v, m, o)
          BY <3>4, <3>5 DEF Coming
        <4>2. WillShow(v, m, o)' => Coming(o, v)'
          BY <3>8 DEF Coming
        <4> QED BY <3>7, <4>1, <4>2
      <3>10. Coming(v, o) => Coming(v, o)'
        <4>1. Coming(v, o) => WillSee(v, m, o)
          BY <3>4, <3>5 DEF Coming
        <4>2. WillSee(v, m, o)' => Coming(v, o)'
          BY <3>8 DEF Coming
        <4> QED BY <3>7, <4>1, <4>2
      <3>11. v \in view[o] => v \in view'[o]
        BY <2>2 DEF NothingNew
      <3> QED BY <3>1, <3>3, <3>9, <3>10, <3>11 DEF News
    <2> QED BY <1>3, <1>5, <2>1, <2>2
  <1> QED BY <1>2, <1>4, <1>5, OnesNews DEF SeenInv

\* What a client asks for, and who is online.
LEMMA Asked ==
  ASSUME SeenInv, NEW o \in Users, NEW kind, NEW k, k = job[<<o, "conn">>], handling(o, kind)
  PROVE  /\ k.pc = "handle" /\ k.req.kind = kind /\ k.req \in RequestsOf(o)
         /\ k.req = job[<<o, "conn">>].req
         /\ live(o) => k.signedOn /\ signedOn(o)
         /\ live(o) /\ kind # "UpsertItems" => \A v : ~WillRead(k, v)
         /\ live(o) /\ "left" \in DOMAIN k => k.left \subseteq k.req.arg
         /\ TxnInv(o)
         /\ modeRow[o] = NoRow \/ modeRow[o] \in Rows
         /\ Announcing /\ kind = "AddBuddies" /\ live(o) => contactsInit[o]
  <1>1. PartOf(o)
    BY DEF SeenInv, PartsInv
  <1>2. k.pc = "handle" /\ k.req.kind = kind
    BY DEF handling
  <1>3. live(o) => OwnInv(o, k)
    BY <1>1 DEF PartOf
  <1>4. live(o) /\ kind # "UpsertItems" => \A v : ~WillRead(k, v)
    BY <1>2, <1>3 DEF OwnInv, WillRead
  <1>5. Announcing /\ kind = "AddBuddies" /\ live(o) => contactsInit[o]
    <2>1. kind \in load.kinds[o] /\ load \in Loads
      BY <1>1, <1>2, RequestIs DEF PartOf, SeenInv, MoreTables
    <2> QED BY <1>1, <2>1 DEF PartOf, Announcing
  <1> QED BY <1>1, <1>2, <1>3, <1>4, <1>5 DEF PartOf, OwnInv, signedOn

\* A flag is of the names given only.
LEMMA FlagsElsewhere ==
  ASSUME Tables, NEW o \in Users, NEW names, NEW flag,
         setFlag(o, names, flag) \/ clearFlag(o, names, flag), UNCHANGED <<modeRow, feedbag>>
  PROVE  /\ \A w : w \notin names => FlagsOf(o, w)' = FlagsOf(o, w)
         /\ \A w \in Users \ names : Blocks(o, w)' <=> Blocks(o, w)
         /\ \A u \in Users \ {o} : clientSide'[u] = clientSide[u]
  <1>1. /\ \A u \in Users \ {o} : clientSide'[u] = clientSide[u]
        /\ \/ clientSide'[o] =
                [w \in DOMAIN clientSide[o] \cup names |->
                   (IF w \in DOMAIN clientSide[o] THEN clientSide[o][w] ELSE {}) \cup {f \in {flag} : w \in names}]
           \/ clientSide'[o] = [w \in DOMAIN clientSide[o] |-> clientSide[o][w] \ {f \in {flag} : w \in names}]
    BY DEF Tables, setFlag, clearFlag
  <1>2. UsesFeedbag(o)' <=> UsesFeedbag(o)
    BY DEF UsesFeedbag
  <1>3. pdMode(o)' = pdMode(o)
    BY <1>2, SameMode
  <1>4. ASSUME NEW w, w \notin names PROVE FlagsOf(o, w)' = FlagsOf(o, w)
    BY <1>1, <1>2, <1>4 DEF FlagsOf
  <1>5. ASSUME NEW w \in Users \ names PROVE Blocks(o, w)' <=> Blocks(o, w)
    BY <1>3, <1>4, SameBlocks
  <1> QED BY <1>1, <1>4, <1>5

\* A client-side list, one flag of some names at a time.
LEMMA FlagNews ==
  ASSUME RegistryInv, SeenInv, NEW o \in Users, NEW k, NEW j, NEW names, NEW flag,
         k = job[<<o, "conn">>], k.pc = "handle", live(o) => \A v : ~WillRead(k, v),
         setFlag(o, names, flag) \/ clearFlag(o, names, flag),
         UNCHANGED <<modeRow, feedbag, conn, invisible, txn, load>>,
         \A v \in Users \ {o} : contactsInit'[v] = contactsInit[v] /\ view'[v] = view[v],
         contactsInit[o] => contactsInit'[o], live(o) /\ contactsInit'[o] => contactsInit[o],
         \A v \in Users \ names : v \in view[o] => v \in view'[o],
         goto(<<o, "conn">>, j), j = Idle \/ j.pc = "read",
         live(o) => \A v \in names : WillRead(j, v)
  PROVE  NewsInv' /\ PartsInv'
  <1>1. /\ \A w : w \notin names => FlagsOf(o, w)' = FlagsOf(o, w)
        /\ \A w \in Users \ names : Blocks(o, w)' <=> Blocks(o, w)
        /\ \A u \in Users \ {o} : clientSide'[u] = clientSide[u]
    BY FlagsElsewhere DEF RegistryInv
  <1>2. OwnInv(o, j)' /\ j.pc # "handle"
    BY EndOwns
  <1>3. TxnInv(o)'
    BY DEF SeenInv, PartsInv, PartOf, TxnInv
  <1>4. ASSUME live(o), NEW v \in Users \ {o}
        PROVE  \/ WillRead(j, v) \/ Pending(o, v)'
               \/ ~WillRead(k, v) /\ ~Pending(o, v) /\ NothingNew(o, v)
    <2>1. Pending(o, v)' <=> Pending(o, v)
      BY DEF Pending
    <2>2. v \notin names => NothingNew(o, v)
      BY <1>1, <1>4 DEF NothingNew
    <2> QED BY <1>4, <2>1, <2>2
  <1> QED BY <1>1, <1>2, <1>3, <1>4, HandledNews

LEMMA AddBuddiesNews ==
  ASSUME RegistryInv, SeenInv, Announcing, NEW o \in Users, AddBuddies(o)
  PROVE  NewsInv' /\ PartsInv'
  <1> DEFINE p == <<o, "conn">>
  <1>1. PICK k : k = job[p]
    OBVIOUS
  <1>2. PICK names : names = arg(o)
    OBVIOUS
  <1>3. /\ handling(o, "AddBuddies") /\ setFlag(o, names, "buddy")
        /\ IF names # {} THEN maybeBroadcastVisibility(o, names) ELSE done(o)
        /\ contactsInit' = [contactsInit EXCEPT ![o] = TRUE]
        /\ UNCHANGED <<modeRow, feedbag, conn, invisible, txn, view, load>>
    BY <1>2 DEF AddBuddies, bounds
  <1>4. /\ k.pc = "handle" /\ (live(o) => signedOn(o) /\ contactsInit[o])
        /\ live(o) => \A v : ~WillRead(k, v)
    BY <1>1, <1>3, Asked
  <1>5. \E j : /\ goto(p, j) /\ (j = Idle \/ j.pc = "read")
               /\ live(o) => \A v \in names : WillRead(j, v)
    <2>1. CASE names # {}
      <3>1. PICK j : /\ goto(p, j)
                     /\ signedOn(o) => j.pc = "read" /\ j.departures = TRUE /\ j.filter = names
                     /\ ~signedOn(o) => j = Idle
        BY <1>3, <2>1, MaybeSends
      <3>2. live(o) => \A v \in names : WillRead(j, v)
        BY <1>4, <3>1 DEF WillRead
      <3> QED BY <3>1, <3>2
    <2>2. CASE names = {}
      <3>1. goto(p, Idle)
        BY <1>3, <2>2 DEF done
      <3> QED BY <2>2, <3>1
    <2> QED BY <2>1, <2>2
  <1>6. PICK j : /\ goto(p, j) /\ (j = Idle \/ j.pc = "read")
                 /\ live(o) => \A v \in names : WillRead(j, v)
    BY <1>5
  <1>7. /\ view' = view /\ contactsInit'[o] = TRUE
        /\ \A v \in Users \ {o} : contactsInit'[v] = contactsInit[v]
    BY <1>3 DEF SeenInv, MoreTables
  <1> QED BY <1>1, <1>3, <1>4, <1>6, <1>7, FlagNews

LEMMA DelBuddiesNews ==
  ASSUME RegistryInv, SeenInv, NEW o \in Users, DelBuddies(o)
  PROVE  NewsInv' /\ PartsInv'
  <1> DEFINE p == <<o, "conn">>
  <1>1. PICK k : k = job[p]
    OBVIOUS
  <1>2. PICK names : names = arg(o)
    OBVIOUS
  <1>3. /\ handling(o, "DelBuddies") /\ clearFlag(o, names, "buddy")
        /\ view' = [view EXCEPT ![o] = @ \ names]
        /\ broadcast(o, names, TRUE)
        /\ UNCHANGED <<modeRow, feedbag, conn, contactsInit, invisible, txn, load>>
    BY <1>2 DEF DelBuddies, forget, bounds
  <1>4. k.pc = "handle" /\ (live(o) => \A v : ~WillRead(k, v))
    BY <1>1, <1>3, Asked
  <1>5. PICK j : goto(p, j) /\ j.pc = "read" /\ j.departures = TRUE /\ j.filter = names
    BY <1>3, Sends
  <1>6. \A v \in names : WillRead(j, v)
    BY <1>5 DEF WillRead
  <1>7. view'[o] = view[o] \ names /\ \A v \in Users \ {o} : view'[v] = view[v]
    BY <1>3 DEF SeenInv, MoreTables
  <1>8. \A v \in Users \ names : v \in view[o] => v \in view'[o]
    BY <1>7
  <1> QED BY <1>1, <1>3, <1>4, <1>5, <1>6, <1>7, <1>8, FlagNews

LEMMA DelEntriesNews ==
  ASSUME RegistryInv, SeenInv, NEW o \in Users, NEW kind \in {"DelDenyListEntries", "DelPermListEntries"},
         NEW flag, delEntries(o, kind, flag)
  PROVE  NewsInv' /\ PartsInv'
  <1> DEFINE p == <<o, "conn">>
  <1>1. PICK k : k = job[p]
    OBVIOUS
  <1>2. PICK names : names = arg(o)
    OBVIOUS
  <1>3. /\ handling(o, kind) /\ clearFlag(o, names, flag) /\ maybeBroadcastVisibility(o, names)
        /\ UNCHANGED <<modeRow, feedbag, conn, contactsInit, invisible, txn, view, load>>
    BY <1>2 DEF delEntries, bounds
  <1>4. /\ k.pc = "handle" /\ (live(o) => signedOn(o))
        /\ live(o) => \A v : ~WillRead(k, v)
    BY <1>1, <1>3, Asked
  <1>5. PICK j : /\ goto(p, j)
                 /\ signedOn(o) => j.pc = "read" /\ j.departures = TRUE /\ j.filter = names
                 /\ ~signedOn(o) => j = Idle
    BY <1>3, MaybeSends
  <1>6. live(o) => \A v \in names : WillRead(j, v)
    BY <1>4, <1>5 DEF WillRead
  <1>7. view' = view /\ (j = Idle \/ j.pc = "read")
    BY <1>3, <1>5
  <1> QED BY <1>1, <1>3, <1>4, <1>5, <1>6, <1>7, FlagNews

\* Everybody's relationship will be read.
LEMMA AllRead ==
  ASSUME RegistryInv, SeenInv, NEW o \in Users, NEW k, NEW j,
         k = job[<<o, "conn">>], k.pc \in {"handle", "entries"}, goto(<<o, "conn">>, j),
         UNCHANGED <<feedbag, conn, invisible, txn, view, load>>,
         \A v \in Users \ {o} : /\ modeRow'[v] = modeRow[v] /\ clientSide'[v] = clientSide[v]
                                /\ contactsInit'[v] = contactsInit[v],
         contactsInit[o] => contactsInit'[o],
         modeRow'[o] = modeRow[o] \/ modeRow'[o] \in Rows,
         j.pc # "handle", live(o) => OwnInv(o, j)' /\ \A v \in Users : WillRead(j, v)
  PROVE  NewsInv' /\ PartsInv'
  <1>1. TxnInv(o)'
    BY DEF SeenInv, PartsInv, PartOf, TxnInv
  <1> QED BY <1>1, HandledNews

LEMMA ModeIs ==
  ASSUME Tables, NEW o \in Users, NEW mode \in 1..5, SetPDMode(o, mode),
         modeRow[o] = NoRow \/ modeRow[o] \in Rows
  PROVE  /\ modeRow'[o] = modeRow[o] \/ modeRow'[o] \in Rows
         /\ \A v \in Users \ {o} : modeRow'[v] = modeRow[v] /\ clientSide'[v] = clientSide[v]
  <1>1. CASE UNCHANGED <<modeRow, clientSide>>
    BY <1>1
  <1>2. ASSUME modeRow' = [modeRow EXCEPT ![o] = [useFeedbag |-> UsesFeedbag(o), pd |-> mode]],
               clientSide' = [clientSide EXCEPT ![o] =
                               [w \in {v \in DOMAIN clientSide[o] : "buddy" \in clientSide[o][v]} |-> {"buddy"}]]
        PROVE  /\ modeRow'[o] \in Rows
               /\ \A v \in Users \ {o} : modeRow'[v] = modeRow[v] /\ clientSide'[v] = clientSide[v]
    <2>1. /\ modeRow'[o] = [useFeedbag |-> UsesFeedbag(o), pd |-> mode]
          /\ \A v \in Users \ {o} : modeRow'[v] = modeRow[v] /\ clientSide'[v] = clientSide[v]
      BY <1>2 DEF Tables
    <2>2. UsesFeedbag(o) \in BOOLEAN
      BY DEF Rows, UsesFeedbag
    <2> QED BY <2>1, <2>2 DEF Rows
  <1> QED BY <1>1, <1>2 DEF SetPDMode

LEMMA AddEntriesNews ==
  ASSUME RegistryInv, SeenInv, NEW o \in Users, NEW kind \in {"AddDenyListEntries", "AddPermListEntries"},
         NEW all \in 1..5, NEW mode \in 1..5, NEW flag, addEntries(o, kind, all, mode, flag)
  PROVE  NewsInv' /\ PartsInv'
  <1> DEFINE p == <<o, "conn">>
  <1>1. PICK k : k = job[p]
    OBVIOUS
  <1>2. /\ handling(o, kind)
        /\ \/ SetPDMode(o, all) /\ maybeBroadcastVisibility(o, {})
           \/ SetPDMode(o, mode) /\ goto(p, [pc |-> "entries", flag |-> flag, names |-> arg(o),
                                             signedOn |-> signedOn(o)])
        /\ UNCHANGED <<feedbag, conn, contactsInit, invisible, txn, view, load>>
    BY DEF addEntries, bounds
  <1>3. k.pc = "handle" /\ (live(o) => signedOn(o)) /\ (modeRow[o] = NoRow \/ modeRow[o] \in Rows)
    BY <1>1, <1>2, Asked
  <1>4. /\ modeRow'[o] = modeRow[o] \/ modeRow'[o] \in Rows
        /\ \A v \in Users \ {o} : modeRow'[v] = modeRow[v] /\ clientSide'[v] = clientSide[v]
    BY <1>2, <1>3, ModeIs DEF RegistryInv
  <1>5. \E j : /\ goto(p, j) /\ j.pc # "handle"
               /\ live(o) => OwnInv(o, j)' /\ \A v \in Users : WillRead(j, v)
    <2>1. CASE maybeBroadcastVisibility(o, {})
      <3>1. PICK j : /\ goto(p, j)
                     /\ signedOn(o) => j.pc = "read" /\ j.departures = TRUE /\ j.filter = {}
                     /\ ~signedOn(o) => j = Idle
        BY <2>1, MaybeSends
      <3>2. live(o) => \A v \in Users : WillRead(j, v)
        BY <1>3, <3>1 DEF WillRead
      <3> QED BY <3>1, <3>2, EndOwns
    <2>2. CASE goto(p, [pc |-> "entries", flag |-> flag, names |-> arg(o), signedOn |-> signedOn(o)])
      <3>1. PICK j : j = [pc |-> "entries", flag |-> flag, names |-> arg(o), signedOn |-> signedOn(o)]
        OBVIOUS
      <3>2. goto(p, j) /\ j.pc = "entries" /\ j.signedOn = signedOn(o)
        BY <2>2, <3>1
      <3>3. live(o) => OwnInv(o, j)'
        BY <1>3, <3>2 DEF OwnInv
      <3> QED BY <3>2, <3>3 DEF WillRead
    <2> QED BY <1>2, <2>1, <2>2
  <1>6. PICK j : /\ goto(p, j) /\ j.pc # "handle"
                 /\ live(o) => OwnInv(o, j)' /\ \A v \in Users : WillRead(j, v)
    BY <1>5
  <1> QED BY <1>1, <1>2, <1>3, <1>4, <1>6, AllRead

LEMMA StoreEntriesNews ==
  ASSUME RegistryInv, SeenInv, NEW o \in Users, storeEntries(o)
  PROVE  NewsInv' /\ PartsInv'
  <1> DEFINE p == <<o, "conn">>
  <1>1. PICK k : k = job[p]
    OBVIOUS
  <1>2. /\ k.pc = "entries" /\ setFlag(o, k.names, k.flag)
        /\ IF k.signedOn THEN broadcast(o, {}, TRUE) ELSE done(o)
        /\ UNCHANGED <<modeRow, feedbag, conn, contactsInit, invisible, txn, view, load>>
    BY <1>1 DEF storeEntries, bounds
  <1>3. live(o) => k.signedOn
    BY <1>1, <1>2 DEF SeenInv, PartsInv, PartOf, OwnInv
  <1>4. \A v \in Users \ {o} : clientSide'[v] = clientSide[v]
    BY <1>2, FlagSet DEF RegistryInv
  <1>5. \E j : /\ goto(p, j) /\ (j = Idle \/ j.pc = "read")
               /\ live(o) => \A v \in Users : WillRead(j, v)
    <2>1. CASE k.signedOn
      <3>1. PICK j : goto(p, j) /\ j.pc = "read" /\ j.departures = TRUE /\ j.filter = {}
        BY <1>2, <2>1, Sends
      <3> QED BY <3>1 DEF WillRead
    <2>2. CASE ~k.signedOn
      <3>1. goto(p, Idle)
        BY <1>2, <2>2 DEF done
      <3> QED BY <1>3, <2>2, <3>1
    <2> QED BY <2>1, <2>2
  <1>6. PICK j : /\ goto(p, j) /\ (j = Idle \/ j.pc = "read")
                 /\ live(o) => \A v \in Users : WillRead(j, v)
    BY <1>5
  <1>7. OwnInv(o, j)' /\ j.pc # "handle"
    BY <1>6, EndOwns
  <1>8. /\ \A v \in Users \ {o} : modeRow'[v] = modeRow[v] /\ clientSide'[v] = clientSide[v]
        /\ modeRow'[o] = modeRow[o]
    BY <1>2, <1>4
  <1> QED BY <1>1, <1>2, <1>6, <1>7, <1>8, AllRead

-----------------------------------------------------------------------------
LEMMA ReceiveNews ==
  ASSUME RegistryInv, SeenInv, NEW o \in Users, Receive(o)
  PROVE  NewsInv' /\ PartsInv'
  <1> DEFINE p == <<o, "conn">>
  <1>1. PICK r \in RequestsOf(o) : goto(p, [pc |-> "handle", req |-> r, signedOn |-> live(o)])
    BY DEF Receive
  <1>2. /\ job[p] = Idle
        /\ UNCHANGED <<modeRow, clientSide, feedbag, conn, contactsInit, invisible, txn, load>> /\ view' = view
    BY DEF Receive, stored
  <1>3. PICK j : j = [pc |-> "handle", req |-> r, signedOn |-> live(o)]
    OBVIOUS
  <1>4. goto(p, j) /\ j.pc = "handle" /\ j.req = r /\ j.signedOn = live(o) /\ "left" \notin DOMAIN j
    BY <1>1, <1>3
  <1>5. live(o) => OwnInv(o, j)'
    BY <1>4 DEF OwnInv
  <1>6. TxnInv(o)'
    BY <1>2 DEF SeenInv, PartsInv, PartOf, TxnInv
  <1>7. PICK k : k = job[p]
    OBVIOUS
  <1>8. k.pc = "idle"
    BY <1>2, <1>7, IdleIsIdle
  <1>9. ASSUME NEW v \in Users \ {o}
        PROVE  \/ Pending(o, v)'
               \/ ~WillRead(k, v) /\ ~Pending(o, v) /\ NothingNew(o, v)
    <2>1. NothingNew(o, v)
      BY <1>2, SameRows DEF NothingNew
    <2>2. ~WillRead(k, v)
      BY <1>8 DEF WillRead
    <2>3. Pending(o, v)' <=> Pending(o, v)
      BY <1>2 DEF Pending
    <2> QED BY <2>1, <2>2, <2>3
  <1>10. j.pc = "handle" => j.req \in RequestsOf(o)
    BY <1>4
  <1> QED BY <1>2, <1>4, <1>5, <1>6, <1>7, <1>8, <1>9, <1>10, HandledNews

\* Who becomes visible is announced; who becomes invisible is not to be seen.
LEMMA SetUserInfoNews ==
  ASSUME RegistryInv, SeenInv, NEW o \in Users, SetUserInfoFields(o)
  PROVE  NewsInv' /\ PartsInv'
  <1> DEFINE p == <<o, "conn">>
  <1>1. PICK hide : hide = arg(o)
    OBVIOUS
  <1>2. /\ handling(o, "SetUserInfoFields") /\ invisible' = [invisible EXCEPT ![o] = hide]
        /\ goto(p, Broadcast(~hide))
        /\ UNCHANGED <<modeRow, clientSide, feedbag, conn, contactsInit, txn, view, load>>
    BY <1>1 DEF SetUserInfoFields, stored, bounds
  <1>3. PICK k : k = job[p]
    OBVIOUS
  <1>4. /\ k.pc = "handle" /\ k.req.kind = "SetUserInfoFields" /\ k.req \in RequestsOf(o)
        /\ live(o) => \A v : ~WillRead(k, v)
    BY <1>2, <1>3, Asked
  <1>5. hide \in BOOLEAN
    BY <1>1, <1>3, <1>4, RequestIs DEF arg
  <1>6. PICK j : j = Broadcast(~hide)
    OBVIOUS
  <1>7. goto(p, j) /\ j.pc = "readAll" /\ j.arrived \in BOOLEAN /\ (j.arrived <=> ~hide)
    BY <1>2, <1>5, <1>6 DEF Broadcast
  <1>8. (invisible'[o] <=> hide) /\ \A v \in Users \ {o} : invisible'[v] = invisible[v]
    BY <1>2 DEF SeenInv, MoreTables
  <1>9. /\ job'[p] = j /\ job'[<<o, "hook">>] = job[<<o, "hook">>]
        /\ \A v \in Users \ {o} : /\ job'[<<v, "conn">>] = job[<<v, "conn">>]
                                  /\ job'[<<v, "hook">>] = job[<<v, "hook">>]
    BY <1>7, OwnPlace DEF RegistryInv
  <1>10. OthersKeep(o)
    BY <1>2, <1>8, <1>9 DEF OthersKeep
  <1>11. PartOf(o)'
    <2>1. PartOf(o)
      BY DEF SeenInv, PartsInv
    <2>2. TxnInv(o)' /\ OwnInv(o, j)'
      BY <1>2, <1>7, <1>8, <2>1 DEF PartOf, TxnInv, OwnInv
    <2>3. live(o)' => contactsInit'[o] \/ o \in load'.late
      BY <1>2, <2>1 DEF PartOf, live
    <2> QED BY <1>2, <1>7, <1>9, <2>1, <2>2, <2>3 DEF PartOf
  <1>12. \A u, w \in Users : /\ FlagsOf(u, w)' = FlagsOf(u, w)
                             /\ Blocks(u, w)' <=> Blocks(u, w)
    BY <1>2, SameRows
  <1>13. \A u : live(u)' <=> live(u)
    BY <1>2 DEF live
  <1>14. ASSUME NEW v \in Users \ {o}, live(o)' PROVE News(o, v)' /\ News(v, o)'
    <2>1. News(o, v)
      BY DEF SeenInv, NewsInv
    <2>2. Wants(o, v)' => Wants(o, v)
      BY <1>2, <1>8, <1>12, <1>13 DEF Wants, Visible
    <2>3. PICK m : m = job[<<v, "conn">>]
      OBVIOUS
    <2>4. job'[<<v, "conn">>] = m
      BY <1>9, <2>3
    <2>5. \A u, w : Pending(u, w)' <=> Pending(u, w)
      BY <1>2 DEF Pending
    <2>6. WillShow(v, m, o)' <=> WillShow(v, m, o)
      BY <2>5 DEF WillShow
    <2>7. WillSee(o, k, v) => WillSee(o, j, v)'
      BY <1>4, <1>13, <1>14, <2>5 DEF WillSee
    <2>8. Coming(o, v) => Coming(o, v)'
      <3>1. Coming(o, v) <=> WillSee(o, k, v) \/ WillShow(v, m, o)
        BY <1>3, <2>3 DEF Coming
      <3>2. Coming(o, v)' <=> WillSee(o, j, v)' \/ WillShow(v, m, o)'
        BY <1>9, <2>4 DEF Coming
      <3> QED BY <2>6, <2>7, <3>1, <3>2
    <2>9. News(o, v)'
      BY <1>2, <2>1, <2>2, <2>8 DEF News
    <2>10. CASE hide
      <3>1. ~Wants(v, o)'
        BY <1>8, <2>10 DEF Wants, Visible
      <3> QED BY <2>9, <3>1 DEF News
    <2>11. CASE ~hide
      <3>1. WillShow(o, j, v)'
        BY <1>7, <2>11 DEF WillShow
      <3>2. Coming(v, o)'
        BY <1>9, <3>1 DEF Coming
      <3> QED BY <2>9, <3>2 DEF News
    <2> QED BY <2>10, <2>11
  <1> QED BY <1>10, <1>11, <1>14, OnesNews DEF SeenInv

LEMMA IdleNews ==
  ASSUME RegistryInv, SeenInv, NEW o \in Users, IdleNotification(o)
  PROVE  NewsInv' /\ PartsInv'
  <1> DEFINE p == <<o, "conn">>
             next == IF invisible[o] THEN Idle ELSE Broadcast(TRUE)
  <1>1. /\ handling(o, "IdleNotification")
        /\ IF invisible[o] THEN goto(p, Idle) ELSE goto(p, Broadcast(TRUE))
        /\ UNCHANGED <<modeRow, clientSide, feedbag, conn, contactsInit, invisible, txn, load>> /\ view' = view
    BY DEF IdleNotification, bounds, done, stored
  <1>2. PICK k : k = job[p]
    OBVIOUS
  <1>3. k.pc = "handle" /\ (live(o) => \A v : ~WillRead(k, v))
    BY <1>1, <1>2, Asked
  <1>4. PICK j : j = next
    OBVIOUS
  <1>5. goto(p, j) /\ (j = Idle \/ (j.pc = "readAll" /\ j.arrived = TRUE /\ ~invisible[o]))
    BY <1>1, <1>4 DEF Broadcast
  <1>6. OwnInv(o, j)' /\ j.pc # "handle"
    BY <1>1, <1>5, IdleIsIdle DEF OwnInv
  <1>7. TxnInv(o)'
    BY <1>1 DEF SeenInv, PartsInv, PartOf, TxnInv
  <1>8. ASSUME live(o), NEW v \in Users \ {o}
        PROVE  \/ Pending(o, v)'
               \/ ~WillRead(k, v) /\ ~Pending(o, v) /\ NothingNew(o, v)
    <2>1. NothingNew(o, v)
      BY <1>1, SameRows DEF NothingNew
    <2>2. Pending(o, v)' <=> Pending(o, v)
      BY <1>1 DEF Pending
    <2> QED BY <1>3, <1>8, <2>1, <2>2
  <1> QED BY <1>1, <1>2, <1>3, <1>5, <1>6, <1>7, <1>8, HandledNews

LEMMA UseNews ==
  ASSUME RegistryInv, SeenInv, NEW o \in Users, Use(o)
  PROVE  NewsInv' /\ PartsInv'
  <1> DEFINE p == <<o, "conn">>
  <1>1. /\ handling(o, "Use") /\ modeRow' = [modeRow EXCEPT ![o] = [useFeedbag |-> TRUE, pd |-> 0]]
        /\ contactsInit' = [contactsInit EXCEPT ![o] = TRUE]
        /\ IF signedOn(o) THEN goto(p, BroadcastVisibility({}, FALSE)) ELSE goto(p, Idle)
        /\ UNCHANGED <<clientSide, feedbag, conn, invisible, txn, view, load>>
    BY DEF Use, UseFeedbag, bounds, broadcast, done
  <1>2. PICK k : k = job[p]
    OBVIOUS
  <1>3. k.pc = "handle" /\ (live(o) => signedOn(o))
    BY <1>1, <1>2, Asked
  <1>4. /\ modeRow'[o] = [useFeedbag |-> TRUE, pd |-> 0] /\ contactsInit'[o] = TRUE
        /\ \A v \in Users \ {o} : /\ modeRow'[v] = modeRow[v] /\ clientSide'[v] = clientSide[v]
                                  /\ contactsInit'[v] = contactsInit[v]
    BY <1>1 DEF RegistryInv, Tables, SeenInv, MoreTables
  <1>5. modeRow'[o] \in Rows
    <2>1. TRUE \in BOOLEAN /\ 0 \in 0..5
      OBVIOUS
    <2>2. [useFeedbag |-> TRUE, pd |-> 0] \in Rows
      BY <2>1, Zenon DEF Rows
    <2> QED BY <1>4, <2>2
  <1>6. PICK j : /\ goto(p, j) /\ (j = Idle \/ j.pc = "read")
                 /\ signedOn(o) => j.pc = "read" /\ j.filter = {}
    <2> DEFINE next == IF signedOn(o) THEN BroadcastVisibility({}, FALSE) ELSE Idle
    <2>1. PICK j : j = next
      OBVIOUS
    <2>2. /\ goto(p, j) /\ (j = Idle \/ j.pc = "read")
          /\ signedOn(o) => j.pc = "read" /\ j.filter = {}
      BY <1>1, <2>1 DEF BroadcastVisibility
    <2> QED BY <2>2
  <1>7. OwnInv(o, j)' /\ j.pc # "handle"
    BY <1>6, EndOwns
  <1>8. live(o) => \A v \in Users : WillRead(j, v)
    BY <1>3, <1>6 DEF WillRead
  <1> QED BY <1>1, <1>2, <1>3, <1>4, <1>5, <1>6, <1>7, <1>8, AllRead

-----------------------------------------------------------------------------
\* An item is about another user, or it is a mode.
LEMMA ItemsAsked ==
  ASSUME NEW o \in Users, NEW r \in RequestsOf(o)
  PROVE  /\ r.kind \in {"UpsertItem", "DeleteItem"} =>
              \E i \in Entries \cup PdInfos :
                /\ r.arg = {i}
                /\ i \notin PdInfos => i.name \in Users \ {o}
                /\ i \in PdInfos => load.modes # {}
         /\ r.kind = "UpsertItems" => load.modes # {} /\ namesIn(r.arg) \subseteq Users \ {o}
  <1> DEFINE modes == {i \in PdInfos : i.mode \in load.modes}
             items == {e \in Entries : e.name # o} \cup modes
  <1>1. r.kind \in {"UpsertItem", "DeleteItem"} => \E i \in items : r.arg = {i}
    BY DEF RequestsOf
  <1>2. r.kind = "UpsertItems" => \E i \in items \ PdInfos : \E pd \in modes : r.arg = {i, pd}
    BY DEF RequestsOf
  <1>3. \A i \in items : /\ i \in Entries \cup PdInfos
                         /\ i \notin PdInfos => i.name \in Users \ {o}
    BY DEF Entries
  <1>4. \A i \in PdInfos : i \in items => load.modes # {}
    <2> SUFFICES ASSUME NEW i \in PdInfos, i \in items PROVE load.modes # {}
      OBVIOUS
    <2>1. i \notin Entries
      BY IsFlag DEF Entries, PdInfos
    <2> QED BY <2>1
  <1>5. ASSUME r.kind = "UpsertItems" PROVE load.modes # {} /\ namesIn(r.arg) \subseteq Users \ {o}
    <2>1. PICK i \in items \ PdInfos, pd \in modes : r.arg = {i, pd}
      BY <1>2, <1>5
    <2>2. namesIn(r.arg) \subseteq {i.name}
      BY <2>1 DEF namesIn
    <2> QED BY <1>3, <2>1, <2>2
  <1>6. ASSUME r.kind \in {"UpsertItem", "DeleteItem"}
        PROVE  \E i \in Entries \cup PdInfos :
                 /\ r.arg = {i}
                 /\ i \notin PdInfos => i.name \in Users \ {o}
                 /\ i \in PdInfos => load.modes # {}
    <2>1. PICK i \in items : r.arg = {i}
      BY <1>1, <1>6
    <2>2. /\ i \in Entries \cup PdInfos
          /\ i \notin PdInfos => i.name \in Users \ {o}
          /\ i \in PdInfos => load.modes # {}
      BY <1>3, <1>4
    <2> HIDE DEF items
    <2> QED BY <2>1, <2>2
  <1> QED BY <1>5, <1>6

\* What is to be announced is read at once or when the cluster ends, with what was to be before.
LEMMA NotifyNews ==
  ASSUME SeenInv, Announcing, NEW o \in Users, NEW filter, filter \subseteq Users \ {o},
         filter = {} => load.modes # {}, notify(o, filter), load' = load
  PROVE  \E j : /\ goto(<<o, "conn">>, j) /\ (j = Idle \/ j.pc = "read")
                /\ \A v \in Users \ {o} :
                     filter = {} \/ v \in filter \/ Pending(o, v) => WillRead(j, v) \/ Pending(o, v)'
                /\ \A v \in Users \ {o} : txn'[v] = txn[v]
                /\ TxnInv(o)'
  <1>1. TxnInv(o) /\ txn = [u \in Users |-> txn[u]] /\ load \in Loads
    BY DEF SeenInv, PartsInv, PartOf, MoreTables
  <1>2. CASE ~txn[o].active
    <2>1. txn' = txn /\ \E j : goto(<<o, "conn">>, j) /\ j.pc = "read" /\ j.departures = TRUE /\ j.filter = filter
      BY <1>2, NotifySends
    <2>2. PICK j : goto(<<o, "conn">>, j) /\ j.pc = "read" /\ j.filter = filter
      BY <2>1
    <2>3. TxnInv(o)'
      BY <1>1, <2>1 DEF TxnInv
    <2>4. \A v \in Users \ {o} : filter = {} \/ v \in filter \/ Pending(o, v) => WillRead(j, v)
      BY <1>2, <2>2 DEF Pending, WillRead
    <2> QED BY <2>1, <2>2, <2>3, <2>4
  <1>3. CASE txn[o].active
    <2>1. /\ txn' = [txn EXCEPT ![o].send = TRUE, ![o].names = @ \cup filter]
          /\ goto(<<o, "conn">>, Idle)
      BY <1>3 DEF notify, done
    <2>2. /\ txn'[o] = [txn[o] EXCEPT !.send = TRUE, !.names = txn[o].names \cup filter]
          /\ \A v \in Users \ {o} : txn'[v] = txn[v]
      BY <1>1, <2>1
    <2>3. PICK t : t = txn[o]
      OBVIOUS
    <2>4. t = [f \in {"active", "send", "names"} |-> t[f]]
      BY <1>1, <2>3 DEF TxnInv
    <2>5. /\ txn'[o].active = t.active /\ txn'[o].send = TRUE /\ txn'[o].names = t.names \cup filter
          /\ txn'[o] = [f \in {"active", "send", "names"} |-> txn'[o][f]]
      BY <2>2, <2>3, <2>4
    <2>6. TxnInv(o)'
      BY <1>1, <2>3, <2>5 DEF TxnInv
    <2>7. load.modes # {} => \A v, w \in Users \ {o} : v = w
      BY <1>1, <1>3 DEF Announcing, TxnInv
    <2>8. ASSUME NEW v \in Users \ {o}, filter = {} \/ v \in filter \/ Pending(o, v)
          PROVE  txn'[o].names = {} \/ v \in txn'[o].names
      <3>1. t.names \subseteq Users \ {o}
        BY <1>1, <2>3 DEF TxnInv
      <3>2. CASE v \in filter
        BY <2>5, <3>2
      <3>3. CASE filter = {}
        BY <2>5, <2>7, <3>1, <3>3
      <3>4. CASE Pending(o, v) /\ filter # {}
        <4>1. CASE v \in t.names
          BY <2>5, <4>1
        <4>2. CASE t.names = {} /\ t.send
          <5>1. load.modes # {}
            BY <1>1, <2>3, <4>2 DEF TxnInv
          <5> QED BY <2>5, <2>7, <3>4, <5>1
        <4> QED BY <2>3, <3>4, <4>1, <4>2 DEF Pending
      <3> QED BY <2>8, <3>2, <3>3, <3>4
    <2>9. \A v \in Users \ {o} : filter = {} \/ v \in filter \/ Pending(o, v) => Pending(o, v)'
      BY <1>3, <2>3, <2>5, <2>8 DEF Pending
    <2> QED BY <2>1, <2>2, <2>6, <2>9
  <1> QED BY <1>2, <1>3

LEMMA StartClusterNews ==
  ASSUME RegistryInv, SeenInv, NoNesting, NEW o \in Users, StartCluster(o)
  PROVE  NewsInv' /\ PartsInv'
  <1> DEFINE p == <<o, "conn">>
  <1>1. /\ handling(o, "StartCluster")
        /\ txn' = [txn EXCEPT ![o] = [active |-> TRUE, send |-> FALSE, names |-> {}]]
        /\ goto(p, Idle)
        /\ UNCHANGED <<modeRow, clientSide, feedbag, conn, contactsInit, invisible, load>> /\ view' = view
    BY DEF StartCluster, stored, bounds, done
  <1>2. PICK k : k = job[p]
    OBVIOUS
  <1>3. /\ k.pc = "handle" /\ k.req.kind = "StartCluster" /\ k.req \in RequestsOf(o)
        /\ live(o) => \A v : ~WillRead(k, v)
    BY <1>1, <1>2, Asked
  <1>4. /\ txn'[o] = [active |-> TRUE, send |-> FALSE, names |-> {}]
        /\ \A v \in Users \ {o} : txn'[v] = txn[v]
    BY <1>1 DEF SeenInv, MoreTables
  <1>5. TxnInv(o)'
    <2>1. "StartCluster" \in load.kinds[o]
      BY <1>3, RequestIs
    <2> QED BY <1>1, <1>4, <2>1 DEF TxnInv
  <1>6. ASSUME live(o), NEW v \in Users \ {o}
        PROVE  ~WillRead(k, v) /\ ~Pending(o, v) /\ NothingNew(o, v)
    <2>1. NothingNew(o, v)
      BY <1>1, SameRows DEF NothingNew
    <2>2. ~Pending(o, v)
      BY <1>1 DEF Pending, NoNesting
    <2> QED BY <1>3, <1>6, <2>1, <2>2
  <1>7. OwnInv(o, Idle)' /\ Idle.pc # "handle"
    BY EndOwns
  <1> QED BY <1>1, <1>2, <1>3, <1>4, <1>5, <1>6, <1>7, HandledNews

\* The end of a cluster announces what changed in it.
LEMMA EndClusterNews ==
  ASSUME RegistryInv, SeenInv, NEW o \in Users, EndCluster(o)
  PROVE  NewsInv' /\ PartsInv'
  <1> DEFINE p == <<o, "conn">>
  <1>1. PICK t : t = txn[o]
    OBVIOUS
  <1>2. /\ handling(o, "EndCluster") /\ txn' = [txn EXCEPT ![o] = NoTxn]
        /\ IF t.active /\ t.send THEN broadcast(o, t.names, TRUE) ELSE goto(p, Idle)
        /\ UNCHANGED <<modeRow, clientSide, feedbag, conn, contactsInit, invisible, load>> /\ view' = view
    BY <1>1 DEF EndCluster, stored, bounds, done
  <1>3. PICK k : k = job[p]
    OBVIOUS
  <1>4. k.pc = "handle" /\ (live(o) => \A v : ~WillRead(k, v))
    BY <1>2, <1>3, Asked
  <1>5. txn'[o] = NoTxn /\ \A v \in Users \ {o} : txn'[v] = txn[v]
    BY <1>2 DEF SeenInv, MoreTables
  <1>6. TxnInv(o)'
    BY <1>5 DEF TxnInv, NoTxn
  <1>7. \E j : /\ goto(p, j) /\ (j = Idle \/ j.pc = "read")
               /\ t.active /\ t.send => \A v : t.names = {} \/ v \in t.names => WillRead(j, v)
    <2>1. CASE t.active /\ t.send
      <3>1. broadcast(o, t.names, TRUE)
        BY <1>2, <2>1
      <3>2. PICK j : goto(p, j) /\ j.pc = "read" /\ j.departures = TRUE /\ j.filter = t.names
        BY <3>1, Sends
      <3> QED BY <3>2 DEF WillRead
    <2>2. CASE ~(t.active /\ t.send)
      BY <1>2, <2>2
    <2> QED BY <2>1, <2>2
  <1>8. PICK j : /\ goto(p, j) /\ (j = Idle \/ j.pc = "read")
                 /\ t.active /\ t.send => \A v : t.names = {} \/ v \in t.names => WillRead(j, v)
    BY <1>7
  <1>9. ASSUME live(o), NEW v \in Users \ {o}
        PROVE  WillRead(j, v) \/ (~WillRead(k, v) /\ ~Pending(o, v) /\ NothingNew(o, v))
    <2>1. NothingNew(o, v)
      BY <1>2, SameRows DEF NothingNew
    <2>2. Pending(o, v) => WillRead(j, v)
      BY <1>1, <1>8 DEF Pending
    <2> QED BY <1>4, <1>9, <2>1, <2>2
  <1>10. OwnInv(o, j)' /\ j.pc # "handle"
    BY <1>8, EndOwns
  <1> QED BY <1>2, <1>3, <1>4, <1>5, <1>6, <1>8, <1>9, <1>10, HandledNews

\* The client forgets only the buddy it removed, whose relationship is read.
LEMMA DeleteNews ==
  ASSUME RegistryInv, SeenInv, Announcing, NEW o \in Users, DeleteItem(o)
  PROVE  NewsInv' /\ PartsInv'
  <1> DEFINE p == <<o, "conn">>
  <1>1. PICK items : items = arg(o)
    OBVIOUS
  <1>2. /\ handling(o, "DeleteItem")
        /\ \E e \in items : feedbag' = [feedbag EXCEPT ![o] = @ \ {e}]
        /\ view' = [view EXCEPT ![o] = @ \ {e.name : e \in {x \in items : x.class = "buddy"}}]
        /\ notify(o, namesIn(items))
        /\ UNCHANGED <<modeRow, clientSide, conn, contactsInit, invisible, load>>
    BY <1>1 DEF DeleteItem, FeedbagDelete, forget, bounds
  <1>3. PICK k : k = job[p]
    OBVIOUS
  <1>4. /\ k.pc = "handle" /\ k.req.kind = "DeleteItem" /\ k.req \in RequestsOf(o) /\ items = k.req.arg
        /\ live(o) => \A v : ~WillRead(k, v)
    BY <1>1, <1>2, <1>3, Asked DEF arg
  <1>5. PICK i \in Entries \cup PdInfos :
          /\ items = {i}
          /\ i \notin PdInfos => i.name \in Users \ {o}
          /\ i \in PdInfos => load.modes # {}
    BY <1>4, ItemsAsked
  <1>6. /\ feedbag'[o] = feedbag[o] \ {i} /\ \A v \in Users \ {o} : feedbag'[v] = feedbag[v]
        /\ view'[o] = view[o] \ {e.name : e \in {x \in items : x.class = "buddy"}}
        /\ \A v \in Users \ {o} : view'[v] = view[v]
    BY <1>2, <1>5 DEF SeenInv, MoreTables
  <1>7. PICK names : names = namesIn(items)
    OBVIOUS
  <1>8. names = IF i \in PdInfos THEN {} ELSE {i.name}
    BY <1>5, <1>7, NamesIn
  <1>9. notify(o, names) /\ names \subseteq Users \ {o} /\ (names = {} => load.modes # {})
    BY <1>2, <1>5, <1>7, <1>8
  <1>10. PICK j : /\ goto(p, j) /\ (j = Idle \/ j.pc = "read")
                  /\ \A v \in Users \ {o} :
                       names = {} \/ v \in names \/ Pending(o, v) => WillRead(j, v) \/ Pending(o, v)'
                  /\ \A v \in Users \ {o} : txn'[v] = txn[v]
                  /\ TxnInv(o)'
    BY <1>2, <1>9, NotifyNews
  <1>11. /\ i \notin PdInfos => \A v \in Users : v # i.name => (Blocks(o, v)' <=> Blocks(o, v))
         /\ \A v \in Users, f \in Flags : i # [class |-> f, name |-> v] =>
              (f \in FlagsOf(o, v)' <=> f \in FlagsOf(o, v))
    BY <1>2, <1>6, ItemConcerns
  <1>12. ASSUME NEW v \in Users \ {o}, names # {}, v \notin names PROVE NothingNew(o, v)
    <2>1. i \notin PdInfos /\ v # i.name
      BY <1>8, <1>12
    <2>2. "buddy" \in FlagsOf(o, v)' <=> "buddy" \in FlagsOf(o, v)
      BY <1>11, <2>1, IsFlag
    <2>3. v \in view[o] => v \in view'[o]
      BY <1>5, <1>6, <2>1
    <2> QED BY <1>2, <1>11, <2>1, <2>2, <2>3 DEF NothingNew
  <1>13. ASSUME live(o), NEW v \in Users \ {o}
         PROVE  \/ WillRead(j, v) \/ Pending(o, v)'
                \/ ~WillRead(k, v) /\ ~Pending(o, v) /\ NothingNew(o, v)
    BY <1>4, <1>10, <1>12, <1>13
  <1>14. OwnInv(o, j)' /\ j.pc # "handle"
    BY <1>10, EndOwns
  <1>15. \A v \in Users \ {o} : /\ modeRow'[v] = modeRow[v] /\ clientSide'[v] = clientSide[v]
                                /\ feedbag'[v] = feedbag[v] /\ txn'[v] = txn[v] /\ view'[v] = view[v]
    BY <1>2, <1>6, <1>10
  <1>16. modeRow'[o] = modeRow[o]
    BY <1>2
  <1> QED BY <1>2, <1>3, <1>4, <1>10, <1>13, <1>14, <1>15, <1>16, HandledNews

\* The last item's broadcast, or the cluster's, covers what the request has stored.
LEMMA UpsertNews ==
  ASSUME RegistryInv, SeenInv, Announcing, NEW o \in Users, UpsertItem(o)
  PROVE  NewsInv' /\ PartsInv'
  <1> DEFINE p == <<o, "conn">>
  <1>1. PICK k : k = job[p]
    OBVIOUS
  <1>2. PICK left : left = IF "left" \in DOMAIN k THEN k.left ELSE k.req.arg
    OBVIOUS
  <1>3. PICK kind \in {"UpsertItem", "UpsertItems"} : handling(o, kind)
    BY DEF UpsertItem
  <1>4. PICK i \in left :
          /\ feedbag' = [feedbag EXCEPT ![o] = (IF i.class = "pdinfo" THEN @ \ PdInfos ELSE @) \cup {i}]
          /\ IF left = {i} THEN notify(o, namesIn(k.req.arg))
             ELSE /\ goto(p, [pc |-> "handle", req |-> k.req, signedOn |-> k.signedOn, left |-> left \ {i}])
                  /\ UNCHANGED txn
    BY <1>1, <1>2 DEF UpsertItem, FeedbagUpsert, arg
  <1>5. UNCHANGED <<modeRow, clientSide, conn, contactsInit, invisible, view, load>>
    BY DEF UpsertItem, bounds
  <1>6. /\ k.pc = "handle" /\ k.req.kind = kind /\ k.req \in RequestsOf(o)
        /\ live(o) => k.signedOn
        /\ live(o) /\ kind = "UpsertItem" => \A v : ~WillRead(k, v)
        /\ live(o) /\ "left" \in DOMAIN k => k.left \subseteq k.req.arg
        /\ TxnInv(o)
    BY <1>1, <1>3, Asked
  <1>7. /\ feedbag'[o] = (IF i.class = "pdinfo" THEN feedbag[o] \ PdInfos ELSE feedbag[o]) \cup {i}
        /\ \A v \in Users \ {o} : feedbag'[v] = feedbag[v]
    BY <1>4 DEF SeenInv, MoreTables
  <1>8. live(o) => left \subseteq k.req.arg
    BY <1>2, <1>6
  <1>9. CASE left # {i}
    <2>1. PICK j : j = [pc |-> "handle", req |-> k.req, signedOn |-> k.signedOn, left |-> left \ {i}]
      OBVIOUS
    <2>2. /\ goto(p, j) /\ txn' = txn
          /\ j.pc = "handle" /\ j.req = k.req /\ j.signedOn = k.signedOn
          /\ "left" \in DOMAIN j /\ j.left = left \ {i}
      BY <1>4, <1>9, <2>1
    <2>3. live(o) => kind = "UpsertItems"
      <3> SUFFICES ASSUME live(o), kind = "UpsertItem" PROVE FALSE
        BY <1>3
      <3>1. "left" \notin DOMAIN k
        BY <1>6 DEF WillRead
      <3>2. \E e : k.req.arg = {e}
        BY <1>6, ItemsAsked
      <3> QED BY <1>2, <1>9, <3>1, <3>2
    <2>4. live(o) => OwnInv(o, j)'
      BY <1>6, <1>8, <2>2, <2>3 DEF OwnInv
    <2>5. TxnInv(o)'
      BY <1>5, <1>6, <2>2 DEF TxnInv
    <2>6. \A v : WillRead(j, v)
      BY <2>2 DEF WillRead
    <2>7. \A v \in Users \ {o} : /\ modeRow'[v] = modeRow[v] /\ clientSide'[v] = clientSide[v]
                                 /\ feedbag'[v] = feedbag[v] /\ txn'[v] = txn[v] /\ view'[v] = view[v]
      BY <1>5, <1>7, <2>2
    <2>8. modeRow'[o] = modeRow[o] /\ (j.pc = "handle" => j.req \in RequestsOf(o))
      BY <1>5, <1>6, <2>2
    <2> QED BY <1>1, <1>5, <1>6, <2>2, <2>4, <2>5, <2>6, <2>7, <2>8, HandledNews
  <1>10. CASE left = {i}
    <2>1. PICK names : names = namesIn(k.req.arg)
      OBVIOUS
    <2>2. notify(o, names)
      BY <1>4, <1>10, <2>1
    <2>3. ASSUME kind = "UpsertItem"
          PROVE  \E e \in Entries \cup PdInfos :
                   /\ k.req.arg = {e} /\ names = (IF e \in PdInfos THEN {} ELSE {e.name})
                   /\ e \notin PdInfos => e.name \in Users \ {o}
                   /\ e \in PdInfos => load.modes # {}
      <3>1. PICK e \in Entries \cup PdInfos :
              /\ k.req.arg = {e}
              /\ e \notin PdInfos => e.name \in Users \ {o}
              /\ e \in PdInfos => load.modes # {}
        BY <1>6, <2>3, ItemsAsked
      <3>2. namesIn({e}) = IF e \in PdInfos THEN {} ELSE {e.name}
        BY NamesIn
      <3> QED BY <2>1, <3>1, <3>2
    <2>4. names \subseteq Users \ {o} /\ (names = {} => load.modes # {})
      <3>1. CASE kind = "UpsertItem"
        BY <2>3, <3>1
      <3>2. CASE kind = "UpsertItems"
        BY <1>6, <2>1, <3>2, ItemsAsked
      <3> QED BY <1>3, <3>1, <3>2
    <2>5. PICK j : /\ goto(p, j) /\ (j = Idle \/ j.pc = "read")
                   /\ \A v \in Users \ {o} :
                        names = {} \/ v \in names \/ Pending(o, v) => WillRead(j, v) \/ Pending(o, v)'
                   /\ \A v \in Users \ {o} : txn'[v] = txn[v]
                   /\ TxnInv(o)'
      BY <1>5, <2>2, <2>4, NotifyNews
    <2>6. ASSUME live(o), NEW v \in Users \ {o}
          PROVE  \/ WillRead(j, v) \/ Pending(o, v)'
                 \/ ~WillRead(k, v) /\ ~Pending(o, v) /\ NothingNew(o, v)
      <3>1. CASE names = {} \/ v \in names \/ Pending(o, v)
        BY <2>5, <3>1
      <3>2. CASE names # {} /\ v \notin names /\ ~Pending(o, v) /\ kind = "UpsertItem"
        <4>1. PICK e \in Entries \cup PdInfos : k.req.arg = {e} /\ names = IF e \in PdInfos THEN {} ELSE {e.name}
          BY <2>3, <3>2
        <4>2. i = e /\ i \notin PdInfos /\ i.name # v /\ i \in Entries
          BY <1>8, <2>6, <3>2, <4>1
        <4>3. feedbag'[o] = feedbag[o] \cup {i}
          BY <1>7, <4>2, IsFlag DEF Entries
        <4>4. clientSide'[o] = clientSide[o] /\ modeRow'[o] = modeRow[o]
          BY <1>5
        <4>5. /\ Blocks(o, v)' <=> Blocks(o, v)
              /\ \A f \in Flags : i # [class |-> f, name |-> v] => (f \in FlagsOf(o, v)' <=> f \in FlagsOf(o, v))
          BY <4>2, <4>3, <4>4, ItemConcerns
        <4>6. "buddy" \in FlagsOf(o, v)' <=> "buddy" \in FlagsOf(o, v)
          BY <4>2, <4>5, IsFlag
        <4>7. NothingNew(o, v)
          BY <1>5, <4>5, <4>6 DEF NothingNew
        <4> QED BY <1>6, <2>6, <3>2, <4>7
      <3>3. CASE names # {} /\ v \notin names /\ kind = "UpsertItems"
        <4>1. load.modes # {} /\ "UpsertItems" \in load.kinds[o] /\ load \in Loads
          BY <1>6, <3>3, ItemsAsked, RequestIs DEF SeenInv, MoreTables
        <4>2. \A u, w \in Users \ {o} : u = w
          BY <4>1 DEF Announcing
        <4> QED BY <2>4, <3>3, <4>2
      <3> QED BY <1>3, <3>1, <3>2, <3>3
    <2>7. OwnInv(o, j)' /\ j.pc # "handle"
      BY <2>5, EndOwns
    <2>8. \A v \in Users \ {o} : /\ modeRow'[v] = modeRow[v] /\ clientSide'[v] = clientSide[v]
                                 /\ feedbag'[v] = feedbag[v] /\ txn'[v] = txn[v] /\ view'[v] = view[v]
      BY <1>5, <1>7, <2>5
    <2>9. modeRow'[o] = modeRow[o]
      BY <1>5
    <2> QED BY <1>1, <1>5, <1>6, <2>5, <2>6, <2>7, <2>8, <2>9, HandledNews
  <1> QED BY <1>9, <1>10

-----------------------------------------------------------------------------
LEMMA MoreTablesStep ==
  ASSUME MoreTables, [Next]_vars
  PROVE  MoreTables'
  <1>1. load' = load /\ load \in Loads
    BY LoadStays DEF MoreTables
  <1>2. ASSUME NEW p \in Procs, step(p) PROVE MoreTables'
    <2>1. UNCHANGED <<feedbag, contactsInit, invisible, txn>>
      BY <1>2 DEF step, readVisibility, lookup, tell, readRecipients, relay, stored
    <2>2. view' = view \/ \E msgs : view' = relayed(msgs)
      BY <1>2 DEF step, readVisibility, lookup, tell, readRecipients, relay
    <2>3. view' = [u \in Users |-> view'[u]]
      <3>1. ASSUME NEW msgs, view' = relayed(msgs) PROVE view' = [u \in Users |-> view'[u]]
        BY <3>1 DEF relayed
      <3> QED BY <2>2, <3>1 DEF MoreTables
    <2> QED BY <1>1, <2>1, <2>3 DEF MoreTables
  <1>3. ASSUME NEW u \in Users,
               SignOn(u) \/ ClientOnline(u) \/ Receive(u) \/ Close(u) \/ Signout(u)
        PROVE  MoreTables'
    <2>1. feedbag' = feedbag
      BY <1>3 DEF SignOn, ClientOnline, Receive, Close, Signout, stored
    <2>2. /\ contactsInit' = contactsInit \/ contactsInit' = [contactsInit EXCEPT ![u] = FALSE]
          /\ invisible' = invisible \/ invisible' = [invisible EXCEPT ![u] = FALSE]
          /\ txn' = txn \/ txn' = [txn EXCEPT ![u] = NoTxn]
          /\ view' = view \/ view' = [view EXCEPT ![u] = {}]
      BY <1>3 DEF SignOn, ClientOnline, Receive, Close, Signout
    <2> QED BY <1>1, <2>1, <2>2 DEF MoreTables
  <1>4. ASSUME NEW u \in Users, AddBuddies(u) \/ DelBuddies(u) \/ storeEntries(u) \/ SetUserInfoFields(u)
                                \/ IdleNotification(u) \/ Use(u)
        PROVE  MoreTables'
    <2>1. feedbag' = feedbag /\ txn' = txn
      BY <1>4 DEF AddBuddies, DelBuddies, storeEntries, SetUserInfoFields, IdleNotification, Use, stored
    <2>2. /\ contactsInit' = contactsInit \/ contactsInit' = [contactsInit EXCEPT ![u] = TRUE]
          /\ invisible' = invisible \/ invisible' = [invisible EXCEPT ![u] = arg(u)]
          /\ view' = view \/ view' = [view EXCEPT ![u] = @ \ arg(u)]
      BY <1>4 DEF AddBuddies, DelBuddies, storeEntries, SetUserInfoFields, IdleNotification, Use, forget
    <2> QED BY <1>1, <2>1, <2>2 DEF MoreTables
  <1>5. ASSUME NEW u \in Users, AddDenyListEntries(u) \/ AddPermListEntries(u)
                                \/ DelDenyListEntries(u) \/ DelPermListEntries(u)
        PROVE  MoreTables'
    <2>1. UNCHANGED <<feedbag, contactsInit, invisible, txn, view>>
      BY <1>5 DEF AddDenyListEntries, AddPermListEntries, DelDenyListEntries, DelPermListEntries,
                  addEntries, delEntries
    <2> QED BY <1>1, <2>1 DEF MoreTables
  <1>6. ASSUME NEW u \in Users, NEW filter, notify(u, filter), MoreTables
        PROVE  txn' = [w \in Users |-> txn'[w]]
    <2>1. txn' = txn \/ txn' = [txn EXCEPT ![u].send = TRUE, ![u].names = @ \cup filter]
      BY <1>6 DEF notify
    <2> QED BY <1>6, <2>1 DEF MoreTables
  <1>7. ASSUME NEW u \in Users, UpsertItem(u) PROVE MoreTables'
    <2>1. /\ \E i : feedbag' = [feedbag EXCEPT ![u] = (IF i.class = "pdinfo" THEN @ \ PdInfos ELSE @) \cup {i}]
          /\ notify(u, namesIn(arg(u))) \/ txn' = txn
          /\ UNCHANGED <<contactsInit, invisible, view>>
      BY <1>7 DEF UpsertItem, FeedbagUpsert
    <2>2. txn' = [w \in Users |-> txn'[w]]
      BY <1>6, <2>1 DEF MoreTables
    <2> QED BY <1>1, <2>1, <2>2 DEF MoreTables
  <1>8. ASSUME NEW u \in Users, DeleteItem(u) PROVE MoreTables'
    <2>1. /\ \E i : feedbag' = [feedbag EXCEPT ![u] = @ \ {i}]
          /\ notify(u, namesIn(arg(u)))
          /\ \E names : view' = [view EXCEPT ![u] = @ \ names]
          /\ UNCHANGED <<contactsInit, invisible>>
      BY <1>8 DEF DeleteItem, FeedbagDelete, forget
    <2>2. txn' = [w \in Users |-> txn'[w]]
      BY <1>6, <2>1
    <2> QED BY <1>1, <2>1, <2>2 DEF MoreTables
  <1>9. ASSUME NEW u \in Users, StartCluster(u) \/ EndCluster(u) PROVE MoreTables'
    <2>1. /\ \E t : txn' = [txn EXCEPT ![u] = t]
          /\ UNCHANGED <<feedbag, contactsInit, invisible, view>>
      BY <1>9 DEF StartCluster, EndCluster, stored
    <2> QED BY <1>1, <2>1 DEF MoreTables
  <1>10. Restart => MoreTables'
    BY <1>1 DEF Restart, MoreTables
  <1>11. UNCHANGED vars => MoreTables'
    BY DEF vars, MoreTables
  <1> QED BY <1>2, <1>3, <1>4, <1>5, <1>7, <1>8, <1>9, <1>10, <1>11 DEF Next

LEMMA HandlesNews ==
  ASSUME Announcing, NoNesting, RegistryInv, SeenInv, NEW o \in Users, Handles(o)
  PROVE  NewsInv' /\ PartsInv'
  <1>1. CASE AddDenyListEntries(o) \/ AddPermListEntries(o)
    BY <1>1, AddEntriesNews
       DEF AddDenyListEntries, AddPermListEntries, PermitAll, DenyAll, PermitSome, DenySome
  <1>2. CASE DelDenyListEntries(o) \/ DelPermListEntries(o)
    BY <1>2, DelEntriesNews DEF DelDenyListEntries, DelPermListEntries
  <1> QED BY <1>1, <1>2, AddBuddiesNews, DelBuddiesNews, StoreEntriesNews, SetUserInfoNews, IdleNews,
             UseNews, UpsertNews, DeleteNews, StartClusterNews, EndClusterNews DEF Handles

LEMMA SeenStep ==
  Announcing /\ NoNesting /\ RegistryInv /\ SeenInv /\ [Next]_vars => SeenInv'
  <1> SUFFICES ASSUME Announcing, NoNesting, RegistryInv, SeenInv, [Next]_vars PROVE SeenInv'
    OBVIOUS
  <1>1. MoreTables'
    BY MoreTablesStep DEF SeenInv
  <1>2. CASE \E p \in Procs : step(p)
    BY <1>1, <1>2, RelaysNews DEF SeenInv
  <1>3. ASSUME NEW u \in Users,
               SignOn(u) \/ ClientOnline(u) \/ Receive(u) \/ Close(u) \/ Signout(u) \/ Handles(u)
        PROVE  NewsInv' /\ PartsInv'
    BY <1>3, SignOnNews, ClientOnlineNews, ReceiveNews, CloseNews, SignoutNews, HandlesNews
  <1>4. CASE Restart
    BY <1>1, <1>4, RestartNews DEF SeenInv
  <1>5. CASE UNCHANGED vars
    BY <1>5, SeenStays
  <1> QED BY <1>1, <1>2, <1>3, <1>4, <1>5 DEF Next, Handles, SeenInv

\* When nothing is under way, a client whose list is ready shows every buddy that is online with
\* its own list ready, visible, and blocked by neither side, however the requests, broadcasts and
\* teardowns of any number of users have overlapped: if a list that is ready only after its client
\* is online is a feedbag, a mode is not announced together with other changes unless there is
\* nobody else to tell, and no cluster is started inside one that has something to announce, which
\* then never is (BroadcastVisibility, AllRelationships; BeginNotifyTxn, state/session.go:1290).
THEOREM NobodyMissed == ASSUME Announcing PROVE Spec /\ []NoNesting => []BuddiesSeen
  <1>1. SeenInv => BuddiesSeen
    <2> SUFFICES ASSUME SeenInv, Quiet, NEW u \in Users, NEW w \in Users, u # w,
                        live(u), contactsInit[u], live(w), contactsInit[w],
                        "buddy" \in FlagsOf(u, w), Visible(u, w)
                 PROVE  w \in view[u]
      BY DEF BuddiesSeen
    <2>1. News(u, w) /\ Wants(u, w)
      BY DEF SeenInv, NewsInv, Wants
    <2>2. job[<<u, "conn">>] = Idle /\ job[<<w, "conn">>] = Idle
      BY DEF Quiet, Procs
    <2>3. ~Pending(u, w) /\ ~Pending(w, u)
      BY DEF Quiet, inCluster, live, Pending
    <2>4. ~WillSee(u, Idle, w) /\ ~WillShow(w, Idle, u)
      BY <2>3, IdleIsIdle DEF WillSee, WillShow, WillRead
    <2> QED BY <2>1, <2>2, <2>4 DEF News, Coming
  <1>2. NoNesting /\ RegistryInv /\ SeenInv /\ [Next]_vars => (RegistryInv /\ SeenInv)'
    BY RegistryStep, SeenStep
  <1> QED BY InitRegistry, InitSeen, <1>1, <1>2, PTL DEF Spec
=============================================================================
