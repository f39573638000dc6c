--------------------------- MODULE LegacyPresence ---------------------------
(***************************************************************************)
(* Who sees whom online through the ICQ gateway (server/icq_legacy).  Each  *)
(* user has a client of version 1 to 5; every version has a handler of its  *)
(* own, and all of them share the session table, the service and the OSCAR  *)
(* side: a legacy session owns an OSCAR instance, whose arrivals and        *)
(* departures a pump turns into packets (legacy_message_bridge.go).  So a   *)
(* client is told of a contact twice: by the contact's handler, directly,   *)
(* and through the pump, some time later.                                   *)
(*                                                                         *)
(* A handler is a sequence of steps, held in job: what it does to its own   *)
(* session, then the call of the service, and for a logoff the removal of   *)
(* the session.  Handlers of different users, the cleanup routine and the   *)
(* pumps interleave between the steps; one client's packets are handled one *)
(* at a time (LegacySessions drops this).  All passwords are right.         *)
(***************************************************************************)
EXTENDS Integers, Sequences, FiniteSets, SequencesExt

CONSTANTS
  Users,
  Versions,     \* the protocol versions a user's client may have
  Statuses,     \* what clients ask for
  AuthRequired, \* users who must authorize whoever adds them
  Absent,
  Offline,      \* a client shows the contact offline
  Relists,      \* a client may send its list again in the same session
  MaxLogins,    \* bound: logins
  MaxLists,     \* bound: contact lists sent
  MaxChanges,   \* bound: status changes, list changes and additions
  MaxInFlight   \* bound: handlers under way at once

Invisible == 256   \* ICQLegacyStatusInvisible; the status itself is the byte below

\* status is what the client asked for, oscar what the OSCAR side has; known: whom the pump has
\* announced.
Sessions ==
  [active : BOOLEAN, status : Nat, oscar : Nat, contacts : SUBSET Users, visible : SUBSET Users,
   invisible : SUBSET Users, known : SUBSET Users]

ASSUME LegacyPresenceAssumption ==
  /\ Versions \in [Users -> SUBSET (1..5)] /\ Statuses \subseteq 0..(2 * Invisible - 1)
  /\ AuthRequired \subseteq Users
  /\ IsFiniteSet(Users) /\ Absent \notin Sessions /\ Offline \notin Nat

VARIABLES
  ver,       \* the version of a user's client
  sess,      \* LegacySessionManager.sessions
  modeRow,   \* users with a row in buddyListMode
  rows,      \* <<me, them>> of clientSideBuddyList
  queue,     \* messages of the OSCAR instance that its pump has not read
  shows,     \* what a client shows of each user
  job,       \* the steps a user's handler has still to take
  raced,     \* history: <<viewer, contact>> looked up while a request of the contact's was under way
  unannounced,  \* history: users whose session was replaced, or who set their state past the
             \* OSCAR side, with no departure announced since
  logins, lists, changes

tables == <<modeRow, rows>>
history == <<raced, unannounced>>
bounds == <<logins, lists, changes>>
presenceVars == <<ver, sess, tables, queue, shows, job, history, bounds>>

PresenceInit ==
  /\ ver \in [Users -> 1..5] /\ \A u \in Users : ver[u] \in Versions[u]
  /\ sess = [u \in Users |-> Absent]
  /\ modeRow = {} /\ rows = {}
  /\ queue = [u \in Users |-> <<>>]
  /\ shows = [u \in Users |-> [c \in Users |-> Offline]]
  /\ job = [u \in Users |-> <<>>]
  /\ raced = {} /\ unannounced = {}
  /\ logins = 0 /\ lists = 0 /\ changes = 0

-----------------------------------------------------------------------------
(* Statuses.                                                               *)

isInvisible(s) == s >= Invisible
base(s) == s % Invisible
withFlag(s, b) == IF isInvisible(s) THEN b + Invisible ELSE b

\* OSCAR's bits: away 1, do not disturb 2, out 4, busy 16, chat 32.
mapLegacyStatusToOSCAR(s) ==
  withFlag(s, CASE base(s) \in {0, 1, 32} -> base(s)
                [] base(s) \in {2, 19} -> 19
                [] base(s) \in {4, 5} -> 5
                [] base(s) \in {16, 17} -> 17
                [] OTHER -> 0)

\* The same function is written in the bridge and in the service.
oscarStatusToLegacy(s) ==
  withFlag(s, CASE base(s) \in {0, 1, 2, 4, 16, 32} -> base(s)
                [] base(s) = 5 -> 4
                [] base(s) = 17 -> 16
                [] base(s) = 19 -> 2
                [] OTHER -> 0)

mapOSCARStatusToLegacy(s) == oscarStatusToLegacy(s)

\* Clients of versions 1 and 2 know online, away and occupied (17).
downgradeStatusForV2(s) ==
  withFlag(s, CASE base(s) \in {2, 16, 19} -> 17
                [] base(s) \in {4, 5} -> 1
                [] base(s) = 32 -> 0
                [] OTHER -> base(s))

-----------------------------------------------------------------------------
(* Packets about a contact, and what a client makes of them: a contact that *)
(* is shown offline comes online by an online packet only (handleBuddyArrived *)
(* chooses between the two for that reason).  A client shows its contacts.  *)

About(kind, to, about, s) == [kind |-> kind, to |-> to, about |-> about, status |-> s]

sendUserOnlineV2(to, about, s) == About("online", to, about, s)
sendStatusUpdateV2(to, about, s) == About("status", to, about, s)
sendUserOfflineV2(to, about) == About("offline", to, about, 0)
sendUserOnlineV3(to, about, s) == About("online", to, about, s)
sendUserStatusV3(to, about, s) == About("status", to, about, s)
sendUserOfflineV3(to, about) == About("offline", to, about, 0)
sendUserOnlineV4(to, about, s) == About("online", to, about, s)
sendUserStatusV4(to, about, s) == About("status", to, about, s)
sendUserOfflineV4(to, about) == About("offline", to, about, 0)
sendV5UserOnline(to, about, s) == About("online", to, about, s)
sendV5UserStatus(to, about, s) == About("status", to, about, s)
sendV5UserOffline(to, about) == About("offline", to, about, 0)

\* ProtocolDispatcher: the packet in the version of the receiver's session.
SendUserOnline(to, about, s) ==
  CASE ver[to] \in {1, 2} -> sendUserOnlineV2(to, about, downgradeStatusForV2(s))
    [] ver[to] = 3 -> sendUserOnlineV3(to, about, s)
    [] ver[to] = 4 -> sendUserOnlineV4(to, about, s)
    [] ver[to] = 5 -> sendV5UserOnline(to, about, s)

SendStatusChange(to, about, s) ==
  CASE ver[to] \in {1, 2} -> sendStatusUpdateV2(to, about, downgradeStatusForV2(s))
    [] ver[to] = 3 -> sendUserStatusV3(to, about, s)
    [] ver[to] = 4 -> sendUserStatusV4(to, about, s)
    [] ver[to] = 5 -> sendV5UserStatus(to, about, s)

SendUserOffline(to, about) ==
  CASE ver[to] \in {1, 2} -> sendUserOfflineV2(to, about)
    [] ver[to] = 3 -> sendUserOfflineV3(to, about)
    [] ver[to] = 4 -> sendUserOfflineV4(to, about)
    [] ver[to] = 5 -> sendV5UserOffline(to, about)

\* A set of packets has at most one for a receiver about a contact.
receive(packets) ==
  [v \in Users |-> [c \in Users |->
     LET news == {p \in packets : p.to = v /\ p.about = c}
     IN  IF news = {} \/ sess[v] = Absent \/ c \notin sess[v].contacts THEN shows[v][c]
         ELSE LET p == CHOOSE q \in news : TRUE
              IN  IF p.kind = "offline" THEN Offline
                  ELSE IF p.kind = "status" /\ shows[v][c] = Offline THEN Offline
                  ELSE p.status]]

nothingShown == [c \in Users |-> Offline]

-----------------------------------------------------------------------------
(* The session table.                                                      *)

newLegacySession ==
  [active |-> FALSE, status |-> 0, oscar |-> 0, contacts |-> {}, visible |-> {}, invisible |-> {}, known |-> {}]

active(u) == sess[u] # Absent /\ sess[u].active

IsContact(u, c) == sess[u] # Absent /\ c \in sess[u].contacts

set(u, s) == sess' = [sess EXCEPT ![u] = s]
start(u, steps) == job' = [job EXCEPT ![u] = steps]
step(u, kind) == job[u] # <<>> /\ Head(job[u])[1] = kind /\ job' = [job EXCEPT ![u] = Tail(@)]
argument(u) == Head(job[u])[2]

\* The new session's instance has a queue of its own, and its client starts afresh.
install(u, session) ==
  /\ set(u, session)
  /\ queue' = [queue EXCEPT ![u] = <<>>]
  /\ shows' = [shows EXCEPT ![u] = nothingShown]
  /\ unannounced' = IF active(u) THEN unannounced \cup {u} ELSE unannounced

CreateSession(u) == install(u, [newLegacySession EXCEPT !.active = TRUE])
CreatePendingSession(u) == install(u, newLegacySession)
AttachOSCARSession(u) == install(u, [sess[u] EXCEPT !.active = TRUE])

isVisibleTo(u, viewer) ==
  IF isInvisible(sess[u].status) THEN viewer \in sess[u].visible ELSE viewer \notin sess[u].invisible

NotifyContactsOfStatus(u) ==
  {v \in Users \ {u} : IsContact(v, u) /\ isVisibleTo(u, v)}

BroadcastToContacts(u) == {c \in sess[u].contacts : sess[c] # Absent}

-----------------------------------------------------------------------------
(* The service and the OSCAR side.  RegisterBuddyList gives a user a privacy *)
(* mode that blocks nobody, so that a relationship is a row of the lists     *)
(* between two users who both have a mode.                                   *)

RequiresAuthorization(them) == them \in AuthRequired

Arrived(u, s) == [kind |-> "arrived", about |-> u, status |-> s]
Departed(u) == [kind |-> "departed", about |-> u, status |-> 0]

listedBy(u) ==
  {v \in Users \ {u} : <<v, u>> \in rows /\ v \in modeRow /\ u \in modeRow /\ active(v)}

relay(to, message) == queue' = [v \in Users |-> IF v \in to THEN Append(queue[v], message) ELSE queue[v]]

BroadcastBuddyArrived(u, s) == relay(IF isInvisible(s) THEN {} ELSE listedBy(u), Arrived(u, s))
BroadcastBuddyDeparted(u) == relay(listedBy(u), Departed(u))

\* AddBuddies for the user's instance: a row for each contact that may be added, and
\* the two are told of each other.  The contact must list the user for that.
AddBuddies(u, cs) ==
  LET added == {c \in cs : ~RequiresAuthorization(c)}
      met == {c \in added : active(c) /\ {u, c} \subseteq modeRow}
      theirs == {c \in met : <<c, u>> \in rows /\ ~isInvisible(sess[u].oscar)}
      mine == SetToSeq({c \in met : ~isInvisible(sess[c].oscar)})
  IN  queue' = [v \in Users |->
        IF v = u THEN queue[u] \o [i \in DOMAIN mine |-> Arrived(mine[i], sess[mine[i]].oscar)]
        ELSE IF v \in theirs THEN Append(queue[v], Arrived(u, sess[u].oscar)) ELSE queue[v]]

\* ProcessContactList adds the user to the contacts' lists as well.
ownRows(u, cs) == {<<u, c>> : c \in {d \in cs : ~RequiresAuthorization(d)}}
reverseRows(u, cs) ==
  {<<c, u>> : c \in {d \in cs : ~RequiresAuthorization(d) /\ ~RequiresAuthorization(u)}}

\* Mutant: a contact who is invisible is reported with the status he had before.
contactStatusPlain(u, c) == IF sess[c] = Absent THEN Offline ELSE base(sess[c].status)

\* What ProcessContactList reports of a contact.  An invisible one is looked for among the
\* OSCAR sessions next, and his legacy client has one.
contactStatus(u, c) ==
  IF sess[c] = Absent THEN Offline
  ELSE IF ~isInvisible(sess[c].status) \/ u \in sess[c].visible THEN sess[c].status
  ELSE IF sess[c].active THEN mapOSCARStatusToLegacy(sess[c].oscar)
  ELSE Offline

onlineContacts(u) ==
  {SendUserOnline(u, c, contactStatus(u, c)) : c \in {d \in sess[u].contacts : contactStatus(u, d) # Offline}}

\* The lookups of u, made while a request of the contact's is under way or his login has
\* only begun: what they say is soon out of date.
entering(c) == sess[c] # Absent /\ ~sess[c].active
lookup(u, cs) == raced' = raced \cup {<<u, c>> : c \in {d \in cs : job[d] # <<>> \/ entering(d)}}

\* ProcessUserAdd and the handlers look the contact up without regard to lists.
ProcessUserAdd(u, c) ==
  /\ rows' = rows \cup ownRows(u, {c})
  /\ AddBuddies(u, {c})

setStatus(u, s, oscarStatus) == set(u, [sess[u] EXCEPT !.status = s, !.oscar = oscarStatus])

\* The session's status is set already; the OSCAR side follows.
ProcessStatusChange(u) ==
  LET s == mapLegacyStatusToOSCAR(sess[u].status)
  IN  /\ setStatus(u, sess[u].status, s)
      /\ IF isInvisible(s) THEN BroadcastBuddyDeparted(u) /\ unannounced' = unannounced \ {u}
                           ELSE BroadcastBuddyArrived(u, s) /\ UNCHANGED unannounced

\* Used by the first version's login: no buddy list is registered.
NotifyStatusChange(u, s) ==
  LET o == mapLegacyStatusToOSCAR(s)
  IN  /\ setStatus(u, s, o)
      /\ IF isInvisible(s) THEN BroadcastBuddyDeparted(u) /\ unannounced' = unannounced \ {u}
                           ELSE BroadcastBuddyArrived(u, o) /\ UNCHANGED unannounced
      /\ UNCHANGED tables

\* Mutant: the list is registered after the arrival was announced.
NotifyUserOnlineLate(u, s) ==
  LET o == mapLegacyStatusToOSCAR(s)
  IN  /\ modeRow' = modeRow \cup {u}
      /\ setStatus(u, s, o)
      /\ BroadcastBuddyArrived(u, o)
      /\ UNCHANGED <<rows, unannounced>>

NotifyUserOnline(u, s) ==
  LET o == mapLegacyStatusToOSCAR(s)
      told == {v \in Users \ {u} : <<v, u>> \in rows /\ v \in modeRow /\ active(v)}
  IN  /\ modeRow' = modeRow \cup {u}
      /\ setStatus(u, s, o)
      /\ relay(IF isInvisible(s) THEN {} ELSE told, Arrived(u, o))
      /\ UNCHANGED <<rows, unannounced>>

NotifyUserOffline(u) ==
  /\ BroadcastBuddyDeparted(u)
  /\ modeRow' = modeRow \ {u}                \* UnregisterBuddyList
  /\ rows' = {r \in rows : r[1] # u}
  /\ unannounced' = unannounced \ {u}

-----------------------------------------------------------------------------
(* Handlers.  Each ends in the steps it leaves in job.                     *)

inFlight == Cardinality({u \in Users : job[u] # <<>>})
idle(u) == job[u] = <<>> /\ inFlight < MaxInFlight
serves(u, vs) == ver[u] \in vs /\ active(u) /\ idle(u)

login(u, v) == ver[u] = v /\ idle(u) /\ logins < MaxLogins /\ logins' = logins + 1
change == changes < MaxChanges /\ changes' = changes + 1

\* AuthenticateUser ended the user's former session; nobody was told.
handleV1Login(u) ==
  /\ login(u, 1)
  /\ CreateSession(u)
  /\ \E s \in Statuses : start(u, <<<<"announce", s>>>>)
  /\ UNCHANGED <<ver, tables, raced, lists, changes>>

handleLoginV2(u) ==
  /\ login(u, 2)
  /\ CreateSession(u)
  /\ \E s \in Statuses : start(u, <<<<"announce", s>>>>)
  /\ UNCHANGED <<ver, tables, raced, lists, changes>>

\* A V3 client logs in as online.
handleLoginV3(u) ==
  /\ login(u, 3)
  /\ CreateSession(u)
  /\ start(u, <<<<"announce", 0>>>>)
  /\ UNCHANGED <<ver, tables, raced, lists, changes>>

\* A V4 client asks for the depslist first, which makes a session without an instance.
handleGetDepsV4(u) ==
  /\ ver[u] = 4 /\ idle(u) /\ change
  /\ CreatePendingSession(u)
  /\ UNCHANGED <<ver, tables, raced, job, logins, lists>>

handleLoginV4(u) ==
  /\ login(u, 4)
  /\ IF sess[u] # Absent /\ ~active(u) THEN AttachOSCARSession(u) ELSE CreateSession(u)
  /\ \E s \in Statuses : start(u, <<<<"announce", s>>>>)
  /\ UNCHANGED <<ver, tables, raced, lists, changes>>

handleLoginV5(u) ==
  /\ login(u, 5)
  /\ CreateSession(u)
  /\ \E s \in Statuses : start(u, <<<<"announce", s>>>>)
  /\ UNCHANGED <<ver, tables, raced, lists, changes>>

\* The session exists and the handler sets its status and announces it.  A V4 client's
\* contacts are told directly as well.
announce(u) ==
  LET s == argument(u)
      direct == {SendUserOnline(v, u, s) :
                   v \in {w \in NotifyContactsOfStatus(u) : ~isInvisible(s) /\ ver[u] = 4}}
  IN  /\ step(u, "announce")
      /\ IF ver[u] = 1 THEN NotifyStatusChange(u, s) ELSE NotifyUserOnline(u, s)
      /\ shows' = receive(direct)
      /\ UNCHANGED <<ver, raced, bounds>>

\* The list replaces the session's; rows are added before anybody is looked up.
contactList(u, cs) ==
  /\ lists < MaxLists /\ lists' = lists + 1
  /\ Relists \/ sess[u].contacts = {}
  /\ set(u, [sess[u] EXCEPT !.contacts = cs])
  /\ rows' = rows \cup ownRows(u, cs) \cup reverseRows(u, cs)
  /\ AddBuddies(u, cs)
  /\ shows' = [shows EXCEPT ![u] = [c \in Users |-> IF c \in cs THEN @[c] ELSE Offline]]
  /\ start(u, <<<<"contacts", Absent>>>>)
  /\ UNCHANGED <<ver, modeRow, history, logins, changes>>

handleContactListV2(u, cs) == serves(u, {1, 2}) /\ contactList(u, cs)
handleContactListV3(u, cs) == serves(u, {3}) /\ contactList(u, cs)
handleContactListV4(u, cs) == serves(u, {4}) /\ contactList(u, cs)
handleContactListV5(u, cs) == serves(u, {5}) /\ contactList(u, cs)

\* From version 3 on, those who list the user are told of him.
notifyContactsUserOnline(u) ==
  {SendUserOnline(v, u, sess[u].status) : v \in {w \in NotifyContactsOfStatus(u) : ver[u] > 2}}

contacts(u) ==
  /\ step(u, "contacts")
  /\ shows' = receive(onlineContacts(u) \cup notifyContactsUserOnline(u))
  /\ lookup(u, sess[u].contacts)
  /\ UNCHANGED <<ver, sess, tables, queue, unannounced, bounds>>

\* The contact is appended to the list that was read.
userAdd(u, c) ==
  /\ change
  /\ set(u, [sess[u] EXCEPT !.contacts = @ \cup {c}])
  /\ start(u, <<<<"added", c>>>>)
  /\ UNCHANGED <<ver, tables, queue, shows, history, logins, lists>>

handleUserAddV2(u, c) == serves(u, {1, 2}) /\ userAdd(u, c)
handleUserAddV3(u, c) == serves(u, {3}) /\ userAdd(u, c)
handleUserAddV4(u, c) == serves(u, {4}) /\ userAdd(u, c)
handleUserAddV5(u, c) == serves(u, {5}) /\ userAdd(u, c)

\* A contact with a session and the user are told of each other, whatever their statuses.
added(u) ==
  LET c == argument(u)
  IN  /\ step(u, "added")
      /\ ProcessUserAdd(u, c)
      /\ shows' = IF sess[c] = Absent THEN shows
                  ELSE receive({SendUserOnline(u, c, sess[c].status), SendUserOnline(c, u, sess[u].status)})
      /\ lookup(u, {c})
      /\ UNCHANGED <<ver, sess, modeRow, unannounced, bounds>>

setStatusFirst(u, s) ==
  /\ change
  /\ set(u, [sess[u] EXCEPT !.status = s])
  /\ start(u, <<<<"status", s>>>>)
  /\ UNCHANGED <<ver, tables, queue, shows, history, logins, lists>>

handleSetStatusV2(u, s) == serves(u, {1, 2}) /\ setStatusFirst(u, s)
handleSetStatusV3(u, s) == serves(u, {3}) /\ setStatusFirst(u, s)
handleSetStatusV4(u, s) == serves(u, {4}) /\ setStatusFirst(u, s)
handleSetStatusV5(u, s) == serves(u, {5}) /\ setStatusFirst(u, s)

\* ProcessStatusChange, and the contacts it names are sent the status.
broadcastStatusChange(u) ==
  {SendStatusChange(v, u, sess[u].status) : v \in NotifyContactsOfStatus(u)}

status(u) ==
  /\ step(u, "status")
  /\ ProcessStatusChange(u)
  /\ shows' = receive(broadcastStatusChange(u))
  /\ UNCHANGED <<ver, tables, raced, bounds>>

\* V3's second way to set the status: the OSCAR side is not told.
handleSetStateV3(u, s) ==
  /\ serves(u, {3}) /\ change
  /\ set(u, [sess[u] EXCEPT !.status = s])
  /\ unannounced' = unannounced \cup {u}
  /\ LET told == {v \in Users \ {u} : IsContact(v, u) /\
                     IF isInvisible(s) THEN v \in sess[u].visible ELSE v \notin sess[u].invisible}
     IN  shows' = receive({SendStatusChange(v, u, s) : v \in told})
  /\ UNCHANGED <<ver, tables, queue, job, raced, logins, lists>>

\* Nobody is told of a change of these lists.
visibleList(u, cs) ==
  /\ change /\ set(u, [sess[u] EXCEPT !.visible = cs])
  /\ UNCHANGED <<ver, tables, queue, shows, job, history, logins, lists>>

invisibleList(u, cs) ==
  /\ change /\ set(u, [sess[u] EXCEPT !.invisible = cs])
  /\ UNCHANGED <<ver, tables, queue, shows, job, history, logins, lists>>

handleVisibleListV2(u, cs) == serves(u, {1, 2}) /\ visibleList(u, cs)
handleInvisibleListV2(u, cs) == serves(u, {1, 2}) /\ invisibleList(u, cs)
handleVisibleListV5(u, cs) == serves(u, {5}) /\ visibleList(u, cs)
handleInvisibleListV5(u, cs) == serves(u, {5}) /\ invisibleList(u, cs)

\* Versions 3 to 5 tell those who list the user and may see him.
logoff(u, packets) ==
  /\ shows' = receive(packets)
  /\ start(u, <<<<"farewell", Absent>>, <<"remove", Absent>>>>)
  /\ UNCHANGED <<ver, sess, tables, queue, history, bounds>>

notifyContactsUserOffline(u) == {SendUserOffline(v, u) : v \in NotifyContactsOfStatus(u)}

\* Version 2 tells the user's own contacts, in its own format.
handleLogoffV2(u) ==
  serves(u, {1, 2}) /\ logoff(u, {sendUserOfflineV2(v, u) : v \in {w \in BroadcastToContacts(u) : ver[w] < 3}})
handleLogoffV3(u) == serves(u, {3}) /\ logoff(u, notifyContactsUserOffline(u))
handleLogoffV4(u) == serves(u, {4}) /\ logoff(u, notifyContactsUserOffline(u))
handleLogoffV5(u) == serves(u, {5}) /\ logoff(u, notifyContactsUserOffline(u))

\* A client that is silent too long: CleanupExpired calls back and removes the session.
expire(u) ==
  /\ sess[u] # Absent /\ idle(u)
  /\ logoff(u, {SendUserOffline(v, u) : v \in BroadcastToContacts(u)})

farewell(u) ==
  /\ step(u, "farewell")
  /\ NotifyUserOffline(u)
  /\ raced' = raced \cup {<<v, u>> : v \in {w \in Users \ {u} : job[w] # <<>>}}
  /\ UNCHANGED <<ver, sess, shows, bounds>>

RemoveSession(u) ==
  /\ step(u, "remove")
  /\ set(u, Absent)
  /\ queue' = [queue EXCEPT ![u] = <<>>]
  /\ shows' = [shows EXCEPT ![u] = nothingShown]
  /\ UNCHANGED <<ver, tables, history, bounds>>

-----------------------------------------------------------------------------
(* The pump: one message of the instance's queue.                          *)

\* Mutant: a departure is passed on only if the pump had announced the contact.
handleBuddyDepartedKnown(u, c) ==
  /\ set(u, [sess[u] EXCEPT !.known = @ \ {c}])
  /\ shows' = receive({SendUserOffline(u, d) : d \in {c} \cap sess[u].known})

handleBuddyArrived(u, c, s) ==
  LET send(packet) == shows' = receive({packet})
  IN  /\ set(u, [sess[u] EXCEPT !.known = @ \cup {c}])
      /\ IF c \in sess[u].known THEN send(SendStatusChange(u, c, oscarStatusToLegacy(s)))
                                ELSE send(SendUserOnline(u, c, oscarStatusToLegacy(s)))

handleBuddyDeparted(u, c) ==
  /\ set(u, [sess[u] EXCEPT !.known = @ \ {c}])
  /\ shows' = receive({SendUserOffline(u, c)})

pump(u) ==
  LET m == Head(queue[u])
  IN  /\ queue[u] # <<>>
      /\ queue' = [queue EXCEPT ![u] = Tail(@)]
      /\ IF ~IsContact(u, m.about) THEN UNCHANGED <<sess, shows>>
         ELSE IF m.kind = "arrived" THEN handleBuddyArrived(u, m.about, m.status)
         ELSE handleBuddyDeparted(u, m.about)
      /\ UNCHANGED <<ver, tables, job, history, bounds>>

-----------------------------------------------------------------------------
Handling(u) ==
  \/ handleV1Login(u) \/ handleLoginV2(u) \/ handleLoginV3(u)
  \/ handleGetDepsV4(u) \/ handleLoginV4(u) \/ handleLoginV5(u)
  \/ announce(u) \/ contacts(u) \/ added(u) \/ status(u) \/ farewell(u) \/ RemoveSession(u)
  \/ \E cs \in SUBSET (Users \ {u}) :
       \/ handleContactListV2(u, cs) \/ handleContactListV3(u, cs)
       \/ handleContactListV4(u, cs) \/ handleContactListV5(u, cs)
       \/ handleVisibleListV2(u, cs) \/ handleInvisibleListV2(u, cs)
       \/ handleVisibleListV5(u, cs) \/ handleInvisibleListV5(u, cs)
  \/ \E c \in Users \ {u} :
       \/ handleUserAddV2(u, c) \/ handleUserAddV3(u, c)
       \/ handleUserAddV4(u, c) \/ handleUserAddV5(u, c)
  \/ \E s \in Statuses :
       \/ handleSetStatusV2(u, s) \/ handleSetStatusV3(u, s) \/ handleSetStatusV4(u, s)
       \/ handleSetStatusV5(u, s) \/ handleSetStateV3(u, s)
  \/ handleLogoffV2(u) \/ handleLogoffV3(u) \/ handleLogoffV4(u) \/ handleLogoffV5(u)
  \/ expire(u) \/ pump(u)

PresenceNext == \E u \in Users : Handling(u)

PresenceSpec == PresenceInit /\ [][PresenceNext]_presenceVars

-----------------------------------------------------------------------------
(* Properties.  They speak of moments when nothing is on its way.          *)

settled == \A u \in Users : job[u] = <<>> /\ queue[u] = <<>>

\* The OSCAR side has the status of the legacy session.
agrees(u) == sess[u].oscar = mapLegacyStatusToOSCAR(sess[u].status)

\* A viewer whose client lists a contact who lets himself be listed.  V1 clients are left
\* out: their login registers no buddy list, so the OSCAR side ignores them.
views(v, c) == v # c /\ IsContact(v, c) /\ c \notin AuthRequired /\ ver[v] # 1 /\ ver[c] # 1

\* No client keeps showing a contact who is gone, by logoff, expiry or a crash, unless it
\* looked him up while he was leaving (handleLogoff, CleanupExpired, handleBuddyDeparted).
NoGhosts ==
  settled => \A v, c \in Users :
    views(v, c) /\ sess[c] = Absent /\ shows[v][c] # Offline => <<v, c>> \in raced

\* A contact who is online and visible is shown, with the status he chose as far as the
\* viewer's version knows it, whoever came first and however the two handlers interleaved.
BuddiesShown ==
  settled => \A v, c \in Users :
    views(v, c) /\ active(v) /\ active(c) /\ agrees(c) /\ ~isInvisible(sess[c].status)
      => /\ shows[v][c] # Offline
         /\ LET norm(s) == IF ver[v] = 2 THEN downgradeStatusForV2(s)
                           ELSE oscarStatusToLegacy(mapLegacyStatusToOSCAR(s))
            IN  norm(shows[v][c]) = norm(sess[c].status)

\* An invisible user is offline to those who are not on his visible list, or at least marked
\* as invisible to those who asked (ProcessContactList and ProcessUserAdd do answer).
InvisibleStaysHidden ==
  settled => \A v, c \in Users :
    views(v, c) /\ active(c) /\ agrees(c) /\ isInvisible(sess[c].status) /\ c \notin unannounced
      => shows[v][c] = Offline \/ isInvisible(shows[v][c]) \/ <<v, c>> \in raced
=============================================================================
