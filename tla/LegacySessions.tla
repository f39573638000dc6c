--------------------------- MODULE LegacySessions ---------------------------
(***************************************************************************)
(* Sign-on and the session tables of the ICQ gateway: LegacySessionManager  *)
(* (server/icq_legacy/session.go), the handlers that change it, and the     *)
(* slot of the OSCAR registry (state/session_manager.go) that each legacy   *)
(* session holds.                                                           *)
(*                                                                         *)
(* Every UDP packet gets a goroutine of its own, so that a login sent again *)
(* by an impatient client runs beside the first.  The two tables are tied   *)
(* both ways: removing a legacy session empties the OSCAR slot, and closing *)
(* an OSCAR session runs a hook that removes the legacy session, by UIN.    *)
(* A login (and a V4 depslist, which makes a pending session) is known by a *)
(* number, which also stands for the OSCAR session and for the legacy       *)
(* session that it makes.  Who is told of it is the matter of               *)
(* LegacyPresence; passwords are right, as a wrong one changes nothing.     *)
(***************************************************************************)
EXTENDS Integers, FiniteSets

CONSTANTS
  Users,
  Addrs,       \* UDP addresses of clients
  AddrsOf,     \* [Users -> SUBSET Addrs]: where a user's clients are
  Versions,    \* [Users -> SUBSET (0..5)]: of the clients; 0 is an OSCAR client
  None,
  StoreErrors, \* RegisterBOSSession may fail after AddSession
  MaxLogins,   \* bound: logins and depslists
  MaxCloses    \* bound: sessions closed from outside

Ids == 1..MaxLogins

ASSUME LegacySessionsAssumption ==
  /\ AddrsOf \in [Users -> SUBSET Addrs] /\ Versions \in [Users -> SUBSET (0..5)]
  /\ StoreErrors \in BOOLEAN /\ MaxLogins \in Nat /\ MaxCloses \in Nat
  /\ None \notin Ids

VARIABLES
  reg,      \* both tables: see Init
  shut,     \* OSCAR sessions that were closed
  hooks,    \* closed sessions whose close hook has still to run, in a goroutine of its own
  lock,     \* the registry's lock of an account, held by a login
  pc,       \* where a login is
  who, from, ver, \* its account, the address it came from until used, the client's version
  found,    \* what AddSession found in the account's slot
  idle,     \* legacy sessions not heard from for SessionTimeout
  leaving,  \* sessions whose logoff is under way
  sweep,    \* sessions CleanupExpired has found expired and not yet removed
  early,    \* history: OSCAR sessions closed before their legacy session was made
  adrift,   \* history: OSCAR sessions whose login ended, or whose session was removed, without them
  closes    \* how often a session was closed from outside

loginVars == <<lock, pc, who, from, ver, found>>
sessionVars == <<reg, shut, hooks, loginVars, idle, leaving, sweep, early, adrift, closes>>

Init ==
  /\ reg = [store    |-> [u \in Users |-> None],  \* the OSCAR registry's slots
            removed  |-> {},                      \* sessions whose removal was signalled
            sessions |-> [u \in Users |-> None],  \* LegacySessionManager.sessions
            index    |-> [a \in Addrs |-> None],  \* LegacySessionManager.addrIndex
            at       |-> [s \in Ids |-> None],    \* LegacySession.Addr
            inst     |-> [s \in Ids |-> None]]    \* LegacySession.Instance
  /\ shut = {} /\ hooks = {}
  /\ lock = [u \in Users |-> None]
  /\ pc = [p \in Ids |-> "none"] /\ who = [p \in Ids |-> None] /\ from = [p \in Ids |-> None]
  /\ ver = [p \in Ids |-> None] /\ found = [p \in Ids |-> None]
  /\ idle = {} /\ leaving = {} /\ sweep = {}
  /\ early = {} /\ adrift = {} /\ closes = 0

-----------------------------------------------------------------------------
(* The tables.  Each operator is what happens under one lock.              *)

\* The OSCAR registry's RemoveSession, of each of ps: only the session that is in the slot
\* leaves it.
freeSlots(r, ps) ==
  LET free == {p \in ps \ {None} : r.store[who[p]] = p}
  IN  [r EXCEPT !.store = [u \in Users |-> IF @[u] \in free THEN None ELSE @[u]],
                !.removed = @ \cup free]

\* Mutant: the OSCAR session keeps its slot.
removeSessionsOnly(r, ss) ==
  [r EXCEPT !.sessions = [u \in Users |-> IF u \in {who[s] : s \in ss} THEN None ELSE @[u]],
            !.index = [a \in Addrs |-> IF a \in {r.at[s] : s \in ss} THEN None ELSE @[a]]]

\* removeSessionLocked, of each of ss: the entry of the UIN goes, and that of the session's
\* address, whatever they hold.
removeSessionsLocked(r, ss) ==
  [freeSlots(r, {r.inst[s] : s \in ss}) EXCEPT
     !.sessions = [u \in Users |-> IF u \in {who[s] : s \in ss} THEN None ELSE @[u]],
     !.index = [a \in Addrs |-> IF a \in {r.at[s] : s \in ss} THEN None ELSE @[a]]]

RemoveSession(r, u) ==
  IF r.sessions[u] = None THEN r ELSE removeSessionsLocked(r, {r.sessions[u]})

install(r, s, i) ==
  [RemoveSession(r, who[s]) EXCEPT
     !.sessions[who[s]] = s, !.index[from[s]] = s, !.at[s] = from[s], !.inst[s] = i]

canAttach(r, p) ==
  LET s == r.sessions[who[p]] IN s # None /\ r.inst[s] \in {None, p}

AttachOSCARSession(r, p) ==
  LET s == r.sessions[who[p]]
  IN [r EXCEPT !.index = [@ EXCEPT ![r.at[s]] = None, ![from[p]] = s],
               !.at[s] = from[p], !.inst[s] = p]

\* Mutant: the new address is not indexed.
UpdateSessionAddrOnly(r, u, a) ==
  LET s == r.sessions[u] IN [r EXCEPT !.index[r.at[s]] = None, !.at[s] = a]

UpdateSessionAddr(r, u, a) ==
  LET s == r.sessions[u]
  IN [r EXCEPT !.index = [@ EXCEPT ![r.at[s]] = None, ![a] = s], !.at[s] = a]

\* Mutant: nothing is hooked to an OSCAR session of the gateway.
closeHookOscarOnly(r, p) == IF ver[p] = 0 THEN freeSlots(r, {p}) ELSE r

\* What a closed OSCAR session's hook does: an OSCAR client's empties its slot, a legacy
\* client's removes the legacy session of that UIN.
closeHook(r, p) == IF ver[p] = 0 THEN freeSlots(r, {p}) ELSE RemoveSession(r, who[p])

\* SetSignonComplete has been called, and CloseSession has not.
signedOn(p) == pc[p] = "online" /\ p \notin shut

-----------------------------------------------------------------------------
(* Logins.                                                                 *)

goto(p, place) == pc' = [pc EXCEPT ![p] = place]

\* A login or depslist packet arrives; logins are numbered in the order they come.
arrive(u, a, v, place) ==
  \E p \in Ids :
    /\ pc[p] = "none" /\ \A q \in 1..(p - 1) : pc[q] # "none"
    /\ v \in Versions[u] /\ a \in IF v = 0 THEN {None} ELSE AddrsOf[u]
    /\ who' = [who EXCEPT ![p] = u] /\ from' = [from EXCEPT ![p] = a]
    /\ ver' = [ver EXCEPT ![p] = v] /\ goto(p, place)
    /\ UNCHANGED <<reg, shut, hooks, lock, found, idle, leaving, sweep, early, adrift, closes>>

handleLogin(u, a, v) == v # 0 /\ arrive(u, a, v, "lock")

\* An OSCAR client of the same account.
oscarSignOn(u) == arrive(u, None, 0, "lock")

handleGetDeps(u, a) == 4 \in Versions[u] /\ arrive(u, a, 4, "pending")

CreatePendingSession(p) ==
  /\ pc[p] = "pending"
  /\ reg' = install(reg, p, None)
  /\ goto(p, "ended") /\ from' = [from EXCEPT ![p] = None]
  /\ UNCHANGED <<shut, hooks, lock, who, ver, found, idle, leaving, sweep, early, adrift, closes>>

\* AddSession: lockUser and findRec.
AddSession(p) ==
  LET active == reg.store[who[p]]
  IN /\ pc[p] = "lock" /\ lock[who[p]] = None
     /\ lock' = [lock EXCEPT ![who[p]] = p]
     /\ found' = [found EXCEPT ![p] = active]
     /\ goto(p, IF active = None THEN "build" ELSE IF active \in shut THEN "wait" ELSE "evict")
     /\ UNCHANGED <<reg, shut, hooks, who, from, ver, idle, leaving, sweep, early, adrift, closes>>

\* CloseSession: whoever closes the instance runs the hook.
evict(p) ==
  /\ pc[p] = "evict"
  /\ goto(p, IF found[p] \in shut THEN "wait" ELSE "hook")
  /\ shut' = shut \cup {found[p]}
  /\ early' = IF pc[found[p]] = "online" THEN early ELSE early \cup {found[p]}
  /\ UNCHANGED <<reg, hooks, lock, who, from, ver, found, idle, leaving, sweep, adrift, closes>>

runHook(p) ==
  /\ pc[p] = "hook"
  /\ reg' = closeHook(reg, found[p])
  /\ goto(p, "wait")
  /\ UNCHANGED <<shut, hooks, lock, who, from, ver, found, idle, leaving, sweep, early, adrift, closes>>

removed(p) ==
  /\ pc[p] = "wait" /\ found[p] \in reg.removed
  /\ goto(p, "build")
  /\ UNCHANGED <<reg, shut, hooks, lock, who, from, ver, found, idle, leaving, sweep, early, adrift, closes>>

\* RegisterBOSSession waits five seconds and no longer.
waitTimeout(p) ==
  /\ pc[p] = "wait"
  /\ lock' = [lock EXCEPT ![who[p]] = None]
  /\ goto(p, "ended") /\ from' = [from EXCEPT ![p] = None]
  /\ UNCHANGED <<reg, shut, hooks, who, ver, found, idle, leaving, sweep, early, adrift, closes>>

newSession(p) ==
  /\ pc[p] = "build"
  /\ reg' = [reg EXCEPT !.store[who[p]] = p]
  /\ lock' = [lock EXCEPT ![who[p]] = None] /\ found' = [found EXCEPT ![p] = None]
  /\ \/ /\ goto(p, CASE ver[p] = 0 -> "online" [] ver[p] = 4 -> "look" [] OTHER -> "create")
        /\ UNCHANGED adrift
     \/ /\ StoreErrors
        /\ goto(p, "ended")
        /\ adrift' = adrift \cup {p}
  /\ UNCHANGED <<shut, hooks, who, from, ver, idle, leaving, sweep, early, closes>>

CreateSession(p) ==
  /\ pc[p] = "create"
  /\ reg' = install(reg, p, p)
  /\ goto(p, "online") /\ from' = [from EXCEPT ![p] = None]
  /\ UNCHANGED <<shut, hooks, lock, who, ver, found, idle, leaving, sweep, early, adrift, closes>>

\* V4: is there a pending session?
lookForPending(p) ==
  /\ pc[p] = "look"
  /\ goto(p, IF reg.sessions[who[p]] = None THEN "create" ELSE "attach")
  /\ UNCHANGED <<reg, shut, hooks, lock, who, from, ver, found, idle, leaving, sweep, early, adrift, closes>>

\* If it is gone by now the client is refused; its OSCAR session stays.
attach(p) ==
  /\ pc[p] = "attach"
  /\ IF canAttach(reg, p)
     THEN /\ reg' = AttachOSCARSession(reg, p)
          /\ goto(p, "online")
          /\ UNCHANGED adrift
     ELSE /\ goto(p, "ended")
          /\ adrift' = adrift \cup {p}
          /\ UNCHANGED reg
  /\ from' = [from EXCEPT ![p] = None]
  /\ UNCHANGED <<shut, hooks, lock, who, ver, found, idle, leaving, sweep, early, closes>>

LoginStep(p) ==
  \/ CreatePendingSession(p) \/ AddSession(p) \/ evict(p) \/ runHook(p) \/ removed(p)
  \/ waitTimeout(p) \/ newSession(p) \/ CreateSession(p) \/ lookForPending(p) \/ attach(p)

-----------------------------------------------------------------------------
(* Other packets, the cleanup routine, and closing from outside.           *)

\* A packet of a known address.
UpdateActivity(a) ==
  /\ reg.index[a] \in idle
  /\ idle' = idle \ {reg.index[a]}
  /\ UNCHANGED <<reg, shut, hooks, loginVars, leaving, sweep, early, adrift, closes>>

\* V4: a ping from a new address.
handlePing(u, a) ==
  /\ reg.index[a] = None /\ reg.sessions[u] # None /\ a \in AddrsOf[u]
  /\ ver[reg.sessions[u]] = 4
  /\ reg' = UpdateSessionAddr(reg, u, a)
  /\ idle' = idle \ {reg.sessions[u]}
  /\ UNCHANGED <<shut, hooks, loginVars, leaving, sweep, early, adrift, closes>>

\* The contacts are told, and then the session of that UIN is removed.
handleLogoff(a) ==
  /\ reg.index[a] # None
  /\ leaving' = leaving \cup {reg.index[a]}
  /\ idle' = idle \ {reg.index[a]}
  /\ UNCHANGED <<reg, shut, hooks, loginVars, sweep, early, adrift, closes>>

logoffRemoves(s) ==
  /\ s \in leaving
  /\ leaving' = leaving \ {s}
  /\ reg' = RemoveSession(reg, who[s])
  /\ UNCHANGED <<shut, hooks, loginVars, idle, sweep, early, adrift, closes>>

timePasses(s) ==
  /\ s \in {reg.sessions[u] : u \in Users} \ (idle \cup {None})
  /\ idle' = idle \cup {s}
  /\ UNCHANGED <<reg, shut, hooks, loginVars, leaving, sweep, early, adrift, closes>>

\* CleanupExpired collects the sessions, lets go of the lock to tell the contacts, and
\* then removes them.
CleanupExpired ==
  /\ sweep = {}
  /\ sweep' = {reg.sessions[u] : u \in Users} \cap idle
  /\ sweep' # {}
  /\ UNCHANGED <<reg, shut, hooks, loginVars, idle, leaving, early, adrift, closes>>

\* Where another session has taken the UIN's place, that one loses its entry.  No two of the
\* expired sessions have the same UIN.
cleanupRemoves ==
  /\ sweep # {}
  /\ reg' = removeSessionsLocked(reg, {s \in sweep : reg.sessions[who[s]] # None})
  /\ sweep' = {}
  /\ adrift' = adrift \cup {reg.inst[reg.sessions[who[s]]] :
                              s \in {x \in sweep : reg.sessions[who[x]] \notin {None, x}}}
  /\ UNCHANGED <<shut, hooks, loginVars, idle, leaving, early, closes>>

\* The management API, a full message queue, or the connection of an OSCAR client.
CloseSession(u) ==
  LET p == reg.store[u]
  IN /\ p # None /\ signedOn(p) /\ closes < MaxCloses
     /\ closes' = closes + 1
     /\ shut' = shut \cup {p} /\ hooks' = hooks \cup {p}
     /\ UNCHANGED <<reg, loginVars, idle, leaving, sweep, early, adrift>>

onSessCloseFn(p) ==
  /\ p \in hooks
  /\ hooks' = hooks \ {p}
  /\ reg' = closeHook(reg, p)
  /\ UNCHANGED <<shut, loginVars, idle, leaving, sweep, early, adrift, closes>>

SessionNext ==
  \/ \E u \in Users, a \in Addrs :
       \/ handleGetDeps(u, a) \/ handlePing(u, a)
       \/ \E v \in Versions[u] : handleLogin(u, a, v)
  \/ \E p \in Ids : LoginStep(p) \/ timePasses(p) \/ logoffRemoves(p) \/ onSessCloseFn(p)
  \/ \E a \in Addrs : UpdateActivity(a) \/ handleLogoff(a)
  \/ \E u \in Users : oscarSignOn(u) \/ CloseSession(u)
  \/ CleanupExpired \/ cleanupRemoves

SessionSpec == Init /\ [][SessionNext]_sessionVars

-----------------------------------------------------------------------------
(* Properties.                                                             *)

\* A session in the table is found by its client's address, wherever the client has moved.
ReachableByAddress ==
  \A u \in Users : LET s == reg.sessions[u] IN s # None => (reg.index[reg.at[s]] = s)

hookPending(p) == p \in hooks \/ \E q \in Ids : pc[q] = "hook" /\ found[q] = p

\* An account's OSCAR slot is held by a login under way, by an OSCAR client, or by the
\* session in the table: there is always somebody left who will free it, so that the
\* account can sign on again.
NotStuck ==
  \A u \in Users : LET p == reg.store[u] IN p \notin adrift \cup {None} =>
    \/ pc[p] \in {"create", "look", "attach"}
    \/ ver[p] = 0 /\ (p \in shut => hookPending(p))
    \/ reg.sessions[u] # None /\ reg.inst[reg.sessions[u]] = p

\* When an OSCAR session is closed the legacy session goes with it, unless it was closed
\* before there was one.
ClosedLeavesTable ==
  \A u \in Users : LET s == reg.sessions[u] IN s # None =>
    (reg.inst[s] \in shut => (hookPending(reg.inst[s]) \/ reg.inst[s] \in early))

\* "CleanupExpired removes sessions that have timed out" (session.go), and no others.
OnlyExpiredAreRemoved == [][sweep # {} /\ sweep' = {} =>
  \A u \in Users : reg.sessions[u] # reg'.sessions[u] => reg.sessions[u] \in idle]_sessionVars
=============================================================================
