------------------------ MODULE LegacyMessages_proofs ------------------------
(***************************************************************************)
(* Proofs about the ICQ gateway's session tables and the messages that go    *)
(* by them, for every set of users, addresses and messages and any number of *)
(* logins.                                                                 *)
(***************************************************************************)
EXTENDS LegacyMessages, TLAPS

MaybeId == Ids \cup {None}
Places == {"none", "lock", "pending", "ended", "build", "wait", "evict", "hook", "online", "look",
           "create", "attach"}

RegType == [store : [Users -> MaybeId], removed : SUBSET Ids, sessions : [Users -> MaybeId],
            index : [Addrs -> MaybeId], at : [Ids -> Addrs \cup {None}], inst : [Ids -> MaybeId]]

TypeInv ==
  /\ reg \in RegType
  /\ shut \in SUBSET Ids /\ hooks \in SUBSET Ids /\ early \in SUBSET Ids
  /\ adrift \in SUBSET MaybeId /\ idle \in SUBSET Ids
  /\ leaving \in SUBSET Ids /\ sweep \in SUBSET Ids
  /\ pc \in [Ids -> Places] /\ who \in [Ids -> Users \cup {None}]
  /\ from \in [Ids -> Addrs \cup {None}] /\ ver \in [Ids -> (0..5) \cup {None}]
  /\ found \in [Ids -> MaybeId]

\* A login that has arrived has an account, and sends from one of its addresses as long as
\* it still has a session to make.
LoginInv ==
  \A p \in Ids : pc[p] # "none" =>
    /\ who[p] \in Users
    /\ (ver[p] # 0 /\ pc[p] \notin {"online", "ended"}) => from[p] \in AddrsOf[who[p]]
    /\ pc[p] \in {"create", "look", "attach", "pending"} => ver[p] # 0
    /\ pc[p] \in {"evict", "hook", "wait"} => found[p] # None

\* The login has had its turn at the registry.
Later == {"look", "create", "attach", "online", "ended"}
Registered(p) == pc[p] \in Later

\* What the tables hold came by a login of that account, from its addresses.
TableInv ==
  /\ \A u \in Users : LET p == reg.store[u] IN p # None => Registered(p) /\ who[p] = u
  /\ \A u \in Users : LET s == reg.sessions[u] IN s # None =>
       pc[s] # "none" /\ who[s] = u /\ reg.at[s] \in AddrsOf[u]
  /\ \A a \in Addrs : LET s == reg.index[a] IN s # None => pc[s] # "none"
  /\ \A s \in Ids : LET p == reg.inst[s] IN p # None =>
       pc[s] # "none" /\ Registered(p) /\ who[p] = who[s] /\ ver[p] # 0
  /\ \A p \in Ids : LET f == found[p] IN f # None => Registered(f) /\ who[f] = who[p] /\ pc[p] # "none"
  /\ \A p \in shut : Registered(p)
  /\ hooks \subseteq shut
  /\ \A s \in sweep : pc[s] # "none" /\ reg.at[s] \in AddrsOf[who[s]]
  /\ \A s \in leaving \cup idle : pc[s] # "none"

\* An OSCAR session closed before its login had come online is known as such.
EarlyInv == \A p \in shut : pc[p] # "online" => p \in early

\* No two clients of different accounts send from one address.
AddressesApart == \A u, v \in Users : u # v => AddrsOf[u] \cap AddrsOf[v] = {}

SessionsInv ==
  /\ TypeInv /\ LoginInv /\ TableInv /\ EarlyInv
  /\ (AddressesApart => ReachableByAddress) /\ NotStuck /\ ClosedLeavesTable

LEMMA Consts == None \notin Ids /\ AddrsOf \in [Users -> SUBSET Addrs]
  BY LegacySessionsAssumption

-----------------------------------------------------------------------------
(* What the operations make of the tables. *)

LEMMA SlotsFreed ==
  ASSUME NEW r \in RegType, NEW ps \in SUBSET MaybeId
  PROVE  /\ freeSlots(r, ps) \in RegType
         /\ \A u \in Users : freeSlots(r, ps).store[u] =
              IF r.store[u] # None /\ r.store[u] \in ps /\ r.store[who[r.store[u]]] = r.store[u]
              THEN None ELSE r.store[u]
         /\ freeSlots(r, ps).sessions = r.sessions /\ freeSlots(r, ps).index = r.index
         /\ freeSlots(r, ps).at = r.at /\ freeSlots(r, ps).inst = r.inst
  <1> DEFINE free == {p \in ps \ {None} : r.store[who[p]] = p}
             kept == [u \in Users |-> IF r.store[u] \in free THEN None ELSE r.store[u]]
  <1>1. freeSlots(r, ps) = [r EXCEPT !.store = kept, !.removed = r.removed \cup free]
    BY DEF RegType, freeSlots
  <1>2. kept \in [Users -> MaybeId] /\ free \in SUBSET Ids
    BY DEF RegType, MaybeId
  <1>3. \A u \in Users : kept[u] =
          IF r.store[u] # None /\ r.store[u] \in ps /\ r.store[who[r.store[u]]] = r.store[u]
          THEN None ELSE r.store[u]
    OBVIOUS
  <1> HIDE DEF free, kept
  <1> QED BY <1>1, <1>2, <1>3 DEF RegType

LEMMA SessionsRemoved ==
  ASSUME NEW r \in RegType, NEW ss \in SUBSET Ids
  PROVE  /\ removeSessionsLocked(r, ss) \in RegType
         /\ \A u \in Users : removeSessionsLocked(r, ss).store[u] =
              IF r.store[u] # None /\ (\E s \in ss : r.store[u] = r.inst[s]) /\ r.store[who[r.store[u]]] = r.store[u]
              THEN None ELSE r.store[u]
         /\ \A u \in Users : removeSessionsLocked(r, ss).sessions[u] =
              IF \E s \in ss : who[s] = u THEN None ELSE r.sessions[u]
         /\ \A a \in Addrs : removeSessionsLocked(r, ss).index[a] =
              IF \E s \in ss : r.at[s] = a THEN None ELSE r.index[a]
         /\ removeSessionsLocked(r, ss).at = r.at /\ removeSessionsLocked(r, ss).inst = r.inst
  <1> DEFINE insts == {r.inst[s] : s \in ss}
             r1 == freeSlots(r, insts)
             sessions == [u \in Users |-> IF u \in {who[s] : s \in ss} THEN None ELSE r.sessions[u]]
             index == [a \in Addrs |-> IF a \in {r.at[s] : s \in ss} THEN None ELSE r.index[a]]
  <1>1. /\ insts \in SUBSET MaybeId
        /\ \A i : i \in insts <=> \E s \in ss : i = r.inst[s]
    BY DEF RegType, MaybeId
  <1>2. /\ r1 \in RegType
        /\ \A u \in Users : r1.store[u] =
             IF r.store[u] # None /\ r.store[u] \in insts /\ r.store[who[r.store[u]]] = r.store[u]
             THEN None ELSE r.store[u]
        /\ r1.sessions = r.sessions /\ r1.index = r.index /\ r1.at = r.at /\ r1.inst = r.inst
    BY <1>1, SlotsFreed
  <1>3. /\ sessions \in [Users -> MaybeId] /\ index \in [Addrs -> MaybeId]
        /\ \A u \in Users : sessions[u] = IF \E s \in ss : who[s] = u THEN None ELSE r.sessions[u]
        /\ \A a \in Addrs : index[a] = IF \E s \in ss : r.at[s] = a THEN None ELSE r.index[a]
    BY DEF RegType, MaybeId
  <1>4. removeSessionsLocked(r, ss) = [r1 EXCEPT !.sessions = sessions, !.index = index]
    BY <1>2 DEF removeSessionsLocked, RegType
  <1> HIDE DEF insts, r1, sessions, index
  <1> DEFINE q == removeSessionsLocked(r, ss)
  <1>5. /\ q \in RegType /\ q.sessions = sessions /\ q.index = index
        /\ q.store = r1.store /\ q.at = r1.at /\ q.inst = r1.inst
    BY <1>2, <1>3, <1>4, ZenonT(60) DEF RegType
  <1> HIDE DEF q
  <1>6. \A u \in Users : q.store[u] =
          IF r.store[u] # None /\ (\E s \in ss : r.store[u] = r.inst[s]) /\ r.store[who[r.store[u]]] = r.store[u]
          THEN None ELSE r.store[u]
    BY <1>1, <1>2, <1>5
  <1>7. /\ \A u \in Users : q.sessions[u] = IF \E s \in ss : who[s] = u THEN None ELSE r.sessions[u]
        /\ \A a \in Addrs : q.index[a] = IF \E s \in ss : r.at[s] = a THEN None ELSE r.index[a]
    BY <1>3, <1>5
  <1> QED BY <1>2, <1>5, <1>6, <1>7 DEF q

\* The session of u is removed, if it has one.
LEMMA SessionRemoved ==
  ASSUME NEW r \in RegType, NEW u \in Users
  PROVE  LET q == RemoveSession(r, u)
             s == r.sessions[u]
         IN  /\ q \in RegType /\ q.at = r.at /\ q.inst = r.inst
             /\ \A v \in Users : q.store[v] =
                  IF s # None /\ r.store[v] # None /\ r.store[v] = r.inst[s] /\ r.store[who[r.store[v]]] = r.store[v]
                  THEN None ELSE r.store[v]
             /\ (s # None => who[s] = u) =>
                  \A v \in Users : q.sessions[v] = IF v = u THEN None ELSE r.sessions[v]
             /\ \A a \in Addrs : q.index[a] = IF s # None /\ r.at[s] = a THEN None ELSE r.index[a]
  <1>1. CASE r.sessions[u] = None
    BY <1>1 DEF RemoveSession
  <1>2. CASE r.sessions[u] # None
    <2>1. PICK s \in Ids : s = r.sessions[u]
      BY <1>2 DEF RegType, MaybeId
    <2>2. RemoveSession(r, u) = removeSessionsLocked(r, {s}) /\ s # None
      BY <1>2, <2>1 DEF RemoveSession
    <2>3. /\ removeSessionsLocked(r, {s}) \in RegType
          /\ \A v \in Users : removeSessionsLocked(r, {s}).store[v] =
               IF r.store[v] # None /\ r.store[v] = r.inst[s] /\ r.store[who[r.store[v]]] = r.store[v]
               THEN None ELSE r.store[v]
          /\ \A v \in Users : removeSessionsLocked(r, {s}).sessions[v] =
               IF who[s] = v THEN None ELSE r.sessions[v]
          /\ \A a \in Addrs : removeSessionsLocked(r, {s}).index[a] =
               IF r.at[s] = a THEN None ELSE r.index[a]
          /\ removeSessionsLocked(r, {s}).at = r.at /\ removeSessionsLocked(r, {s}).inst = r.inst
      BY SessionsRemoved
    <2>4. ASSUME NEW q, q = RemoveSession(r, u)
          PROVE  /\ q \in RegType /\ q.at = r.at /\ q.inst = r.inst
                 /\ \A v \in Users : q.store[v] =
                      IF r.store[v] # None /\ r.store[v] = r.inst[s] /\ r.store[who[r.store[v]]] = r.store[v]
                      THEN None ELSE r.store[v]
                 /\ who[s] = u => \A v \in Users : q.sessions[v] = IF v = u THEN None ELSE r.sessions[v]
                 /\ \A a \in Addrs : q.index[a] = IF r.at[s] = a THEN None ELSE r.index[a]
      BY <2>2, <2>3, <2>4
    <2> QED BY <1>2, <2>1, <2>4
  <1> QED BY <1>1, <1>2

LEMMA Installed ==
  ASSUME NEW r \in RegType, NEW s \in Ids, NEW i \in MaybeId, who[s] \in Users, from[s] \in Addrs,
         r.sessions[who[s]] # None => who[r.sessions[who[s]]] = who[s]
  PROVE  LET q == install(r, s, i)
             x == r.sessions[who[s]]
         IN  /\ q \in RegType
             /\ \A y \in Ids : /\ q.at[y] = IF y = s THEN from[s] ELSE r.at[y]
                               /\ q.inst[y] = IF y = s THEN i ELSE r.inst[y]
             /\ \A v \in Users : q.store[v] =
                  IF x # None /\ r.store[v] # None /\ r.store[v] = r.inst[x] /\ r.store[who[r.store[v]]] = r.store[v]
                  THEN None ELSE r.store[v]
             /\ \A v \in Users : q.sessions[v] = IF v = who[s] THEN s ELSE r.sessions[v]
             /\ \A a \in Addrs : q.index[a] =
                  IF a = from[s] THEN s ELSE IF x # None /\ r.at[x] = a THEN None ELSE r.index[a]
  <1> DEFINE x == r.sessions[who[s]]
  <1>1. PICK q : q = RemoveSession(r, who[s])
    OBVIOUS
  <1>2. /\ q \in RegType /\ q.at = r.at /\ q.inst = r.inst
        /\ \A v \in Users : q.store[v] =
             IF x # None /\ r.store[v] # None /\ r.store[v] = r.inst[x] /\ r.store[who[r.store[v]]] = r.store[v]
             THEN None ELSE r.store[v]
        /\ \A v \in Users : q.sessions[v] = IF v = who[s] THEN None ELSE r.sessions[v]
        /\ \A a \in Addrs : q.index[a] = IF x # None /\ r.at[x] = a THEN None ELSE r.index[a]
    BY <1>1, SessionRemoved, SMTT(30)
  <1> HIDE DEF x
  <1>3. PICK z : z = install(r, s, i)
    OBVIOUS
  <1>4. z = [q EXCEPT !.sessions[who[s]] = s, !.index[from[s]] = s, !.at[s] = from[s], !.inst[s] = i]
    BY <1>1, <1>3 DEF install
  <1>5. /\ z \in RegType /\ z.store = q.store
        /\ z.sessions = [q.sessions EXCEPT ![who[s]] = s] /\ z.index = [q.index EXCEPT ![from[s]] = s]
        /\ z.at = [q.at EXCEPT ![s] = from[s]] /\ z.inst = [q.inst EXCEPT ![s] = i]
    BY <1>2, <1>4 DEF RegType, MaybeId
  <1>6. \A y \in Ids : /\ z.at[y] = IF y = s THEN from[s] ELSE r.at[y]
                       /\ z.inst[y] = IF y = s THEN i ELSE r.inst[y]
    BY <1>2, <1>5 DEF RegType
  <1>7. \A v \in Users : z.sessions[v] = IF v = who[s] THEN s ELSE r.sessions[v]
    BY <1>2, <1>5 DEF RegType
  <1>8. \A a \in Addrs : z.index[a] =
          IF a = from[s] THEN s ELSE IF x # None /\ r.at[x] = a THEN None ELSE r.index[a]
    BY <1>2, <1>5 DEF RegType
  <1>9. \A v \in Users : z.store[v] =
          IF x # None /\ r.store[v] # None /\ r.store[v] = r.inst[x] /\ r.store[who[r.store[v]]] = r.store[v]
          THEN None ELSE r.store[v]
    BY <1>2, <1>5
  <1> QED BY <1>3, <1>5, <1>6, <1>7, <1>8, <1>9 DEF x

LEMMA Attached ==
  ASSUME NEW r \in RegType, NEW p \in Ids, who[p] \in Users, from[p] \in Addrs, canAttach(r, p)
  PROVE  LET q == AttachOSCARSession(r, p)
             s == r.sessions[who[p]]
         IN  /\ q \in RegType /\ q.store = r.store /\ q.sessions = r.sessions
             /\ s \in Ids /\ r.inst[s] \in {None, p}
             /\ \A y \in Ids : /\ q.at[y] = IF y = s THEN from[p] ELSE r.at[y]
                               /\ q.inst[y] = IF y = s THEN p ELSE r.inst[y]
             /\ \A a \in Addrs : q.index[a] =
                  IF a = from[p] THEN s ELSE IF r.at[s] = a THEN None ELSE r.index[a]
  <1>1. PICK s \in Ids : s = r.sessions[who[p]]
    BY DEF canAttach, RegType, MaybeId
  <1>2. PICK q : q = AttachOSCARSession(r, p)
    OBVIOUS
  <1>3. q = [r EXCEPT !.index = [@ EXCEPT ![r.at[s]] = None, ![from[p]] = s], !.at[s] = from[p], !.inst[s] = p]
    BY <1>1, <1>2 DEF AttachOSCARSession
  <1>4. /\ q \in RegType /\ q.store = r.store /\ q.sessions = r.sessions
        /\ q.at = [r.at EXCEPT ![s] = from[p]] /\ q.inst = [r.inst EXCEPT ![s] = p]
        /\ q.index = [r.index EXCEPT ![r.at[s]] = None, ![from[p]] = s]
    BY <1>3 DEF RegType, MaybeId
  <1>5. /\ \A y \in Ids : /\ q.at[y] = IF y = s THEN from[p] ELSE r.at[y]
                          /\ q.inst[y] = IF y = s THEN p ELSE r.inst[y]
        /\ \A a \in Addrs : q.index[a] =
             IF a = from[p] THEN s ELSE IF r.at[s] = a THEN None ELSE r.index[a]
    BY <1>4 DEF RegType
  <1> QED BY <1>1, <1>2, <1>4, <1>5 DEF canAttach

LEMMA AddrUpdated ==
  ASSUME NEW r \in RegType, NEW u \in Users, NEW b \in Addrs, r.sessions[u] # None
  PROVE  LET q == UpdateSessionAddr(r, u, b)
             s == r.sessions[u]
         IN  /\ q \in RegType /\ q.store = r.store /\ q.sessions = r.sessions /\ q.inst = r.inst
             /\ \A y \in Ids : q.at[y] = IF y = s THEN b ELSE r.at[y]
             /\ \A a \in Addrs : q.index[a] =
                  IF a = b THEN s ELSE IF r.at[s] = a THEN None ELSE r.index[a]
  <1>1. PICK s \in Ids : s = r.sessions[u]
    BY DEF RegType, MaybeId
  <1>2. PICK q : q = UpdateSessionAddr(r, u, b)
    OBVIOUS
  <1>3. q = [r EXCEPT !.index = [@ EXCEPT ![r.at[s]] = None, ![b] = s], !.at[s] = b]
    BY <1>1, <1>2 DEF UpdateSessionAddr
  <1>4. /\ q \in RegType /\ q.store = r.store /\ q.sessions = r.sessions /\ q.inst = r.inst
        /\ q.at = [r.at EXCEPT ![s] = b]
        /\ q.index = [r.index EXCEPT ![r.at[s]] = None, ![b] = s]
    BY <1>3 DEF RegType, MaybeId
  <1>5. /\ \A y \in Ids : q.at[y] = IF y = s THEN b ELSE r.at[y]
        /\ \A a \in Addrs : q.index[a] = IF a = b THEN s ELSE IF r.at[s] = a THEN None ELSE r.index[a]
    BY <1>4 DEF RegType
  <1> QED BY <1>1, <1>2, <1>4, <1>5

-----------------------------------------------------------------------------
(* The steps, by what becomes of the tables. *)

PlainStep ==
  \/ \E p \in Ids : AddSession(p) \/ evict(p) \/ removed(p) \/ waitTimeout(p) \/ lookForPending(p)
  \/ \E p \in Ids : timePasses(p)
  \/ \E a \in Addrs : UpdateActivity(a) \/ handleLogoff(a)
  \/ \E u \in Users : CloseSession(u)
  \/ CleanupExpired

LEMMA Arrival ==
  ASSUME TypeInv, NEW u \in Users, NEW a, NEW v, NEW place \in {"lock", "pending"},
         arrive(u, a, v, place), v = 0 => place = "lock"
  PROVE  \E p \in Ids :
           /\ pc[p] = "none" /\ pc' = [pc EXCEPT ![p] = place] /\ who' = [who EXCEPT ![p] = u]
           /\ from' = [from EXCEPT ![p] = a] /\ ver' = [ver EXCEPT ![p] = v]
           /\ v \in 0..5 /\ IF v = 0 THEN a = None ELSE a \in AddrsOf[u] /\ a \in Addrs
           /\ UNCHANGED <<reg, shut, hooks, lock, found, idle, leaving, sweep, early, adrift, closes>>
  <1>1. Versions[u] \subseteq 0..5 /\ AddrsOf[u] \subseteq Addrs
    BY LegacySessionsAssumption
  <1> QED BY <1>1 DEF arrive, goto

LEMMA TypePlain ==
  ASSUME TypeInv, LoginInv, PlainStep
  PROVE  TypeInv'
  <1>1. ASSUME NEW p \in Ids, AddSession(p) PROVE TypeInv'
    <2>1. who[p] \in Users
      BY <1>1 DEF AddSession, LoginInv
    <2>2. reg.store[who[p]] \in MaybeId
      BY <2>1 DEF TypeInv, RegType
    <2> QED BY <1>1, <2>2 DEF TypeInv, AddSession, goto, Places
  <1>2. ASSUME NEW p \in Ids, evict(p) PROVE TypeInv'
    <2>1. found[p] \in Ids
      BY <1>2 DEF evict, LoginInv, TypeInv, MaybeId
    <2> QED BY <1>2, <2>1 DEF TypeInv, evict, goto, Places
  <1>3. ASSUME NEW p \in Ids, removed(p) \/ lookForPending(p) \/ waitTimeout(p) PROVE TypeInv'
    BY <1>3 DEF TypeInv, removed, lookForPending, waitTimeout, goto, Places
  <1>4. ASSUME NEW p \in Ids, timePasses(p) PROVE TypeInv'
    BY <1>4 DEF TypeInv, timePasses, loginVars, MaybeId
  <1>5. ASSUME NEW a \in Addrs, UpdateActivity(a) PROVE TypeInv'
    BY <1>5 DEF TypeInv, UpdateActivity, loginVars
  <1>6. ASSUME NEW a \in Addrs, handleLogoff(a) PROVE TypeInv'
    <2>1. reg.index[a] \in Ids
      BY <1>6 DEF handleLogoff, TypeInv, RegType, MaybeId
    <2> QED BY <1>6, <2>1 DEF TypeInv, handleLogoff, loginVars
  <1>7. ASSUME NEW u \in Users, CloseSession(u) PROVE TypeInv'
    <2>1. reg.store[u] \in Ids
      BY <1>7 DEF CloseSession, TypeInv, RegType, MaybeId
    <2> QED BY <1>7, <2>1 DEF TypeInv, CloseSession, loginVars
  <1>8. CASE CleanupExpired
    BY <1>8 DEF TypeInv, CleanupExpired, loginVars
  <1> QED BY <1>1, <1>2, <1>3, <1>4, <1>5, <1>6, <1>7, <1>8 DEF PlainStep

\* What a step may do to the logins, whatever it does to the tables.
LoginsGoOn ==
  /\ \A p \in Ids :
       /\ pc[p] # "none" => who'[p] = who[p] /\ ver'[p] = ver[p] /\ pc'[p] # "none"
       /\ Registered(p) => Registered(p)'
       /\ pc[p] = "online" => pc'[p] = "online"
       /\ \/ found'[p] \in {found[p], None}
          \/ pc[p] # "none" /\ found'[p] = reg.store[who[p]]
  /\ early \subseteq early'
  /\ \A p \in shut' \ shut : Registered(p) /\ (pc[p] # "online" => p \in early')
  /\ hooks' \subseteq shut'
  /\ \A s \in sweep' \ sweep : \E u \in Users : s = reg.sessions[u] /\ s # None
  /\ \A s \in (leaving' \cup idle') \ (leaving \cup idle) : pc[s] # "none"

\* Entries may go from the tables, and those that come are of logins of that account.
LEMMA TableChanges ==
  ASSUME SessionsInv, TypeInv', LoginsGoOn,
         \A u \in Users : LET p == reg'.store[u] IN
           p \in {reg.store[u], None} \/ (pc'[p] \in Later /\ who'[p] = u),
         \A u \in Users : LET s == reg'.sessions[u] IN
           s \in {reg.sessions[u], None} \/ (pc[s] # "none" /\ who[s] = u /\ reg'.at[s] \in AddrsOf[u]),
         \A a \in Addrs : LET s == reg'.index[a] IN s \in {reg.index[a], None} \/ pc[s] # "none",
         \A s \in Ids : reg'.at[s] = reg.at[s] \/ reg'.at[s] \in AddrsOf[who[s]],
         \A s \in Ids : LET p == reg'.inst[s] IN
           p \in {reg.inst[s], None}
           \/ (pc[s] # "none" /\ pc[p] # "none" /\ pc'[p] \in Later /\ who[p] = who[s] /\ ver[p] # 0)
  PROVE  TableInv' /\ EarlyInv'
  <1>1. /\ \A u \in Users : reg.store[u] \in MaybeId /\ reg.sessions[u] \in MaybeId
        /\ \A u \in Users : reg'.store[u] \in MaybeId /\ reg'.sessions[u] \in MaybeId
    BY DEF SessionsInv, TypeInv, RegType
  <1>2. \A s \in Ids : reg.inst[s] \in MaybeId /\ found[s] \in MaybeId /\ reg'.inst[s] \in MaybeId
    BY DEF SessionsInv, TypeInv, RegType
  <1>3. \A u \in Users : (LET p == reg.store[u] IN p # None => Registered(p) /\ who[p] = u)'
    <2> SUFFICES ASSUME NEW u \in Users, NEW p, p = reg'.store[u], p # None
                 PROVE  pc'[p] \in Later /\ who'[p] = u
      BY DEF Registered, Later
    <2>1. CASE p = reg.store[u]
      BY <1>1, <2>1 DEF SessionsInv, TableInv, LoginsGoOn, MaybeId, Registered, Later
    <2> QED BY <2>1
  <1>4. \A u \in Users : LET s == reg'.sessions[u] IN s # None =>
          pc'[s] # "none" /\ who'[s] = u /\ reg'.at[s] \in AddrsOf[u]
    <2> SUFFICES ASSUME NEW u \in Users, NEW s, s = reg'.sessions[u], s # None
                 PROVE  pc'[s] # "none" /\ who'[s] = u /\ reg'.at[s] \in AddrsOf[u]
      OBVIOUS
    <2>1. pc[s] # "none" /\ who[s] = u /\ reg'.at[s] \in AddrsOf[u] /\ s \in Ids
      BY <1>1 DEF SessionsInv, TableInv, MaybeId
    <2> QED BY <2>1 DEF LoginsGoOn
  <1>5. \A a \in Addrs : LET s == reg'.index[a] IN s # None => pc'[s] # "none"
    <2>1. \A a \in Addrs : reg.index[a] \in MaybeId /\ reg'.index[a] \in MaybeId
      BY DEF SessionsInv, TypeInv, RegType
    <2> QED BY <2>1 DEF SessionsInv, MaybeId, TableInv, LoginsGoOn
  <1>6. \A s \in Ids : LET p == reg'.inst[s] IN p # None =>
          pc'[s] # "none" /\ pc'[p] \in Later /\ who'[p] = who'[s] /\ ver'[p] # 0
    <2> SUFFICES ASSUME NEW s \in Ids, NEW p, p = reg'.inst[s], p # None
                 PROVE  pc'[s] # "none" /\ pc'[p] \in Later /\ who'[p] = who'[s] /\ ver'[p] # 0
      BY DEF Registered, Later
    <2>1. /\ pc[s] # "none" /\ pc[p] # "none" /\ who[p] = who[s] /\ ver[p] # 0 /\ p \in Ids
          /\ Registered(p) \/ pc'[p] \in Later
      <3>1. CASE p = reg.inst[s]
        BY <1>2, <3>1 DEF SessionsInv, TableInv, MaybeId, Registered, Later
      <3>2. CASE p # reg.inst[s]
        BY <1>2, <3>2 DEF MaybeId
      <3> QED BY <3>1, <3>2
    <2> QED BY <2>1 DEF LoginsGoOn, Registered, Later
  <1>7. ASSUME NEW p \in Ids, NEW f, f = found'[p], f # None
        PROVE  f \in Ids /\ pc'[f] \in Later /\ who'[f] = who'[p] /\ pc'[p] # "none"
    <2>1. Registered(f) /\ f \in Ids /\ who[f] = who[p] /\ pc[p] # "none"
      <3>1. CASE f = found[p]
        BY <1>2, <1>7, <3>1 DEF SessionsInv, TableInv, MaybeId
      <3>2. CASE pc[p] # "none" /\ f = reg.store[who[p]]
        <4>1. who[p] \in Users
          BY <3>2 DEF SessionsInv, LoginInv
        <4> QED BY <1>1, <1>7, <3>2, <4>1 DEF SessionsInv, TableInv, MaybeId
      <3> QED BY <1>7, <3>1, <3>2 DEF LoginsGoOn
    <2> QED BY <2>1 DEF LoginsGoOn, Registered, Later
  <1>8. \A p \in Ids : (LET f == found[p] IN f # None => Registered(f) /\ who[f] = who[p] /\ pc[p] # "none")'
    BY <1>7 DEF Registered, Later
  <1>9. (\A p \in shut' : pc'[p] \in Later) /\ hooks' \subseteq shut'
    BY DEF SessionsInv, TypeInv, TableInv, LoginsGoOn, Registered, Later
  <1>10. \A s \in sweep' : pc'[s] # "none" /\ reg'.at[s] \in AddrsOf[who'[s]]
    <2> SUFFICES ASSUME NEW s \in sweep' PROVE pc'[s] # "none" /\ reg'.at[s] \in AddrsOf[who'[s]]
      OBVIOUS
    <2>1. s \in Ids /\ pc[s] # "none" /\ reg.at[s] \in AddrsOf[who[s]]
      BY <1>1 DEF SessionsInv, TypeInv, TableInv, LoginsGoOn, MaybeId
    <2> QED BY <2>1 DEF LoginsGoOn
  <1>11. \A s \in leaving' \cup idle' : pc'[s] # "none"
    BY DEF SessionsInv, TypeInv, TableInv, LoginsGoOn
  <1>12. TableInv'
    BY <1>3, <1>4, <1>5, <1>6, <1>8, <1>9, <1>10, <1>11 DEF TableInv, Registered
  <1>13. EarlyInv'
    BY DEF SessionsInv, EarlyInv, LoginsGoOn, TypeInv
  <1> QED BY <1>12, <1>13

LEMMA TableShrinks ==
  ASSUME SessionsInv, TypeInv', LoginsGoOn, reg'.at = reg.at, reg'.inst = reg.inst,
         \A u \in Users : /\ reg'.store[u] \in {reg.store[u], None}
                          /\ reg'.sessions[u] \in {reg.sessions[u], None},
         \A a \in Addrs : reg'.index[a] \in {reg.index[a], None}
  PROVE  TableInv' /\ EarlyInv'
  BY TableChanges

\* A step that leaves the tables alone.
LEMMA TablesKept ==
  ASSUME SessionsInv, TypeInv', LoginInv', LoginsGoOn, reg' = reg, adrift \subseteq adrift', shut \subseteq shut',
         \A p \in Ids : pc[p] \in {"create", "look", "attach"} =>
           pc'[p] \in {"create", "look", "attach"} \/ p \in adrift',
         \A p \in Ids : hookPending(p) => hookPending(p)',
         \A p \in shut' \ shut : hookPending(p)'
  PROVE  SessionsInv'
  <1>1. \A u \in Users : reg.store[u] \in MaybeId /\ reg.sessions[u] \in MaybeId
    BY DEF SessionsInv, TypeInv, RegType
  <1>3. TableInv' /\ EarlyInv'
    BY TableShrinks
  <1>5. (AddressesApart => ReachableByAddress)'
    BY DEF SessionsInv, AddressesApart, ReachableByAddress
  <1>6. NotStuck'
    BY <1>1 DEF SessionsInv, NotStuck, LoginsGoOn, TableInv, Registered, Later, MaybeId
  <1>7. ClosedLeavesTable'
    <2> SUFFICES ASSUME NEW u \in Users, NEW s, s = reg.sessions[u], s # None, NEW p, p = reg.inst[s], p \in shut'
                 PROVE  hookPending(p)' \/ p \in early'
      BY DEF ClosedLeavesTable
    <2>1. p \in Ids
      BY DEF SessionsInv, TypeInv
    <2>2. CASE p \in shut
      <3>1. hookPending(p) \/ p \in early
        BY <2>2 DEF SessionsInv, ClosedLeavesTable
      <3> QED BY <2>1, <3>1 DEF LoginsGoOn
    <2> QED BY <2>2
  <1> QED BY <1>3, <1>5, <1>6, <1>7 DEF SessionsInv

Arrives ==
  \E a, v : \E u \in Users, place \in {"lock", "pending"} :
    arrive(u, a, v, place) /\ (v = 0 => place = "lock")

LEMMA ArrivalStep ==
  ASSUME SessionsInv, Arrives
  PROVE  SessionsInv'
  <1>0. PICK a, v : \E u \in Users, place \in {"lock", "pending"} :
          arrive(u, a, v, place) /\ (v = 0 => place = "lock")
    BY DEF Arrives
  <1>1. PICK u \in Users, place \in {"lock", "pending"} :
          arrive(u, a, v, place) /\ (v = 0 => place = "lock")
    BY <1>0
  <1>2. PICK p \in Ids :
          /\ pc[p] = "none" /\ pc' = [pc EXCEPT ![p] = place] /\ who' = [who EXCEPT ![p] = u]
          /\ from' = [from EXCEPT ![p] = a] /\ ver' = [ver EXCEPT ![p] = v]
          /\ v \in 0..5 /\ IF v = 0 THEN a = None ELSE a \in AddrsOf[u] /\ a \in Addrs
          /\ UNCHANGED <<reg, shut, hooks, lock, found, idle, leaving, sweep, early, adrift, closes>>
    BY <1>1, Arrival DEF SessionsInv
  <1>3. TypeInv'
    BY <1>2 DEF SessionsInv, TypeInv, Places
  <1>4. LoginInv'
    BY <1>1, <1>2 DEF SessionsInv, TypeInv, LoginInv
  <1>5. LoginsGoOn
    BY <1>1, <1>2 DEF SessionsInv, TypeInv, LoginsGoOn, Registered, Later, TableInv
  <1>6. /\ \A x \in Ids : pc[x] \in {"create", "look", "attach"} => pc'[x] \in {"create", "look", "attach"}
        /\ \A x \in Ids : hookPending(x) => hookPending(x)'
    BY <1>2 DEF SessionsInv, TypeInv, hookPending
  <1> QED BY <1>2, <1>3, <1>4, <1>5, <1>6, TablesKept

LEMMA PlainKept ==
  ASSUME SessionsInv, PlainStep
  PROVE  SessionsInv'
  <1>0. TypeInv /\ LoginInv /\ TableInv
    BY DEF SessionsInv
  <1>1. TypeInv'
    BY <1>0, TypePlain
  <1>2. ASSUME NEW p \in Ids, AddSession(p) PROVE SessionsInv'
    <2>1. /\ who[p] \in Users /\ pc[p] = "lock" /\ pc'[p] \in {"build", "wait", "evict"}
          /\ pc' = [pc EXCEPT ![p] = pc'[p]] /\ found' = [found EXCEPT ![p] = reg.store[who[p]]]
          /\ pc'[p] # "build" => reg.store[who[p]] # None
          /\ UNCHANGED <<reg, shut, hooks, who, from, ver, idle, leaving, sweep, early, adrift, closes>>
      BY <1>0, <1>2 DEF AddSession, goto, LoginInv, TypeInv
    <2>2. LoginInv'
      BY <1>0, <2>1 DEF TypeInv, LoginInv
    <2>3. LoginsGoOn
      BY <1>0, <2>1 DEF TypeInv, LoginsGoOn, Registered, Later, TableInv
    <2>4. \A x \in Ids : hookPending(x) => hookPending(x)'
      BY <1>0, <2>1 DEF TypeInv, hookPending
    <2>5. \A x \in Ids : pc[x] \in {"create", "look", "attach"} => pc'[x] = pc[x]
      BY <1>0, <2>1 DEF TypeInv
    <2> QED BY <1>1, <2>1, <2>2, <2>3, <2>4, <2>5, TablesKept
  <1>3. ASSUME NEW p \in Ids, evict(p) PROVE SessionsInv'
    <2>1. /\ pc[p] = "evict" /\ found[p] \in Ids
          /\ pc' = [pc EXCEPT ![p] = IF found[p] \in shut THEN "wait" ELSE "hook"]
          /\ shut' = shut \cup {found[p]}
          /\ early' = IF pc[found[p]] = "online" THEN early ELSE early \cup {found[p]}
          /\ UNCHANGED <<reg, hooks, lock, who, from, ver, found, idle, leaving, sweep, adrift, closes>>
      BY <1>0, <1>3 DEF evict, goto, LoginInv, TypeInv, MaybeId
    <2>2. LoginInv'
      BY <1>0, <2>1 DEF TypeInv, LoginInv
    <2>3. LoginsGoOn
      BY <1>0, <2>1, Consts DEF TypeInv, LoginsGoOn, Registered, Later, TableInv
    <2>4. \A x \in Ids : hookPending(x) => hookPending(x)'
      BY <1>0, <2>1 DEF TypeInv, hookPending
    <2>5. \A x \in shut' \ shut : hookPending(x)'
      BY <1>0, <2>1 DEF TypeInv, hookPending
    <2>6. \A x \in Ids : pc[x] \in {"create", "look", "attach"} => pc'[x] = pc[x]
      BY <1>0, <2>1 DEF TypeInv
    <2> QED BY <1>1, <2>1, <2>2, <2>3, <2>4, <2>5, <2>6, TablesKept
  <1>4. ASSUME NEW p \in Ids, removed(p) \/ lookForPending(p) \/ waitTimeout(p) PROVE SessionsInv'
    <2>1. /\ \/ pc[p] = "wait" /\ pc' = [pc EXCEPT ![p] = "build"] /\ from' = from
             \/ pc[p] = "look" /\ pc' = [pc EXCEPT ![p] = "create"] /\ from' = from
             \/ pc[p] = "look" /\ pc' = [pc EXCEPT ![p] = "attach"] /\ from' = from
             \/ pc[p] = "wait" /\ pc' = [pc EXCEPT ![p] = "ended"] /\ from' = [from EXCEPT ![p] = None]
          /\ UNCHANGED <<reg, shut, hooks, who, ver, found, idle, leaving, sweep, early, adrift, closes>>
      BY <1>4 DEF removed, lookForPending, waitTimeout, goto
    <2>2. LoginInv'
      BY <1>0, <2>1 DEF TypeInv, LoginInv
    <2>3. LoginsGoOn
      BY <1>0, <2>1 DEF TypeInv, LoginsGoOn, Registered, Later, TableInv
    <2>4. \A x \in Ids : hookPending(x) => hookPending(x)'
      BY <1>0, <2>1 DEF TypeInv, hookPending
    <2>5. \A x \in Ids : pc[x] \in {"create", "look", "attach"} => pc'[x] \in {"create", "look", "attach"}
      BY <1>0, <2>1 DEF TypeInv
    <2> QED BY <1>1, <2>1, <2>2, <2>3, <2>4, <2>5, TablesKept
  <1>5. ASSUME UNCHANGED <<reg, loginVars, early, adrift>>,
               \/ UNCHANGED <<shut, hooks>>
               \/ \E p \in Ids : /\ Registered(p) /\ pc[p] = "online"
                                /\ shut' = shut \cup {p} /\ hooks' = hooks \cup {p},
               \A s \in sweep' \ sweep : \E u \in Users : s = reg.sessions[u] /\ s # None,
               \A s \in (leaving' \cup idle') \ (leaving \cup idle) : pc[s] # "none"
        PROVE  SessionsInv'
    <2>1. LoginInv'
      BY <1>0, <1>5 DEF LoginInv, loginVars
    <2>2. LoginsGoOn
      BY <1>0, <1>5 DEF LoginsGoOn, Registered, Later, TableInv, loginVars
    <2>3. /\ \A x \in Ids : hookPending(x) => hookPending(x)'
          /\ \A x \in shut' \ shut : hookPending(x)'
      BY <1>0, <1>5 DEF hookPending, loginVars
    <2> QED BY <1>1, <1>5, <2>1, <2>2, <2>3, TablesKept DEF loginVars
  <1>6. ASSUME NEW p \in Ids, timePasses(p) PROVE SessionsInv'
    BY <1>0, <1>5, <1>6 DEF timePasses, TableInv
  <1>7. ASSUME NEW a \in Addrs, UpdateActivity(a) PROVE SessionsInv'
    BY <1>0, <1>5, <1>7 DEF UpdateActivity
  <1>8. ASSUME NEW a \in Addrs, handleLogoff(a) PROVE SessionsInv'
    BY <1>0, <1>5, <1>8 DEF handleLogoff, TableInv
  <1>9. ASSUME NEW u \in Users, CloseSession(u) PROVE SessionsInv'
    <2>1. reg.store[u] \in Ids /\ Registered(reg.store[u])
      BY <1>0, <1>9 DEF CloseSession, TypeInv, RegType, MaybeId, TableInv
    <2> QED BY <1>5, <1>9, <2>1 DEF CloseSession, signedOn
  <1>10. CASE CleanupExpired
    BY <1>0, <1>5, <1>10, Consts DEF CleanupExpired, TypeInv
  <1> QED BY <1>2, <1>3, <1>4, <1>6, <1>7, <1>8, <1>9, <1>10 DEF PlainStep

\* The sessions ss and their slots go.
Removal(ss) ==
  /\ reg' \in RegType /\ reg'.at = reg.at /\ reg'.inst = reg.inst
  /\ \A u \in Users : reg'.store[u] =
       IF reg.store[u] # None /\ \E s \in ss : reg.store[u] = reg.inst[s] THEN None ELSE reg.store[u]
  /\ \A u \in Users : reg'.sessions[u] = IF \E s \in ss : who[s] = u THEN None ELSE reg.sessions[u]
  /\ \A a \in Addrs : reg'.index[a] = IF \E s \in ss : reg.at[s] = a THEN None ELSE reg.index[a]

LEMMA RemovalOfAll ==
  ASSUME SessionsInv, NEW ss \in SUBSET Ids, reg' = removeSessionsLocked(reg, ss)
  PROVE  Removal(ss)
  <1>1. \A u \in Users : reg.store[u] # None => reg.store[who[reg.store[u]]] = reg.store[u]
    BY DEF SessionsInv, TableInv
  <1>2. reg \in RegType
    BY DEF SessionsInv, TypeInv
  <1> QED BY <1>1, <1>2, SessionsRemoved DEF Removal

LEMMA RemovalOfOne ==
  ASSUME SessionsInv, NEW u \in Users, reg' = RemoveSession(reg, u)
  PROVE  /\ reg'.sessions[u] = None
         /\ \E ss \in SUBSET Ids : Removal(ss) /\ \A s \in ss : s = reg.sessions[u] /\ s # None
  <1>0. reg \in RegType
    BY DEF SessionsInv, TypeInv
  <1>1. CASE reg.sessions[u] = None
    <2>1. Removal({})
      BY <1>0, <1>1 DEF Removal, RemoveSession
    <2> QED BY <1>1, <2>1 DEF RemoveSession
  <1>2. CASE reg.sessions[u] # None
    <2>1. reg.sessions[u] \in Ids
      BY <1>0, <1>2 DEF RegType, MaybeId
    <2>2. Removal({reg.sessions[u]})
      BY <1>2, <2>1, RemovalOfAll DEF RemoveSession
    <2>3. reg'.sessions[u] = None
      BY <1>2, <2>2 DEF Removal, SessionsInv, TableInv
    <2> QED BY <1>2, <2>1, <2>2, <2>3
  <1> QED BY <1>1, <1>2

\* No session is left to a slot that is kept, nor a slot to a session that is removed; where
\* another session has taken the place of a removed one, its OSCAR session is adrift.  The
\* hook of done, if there is one, has run with the step.
LEMMA RemovalKept ==
  ASSUME SessionsInv, TypeInv', LoginInv', LoginsGoOn, NEW ss \in SUBSET Ids, Removal(ss),
         \A s \in ss : who[s] \in Users /\ reg.at[s] \in AddrsOf[who[s]],
         \A s \in ss : LET t == reg.sessions[who[s]] IN t \notin {None, s} => reg.inst[t] \in adrift',
         adrift \subseteq adrift', shut' = shut,
         \A p \in Ids : pc[p] \in {"create", "look", "attach"} => pc'[p] = pc[p],
         NEW done, \A p \in Ids : hookPending(p) => hookPending(p)' \/ p = done,
         done # None => done \in Ids /\ ver[done] # 0 /\ reg'.sessions[who[done]] = None
  PROVE  SessionsInv'
  <1>1. \A u \in Users : reg.store[u] \in MaybeId /\ reg.sessions[u] \in MaybeId
    BY DEF SessionsInv, TypeInv, RegType
  <1>2. TableInv' /\ EarlyInv'
    BY TableShrinks DEF Removal
  <1>3. ASSUME AddressesApart PROVE ReachableByAddress'
    <2> SUFFICES ASSUME NEW u \in Users, NEW s, s = reg'.sessions[u], s # None
                 PROVE  reg'.index[reg'.at[s]] = s
      BY DEF ReachableByAddress
    <2>1. s = reg.sessions[u] /\ ~\E t \in ss : who[t] = u
      BY DEF Removal
    <2>2. reg.index[reg.at[s]] = s /\ reg.at[s] \in AddrsOf[u] /\ reg.at[s] \in Addrs
      BY <1>3, <2>1, Consts DEF SessionsInv, ReachableByAddress, TableInv
    <2>3. ~\E t \in ss : reg.at[t] = reg.at[s]
      BY <1>3, <2>1, <2>2 DEF AddressesApart
    <2> QED BY <2>2, <2>3 DEF Removal
  <1>4. NotStuck'
    <2> SUFFICES ASSUME NEW u \in Users, NEW p, p = reg'.store[u], p \notin adrift' \cup {None}
                 PROVE  \/ pc'[p] \in {"create", "look", "attach"}
                        \/ ver'[p] = 0 /\ (p \in shut' => hookPending(p)')
                        \/ reg'.sessions[u] # None /\ reg'.inst[reg'.sessions[u]] = p
      BY DEF NotStuck
    <2>1. p = reg.store[u] /\ p \in Ids /\ p \notin adrift /\ ~\E s \in ss : p = reg.inst[s]
      BY <1>1 DEF Removal, MaybeId
    <2>2. pc[p] # "none" /\ ver'[p] = ver[p]
      BY <2>1 DEF SessionsInv, TableInv, Registered, Later, LoginsGoOn
    <2>3. CASE pc[p] \in {"create", "look", "attach"}
      BY <2>1, <2>3
    <2>4. CASE ver[p] = 0 /\ (p \in shut => hookPending(p))
      BY <2>1, <2>2, <2>4, Consts
    <2>5. CASE reg.sessions[u] # None /\ reg.inst[reg.sessions[u]] = p
      BY <2>1, <2>5 DEF Removal
    <2> QED BY <2>1, <2>3, <2>4, <2>5 DEF SessionsInv, NotStuck
  <1>5. ClosedLeavesTable'
    <2> SUFFICES ASSUME NEW u \in Users, NEW s, s = reg'.sessions[u], s # None,
                        NEW p, p = reg'.inst[s], p \in shut'
                 PROVE  hookPending(p)' \/ p \in early'
      BY DEF ClosedLeavesTable
    <2>1. s = reg.sessions[u] /\ s \in Ids /\ p = reg.inst[s] /\ p \in Ids /\ p \in shut
      BY <1>1 DEF Removal, MaybeId, SessionsInv, TypeInv
    <2>2. p # done
      <3>1. who[p] = u
        BY <2>1, Consts DEF SessionsInv, TableInv
      <3> QED BY <2>1, <3>1, Consts
    <2>3. hookPending(p) \/ p \in early
      BY <2>1 DEF SessionsInv, ClosedLeavesTable
    <2> QED BY <2>1, <2>2, <2>3 DEF LoginsGoOn
  <1> QED BY <1>2, <1>3, <1>4, <1>5 DEF SessionsInv

LEMMA SlotKept ==
  ASSUME SessionsInv, TypeInv', LoginInv', LoginsGoOn, NEW done \in Ids, ver[done] = 0,
         reg' = freeSlots(reg, {done}), adrift' = adrift, shut' = shut,
         \A p \in Ids : pc[p] \in {"create", "look", "attach"} => pc'[p] = pc[p],
         \A p \in Ids : hookPending(p) => hookPending(p)' \/ p = done
  PROVE  SessionsInv'
  <1>0. reg \in RegType
    BY DEF SessionsInv, TypeInv
  <1>1. /\ \A u \in Users : reg.store[u] \in MaybeId /\ reg.sessions[u] \in MaybeId
        /\ \A s \in Ids : reg.inst[s] \in MaybeId
    BY <1>0 DEF RegType
  <1>2. /\ \A u \in Users : reg'.store[u] = IF reg.store[u] = done THEN None ELSE reg.store[u]
        /\ reg'.sessions = reg.sessions /\ reg'.index = reg.index
        /\ reg'.at = reg.at /\ reg'.inst = reg.inst
    <2>1. \A u \in Users : reg.store[u] # None => reg.store[who[reg.store[u]]] = reg.store[u]
      BY DEF SessionsInv, TableInv
    <2>2. {done} \in SUBSET MaybeId
      BY DEF MaybeId
    <2> QED BY <1>0, <2>1, <2>2, SlotsFreed, Consts
  <1>3. TableInv' /\ EarlyInv'
    BY <1>2, TableShrinks
  <1>4. (AddressesApart => ReachableByAddress)'
    BY <1>2 DEF SessionsInv, ReachableByAddress, AddressesApart
  <1>5. NotStuck'
    <2> SUFFICES ASSUME NEW u \in Users, NEW p, p = reg'.store[u], p \notin adrift' \cup {None}
                 PROVE  \/ pc'[p] \in {"create", "look", "attach"}
                        \/ ver'[p] = 0 /\ (p \in shut' => hookPending(p)')
                        \/ reg'.sessions[u] # None /\ reg'.inst[reg'.sessions[u]] = p
      BY DEF NotStuck
    <2>1. p = reg.store[u] /\ p \in Ids /\ p \notin adrift /\ p # done
      BY <1>1, <1>2 DEF MaybeId
    <2>2. pc[p] # "none" /\ ver'[p] = ver[p]
      BY <2>1 DEF SessionsInv, TableInv, Registered, Later, LoginsGoOn
    <2> QED BY <1>2, <2>1, <2>2 DEF SessionsInv, NotStuck
  <1>6. ClosedLeavesTable'
    <2> SUFFICES ASSUME NEW u \in Users, NEW s, s = reg.sessions[u], s # None,
                        NEW p, p = reg.inst[s], p \in shut
                 PROVE  hookPending(p)' \/ p \in early'
      BY <1>2 DEF ClosedLeavesTable
    <2>1. s \in Ids /\ p \in Ids
      BY <1>1 DEF MaybeId, SessionsInv, TypeInv
    <2>2. p # done
      BY <2>1, Consts DEF SessionsInv, TableInv
    <2>3. hookPending(p) \/ p \in early
      BY DEF SessionsInv, ClosedLeavesTable
    <2> QED BY <2>1, <2>2, <2>3 DEF LoginsGoOn
  <1> QED BY <1>3, <1>4, <1>5, <1>6 DEF SessionsInv

LEMMA HookType ==
  ASSUME SessionsInv, NEW done \in Ids, Registered(done)
  PROVE  closeHook(reg, done) \in RegType
  <1>1. reg \in RegType /\ who[done] \in Users /\ {done} \in SUBSET MaybeId
    BY DEF SessionsInv, TypeInv, LoginInv, Registered, Later, MaybeId
  <1> QED BY <1>1, SlotsFreed, SessionRemoved DEF closeHook

LEMMA HookRuns ==
  ASSUME SessionsInv, TypeInv', LoginInv', LoginsGoOn, NEW done \in Ids, Registered(done),
         reg' = closeHook(reg, done), adrift' = adrift, shut' = shut,
         \A p \in Ids : pc[p] \in {"create", "look", "attach"} => pc'[p] = pc[p],
         \A p \in Ids : hookPending(p) => hookPending(p)' \/ p = done
  PROVE  SessionsInv'
  <1>1. CASE ver[done] = 0
    BY <1>1, SlotKept DEF closeHook
  <1>2. CASE ver[done] # 0
    <2>1. who[done] \in Users
      BY DEF SessionsInv, LoginInv, Registered, Later
    <2>2. reg' = RemoveSession(reg, who[done])
      BY <1>2 DEF closeHook
    <2>3. PICK ss \in SUBSET Ids : Removal(ss) /\ \A s \in ss : s = reg.sessions[who[done]] /\ s # None
      BY <2>1, <2>2, RemovalOfOne
    <2>4. \A s \in ss : who[s] \in Users /\ reg.at[s] \in AddrsOf[who[s]] /\ reg.sessions[who[s]] = s
      BY <2>1, <2>3 DEF SessionsInv, TableInv
    <2>5. reg'.sessions[who[done]] = None
      BY <2>1, <2>2, RemovalOfOne
    <2> QED BY <1>2, <2>3, <2>4, <2>5, RemovalKept
  <1> QED BY <1>1, <1>2

DropStep ==
  \/ \E p \in Ids : runHook(p) \/ logoffRemoves(p) \/ onSessCloseFn(p)
  \/ cleanupRemoves

LEMMA DropKept ==
  ASSUME SessionsInv, DropStep
  PROVE  SessionsInv'
  <1>0. TypeInv /\ LoginInv /\ TableInv
    BY DEF SessionsInv
  <1>1. ASSUME NEW p \in Ids, runHook(p) PROVE SessionsInv'
    <2>1. /\ pc[p] = "hook" /\ pc' = [pc EXCEPT ![p] = "wait"] /\ reg' = closeHook(reg, found[p])
          /\ UNCHANGED <<shut, hooks, lock, who, from, ver, found, idle, leaving, sweep, early, adrift, closes>>
      BY <1>1 DEF runHook, goto
    <2>2. found[p] \in Ids /\ Registered(found[p])
      BY <1>0, <2>1 DEF LoginInv, TableInv, TypeInv, MaybeId
    <2>3. TypeInv'
      BY <1>0, <2>1, <2>2, HookType DEF TypeInv, Places
    <2>4. LoginInv'
      BY <1>0, <2>1 DEF TypeInv, LoginInv
    <2>5. LoginsGoOn
      BY <1>0, <2>1 DEF TypeInv, LoginsGoOn, Registered, Later, TableInv
    <2>6. \A x \in Ids : hookPending(x) => hookPending(x)' \/ x = found[p]
      BY <1>0, <2>1 DEF TypeInv, hookPending
    <2>7. \A x \in Ids : pc[x] \in {"create", "look", "attach"} => pc'[x] = pc[x]
      BY <1>0, <2>1 DEF TypeInv
    <2> QED BY <2>1, <2>2, <2>3, <2>4, <2>5, <2>6, <2>7, HookRuns
  <1>2. ASSUME NEW p \in Ids, onSessCloseFn(p) PROVE SessionsInv'
    <2>1. /\ p \in hooks /\ hooks' = hooks \ {p} /\ reg' = closeHook(reg, p)
          /\ UNCHANGED <<shut, pc, lock, who, from, ver, found, idle, leaving, sweep, early, adrift, closes>>
      BY <1>2 DEF onSessCloseFn, loginVars
    <2>2. Registered(p)
      BY <1>0, <2>1 DEF TableInv
    <2>3. TypeInv'
      BY <1>0, <2>1, <2>2, HookType DEF TypeInv
    <2>4. LoginInv' /\ LoginsGoOn
      BY <1>0, <2>1 DEF LoginInv, LoginsGoOn, Registered, Later, TableInv
    <2>5. \A x \in Ids : hookPending(x) => hookPending(x)' \/ x = p
      BY <2>1 DEF hookPending
    <2> QED BY <2>1, <2>2, <2>3, <2>4, <2>5, HookRuns
  <1>3. ASSUME NEW s \in Ids, logoffRemoves(s) PROVE SessionsInv'
    <2>1. /\ s \in leaving /\ leaving' = leaving \ {s} /\ reg' = RemoveSession(reg, who[s])
          /\ UNCHANGED <<shut, hooks, pc, lock, who, from, ver, found, idle, sweep, early, adrift, closes>>
      BY <1>3 DEF logoffRemoves, loginVars
    <2>2. who[s] \in Users
      BY <1>0, <2>1 DEF TableInv, LoginInv
    <2>3. PICK ss \in SUBSET Ids : Removal(ss) /\ \A x \in ss : x = reg.sessions[who[s]] /\ x # None
      BY <2>1, <2>2, RemovalOfOne
    <2>4. \A x \in ss : who[x] \in Users /\ reg.at[x] \in AddrsOf[who[x]] /\ reg.sessions[who[x]] = x
      BY <1>0, <2>2, <2>3 DEF TableInv
    <2>5. TypeInv'
      BY <1>0, <2>1, <2>3 DEF TypeInv, Removal
    <2>6. LoginInv' /\ LoginsGoOn
      BY <1>0, <2>1 DEF LoginInv, LoginsGoOn, Registered, Later, TableInv
    <2>7. \A x \in Ids : hookPending(x) => hookPending(x)'
      BY <2>1 DEF hookPending
    <2> QED BY <2>1, <2>3, <2>4, <2>5, <2>6, <2>7, RemovalKept
  <1>4. CASE cleanupRemoves
    <2>1. PICK ss : ss = {s \in sweep : reg.sessions[who[s]] # None}
      OBVIOUS
    <2>2. /\ reg' = removeSessionsLocked(reg, ss) /\ sweep' = {}
          /\ adrift' = adrift \cup {reg.inst[reg.sessions[who[s]]] :
                                       s \in {x \in sweep : reg.sessions[who[x]] \notin {None, x}}}
          /\ UNCHANGED <<shut, hooks, pc, lock, who, from, ver, found, idle, leaving, early, closes>>
      BY <1>4, <2>1 DEF cleanupRemoves, loginVars
    <2>3. ss \in SUBSET Ids /\ Removal(ss)
      BY <1>0, <2>1, <2>2, RemovalOfAll DEF TypeInv
    <2>4. \A s \in sweep : who[s] \in Users /\ reg.at[s] \in AddrsOf[who[s]]
      BY <1>0 DEF TypeInv, TableInv, LoginInv
    <2>5. TypeInv'
      <3>1. \A s \in sweep : reg.sessions[who[s]] # None => reg.inst[reg.sessions[who[s]]] \in MaybeId
        BY <1>0, <2>4 DEF TypeInv, RegType, MaybeId
      <3>2. adrift' \in SUBSET MaybeId
        BY <1>0, <2>2, <3>1 DEF TypeInv
      <3> QED BY <1>0, <2>2, <2>3, <3>2 DEF TypeInv, Removal
    <2>6. LoginInv' /\ LoginsGoOn
      BY <1>0, <2>2 DEF LoginInv, LoginsGoOn, Registered, Later, TableInv
    <2>7. \A x \in Ids : hookPending(x) => hookPending(x)'
      BY <2>2 DEF hookPending
    <2>8. /\ adrift \subseteq adrift'
          /\ \A s \in ss : LET t == reg.sessions[who[s]] IN t \notin {None, s} => reg.inst[t] \in adrift'
      BY <2>1, <2>2
    <2> QED BY <2>1, <2>2, <2>3, <2>4, <2>5, <2>6, <2>7, <2>8, RemovalKept
  <1> QED BY <1>1, <1>2, <1>3, <1>4 DEF DropStep

-----------------------------------------------------------------------------
(* The steps that fill the tables. *)

\* A session is made: a pending one, with no instance, or one that comes online.
LEMMA InstallKept ==
  ASSUME SessionsInv, NEW s \in Ids, NEW i \in {None, s},
         pc[s] = IF i = s THEN "create" ELSE "pending",
         pc' = [pc EXCEPT ![s] = IF i = s THEN "online" ELSE "ended"],
         reg' = install(reg, s, i), from' = [from EXCEPT ![s] = None],
         UNCHANGED <<shut, hooks, lock, who, ver, found, idle, leaving, sweep, early, adrift, closes>>
  PROVE  SessionsInv'
  <1> DEFINE u == who[s]
             x == reg.sessions[u]
  <1>0. TypeInv /\ LoginInv /\ TableInv /\ reg \in RegType
    BY DEF SessionsInv, TypeInv
  <1>1. u \in Users /\ from[s] \in AddrsOf[u] /\ from[s] \in Addrs /\ ver[s] # 0
    BY <1>0, Consts DEF LoginInv
  <1>2. x # None => x \in Ids /\ who[x] = u /\ reg.at[x] \in AddrsOf[u]
    BY <1>0, <1>1 DEF TableInv, RegType, MaybeId
  <1>3. /\ reg' \in RegType
        /\ \A y \in Ids : /\ reg'.at[y] = IF y = s THEN from[s] ELSE reg.at[y]
                          /\ reg'.inst[y] = IF y = s THEN i ELSE reg.inst[y]
        /\ \A v \in Users : reg'.store[v] =
             IF x # None /\ reg.store[v] # None /\ reg.store[v] = reg.inst[x]
                /\ reg.store[who[reg.store[v]]] = reg.store[v]
             THEN None ELSE reg.store[v]
        /\ \A v \in Users : reg'.sessions[v] = IF v = u THEN s ELSE reg.sessions[v]
        /\ \A a \in Addrs : reg'.index[a] =
             IF a = from[s] THEN s ELSE IF x # None /\ reg.at[x] = a THEN None ELSE reg.index[a]
    BY <1>0, <1>1, <1>2, Installed DEF MaybeId
  <1> HIDE DEF u, x
  <1>4. TypeInv'
    BY <1>0, <1>3 DEF TypeInv, Places
  <1>5. LoginInv'
    BY <1>0 DEF TypeInv, LoginInv
  <1>6. LoginsGoOn
    BY <1>0 DEF TypeInv, LoginsGoOn, Registered, Later, TableInv
  <1>7. \A p \in Ids : hookPending(p)' <=> hookPending(p)
    BY <1>0 DEF TypeInv, hookPending
  <1>8. TableInv' /\ EarlyInv'
    <2>1. i # None => pc'[s] \in Later
      BY <1>0 DEF TypeInv, Registered, Later
    <2>2. who[s] = u
      BY DEF u
    <2>3. \A v \in Users : LET t == reg'.sessions[v] IN
            t \in {reg.sessions[v], None} \/ (pc[t] # "none" /\ who[t] = v /\ reg'.at[t] \in AddrsOf[v])
      BY <1>1, <1>3, <2>2
    <2>4. \A y \in Ids : reg'.at[y] = reg.at[y] \/ reg'.at[y] \in AddrsOf[who[y]]
      BY <1>1, <1>3, <2>2
    <2>5. \A v \in Users : LET p == reg'.store[v] IN p \in {reg.store[v], None}
      BY <1>3
    <2>6. \A a \in Addrs : LET t == reg'.index[a] IN t \in {reg.index[a], None} \/ pc[t] # "none"
      BY <1>3
    <2>7. \A y \in Ids : LET p == reg'.inst[y] IN
            p \in {reg.inst[y], None}
            \/ (pc[y] # "none" /\ pc[p] # "none" /\ pc'[p] \in Later /\ who[p] = who[y] /\ ver[p] # 0)
      BY <1>1, <1>3, <2>1
    <2> QED BY <1>4, <1>6, <2>3, <2>4, <2>5, <2>6, <2>7, TableChanges
  <1>9. ASSUME AddressesApart PROVE ReachableByAddress'
    <2> SUFFICES ASSUME NEW v \in Users, NEW t, t = reg'.sessions[v], t # None
                 PROVE  reg'.index[reg'.at[t]] = t
      BY DEF ReachableByAddress
    <2>1. CASE v = u
      BY <1>1, <1>3, <2>1
    <2>2. CASE v # u
      <3>1. t = reg.sessions[v] /\ t \in Ids /\ t # s
        BY <1>0, <1>3, <2>2 DEF TableInv, RegType, MaybeId, u
      <3>2. reg.index[reg.at[t]] = t /\ reg.at[t] \in AddrsOf[v] /\ reg.at[t] \in Addrs
        BY <1>0, <1>9, <3>1, Consts DEF SessionsInv, ReachableByAddress, TableInv
      <3>3. reg.at[t] # from[s] /\ (x # None => reg.at[x] # reg.at[t])
        BY <1>1, <1>2, <1>9, <2>2, <3>2 DEF AddressesApart
      <3> QED BY <1>3, <3>1, <3>2, <3>3
    <2> QED BY <2>1, <2>2
  <1>10. NotStuck'
    <2> SUFFICES ASSUME NEW v \in Users, NEW p, p = reg'.store[v], p \notin adrift \cup {None}
                 PROVE  \/ pc'[p] \in {"create", "look", "attach"}
                        \/ ver[p] = 0 /\ (p \in shut => hookPending(p)')
                        \/ reg'.sessions[v] # None /\ reg'.inst[reg'.sessions[v]] = p
      BY DEF NotStuck
    <2>1. p = reg.store[v] /\ p \in Ids /\ who[p] = v /\ Registered(p)
      BY <1>0, <1>3 DEF TableInv, RegType, MaybeId
    <2>2. CASE pc[p] \in {"create", "look", "attach"}
      <3>1. CASE p = s
        <4>1. i = s /\ v = u
          BY <2>1, <2>2, <3>1 DEF u
        <4> QED BY <1>3, <3>1, <4>1, Consts
      <3>2. CASE p # s
        BY <1>0, <2>1, <2>2, <3>2 DEF TypeInv
      <3> QED BY <3>1, <3>2
    <2>3. CASE ver[p] = 0 /\ (p \in shut => hookPending(p))
      BY <1>7, <2>1, <2>3
    <2>4. CASE reg.sessions[v] # None /\ reg.inst[reg.sessions[v]] = p
      <3>1. v # u
        <4> SUFFICES ASSUME v = u PROVE FALSE
          OBVIOUS
        <4>1. x = reg.sessions[v]
          BY DEF x
        <4> QED BY <1>3, <2>1, <2>4, <4>1
      <3>2. reg.sessions[v] \in Ids /\ reg.sessions[v] # s
        BY <1>0, <2>4, <3>1 DEF TableInv, RegType, MaybeId, u
      <3> QED BY <1>3, <2>4, <3>1, <3>2
    <2> QED BY <2>1, <2>2, <2>3, <2>4 DEF SessionsInv, NotStuck
  <1>11. ClosedLeavesTable'
    <2> SUFFICES ASSUME NEW v \in Users, NEW t, t = reg'.sessions[v], t # None,
                        NEW p, p = reg'.inst[t], p \in shut
                 PROVE  hookPending(p)' \/ p \in early
      BY DEF ClosedLeavesTable
    <2>1. p \in Ids
      BY <1>0 DEF TypeInv
    <2>2. CASE v = u
      <3>1. p = s /\ i = s
        BY <1>3, <2>1, <2>2, Consts
      <3> QED BY <3>1 DEF SessionsInv, EarlyInv
    <2>3. CASE v # u
      <3>1. t = reg.sessions[v] /\ t \in Ids /\ t # s
        BY <1>0, <1>3, <2>3 DEF TableInv, RegType, MaybeId, u
      <3>2. p = reg.inst[t]
        BY <1>3, <3>1
      <3> QED BY <1>7, <2>1, <3>1, <3>2 DEF SessionsInv, ClosedLeavesTable
    <2> QED BY <2>2, <2>3
  <1> QED BY <1>4, <1>5, <1>8, <1>9, <1>10, <1>11 DEF SessionsInv

LEMMA CreateKept ==
  ASSUME SessionsInv, NEW p \in Ids, CreatePendingSession(p) \/ CreateSession(p)
  PROVE  SessionsInv'
  <1>1. CASE CreatePendingSession(p)
    BY <1>1, InstallKept, Consts DEF CreatePendingSession, goto
  <1>2. CASE CreateSession(p)
    BY <1>2, InstallKept, Consts DEF CreateSession, goto
  <1> QED BY <1>1, <1>2

\* The session that has just been made has the account's slot, whoever had it before.
LEMMA NewKept ==
  ASSUME SessionsInv, NEW p \in Ids, newSession(p)
  PROVE  SessionsInv'
  <1>0. TypeInv /\ LoginInv /\ TableInv /\ reg \in RegType
    BY DEF SessionsInv, TypeInv
  <1>1. PICK place \in {"online", "look", "create", "ended"} :
          /\ pc[p] = "build" /\ pc' = [pc EXCEPT ![p] = place]
          /\ place = "online" <=> place # "ended" /\ ver[p] = 0
          /\ \/ place # "ended" /\ adrift' = adrift
             \/ place = "ended" /\ adrift' = adrift \cup {p}
          /\ reg' = [reg EXCEPT !.store[who[p]] = p]
          /\ found' = [found EXCEPT ![p] = None]
          /\ UNCHANGED <<shut, hooks, who, from, ver, idle, leaving, sweep, early, closes>>
    BY DEF newSession, goto
  <1>2. who[p] \in Users /\ ~Registered(p)
    BY <1>0, <1>1 DEF LoginInv, Registered, Later
  <1>3. /\ reg' \in RegType /\ reg'.sessions = reg.sessions /\ reg'.index = reg.index
        /\ reg'.at = reg.at /\ reg'.inst = reg.inst
        /\ \A v \in Users : reg'.store[v] = IF v = who[p] THEN p ELSE reg.store[v]
    BY <1>0, <1>1, <1>2 DEF RegType, MaybeId
  <1>4. lock' = [lock EXCEPT ![who[p]] = None]
    BY DEF newSession
  <1>5. TypeInv'
    BY <1>0, <1>1, <1>3 DEF TypeInv, Places, MaybeId
  <1>6. LoginInv'
    BY <1>0, <1>1 DEF TypeInv, LoginInv
  <1>7. LoginsGoOn
    BY <1>0, <1>1 DEF TypeInv, LoginsGoOn, Registered, Later, TableInv
  <1>8. \A x \in Ids : hookPending(x)' <=> hookPending(x)
    BY <1>0, <1>1 DEF TypeInv, hookPending
  <1>9. TableInv' /\ EarlyInv'
    <2>1. \A v \in Users : LET q == reg'.store[v] IN
            q \in {reg.store[v], None} \/ (pc'[q] \in Later /\ who'[q] = v)
      BY <1>0, <1>1, <1>3 DEF TypeInv, Later
    <2> QED BY <1>3, <1>5, <1>7, <2>1, TableChanges
  <1>10. (AddressesApart => ReachableByAddress)'
    BY <1>3 DEF SessionsInv, ReachableByAddress, AddressesApart
  <1>11. NotStuck'
    <2> SUFFICES ASSUME NEW u \in Users, NEW q, q = reg'.store[u], q \notin adrift' \cup {None}
                 PROVE  \/ pc'[q] \in {"create", "look", "attach"}
                        \/ ver'[q] = 0 /\ (q \in shut' => hookPending(q)')
                        \/ reg'.sessions[u] # None /\ reg'.inst[reg'.sessions[u]] = q
      BY DEF NotStuck
    <2>1. CASE u = who[p]
      <3>1. p \notin shut'
        BY <1>0, <1>1, <1>2 DEF TableInv
      <3> QED BY <1>0, <1>1, <1>3, <2>1, <3>1 DEF TypeInv
    <2>2. CASE u # who[p]
      <3>1. q = reg.store[u] /\ q \in Ids /\ q # p
        BY <1>0, <1>2, <1>3, <2>2 DEF TableInv, RegType, MaybeId
      <3> QED BY <1>0, <1>1, <1>3, <1>8, <3>1 DEF TypeInv, SessionsInv, NotStuck
    <2> QED BY <2>1, <2>2
  <1>12. ClosedLeavesTable'
    <2> SUFFICES ASSUME NEW u \in Users, NEW s, s = reg.sessions[u], s # None, NEW q, q = reg.inst[s], q \in shut
                 PROVE  hookPending(q)' \/ q \in early
      BY <1>1, <1>3 DEF ClosedLeavesTable
    <2> QED BY <1>0, <1>8 DEF TypeInv, SessionsInv, ClosedLeavesTable
  <1> QED BY <1>5, <1>6, <1>9, <1>10, <1>11, <1>12 DEF SessionsInv

\* A session in the table moves to an address of its account, and may be given the OSCAR
\* session of a login of that account.
LEMMA MoveKept ==
  ASSUME SessionsInv, TypeInv', LoginInv', LoginsGoOn,
         NEW u \in Users, NEW s \in Ids, s = reg.sessions[u], NEW a \in AddrsOf[u], NEW i \in MaybeId,
         reg'.store = reg.store, reg'.sessions = reg.sessions,
         \A y \in Ids : reg'.at[y] = IF y = s THEN a ELSE reg.at[y],
         \A b \in Addrs : reg'.index[b] = IF b = a THEN s ELSE IF reg.at[s] = b THEN None ELSE reg.index[b],
         \A y \in Ids : reg'.inst[y] = IF y = s THEN i ELSE reg.inst[y],
         reg.inst[s] \in {None, i},
         reg.inst[s] # i => i \in Ids /\ pc[i] = "attach" /\ who[i] = u,
         adrift' = adrift, shut' = shut,
         \A p \in Ids : pc[p] \in {"create", "look", "attach"} => pc'[p] = pc[p] \/ p = i,
         \A p \in Ids : hookPending(p) => hookPending(p)'
  PROVE  SessionsInv'
  <1>0. TypeInv /\ LoginInv /\ TableInv /\ reg \in RegType
    BY DEF SessionsInv, TypeInv
  <1>1. /\ s # None /\ a \in Addrs /\ pc[s] # "none" /\ who[s] = u /\ reg.at[s] \in AddrsOf[u]
        /\ \A v \in Users : reg.sessions[v] \in MaybeId /\ reg.store[v] \in MaybeId
        /\ \A y \in Ids : reg.inst[y] \in MaybeId
    BY <1>0, Consts DEF TableInv, RegType
  <1>2. i # None => i \in Ids /\ Registered(i) /\ who[i] = u /\ ver[i] # 0
    BY <1>0, <1>1 DEF TableInv, LoginInv, MaybeId, Registered, Later
  <1>3. \A v \in Users : v # u /\ reg.sessions[v] # None => reg.sessions[v] \in Ids /\ reg.sessions[v] # s
    BY <1>0, <1>1 DEF TableInv, MaybeId
  <1>4. TableInv' /\ EarlyInv'
    <2>1. \A y \in Ids : LET p == reg'.inst[y] IN
            p \in {reg.inst[y], None}
            \/ (pc[y] # "none" /\ pc[p] # "none" /\ pc'[p] \in Later /\ who[p] = who[y] /\ ver[p] # 0)
      BY <1>1, <1>2 DEF LoginsGoOn, Registered, Later
    <2>2. \A y \in Ids : reg'.at[y] = reg.at[y] \/ reg'.at[y] \in AddrsOf[who[y]]
      BY <1>1
    <2>3. \A b \in Addrs : LET t == reg'.index[b] IN t \in {reg.index[b], None} \/ pc[t] # "none"
      BY <1>1
    <2> QED BY <2>1, <2>2, <2>3, TableChanges
  <1>5. ASSUME AddressesApart PROVE ReachableByAddress'
    <2> SUFFICES ASSUME NEW v \in Users, NEW t, t = reg.sessions[v], t # None
                 PROVE  reg'.index[reg'.at[t]] = t
      BY DEF ReachableByAddress
    <2>1. CASE v = u
      BY <1>1, <2>1
    <2>2. CASE v # u
      <3>1. t \in Ids /\ t # s
        BY <1>3, <2>2
      <3>2. reg.index[reg.at[t]] = t /\ reg.at[t] \in AddrsOf[v] /\ reg.at[t] \in Addrs
        BY <1>0, <1>5, Consts DEF SessionsInv, ReachableByAddress, TableInv
      <3>3. reg.at[t] # a /\ reg.at[t] # reg.at[s]
        BY <1>1, <1>5, <2>2, <3>2 DEF AddressesApart
      <3> QED BY <3>1, <3>2, <3>3
    <2> QED BY <2>1, <2>2
  <1>6. NotStuck'
    <2> SUFFICES ASSUME NEW v \in Users, NEW q, q = reg.store[v], q \notin adrift \cup {None}
                 PROVE  \/ pc'[q] \in {"create", "look", "attach"}
                        \/ ver'[q] = 0 /\ (q \in shut => hookPending(q)')
                        \/ reg.sessions[v] # None /\ reg'.inst[reg.sessions[v]] = q
      BY DEF NotStuck
    <2>1. q \in Ids /\ who[q] = v /\ pc[q] # "none" /\ ver'[q] = ver[q]
      BY <1>0, <1>1 DEF TableInv, MaybeId, LoginsGoOn, Registered, Later
    <2>2. CASE q = i
      BY <1>1, <1>2, <2>1, <2>2
    <2>3. CASE q # i
      <3>1. CASE reg.sessions[v] # None /\ reg.inst[reg.sessions[v]] = q
        <4>1. v # u
          BY <2>1, <2>3, <3>1, Consts
        <4> QED BY <1>3, <3>1, <4>1
      <3> QED BY <2>1, <2>3, <3>1 DEF SessionsInv, NotStuck
    <2> QED BY <2>2, <2>3
  <1>7. ClosedLeavesTable'
    <2> SUFFICES ASSUME NEW v \in Users, NEW t, t = reg.sessions[v], t # None,
                        NEW q, q = reg'.inst[t], q \in shut
                 PROVE  hookPending(q)' \/ q \in early'
      BY DEF ClosedLeavesTable
    <2>1. q \in Ids /\ t \in Ids
      BY <1>0, <1>1 DEF TypeInv, MaybeId
    <2>2. CASE q = reg.inst[t]
      <3>1. hookPending(q) \/ q \in early
        BY <2>2 DEF SessionsInv, ClosedLeavesTable
      <3> QED BY <2>1, <3>1 DEF LoginsGoOn
    <2>3. CASE q # reg.inst[t]
      BY <2>1, <2>3 DEF SessionsInv, EarlyInv, LoginsGoOn
    <2> QED BY <2>2, <2>3
  <1> QED BY <1>4, <1>5, <1>6, <1>7 DEF SessionsInv

LEMMA AttachStep ==
  ASSUME SessionsInv, NEW p \in Ids, attach(p)
  PROVE  SessionsInv'
  <1> DEFINE u == who[p]
             s == reg.sessions[u]
  <1>0. TypeInv /\ LoginInv /\ TableInv /\ reg \in RegType
    BY DEF SessionsInv, TypeInv
  <1>1. /\ pc[p] = "attach" /\ from' = [from EXCEPT ![p] = None]
        /\ UNCHANGED <<shut, hooks, lock, who, ver, found, idle, leaving, sweep, early, closes>>
    BY DEF attach
  <1>2. u \in Users /\ from[p] \in AddrsOf[u] /\ from[p] \in Addrs
    BY <1>0, <1>1, Consts DEF LoginInv
  <1>3. CASE canAttach(reg, p)
    <2>1. reg' = AttachOSCARSession(reg, p) /\ pc' = [pc EXCEPT ![p] = "online"] /\ adrift' = adrift
      BY <1>3 DEF attach, goto
    <2>2. /\ reg' \in RegType /\ reg'.store = reg.store /\ reg'.sessions = reg.sessions
          /\ s \in Ids /\ reg.inst[s] \in {None, p}
          /\ \A y \in Ids : /\ reg'.at[y] = IF y = s THEN from[p] ELSE reg.at[y]
                            /\ reg'.inst[y] = IF y = s THEN p ELSE reg.inst[y]
          /\ \A a \in Addrs : reg'.index[a] =
               IF a = from[p] THEN s ELSE IF reg.at[s] = a THEN None ELSE reg.index[a]
      BY <1>0, <1>2, <1>3, <2>1, Attached
    <2> HIDE DEF u, s
    <2>3. TypeInv'
      BY <1>0, <1>1, <2>1, <2>2 DEF TypeInv, Places
    <2>4. LoginInv'
      BY <1>0, <1>1, <2>1 DEF TypeInv, LoginInv
    <2>5. LoginsGoOn
      BY <1>0, <1>1, <2>1 DEF TypeInv, LoginsGoOn, Registered, Later, TableInv
    <2>6. /\ \A x \in Ids : hookPending(x) => hookPending(x)'
          /\ \A x \in Ids : pc[x] \in {"create", "look", "attach"} => pc'[x] = pc[x] \/ x = p
      BY <1>0, <1>1, <2>1 DEF TypeInv, hookPending
    <2>7. PICK a \in AddrsOf[u] : a = from[p]
      BY <1>2
    <2>8. who[p] = u /\ s = reg.sessions[u] /\ p \in MaybeId
      BY DEF u, s, MaybeId
    <2> QED BY <1>1, <1>2, <2>1, <2>2, <2>3, <2>4, <2>5, <2>6, <2>7, <2>8, MoveKept
  <1>4. CASE ~canAttach(reg, p)
    <2>1. reg' = reg /\ pc' = [pc EXCEPT ![p] = "ended"] /\ adrift' = adrift \cup {p}
      BY <1>4 DEF attach, goto
    <2>2. TypeInv'
      BY <1>0, <1>1, <2>1 DEF TypeInv, Places, MaybeId
    <2>3. LoginInv'
      BY <1>0, <1>1, <2>1 DEF TypeInv, LoginInv
    <2>4. LoginsGoOn
      BY <1>0, <1>1, <2>1 DEF TypeInv, LoginsGoOn, Registered, Later, TableInv
    <2>5. /\ \A x \in Ids : hookPending(x) => hookPending(x)'
          /\ \A x \in Ids : pc[x] \in {"create", "look", "attach"} => pc'[x] = pc[x] \/ x \in adrift'
      BY <1>0, <1>1, <2>1 DEF TypeInv, hookPending
    <2> QED BY <1>1, <2>1, <2>2, <2>3, <2>4, <2>5, TablesKept
  <1> QED BY <1>3, <1>4

LEMMA PingStep ==
  ASSUME SessionsInv, NEW u \in Users, NEW a \in Addrs, handlePing(u, a)
  PROVE  SessionsInv'
  <1>0. TypeInv /\ LoginInv /\ TableInv /\ reg \in RegType
    BY DEF SessionsInv, TypeInv
  <1>1. /\ reg.sessions[u] # None /\ a \in AddrsOf[u] /\ reg' = UpdateSessionAddr(reg, u, a)
        /\ idle' = idle \ {reg.sessions[u]}
        /\ UNCHANGED <<shut, hooks, pc, lock, who, from, ver, found, leaving, sweep, early, adrift, closes>>
    BY DEF handlePing, loginVars
  <1>2. PICK s \in Ids : s = reg.sessions[u]
    BY <1>0, <1>1 DEF RegType, MaybeId
  <1>3. PICK i \in MaybeId : i = reg.inst[s]
    BY <1>0 DEF RegType
  <1>4. /\ reg' \in RegType /\ reg'.store = reg.store /\ reg'.sessions = reg.sessions
        /\ \A y \in Ids : reg'.inst[y] = IF y = s THEN i ELSE reg.inst[y]
        /\ \A y \in Ids : reg'.at[y] = IF y = s THEN a ELSE reg.at[y]
        /\ \A b \in Addrs : reg'.index[b] = IF b = a THEN s ELSE IF reg.at[s] = b THEN None ELSE reg.index[b]
    BY <1>0, <1>1, <1>2, <1>3, AddrUpdated
  <1>5. TypeInv' /\ LoginInv' /\ LoginsGoOn
    BY <1>0, <1>1, <1>4 DEF TypeInv, LoginInv, LoginsGoOn, Registered, Later, TableInv
  <1>6. \A x \in Ids : hookPending(x) => hookPending(x)'
    BY <1>1 DEF hookPending
  <1> QED BY <1>1, <1>2, <1>3, <1>4, <1>5, <1>6, MoveKept

-----------------------------------------------------------------------------
(* The invariant of the tables. *)

LEMMA SessionsStep ==
  ASSUME SessionsInv, SessionNext
  PROVE  SessionsInv'
  <1>1. ASSUME NEW u \in Users, NEW a \in Addrs, NEW v \in Versions[u], handleLogin(u, a, v)
        PROVE  Arrives
    <2>1. arrive(u, a, v, "lock") /\ "lock" \in {"lock", "pending"}
      BY <1>1 DEF handleLogin
    <2> QED BY <2>1 DEF Arrives
  <1>2. ASSUME NEW u \in Users, NEW a \in Addrs, handleGetDeps(u, a)
        PROVE  Arrives
    <2>1. arrive(u, a, 4, "pending") /\ 4 # 0 /\ "pending" \in {"lock", "pending"}
      BY <1>2 DEF handleGetDeps
    <2> QED BY <2>1 DEF Arrives
  <1>3. ASSUME NEW u \in Users, oscarSignOn(u)
        PROVE  Arrives
    <2>1. arrive(u, None, 0, "lock") /\ "lock" \in {"lock", "pending"}
      BY <1>3 DEF oscarSignOn
    <2> QED BY <2>1 DEF Arrives
  <1>4. ASSUME NEW p \in Ids, LoginStep(p)
        PROVE  SessionsInv'
    BY <1>4, CreateKept, NewKept, AttachStep, PlainKept, DropKept DEF LoginStep, PlainStep, DropStep
  <1>5. CASE CleanupExpired \/ \E a \in Addrs : UpdateActivity(a) \/ handleLogoff(a)
    BY <1>5, PlainKept DEF PlainStep
  <1>6. ASSUME NEW p \in Ids, timePasses(p) \/ logoffRemoves(p) \/ onSessCloseFn(p)
        PROVE  SessionsInv'
    BY <1>6, PlainKept, DropKept DEF PlainStep, DropStep
  <1>7. CASE cleanupRemoves
    BY <1>7, DropKept DEF DropStep
  <1>8. ASSUME NEW u \in Users, CloseSession(u)
        PROVE  SessionsInv'
    BY <1>8, PlainKept DEF PlainStep
  <1> QED BY <1>1, <1>2, <1>3, <1>4, <1>5, <1>6, <1>7, <1>8, ArrivalStep, PingStep DEF SessionNext

LEMMA SessionsInit ==
  ASSUME Init
  PROVE  SessionsInv
  <1>1. TypeInv /\ LoginInv
    BY DEF Init, TypeInv, LoginInv, RegType, MaybeId, Places
  <1>2. TableInv /\ EarlyInv
    BY DEF Init, TableInv, EarlyInv
  <1>3. ReachableByAddress /\ NotStuck /\ ClosedLeavesTable
    BY DEF Init, ReachableByAddress, NotStuck, ClosedLeavesTable
  <1> QED BY <1>1, <1>2, <1>3 DEF SessionsInv

LEMMA SessionsStutter ==
  ASSUME SessionsInv, UNCHANGED sessionVars
  PROVE  SessionsInv'
  <1>1. TypeInv' /\ LoginInv' /\ TableInv' /\ EarlyInv'
    BY DEF sessionVars, loginVars, SessionsInv, TypeInv, LoginInv, TableInv, EarlyInv, Registered, Later
  <1>2. (AddressesApart => ReachableByAddress)' /\ NotStuck' /\ ClosedLeavesTable'
    BY DEF sessionVars, loginVars, SessionsInv, AddressesApart, ReachableByAddress, NotStuck,
           ClosedLeavesTable, hookPending
  <1> QED BY <1>1, <1>2 DEF SessionsInv

LEMMA StepOfSessions ==
  ASSUME [Next]_<<sessionVars, msgVars>>
  PROVE  SessionNext \/ UNCHANGED sessionVars
  BY DEF Next, SessionStep, ProcessMessage, ChannelMsgToHost, relay, sendOfflineMessage,
         SendOnlineMessage, handleICBMMessage, pumpStops, handleOfflineMsgReq, DeleteMessages

LEMMA SessionsAlways == Spec => []SessionsInv
  <1>1. MsgInit => SessionsInv
    BY SessionsInit DEF MsgInit
  <1>2. SessionsInv /\ [Next]_<<sessionVars, msgVars>> => SessionsInv'
    BY StepOfSessions, SessionsStep, SessionsStutter
  <1> QED BY <1>1, <1>2, PTL DEF Spec

\* LegacySessionManager's two indices agree (session.go): every session in the table is
\* found by its client's address, after any number of logins, removals and moves, as long as
\* no two accounts use one address.
THEOREM FoundByAddress == Spec => [](AddressesApart => ReachableByAddress)
  <1>1. SessionsInv => (AddressesApart => ReachableByAddress)
    BY DEF SessionsInv
  <1> QED BY <1>1, SessionsAlways, PTL

\* An OSCAR slot that a gateway login has taken is always left to somebody who will free it
\* (session.go, CreateSession and RemoveSession with state/session_manager.go), unless the
\* login failed half-way or the cleanup routine removed the session without it.
THEOREM SlotsHaveOwners == Spec => []NotStuck
  <1>1. SessionsInv => NotStuck
    BY DEF SessionsInv
  <1> QED BY <1>1, SessionsAlways, PTL

\* A legacy session whose OSCAR session was closed goes with it or has the hook still to
\* come (onSessCloseFn), unless the OSCAR session was closed before there was one.
THEOREM ClosedTogether == Spec => []ClosedLeavesTable
  <1>1. SessionsInv => ClosedLeavesTable
    BY DEF SessionsInv
  <1> QED BY <1>1, SessionsAlways, PTL

-----------------------------------------------------------------------------
(* Where a message is. *)

MsgType ==
  /\ at \in [Msgs -> {"none", "host", "relay", "store", "handler", "ended"}]
  /\ sender \in [Msgs -> Senders \cup {None}] /\ queue \in [Msgs -> MaybeId]
  /\ shown \in [Msgs -> Nat] /\ rows \in SUBSET Msgs /\ listed \in SUBSET Msgs
  /\ open \in SUBSET Ids /\ disturbed \in SUBSET Msgs

Nowhere(m) == shown[m] = 0 /\ queue[m] = None /\ m \notin rows \cup listed

Somewhere(m) ==
  \/ shown[m] = 1 /\ queue[m] = None /\ m \notin rows \cup listed
  \/ shown[m] = 0 /\ queue[m] # None /\ m \notin rows \cup listed
  \/ shown[m] = 0 /\ queue[m] = None /\ m \in rows \cup listed

\* What an undisturbed message's sender has found out still holds.
InPlace(m) ==
  /\ at[m] \in {"none", "host", "relay", "store"} => Nowhere(m)
  /\ at[m] \in {"host", "relay", "store"} /\ sender[m] = "legacy" => reg.sessions[To[m]] = None
  /\ at[m] = "relay" => reg.store[To[m]] # None /\ signedOn(reg.store[To[m]])
  /\ at[m] = "handler" => IF reg.sessions[To[m]] = None THEN Somewhere(m) ELSE Nowhere(m)
  /\ at[m] = "ended" => Somewhere(m)
  /\ queue[m] # None => queue[m] \notin shut

PlaceInv == \A m \in Msgs \ disturbed : InPlace(m)

\* What is about to be deleted was listed.
ListInv ==
  \A s \in open : /\ pc[s] # "none"
                  /\ \A m \in rows : To[m] = who[s] => m \in listed \cup disturbed

MessagesInv == SessionsInv /\ MsgType /\ PlaceInv /\ ListInv

LEMMA Unmoved ==
  ASSUME NEW m \in Msgs, InPlace(m), UNCHANGED sessionVars,
         at'[m] = at[m], sender'[m] = sender[m], queue'[m] = queue[m], shown'[m] = shown[m],
         m \in rows' \cup listed' <=> m \in rows \cup listed
  PROVE  InPlace(m)'
  <1>1. Nowhere(m)' <=> Nowhere(m)
    BY DEF Nowhere
  <1>2. Somewhere(m)' <=> Somewhere(m)
    BY DEF Somewhere
  <1> QED BY <1>1, <1>2 DEF InPlace, sessionVars, loginVars, signedOn

LEMMA ListUnmoved ==
  ASSUME ListInv, UNCHANGED sessionVars, open' \subseteq open, rows' \subseteq rows,
         listed \subseteq listed', disturbed \subseteq disturbed'
  PROVE  ListInv'
  BY DEF ListInv, sessionVars, loginVars

\* A sender's next step.
LEMMA SenderStep ==
  ASSUME MessagesInv, NEW m \in Msgs,
         ProcessMessage(m) \/ ChannelMsgToHost(m) \/ relay(m) \/ sendOfflineMessage(m) \/ SendOnlineMessage(m)
  PROVE  MsgType' /\ PlaceInv' /\ ListInv'
  <1>0. /\ SessionsInv /\ MsgType /\ PlaceInv /\ ListInv /\ To[m] \in Users
        /\ reg.store[To[m]] \in MaybeId
    BY LegacyMessagesAssumption DEF MessagesInv, SessionsInv, TypeInv, RegType
  <1>1. ASSUME ProcessMessage(m) PROVE MsgType' /\ PlaceInv' /\ ListInv'
    <2>1. PICK k \in Senders :
            /\ at[m] = "none" /\ sender' = [sender EXCEPT ![m] = k]
            /\ at' = [at EXCEPT ![m] = IF k = "legacy" /\ reg.sessions[To[m]] # None THEN "handler" ELSE "host"]
            /\ UNCHANGED <<sessionVars, queue, rows, shown, listed, blank, asked, open, disturbed>>
      BY <1>1 DEF ProcessMessage, next
    <2>2. MsgType'
      BY <1>0, <2>1 DEF MsgType
    <2>3. ASSUME NEW y \in Msgs \ disturbed PROVE InPlace(y)'
      <3>1. CASE y = m
        BY <1>0, <2>1, <3>1 DEF PlaceInv, MsgType, InPlace, Nowhere, sessionVars, loginVars
      <3>2. CASE y # m
        BY <1>0, <2>1, <3>2, Unmoved DEF PlaceInv, MsgType
      <3> QED BY <3>1, <3>2
    <2> QED BY <1>0, <2>1, <2>2, <2>3, ListUnmoved DEF PlaceInv
  <1>2. ASSUME ChannelMsgToHost(m) PROVE MsgType' /\ PlaceInv' /\ ListInv'
    <2> DEFINE p == reg.store[To[m]]
    <2>1. /\ at[m] = "host"
          /\ at' = [at EXCEPT ![m] = IF p # None /\ signedOn(p) THEN "relay" ELSE "store"]
          /\ UNCHANGED <<sessionVars, sender, queue, rows, shown, listed, blank, asked, open, disturbed>>
      BY <1>2 DEF ChannelMsgToHost, next
    <2>2. MsgType'
      BY <1>0, <2>1 DEF MsgType
    <2>3. ASSUME NEW y \in Msgs \ disturbed PROVE InPlace(y)'
      <3>1. CASE y = m
        BY <1>0, <2>1, <3>1 DEF PlaceInv, MsgType, InPlace, Nowhere, sessionVars, loginVars, signedOn
      <3>2. CASE y # m
        BY <1>0, <2>1, <3>2, Unmoved DEF PlaceInv, MsgType
      <3> QED BY <3>1, <3>2
    <2> QED BY <1>0, <2>1, <2>2, <2>3, ListUnmoved DEF PlaceInv
  <1>3. ASSUME relay(m) PROVE MsgType' /\ PlaceInv' /\ ListInv'
    <2> DEFINE p == reg.store[To[m]]
    <2>1. /\ at[m] = "relay"
          /\ queue' = IF p # None /\ signedOn(p) THEN [queue EXCEPT ![m] = p] ELSE queue
          /\ at' = [at EXCEPT ![m] = IF sender[m] = "legacy" THEN "handler" ELSE "ended"]
          /\ UNCHANGED <<sessionVars, sender, rows, shown, listed, blank, asked, open, disturbed>>
      BY <1>3 DEF relay, return, next
    <2>2. MsgType'
      BY <1>0, <2>1 DEF MsgType
    <2>3. ASSUME NEW y \in Msgs \ disturbed PROVE InPlace(y)'
      <3>1. CASE y = m
        <4>1. p # None /\ signedOn(p) /\ p \notin shut /\ Nowhere(m)
          BY <1>0, <2>1, <2>3, <3>1 DEF PlaceInv, InPlace, signedOn
        <4>2. Somewhere(m)'
          BY <1>0, <2>1, <4>1 DEF Nowhere, Somewhere, MsgType
        <4> QED BY <1>0, <2>1, <2>3, <3>1, <4>1, <4>2 DEF PlaceInv, MsgType, InPlace, sessionVars, loginVars
      <3>2. CASE y # m
        BY <1>0, <2>1, <3>2, Unmoved DEF PlaceInv, MsgType
      <3> QED BY <3>1, <3>2
    <2> QED BY <1>0, <2>1, <2>2, <2>3, ListUnmoved DEF PlaceInv
  <1>4. ASSUME sendOfflineMessage(m) PROVE MsgType' /\ PlaceInv' /\ ListInv'
    <2>1. PICK place \in {"handler", "ended"} :
          /\ at[m] = "store" /\ at' = [at EXCEPT ![m] = place]
          /\ \/ /\ rows' = rows \cup {m}
                /\ disturbed' = IF open = {} THEN disturbed ELSE disturbed \cup {m}
                /\ place = IF sender[m] = "legacy" THEN "handler" ELSE "ended"
             \/ disturbed' = disturbed \cup {m} /\ rows' = rows
          /\ UNCHANGED <<sessionVars, sender, queue, shown, listed, blank, asked, open>>
      BY <1>4 DEF sendOfflineMessage, return, next
    <2>2. MsgType'
      BY <1>0, <2>1 DEF MsgType
    <2>3. ASSUME NEW y \in Msgs \ disturbed' PROVE InPlace(y)'
      <3>0. y \in Msgs \ disturbed /\ InPlace(y)
        BY <1>0, <2>1 DEF PlaceInv
      <3>1. CASE y = m
        <4>1. Nowhere(m) /\ rows' = rows \cup {m} /\ place = IF sender[m] = "legacy" THEN "handler" ELSE "ended"
          BY <2>1, <3>0, <3>1 DEF InPlace
        <4>2. Somewhere(m)'
          BY <2>1, <4>1 DEF Nowhere, Somewhere
        <4> QED BY <1>0, <2>1, <3>0, <3>1, <4>1, <4>2 DEF MsgType, InPlace, sessionVars, loginVars
      <3>2. CASE y # m
        BY <1>0, <2>1, <3>0, <3>2, Unmoved DEF MsgType
      <3> QED BY <3>1, <3>2
    <2>4. ListInv'
      BY <1>0, <2>1 DEF ListInv, sessionVars, loginVars
    <2> QED BY <2>2, <2>3, <2>4 DEF PlaceInv
  <1>5. ASSUME SendOnlineMessage(m) PROVE MsgType' /\ PlaceInv' /\ ListInv'
    <2>1. /\ at[m] = "handler" /\ at' = [at EXCEPT ![m] = "ended"]
          /\ shown' = IF reg.sessions[To[m]] = None THEN shown ELSE [shown EXCEPT ![m] = @ + 1]
          /\ UNCHANGED <<sessionVars, sender, queue, rows, listed, blank, asked, open, disturbed>>
      BY <1>5 DEF SendOnlineMessage, next
    <2>2. MsgType'
      BY <1>0, <2>1 DEF MsgType
    <2>3. ASSUME NEW y \in Msgs \ disturbed PROVE InPlace(y)'
      <3>1. CASE y = m
        <4>1. Somewhere(m)'
          BY <1>0, <2>1, <2>3, <3>1 DEF PlaceInv, InPlace, Nowhere, Somewhere, MsgType
        <4> QED BY <1>0, <2>1, <2>3, <3>1, <4>1 DEF PlaceInv, MsgType, InPlace, sessionVars, loginVars
      <3>2. CASE y # m
        BY <1>0, <2>1, <3>2, Unmoved DEF PlaceInv, MsgType
      <3> QED BY <3>1, <3>2
    <2> QED BY <1>0, <2>1, <2>2, <2>3, ListUnmoved DEF PlaceInv
  <1> QED BY <1>1, <1>2, <1>3, <1>4, <1>5

\* A message is taken from a queue.
LEMMA QueueStep ==
  ASSUME MessagesInv, (\E m \in Msgs : handleICBMMessage(m)) \/ (\E p \in Ids : pumpStops(p))
  PROVE  MsgType' /\ PlaceInv' /\ ListInv'
  <1>0. SessionsInv /\ MsgType /\ PlaceInv /\ ListInv
    BY DEF MessagesInv
  <1>1. ASSUME NEW m \in Msgs, handleICBMMessage(m) PROVE MsgType' /\ PlaceInv' /\ ListInv'
    <2>1. /\ queue[m] # None /\ queue' = [queue EXCEPT ![m] = None]
          /\ \/ disturbed' = disturbed \cup {m} /\ shown' = shown
             \/ shown' = [shown EXCEPT ![m] = @ + 1] /\ disturbed' = disturbed
          /\ UNCHANGED <<sessionVars, at, sender, rows, listed, blank, asked, open>>
      BY <1>1 DEF handleICBMMessage
    <2>2. MsgType'
      BY <1>0, <2>1 DEF MsgType, MaybeId
    <2>3. ASSUME NEW y \in Msgs \ disturbed' PROVE InPlace(y)'
      <3>0. y \in Msgs \ disturbed /\ InPlace(y)
        BY <1>0, <2>1 DEF PlaceInv
      <3>1. CASE y = m
        <4>1. ~Nowhere(m)
          BY <2>1 DEF Nowhere
        <4>2. Somewhere(m) => Somewhere(m)'
          BY <1>0, <2>1, <2>3, <3>1 DEF MsgType, Somewhere
        <4> QED BY <1>0, <2>1, <3>0, <3>1, <4>1, <4>2 DEF MsgType, InPlace, sessionVars, loginVars
      <3>2. CASE y # m
        BY <1>0, <2>1, <3>0, <3>2, Unmoved DEF MsgType
      <3> QED BY <3>1, <3>2
    <2> QED BY <1>0, <2>1, <2>2, <2>3, ListUnmoved DEF PlaceInv
  <1>2. ASSUME NEW p \in Ids, pumpStops(p) PROVE MsgType' /\ PlaceInv' /\ ListInv'
    <2>1. /\ p \in shut /\ queue' = [m \in Msgs |-> IF queue[m] = p THEN None ELSE queue[m]]
          /\ UNCHANGED <<sessionVars, at, sender, rows, shown, listed, blank, asked, open, disturbed>>
      BY <1>2 DEF pumpStops
    <2>2. MsgType'
      BY <1>0, <2>1 DEF MsgType, MaybeId
    <2>3. ASSUME NEW y \in Msgs \ disturbed PROVE InPlace(y)'
      <3>1. InPlace(y) /\ queue[y] # p
        BY <1>0, <2>1, Consts DEF PlaceInv, InPlace
      <3> QED BY <2>1, <3>1, Unmoved
    <2> QED BY <1>0, <2>1, <2>2, <2>3, ListUnmoved DEF PlaceInv
  <1> QED BY <1>1, <1>2

\* A list is sent, or what was listed is deleted.
LEMMA OfflineStep ==
  ASSUME MessagesInv, NEW s \in Ids, handleOfflineMsgReq(s) \/ DeleteMessages(s)
  PROVE  MsgType' /\ PlaceInv' /\ ListInv'
  <1>0. SessionsInv /\ MsgType /\ PlaceInv /\ ListInv
    BY DEF MessagesInv
  <1>1. ASSUME handleOfflineMsgReq(s) PROVE MsgType' /\ PlaceInv' /\ ListInv'
    <2>1. /\ \/ /\ listed' = listed \cup rowsOf(who[s])
                /\ open' \in {open, open \cup {s}} /\ disturbed' = disturbed
             \/ /\ open' = open \cup {s} /\ disturbed' = disturbed \cup rowsOf(who[s])
                /\ listed' = listed
          /\ UNCHANGED <<sessionVars, at, sender, queue, rows, shown>>
      BY <1>1 DEF handleOfflineMsgReq, GetOfflineMessages
    <2>2. pc[s] # "none"
      <3>1. CASE signedOn(s)
        BY <3>1 DEF signedOn
      <3>2. CASE s \in Range(reg.sessions)
        <4>1. PICK u \in Users : s = reg.sessions[u]
          BY <1>0, <3>2 DEF Range, SessionsInv, TypeInv, RegType
        <4> QED BY <1>0, <4>1, Consts DEF SessionsInv, TableInv
      <3> QED BY <1>1, <3>1, <3>2 DEF handleOfflineMsgReq, present
    <2>3. MsgType'
      BY <1>0, <2>1 DEF MsgType, rowsOf
    <2>4. ASSUME NEW y \in Msgs \ disturbed' PROVE InPlace(y)'
      <3>1. InPlace(y)
        BY <1>0, <2>1 DEF PlaceInv
      <3>2. y \in rows' \cup listed' <=> y \in rows \cup listed
        BY <2>1 DEF rowsOf
      <3> QED BY <2>1, <3>1, <3>2, Unmoved
    <2>5. ListInv'
      BY <1>0, <2>1, <2>2 DEF ListInv, rowsOf, sessionVars, loginVars
    <2> QED BY <2>3, <2>4, <2>5 DEF PlaceInv
  <1>2. ASSUME DeleteMessages(s) PROVE MsgType' /\ PlaceInv' /\ ListInv'
    <2>1. /\ s \in open /\ open' = open \ {s} /\ rows' = rows \ rowsOf(who[s])
          /\ UNCHANGED <<sessionVars, at, sender, queue, shown, listed, blank, asked, disturbed>>
      BY <1>2 DEF DeleteMessages
    <2>2. MsgType'
      BY <1>0, <2>1 DEF MsgType
    <2>3. ASSUME NEW y \in Msgs \ disturbed PROVE InPlace(y)'
      <3>1. InPlace(y)
        BY <1>0 DEF PlaceInv
      <3>2. y \in rows' \cup listed' <=> y \in rows \cup listed
        BY <1>0, <2>1 DEF rowsOf, ListInv
      <3> QED BY <2>1, <3>1, <3>2, Unmoved
    <2> QED BY <1>0, <2>1, <2>2, <2>3, ListUnmoved DEF PlaceInv
  <1> QED BY <1>1, <1>2

LEMMA LoginsStay ==
  ASSUME SessionsInv, SessionNext
  PROVE  \A p \in Ids : /\ pc[p] # "none" => who'[p] = who[p] /\ pc'[p] # "none"
                        /\ pc[p] = "online" => pc'[p] = "online"
  <1>0. TypeInv
    BY DEF SessionsInv
  <1>1. ASSUME NEW u \in Users, NEW a, NEW v, NEW place, arrive(u, a, v, place)
        PROVE  \A p \in Ids : /\ pc[p] # "none" => who'[p] = who[p] /\ pc'[p] # "none"
                              /\ pc[p] = "online" => pc'[p] = "online"
    BY <1>0, <1>1 DEF arrive, goto, TypeInv
  <1>2. ASSUME NEW q \in Ids, LoginStep(q)
        PROVE  \A p \in Ids : /\ pc[p] # "none" => who'[p] = who[p] /\ pc'[p] # "none"
                              /\ pc[p] = "online" => pc'[p] = "online"
    <2>1. /\ pc[q] \notin {"none", "online"} /\ who' = who
          /\ \E place \in Places \ {"none"} : pc' = [pc EXCEPT ![q] = place]
      BY <1>2 DEF LoginStep, CreatePendingSession, AddSession, evict, runHook, removed, waitTimeout,
                  newSession, CreateSession, lookForPending, attach, goto, Places
    <2> QED BY <1>0, <2>1 DEF TypeInv
  <1>3. ASSUME who' = who, pc' = pc
        PROVE  \A p \in Ids : /\ pc[p] # "none" => who'[p] = who[p] /\ pc'[p] # "none"
                              /\ pc[p] = "online" => pc'[p] = "online"
    BY <1>3
  <1>4. \/ \E u \in Users, a \in Addrs : handleGetDeps(u, a) \/ \E v \in Versions[u] : handleLogin(u, a, v)
        \/ \E u \in Users : oscarSignOn(u)
        \/ \E p \in Ids : LoginStep(p)
        \/ UNCHANGED loginVars
    BY DEF SessionNext, handlePing, timePasses, logoffRemoves, onSessCloseFn, UpdateActivity,
           handleLogoff, CloseSession, CleanupExpired, cleanupRemoves
  <1>5. UNCHANGED loginVars => who' = who /\ pc' = pc
    BY DEF loginVars
  <1>6. ASSUME NEW u \in Users, NEW a \in Addrs, handleGetDeps(u, a) PROVE \E v, place : arrive(u, a, v, place)
    BY <1>6 DEF handleGetDeps
  <1>7. ASSUME NEW u \in Users, NEW a \in Addrs, NEW v \in Versions[u], handleLogin(u, a, v)
        PROVE  \E place : arrive(u, a, v, place)
    BY <1>7 DEF handleLogin
  <1>8. ASSUME NEW u \in Users, oscarSignOn(u) PROVE \E place : arrive(u, None, 0, place)
    BY <1>8 DEF oscarSignOn
  <1> QED BY <1>1, <1>2, <1>3, <1>4, <1>5, <1>6, <1>7, <1>8

\* A message whose recipient signs on or off, or is closed, on its way is disturbed by it.
LEMMA DisturbingStep ==
  ASSUME MessagesInv, SessionStep
  PROVE  MsgType' /\ PlaceInv' /\ ListInv'
  <1>0. SessionsInv /\ MsgType /\ PlaceInv /\ ListInv /\ SessionNext
    BY DEF MessagesInv, SessionStep
  <1>1. /\ disturbed' = disturbed \cup
             {m \in Msgs : (at[m] \notin {"none", "ended"} \/ queue[m] # None) /\
                LET u == To[m]
                IN <<reg.store[u], reg.sessions[u], shut>> # <<reg'.store[u], reg'.sessions[u], shut'>>}
        /\ UNCHANGED <<at, sender, queue, rows, shown, listed, blank, asked, open>>
    BY DEF SessionStep
  <1>2. MsgType'
    BY <1>0, <1>1 DEF MsgType
  <1>3. ASSUME NEW m \in Msgs \ disturbed' PROVE InPlace(m)'
    <2>1. InPlace(m) /\ To[m] \in Users
      BY <1>0, <1>1, LegacyMessagesAssumption DEF PlaceInv
    <2>2. \/ at[m] \in {"none", "ended"} /\ queue[m] = None
          \/ reg'.store[To[m]] = reg.store[To[m]] /\ reg'.sessions[To[m]] = reg.sessions[To[m]] /\ shut' = shut
      BY <1>1
    <2>3. reg.store[To[m]] \in MaybeId
      BY <1>0, <2>1 DEF SessionsInv, TypeInv, RegType
    <2>4. Nowhere(m)' <=> Nowhere(m)
      BY <1>1 DEF Nowhere
    <2>5. Somewhere(m)' <=> Somewhere(m)
      BY <1>1 DEF Somewhere
    <2>6. CASE at[m] \in {"none", "ended"} /\ queue[m] = None
      BY <1>1, <2>1, <2>4, <2>5, <2>6 DEF InPlace
    <2>7. CASE /\ reg'.store[To[m]] = reg.store[To[m]] /\ reg'.sessions[To[m]] = reg.sessions[To[m]]
               /\ shut' = shut
      <3>1. reg.store[To[m]] # None /\ signedOn(reg.store[To[m]]) => signedOn(reg.store[To[m]])'
        BY <1>0, <2>3, <2>7, LoginsStay DEF signedOn, MaybeId
      <3> QED BY <1>1, <2>1, <2>4, <2>5, <2>7, <3>1 DEF InPlace
    <2> QED BY <2>2, <2>6, <2>7
  <1>4. ListInv'
    BY <1>0, <1>1, LoginsStay DEF ListInv, MsgType
  <1> QED BY <1>2, <1>3, <1>4 DEF PlaceInv

LEMMA MessagesAlways == Spec => []MessagesInv
  <1>1. MsgInit => MessagesInv
    <2> SUFFICES ASSUME MsgInit PROVE MessagesInv
      OBVIOUS
    <2>1. SessionsInv
      BY SessionsInit DEF MsgInit
    <2> QED BY <2>1 DEF MsgInit, MessagesInv, MsgType, MaybeId, PlaceInv, InPlace, Nowhere, ListInv
  <1>2. MessagesInv /\ [Next]_<<sessionVars, msgVars>> => MessagesInv' 
    <2> SUFFICES ASSUME MessagesInv, [Next]_<<sessionVars, msgVars>>
                 PROVE  MsgType' /\ PlaceInv' /\ ListInv' /\ SessionsInv'
      BY DEF MessagesInv
    <2>0. SessionsInv /\ MsgType /\ PlaceInv /\ ListInv
      BY DEF MessagesInv
    <2>1. SessionsInv'
      BY <2>0, StepOfSessions, SessionsStep, SessionsStutter
    <2>2. CASE UNCHANGED <<sessionVars, msgVars>>
      <3>1. MsgType'
        BY <2>0, <2>2 DEF MsgType, msgVars
      <3>2. PlaceInv'
        BY <2>0, <2>2, Unmoved DEF PlaceInv, msgVars
      <3> QED BY <2>0, <2>1, <2>2, <3>1, <3>2, ListUnmoved DEF msgVars
    <2> QED BY <2>1, <2>2, SenderStep, QueueStep, OfflineStep, DisturbingStep DEF Next
  <1> QED BY <1>1, <1>2, PTL DEF Spec

\* A message whose sender has done is in one place (handlers of server/icq_legacy and
\* foodgroup/icbm.go): neither lost nor doubled, though it is looked up three times on its
\* way, unless the recipient came or went, or something failed, meanwhile.
THEOREM NeitherLostNorDoubled == Spec => []OnePlace
  <1>1. MessagesInv => OnePlace
    <2> SUFFICES ASSUME MessagesInv, NEW m \in Msgs, at[m] = "ended" /\ m \notin disturbed
                 PROVE  shown[m] + (IF queue[m] # None THEN 1 ELSE 0) +
                        (IF m \in rows \cup listed THEN 1 ELSE 0) = 1
      BY DEF OnePlace
    <2> QED BY DEF MessagesInv, PlaceInv, InPlace, Somewhere
  <1> QED BY <1>1, MessagesAlways, PTL

=============================================================================
