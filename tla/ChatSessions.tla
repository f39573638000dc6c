---------------------------- MODULE ChatSessions ----------------------------
(***************************************************************************)
(* Chat rooms: InMemoryChatSessionManager (state/session_manager.go), the   *)
(* way a connection joins and leaves a room (foodgroup/auth.go, oservice.go *)
(* ClientOnline, chat.go) and RemoveUserFromAllChats, which the teardown of *)
(* a BOS session calls.                                                     *)
(*                                                                          *)
(* A chat session has one instance, so connection, instance and session     *)
(* carry one name, and a room's InMemorySessionManager is named after the   *)
(* connection that created it.  What a thread has left to do is a stack of  *)
(* calls: closing a session whose queue is full runs its close hook inside  *)
(* the relay that found the queue full.  mapMutex is a Go RWMutex: a        *)
(* waiting writer holds back new readers.  A critical section under the     *)
(* write lock is one step; closing an instance is one step (module          *)
(* SessionManager has its interleavings).                                   *)
(***************************************************************************)
EXTENDS Naturals, Sequences, FiniteSets

CONSTANTS
    Users, Rooms,
    Conns,       \* chat connections, the sessions and the managers they create
    Teardowns,   \* teardowns of BOS sessions
    UserOf,      \* the user of a connection or a teardown
    RoomOf,      \* the room a connection joins
    Impatient,   \* connections whose five-second context may expire
    FullQueues,  \* connections whose client may stop reading its queue
    Talkers,     \* connections that send messages to the room
    MaxStarted,  \* bound: connections and teardowns that get under way
    None

ASSUME ConstantsAssumption ==
    /\ UserOf \in [Conns \cup Teardowns -> Users]
    /\ RoomOf \in [Conns -> Rooms]
    /\ Conns \cap Teardowns = {}
    /\ Impatient \subseteq Conns /\ FullQueues \subseteq Conns /\ Talkers \subseteq Conns
    /\ MaxStarted \in Nat
    /\ None \notin Conns

Threads == Conns \cup Teardowns

VARIABLES
    pc,       \* control point of each thread
    calls,    \* the calls a thread is inside of, innermost first
    readers,  \* read locks a thread holds on mapMutex
    pending,  \* the thread that waits for mapMutex's write lock and holds back readers
    rooms,    \* InMemoryChatSessionManager.store: the manager of each room
    slot,     \* the session of each user in each manager
    ulock,    \* holder of each manager's per-user lock
    mgr,      \* AddSession's local: the manager the connection joins
    cookie,   \* sessions whose chat room cookie is set
    signon,   \* instances that completed sign-on
    closed,   \* closed sessions
    users,    \* setOnlineChatUsers' local: the participant list it read
    roster,   \* the participants a client was told of and not told to forget
    crashed   \* RemoveSession panicked

vars == <<pc, calls, readers, pending, rooms, slot, ulock, mgr, cookie, signon,
          closed, users, roster, crashed>>

mutexVars == <<readers, pending>>
roomVars  == <<rooms, slot, crashed>>
joinVars  == <<ulock, mgr, cookie, signon, users>>

MaybeConn == Conns \cup {None}

PCs == {"start", "lock", "find", "wait", "build", "cookie", "joined", "roster", "self",
        "alert", "online", "leave", "gone"}

Call(op, who, kind, to) == [op |-> op, who |-> who, kind |-> kind, to |-> to]

Calls == [op: {"rlock", "relay", "lock", "write", "copy", "each"}, who: Conns \cup Users,
          kind: {"left", "joined", "users", "message", "enter", "restore", "remove", "chats"},
          to: SUBSET Conns]

TypeOK ==
    /\ pc \in [Threads -> PCs]
    /\ \A t \in Threads : \A i \in DOMAIN calls[t] : calls[t][i] \in Calls
    /\ readers \in [Threads -> 0..2 * Cardinality(Conns)]
    /\ pending \in Threads \cup {None}
    /\ rooms \in [Rooms -> MaybeConn]
    /\ slot \in [Conns -> [Users -> MaybeConn]]
    /\ ulock \in [Conns -> [Users -> MaybeConn]]
    /\ mgr \in [Conns -> MaybeConn]
    /\ cookie \subseteq Conns /\ signon \subseteq Conns
    /\ closed \subseteq Conns
    /\ users \in [Conns -> SUBSET Users]
    /\ roster \in [Conns -> SUBSET Users]
    /\ crashed \in BOOLEAN

Init ==
    /\ pc = [t \in Threads |-> "start"]
    /\ calls = [t \in Threads |-> <<>>]
    /\ readers = [t \in Threads |-> 0]
    /\ pending = None
    /\ rooms = [r \in Rooms |-> None]
    /\ slot = [m \in Conns |-> [u \in Users |-> None]]
    /\ ulock = [m \in Conns |-> [u \in Users |-> None]]
    /\ mgr = [c \in Conns |-> None]
    /\ cookie = {} /\ signon = {} /\ closed = {}
    /\ users = [c \in Conns |-> {}]
    /\ roster = [c \in Conns |-> {}]
    /\ crashed = FALSE

live(c) == c \in signon /\ c \notin closed

\* The live sessions of a room's manager (AllSessions).
AllSessions(r) ==
    IF rooms[r] = None THEN {}
    ELSE {s \in Conns : live(s) /\ slot[rooms[r]][UserOf[s]] = s}

mayStart == Cardinality({t \in Threads : pc[t] # "start"}) < MaxStarted

Idle(t) == calls[t] = <<>>
Top(t) == calls[t][1]
Return(t) == calls' = [calls EXCEPT ![t] = Tail(@)]
Become(t, new) == calls' = [calls EXCEPT ![t] = new \o Tail(@)]

\* SignoutChat: alertUserLeft, then RemoveSession.
SignoutChat(s) == <<Call("rlock", s, "left", {}), Call("lock", s, "remove", {})>>

-----------------------------------------------------------------------------
(***************************************************************************)
(* Relays.                                                                 *)
(***************************************************************************)
\* The sessions a relay on behalf of s is for: RelayToScreenName (the user's own
\* session) or RelayToAllExcept.  A session without a cookie names no room.
Recipients(s, kind) ==
    IF s \notin cookie THEN {}
    ELSE {d \in AllSessions(RoomOf[s]) : (kind = "users") = (UserOf[d] = UserOf[s])}

RLock(t) ==
    /\ ~Idle(t) /\ Top(t).op = "rlock"
    /\ pending = None
    /\ readers' = [readers EXCEPT ![t] = @ + 1]
    /\ Become(t, <<Call("relay", Top(t).who, Top(t).kind, Recipients(Top(t).who, Top(t).kind))>>)
    /\ UNCHANGED <<pc, pending, roomVars, joinVars, closed, roster>>

\* What a client knows of the room after a message from, or about, s.
Told(d, s, kind) ==
    CASE kind = "left"   -> roster[d] \ {UserOf[s]}
      [] kind = "joined" -> roster[d] \cup {UserOf[s]}
      [] kind = "users"  -> roster[d] \cup users[s]
      [] OTHER           -> roster[d]

\* RelayToAllExcept and RelayToScreenName hold mapMutex for reading during all of it.
maybeRelayMessage(t) ==
    LET c == Top(t)
        rest(d) == Call("relay", c.who, c.kind, c.to \ {d})
    IN  /\ ~Idle(t) /\ c.op = "relay"
        /\ \E d \in c.to :
             \/ /\ roster' = IF live(d) THEN [roster EXCEPT ![d] = Told(d, c.who, c.kind)] ELSE roster
                /\ Become(t, <<rest(d)>>)
                /\ UNCHANGED closed
             \/ /\ live(d) /\ d \in FullQueues
                /\ closed' = closed \cup {d}
                /\ Become(t, Append(SignoutChat(d), rest(d)))
                /\ UNCHANGED roster
        /\ UNCHANGED <<pc, mutexVars, roomVars, joinVars>>

RUnlock(t) ==
    /\ ~Idle(t) /\ Top(t).op = "relay" /\ Top(t).to = {}
    /\ readers' = [readers EXCEPT ![t] = @ - 1]
    /\ Return(t)
    /\ UNCHANGED <<pc, pending, roomVars, joinVars, closed, roster>>

-----------------------------------------------------------------------------
(***************************************************************************)
(* Critical sections under mapMutex's write lock.                           *)
(***************************************************************************)
Lock(t) ==
    /\ ~Idle(t) /\ Top(t).op = "lock"
    /\ pending = None
    /\ pending' = t
    /\ Become(t, <<Call("write", Top(t).who, Top(t).kind, {})>>)
    /\ UNCHANGED <<pc, readers, roomVars, joinVars, closed, roster>>

Writes(t, kind) ==
    /\ ~Idle(t) /\ Top(t).op = "write" /\ Top(t).kind = kind
    /\ \A x \in Threads : readers[x] = 0
    /\ pending' = None
    /\ Return(t)
    /\ UNCHANGED <<pc, readers, closed, roster>>

enterRoom(c) ==
    LET r == RoomOf[c]
        m == IF rooms[r] = None THEN c ELSE rooms[r]
    IN  /\ Writes(c, "enter")
        /\ rooms' = [rooms EXCEPT ![r] = m]
        /\ mgr' = [mgr EXCEPT ![c] = m]
        /\ UNCHANGED <<slot, crashed, ulock, cookie, signon, users>>

restoreRoom(c) ==
    /\ Writes(c, "restore")
    /\ rooms' = IF rooms[RoomOf[c]] = None THEN [rooms EXCEPT ![RoomOf[c]] = mgr[c]] ELSE rooms
    /\ UNCHANGED <<slot, crashed, joinVars>>

RemoveSession(t) ==
    LET s == Top(t).who
        r == RoomOf[s]
        u == UserOf[s]
        m == rooms[r]
    IN  /\ Writes(t, "remove")
        /\ IF s \notin cookie \/ m = None
             THEN /\ crashed' = TRUE
                  /\ UNCHANGED <<rooms, slot>>
             ELSE /\ slot' = IF slot[m][u] = s THEN [slot EXCEPT ![m][u] = None] ELSE slot
                  /\ rooms' = IF \A v \in Users : slot'[m][v] = None
                                THEN [rooms EXCEPT ![r] = None] ELSE rooms
                  /\ UNCHANGED crashed
        /\ UNCHANGED joinVars

-----------------------------------------------------------------------------
(***************************************************************************)
(* RemoveUserFromAllChats: the managers are copied under the read lock and  *)
(* the user's live sessions are closed outside it.                          *)
(***************************************************************************)
RemoveUserFromAllChats(k) ==
    /\ pc[k] = "start" /\ mayStart
    /\ pc' = [pc EXCEPT ![k] = "gone"]
    /\ calls' = [calls EXCEPT ![k] = <<Call("copy", UserOf[k], "chats", {})>>]
    /\ UNCHANGED <<mutexVars, roomVars, joinVars, closed, roster>>

\* Mutant: the read lock is kept while the sessions are closed.
copyManagersUnderLock(t) ==
    /\ ~Idle(t) /\ Top(t).op = "copy"
    /\ pending = None
    /\ readers' = [readers EXCEPT ![t] = @ + 1]
    /\ Become(t, <<Call("each", Top(t).who, "chats", {rooms[r] : r \in Rooms} \ {None}),
                   Call("relay", Top(t).who, "message", {})>>)
    /\ UNCHANGED <<pc, pending, roomVars, joinVars, closed, roster>>

copyManagers(t) ==
    /\ ~Idle(t) /\ Top(t).op = "copy"
    /\ pending = None
    /\ Become(t, <<Call("each", Top(t).who, "chats", {rooms[r] : r \in Rooms} \ {None})>>)
    /\ UNCHANGED <<pc, mutexVars, roomVars, joinVars, closed, roster>>

closeUserSession(t) ==
    LET c == Top(t)
        rest(m) == Call("each", c.who, "chats", c.to \ {m})
    IN  /\ ~Idle(t) /\ c.op = "each"
        /\ \E m \in c.to :
             LET s == slot[m][c.who]
             IN  IF s # None /\ live(s)
                   THEN /\ closed' = closed \cup {s}
                        /\ Become(t, Append(SignoutChat(s), rest(m)))
                   ELSE /\ Become(t, <<rest(m)>>)
                        /\ UNCHANGED closed
        /\ UNCHANGED <<pc, mutexVars, roomVars, joinVars, roster>>

allClosed(t) ==
    /\ ~Idle(t) /\ Top(t).op = "each" /\ Top(t).to = {}
    /\ Return(t)
    /\ UNCHANGED <<pc, mutexVars, roomVars, joinVars, closed, roster>>

CallStep(t) ==
    \/ RLock(t) \/ maybeRelayMessage(t) \/ RUnlock(t) \/ Lock(t) \/ RemoveSession(t)
    \/ t \in Conns /\ (enterRoom(t) \/ restoreRoom(t))
    \/ copyManagers(t) \/ closeUserSession(t) \/ allClosed(t)

-----------------------------------------------------------------------------
(***************************************************************************)
(* A connection joins the room, takes part and leaves.                      *)
(***************************************************************************)
Goto(c, from, to) == pc[c] = from /\ Idle(c) /\ pc' = [pc EXCEPT ![c] = to]
Invoke(c, cs) == calls' = [calls EXCEPT ![c] = cs]
lockOf(c, holder) == ulock' = [ulock EXCEPT ![mgr[c]][UserOf[c]] = holder]

AddSession(c) ==
    /\ Goto(c, "start", "lock") /\ mayStart
    /\ Invoke(c, <<Call("lock", c, "enter", {})>>)
    /\ UNCHANGED <<mutexVars, roomVars, joinVars, closed, roster>>

\* Mutant: no per-user lock.
lockNobody(c) ==
    /\ Goto(c, "lock", "find")
    /\ lockOf(c, c)
    /\ UNCHANGED <<calls, mutexVars, roomVars, mgr, cookie, signon, users, closed, roster>>

lockUser(c) ==
    /\ Goto(c, "lock", "find")
    /\ ulock[mgr[c]][UserOf[c]] = None
    /\ lockOf(c, c)
    /\ UNCHANGED <<calls, mutexVars, roomVars, mgr, cookie, signon, users, closed, roster>>

\* A session of this user that is still open is closed, and its removal waited for.
evict(c) ==
    LET a == slot[mgr[c]][UserOf[c]]
    IN  /\ Goto(c, "find", IF a = None THEN "build" ELSE "wait")
        /\ IF a # None /\ a \notin closed
             THEN closed' = closed \cup {a} /\ Invoke(c, SignoutChat(a))
             ELSE UNCHANGED <<closed, calls>>
        /\ UNCHANGED <<mutexVars, roomVars, joinVars, roster>>

\* The slot is freed and `removed` closed in one critical section.
waitRemoved(c) ==
    /\ Goto(c, "wait", "build")
    /\ slot[mgr[c]][UserOf[c]] = None
    /\ UNCHANGED <<calls, mutexVars, roomVars, joinVars, closed, roster>>

waitTimeout(c) ==
    /\ c \in Impatient
    /\ Goto(c, "wait", "gone")
    /\ lockOf(c, None)
    /\ UNCHANGED <<calls, mutexVars, roomVars, mgr, cookie, signon, users, closed, roster>>

newSession(c) ==
    /\ Goto(c, "build", "cookie")
    /\ slot' = [slot EXCEPT ![mgr[c]][UserOf[c]] = c]
    /\ lockOf(c, None)
    /\ UNCHANGED <<calls, mutexVars, rooms, crashed, mgr, cookie, signon, users,
                   closed, roster>>

SetChatRoomCookie(c) ==
    /\ Goto(c, "cookie", "joined")
    /\ cookie' = cookie \cup {c}
    /\ Invoke(c, <<Call("lock", c, "restore", {})>>)
    /\ UNCHANGED <<mutexVars, roomVars, ulock, mgr, signon, users, closed, roster>>

\* Mutant: the participant list is read before the instance is live.
ClientOnlineLate(c) ==
    \/ /\ Goto(c, "joined", "roster")
       /\ pending = None
       /\ users' = [users EXCEPT ![c] = {UserOf[d] : d \in AllSessions(RoomOf[c])}]
       /\ UNCHANGED <<calls, mutexVars, roomVars, ulock, mgr, cookie, signon, closed, roster>>
    \/ /\ Goto(c, "roster", "self")
       /\ signon' = signon \cup {c}
       /\ Invoke(c, <<Call("rlock", c, "users", {})>>)
       /\ UNCHANGED <<mutexVars, roomVars, ulock, mgr, cookie, users, closed, roster>>
    \/ /\ Goto(c, "self", "alert")
       /\ Invoke(c, <<Call("rlock", c, "joined", {})>>)
       /\ UNCHANGED <<mutexVars, roomVars, joinVars, closed, roster>>
    \/ /\ Goto(c, "alert", "online")
       /\ UNCHANGED <<calls, mutexVars, roomVars, joinVars, closed, roster>>

\* SetSignonComplete; setOnlineChatUsers reads the participants and relays them to the
\* user; alertUserJoined.
ClientOnline(c) ==
    \/ /\ Goto(c, "joined", "roster")
       /\ signon' = signon \cup {c}
       /\ UNCHANGED <<calls, mutexVars, roomVars, ulock, mgr, cookie, users, closed, roster>>
    \/ /\ Goto(c, "roster", "self")
       /\ pending = None
       /\ users' = [users EXCEPT ![c] = {UserOf[d] : d \in AllSessions(RoomOf[c])}]
       /\ Invoke(c, <<Call("rlock", c, "users", {})>>)
       /\ UNCHANGED <<mutexVars, roomVars, ulock, mgr, cookie, signon, closed, roster>>
    \/ /\ Goto(c, "self", "alert")
       /\ Invoke(c, <<Call("rlock", c, "joined", {})>>)
       /\ UNCHANGED <<mutexVars, roomVars, joinVars, closed, roster>>
    \/ /\ Goto(c, "alert", "online")
       /\ UNCHANGED <<calls, mutexVars, roomVars, joinVars, closed, roster>>

\* A message changes nothing but the queues: only a client that stopped reading matters.
ChannelMsgToHost(c) ==
    /\ c \in Talkers
    /\ Goto(c, "online", "online")
    /\ Invoke(c, <<Call("rlock", c, "message", {})>>)
    /\ UNCHANGED <<mutexVars, roomVars, joinVars, closed, roster>>

disconnect(c) ==
    /\ \/ Goto(c, "joined", "leave") \/ Goto(c, "online", "leave")
    /\ UNCHANGED <<calls, mutexVars, roomVars, joinVars, closed, roster>>

CloseInstance(c) ==
    /\ Goto(c, "leave", "gone")
    /\ IF c \in closed
         THEN UNCHANGED <<closed, calls>>
         ELSE closed' = closed \cup {c} /\ Invoke(c, SignoutChat(c))
    /\ UNCHANGED <<mutexVars, roomVars, joinVars, roster>>

ServerStep(c) ==
    \/ evict(c) \/ waitRemoved(c) \/ newSession(c) \/ SetChatRoomCookie(c)
    \/ pc[c] # "joined" /\ ClientOnline(c)
    \/ c \in closed /\ disconnect(c)
    \/ CloseInstance(c)

Connection(c) ==
    \/ AddSession(c) \/ lockUser(c) \/ evict(c) \/ waitRemoved(c) \/ waitTimeout(c)
    \/ newSession(c) \/ SetChatRoomCookie(c) \/ ClientOnline(c) \/ ChannelMsgToHost(c)
    \/ disconnect(c) \/ CloseInstance(c)

Stopped ==
    /\ crashed \/ \A t \in Threads : Idle(t) /\ pc[t] \in {"start", "joined", "online", "gone"}
    /\ UNCHANGED vars

Next ==
    \/ ~crashed /\ \E t \in Threads : CallStep(t)
    \/ ~crashed /\ \E c \in Conns : Connection(c)
    \/ ~crashed /\ \E k \in Teardowns : RemoveUserFromAllChats(k)
    \/ Stopped

Spec == Init /\ [][Next]_vars

(***************************************************************************)
(* Fairness: goroutines are scheduled, and the mutexes are not unfair for   *)
(* ever to one waiter (Go's sync.Mutex hands itself to a starving waiter,   *)
(* and RWMutex admits the waiting readers when a writer unlocks).           *)
(***************************************************************************)
Fairness ==
    /\ \A t \in Threads : SF_vars(~crashed /\ CallStep(t))
    /\ \A c \in Conns : SF_vars(~crashed /\ ServerStep(c)) /\ SF_vars(~crashed /\ lockUser(c))

FairSpec == Spec /\ Fairness

-----------------------------------------------------------------------------
(***************************************************************************)
(* Properties.                                                             *)
(***************************************************************************)
\* Two participants of one room who have both finished joining, and stayed, each know
\* of the other, however their sign-ons interleaved (ClientOnline: the instance is live
\* before the list is read, the arrival is announced after).  Rooms whose manager was
\* replaced are RoomNotSplit's subject.
ParticipantsSeeEachOther ==
    \A c, d \in Conns :
        /\ {pc[c], pc[d]} = {"online"} /\ Idle(c) /\ Idle(d)
        /\ {c, d} \subseteq AllSessions(RoomOf[c])
        /\ \A x \in Conns : mgr[x] \in {None, mgr[c]}
        => UserOf[d] \in roster[c]

\* A thread that holds mapMutex asks for it again neither to write, when it would wait
\* for itself, nor to read, when it would wait for a writer that waits for it; everybody
\* else would wait for them ("to avoid a deadlock", RemoveUserFromAllChats).
LockNotReentered ==
    \A t \in Threads : readers[t] > 0 /\ ~Idle(t) => Top(t).op \in {"relay", "each"}

\* A user has one open session per room and manager at a time: the earlier one is
\* closed, and its departure announced, before the next is published.
OneSessionPerUser ==
    \A c, d \in Conns :
        c # d /\ UserOf[c] = UserOf[d] /\ mgr[c] # None /\ mgr[c] = mgr[d]
              /\ {pc[c], pc[d]} \subseteq {"cookie", "joined", "roster", "self", "alert", "online"}
        => c \in closed \/ d \in closed

\* RemoveSession panics only for a session that is removed twice, and the close hook,
\* its only caller, runs once.
NeverPanics == ~crashed

\* Everyone who has joined a room is in the manager the room's messages go to
\* (AddSession: "at this point it's guaranteed that the prior chat session and
\* corresponding session manager ... were removed").
RoomNotSplit ==
    \A c \in Conns :
        pc[c] \in {"roster", "self", "alert", "online"} /\ Idle(c) /\ live(c) => c \in AllSessions(RoomOf[c])

\* When a session leaves its slot, nobody who has finished joining still lists its user
\* (SignoutChat "notifies remaining participants of their departure").
DeparturesAreSeen ==
    [][\A m \in Conns, u \in Users : slot[m][u] # None /\ slot'[m][u] = None =>
         \A d \in Conns : pc[d] = "online" /\ live(d) /\ mgr[d] = m /\ UserOf[d] # u
                            => u \notin roster[d]]_vars

\* Whoever leaves is signed out of the room: nobody waits for ever for the registry.
LeavingEnds == \A c \in Conns : pc[c] = "leave" ~> (pc[c] = "gone" /\ Idle(c)) \/ crashed
=============================================================================
