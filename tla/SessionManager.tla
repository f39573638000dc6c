--------------------------- MODULE SessionManager ---------------------------
(***************************************************************************)
(* The life cycle of a BOS session: InMemorySessionManager                  *)
(* (state/session_manager.go), the close paths of Session and               *)
(* SessionInstance (state/session.go), and the way a front end signs a      *)
(* connection on and off (foodgroup/auth.go RegisterBOSSession, oscar/      *)
(* server.go connectToOSCARService, its TOC and web API counterparts).      *)
(*                                                                          *)
(* A connection c signs on once, so the instance it obtains is named c and  *)
(* the session it creates, if it creates one, is named c as well.  Threads  *)
(* are the connection goroutines and the goroutines that close other        *)
(* people's sessions.  A step is what one goroutine does between two        *)
(* acquisitions of a mutex.  An acquisition of the per-user lock (lockUser) *)
(* is a step of its own.                                                    *)
(***************************************************************************)
EXTENDS Naturals, FiniteSets

CONSTANTS
    Users,         \* screen names
    Conns,         \* connection goroutines, and the instances and sessions they create
    Closers,       \* goroutines that close sessions or instances of others
    UserOf,        \* the account a connection signs on to
    MultiConns,    \* connections whose cookie carries MultiConnFlagsRecentClient
    MaxConcurrentSessions,
    Impatient,     \* connections whose five-second sign-on context may expire
    FailAfterAdd,  \* connections whose RegisterBOSSession may fail after AddSession
    FailInit,      \* connections whose RunOnce function may return an error
    NilClosure,    \* OSCAR connections: their close hook dereferences `instance`
    None

ASSUME ConstantsAssumption ==
    /\ UserOf \in [Conns -> Users]
    /\ Conns \cap Closers = {}
    /\ MultiConns \subseteq Conns
    /\ Impatient \subseteq Conns
    /\ FailAfterAdd \subseteq Conns
    /\ FailInit \subseteq Conns
    /\ NilClosure \subseteq Conns
    /\ MaxConcurrentSessions \in Nat \ {0}
    /\ None \notin Conns \cup Users

Threads == Conns \cup Closers

VARIABLES
    pc,          \* control point of each connection goroutine
    lock,        \* holder of each per-user lock
    store,       \* the session in each account's slot
    multi,       \* sessions whose slot has multiSession set
    removed,     \* sessions whose slot's `removed` channel is closed
    closed,      \* sessions marked closed (closeCh)
    members,     \* Session.instances
    sess,        \* the session an instance belongs to
    stopped,     \* instances whose stopCh is closed
    active,      \* AddSession's local: the slot it found
    init,        \* Session.initOnce and initErr
    registered,  \* accounts with a buddyListMode row
    torn,        \* how many times a session's onSessCloseFn was called
    job,         \* the close call a thread is inside of
    crashed      \* a nil dereference took the process down

vars == <<pc, lock, store, multi, removed, closed, members, sess, stopped,
          active, init, registered, torn, job, crashed>>

\* What AddSession and its callers own, and what the close paths own.
signonVars == <<lock, multi, sess, active, init>>
closeVars  == <<removed, torn, crashed>>

MaybeConn == Conns \cup {None}

\* Control points inside AddSession, between lockUser and unlockUser.
Locked == {"find", "check", "evict", "count", "attach", "wait", "build"}
PCs == Locked \cup {"start", "lock", "joined", "leaked", "ready", "register",
                    "initdone", "initfail", "signon", "online", "leave", "gone"}

Phases == {"idle", "mark", "snap", "flag", "drop", "unregister", "signout"}
Jobs == [phase: Phases, sess: MaybeConn, todo: SUBSET Conns, cur: MaybeConn]
Job(phase, s, todo, c) == [phase |-> phase, sess |-> s, todo |-> todo, cur |-> c]
Idle == Job("idle", None, {}, None)

TypeOK ==
    /\ pc \in [Conns -> PCs]
    /\ lock \in [Users -> MaybeConn]
    /\ store \in [Users -> MaybeConn]
    /\ multi \subseteq Conns
    /\ removed \subseteq Conns
    /\ closed \subseteq Conns
    /\ members \in [Conns -> SUBSET Conns]
    /\ sess \in [Conns -> MaybeConn]
    /\ stopped \subseteq Conns
    /\ active \in [Conns -> MaybeConn]
    /\ init \in [Conns -> {"no", "running", "ok", "err"}]
    /\ registered \subseteq Users
    /\ torn \in [Conns -> 0..1]
    /\ job \in [Threads -> Jobs]
    /\ crashed \in BOOLEAN

Init ==
    /\ pc = [c \in Conns |-> "start"]
    /\ lock = [u \in Users |-> None]
    /\ store = [u \in Users |-> None]
    /\ multi = {}
    /\ removed = {}
    /\ closed = {}
    /\ members = [c \in Conns |-> {}]
    /\ sess = [c \in Conns |-> None]
    /\ stopped = {}
    /\ active = [c \in Conns |-> None]
    /\ init = [c \in Conns |-> "no"]
    /\ registered = {}
    /\ torn = [c \in Conns |-> 0]
    /\ job = [t \in Threads |-> Idle]
    /\ crashed = FALSE

\* A signed-on instance that is not closed (SessionInstance.live).
live(c) == pc[c] = "online" /\ c \notin stopped

Goto(c, from, to) == pc[c] = from /\ pc' = [pc EXCEPT ![c] = to]

-----------------------------------------------------------------------------
(***************************************************************************)
(* Closing.  CloseSession marks the session closed, snapshots its           *)
(* instances and closes each (closeOnly); CloseInstance closes one.  The    *)
(* thread that takes the last instance out runs onSessCloseFn, whose last   *)
(* two calls are UnregisterBuddyList and Signout (RemoveSession).           *)
(***************************************************************************)
StartCloseSession(t, s) ==
    /\ job[t] = Idle
    /\ job' = [job EXCEPT ![t] = Job("mark", s, {}, None)]

StartCloseInstance(t, c) ==
    /\ job[t] = Idle
    /\ job' = [job EXCEPT ![t] = Job("flag", sess[c], {c}, None)]

markClosed(t) ==
    /\ job[t].phase = "mark"
    /\ closed' = closed \cup {job[t].sess}
    /\ job' = [job EXCEPT ![t] = Job("snap", job[t].sess, {}, None)]
    /\ UNCHANGED <<pc, signonVars, closeVars, store, members, stopped, registered>>

snapshot(t) ==
    /\ job[t].phase = "snap"
    /\ job' = [job EXCEPT ![t] = Job("flag", job[t].sess, members[job[t].sess], None)]
    /\ UNCHANGED <<pc, signonVars, closeVars, store, closed, members, stopped, registered>>

\* Instances already closed by another thread are skipped.
closeOnly(t) ==
    /\ job[t].phase = "flag"
    /\ \E c \in job[t].todo \ stopped :
         /\ stopped' = stopped \cup {c}
         /\ job' = [job EXCEPT ![t] = Job("drop", job[t].sess, job[t].todo \ {c}, c)]
    /\ UNCHANGED <<pc, signonVars, closeVars, store, closed, members, registered>>

\* Mutant: reports the last instance only if it is the one to mark the session closed.
removeInstanceUnlessClosed(t) ==
    LET s == job[t].sess
        left == members[s] \ {job[t].cur}
        last == left = {} /\ s \notin closed
    IN  /\ job[t].phase = "drop"
        /\ members' = [members EXCEPT ![s] = left]
        /\ closed' = IF last THEN closed \cup {s} ELSE closed
        /\ torn' = IF last THEN [torn EXCEPT ![s] = @ + 1] ELSE torn
        /\ job' = [job EXCEPT ![t] = Job(IF last THEN "unregister" ELSE "flag", s, job[t].todo, None)]
        /\ UNCHANGED <<pc, signonVars, store, removed, stopped, registered, crashed>>

removeInstanceAndMaybeClose(t) ==
    LET s == job[t].sess
        left == members[s] \ {job[t].cur}
    IN  /\ job[t].phase = "drop"
        /\ members' = [members EXCEPT ![s] = left]
        /\ IF left = {}
             THEN /\ closed' = closed \cup {s}
                  /\ torn' = [torn EXCEPT ![s] = @ + 1]
                  /\ job' = [job EXCEPT ![t] = Job("unregister", s, job[t].todo, None)]
             ELSE /\ job' = [job EXCEPT ![t] = Job("flag", s, job[t].todo, None)]
                  /\ UNCHANGED <<closed, torn>>
        /\ UNCHANGED <<pc, signonVars, store, removed, stopped, registered, crashed>>

\* The OSCAR hook reads the variable RegisterBOSSession's result is assigned to,
\* which is nil until that call has returned without an error.
UnregisterBuddyList(t) ==
    LET s == job[t].sess
    IN  /\ job[t].phase = "unregister"
        /\ IF s \in NilClosure /\ pc[s] \in {"joined", "leaked"}
             THEN /\ crashed' = TRUE
                  /\ UNCHANGED <<registered, job>>
             ELSE /\ registered' = registered \ {UserOf[s]}
                  /\ job' = [job EXCEPT ![t] = Job("signout", s, job[t].todo, None)]
                  /\ UNCHANGED crashed
        /\ UNCHANGED <<pc, signonVars, store, removed, closed, members, stopped, torn>>

\* Mutants: RemoveSession frees the slot whoever is in it; it does not signal `removed`.
RemoveSessionByName(t) ==
    LET u == UserOf[job[t].sess]
    IN  /\ job[t].phase = "signout"
        /\ store' = [store EXCEPT ![u] = None]
        /\ removed' = removed \cup ({store[u]} \ {None})
        /\ job' = [job EXCEPT ![t] = Job("flag", job[t].sess, job[t].todo, None)]
        /\ UNCHANGED <<pc, signonVars, closed, members, stopped, registered, torn, crashed>>

RemoveSessionSilently(t) ==
    LET u == UserOf[job[t].sess]
    IN  /\ job[t].phase = "signout"
        /\ store' = IF store[u] = job[t].sess THEN [store EXCEPT ![u] = None] ELSE store
        /\ job' = [job EXCEPT ![t] = Job("flag", job[t].sess, job[t].todo, None)]
        /\ UNCHANGED <<pc, signonVars, closed, members, stopped, registered, torn, crashed, removed>>

RemoveSession(t) ==
    LET s == job[t].sess
        u == UserOf[s]
    IN  /\ job[t].phase = "signout"
        /\ IF store[u] = s
             THEN /\ store' = [store EXCEPT ![u] = None]
                  /\ removed' = removed \cup {s}
             ELSE UNCHANGED <<store, removed>>
        /\ job' = [job EXCEPT ![t] = Job("flag", s, job[t].todo, None)]
        /\ UNCHANGED <<pc, signonVars, closed, members, stopped, registered, torn, crashed>>

closeReturns(t) ==
    /\ job[t].phase = "flag"
    /\ job[t].todo \subseteq stopped
    /\ job' = [job EXCEPT ![t] = Idle]
    /\ UNCHANGED <<pc, signonVars, closeVars, store, closed, members, stopped, registered>>

CloseStep(t) ==
    \/ markClosed(t) \/ snapshot(t) \/ closeOnly(t) \/ removeInstanceAndMaybeClose(t)
    \/ UnregisterBuddyList(t) \/ RemoveSession(t) \/ closeReturns(t)

-----------------------------------------------------------------------------
(***************************************************************************)
(* AddSession.                                                             *)
(***************************************************************************)
Release(c) == lock' = [lock EXCEPT ![UserOf[c]] = None]

RegisterBOSSession(c) ==
    /\ Goto(c, "start", "lock")
    /\ UNCHANGED <<signonVars, closeVars, store, closed, members, stopped, registered, job>>

lockUser(c) ==
    /\ Goto(c, "lock", "find")
    /\ lock[UserOf[c]] = None
    /\ lock' = [lock EXCEPT ![UserOf[c]] = c]
    /\ UNCHANGED <<closeVars, multi, sess, active, init, store, closed, members,
                   stopped, registered, job>>

findRec(c) ==
    /\ Goto(c, "find", "check")
    /\ active' = [active EXCEPT ![c] = store[UserOf[c]]]
    /\ UNCHANGED <<closeVars, lock, multi, sess, init, store, closed, members,
                   stopped, registered, job>>

\* Where AddSession goes once it knows whether the session it found is closed.
Branch(c) ==
    IF active[c] = None THEN "build"
    ELSE IF active[c] \in closed THEN "wait"
    ELSE IF c \in MultiConns /\ active[c] \in multi THEN "count"
    ELSE "evict"

checkClosed(c) ==
    /\ pc[c] = "check"
    /\ pc' = [pc EXCEPT ![c] = Branch(c)]
    /\ IF Branch(c) = "evict"
         THEN StartCloseSession(c, active[c])
         ELSE UNCHANGED job
    /\ UNCHANGED <<signonVars, closeVars, store, closed, members, stopped, registered>>

\* Mutant: no eviction waits.
evictedNoWait(c) ==
    /\ Goto(c, "evict", "build")
    /\ job[c] = Idle
    /\ UNCHANGED <<signonVars, closeVars, store, closed, members, stopped, registered, job>>

\* CloseSession has returned.  Replacing a single session by a multi-session one
\* builds at once; every other eviction waits for RemoveSession.
evicted(c) ==
    /\ Goto(c, "evict", IF c \in MultiConns THEN "build" ELSE "wait")
    /\ job[c] = Idle
    /\ UNCHANGED <<signonVars, closeVars, store, closed, members, stopped, registered, job>>

\* Mutant: off by one.
checkCountLate(c) ==
    /\ pc[c] = "count"
    /\ IF Cardinality(members[active[c]]) > MaxConcurrentSessions
         THEN pc' = [pc EXCEPT ![c] = "gone"] /\ Release(c)
         ELSE pc' = [pc EXCEPT ![c] = "attach"] /\ UNCHANGED lock
    /\ UNCHANGED <<closeVars, multi, sess, active, init, store, closed, members,
                   stopped, registered, job>>

checkCount(c) ==
    /\ pc[c] = "count"
    /\ IF Cardinality(members[active[c]]) >= MaxConcurrentSessions
         THEN pc' = [pc EXCEPT ![c] = "gone"] /\ Release(c)
         ELSE pc' = [pc EXCEPT ![c] = "attach"] /\ UNCHANGED lock
    /\ UNCHANGED <<closeVars, multi, sess, active, init, store, closed, members,
                   stopped, registered, job>>

\* Mutant: AddInstance accepts a closed session.
AddInstanceToTombstone(c) ==
    /\ Goto(c, "attach", "joined")
    /\ members' = [members EXCEPT ![active[c]] = @ \cup {c}]
    /\ sess' = [sess EXCEPT ![c] = active[c]]
    /\ Release(c)
    /\ UNCHANGED <<closeVars, multi, active, init, store, closed, stopped, registered, job>>

AddInstance(c) ==
    LET s == active[c]
    IN  /\ pc[c] = "attach"
        /\ IF s \in closed
             THEN /\ pc' = [pc EXCEPT ![c] = "wait"]
                  /\ UNCHANGED <<lock, members, sess>>
             ELSE /\ pc' = [pc EXCEPT ![c] = "joined"]
                  /\ members' = [members EXCEPT ![s] = @ \cup {c}]
                  /\ sess' = [sess EXCEPT ![c] = s]
                  /\ Release(c)
        /\ UNCHANGED <<closeVars, multi, active, init, store, closed, stopped, registered, job>>

waitRemoved(c) ==
    /\ Goto(c, "wait", "build")
    /\ active[c] \in removed
    /\ UNCHANGED <<signonVars, closeVars, store, closed, members, stopped, registered, job>>

waitTimeout(c) ==
    /\ c \in Impatient
    /\ Goto(c, "wait", "gone")
    /\ Release(c)
    /\ UNCHANGED <<closeVars, multi, sess, active, init, store, closed, members,
                   stopped, registered, job>>

newSession(c) ==
    /\ Goto(c, "build", "joined")
    /\ sess' = [sess EXCEPT ![c] = c]
    /\ members' = [members EXCEPT ![c] = {c}]
    /\ store' = [store EXCEPT ![UserOf[c]] = c]
    /\ multi' = IF c \in MultiConns THEN multi \cup {c} ELSE multi
    /\ Release(c)
    /\ UNCHANGED <<closeVars, active, init, closed, stopped, registered, job>>

AddSession(c) ==
    \/ lockUser(c) \/ findRec(c) \/ checkClosed(c) \/ evicted(c) \/ checkCount(c)
    \/ AddInstance(c) \/ waitRemoved(c) \/ waitTimeout(c) \/ newSession(c)

-----------------------------------------------------------------------------
(***************************************************************************)
(* The rest of a connection: RegisterBOSSession returns, RunOnce, sign-on   *)
(* completes, the connection ends and its deferred CloseInstance runs.      *)
(***************************************************************************)
registerReturns(c) ==
    /\ \/ Goto(c, "joined", "ready")
       \/ c \in FailAfterAdd /\ Goto(c, "joined", "leaked")
    /\ UNCHANGED <<signonVars, closeVars, store, closed, members, stopped, registered, job>>

\* The first caller of RunOnce runs the function; the others block until it returned.
runOnceEnter(c) ==
    LET s == sess[c]
    IN  /\ pc[c] = "ready"
        /\ \/ /\ init[s] = "no"
              /\ init' = [init EXCEPT ![s] = "running"]
              /\ pc' = [pc EXCEPT ![c] = "register"]
           \/ /\ init[s] \in {"ok", "err"}
              /\ pc' = [pc EXCEPT ![c] = IF init[s] = "ok" THEN "signon" ELSE "leave"]
              /\ UNCHANGED init
        /\ UNCHANGED <<closeVars, lock, multi, sess, active, store, closed, members,
                       stopped, registered, job>>

RegisterBuddyList(c) ==
    /\ \/ /\ Goto(c, "register", "initdone")
          /\ registered' = registered \cup {UserOf[c]}
       \/ /\ c \in FailInit
          /\ Goto(c, "register", "initfail")
          /\ UNCHANGED registered
    /\ IF pc'[c] = "initfail" THEN StartCloseSession(c, sess[c]) ELSE UNCHANGED job
    /\ UNCHANGED <<signonVars, closeVars, store, closed, members, stopped>>

\* recalcWarning succeeds and the per-account goroutines start, or it fails.
initFinish(c) ==
    /\ \/ /\ Goto(c, "initdone", "signon")
          /\ init' = [init EXCEPT ![sess[c]] = "ok"]
          /\ UNCHANGED job
       \/ /\ c \in FailInit
          /\ Goto(c, "initdone", "initfail")
          /\ StartCloseSession(c, sess[c])
          /\ UNCHANGED init
    /\ UNCHANGED <<closeVars, lock, multi, sess, active, store, closed, members,
                   stopped, registered>>

initFailed(c) ==
    /\ Goto(c, "initfail", "leave")
    /\ job[c] = Idle
    /\ init' = [init EXCEPT ![sess[c]] = "err"]
    /\ UNCHANGED <<closeVars, lock, multi, sess, active, store, closed, members,
                   stopped, registered, job>>

RunOnce(c) == runOnceEnter(c) \/ RegisterBuddyList(c) \/ initFinish(c) \/ initFailed(c)

ClientOnline(c) ==
    /\ Goto(c, "signon", "online")
    /\ UNCHANGED <<signonVars, closeVars, store, closed, members, stopped, registered, job>>

\* A request that exceeds the disconnect threshold closes the whole session.
EvaluateRateLimit(c) ==
    /\ Goto(c, "online", "leave")
    /\ StartCloseSession(c, sess[c])
    /\ UNCHANGED <<signonVars, closeVars, store, closed, members, stopped, registered>>

\* The connection drops, or an error ends the goroutine.
disconnect(c) ==
    /\ \/ Goto(c, "online", "leave") \/ Goto(c, "signon", "leave")
    /\ UNCHANGED <<signonVars, closeVars, store, closed, members, stopped, registered, job>>

CloseInstance(c) ==
    /\ Goto(c, "leave", "gone")
    /\ StartCloseInstance(c, c)
    /\ UNCHANGED <<signonVars, closeVars, store, closed, members, stopped, registered>>

Connection(c) ==
    \/ registerReturns(c) \/ RunOnce(c) \/ ClientOnline(c)
    \/ EvaluateRateLimit(c) \/ disconnect(c) \/ CloseInstance(c)

-----------------------------------------------------------------------------
\* DELETE /session/{screenname}: RetrieveSession, then CloseSession on the result.
deleteSessionHandler(k, u) ==
    /\ store[u] # None
    /\ \E c \in members[store[u]] : live(c)
    /\ StartCloseSession(k, store[u])
    /\ UNCHANGED <<pc, signonVars, closeVars, store, closed, members, stopped, registered>>

\* A relay finds a live instance's queue full and closes the instance.
maybeRelayMessage(k, c) ==
    /\ live(c)
    /\ StartCloseInstance(k, c)
    /\ UNCHANGED <<pc, signonVars, closeVars, store, closed, members, stopped, registered>>

Closer(k) ==
    \/ \E u \in Users : deleteSessionHandler(k, u)
    \/ \E c \in Conns : maybeRelayMessage(k, c)

\* Every connection has come and gone, or the process died.
Stopped ==
    /\ \/ crashed
       \/ /\ \A c \in Conns : pc[c] \in {"start", "gone", "leaked"}
          /\ \A t \in Threads : job[t] = Idle
    /\ UNCHANGED vars

Next ==
    \/ ~crashed /\ \E t \in Threads : CloseStep(t)
    \/ ~crashed /\ \E c \in Conns : RegisterBOSSession(c) \/ AddSession(c) \/ Connection(c)
    \/ ~crashed /\ \E k \in Closers : Closer(k)
    \/ Stopped

Spec == Init /\ [][Next]_vars

(***************************************************************************)
(* Fairness.  Goroutines are scheduled (weak fairness of every step that is *)
(* not a decision of a client), and a sync.Mutex in starvation mode hands   *)
(* itself to the oldest waiter (strong fairness of lockUser).  Nothing is   *)
(* assumed of a context expiring, of a client staying or leaving, or of     *)
(* another goroutine closing a session.                                     *)
(***************************************************************************)
ServerStep(c) ==
    \/ findRec(c) \/ checkClosed(c) \/ evicted(c) \/ checkCount(c) \/ AddInstance(c)
    \/ waitRemoved(c) \/ newSession(c) \/ registerReturns(c) \/ RunOnce(c) \/ CloseInstance(c)
    \/ c \in stopped /\ disconnect(c)

Fairness ==
    /\ \A t \in Threads : WF_vars(~crashed /\ CloseStep(t))
    /\ \A c \in Conns : WF_vars(~crashed /\ ServerStep(c)) /\ SF_vars(~crashed /\ lockUser(c))

FairSpec == Spec /\ Fairness

-----------------------------------------------------------------------------
(***************************************************************************)
(* Properties.                                                             *)
(***************************************************************************)
Built == {c \in Conns : sess[c] = c}

\* The close hook of a session runs exactly when, and only once, its last instance
\* has gone, whichever goroutines closed its instances and however they interleaved
\* (removeInstanceAndMaybeClose: "reports whether it was the last one").
TeardownOnce ==
    \A s \in Conns : torn[s] = IF s \in Built /\ members[s] = {} THEN 1 ELSE 0

\* An account has one open session, the one in its slot: a sign-on never publishes a
\* second session beside an open one, and no late RemoveSession takes out its successor.
OpenSessionIsStored ==
    \A s \in Built : s \notin closed => store[UserOf[s]] = s

\* A connection whose instance has not been closed is reachable through its account's
\* slot ("Attaching to it strands the new instance", AddSession).
NoStrandedInstance ==
    \A c \in Conns : sess[c] # None /\ c \notin stopped => store[UserOf[c]] = sess[c]

\* The instance count is read in one critical section and the instance added in
\* another; the per-user lock keeps the bound exact.
InstanceLimit ==
    \A s \in Conns : Cardinality(members[s]) <= MaxConcurrentSessions

\* While the account's initialized session is open its buddy list stays registered: no
\* earlier session's teardown deletes it (AddSession, "evicting it early lets the
\* teardown's UnregisterBuddyList ... land after the fresh session registered").
BuddyListNotPrematurelyDeleted ==
    \A s \in Built : s \notin closed /\ init[s] = "ok" => UserOf[s] \in registered

\* The same as long as no multi-session sign-on replaced a single-session one, the only
\* eviction that does not wait: a sign-on that waits for `removed` is never disturbed by
\* a teardown before it, whoever runs it.
BuddyListKept ==
    (\A c \in Built \cap MultiConns : active[c] # None => active[c] \in multi)
      => BuddyListNotPrematurelyDeleted

\* "buddy list must be cleared before session is closed": a slot is freed only when the
\* account's buddy list row is gone.
ClearedBeforeRemoved ==
    [][\A u \in Users : store[u] # None /\ store'[u] = None => u \notin registered]_vars

\* The close hook a front end passes to AddSession can run as soon as the session is
\* published; it must not depend on the sign-on having returned.
HookNeverPanics == ~crashed

\* ErrMaxConcurrentSessionsReached is returned only when that many connections of the
\* account are signed on or signing on.
RefusedOnlyWhenFull ==
    [][\A c \in Conns : pc[c] = "count" /\ pc'[c] = "gone" =>
         MaxConcurrentSessions <=
           Cardinality({d \in Conns : UserOf[d] = UserOf[c] /\ sess[d] # None
                                       /\ pc[d] \notin {"leaked", "gone"}})]_vars

\* A sign-on ends: nobody waits for ever for the lock or for a teardown, and the wait
\* needs no context to expire.
SignOnEnds == \A c \in Conns : pc[c] = "lock" ~> pc[c] \notin Locked \cup {"lock", "ready"}

\* A closed session leaves its slot, so the account can sign on again.
ClosedSessionIsRemoved ==
    \A s \in Conns : s \in closed ~> store[UserOf[s]] # s

-----------------------------------------------------------------------------
(***************************************************************************)
(* What SessionRegistry leaves out.  A connection is part of a session      *)
(* until its instance is closed, whether or not the registry's bookkeeping  *)
(* has caught up; a session is over when its close hook starts.             *)
(***************************************************************************)
phaseOf == [s \in Conns |-> IF sess[s] # s THEN "none"
                            ELSE IF torn[s] > 0 THEN "over"
                            ELSE IF s \in closed THEN "closing" ELSE "open"]
onOf == [c \in Conns |-> IF c \in stopped THEN None ELSE sess[c]]

Registry == INSTANCE SessionRegistry WITH phase <- phaseOf, on <- onOf, left <- stopped

\* The locks, slots and close paths implement the registry's promise to its services
\* (AddSession, CloseSession, CloseInstance, "Called when last instance goes away").
ImplementsRegistry == Registry!Spec
=============================================================================
