----------------------- MODULE SessionManager_proofs -----------------------
(***************************************************************************)
(* Proofs about SessionManager, for every set of connections, accounts and  *)
(* closers and every limit: its type invariant, that a session's close hook *)
(* runs exactly once, that an account has one open session and no           *)
(* connection is stranded on another; that a session never has more         *)
(* instances than the limit, though they are counted in one critical        *)
(* section and attached in another; that no teardown deletes the buddy list *)
(* of a later session as long as every eviction waits for `removed`; and    *)
(* that each step of the goroutines is a step of SessionRegistry's promise  *)
(* or changes nothing of it.                                                *)
(***************************************************************************)
EXTENDS SessionManager, TLAPS, FiniteSetTheorems

\* Instances of s that have not been closed.
Open(s) == {c \in Conns : sess[c] = s /\ c \notin stopped}

\* Inside AddSession a connection holds its account's lock.
LockInv == \A c \in Conns : pc[c] \in Locked => lock[UserOf[c]] = c

\* Who has an instance, and which sessions exist.
SessInv ==
    /\ \A c \in Conns : sess[c] # None => sess[c] \in Built /\ UserOf[sess[c]] = UserOf[c]
    /\ \A c \in Conns : pc[c] \in Locked \cup {"start", "lock"} => sess[c] = None
    /\ \A c \in Conns : pc[c] \in PCs \ (Locked \cup {"start", "lock", "gone"}) => sess[c] # None
    /\ closed \subseteq Built
    /\ \A c \in stopped : sess[c] # None
    /\ \A u \in Users : store[u] # None => store[u] \in Built /\ UserOf[store[u]] = u

\* The members of a session are its instances that nobody has taken out; it is marked
\* closed in the step that takes out the last.
MembersInv ==
    /\ \A s \in Conns : \A c \in members[s] : sess[c] = s
    /\ \A c \in Conns : sess[c] # None /\ c \notin stopped => c \in members[sess[c]]
    /\ \A s \in Built : members[s] = {} => s \in closed
    /\ \A s \in removed : s \in Built /\ members[s] = {}

\* A thread closing instances works on a session that exists; the instance it is about
\* to take out is still a member, and no other thread is about to take it out.
ThreadInv(t) ==
    /\ job[t].phase # "idle" => job[t].sess \in Built
    /\ job[t].phase = "idle" => job[t].todo = {}
    /\ \A c \in job[t].todo : sess[c] = job[t].sess
    /\ job[t].phase = "drop" => job[t].cur \in members[job[t].sess] /\ job[t].cur \in stopped
    /\ job[t].phase \in {"unregister", "signout"} => members[job[t].sess] = {}

JobInv ==
    /\ \A t \in Threads : ThreadInv(t)
    /\ \A t1, t2 \in Threads :
         t1 # t2 /\ job[t1].phase = "drop" /\ job[t2].phase = "drop" => job[t1].cur # job[t2].cur

\* While c evicts active[c], CloseSession has marked it and its snapshot covers every
\* instance still open.
EvictInv(c) ==
    /\ job[c] # Idle => job[c].sess = active[c]
    /\ job[c].phase # "mark" => active[c] \in closed
    /\ job[c].phase \notin {"mark", "snap"} => Open(active[c]) \subseteq job[c].todo

\* What a connection inside AddSession knows of the session it found: nothing else got
\* into the slot since, and when it builds, that session is closed with all its instances.
AddSessionInv(c) ==
    /\ pc[c] \in Locked \ {"find"} =>
         /\ store[UserOf[c]] \in {None, active[c]}
         /\ active[c] # None => active[c] \in Built /\ UserOf[active[c]] = UserOf[c]
    /\ pc[c] \in {"evict", "count", "attach", "wait"} => active[c] # None
    /\ pc[c] = "wait" => active[c] \in closed
    /\ pc[c] = "build" /\ active[c] # None => active[c] \in closed /\ Open(active[c]) = {}
    /\ pc[c] = "evict" => EvictInv(c)

ActiveInv == \A c \in Conns : AddSessionInv(c)

IInv ==
    /\ TypeOK
    /\ LockInv
    /\ SessInv
    /\ MembersInv
    /\ JobInv
    /\ ActiveInv
    /\ TeardownOnce
    /\ OpenSessionIsStored
    /\ NoStrandedInstance

-----------------------------------------------------------------------------
LEMMA MaybeConnType == None \in MaybeConn /\ Conns \subseteq MaybeConn
  BY DEF MaybeConn

LEMMA JobType ==
  ASSUME NEW p \in Phases, NEW s \in MaybeConn, NEW d \in SUBSET Conns, NEW c \in MaybeConn
  PROVE  Job(p, s, d, c) \in Jobs
  BY DEF Job, Jobs

LEMMA IdleType == Idle \in Jobs /\ Idle.phase = "idle" /\ Idle.todo = {}
  BY MaybeConnType, JobType DEF Idle, Job, Phases

\* The initial state satisfies every part.
LEMMA InitIInv == Init => IInv
  <1> SUFFICES ASSUME Init PROVE IInv
    OBVIOUS
  <1> USE IdleType, ConstantsAssumption
  <1>1. TypeOK
    <2>1. pc \in [Conns -> PCs] /\ lock \in [Users -> MaybeConn] /\ store \in [Users -> MaybeConn]
      BY MaybeConnType DEF Init, PCs
    <2>2. members \in [Conns -> SUBSET Conns] /\ sess \in [Conns -> MaybeConn]
          /\ active \in [Conns -> MaybeConn]
      BY MaybeConnType DEF Init
    <2>3. init \in [Conns -> {"no", "running", "ok", "err"}] /\ torn \in [Conns -> 0..1]
          /\ job \in [Threads -> Jobs]
      BY DEF Init
    <2> QED BY <2>1, <2>2, <2>3 DEF Init, TypeOK
  <1>2. LockInv /\ ActiveInv
    BY DEF Init, LockInv, ActiveInv, AddSessionInv, Locked
  <1>3. SessInv /\ MembersInv
    BY DEF Init, SessInv, MembersInv, Built, PCs, Locked, MaybeConn
  <1>4. JobInv
    BY DEF Init, JobInv, ThreadInv
  <1>5. TeardownOnce /\ OpenSessionIsStored /\ NoStrandedInstance
    BY DEF Init, TeardownOnce, OpenSessionIsStored, NoStrandedInstance, Built, MaybeConn
  <1> QED BY <1>1, <1>2, <1>3, <1>4, <1>5 DEF IInv

\* Every step keeps the variables in their types.
LEMMA TypeStep == IInv /\ Next => TypeOK'
  <1> SUFFICES ASSUME IInv, Next PROVE TypeOK'
    OBVIOUS
  <1> USE MaybeConnType, JobType, IdleType, ConstantsAssumption
  <1>0. TypeOK /\ SessInv /\ JobInv /\ ActiveInv
    BY DEF IInv
  <1>1. ASSUME NEW t \in Threads, markClosed(t) PROVE TypeOK'
    <2>1. job[t].sess \in Conns /\ "snap" \in Phases
      BY <1>0, <1>1 DEF JobInv, ThreadInv, Built, Phases, markClosed
    <2>2. job' \in [Threads -> Jobs] /\ closed' \subseteq Conns
      BY <2>1, <1>0, <1>1 DEF TypeOK, markClosed
    <2> QED BY <2>2, <1>0, <1>1 DEF TypeOK, markClosed, signonVars, closeVars
  <1>2. ASSUME NEW t \in Threads, snapshot(t) PROVE TypeOK'
    BY <1>0, <1>2 DEF snapshot, TypeOK, JobInv, ThreadInv, Built, Phases, Jobs, signonVars, closeVars
  <1>3. ASSUME NEW t \in Threads, closeOnly(t) PROVE TypeOK'
    <2>1. job[t].sess \in MaybeConn /\ job[t].todo \in SUBSET Conns /\ "drop" \in Phases
      BY <1>0 DEF TypeOK, Jobs, Phases
    <2>2. job' \in [Threads -> Jobs] /\ stopped' \subseteq Conns
      BY <2>1, <1>0, <1>3 DEF TypeOK, closeOnly
    <2> QED BY <2>2, <1>0, <1>3 DEF TypeOK, closeOnly, signonVars, closeVars
  <1>4. ASSUME NEW t \in Threads, removeInstanceAndMaybeClose(t) PROVE TypeOK'
    <2>1. job[t].sess \in Conns
      BY <1>0, <1>4 DEF JobInv, ThreadInv, Built, removeInstanceAndMaybeClose
    <2>2. job[t].todo \in SUBSET Conns /\ {"unregister", "flag"} \subseteq Phases
      BY <1>0 DEF TypeOK, Jobs, Phases
    <2>3. job' \in [Threads -> Jobs]
      BY <2>1, <2>2, <1>0, <1>4 DEF TypeOK, removeInstanceAndMaybeClose
    <2>4. members' \in [Conns -> SUBSET Conns] /\ closed' \subseteq Conns
      BY <2>1, <1>0, <1>4 DEF TypeOK, removeInstanceAndMaybeClose
    <2>5. torn' \in [Conns -> 0..1]
      <3>1. job[t].sess \in Built /\ members[job[t].sess] # {}
        BY <1>0, <1>4 DEF JobInv, ThreadInv, removeInstanceAndMaybeClose
      <3>2. torn[job[t].sess] = 0
        BY <3>1, <2>1 DEF IInv, TeardownOnce
      <3> QED BY <3>2, <2>1, <1>0, <1>4 DEF TypeOK, removeInstanceAndMaybeClose
    <2> QED BY <2>3, <2>4, <2>5, <1>0, <1>4 DEF TypeOK, removeInstanceAndMaybeClose, signonVars
  <1>5. ASSUME NEW t \in Threads, UnregisterBuddyList(t) PROVE TypeOK'
    <2>1. job[t].sess \in MaybeConn /\ job[t].todo \in SUBSET Conns /\ "signout" \in Phases
      BY <1>0 DEF TypeOK, Jobs, Phases
    <2>2. job' \in [Threads -> Jobs]
      BY <2>1, <1>0, <1>5 DEF TypeOK, UnregisterBuddyList
    <2>3. registered' \subseteq Users /\ crashed' \in BOOLEAN
      BY <1>0, <1>5 DEF TypeOK, UnregisterBuddyList
    <2> QED BY <2>2, <2>3, <1>0, <1>5 DEF TypeOK, UnregisterBuddyList, signonVars
  <1>6. ASSUME NEW t \in Threads, RemoveSession(t) PROVE TypeOK'
    <2>1. job[t].sess \in Conns /\ job[t].todo \in SUBSET Conns /\ "flag" \in Phases
      BY <1>0, <1>6 DEF TypeOK, JobInv, ThreadInv, Built, Jobs, Phases, RemoveSession
    <2>2. job' \in [Threads -> Jobs]
      BY <2>1, <1>0, <1>6 DEF TypeOK, RemoveSession
    <2>3. store' \in [Users -> MaybeConn] /\ removed' \subseteq Conns
      BY <2>1, <1>0, <1>6 DEF TypeOK, RemoveSession
    <2> QED BY <2>2, <2>3, <1>0, <1>6 DEF TypeOK, RemoveSession, signonVars
  <1>7. ASSUME NEW t \in Threads, closeReturns(t) PROVE TypeOK'
    BY <1>0, <1>7 DEF closeReturns, TypeOK, JobInv, ThreadInv, Built, Phases, Jobs, signonVars, closeVars
  <1>8. ASSUME NEW c \in Conns, RegisterBOSSession(c) PROVE TypeOK'
    BY <1>0, <1>8 DEF RegisterBOSSession, TypeOK, SessInv, ActiveInv, AddSessionInv, Built, Goto, PCs, Locked, Phases, Threads, Branch, Release, StartCloseSession, StartCloseInstance, signonVars, closeVars
  <1>9. ASSUME NEW c \in Conns, lockUser(c) PROVE TypeOK'
    <2>1. pc' \in [Conns -> PCs]
      BY <1>0, <1>9 DEF TypeOK, lockUser, Goto, PCs, Locked
    <2>2. lock' \in [Users -> MaybeConn]
      BY <1>0, <1>9 DEF TypeOK, lockUser
    <2> QED BY <2>1, <2>2, <1>0, <1>9 DEF TypeOK, lockUser, closeVars
  <1>10. ASSUME NEW c \in Conns, findRec(c) PROVE TypeOK'
    <2>1. pc' \in [Conns -> PCs]
      BY <1>0, <1>10 DEF TypeOK, findRec, Goto, PCs, Locked
    <2>2. active' \in [Conns -> MaybeConn]
      BY <1>0, <1>10 DEF TypeOK, findRec
    <2> QED BY <2>1, <2>2, <1>0, <1>10 DEF TypeOK, findRec, closeVars
  <1>11. ASSUME NEW c \in Conns, checkClosed(c) PROVE TypeOK'
    <2>1. pc' \in [Conns -> PCs]
      BY <1>0, <1>11 DEF TypeOK, checkClosed, Branch, PCs, Locked
    <2>2. job' \in [Threads -> Jobs]
      BY <1>0, <1>11 DEF TypeOK, checkClosed, StartCloseSession, Phases, Threads
    <2> QED BY <2>1, <2>2, <1>0, <1>11 DEF TypeOK, checkClosed, signonVars, closeVars
  <1>12. ASSUME NEW c \in Conns, evicted(c) PROVE TypeOK'
    BY <1>0, <1>12 DEF evicted, TypeOK, SessInv, ActiveInv, AddSessionInv, Built, Goto, PCs, Locked, Phases, Threads, Branch, Release, StartCloseSession, StartCloseInstance, signonVars, closeVars
  <1>13. ASSUME NEW c \in Conns, checkCount(c) PROVE TypeOK'
    BY <1>0, <1>13 DEF checkCount, TypeOK, SessInv, ActiveInv, AddSessionInv, Built, Goto, PCs, Locked, Phases, Threads, Branch, Release, StartCloseSession, StartCloseInstance, signonVars, closeVars
  <1>14. ASSUME NEW c \in Conns, AddInstance(c) PROVE TypeOK'
    <2>1. active[c] \in Conns
      BY <1>0, <1>14 DEF AddInstance, ActiveInv, AddSessionInv, Built, Locked
    <2>2. pc' \in [Conns -> PCs] /\ lock' \in [Users -> MaybeConn]
      BY <1>0, <1>14 DEF TypeOK, AddInstance, Release, PCs, Locked
    <2>3. sess' \in [Conns -> MaybeConn] /\ members' \in [Conns -> SUBSET Conns]
      BY <2>1, <1>0, <1>14 DEF TypeOK, AddInstance
    <2> QED BY <2>2, <2>3, <1>0, <1>14 DEF TypeOK, AddInstance, closeVars
  <1>15. ASSUME NEW c \in Conns, waitRemoved(c) PROVE TypeOK'
    BY <1>0, <1>15 DEF waitRemoved, TypeOK, SessInv, ActiveInv, AddSessionInv, Built, Goto, PCs, Locked, Phases, Threads, Branch, Release, StartCloseSession, StartCloseInstance, signonVars, closeVars
  <1>16. ASSUME NEW c \in Conns, waitTimeout(c) PROVE TypeOK'
    <2>1. pc' \in [Conns -> PCs]
      BY <1>0, <1>16 DEF TypeOK, waitTimeout, Goto, PCs, Locked
    <2>2. lock' \in [Users -> MaybeConn]
      BY <1>0, <1>16 DEF TypeOK, waitTimeout, Release
    <2> QED BY <2>1, <2>2, <1>0, <1>16 DEF TypeOK, waitTimeout, closeVars
  <1>17. ASSUME NEW c \in Conns, newSession(c) PROVE TypeOK'
    <2>1. pc' \in [Conns -> PCs]
      BY <1>0, <1>17 DEF TypeOK, newSession, Goto, PCs, Locked
    <2>2. lock' \in [Users -> MaybeConn] /\ store' \in [Users -> MaybeConn]
      BY <1>0, <1>17 DEF TypeOK, newSession, Release
    <2>3. sess' \in [Conns -> MaybeConn] /\ members' \in [Conns -> SUBSET Conns]
      BY <1>0, <1>17 DEF TypeOK, newSession
    <2>4. multi' \subseteq Conns
      BY <1>0, <1>17 DEF TypeOK, newSession
    <2> QED BY <2>1, <2>2, <2>3, <2>4, <1>0, <1>17 DEF TypeOK, newSession, closeVars
  <1>18. ASSUME NEW c \in Conns, registerReturns(c) PROVE TypeOK'
    BY <1>0, <1>18 DEF registerReturns, TypeOK, SessInv, ActiveInv, AddSessionInv, Built, Goto, PCs, Locked, Phases, Threads, Branch, Release, StartCloseSession, StartCloseInstance, signonVars, closeVars
  <1>19. ASSUME NEW c \in Conns, runOnceEnter(c) PROVE TypeOK'
    BY <1>0, <1>19 DEF runOnceEnter, TypeOK, SessInv, ActiveInv, AddSessionInv, Built, Goto, PCs, Locked, Phases, Threads, Branch, Release, StartCloseSession, StartCloseInstance, signonVars, closeVars
  <1>20. ASSUME NEW c \in Conns, RegisterBuddyList(c) PROVE TypeOK'
    BY <1>0, <1>20 DEF RegisterBuddyList, TypeOK, SessInv, ActiveInv, AddSessionInv, Built, Goto, PCs, Locked, Phases, Threads, Branch, Release, StartCloseSession, StartCloseInstance, signonVars, closeVars
  <1>21. ASSUME NEW c \in Conns, initFinish(c) PROVE TypeOK'
    BY <1>0, <1>21 DEF initFinish, TypeOK, SessInv, ActiveInv, AddSessionInv, Built, Goto, PCs, Locked, Phases, Threads, Branch, Release, StartCloseSession, StartCloseInstance, signonVars, closeVars
  <1>22. ASSUME NEW c \in Conns, initFailed(c) PROVE TypeOK'
    BY <1>0, <1>22 DEF initFailed, TypeOK, SessInv, ActiveInv, AddSessionInv, Built, Goto, PCs, Locked, Phases, Threads, Branch, Release, StartCloseSession, StartCloseInstance, signonVars, closeVars
  <1>23. ASSUME NEW c \in Conns, ClientOnline(c) PROVE TypeOK'
    BY <1>0, <1>23 DEF ClientOnline, TypeOK, SessInv, ActiveInv, AddSessionInv, Built, Goto, PCs, Locked, Phases, Threads, Branch, Release, StartCloseSession, StartCloseInstance, signonVars, closeVars
  <1>24. ASSUME NEW c \in Conns, EvaluateRateLimit(c) PROVE TypeOK'
    BY <1>0, <1>24 DEF EvaluateRateLimit, TypeOK, SessInv, ActiveInv, AddSessionInv, Built, Goto, PCs, Locked, Phases, Threads, Branch, Release, StartCloseSession, StartCloseInstance, signonVars, closeVars
  <1>25. ASSUME NEW c \in Conns, disconnect(c) PROVE TypeOK'
    BY <1>0, <1>25 DEF disconnect, TypeOK, SessInv, ActiveInv, AddSessionInv, Built, Goto, PCs, Locked, Phases, Threads, Branch, Release, StartCloseSession, StartCloseInstance, signonVars, closeVars
  <1>26. ASSUME NEW c \in Conns, CloseInstance(c) PROVE TypeOK'
    BY <1>0, <1>26 DEF CloseInstance, TypeOK, SessInv, ActiveInv, AddSessionInv, Built, Goto, PCs, Locked, Phases, Threads, Branch, Release, StartCloseSession, StartCloseInstance, signonVars, closeVars
  <1>27. ASSUME NEW k \in Closers, Closer(k) PROVE TypeOK'
    <2>1. ASSUME NEW u \in Users, deleteSessionHandler(k, u) PROVE TypeOK'
      <3>1. job' \in [Threads -> Jobs]
        BY <1>0, <2>1 DEF TypeOK, deleteSessionHandler, StartCloseSession, Phases, Threads
      <3> QED BY <3>1, <1>0, <2>1 DEF TypeOK, deleteSessionHandler, signonVars, closeVars
    <2>2. ASSUME NEW c \in Conns, maybeRelayMessage(k, c) PROVE TypeOK'
      <3>1. job' \in [Threads -> Jobs]
        BY <1>0, <2>2 DEF TypeOK, maybeRelayMessage, StartCloseInstance, Phases, Threads
      <3> QED BY <3>1, <1>0, <2>2 DEF TypeOK, maybeRelayMessage, signonVars, closeVars
    <2> QED BY <2>1, <2>2, <1>27 DEF Closer
  <1>28. CASE Stopped
    BY <1>0, <1>28 DEF TypeOK, Stopped, vars
  <1> QED
    BY <1>1, <1>2, <1>3, <1>4, <1>5, <1>6, <1>7, <1>8, <1>9, <1>10, <1>11, <1>12, <1>13, <1>14, <1>15, <1>16, <1>17, <1>18, <1>19, <1>20, <1>21, <1>22, <1>23, <1>24, <1>25, <1>26, <1>27, <1>28
    DEF Next, CloseStep, AddSession, RunOnce, Connection

-----------------------------------------------------------------------------
\* The inductive steps, one lemma per part.  Each lists the actions that touch the
\* variables of its part; every other action leaves them alone.

LEMMA LockStep == IInv /\ Next => LockInv'
  <1> SUFFICES ASSUME IInv, Next PROVE LockInv'
    OBVIOUS
  <1>0. TypeOK /\ LockInv
    BY DEF IInv
  <1>1. CASE UNCHANGED <<pc, lock>>
    BY <1>0, <1>1 DEF LockInv
  <1>2. ASSUME NEW c \in Conns, lockUser(c) PROVE LockInv'
    BY ConstantsAssumption, <1>0, <1>2 DEF TypeOK, LockInv, lockUser, Goto, Locked
  <1>3. ASSUME NEW c \in Conns, Release(c), pc' = [pc EXCEPT ![c] = pc'[c]],
               pc[c] \in Locked, pc'[c] \notin Locked
        PROVE  LockInv'
    BY <1>0, <1>3 DEF TypeOK, LockInv, Release
  <1>4. ASSUME NEW c \in Conns, UNCHANGED lock, pc' = [pc EXCEPT ![c] = pc'[c]],
               pc'[c] \in Locked => pc[c] \in Locked
        PROVE  LockInv'
    BY <1>0, <1>4 DEF TypeOK, LockInv
  <1>5. ASSUME NEW t \in Threads, CloseStep(t) PROVE LockInv'
    BY <1>1, <1>5 DEF CloseStep, markClosed, snapshot, closeOnly, removeInstanceAndMaybeClose,
       UnregisterBuddyList, RemoveSession, closeReturns, signonVars
  <1>6. ASSUME NEW c \in Conns, AddSession(c) PROVE LockInv'
    <2>1. CASE findRec(c) \/ checkClosed(c) \/ evicted(c) \/ waitRemoved(c)
      BY <1>0, <1>4, <2>1 DEF TypeOK, findRec, checkClosed, evicted, waitRemoved, Goto, Locked, signonVars
    <2>2. CASE waitTimeout(c) \/ newSession(c)
      BY <1>0, <1>3, <2>2 DEF TypeOK, waitTimeout, newSession, Goto, Locked
    <2>3. CASE checkCount(c)
      BY <1>0, <1>3, <1>4, <2>3 DEF TypeOK, checkCount, Locked
    <2>4. CASE AddInstance(c)
      BY <1>0, <1>3, <1>4, <2>4 DEF TypeOK, AddInstance, Locked
    <2> QED BY <1>2, <1>6, <2>1, <2>2, <2>3, <2>4 DEF AddSession
  <1>7. ASSUME NEW c \in Conns, RegisterBOSSession(c) \/ Connection(c) PROVE LockInv'
    BY <1>0, <1>4, <1>7 DEF TypeOK, RegisterBOSSession, Connection, RunOnce, registerReturns, runOnceEnter,
       RegisterBuddyList, initFinish, initFailed, ClientOnline, EvaluateRateLimit, disconnect,
       CloseInstance, Goto, Locked, signonVars
  <1>8. ASSUME NEW k \in Closers, Closer(k) PROVE LockInv'
    BY <1>1, <1>8 DEF Closer, deleteSessionHandler, maybeRelayMessage, signonVars
  <1> QED
    BY <1>1, <1>5, <1>6, <1>7, <1>8 DEF Next, Stopped, vars

LEMMA SessStep == IInv /\ Next => SessInv'
  <1> SUFFICES ASSUME IInv, Next PROVE SessInv'
    OBVIOUS
  <1> USE ConstantsAssumption
  <1>0. TypeOK /\ SessInv /\ MembersInv /\ JobInv /\ ActiveInv
    BY DEF IInv
  <1>1. ASSUME NEW t \in Threads, CloseStep(t) PROVE SessInv'
    <2>1. UNCHANGED <<pc, sess>> /\ Built' = Built
      BY <1>1 DEF CloseStep, markClosed, snapshot, closeOnly, removeInstanceAndMaybeClose,
         UnregisterBuddyList, RemoveSession, closeReturns, signonVars, Built
    <2>2. closed' \subseteq Built
      BY <1>0, <1>1 DEF CloseStep, markClosed, snapshot, closeOnly, removeInstanceAndMaybeClose,
         UnregisterBuddyList, RemoveSession, closeReturns, SessInv, JobInv, ThreadInv
    <2>3. \A c \in stopped' : sess[c] # None
      <3>1. \A c \in job[t].todo : job[t].phase = "flag" => sess[c] # None
        BY <1>0 DEF JobInv, ThreadInv, TypeOK, Built
      <3>2. CASE closeOnly(t)
        BY <3>1, <3>2, <1>0 DEF closeOnly, SessInv
      <3>3. CASE UNCHANGED stopped
        BY <3>3, <1>0 DEF SessInv
      <3> QED BY <3>2, <3>3, <1>1 DEF CloseStep, markClosed, snapshot, removeInstanceAndMaybeClose,
         UnregisterBuddyList, RemoveSession, closeReturns
    <2>4. \A u \in Users : store'[u] # None => store'[u] = store[u]
      BY <1>0, <1>1 DEF CloseStep, markClosed, snapshot, closeOnly, removeInstanceAndMaybeClose,
         UnregisterBuddyList, RemoveSession, closeReturns, TypeOK
    <2> QED BY <2>1, <2>2, <2>3, <2>4, <1>0 DEF SessInv
  <1>2. ASSUME NEW c \in Conns, AddSession(c) PROVE SessInv'
    <2>1. CASE lockUser(c) \/ findRec(c) \/ checkClosed(c) \/ evicted(c) \/ checkCount(c)
               \/ waitRemoved(c) \/ waitTimeout(c)
      <3>1. UNCHANGED <<sess, closed, stopped, store>> /\ Built' = Built
        BY <2>1 DEF lockUser, findRec, checkClosed, evicted, checkCount, waitRemoved, waitTimeout,
           signonVars, Built
      <3>2. pc' = [pc EXCEPT ![c] = pc'[c]] /\ pc[c] \in Locked \cup {"lock"}
            /\ pc'[c] \in Locked \cup {"gone"}
        BY <1>0, <2>1 DEF TypeOK, lockUser, findRec, checkClosed, Branch, evicted, checkCount,
           waitRemoved, waitTimeout, Goto, Locked
      <3> QED BY <3>1, <3>2, <1>0 DEF SessInv, TypeOK, Locked
    <2>2. CASE AddInstance(c)
      <3>1. CASE active[c] \in closed
        BY <1>0, <2>2, <3>1 DEF TypeOK, SessInv, AddInstance, Locked, Built
      <3>2. CASE active[c] \notin closed
        <4>1. pc[c] = "attach" /\ sess[c] = None /\ active[c] \in Built /\ UserOf[active[c]] = UserOf[c]
          BY <1>0, <2>2 DEF SessInv, ActiveInv, AddSessionInv, AddInstance, Locked
        <4>2. sess' = [sess EXCEPT ![c] = active[c]] /\ pc' = [pc EXCEPT ![c] = "joined"]
              /\ UNCHANGED <<closed, stopped, store>>
          BY <2>2, <3>2 DEF AddInstance
        <4>3. Built' = Built
          BY <4>1, <4>2, <1>0 DEF Built, TypeOK
        <4> QED BY <4>1, <4>2, <4>3, <1>0 DEF SessInv, TypeOK, Locked, Built
      <3> QED BY <3>1, <3>2
    <2>3. CASE newSession(c)
      <3>1. pc[c] = "build" /\ sess[c] = None
        BY <1>0, <2>3 DEF SessInv, newSession, Goto, Locked
      <3>2. sess' = [sess EXCEPT ![c] = c] /\ pc' = [pc EXCEPT ![c] = "joined"]
            /\ store' = [store EXCEPT ![UserOf[c]] = c] /\ UNCHANGED <<closed, stopped>>
        BY <2>3 DEF newSession, Goto
      <3>3. Built' = Built \cup {c}
        BY <3>1, <3>2, <1>0 DEF Built, TypeOK
      <3> QED BY <3>1, <3>2, <3>3, <1>0 DEF SessInv, TypeOK, Locked
    <2> QED BY <1>2, <2>1, <2>2, <2>3 DEF AddSession
  <1>3. ASSUME NEW c \in Conns, RegisterBOSSession(c) \/ Connection(c) PROVE SessInv'
    <2>1. UNCHANGED <<sess, closed, stopped, store>> /\ Built' = Built
      BY <1>3 DEF RegisterBOSSession, Connection, RunOnce, registerReturns, runOnceEnter,
         RegisterBuddyList, initFinish, initFailed, ClientOnline, EvaluateRateLimit, disconnect,
         CloseInstance, signonVars, Built
    <2>2. pc' = [pc EXCEPT ![c] = pc'[c]]
      BY <1>0, <1>3 DEF TypeOK, RegisterBOSSession, Connection, RunOnce, registerReturns, runOnceEnter,
         RegisterBuddyList, initFinish, initFailed, ClientOnline, EvaluateRateLimit, disconnect,
         CloseInstance, Goto
    <2>3. \/ pc[c] = "start" /\ pc'[c] = "lock"
          \/ pc[c] \in PCs \ (Locked \cup {"start", "lock", "gone"}) /\ pc'[c] \notin Locked \cup {"start", "lock"}
      BY <1>0, <1>3 DEF TypeOK, RegisterBOSSession, Connection, RunOnce, registerReturns, runOnceEnter,
         RegisterBuddyList, initFinish, initFailed, ClientOnline, EvaluateRateLimit, disconnect,
         CloseInstance, Goto, PCs, Locked
    <2> QED BY <2>1, <2>2, <2>3, <1>0 DEF SessInv, TypeOK
  <1>4. ASSUME NEW k \in Closers, Closer(k) PROVE SessInv'
    BY <1>0, <1>4 DEF Closer, deleteSessionHandler, maybeRelayMessage, signonVars, SessInv, Built
  <1>5. CASE Stopped
    BY <1>0, <1>5 DEF Stopped, vars, SessInv, Built
  <1> QED
    BY <1>1, <1>2, <1>3, <1>4, <1>5 DEF Next

LEMMA MembersStep == IInv /\ Next => MembersInv'
  <1> SUFFICES ASSUME IInv, Next PROVE MembersInv'
    OBVIOUS
  <1> USE ConstantsAssumption
  <1>0. TypeOK /\ SessInv /\ MembersInv /\ JobInv /\ ActiveInv
    BY DEF IInv
  <1>1. CASE UNCHANGED <<members, sess, stopped, removed, closed>>
    BY <1>0, <1>1 DEF MembersInv, Built
  <1>2. ASSUME NEW t \in Threads, markClosed(t) PROVE MembersInv'
    BY <1>0, <1>2 DEF markClosed, signonVars, closeVars, MembersInv, Built
  <1>3. ASSUME NEW t \in Threads, closeOnly(t) PROVE MembersInv'
    BY <1>0, <1>3 DEF closeOnly, signonVars, closeVars, MembersInv, Built
  <1>4. ASSUME NEW t \in Threads, removeInstanceAndMaybeClose(t) PROVE MembersInv'
    <2>1. job[t].sess \in Conns /\ job[t].cur \in stopped /\ UNCHANGED <<sess, stopped, removed>>
          /\ Built' = Built
      BY <1>0, <1>4 DEF removeInstanceAndMaybeClose, JobInv, ThreadInv, signonVars, Built
    <2>2. members' = [members EXCEPT ![job[t].sess] = @ \ {job[t].cur}]
      BY <1>4 DEF removeInstanceAndMaybeClose
    <2>3. closed' = IF members'[job[t].sess] = {} THEN closed \cup {job[t].sess} ELSE closed
      BY <1>0, <1>4, <2>1 DEF removeInstanceAndMaybeClose, TypeOK
    <2> QED BY <2>1, <2>2, <2>3, <1>0 DEF MembersInv, TypeOK
  <1>5. ASSUME NEW t \in Threads, RemoveSession(t) PROVE MembersInv'
    BY <1>0, <1>5 DEF RemoveSession, JobInv, ThreadInv, signonVars, MembersInv, Built
  <1>6. ASSUME NEW c \in Conns, AddInstance(c) PROVE MembersInv'
    <2>1. CASE active[c] \in closed
      BY <1>1, <1>6, <2>1 DEF AddInstance, closeVars
    <2>2. CASE active[c] \notin closed
      <3>1. sess[c] = None /\ active[c] \in Built /\ active[c] \in Conns
        BY <1>0, <1>6 DEF SessInv, ActiveInv, AddSessionInv, AddInstance, Locked, Built
      <3>2. sess' = [sess EXCEPT ![c] = active[c]] /\ UNCHANGED <<closed, stopped, removed>>
            /\ members' = [members EXCEPT ![active[c]] = @ \cup {c}]
        BY <1>6, <2>2 DEF AddInstance, closeVars
      <3>3. Built' = Built
        BY <3>1, <3>2, <1>0 DEF Built, TypeOK
      <3>4. active[c] \notin removed
        BY <2>2, <3>1, <1>0 DEF MembersInv
      <3> QED BY <3>1, <3>2, <3>3, <3>4, <1>0 DEF MembersInv, TypeOK
    <2> QED BY <2>1, <2>2
  <1>7. ASSUME NEW c \in Conns, newSession(c) PROVE MembersInv'
    <2>1. sess[c] = None /\ c \notin Built /\ c \notin removed
      BY <1>0, <1>7 DEF SessInv, MembersInv, newSession, Goto, Locked, Built
    <2>2. sess' = [sess EXCEPT ![c] = c] /\ members' = [members EXCEPT ![c] = {c}]
          /\ UNCHANGED <<closed, stopped, removed>>
      BY <1>7 DEF newSession, closeVars
    <2>3. Built' = Built \cup {c}
      BY <2>1, <2>2, <1>0 DEF Built, TypeOK
    <2>4. \A d \in Conns : sess[d] # c
      BY <2>1, <1>0 DEF SessInv
    <2> QED BY <2>1, <2>2, <2>3, <2>4, <1>0 DEF MembersInv, TypeOK
  <1>8. ASSUME NEW t \in Threads, snapshot(t) \/ UnregisterBuddyList(t) \/ closeReturns(t) PROVE MembersInv'
    BY <1>1, <1>8 DEF snapshot, UnregisterBuddyList, closeReturns, signonVars, closeVars
  <1>9. ASSUME NEW c \in Conns, lockUser(c) \/ findRec(c) \/ checkClosed(c) \/ evicted(c)
               \/ checkCount(c) \/ waitRemoved(c) \/ waitTimeout(c)
        PROVE  MembersInv'
    BY <1>1, <1>9 DEF lockUser, findRec, checkClosed, evicted, checkCount, waitRemoved, waitTimeout,
       signonVars, closeVars
  <1>10. ASSUME NEW c \in Conns, RegisterBOSSession(c) \/ Connection(c) PROVE MembersInv'
    BY <1>1, <1>10 DEF RegisterBOSSession, Connection, RunOnce, registerReturns, runOnceEnter,
       RegisterBuddyList, initFinish, initFailed, ClientOnline, EvaluateRateLimit, disconnect,
       CloseInstance, signonVars, closeVars
  <1>11. ASSUME NEW k \in Closers, Closer(k) PROVE MembersInv'
    BY <1>1, <1>11 DEF Closer, deleteSessionHandler, maybeRelayMessage, signonVars, closeVars
  <1>12. CASE Stopped
    BY <1>1, <1>12 DEF Stopped, vars
  <1> QED
    BY <1>2, <1>3, <1>4, <1>5, <1>6, <1>7, <1>8, <1>9, <1>10, <1>11, <1>12 DEF Next, CloseStep, AddSession

LEMMA JobStep == IInv /\ Next => JobInv'
  <1> SUFFICES ASSUME IInv, Next PROVE JobInv'
    OBVIOUS
  <1> USE ConstantsAssumption
  <1>0. TypeOK /\ SessInv /\ MembersInv /\ JobInv /\ ActiveInv
    BY DEF IInv
  <1>1. CASE UNCHANGED <<job, sess, members, stopped>>
    BY <1>0, <1>1 DEF JobInv, ThreadInv, Built
  \* A thread that starts a close call, or goes on with one, and takes out no instance.
  <1>2. ASSUME NEW t \in Threads, \A x \in Threads \ {t} : job'[x] = job[x],
               job'[t].phase # "drop", ThreadInv(t)', UNCHANGED <<sess, members, stopped>>
        PROVE  JobInv'
    <2>1. \A x \in Threads \ {t} : ThreadInv(x)'
      BY <1>0, <1>2 DEF JobInv, ThreadInv, Built
    <2> QED BY <2>1, <1>0, <1>2 DEF JobInv
  <1>3. ASSUME NEW t \in Threads, CloseStep(t) PROVE JobInv'
    <2>0. ThreadInv(t) /\ job[t] \in Jobs
      BY <1>0 DEF JobInv, TypeOK
    <2>1. CASE markClosed(t)
      <3>1. job' = [job EXCEPT ![t] = Job("snap", job[t].sess, {}, None)]
        BY <2>1 DEF markClosed
      <3>2. job'[t] = Job("snap", job[t].sess, {}, None) /\ \A x \in Threads \ {t} : job'[x] = job[x]
        BY <3>1, <1>0 DEF TypeOK
      <3> QED BY <3>2, <2>0, <2>1, <1>2 DEF markClosed, ThreadInv, Job, Built, signonVars
    <2>2. CASE snapshot(t)
      <3>1. \A d \in members[job[t].sess] : sess[d] = job[t].sess
        BY <2>0, <2>2, <1>0 DEF snapshot, ThreadInv, MembersInv, Built
      <3>2. job'[t] = Job("flag", job[t].sess, members[job[t].sess], None)
            /\ \A x \in Threads \ {t} : job'[x] = job[x]
        BY <2>2, <1>0 DEF snapshot, TypeOK
      <3> QED BY <3>1, <3>2, <2>0, <2>2, <1>2 DEF snapshot, ThreadInv, Job, Built, signonVars
    <2>3. CASE closeOnly(t)
      <3> PICK c \in job[t].todo \ stopped :
            /\ stopped' = stopped \cup {c}
            /\ job' = [job EXCEPT ![t] = Job("drop", job[t].sess, job[t].todo \ {c}, c)]
        BY <2>3 DEF closeOnly
      <3>1. UNCHANGED <<sess, members>> /\ Built' = Built /\ job[t].phase = "flag"
        BY <2>3 DEF closeOnly, signonVars, Built
      <3>2. job'[t] = Job("drop", job[t].sess, job[t].todo \ {c}, c)
            /\ \A x \in Threads \ {t} : job'[x] = job[x]
        BY <1>0 DEF TypeOK
      <3>3. job[t].sess \in Built /\ sess[c] = job[t].sess /\ c \in Conns
        BY <2>0, <3>1 DEF ThreadInv, Jobs
      <3>4. c \in members[job[t].sess]
        BY <3>3, <1>0 DEF MembersInv, Built
      <3>5. ThreadInv(t)'
        BY <3>1, <3>2, <3>3, <3>4, <2>0 DEF ThreadInv, Job
      <3>6. \A x \in Threads \ {t} : ThreadInv(x)'
        BY <3>1, <3>2, <1>0 DEF ThreadInv, JobInv
      <3>7. \A x \in Threads \ {t} : job'[x].phase = "drop" => job'[x].cur # c
        BY <3>2, <1>0 DEF JobInv, ThreadInv
      <3>8. job'[t].cur = c
        BY <3>2 DEF Job
      <3> QED BY <3>2, <3>5, <3>6, <3>7, <3>8, <1>0 DEF JobInv
    <2>4. CASE removeInstanceAndMaybeClose(t)
      <3> DEFINE s == job[t].sess
      <3>1. UNCHANGED <<sess, stopped>> /\ Built' = Built /\ job[t].phase = "drop"
        BY <2>4 DEF removeInstanceAndMaybeClose, signonVars, Built
      <3>2. s \in Built /\ s \in Conns
        BY <3>1, <2>0 DEF ThreadInv, Built
      <3>3. members' = [members EXCEPT ![s] = members[s] \ {job[t].cur}]
        BY <2>4 DEF removeInstanceAndMaybeClose
      <3>4. PICK p \in {"unregister", "flag"} :
              /\ job' = [job EXCEPT ![t] = Job(p, s, job[t].todo, None)]
              /\ p = "unregister" => members'[s] = {}
        BY <3>2, <3>3, <2>4, <1>0 DEF removeInstanceAndMaybeClose, TypeOK
      <3>5. job'[t] = Job(p, s, job[t].todo, None) /\ \A x \in Threads \ {t} : job'[x] = job[x]
        BY <3>4, <1>0 DEF TypeOK
      <3>6. ThreadInv(t)'
        BY <3>1, <3>2, <3>4, <3>5, <2>0 DEF ThreadInv, Job
      <3>7. \A x \in Threads \ {t} : ThreadInv(x)'
        <4> SUFFICES ASSUME NEW x \in Threads, x # t PROVE ThreadInv(x)'
          OBVIOUS
        <4>1. ThreadInv(x) /\ job'[x] = job[x] /\ job[x] \in Jobs
          BY <3>5, <1>0 DEF JobInv, TypeOK
        <4>2. job[x].phase = "drop" => job[x].cur \in members'[job[x].sess]
          BY <4>1, <3>1, <3>2, <3>3, <1>0 DEF JobInv, ThreadInv, TypeOK, Built
        <4>3. job[x].phase \in {"unregister", "signout"} => members'[job[x].sess] = {}
          BY <4>1, <3>2, <3>3, <1>0 DEF ThreadInv, TypeOK, Built
        <4> QED BY <4>1, <4>2, <4>3, <3>1 DEF ThreadInv
      <3>8. job'[t].phase # "drop"
        BY <3>5 DEF Job
      <3> QED BY <3>5, <3>6, <3>7, <3>8, <1>0 DEF JobInv
    <2>5. CASE UnregisterBuddyList(t)
      <3>1. CASE UNCHANGED job
        BY <3>1, <2>5, <1>1 DEF UnregisterBuddyList, signonVars
      <3>2. CASE job' = [job EXCEPT ![t] = Job("signout", job[t].sess, job[t].todo, None)]
        <4>1. job'[t] = Job("signout", job[t].sess, job[t].todo, None)
              /\ \A x \in Threads \ {t} : job'[x] = job[x]
          BY <3>2, <1>0 DEF TypeOK
        <4> QED BY <4>1, <2>0, <2>5, <1>2 DEF UnregisterBuddyList, ThreadInv, Job, Built, signonVars
      <3> QED BY <3>1, <3>2, <2>5 DEF UnregisterBuddyList
    <2>6. CASE RemoveSession(t)
      <3>1. job'[t] = Job("flag", job[t].sess, job[t].todo, None)
            /\ \A x \in Threads \ {t} : job'[x] = job[x]
        BY <2>6, <1>0 DEF RemoveSession, TypeOK
      <3> QED BY <3>1, <2>0, <2>6, <1>2 DEF RemoveSession, ThreadInv, Job, Built, signonVars
    <2>7. CASE closeReturns(t)
      <3>1. job'[t] = Idle /\ \A x \in Threads \ {t} : job'[x] = job[x]
        BY <2>7, <1>0 DEF closeReturns, TypeOK
      <3> QED BY <3>1, <2>7, <1>2, IdleType DEF closeReturns, ThreadInv, signonVars
    <2> QED BY <1>3, <2>1, <2>2, <2>3, <2>4, <2>5, <2>6, <2>7 DEF CloseStep
  <1>4. ASSUME NEW t \in Threads, NEW s, StartCloseSession(t, s), s \in Built,
               UNCHANGED <<sess, members, stopped>>
        PROVE  JobInv'
    <2>1. job'[t] = Job("mark", s, {}, None) /\ \A x \in Threads \ {t} : job'[x] = job[x]
      BY <1>4, <1>0 DEF StartCloseSession, TypeOK
    <2> QED BY <2>1, <1>2, <1>4 DEF ThreadInv, Job, Built
  <1>5. ASSUME NEW t \in Threads, NEW c \in Conns, StartCloseInstance(t, c), sess[c] \in Built,
               UNCHANGED <<sess, members, stopped>>
        PROVE  JobInv'
    <2>1. job'[t] = Job("flag", sess[c], {c}, None) /\ \A x \in Threads \ {t} : job'[x] = job[x]
      BY <1>5, <1>0 DEF StartCloseInstance, TypeOK
    <2> QED BY <2>1, <1>2, <1>5 DEF ThreadInv, Job, Built
  <1>6. ASSUME NEW c \in Conns, AddSession(c) PROVE JobInv'
    <2>1. CASE lockUser(c) \/ findRec(c) \/ evicted(c) \/ checkCount(c) \/ waitRemoved(c) \/ waitTimeout(c)
      BY <2>1, <1>1 DEF lockUser, findRec, evicted, checkCount, waitRemoved, waitTimeout,
         signonVars, closeVars
    <2>2. CASE checkClosed(c)
      <3>1. CASE UNCHANGED job
        BY <3>1, <2>2, <1>1 DEF checkClosed, signonVars
      <3>2. CASE active[c] # None /\ StartCloseSession(c, active[c])
        <4>1. active[c] \in Built
          BY <3>2, <2>2, <1>0 DEF checkClosed, ActiveInv, AddSessionInv, Locked
        <4> QED BY <4>1, <3>2, <2>2, <1>4 DEF checkClosed, signonVars, Threads
      <3> QED BY <3>1, <3>2, <2>2 DEF checkClosed, Branch
    \* An instance joins a session: nobody was closing it, and no hook was running.
    <2>3. ASSUME NEW s \in Conns, sess[c] = None, sess' = [sess EXCEPT ![c] = s], Built \subseteq Built',
                 members' = [members EXCEPT ![s] = members[s] \cup {c}],
                 s \notin Built \/ members[s] # {}, UNCHANGED <<job, stopped>>
          PROVE  JobInv'
      <3>1. ASSUME NEW t \in Threads PROVE ThreadInv(t)'
        <4>1. ThreadInv(t) /\ job[t] \in Jobs
          BY <1>0 DEF JobInv, TypeOK
        <4>2. \A d \in job[t].todo : d # c
          BY <4>1, <2>3 DEF ThreadInv, Built
        <4> QED BY <4>1, <4>2, <2>3, <1>0 DEF ThreadInv, Jobs, TypeOK, Built
      <3> QED BY <3>1, <2>3, <1>0 DEF JobInv
    <2>4. CASE AddInstance(c)
      <3>1. CASE active[c] \in closed
        BY <3>1, <2>4, <1>1 DEF AddInstance
      <3>2. CASE active[c] \notin closed
        <4>1. sess[c] = None /\ active[c] \in Built /\ active[c] \in Conns /\ members[active[c]] # {}
          BY <3>2, <2>4, <1>0 DEF AddInstance, SessInv, ActiveInv, AddSessionInv, MembersInv, Locked, Built
        <4>2. sess' = [sess EXCEPT ![c] = active[c]]
              /\ members' = [members EXCEPT ![active[c]] = members[active[c]] \cup {c}]
              /\ UNCHANGED <<job, stopped>>
          BY <3>2, <2>4 DEF AddInstance
        <4>3. Built \subseteq Built'
          BY <4>1, <4>2, <1>0 DEF Built, TypeOK
        <4> QED BY <4>1, <4>2, <4>3, <2>3
      <3> QED BY <3>1, <3>2
    <2>5. CASE newSession(c)
      <3>1. sess[c] = None /\ c \notin Built
        BY <2>5, <1>0 DEF newSession, Goto, SessInv, Locked, Built
      <3>2. members[c] = {}
        BY <3>1, <1>0 DEF MembersInv, SessInv, TypeOK
      <3>3. sess' = [sess EXCEPT ![c] = c] /\ UNCHANGED <<job, stopped>>
            /\ members' = [members EXCEPT ![c] = members[c] \cup {c}]
        BY <3>2, <2>5 DEF newSession
      <3>4. Built \subseteq Built'
        BY <3>1, <3>3, <1>0 DEF Built, TypeOK
      <3> QED BY <3>1, <3>3, <3>4, <2>3
    <2> QED BY <1>6, <2>1, <2>2, <2>4, <2>5 DEF AddSession
  <1>7. ASSUME NEW c \in Conns, RegisterBOSSession(c) \/ Connection(c) PROVE JobInv'
    <2>1. UNCHANGED <<sess, members, stopped>>
      BY <1>7 DEF RegisterBOSSession, Connection, RunOnce, registerReturns, runOnceEnter,
         RegisterBuddyList, initFinish, initFailed, ClientOnline, EvaluateRateLimit, disconnect,
         CloseInstance, signonVars, closeVars
    <2>2. pc[c] \in {"register", "initdone", "online", "leave"} => sess[c] \in Built
      BY <1>0 DEF SessInv, PCs, Locked
    <2>3. \/ UNCHANGED job
          \/ StartCloseSession(c, sess[c]) /\ sess[c] \in Built
          \/ StartCloseInstance(c, c) /\ sess[c] \in Built
      BY <2>2, <1>7 DEF RegisterBOSSession, Connection, RunOnce, registerReturns, runOnceEnter,
         RegisterBuddyList, initFinish, initFailed, ClientOnline, EvaluateRateLimit, disconnect,
         CloseInstance, Goto
    <2> QED BY <2>1, <2>3, <1>1, <1>4, <1>5 DEF Threads
  <1>8. ASSUME NEW k \in Closers, Closer(k) PROVE JobInv'
    <2>1. UNCHANGED <<sess, members, stopped>> /\ k \in Threads
      BY <1>8 DEF Closer, deleteSessionHandler, maybeRelayMessage, signonVars, Threads
    <2>2. ASSUME NEW u \in Users, deleteSessionHandler(k, u) PROVE JobInv'
      BY <2>1, <2>2, <1>0, <1>4 DEF deleteSessionHandler, SessInv
    <2>3. ASSUME NEW c \in Conns, maybeRelayMessage(k, c) PROVE JobInv'
      BY <2>1, <2>3, <1>0, <1>5 DEF maybeRelayMessage, live, SessInv, PCs, Locked
    <2> QED BY <1>8, <2>2, <2>3 DEF Closer
  <1>9. CASE Stopped
    BY <1>1, <1>9 DEF Stopped, vars
  <1> QED
    BY <1>3, <1>6, <1>7, <1>8, <1>9 DEF Next

\* Nothing but closing an instance or joining a session changes the set of open instances.
LEMMA ActiveStep == IInv /\ Next => ActiveInv'
  <1> SUFFICES ASSUME IInv, Next PROVE ActiveInv'
    OBVIOUS
  <1> USE ConstantsAssumption
  <1>0. TypeOK /\ LockInv /\ SessInv /\ MembersInv /\ JobInv /\ ActiveInv /\ NoStrandedInstance
    BY DEF IInv
  <1>1. ASSUME NEW t \in Threads, CloseStep(t) PROVE ActiveInv'
    <2> SUFFICES ASSUME NEW c \in Conns PROVE AddSessionInv(c)'
      BY DEF ActiveInv
    <2>0. AddSessionInv(c) /\ ThreadInv(t) /\ job[t] \in Jobs
      BY <1>0 DEF ActiveInv, JobInv, TypeOK
    <2>1. UNCHANGED <<pc, active, sess>> /\ Built' = Built
      BY <1>1 DEF CloseStep, markClosed, snapshot, closeOnly, removeInstanceAndMaybeClose,
         UnregisterBuddyList, RemoveSession, closeReturns, signonVars, Built
    <2>2. closed \subseteq closed' /\ stopped \subseteq stopped'
      BY <1>1 DEF CloseStep, markClosed, snapshot, closeOnly, removeInstanceAndMaybeClose,
         UnregisterBuddyList, RemoveSession, closeReturns
    <2>3. store'[UserOf[c]] \in {None, store[UserOf[c]]}
      BY <1>0, <1>1 DEF TypeOK, CloseStep, markClosed, snapshot, closeOnly, removeInstanceAndMaybeClose,
         UnregisterBuddyList, RemoveSession, closeReturns
    <2>4. Open(active[c])' \subseteq Open(active[c])
      BY <2>1, <2>2 DEF Open
    <2>5. pc[c] = "evict" => EvictInv(c)'
      <3> SUFFICES ASSUME pc[c] = "evict" PROVE EvictInv(c)'
        OBVIOUS
      <3>1. EvictInv(c) /\ active[c] # None
        BY <2>0 DEF AddSessionInv
      <3>2. CASE t # c
        <4>1. job'[c] = job[c]
          <5>1. CASE closeOnly(t)
            BY <5>1, <3>2, <1>0 DEF closeOnly, TypeOK, Threads
          <5>2. CASE removeInstanceAndMaybeClose(t)
            BY <5>2, <3>2, <1>0 DEF removeInstanceAndMaybeClose, TypeOK, Threads
          <5>3. CASE markClosed(t) \/ snapshot(t) \/ UnregisterBuddyList(t) \/ RemoveSession(t)
                     \/ closeReturns(t)
            BY <5>3, <3>2, <1>0 DEF markClosed, snapshot, UnregisterBuddyList, RemoveSession,
               closeReturns, TypeOK, Threads
          <5> QED BY <1>1, <5>1, <5>2, <5>3 DEF CloseStep
        <4> QED BY <4>1, <3>1, <2>1, <2>2, <2>4 DEF EvictInv
      <3>3. CASE t = c
        <4>0. job[c].phase # "idle" => job[c].sess = active[c]
          BY <3>1, IdleType DEF EvictInv
        <4>1. CASE markClosed(t)
          <5>1. job'[c] = Job("snap", active[c], {}, None) /\ active[c] \in closed'
            BY <4>0, <4>1, <3>3, <1>0 DEF markClosed, TypeOK
          <5> QED BY <5>1, <2>1 DEF EvictInv, Job
        <4>2. CASE snapshot(t)
          <5>1. job'[c] = Job("flag", active[c], members[active[c]], None) /\ active[c] \in closed
            BY <4>0, <4>2, <3>1, <3>3, <1>0 DEF snapshot, TypeOK, EvictInv
          <5>2. Open(active[c])' \subseteq members[active[c]]
            BY <2>4, <3>1, <1>0 DEF Open, MembersInv
          <5> QED BY <5>1, <5>2, <2>1, <2>2 DEF EvictInv, Job
        <4>3. CASE closeOnly(t)
          <5> PICK d \in job[t].todo \ stopped :
                /\ stopped' = stopped \cup {d}
                /\ job' = [job EXCEPT ![t] = Job("drop", job[t].sess, job[t].todo \ {d}, d)]
            BY <4>3 DEF closeOnly
          <5>1. job'[c] = Job("drop", active[c], job[c].todo \ {d}, d) /\ active[c] \in closed
            BY <4>0, <4>3, <3>1, <3>3, <1>0 DEF closeOnly, TypeOK, EvictInv
          <5>2. Open(active[c])' \subseteq job[c].todo \ {d}
            BY <4>3, <3>1, <3>3, <2>1, <2>4 DEF closeOnly, Open, EvictInv
          <5> QED BY <5>1, <5>2, <2>1, <2>2 DEF EvictInv, Job
        <4>4. CASE removeInstanceAndMaybeClose(t) \/ UnregisterBuddyList(t) \/ RemoveSession(t)
          <5>1. job[c].phase \in {"drop", "unregister", "signout"} /\ active[c] \in closed
            BY <4>4, <3>1, <3>3 DEF EvictInv, removeInstanceAndMaybeClose, UnregisterBuddyList, RemoveSession
          <5>2. \/ job'[c] = job[c]
                \/ \E p \in {"unregister", "flag", "signout"} :
                     job'[c] = Job(p, active[c], job[c].todo, None)
            BY <4>0, <4>4, <3>3, <5>1, <1>0 DEF removeInstanceAndMaybeClose, UnregisterBuddyList,
               RemoveSession, TypeOK
          <5> QED BY <5>1, <5>2, <3>1, <2>1, <2>2, <2>4 DEF EvictInv, Job
        <4>5. CASE closeReturns(t)
          <5>1. job'[c] = Idle /\ active[c] \in closed /\ Open(active[c]) \subseteq job[c].todo
                /\ job[c].todo \subseteq stopped
            BY <4>5, <3>1, <3>3, <1>0 DEF closeReturns, TypeOK, EvictInv
          <5>2. Open(active[c])' = {}
            BY <5>1, <2>4 DEF Open
          <5> QED BY <5>1, <5>2, <2>1, <2>2, IdleType DEF EvictInv
        <4> QED BY <1>1, <4>1, <4>2, <4>3, <4>4, <4>5 DEF CloseStep
      <3> QED BY <3>2, <3>3
    <2> QED BY <2>0, <2>1, <2>2, <2>3, <2>4, <2>5 DEF AddSessionInv
  \* A step of another connection that leaves the account's slot and its session alone.
  <1>2. ASSUME NEW c \in Conns, NEW d \in Conns, d # c,
               UNCHANGED <<pc[d], active[d], job[d], closed, stopped>>, Built \subseteq Built',
               pc[d] \in Locked \ {"find"} => store'[UserOf[d]] = store[UserOf[d]],
               active[d] \in closed => Open(active[d])' \subseteq Open(active[d])
        PROVE  AddSessionInv(d)'
    BY <1>0, <1>2 DEF ActiveInv, AddSessionInv, EvictInv
  <1>3. ASSUME NEW c \in Conns, AddSession(c) PROVE ActiveInv'
    <2>0. AddSessionInv(c)
      BY <1>0 DEF ActiveInv
    <2>1. \A d \in Conns \ {c} : UNCHANGED <<pc[d], active[d], job[d]>>
      BY <1>0, <1>3 DEF TypeOK, AddSession, lockUser, findRec, checkClosed, evicted, checkCount,
         AddInstance, waitRemoved, waitTimeout, newSession, Goto, StartCloseSession, signonVars, Threads
    <2>2. UNCHANGED <<closed, stopped>>
      BY <1>3 DEF AddSession, lockUser, findRec, checkClosed, evicted, checkCount,
         AddInstance, waitRemoved, waitTimeout, newSession
    <2>3. CASE lockUser(c) \/ findRec(c) \/ checkClosed(c) \/ evicted(c) \/ checkCount(c)
               \/ waitRemoved(c) \/ waitTimeout(c)
      <3>1. UNCHANGED <<sess, store, members, removed>> /\ Built' = Built
        BY <2>3 DEF lockUser, findRec, checkClosed, evicted, checkCount, waitRemoved, waitTimeout,
           signonVars, closeVars, Built
      <3>2. \A s : Open(s)' = Open(s)
        BY <3>1, <2>2 DEF Open
      <3>3. \A d \in Conns \ {c} : AddSessionInv(d)'
        BY <3>1, <3>2, <2>1, <2>2, <1>2
      <3>4. AddSessionInv(c)'
        <4>1. CASE lockUser(c)
          BY <4>1, <1>0 DEF lockUser, Goto, AddSessionInv, Locked, TypeOK
        <4>2. CASE findRec(c)
          BY <4>2, <3>1, <1>0 DEF findRec, Goto, AddSessionInv, Locked, TypeOK, SessInv
        <4>3. CASE checkClosed(c)
          <5>1. UNCHANGED active /\ pc'[c] = Branch(c) /\ pc[c] = "check"
            BY <4>3, <1>0 DEF checkClosed, TypeOK, signonVars
          <5>2. CASE active[c] = None
            <6>1. pc'[c] = "build"
              BY <5>1, <5>2 DEF Branch
            <6> QED BY <5>1, <5>2, <6>1, <3>1, <2>0 DEF AddSessionInv, Locked
          <5>3. CASE active[c] # None /\ Branch(c) # "evict"
            BY <5>1, <5>3, <3>1, <2>0, <2>2 DEF AddSessionInv, Branch, Locked
          <5>4. CASE active[c] # None /\ Branch(c) = "evict"
            <6>1. job'[c] = Job("mark", active[c], {}, None)
              BY <5>4, <4>3, <1>0 DEF checkClosed, StartCloseSession, TypeOK, Threads
            <6>2. EvictInv(c)'
              BY <6>1, <5>1 DEF EvictInv, Job
            <6> QED BY <6>2, <5>1, <5>4, <3>1, <2>0 DEF AddSessionInv, Locked
          <5> QED BY <5>2, <5>3, <5>4
        <4>4. CASE evicted(c)
          <5>1. UNCHANGED active /\ pc'[c] \in {"build", "wait"} /\ pc[c] = "evict"
                /\ active[c] \in closed /\ Open(active[c]) = {}
            BY <4>4, <2>0, <1>0, IdleType DEF evicted, Goto, TypeOK, signonVars, AddSessionInv, EvictInv
          <5> QED BY <5>1, <3>1, <3>2, <2>0, <2>2 DEF AddSessionInv, Locked
        <4>5. CASE checkCount(c)
          BY <4>5, <3>1, <2>0, <1>0 DEF checkCount, AddSessionInv, Locked, TypeOK
        <4>6. CASE waitRemoved(c)
          <5>1. UNCHANGED active /\ pc'[c] = "build" /\ pc[c] = "wait" /\ active[c] \in closed
            BY <4>6, <2>0, <1>0 DEF waitRemoved, Goto, TypeOK, signonVars, AddSessionInv
          <5>2. Open(active[c]) = {}
            BY <4>6, <1>0 DEF waitRemoved, MembersInv, Open, SessInv, Built
          <5> QED BY <5>1, <5>2, <3>1, <3>2, <2>0, <2>2 DEF AddSessionInv, Locked
        <4>7. CASE waitTimeout(c)
          BY <4>7, <1>0 DEF waitTimeout, Goto, AddSessionInv, Locked, TypeOK
        <4> QED BY <2>3, <4>1, <4>2, <4>3, <4>4, <4>5, <4>6, <4>7
      <3> QED BY <3>3, <3>4 DEF ActiveInv
    <2>4. CASE AddInstance(c)
      <3>1. UNCHANGED <<store, active>> /\ sess[c] = None /\ pc[c] = "attach"
            /\ active[c] \in Built /\ active[c] \in Conns
        BY <2>4, <2>0, <1>0 DEF AddInstance, SessInv, AddSessionInv, Locked, Built
      <3>2. sess' = [sess EXCEPT ![c] = sess'[c]]
            /\ \/ sess'[c] = None /\ pc'[c] = "wait" /\ active[c] \in closed
               \/ sess'[c] = active[c] /\ pc'[c] = "joined" /\ active[c] \notin closed
        BY <2>4, <3>1, <1>0 DEF AddInstance, TypeOK
      <3>3. Built \subseteq Built' /\ \A s \in closed : Open(s)' \subseteq Open(s)
        BY <3>1, <3>2, <2>2, <1>0 DEF Built, Open, TypeOK
      <3>4. \A d \in Conns \ {c} : AddSessionInv(d)'
        BY <3>1, <3>3, <2>1, <2>2, <1>2
      <3>5. AddSessionInv(c)'
        BY <3>1, <3>2, <3>3, <2>0, <2>2 DEF AddSessionInv, Locked
      <3> QED BY <3>4, <3>5 DEF ActiveInv
    <2>5. CASE newSession(c)
      <3>1. sess[c] = None /\ c \notin Built /\ pc[c] = "build" /\ pc'[c] = "joined"
        BY <2>5, <1>0 DEF newSession, Goto, SessInv, Locked, Built, TypeOK
      <3>2. sess' = [sess EXCEPT ![c] = c] /\ store' = [store EXCEPT ![UserOf[c]] = c]
        BY <2>5 DEF newSession
      <3>3. Built \subseteq Built' /\ \A s \in closed : Open(s)' \subseteq Open(s)
        BY <3>1, <3>2, <2>2, <1>0 DEF Built, Open, TypeOK, SessInv
      <3>4. \A d \in Conns \ {c} : pc[d] \in Locked => UserOf[d] # UserOf[c]
        BY <3>1, <1>0 DEF LockInv, Locked
      <3>5. \A d \in Conns \ {c} : AddSessionInv(d)'
        BY <3>2, <3>3, <3>4, <2>1, <2>2, <1>0, <1>2 DEF TypeOK
      <3>6. AddSessionInv(c)'
        BY <3>1 DEF AddSessionInv, Locked
      <3> QED BY <3>5, <3>6 DEF ActiveInv
    <2> QED BY <1>3, <2>3, <2>4, <2>5 DEF AddSession
  <1>4. ASSUME NEW c \in Conns, RegisterBOSSession(c) \/ Connection(c) PROVE ActiveInv'
    <2>1. UNCHANGED <<sess, store, active, closed, stopped>> /\ Built' = Built
      BY <1>4 DEF RegisterBOSSession, Connection, RunOnce, registerReturns, runOnceEnter,
         RegisterBuddyList, initFinish, initFailed, ClientOnline, EvaluateRateLimit, disconnect,
         CloseInstance, signonVars, Built
    <2>2. \A d \in Conns \ {c} : UNCHANGED <<pc[d], job[d]>>
      BY <1>0, <1>4 DEF TypeOK, RegisterBOSSession, Connection, RunOnce, registerReturns, runOnceEnter,
         RegisterBuddyList, initFinish, initFailed, ClientOnline, EvaluateRateLimit, disconnect,
         CloseInstance, Goto, StartCloseSession, StartCloseInstance, Threads
    <2>3. pc'[c] \notin Locked
      BY <1>0, <1>4 DEF TypeOK, RegisterBOSSession, Connection, RunOnce, registerReturns, runOnceEnter,
         RegisterBuddyList, initFinish, initFailed, ClientOnline, EvaluateRateLimit, disconnect,
         CloseInstance, Goto, Locked
    <2>4. \A s : Open(s)' = Open(s)
      BY <2>1 DEF Open
    <2>5. \A d \in Conns \ {c} : AddSessionInv(d)'
      BY <2>1, <2>2, <2>4, <1>2
    <2>6. AddSessionInv(c)'
      BY <2>3 DEF AddSessionInv, Locked
    <2> QED BY <2>5, <2>6 DEF ActiveInv
  <1>5. ASSUME NEW k \in Closers, Closer(k) PROVE ActiveInv'
    <2>1. UNCHANGED <<pc, sess, store, active, closed, stopped>> /\ Built' = Built
      BY <1>5 DEF Closer, deleteSessionHandler, maybeRelayMessage, signonVars, Built
    <2>2. \A d \in Conns : job'[d] = job[d]
      BY <1>0, <1>5 DEF TypeOK, Threads, Closer, deleteSessionHandler, maybeRelayMessage,
         StartCloseSession, StartCloseInstance
    <2>3. \A s : Open(s)' = Open(s)
      BY <2>1 DEF Open
    <2> QED BY <2>1, <2>2, <2>3, <1>0 DEF ActiveInv, AddSessionInv, EvictInv
  <1>6. CASE Stopped
    BY <1>0, <1>6 DEF Stopped, vars, ActiveInv, AddSessionInv, EvictInv, Open, Built
  <1> QED
    BY <1>1, <1>3, <1>4, <1>5, <1>6 DEF Next

\* The hook runs once because a session becomes empty once: it can only be joined while
\* it has members, and the thread that takes an instance out is the only one to do so.
LEMMA TeardownStep == IInv /\ Next => TeardownOnce'
  <1> SUFFICES ASSUME IInv, Next PROVE TeardownOnce'
    OBVIOUS
  <1> USE ConstantsAssumption
  <1>0. TypeOK /\ SessInv /\ MembersInv /\ JobInv /\ ActiveInv /\ TeardownOnce
    BY DEF IInv
  <1>1. CASE UNCHANGED <<members, sess, torn>>
    BY <1>0, <1>1 DEF TeardownOnce, Built
  <1>2. ASSUME NEW t \in Threads, removeInstanceAndMaybeClose(t) PROVE TeardownOnce'
    <2>1. job[t].sess \in Built /\ job[t].sess \in Conns /\ members[job[t].sess] # {}
      BY <1>0, <1>2 DEF removeInstanceAndMaybeClose, JobInv, ThreadInv, Built
    <2>2. members' = [members EXCEPT ![job[t].sess] = members'[job[t].sess]] /\ Built' = Built
      <3>1. members' = [members EXCEPT ![job[t].sess] = members[job[t].sess] \ {job[t].cur}]
        BY <1>2 DEF removeInstanceAndMaybeClose
      <3>2. Built' = Built
        BY <1>2 DEF removeInstanceAndMaybeClose, signonVars, Built
      <3>3. members'[job[t].sess] = members[job[t].sess] \ {job[t].cur}
        BY <2>1, <3>1, <1>0 DEF TypeOK
      <3> QED BY <3>1, <3>2, <3>3
    <2>3. torn' = IF members'[job[t].sess] = {} THEN [torn EXCEPT ![job[t].sess] = @ + 1] ELSE torn
      BY <1>0, <1>2, <2>1 DEF removeInstanceAndMaybeClose, TypeOK
    <2> QED BY <2>1, <2>2, <2>3, <1>0 DEF TeardownOnce, TypeOK
  <1>3. ASSUME NEW c \in Conns, AddInstance(c) PROVE TeardownOnce'
    <2>1. CASE active[c] \in closed
      BY <1>1, <1>3, <2>1 DEF AddInstance, closeVars
    <2>2. CASE active[c] \notin closed
      <3>1. sess[c] = None /\ active[c] \in Built /\ active[c] \in Conns /\ members[active[c]] # {}
        BY <2>2, <1>3, <1>0 DEF AddInstance, SessInv, ActiveInv, AddSessionInv, MembersInv, Locked, Built
      <3>2. sess' = [sess EXCEPT ![c] = active[c]] /\ UNCHANGED torn
            /\ members' = [members EXCEPT ![active[c]] = @ \cup {c}]
        BY <1>3, <2>2 DEF AddInstance, closeVars
      <3>3. Built' = Built
        BY <3>1, <3>2, <1>0 DEF Built, TypeOK
      <3> QED BY <3>1, <3>2, <3>3, <1>0 DEF TeardownOnce, TypeOK
    <2> QED BY <2>1, <2>2
  <1>4. ASSUME NEW c \in Conns, newSession(c) PROVE TeardownOnce'
    <2>1. sess[c] = None /\ c \notin Built
      BY <1>0, <1>4 DEF SessInv, newSession, Goto, Locked, Built
    <2>2. sess' = [sess EXCEPT ![c] = c] /\ members' = [members EXCEPT ![c] = {c}] /\ UNCHANGED torn
      BY <1>4 DEF newSession, closeVars
    <2>3. Built' = Built \cup {c}
      BY <2>1, <2>2, <1>0 DEF Built, TypeOK
    <2> QED BY <2>1, <2>2, <2>3, <1>0 DEF TeardownOnce, TypeOK
  <1>5. ASSUME NEW t \in Threads, CloseStep(t) PROVE TeardownOnce'
    BY <1>1, <1>2, <1>5 DEF CloseStep, markClosed, snapshot, closeOnly, UnregisterBuddyList,
       RemoveSession, closeReturns, signonVars, closeVars
  <1>6. ASSUME NEW c \in Conns, AddSession(c) PROVE TeardownOnce'
    BY <1>1, <1>3, <1>4, <1>6 DEF AddSession, lockUser, findRec, checkClosed, evicted, checkCount,
       waitRemoved, waitTimeout, signonVars, closeVars
  <1>7. ASSUME NEW c \in Conns, RegisterBOSSession(c) \/ Connection(c) PROVE TeardownOnce'
    BY <1>1, <1>7 DEF RegisterBOSSession, Connection, RunOnce, registerReturns, runOnceEnter,
       RegisterBuddyList, initFinish, initFailed, ClientOnline, EvaluateRateLimit, disconnect,
       CloseInstance, signonVars, closeVars
  <1>8. ASSUME NEW k \in Closers, Closer(k) PROVE TeardownOnce'
    BY <1>1, <1>8 DEF Closer, deleteSessionHandler, maybeRelayMessage, signonVars, closeVars
  <1>9. CASE Stopped
    BY <1>1, <1>9 DEF Stopped, vars
  <1> QED
    BY <1>5, <1>6, <1>7, <1>8, <1>9 DEF Next

\* A session enters the slot only when its predecessor is closed with every instance
\* stopped, and leaves it only when it is empty.
LEMMA SlotStep == IInv /\ Next => OpenSessionIsStored' /\ NoStrandedInstance'
  <1> SUFFICES ASSUME IInv, Next PROVE OpenSessionIsStored' /\ NoStrandedInstance'
    OBVIOUS
  <1> USE ConstantsAssumption
  <1>0. TypeOK /\ SessInv /\ MembersInv /\ JobInv /\ ActiveInv /\ OpenSessionIsStored /\ NoStrandedInstance
    BY DEF IInv
  <1>1. CASE UNCHANGED <<sess, store>> /\ closed \subseteq closed' /\ stopped \subseteq stopped'
    BY <1>0, <1>1 DEF OpenSessionIsStored, NoStrandedInstance, Built
  <1>2. ASSUME NEW t \in Threads, RemoveSession(t)
        PROVE  OpenSessionIsStored' /\ NoStrandedInstance'
    <2> DEFINE s == job[t].sess
    <2>1. s \in Built /\ s \in Conns /\ members[s] = {} /\ s \in closed
      BY <1>0, <1>2 DEF RemoveSession, JobInv, ThreadInv, MembersInv, Built
    <2>2. \A c \in Conns : sess[c] = s => c \in stopped
      BY <2>1, <1>0 DEF MembersInv
    <2>3. UNCHANGED <<sess, closed, stopped>> /\ Built' = Built
          /\ \A u \in Users : store'[u] = store[u] \/ store[u] = s
      BY <1>2, <1>0 DEF RemoveSession, signonVars, Built, TypeOK
    <2> QED BY <2>1, <2>2, <2>3, <1>0 DEF OpenSessionIsStored, NoStrandedInstance, Built
  <1>3. ASSUME NEW c \in Conns, AddInstance(c)
        PROVE  OpenSessionIsStored' /\ NoStrandedInstance'
    <2>1. CASE active[c] \in closed
      BY <1>1, <1>3, <2>1 DEF AddInstance
    <2>2. CASE active[c] \notin closed
      <3>1. sess[c] = None /\ active[c] \in Built /\ UserOf[active[c]] = UserOf[c]
        BY <1>3, <1>0 DEF AddInstance, SessInv, ActiveInv, AddSessionInv, Locked
      <3>2. store[UserOf[c]] = active[c]
        BY <2>2, <3>1, <1>0 DEF OpenSessionIsStored
      <3>3. sess' = [sess EXCEPT ![c] = active[c]] /\ UNCHANGED <<store, closed, stopped>>
        BY <1>3, <2>2 DEF AddInstance
      <3>4. Built' = Built
        BY <3>1, <3>3, <1>0 DEF Built, TypeOK
      <3> QED BY <3>1, <3>2, <3>3, <3>4, <1>0 DEF OpenSessionIsStored, NoStrandedInstance, TypeOK
    <2> QED BY <2>1, <2>2
  <1>4. ASSUME NEW c \in Conns, newSession(c)
        PROVE  OpenSessionIsStored' /\ NoStrandedInstance'
    <2>1. sess[c] = None /\ c \notin Built /\ UserOf[c] \in Users
      BY <1>0, <1>4 DEF SessInv, newSession, Goto, Locked, Built
    <2>2. sess' = [sess EXCEPT ![c] = c] /\ store' = [store EXCEPT ![UserOf[c]] = c]
          /\ UNCHANGED <<closed, stopped>>
      BY <1>4 DEF newSession
    <2>3. Built' = Built \cup {c}
      BY <2>1, <2>2, <1>0 DEF Built, TypeOK
    <2>4. store[UserOf[c]] \in {None, active[c]}
          /\ (active[c] # None => active[c] \in closed /\ Open(active[c]) = {})
      BY <1>4, <1>0 DEF newSession, Goto, ActiveInv, AddSessionInv, Locked
    <2>5. OpenSessionIsStored'
      BY <2>1, <2>2, <2>3, <2>4, <1>0 DEF OpenSessionIsStored, TypeOK, Built
    <2>6. NoStrandedInstance'
      BY <2>1, <2>2, <2>4, <1>0 DEF NoStrandedInstance, TypeOK, Open
    <2> QED BY <2>5, <2>6
  <1>5. ASSUME NEW t \in Threads, CloseStep(t)
        PROVE  OpenSessionIsStored' /\ NoStrandedInstance'
    BY <1>1, <1>2, <1>5 DEF CloseStep, markClosed, snapshot, closeOnly, removeInstanceAndMaybeClose,
       UnregisterBuddyList, closeReturns, signonVars, closeVars
  <1>6. ASSUME NEW c \in Conns, AddSession(c)
        PROVE  OpenSessionIsStored' /\ NoStrandedInstance'
    BY <1>1, <1>3, <1>4, <1>6 DEF AddSession, lockUser, findRec, checkClosed, evicted, checkCount,
       waitRemoved, waitTimeout, signonVars, closeVars
  <1>7. ASSUME NEW c \in Conns, RegisterBOSSession(c) \/ Connection(c)
        PROVE  OpenSessionIsStored' /\ NoStrandedInstance'
    BY <1>1, <1>7 DEF RegisterBOSSession, Connection, RunOnce, registerReturns, runOnceEnter,
       RegisterBuddyList, initFinish, initFailed, ClientOnline, EvaluateRateLimit, disconnect,
       CloseInstance, signonVars, closeVars
  <1>8. ASSUME NEW k \in Closers, Closer(k)
        PROVE  OpenSessionIsStored' /\ NoStrandedInstance'
    BY <1>1, <1>8 DEF Closer, deleteSessionHandler, maybeRelayMessage, signonVars, closeVars
  <1>9. CASE Stopped
    BY <1>1, <1>9 DEF Stopped, vars
  <1> QED
    BY <1>5, <1>6, <1>7, <1>8, <1>9 DEF Next

-----------------------------------------------------------------------------
LEMMA StutterStep == IInv /\ UNCHANGED vars => IInv'
  BY DEF vars, IInv, TypeOK, LockInv, SessInv, MembersInv, JobInv, ThreadInv, ActiveInv, AddSessionInv,
     EvictInv, Open, Built, TeardownOnce, OpenSessionIsStored, NoStrandedInstance

\* The inductive invariant holds in every reachable state.
LEMMA Invariance == Spec => []IInv
  <1>1. IInv /\ [Next]_vars => IInv'
    BY TypeStep, LockStep, SessStep, MembersStep, JobStep, ActiveStep, TeardownStep, SlotStep, StutterStep
       DEF IInv
  <1> QED BY InitIInv, <1>1, PTL DEF Spec

\* Every variable keeps its type, whatever the sets of connections and accounts.
THEOREM TypeCorrect == Spec => []TypeOK
  <1>1. IInv => TypeOK
    BY DEF IInv
  <1> QED BY <1>1, Invariance, PTL

\* onSessCloseFn of a session runs when its last instance goes, and never again: two
\* goroutines closing its instances cannot both find themselves last.
THEOREM HookRunsOnce == Spec => []TeardownOnce
  <1>1. IInv => TeardownOnce
    BY DEF IInv
  <1> QED BY <1>1, Invariance, PTL

\* An account never has two open sessions, and the open one is the one in its slot.
THEOREM OneOpenSession == Spec => []OpenSessionIsStored
  <1>1. IInv => OpenSessionIsStored
    BY DEF IInv
  <1> QED BY <1>1, Invariance, PTL

\* A connection with a running instance is reached through its account's slot.
THEOREM NobodyStranded == Spec => []NoStrandedInstance
  <1>1. IInv => NoStrandedInstance
    BY DEF IInv
  <1> QED BY <1>1, Invariance, PTL


-----------------------------------------------------------------------------
(***************************************************************************)
(* The limit.                                                              *)
(***************************************************************************)
\* Whoever has counted and not yet attached still finds room: it holds the lock, and
\* all others can do meanwhile is leave.
CountInv ==
    /\ \A s \in Conns : IsFiniteSet(members[s]) /\ Cardinality(members[s]) <= MaxConcurrentSessions
    /\ \A c \in Conns : pc[c] = "attach" => Cardinality(members[active[c]]) < MaxConcurrentSessions

LEMMA AddOne ==
  ASSUME NEW S, NEW x, IsFiniteSet(S)
  PROVE  /\ IsFiniteSet(S \cup {x})
         /\ Cardinality(S \cup {x}) \in Nat
         /\ Cardinality(S \cup {x}) <= Cardinality(S) + 1
  <1>1. IsFiniteSet(S \cup {x})
        /\ Cardinality(S \cup {x}) = IF x \in S THEN Cardinality(S) ELSE Cardinality(S) + 1
    BY FS_AddElement
  <1>2. Cardinality(S) \in Nat
    BY FS_CardinalityType
  <1> QED BY <1>1, <1>2

LEMMA InitCount == Init => CountInv
  BY FS_EmptySet, ConstantsAssumption DEF Init, CountInv

\* Two connections of one account are not both between the count and the attachment.
LEMMA OneAttaches ==
  ASSUME IInv, NEW c \in Conns, NEW d \in Conns, pc[c] \in {"attach", "build"}, pc[d] = "attach",
         active[c] = active[d], active[c] # None
  PROVE  c = d
  <1>1. UserOf[active[c]] = UserOf[c] /\ UserOf[active[d]] = UserOf[d]
    BY DEF IInv, ActiveInv, AddSessionInv, Locked
  <1>2. lock[UserOf[c]] = c /\ lock[UserOf[d]] = d
    BY DEF IInv, LockInv, Locked
  <1> QED BY <1>1, <1>2

LEMMA CountStep == IInv /\ CountInv /\ Next => CountInv'
  <1> SUFFICES ASSUME IInv, CountInv, Next PROVE CountInv'
    OBVIOUS
  <1> USE ConstantsAssumption
  <1>0. TypeOK /\ SessInv /\ JobInv /\ ActiveInv
    BY DEF IInv
  <1>1. CASE UNCHANGED members /\ \A d \in Conns : pc'[d] = "attach" => pc[d] = "attach" /\ active'[d] = active[d]
    BY <1>1 DEF CountInv
  <1>2. ASSUME NEW t \in Threads, removeInstanceAndMaybeClose(t) PROVE CountInv'
    <2> DEFINE s == job[t].sess
               left == members[s] \ {job[t].cur}
    <2>1. s \in Conns /\ UNCHANGED <<pc, active>> /\ members' = [members EXCEPT ![s] = left]
      BY <1>0, <1>2 DEF removeInstanceAndMaybeClose, JobInv, ThreadInv, Built, signonVars
    <2>2. IsFiniteSet(members[s]) /\ left \in SUBSET members[s]
      BY <2>1 DEF CountInv
    <2>3. IsFiniteSet(left) /\ Cardinality(left) <= Cardinality(members[s])
          /\ Cardinality(left) \in Nat /\ Cardinality(members[s]) \in Nat
      BY <2>2, FS_Subset, FS_CardinalityType
    <2>4. \A d \in Conns : members'[d] = IF d = s THEN left ELSE members[d]
      BY <2>1, <1>0 DEF TypeOK
    <2>5. \A d \in Conns : pc[d] = "attach" => active[d] \in Conns
      BY <1>0 DEF ActiveInv, AddSessionInv, Locked, Built
    <2> HIDE DEF s, left
    <2>6. \A d \in Conns : IsFiniteSet(members'[d]) /\ Cardinality(members'[d]) <= MaxConcurrentSessions
      BY <2>1, <2>3, <2>4 DEF CountInv
    <2>7. \A d \in Conns : pc[d] = "attach" => Cardinality(members'[active[d]]) < MaxConcurrentSessions
      BY <2>1, <2>3, <2>4, <2>5 DEF CountInv
    <2> QED BY <2>1, <2>6, <2>7 DEF CountInv
  <1>3. ASSUME NEW c \in Conns, checkCount(c) PROVE CountInv'
    <2>1. UNCHANGED <<members, active>> /\ active[c] \in Conns
          /\ \A d \in Conns \ {c} : pc'[d] = pc[d]
      BY <1>0, <1>3 DEF checkCount, ActiveInv, AddSessionInv, Locked, Built, TypeOK
    <2>2. Cardinality(members[active[c]]) \in Nat
      BY <2>1, FS_CardinalityType DEF CountInv
    <2>3. pc'[c] = "attach" => Cardinality(members[active[c]]) < MaxConcurrentSessions
      BY <2>2, <1>0, <1>3 DEF checkCount, TypeOK
    <2> QED BY <2>1, <2>3 DEF CountInv
  <1>4. ASSUME NEW c \in Conns, AddInstance(c) PROVE CountInv'
    <2>1. CASE active[c] \in closed
      BY <1>0, <1>1, <1>4, <2>1 DEF AddInstance, TypeOK
    <2>2. CASE active[c] \notin closed
      <3> DEFINE s == active[c]
                 more == members[s] \cup {c}
      <3>1. s \in Conns /\ pc[c] = "attach" /\ UNCHANGED active
        BY <1>0, <1>4 DEF AddInstance, ActiveInv, AddSessionInv, Locked, Built
      <3>2. members' = [members EXCEPT ![s] = more] /\ pc' = [pc EXCEPT ![c] = "joined"]
        BY <1>4, <2>2 DEF AddInstance
      <3>3. IsFiniteSet(members[s]) /\ Cardinality(members[s]) < MaxConcurrentSessions
        BY <3>1 DEF CountInv
      <3>4. Cardinality(members[s]) \in Nat
        BY <3>3, FS_CardinalityType
      <3>5. IsFiniteSet(more) /\ Cardinality(more) <= MaxConcurrentSessions
        <4>1. IsFiniteSet(more) /\ Cardinality(more) \in Nat
              /\ Cardinality(more) <= Cardinality(members[s]) + 1
          BY <3>3, AddOne
        <4> HIDE DEF s, more
        <4> QED BY <3>3, <3>4, <4>1
      <3>6. \A d \in Conns : members'[d] = IF d = s THEN more ELSE members[d]
        BY <3>1, <3>2, <1>0 DEF TypeOK
      <3>7. \A d \in Conns : pc'[d] = "attach" => pc[d] = "attach" /\ active[d] # s /\ active[d] \in Conns
        BY <3>1, <3>2, <1>0, OneAttaches DEF TypeOK, ActiveInv, AddSessionInv, Locked, Built
      <3> HIDE DEF s, more
      <3> QED BY <3>1, <3>5, <3>6, <3>7 DEF CountInv
    <2> QED BY <2>1, <2>2
  <1>5. ASSUME NEW c \in Conns, newSession(c) PROVE CountInv'
    <2>1. members' = [members EXCEPT ![c] = {c}] /\ pc' = [pc EXCEPT ![c] = "joined"]
          /\ UNCHANGED active /\ c \notin Built
      BY <1>0, <1>5 DEF newSession, Goto, SessInv, Locked, Built
    <2>2. IsFiniteSet({c}) /\ Cardinality({c}) = 1
      BY FS_Singleton
    <2>3. \A d \in Conns : members'[d] = IF d = c THEN {c} ELSE members[d]
      BY <2>1, <1>0 DEF TypeOK
    <2>4. \A d \in Conns : pc'[d] = "attach" => pc[d] = "attach" /\ active[d] # c /\ active[d] \in Conns
      BY <2>1, <1>0 DEF TypeOK, ActiveInv, AddSessionInv, Locked, Built
    <2>5. \A d \in Conns : IsFiniteSet(members'[d]) /\ Cardinality(members'[d]) <= MaxConcurrentSessions
      <3>1. IsFiniteSet(members'[c]) /\ Cardinality(members'[c]) <= MaxConcurrentSessions
        <4>1. 1 <= MaxConcurrentSessions
          OBVIOUS
        <4> QED BY <2>2, <2>3, <4>1
      <3> QED BY <3>1, <2>3 DEF CountInv
    <2> QED BY <2>1, <2>3, <2>4, <2>5 DEF CountInv
  <1>6. ASSUME NEW t \in Threads, CloseStep(t) PROVE CountInv'
    BY <1>1, <1>2, <1>6 DEF CloseStep, markClosed, snapshot, closeOnly, UnregisterBuddyList,
       RemoveSession, closeReturns, signonVars, closeVars
  <1>7. ASSUME NEW c \in Conns, lockUser(c) \/ findRec(c) \/ checkClosed(c) \/ evicted(c)
               \/ waitRemoved(c) \/ waitTimeout(c)
        PROVE  CountInv'
    BY <1>0, <1>1, <1>7 DEF lockUser, findRec, checkClosed, Branch, evicted, waitRemoved, waitTimeout,
       Goto, signonVars, closeVars, TypeOK
  <1>8. ASSUME NEW c \in Conns, RegisterBOSSession(c) \/ Connection(c) PROVE CountInv'
    BY <1>0, <1>1, <1>8 DEF RegisterBOSSession, Connection, RunOnce, registerReturns, runOnceEnter,
       RegisterBuddyList, initFinish, initFailed, ClientOnline, EvaluateRateLimit, disconnect,
       CloseInstance, Goto, signonVars, closeVars, TypeOK
  <1>9. ASSUME NEW k \in Closers, Closer(k) PROVE CountInv'
    BY <1>1, <1>9 DEF Closer, deleteSessionHandler, maybeRelayMessage, signonVars, closeVars
  <1>10. CASE Stopped
    BY <1>1, <1>10 DEF Stopped, vars, CountInv
  <1> QED
    BY <1>3, <1>4, <1>5, <1>6, <1>7, <1>8, <1>9, <1>10 DEF Next, AddSession

\* A session never has more instances than the limit, however many connections sign on
\* and off at once: the per-user lock covers the count and the attachment.
THEOREM LimitIsExact == Spec => []InstanceLimit
  <1>1. CountInv /\ UNCHANGED vars => CountInv'
    BY DEF CountInv, vars
  <1>2. IInv /\ CountInv /\ [Next]_vars => CountInv'
    BY <1>1, CountStep
  <1>3. CountInv => InstanceLimit
    BY DEF CountInv, InstanceLimit
  <1> QED BY InitCount, <1>2, <1>3, Invariance, PTL DEF Spec

-----------------------------------------------------------------------------
(***************************************************************************)
(* The buddy list.                                                         *)
(***************************************************************************)
\* Every multi-session sign-on that found a session found one like itself.
NoMixed == \A c \in Built \cap MultiConns : active[c] # None => active[c] \in multi

TearingDown(t) == job[t].phase \in {"unregister", "signout"}

\* `removed` is closed by the one goroutine that runs the session's hook, at its end.
RemovedInv ==
    /\ \A u \in Users : store[u] # None => store[u] \notin removed
    /\ \A t \in Threads : TearingDown(t) => job[t].sess \notin removed
    /\ \A t1, t2 \in Threads :
         t1 # t2 /\ TearingDown(t1) /\ TearingDown(t2) => job[t1].sess # job[t2].sess

\* What is said of a session is said of one that exists.
FreshInv ==
    /\ multi \subseteq Built
    /\ \A s \in Conns \ Built : init[s] = "no"
    /\ \A c \in Conns : active[c] # None => active[c] \in Built

\* A sign-on builds after `removed`, unless it is the kind that does not wait.
EvictionInv ==
    /\ \A c \in Conns : pc[c] = "evict" /\ c \in MultiConns => active[c] \notin multi
    /\ \A c \in Conns : pc[c] = "build" /\ active[c] # None =>
         active[c] \in removed \/ (c \in MultiConns /\ active[c] \notin multi)

\* Until its hook has ended a session stays in the slot, so no other session of the
\* account has registered the row the hook deletes.
KeptInv ==
    NoMixed =>
      /\ \A s \in Built : s \notin removed => store[UserOf[s]] = s
      /\ \A s \in Built : s \notin closed /\ init[s] = "ok" => UserOf[s] \in registered
      /\ \A c \in Conns : pc[c] = "initdone" /\ sess[c] \notin closed => UserOf[c] \in registered

LEMMA InitKept == Init => RemovedInv /\ FreshInv /\ EvictionInv /\ KeptInv
  <1> SUFFICES ASSUME Init PROVE RemovedInv /\ FreshInv /\ EvictionInv /\ KeptInv
    OBVIOUS
  <1>1. Built = {}
    BY ConstantsAssumption DEF Init, Built
  <1>2. \A t \in Threads : ~TearingDown(t)
    BY IdleType DEF Init, TearingDown
  <1> QED BY <1>1, <1>2 DEF Init, RemovedInv, FreshInv, EvictionInv, KeptInv

\* Who is tearing a session down after a step.
LEMMA RemovedStep == IInv /\ RemovedInv /\ Next => RemovedInv'
  <1> SUFFICES ASSUME IInv, RemovedInv, Next PROVE RemovedInv'
    OBVIOUS
  <1> USE ConstantsAssumption
  <1>0. TypeOK /\ SessInv /\ MembersInv /\ JobInv
    BY DEF IInv
  <1>1. ASSUME UNCHANGED <<store, removed>>,
               \A t \in Threads : TearingDown(t)' => TearingDown(t) /\ job'[t].sess = job[t].sess
        PROVE  RemovedInv'
    BY <1>1 DEF RemovedInv
  \* A thread starts a close call, or goes on with one.
  <1>2. ASSUME NEW t \in Threads, NEW p \in Phases \ {"unregister", "signout"}, NEW s, NEW todo, NEW cur,
               job' = [job EXCEPT ![t] = Job(p, s, todo, cur)], UNCHANGED <<store, removed>>
        PROVE  RemovedInv'
    <2>1. job'[t] = Job(p, s, todo, cur) /\ \A x \in Threads \ {t} : job'[x] = job[x]
      BY <1>0, <1>2 DEF TypeOK
    <2>2. job'[t].phase = p
      BY <2>1 DEF Job
    <2> QED BY <2>1, <2>2, <1>1, <1>2 DEF TearingDown
  <1>3. ASSUME NEW t \in Threads, removeInstanceAndMaybeClose(t) PROVE RemovedInv'
    <2> DEFINE s == job[t].sess
    <2>1. s \in Built /\ s \in Conns /\ members[s] # {} /\ s \notin removed
      BY <1>0, <1>3 DEF removeInstanceAndMaybeClose, JobInv, ThreadInv, MembersInv, Built
    <2>2. \A x \in Threads : TearingDown(x) => job[x].sess # s
      BY <2>1, <1>0 DEF TearingDown, JobInv, ThreadInv
    <2>3. PICK p \in {"unregister", "flag"} : job' = [job EXCEPT ![t] = Job(p, s, job[t].todo, None)]
      BY <1>3 DEF removeInstanceAndMaybeClose
    <2>4. job'[t] = Job(p, s, job[t].todo, None) /\ \A x \in Threads \ {t} : job'[x] = job[x]
      BY <2>3, <1>0 DEF TypeOK
    <2>5. job'[t].sess = s
      BY <2>4 DEF Job
    <2>6. UNCHANGED <<store, removed>>
      BY <1>3 DEF removeInstanceAndMaybeClose
    <2> QED BY <2>1, <2>2, <2>4, <2>5, <2>6 DEF RemovedInv, TearingDown
  <1>4. ASSUME NEW t \in Threads, UnregisterBuddyList(t) PROVE RemovedInv'
    <2>1. UNCHANGED <<store, removed>> /\ TearingDown(t)
      BY <1>4 DEF UnregisterBuddyList, TearingDown
    <2>2. CASE UNCHANGED job
      BY <1>1, <2>1, <2>2 DEF TearingDown
    <2>3. CASE job' = [job EXCEPT ![t] = Job("signout", job[t].sess, job[t].todo, None)]
      <3>1. job'[t] = Job("signout", job[t].sess, job[t].todo, None)
            /\ \A x \in Threads \ {t} : job'[x] = job[x]
        BY <2>3, <1>0 DEF TypeOK
      <3>2. job'[t].sess = job[t].sess
        BY <3>1 DEF Job
      <3> QED BY <1>1, <2>1, <3>1, <3>2 DEF TearingDown
    <2> QED BY <1>4, <2>2, <2>3 DEF UnregisterBuddyList
  <1>5. ASSUME NEW t \in Threads, RemoveSession(t) PROVE RemovedInv'
    <2> DEFINE s == job[t].sess
    <2>1. s \in Conns /\ TearingDown(t) /\ UserOf[s] \in Users
      BY <1>0, <1>5 DEF RemoveSession, JobInv, ThreadInv, Built, TearingDown
    <2>2. job' = [job EXCEPT ![t] = Job("flag", s, job[t].todo, None)]
      BY <1>5 DEF RemoveSession
    <2>3. job'[t] = Job("flag", s, job[t].todo, None) /\ \A x \in Threads \ {t} : job'[x] = job[x]
      BY <2>2, <1>0 DEF TypeOK
    <2>4. ~TearingDown(t)'
      BY <2>3 DEF Job, TearingDown
    <2>5. \/ UNCHANGED <<store, removed>>
          \/ store' = [store EXCEPT ![UserOf[s]] = None] /\ removed' = removed \cup {s}
      BY <1>5 DEF RemoveSession
    <2>6. \A u \in Users : store[u] = s => u = UserOf[s]
      BY <2>1, <1>0 DEF SessInv
    <2> QED BY <2>1, <2>3, <2>4, <2>5, <2>6, <1>0 DEF RemovedInv, TearingDown, TypeOK
  <1>6. ASSUME NEW c \in Conns, newSession(c) PROVE RemovedInv'
    <2>1. c \notin removed
      BY <1>0, <1>6 DEF newSession, Goto, SessInv, MembersInv, Locked, Built
    <2>2. UNCHANGED <<job, removed>> /\ store' = [store EXCEPT ![UserOf[c]] = c]
      BY <1>6 DEF newSession, closeVars
    <2> QED BY <2>1, <2>2, <1>0 DEF RemovedInv, TearingDown, TypeOK
  <1>7. CASE UNCHANGED <<store, removed, job>>
    BY <1>1, <1>7 DEF TearingDown
  <1>8. ASSUME NEW t \in Threads, markClosed(t) \/ snapshot(t) \/ closeReturns(t) PROVE RemovedInv'
    BY <1>2, <1>8 DEF markClosed, snapshot, closeReturns, Idle, closeVars, Phases
  <1>9. ASSUME NEW t \in Threads, closeOnly(t) PROVE RemovedInv'
    <2> PICK c \in job[t].todo \ stopped : job' = [job EXCEPT ![t] = Job("drop", job[t].sess, job[t].todo \ {c}, c)]
      BY <1>9 DEF closeOnly
    <2> QED BY <1>2, <1>9 DEF closeOnly, closeVars, Phases
  <1>10. ASSUME NEW c \in Conns, AddSession(c) PROVE RemovedInv'
    <2>1. CASE checkClosed(c)
      BY <1>2, <1>7, <2>1 DEF checkClosed, StartCloseSession, closeVars, Phases, Threads
    <2> QED BY <2>1, <1>6, <1>7, <1>10 DEF AddSession, lockUser, findRec, evicted, checkCount, AddInstance,
         waitRemoved, waitTimeout, closeVars
  <1>11. ASSUME NEW c \in Conns, RegisterBOSSession(c) \/ Connection(c) PROVE RemovedInv'
    BY <1>2, <1>7, <1>11 DEF RegisterBOSSession, Connection, RunOnce, registerReturns, runOnceEnter,
       RegisterBuddyList, initFinish, initFailed, ClientOnline, EvaluateRateLimit, disconnect,
       CloseInstance, StartCloseSession, StartCloseInstance, closeVars, Phases, Threads
  <1>12. ASSUME NEW k \in Closers, Closer(k) PROVE RemovedInv'
    BY <1>2, <1>12 DEF Closer, deleteSessionHandler, maybeRelayMessage, StartCloseSession,
       StartCloseInstance, closeVars, Phases, Threads
  <1>13. CASE Stopped
    BY <1>7, <1>13 DEF Stopped, vars
  <1> QED BY <1>3, <1>4, <1>5, <1>8, <1>9, <1>10, <1>11, <1>12, <1>13 DEF Next, CloseStep

\* Sessions are built by newSession only.
LEMMA BuiltStep ==
  ASSUME IInv, Next
  PROVE  \/ Built' = Built /\ UNCHANGED multi
         \/ \E c \in Conns : newSession(c) /\ c \notin Built /\ Built' = Built \cup {c}
  <1> USE ConstantsAssumption
  <1>0. TypeOK /\ SessInv /\ ActiveInv
    BY DEF IInv
  <1>1. CASE UNCHANGED <<sess, multi>>
    BY <1>1 DEF Built
  <1>2. ASSUME NEW c \in Conns, newSession(c)
        PROVE  c \notin Built /\ Built' = Built \cup {c}
    BY <1>0, <1>2 DEF newSession, Goto, SessInv, TypeOK, Locked, Built
  <1>3. ASSUME NEW c \in Conns, AddInstance(c) PROVE Built' = Built /\ UNCHANGED multi
    BY <1>0, <1>3 DEF AddInstance, SessInv, ActiveInv, AddSessionInv, TypeOK, Locked, Built
  <1>4. ASSUME NEW t \in Threads, CloseStep(t) PROVE UNCHANGED <<sess, multi>>
    BY <1>4 DEF CloseStep, markClosed, snapshot, closeOnly, removeInstanceAndMaybeClose,
       UnregisterBuddyList, RemoveSession, closeReturns, signonVars
  <1>5. ASSUME NEW c \in Conns, lockUser(c) \/ findRec(c) \/ checkClosed(c) \/ evicted(c)
               \/ checkCount(c) \/ waitRemoved(c) \/ waitTimeout(c)
        PROVE  UNCHANGED <<sess, multi>>
    BY <1>5 DEF lockUser, findRec, checkClosed, evicted, checkCount, waitRemoved, waitTimeout, signonVars
  <1>6. ASSUME NEW c \in Conns, RegisterBOSSession(c) \/ Connection(c) PROVE UNCHANGED <<sess, multi>>
    BY <1>6 DEF RegisterBOSSession, Connection, RunOnce, registerReturns, runOnceEnter,
       RegisterBuddyList, initFinish, initFailed, ClientOnline, EvaluateRateLimit, disconnect,
       CloseInstance, signonVars
  <1>7. ASSUME NEW k \in Closers, Closer(k) PROVE UNCHANGED <<sess, multi>>
    BY <1>7 DEF Closer, deleteSessionHandler, maybeRelayMessage, signonVars
  <1>8. CASE Stopped
    BY <1>1, <1>8 DEF Stopped, vars
  <1> QED BY <1>1, <1>2, <1>3, <1>4, <1>5, <1>6, <1>7, <1>8 DEF Next, AddSession

\* RunOnce's steps belong to sessions that exist.
LEMMA FreshStep == IInv /\ FreshInv /\ Next => FreshInv'
  <1> SUFFICES ASSUME IInv, FreshInv, Next PROVE FreshInv'
    OBVIOUS
  <1> USE ConstantsAssumption
  <1>0. TypeOK /\ SessInv
    BY DEF IInv
  <1>1. Built \subseteq Built' /\ multi' \subseteq Built'
    BY BuiltStep DEF FreshInv, newSession
  <1>2. ASSUME UNCHANGED init, \A d \in Conns : active'[d] # active[d] => active'[d] \in Built \cup {None}
        PROVE  FreshInv'
    BY <1>1, <1>2 DEF FreshInv
  <1>3. ASSUME NEW c \in Conns, RunOnce(c)
        PROVE  UNCHANGED active /\ \A s \in Conns \ Built : init'[s] = init[s]
    <2>1. pc[c] \notin Locked \cup {"start", "lock", "gone"} /\ pc[c] \in PCs
      BY <1>0, <1>3 DEF RunOnce, runOnceEnter, RegisterBuddyList, initFinish, initFailed, Goto,
         Locked, TypeOK
    <2>2. sess[c] \in Built
      BY <2>1, <1>0 DEF SessInv
    <2> QED BY <2>2, <1>0, <1>3 DEF RunOnce, runOnceEnter, RegisterBuddyList, initFinish, initFailed,
         signonVars, TypeOK, Built
  <1>4. ASSUME NEW t \in Threads, CloseStep(t) PROVE UNCHANGED <<init, active>>
    BY <1>4 DEF CloseStep, markClosed, snapshot, closeOnly, removeInstanceAndMaybeClose,
       UnregisterBuddyList, RemoveSession, closeReturns, signonVars
  <1>5. ASSUME NEW c \in Conns, findRec(c) PROVE FreshInv'
    BY <1>0, <1>2, <1>5 DEF findRec, TypeOK, SessInv
  <1>10. ASSUME NEW c \in Conns, RegisterBOSSession(c) \/ AddSession(c), ~findRec(c)
         PROVE  UNCHANGED <<init, active>>
    BY <1>10 DEF RegisterBOSSession, AddSession, lockUser, checkClosed, evicted, checkCount,
       AddInstance, waitRemoved, waitTimeout, newSession, signonVars
  <1>6. ASSUME NEW c \in Conns, Connection(c), ~RunOnce(c) PROVE UNCHANGED <<init, active>>
    BY <1>6 DEF Connection, registerReturns, ClientOnline, EvaluateRateLimit, disconnect, CloseInstance, signonVars
  <1>7. ASSUME NEW k \in Closers, Closer(k) PROVE UNCHANGED <<init, active>>
    BY <1>7 DEF Closer, deleteSessionHandler, maybeRelayMessage, signonVars
  <1>8. CASE Stopped
    BY <1>2, <1>8 DEF Stopped, vars
  <1>9. CASE \E c \in Conns : RunOnce(c)
    BY <1>1, <1>3, <1>9 DEF FreshInv
  <1> QED BY <1>2, <1>4, <1>5, <1>6, <1>7, <1>8, <1>9, <1>10 DEF Next, AddSession

\* An eviction either ends with `removed` closed or is of the kind NoMixed excludes.
LEMMA EvictionStep == IInv /\ FreshInv /\ EvictionInv /\ Next => EvictionInv'
  <1> SUFFICES ASSUME IInv, FreshInv, EvictionInv, Next PROVE EvictionInv'
    OBVIOUS
  <1> USE ConstantsAssumption
  <1>0. TypeOK /\ SessInv /\ ActiveInv
    BY DEF IInv
  <1>1. ASSUME removed \subseteq removed', UNCHANGED multi, \A d \in Conns : pc'[d] \in {"evict", "build"} =>
                 pc'[d] = pc[d] /\ active'[d] = active[d]
        PROVE  EvictionInv'
    BY <1>1 DEF EvictionInv
  <1>2. ASSUME NEW c \in Conns, checkClosed(c) PROVE EvictionInv'
    <2>1. UNCHANGED <<removed, multi, active>> /\ pc' = [pc EXCEPT ![c] = Branch(c)]
      BY <1>2 DEF checkClosed, signonVars, closeVars
    <2> QED BY <2>1, <1>0 DEF Branch, EvictionInv, TypeOK
  <1>3. ASSUME NEW c \in Conns, evicted(c) PROVE EvictionInv'
    BY <1>0, <1>3 DEF evicted, Goto, EvictionInv, TypeOK, signonVars, closeVars
  <1>4. ASSUME NEW c \in Conns, waitRemoved(c) PROVE EvictionInv'
    BY <1>0, <1>4 DEF waitRemoved, Goto, EvictionInv, TypeOK, signonVars, closeVars
  <1>5. ASSUME NEW c \in Conns, newSession(c) PROVE EvictionInv'
    <2>1. UNCHANGED <<removed, active>> /\ multi' \subseteq multi \cup {c} /\ multi \subseteq multi'
          /\ pc' = [pc EXCEPT ![c] = "joined"] /\ c \notin Built
      BY <1>0, <1>5 DEF newSession, Goto, closeVars, SessInv, Locked, Built
    <2>2. \A d \in Conns : pc'[d] \in {"evict", "build"} =>
            pc'[d] = pc[d] /\ (active[d] = None \/ active[d] \in Built)
      BY <2>1, <1>0 DEF TypeOK, ActiveInv, AddSessionInv, Locked
    <2>3. \A d \in Conns : pc'[d] = "evict" => active[d] \in Built
      BY <2>1, <1>0 DEF TypeOK, ActiveInv, AddSessionInv, Locked
    <2> QED BY <2>1, <2>2, <2>3 DEF EvictionInv
  <1>6. ASSUME NEW t \in Threads, CloseStep(t) PROVE EvictionInv'
    BY <1>1, <1>6 DEF CloseStep, markClosed, snapshot, closeOnly, removeInstanceAndMaybeClose,
       UnregisterBuddyList, RemoveSession, closeReturns, signonVars, closeVars
  <1>7. ASSUME NEW c \in Conns, lockUser(c) \/ findRec(c) \/ checkCount(c) \/ AddInstance(c) \/ waitTimeout(c)
        PROVE  EvictionInv'
    BY <1>0, <1>1, <1>7 DEF lockUser, findRec, checkCount, AddInstance, waitTimeout, Goto, closeVars, TypeOK
  <1>8. ASSUME NEW c \in Conns, RegisterBOSSession(c) \/ Connection(c) PROVE EvictionInv'
    BY <1>0, <1>1, <1>8 DEF RegisterBOSSession, Connection, RunOnce, registerReturns, runOnceEnter,
       RegisterBuddyList, initFinish, initFailed, ClientOnline, EvaluateRateLimit, disconnect,
       CloseInstance, Goto, signonVars, closeVars, TypeOK
  <1>9. ASSUME NEW k \in Closers, Closer(k) PROVE EvictionInv'
    BY <1>1, <1>9 DEF Closer, deleteSessionHandler, maybeRelayMessage, signonVars, closeVars
  <1>10. CASE Stopped
    BY <1>1, <1>10 DEF Stopped, vars
  <1> QED
    BY <1>2, <1>3, <1>4, <1>5, <1>6, <1>7, <1>8, <1>9, <1>10 DEF Next, AddSession

\* NoMixed looks at nothing a step can undo.
LEMMA MixedStays == IInv /\ FreshInv /\ Next /\ NoMixed' => NoMixed
  <1> SUFFICES ASSUME IInv, FreshInv, Next, NoMixed', NEW c \in Built \cap MultiConns, active[c] # None
               PROVE  active[c] \in multi
    BY DEF NoMixed
  <1> USE ConstantsAssumption
  <1>0. TypeOK /\ SessInv
    BY DEF IInv
  <1>1. Built \subseteq Built' /\ multi' \cap Built \subseteq multi
    <2>1. ASSUME NEW d \in Conns, newSession(d), d \notin Built PROVE multi' \cap Built \subseteq multi
      BY <2>1 DEF newSession
    <2> QED BY <2>1, BuiltStep
  <1>2. active'[c] = active[c]
    <2>1. ASSUME NEW d \in Conns, findRec(d) PROVE active'[c] = active[c]
      BY <1>0, <2>1 DEF findRec, Goto, SessInv, TypeOK, Locked, Built
    <2>2. ASSUME NEW t \in Threads, CloseStep(t) PROVE UNCHANGED active
      BY <2>2 DEF CloseStep, markClosed, snapshot, closeOnly, removeInstanceAndMaybeClose,
         UnregisterBuddyList, RemoveSession, closeReturns, signonVars
    <2>3. ASSUME NEW d \in Conns, RegisterBOSSession(d) \/ AddSession(d), ~findRec(d) PROVE UNCHANGED active
      BY <2>3 DEF RegisterBOSSession, AddSession, lockUser, checkClosed, evicted, checkCount,
         AddInstance, waitRemoved, waitTimeout, newSession, signonVars
    <2>4. ASSUME NEW d \in Conns, Connection(d) PROVE UNCHANGED active
      BY <2>4 DEF Connection, RunOnce, registerReturns, runOnceEnter, RegisterBuddyList, initFinish,
         initFailed, ClientOnline, EvaluateRateLimit, disconnect, CloseInstance, signonVars
    <2>5. ASSUME NEW k \in Closers, Closer(k) PROVE UNCHANGED active
      BY <2>5 DEF Closer, deleteSessionHandler, maybeRelayMessage, signonVars
    <2>6. CASE Stopped
      BY <2>6 DEF Stopped, vars
    <2> QED BY <2>1, <2>2, <2>3, <2>4, <2>5, <2>6 DEF Next, AddSession
  <1>3. active[c] \in Built
    BY DEF FreshInv, Built
  <1> QED BY <1>1, <1>2, <1>3 DEF NoMixed

\* Neither a removal nor a new session takes the slot from a session whose hook has not
\* ended, and the row is deleted by the session in the slot, when that is closed.
LEMMA KeptStep == IInv /\ RemovedInv /\ FreshInv /\ EvictionInv /\ KeptInv /\ Next => KeptInv'
  <1> SUFFICES ASSUME IInv, RemovedInv, FreshInv, EvictionInv, KeptInv, Next, NoMixed'
               PROVE  /\ \A s \in Built' : s \notin removed' => store'[UserOf[s]] = s
                      /\ \A s \in Built' : s \notin closed' /\ init'[s] = "ok" => UserOf[s] \in registered'
                      /\ \A c \in Conns : pc'[c] = "initdone" /\ sess'[c] \notin closed'
                                           => UserOf[c] \in registered'
    BY DEF KeptInv
  <1> USE ConstantsAssumption
  <1> DEFINE Slots == \A s \in Built : s \notin removed => store[UserOf[s]] = s
             Rows == /\ \A s \in Built : s \notin closed /\ init[s] = "ok" => UserOf[s] \in registered
                     /\ \A c \in Conns : pc[c] = "initdone" /\ sess[c] \notin closed => UserOf[c] \in registered
  <1>0. TypeOK /\ SessInv /\ MembersInv /\ JobInv /\ ActiveInv /\ OpenSessionIsStored
    BY DEF IInv
  <1>k. Slots /\ Rows
    BY MixedStays DEF KeptInv
  <1>1. ASSUME UNCHANGED <<store, removed>>, Built' = Built PROVE Slots'
    BY <1>k, <1>1
  <1>2. ASSUME UNCHANGED init, closed \subseteq closed', registered \subseteq registered', Built' = Built,
               \A c \in Conns : pc'[c] = "initdone" => pc[c] = "initdone" /\ sess'[c] = sess[c]
        PROVE  Rows'
    BY <1>k, <1>2
  <1>3. ASSUME NEW t \in Threads, UnregisterBuddyList(t) PROVE Slots' /\ Rows'
    <2> DEFINE s == job[t].sess
    <2>1. TearingDown(t) /\ s \in Built /\ s \in Conns /\ members[s] = {}
      BY <1>0, <1>3 DEF UnregisterBuddyList, TearingDown, JobInv, ThreadInv, Built
    <2>2. s \in closed /\ store[UserOf[s]] = s
      BY <2>1, <1>0, <1>k DEF MembersInv, RemovedInv
    <2>3. \A d \in Built : d \notin closed => UserOf[d] # UserOf[s]
      BY <2>2, <1>0 DEF OpenSessionIsStored
    <2>4. UNCHANGED <<pc, store, removed, closed, sess, init>> /\ Built' = Built
          /\ registered \ {UserOf[s]} \subseteq registered'
      BY <1>3 DEF UnregisterBuddyList, signonVars, Built
    <2>5. \A c \in Conns : pc[c] = "initdone" => sess[c] \in Built /\ UserOf[sess[c]] = UserOf[c]
      BY <1>0 DEF SessInv, PCs, Locked
    <2> QED BY <2>3, <2>4, <2>5, <1>1, <1>k
  <1>4. ASSUME NEW t \in Threads, RemoveSession(t) PROVE Slots' /\ Rows'
    <2> DEFINE s == job[t].sess
    <2>1. TearingDown(t) /\ s \in Built /\ s \in Conns /\ UserOf[s] \in Users
      BY <1>0, <1>4 DEF RemoveSession, TearingDown, JobInv, ThreadInv, Built
    <2>2. store[UserOf[s]] = s
      BY <2>1, <1>k DEF RemovedInv
    <2>3. store' = [store EXCEPT ![UserOf[s]] = None] /\ removed' = removed \cup {s}
      BY <2>2, <1>4 DEF RemoveSession
    <2>4. UNCHANGED <<pc, closed, sess, init, registered>> /\ Built' = Built
      BY <1>4 DEF RemoveSession, signonVars, Built
    <2>5. Slots'
      BY <2>1, <2>2, <2>3, <2>4, <1>0, <1>k DEF TypeOK, Built
    <2> QED BY <2>4, <2>5, <1>2
  <1>5. ASSUME NEW c \in Conns, newSession(c) PROVE Slots' /\ Rows'
    <2>1. c \notin Built /\ c \notin closed /\ pc[c] = "build" /\ UserOf[c] \in Users
      BY <1>0, <1>5 DEF newSession, Goto, SessInv, Locked, Built
    <2>2. sess' = [sess EXCEPT ![c] = c] /\ store' = [store EXCEPT ![UserOf[c]] = c]
          /\ pc' = [pc EXCEPT ![c] = "joined"] /\ UNCHANGED <<removed, closed, active, init, registered>>
      BY <1>5 DEF newSession, Goto, closeVars
    <2>3. Built' = Built \cup {c}
      BY <2>1, <2>2, <1>0 DEF Built, TypeOK
    <2>4. active[c] # None => active[c] \in removed
      <3> SUFFICES ASSUME active[c] # None, active[c] \notin removed PROVE FALSE
        OBVIOUS
      <3>1. c \in MultiConns /\ active[c] \notin multi /\ active[c] # c
        BY <2>1 DEF EvictionInv, FreshInv
      <3>2. active'[c] \in multi'
        BY <2>2, <2>3, <3>1 DEF NoMixed
      <3> QED BY <3>1, <3>2, <2>2, <1>5 DEF newSession
    <2>5. store[UserOf[c]] = None
      BY <2>1, <2>4, <1>0 DEF ActiveInv, AddSessionInv, Locked, RemovedInv
    <2>6. \A s \in Built : s \notin removed => UserOf[s] # UserOf[c]
      BY <2>5, <1>k DEF Built
    <2>7. Slots'
      BY <2>1, <2>2, <2>3, <2>6, <1>0, <1>k DEF TypeOK, Built
    <2>8. init[c] # "ok"
      BY <2>1 DEF FreshInv
    <2>9. Rows'
      BY <2>1, <2>2, <2>3, <2>8, <1>0, <1>k DEF TypeOK
    <2> QED BY <2>7, <2>9
  <1>6. ASSUME NEW c \in Conns, AddInstance(c) PROVE Slots' /\ Rows'
    <2>1. UNCHANGED <<store, removed, closed, init, registered>>
      BY <1>6 DEF AddInstance, closeVars
    <2>2. Built' = Built
      BY <1>0, <1>6 DEF AddInstance, SessInv, ActiveInv, AddSessionInv, TypeOK, Locked, Built
    <2>3. \A d \in Conns : pc'[d] = "initdone" => pc[d] = "initdone" /\ sess'[d] = sess[d]
      BY <1>0, <1>6 DEF AddInstance, TypeOK
    <2> QED BY <2>1, <2>2, <2>3, <1>1, <1>2
  <1>7. ASSUME NEW c \in Conns, RegisterBuddyList(c) PROVE Slots' /\ Rows'
    <2>1. UNCHANGED <<store, removed, closed, init, sess>> /\ Built' = Built /\ registered \subseteq registered'
      BY <1>7 DEF RegisterBuddyList, signonVars, closeVars, Built
    <2>2. \A d \in Conns : pc'[d] = "initdone" => pc[d] = "initdone" \/ UserOf[d] \in registered'
      BY <1>0, <1>7 DEF RegisterBuddyList, Goto, TypeOK
    <2> QED BY <2>1, <2>2, <1>1, <1>k
  <1>8. ASSUME NEW c \in Conns, initFinish(c) PROVE Slots' /\ Rows'
    <2>1. UNCHANGED <<store, removed, closed, sess, registered>> /\ Built' = Built
      BY <1>8 DEF initFinish, closeVars, Built
    <2>2. sess[c] \in Built /\ UserOf[sess[c]] = UserOf[c] /\ pc[c] = "initdone"
      BY <1>0, <1>8 DEF initFinish, Goto, SessInv, PCs, Locked
    <2>3. \A s \in Built : init'[s] = "ok" => init[s] = "ok" \/ s = sess[c]
      BY <2>2, <1>0, <1>8 DEF initFinish, TypeOK, Built
    <2>4. \A d \in Conns : pc'[d] = "initdone" => pc[d] = "initdone"
      BY <1>0, <1>8 DEF initFinish, Goto, TypeOK
    <2> QED BY <2>1, <2>2, <2>3, <2>4, <1>1, <1>k
  <1>9. ASSUME NEW c \in Conns, runOnceEnter(c) \/ initFailed(c) PROVE Slots' /\ Rows'
    <2>1. UNCHANGED <<store, removed, closed, sess, registered>> /\ Built' = Built
      BY <1>9 DEF runOnceEnter, initFailed, closeVars, Built
    <2>2. \A s \in Built : init'[s] = "ok" => init[s] = "ok"
      BY <1>0, <1>9 DEF runOnceEnter, initFailed, TypeOK, Built
    <2>3. \A d \in Conns : pc'[d] = "initdone" => pc[d] = "initdone"
      BY <1>0, <1>9 DEF runOnceEnter, initFailed, Goto, TypeOK
    <2> QED BY <2>1, <2>2, <2>3, <1>1, <1>k
  <1>10. ASSUME NEW t \in Threads, CloseStep(t) PROVE Slots' /\ Rows'
    <2>1. CASE UNCHANGED <<pc, store, removed, sess, init, registered>> /\ closed \subseteq closed'
      BY <2>1, <1>1, <1>2 DEF Built
    <2> QED BY <2>1, <1>3, <1>4, <1>10 DEF CloseStep, markClosed, snapshot, closeOnly,
         removeInstanceAndMaybeClose, closeReturns, signonVars, closeVars
  <1>11. ASSUME NEW c \in Conns, RegisterBOSSession(c) \/ AddSession(c) PROVE Slots' /\ Rows'
    <2>1. CASE /\ UNCHANGED <<store, removed, closed, sess, init, registered>>
               /\ \A d \in Conns : pc'[d] = "initdone" => pc[d] = "initdone"
      BY <2>1, <1>1, <1>2 DEF Built
    <2>2. CASE checkClosed(c)
      BY <2>1, <2>2, <1>0 DEF checkClosed, Branch, signonVars, closeVars, TypeOK
    <2> QED BY <2>1, <2>2, <1>0, <1>5, <1>6, <1>11 DEF RegisterBOSSession, AddSession, lockUser, findRec,
         evicted, checkCount, waitRemoved, waitTimeout, Goto, signonVars, closeVars, TypeOK
  <1>12. ASSUME NEW c \in Conns, Connection(c) PROVE Slots' /\ Rows'
    <2>1. CASE /\ UNCHANGED <<store, removed, closed, sess, init, registered>>
               /\ \A d \in Conns : pc'[d] = "initdone" => pc[d] = "initdone"
      BY <2>1, <1>1, <1>2 DEF Built
    <2> QED BY <2>1, <1>0, <1>7, <1>8, <1>9, <1>12 DEF Connection, RunOnce, registerReturns,
         ClientOnline, EvaluateRateLimit, disconnect, CloseInstance, Goto, signonVars, closeVars, TypeOK
  <1>13. CASE UNCHANGED <<pc, store, removed, closed, sess, init, registered>>
    BY <1>1, <1>2, <1>13 DEF Built
  <1>14. ASSUME NEW k \in Closers, Closer(k) PROVE Slots' /\ Rows'
    BY <1>13, <1>14 DEF Closer, deleteSessionHandler, maybeRelayMessage, signonVars, closeVars
  <1>15. CASE Stopped
    BY <1>13, <1>15 DEF Stopped, vars
  <1> QED BY <1>10, <1>11, <1>12, <1>14, <1>15 DEF Next

\* The account's row in buddyListMode stays while its session is open, as long as every
\* eviction waits: UnregisterBuddyList never runs late.
THEOREM RowIsKept == Spec => []BuddyListKept
  <1> DEFINE Inv == IInv /\ RemovedInv /\ FreshInv /\ EvictionInv /\ KeptInv
  <1>1. Init => Inv
    BY InitIInv, InitKept
  <1>2. Inv /\ UNCHANGED vars => Inv'
    BY StutterStep DEF vars, RemovedInv, FreshInv, EvictionInv, KeptInv, NoMixed, TearingDown, Built
  <1>3. Inv /\ Next => RemovedInv' /\ FreshInv' /\ EvictionInv' /\ KeptInv'
    BY RemovedStep, FreshStep, EvictionStep, KeptStep
  <1>4. Inv => BuddyListKept
    BY DEF KeptInv, NoMixed, BuddyListKept, BuddyListNotPrematurelyDeleted
  <1>5. RemovedInv /\ FreshInv /\ EvictionInv /\ KeptInv /\ []IInv /\ [][Next]_vars
        => [](RemovedInv /\ FreshInv /\ EvictionInv /\ KeptInv)
    BY <1>2, <1>3, PTL
  <1> QED BY <1>1, <1>4, <1>5, Invariance, PTL DEF Spec


-----------------------------------------------------------------------------
(***************************************************************************)
(* SessionManager implements SessionRegistry.                              *)
(***************************************************************************)

\* Steps that neither attach nor close nor tear down are invisible.
LEMMA Invisible ==
  ASSUME sess' = sess, torn' = torn, closed' = closed, stopped' = stopped
  PROVE  UNCHANGED <<phaseOf, onOf, stopped>>
  BY DEF phaseOf, onOf

\* The instance brings its own copy of the library's operator.
LEMMA SameCardinality ==
  ASSUME NEW S
  PROVE  Registry!Cardinality(S) = Cardinality(S)
  BY DEF Registry!Cardinality, Cardinality

LEMMA InitMaps == Init => Registry!Init
  <1> SUFFICES ASSUME Init PROVE Registry!Init
    OBVIOUS
  <1>1. \A c \in Conns : sess[c] # c
    BY ConstantsAssumption DEF Init
  <1>2. phaseOf = [c \in Conns |-> "none"]
    BY <1>1 DEF phaseOf
  <1>3. onOf = [c \in Conns |-> None]
    BY DEF Init, onOf
  <1> QED BY <1>2, <1>3 DEF Init, Registry!Init

\* An instance that is not closed is a member of its session, and its session is the
\* one in the slot.
LEMMA OnInside ==
  ASSUME IInv, NEW c \in Conns, onOf[c] # None
  PROVE  /\ c \notin stopped /\ onOf[c] = sess[c]
         /\ c \in members[sess[c]]
         /\ store[UserOf[c]] = sess[c]
  <1>1. c \notin stopped /\ onOf[c] = sess[c] /\ sess[c] # None
    BY DEF onOf
  <1> QED BY <1>1 DEF IInv, MembersInv, NoStrandedInstance

\* An open session exists and is in its account's slot.
LEMMA OpenInside ==
  ASSUME IInv, NEW s \in Conns, phaseOf[s] = "open"
  PROVE  s \in Built /\ s \notin closed /\ store[UserOf[s]] = s
  BY DEF phaseOf, Built, IInv, OpenSessionIsStored

LEMMA MarkMaps ==
  ASSUME IInv, NEW t \in Threads, markClosed(t)
  PROVE  Registry!Close(job[t].sess) \/ UNCHANGED <<phaseOf, onOf, stopped>>
  <1> DEFINE s == job[t].sess
  <1>1. s \in Built /\ s \in Conns
    BY DEF IInv, JobInv, ThreadInv, markClosed, Built
  <1>2. closed' = closed \cup {s} /\ sess' = sess /\ torn' = torn /\ stopped' = stopped
    BY DEF markClosed, signonVars, closeVars
  <1> HIDE DEF s
  <1>3. CASE phaseOf[s] = "open"
    <2>1. onOf' = onOf
      BY <1>2 DEF onOf
    <2>2. sess[s] = s /\ ~(torn[s] > 0) /\ s \notin closed
      BY <1>1, <1>3 DEF phaseOf
    <2>3. phaseOf' = [phaseOf EXCEPT ![s] = "closing"]
      BY <1>1, <1>2, <2>2 DEF phaseOf
    <2> QED BY <1>2, <1>3, <2>1, <2>3 DEF Registry!Close, s
  <1>4. CASE phaseOf[s] # "open"
    <2>1. torn[s] > 0 \/ s \in closed
      BY <1>1, <1>4 DEF phaseOf, Built
    <2>2. phaseOf' = phaseOf
      BY <1>1, <1>2, <2>1 DEF phaseOf
    <2> QED BY <1>2, <2>2 DEF onOf
  <1> QED BY <1>3, <1>4

LEMMA LeaveMaps ==
  ASSUME IInv, NEW t \in Threads, closeOnly(t)
  PROVE  \E c \in Conns : Registry!Leave(c)
  <1>1. PICK c \in job[t].todo \ stopped : stopped' = stopped \cup {c}
    BY DEF closeOnly
  <1>2. job[t].phase # "idle" /\ sess[c] = job[t].sess /\ job[t].sess \in Built
    BY <1>1 DEF closeOnly, IInv, JobInv, ThreadInv
  <1>3. c \in Conns /\ sess[c] # None
    BY <1>1, <1>2, ConstantsAssumption DEF IInv, TypeOK, Jobs, Built
  <1>4. sess' = sess /\ torn' = torn /\ closed' = closed
    BY DEF closeOnly, signonVars, closeVars
  <1>5. phaseOf' = phaseOf
    BY <1>4 DEF phaseOf
  <1>6. onOf[c] # None
    BY <1>1, <1>3 DEF onOf
  <1>7. onOf' = [onOf EXCEPT ![c] = None]
    BY <1>1, <1>3, <1>4 DEF onOf
  <1> QED BY <1>1, <1>3, <1>5, <1>6, <1>7 DEF Registry!Leave

LEMMA EndMaps ==
  ASSUME IInv, NEW t \in Threads, removeInstanceAndMaybeClose(t)
  PROVE  (\E s \in Conns : Registry!End(s)) \/ UNCHANGED <<phaseOf, onOf, stopped>>
  <1> DEFINE s == job[t].sess
             left == members[s] \ {job[t].cur}
  <1>1. s \in Built /\ s \in Conns /\ job[t].cur \in members[s] /\ job[t].cur \in stopped
    BY DEF IInv, JobInv, ThreadInv, removeInstanceAndMaybeClose, Built
  <1>2. sess' = sess /\ stopped' = stopped /\ onOf' = onOf
    BY DEF removeInstanceAndMaybeClose, signonVars, onOf
  <1>3. CASE left # {}
    <2>1. closed' = closed /\ torn' = torn
      BY <1>3 DEF removeInstanceAndMaybeClose
    <2> QED BY <1>2, <2>1, Invisible
  <1>4. CASE left = {}
    <2>1. closed' = closed \cup {s} /\ torn' = [torn EXCEPT ![s] = @ + 1]
      BY <1>4 DEF removeInstanceAndMaybeClose
    <2>2. torn[s] = 0 /\ torn \in [Conns -> 0..1]
      BY <1>1 DEF IInv, TeardownOnce, TypeOK
    <2>3. torn'[s] = 1 /\ \A r \in Conns \ {s} : torn'[r] = torn[r]
      BY <1>1, <2>1, <2>2
    <2>4. phaseOf[s] \in {"open", "closing"}
      BY <1>1, <2>2 DEF phaseOf, Built
    <2>5. phaseOf' = [phaseOf EXCEPT ![s] = "over"]
      <3>1. \A r \in Conns : phaseOf'[r] = IF r = s THEN "over" ELSE phaseOf[r]
        BY <1>1, <1>2, <2>1, <2>3 DEF phaseOf, Built
      <3> QED BY <3>1 DEF phaseOf
    <2>6. Registry!Inside(s) = {}
      <3> SUFFICES ASSUME NEW c \in Conns, onOf[c] = s PROVE FALSE
        BY DEF Registry!Inside
      <3>1. onOf[c] # None
        BY <1>1, ConstantsAssumption
      <3>2. c \in members[s] /\ c \notin stopped
        BY <3>1, OnInside
      <3> QED BY <1>1, <1>4, <3>2
    <2> QED BY <1>1, <1>2, <2>4, <2>5, <2>6 DEF Registry!End
  <1> QED BY <1>3, <1>4

LEMMA JoinMaps ==
  ASSUME IInv, CountInv, NEW c \in Conns, AddInstance(c)
  PROVE  (\E s \in Conns : Registry!Join(c, s)) \/ UNCHANGED <<phaseOf, onOf, stopped>>
  <1> DEFINE s == active[c]
  <1>1. s \in Built /\ s \in Conns /\ UserOf[s] = UserOf[c]
    BY DEF IInv, ActiveInv, AddSessionInv, AddInstance, Locked, Built
  <1>2. sess[c] = None /\ c \notin stopped
    BY DEF IInv, SessInv, AddInstance, Locked
  <1>3. torn' = torn /\ closed' = closed /\ stopped' = stopped
    BY DEF AddInstance, closeVars
  <1>4. CASE s \in closed
    BY <1>3, <1>4, Invisible DEF AddInstance
  <1>5. CASE s \notin closed
    <2>1. sess' = [sess EXCEPT ![c] = s] /\ sess \in [Conns -> MaybeConn]
      BY <1>5 DEF AddInstance, IInv, TypeOK
    <2>2. s # c /\ c # None /\ s # None
      BY <1>1, <1>2, ConstantsAssumption DEF Built
    <2>3. phaseOf[s] = "open"
      <3>1. members[s] # {}
        BY <1>1, <1>5 DEF IInv, MembersInv
      <3>2. torn[s] = 0
        BY <1>1, <3>1 DEF IInv, TeardownOnce
      <3> QED BY <1>1, <1>5, <3>2 DEF phaseOf, Built
    <2>4. phaseOf' = phaseOf
      BY <1>2, <1>3, <2>1, <2>2 DEF phaseOf
    <2>5. onOf[c] = None
      BY <1>2 DEF onOf
    <2>6. onOf' = [onOf EXCEPT ![c] = s]
      BY <1>2, <1>3, <2>1 DEF onOf
    <2>7. Registry!Cardinality(Registry!Inside(s)) < MaxConcurrentSessions
      <3> DEFINE I == Registry!Inside(s)
                 M == members[s]
      <3>1. I \subseteq M
        <4> SUFFICES ASSUME NEW d \in Conns, onOf[d] = s PROVE d \in M
          BY DEF Registry!Inside
        <4> QED BY <2>2, OnInside
      <3>2. IsFiniteSet(M) /\ Cardinality(M) < MaxConcurrentSessions
        BY <1>1 DEF CountInv, AddInstance
      <3> HIDE DEF I, M
      <3>3. Cardinality(I) <= Cardinality(M) /\ IsFiniteSet(I)
        BY <3>1, <3>2, FS_Subset
      <3>4. Cardinality(I) \in Nat /\ Cardinality(M) \in Nat
        BY <3>2, <3>3, FS_CardinalityType
      <3>5. Cardinality(I) < MaxConcurrentSessions
        BY <3>2, <3>3, <3>4, ConstantsAssumption
      <3>6. Registry!Cardinality(I) = Cardinality(I)
        BY SameCardinality
      <3> QED BY <3>5, <3>6 DEF I
    <2> QED BY <1>1, <1>2, <1>3, <2>3, <2>4, <2>5, <2>6, <2>7
            DEF Registry!Join, Registry!SameAccount
  <1> QED BY <1>4, <1>5

\* The session found, if any, is closed with all its instances, and nothing else got
\* into the slot: nobody of the account is inside a session.
LEMMA BeginMaps ==
  ASSUME IInv, NEW c \in Conns, newSession(c)
  PROVE  Registry!Begin(c)
  <1>1. sess[c] = None /\ c \notin stopped /\ c \notin closed /\ c \notin Built
    BY ConstantsAssumption DEF IInv, SessInv, newSession, Goto, Locked, Built
  <1>2. torn[c] = 0
    BY <1>1 DEF IInv, TeardownOnce
  <1>3. /\ store[UserOf[c]] \in {None, active[c]}
        /\ active[c] # None => active[c] \in closed /\ Open(active[c]) = {}
    BY DEF IInv, ActiveInv, AddSessionInv, newSession, Goto, Locked
  <1>4. ASSUME NEW s \in Conns, UserOf[s] = UserOf[c] PROVE phaseOf[s] # "open" /\ onOf[s] = None
    <2>1. phaseOf[s] # "open"
      <3> SUFFICES ASSUME phaseOf[s] = "open" PROVE FALSE
        OBVIOUS
      <3>1. s \notin closed /\ store[UserOf[s]] = s
        BY OpenInside
      <3> QED BY <1>3, <1>4, <3>1, ConstantsAssumption
    <2>2. onOf[s] = None
      <3> SUFFICES ASSUME onOf[s] # None PROVE FALSE
        OBVIOUS
      <3>1. s \notin stopped /\ sess[s] # None /\ store[UserOf[s]] = sess[s]
        BY OnInside
      <3>2. sess[s] = active[c] /\ active[c] # None
        BY <1>3, <1>4, <3>1
      <3>3. s \in Open(active[c])
        BY <3>1, <3>2 DEF Open
      <3> QED BY <1>3, <3>2, <3>3
    <2> QED BY <2>1, <2>2
  <1>5. /\ sess' = [sess EXCEPT ![c] = c] /\ sess \in [Conns -> MaybeConn]
        /\ torn' = torn /\ closed' = closed /\ stopped' = stopped
    BY DEF newSession, closeVars, IInv, TypeOK
  <1>6. phaseOf' = [phaseOf EXCEPT ![c] = "open"]
    <2>1. \A r \in Conns : phaseOf'[r] = IF r = c THEN "open" ELSE phaseOf[r]
      BY <1>1, <1>2, <1>5 DEF phaseOf
    <2> QED BY <2>1 DEF phaseOf
  <1>7. onOf' = [onOf EXCEPT ![c] = c]
    BY <1>1, <1>5 DEF onOf
  <1>8. phaseOf[c] = "none" /\ onOf[c] = None
    BY <1>1, <1>2, ConstantsAssumption DEF phaseOf, onOf
  <1> QED BY <1>1, <1>4, <1>5, <1>6, <1>7, <1>8 DEF Registry!Begin, Registry!SameAccount

LEMMA StepMaps ==
  ASSUME IInv, CountInv, Next
  PROVE  Registry!Next \/ UNCHANGED <<phaseOf, onOf, stopped>>
  <1>1. ASSUME NEW t \in Threads, CloseStep(t) PROVE Registry!Next \/ UNCHANGED <<phaseOf, onOf, stopped>>
    <2>1. CASE markClosed(t)
      <3>1. job[t].sess \in Conns
        BY <2>1 DEF IInv, JobInv, ThreadInv, markClosed, Built
      <3> QED BY <2>1, <3>1, MarkMaps DEF Registry!Next
    <2>2. CASE closeOnly(t)
      BY <2>2, LeaveMaps DEF Registry!Next
    <2>3. CASE removeInstanceAndMaybeClose(t)
      BY <2>3, EndMaps DEF Registry!Next
    <2>4. CASE snapshot(t) \/ UnregisterBuddyList(t) \/ RemoveSession(t) \/ closeReturns(t)
      BY <2>4, Invisible
         DEF snapshot, UnregisterBuddyList, RemoveSession, closeReturns, signonVars, closeVars
    <2> QED BY <1>1, <2>1, <2>2, <2>3, <2>4 DEF CloseStep
  <1>2. ASSUME NEW c \in Conns, AddSession(c) PROVE Registry!Next \/ UNCHANGED <<phaseOf, onOf, stopped>>
    <2>1. CASE AddInstance(c)
      BY <2>1, JoinMaps DEF Registry!Next
    <2>2. CASE newSession(c)
      BY <2>2, BeginMaps DEF Registry!Next
    <2>3. CASE lockUser(c) \/ findRec(c) \/ checkClosed(c) \/ evicted(c) \/ checkCount(c)
               \/ waitRemoved(c) \/ waitTimeout(c)
      BY <2>3, Invisible DEF lockUser, findRec, checkClosed, evicted, checkCount, waitRemoved,
         waitTimeout, signonVars, closeVars
    <2> QED BY <1>2, <2>1, <2>2, <2>3 DEF AddSession
  <1>3. ASSUME NEW c \in Conns, RegisterBOSSession(c) \/ Connection(c)
        PROVE  UNCHANGED <<phaseOf, onOf, stopped>>
    BY <1>3, Invisible DEF RegisterBOSSession, Connection, registerReturns, RunOnce, runOnceEnter,
       RegisterBuddyList, initFinish, initFailed, ClientOnline, EvaluateRateLimit, disconnect,
       CloseInstance, signonVars, closeVars
  <1>4. ASSUME NEW k \in Closers, Closer(k) PROVE UNCHANGED <<phaseOf, onOf, stopped>>
    BY <1>4, Invisible DEF Closer, deleteSessionHandler, maybeRelayMessage, signonVars, closeVars
  <1>5. CASE Stopped
    BY <1>5, Invisible DEF Stopped, vars
  <1> QED BY <1>1, <1>2, <1>3, <1>4, <1>5 DEF Next

\* The registry keeps its promise: one open session for an account, at most so many
\* connections inside, nobody let into a session that is being closed, and no new
\* session before the last connection of the old one is closed, however sign-ons,
\* evictions, dropped connections and teardowns interleave (AddSession's comments).
THEOREM RegistryImplemented == Spec => ImplementsRegistry
  <1>1. CountInv /\ UNCHANGED vars => CountInv'
    BY DEF CountInv, vars
  <1>2. IInv /\ CountInv /\ [Next]_vars => CountInv'
    BY <1>1, CountStep
  <1>3. IInv /\ CountInv /\ [Next]_vars => [Registry!Next]_(<<phaseOf, onOf, stopped>>)
    <2>1. UNCHANGED vars => UNCHANGED <<phaseOf, onOf, stopped>>
      BY Invisible DEF vars
    <2> QED BY <2>1, StepMaps
  <1> QED BY InitMaps, InitCount, <1>2, <1>3, Invariance, PTL
          DEF Spec, ImplementsRegistry, Registry!Spec, Registry!abstractVars
=============================================================================
