------------------------- MODULE ChatSessions_proofs -------------------------
(***************************************************************************)
(* Proofs about ChatSessions, for every set of rooms, users, connections    *)
(* and teardowns.                                                          *)
(***************************************************************************)
EXTENDS ChatSessions, SequenceTheorems, TLAPS

(***************************************************************************)
(* The inductive invariant.                                                *)
(***************************************************************************)
Shape ==
    /\ pc \in [Threads -> PCs]
    /\ calls \in [Threads -> Seq(Calls)]
    /\ readers \in [Threads -> Int]
    /\ rooms \in [Rooms -> MaybeConn]
    /\ slot \in [Conns -> [Users -> MaybeConn]]
    /\ ulock \in [Conns -> [Users -> MaybeConn]]
    /\ mgr \in [Conns -> MaybeConn]
    /\ signon \subseteq Conns /\ closed \subseteq Conns

\* A thread that is inside a call has started, it enters a room on its way to the lock, only a closed session is signed out
\* of its room, and a relay is interrupted only if a queue is full.
CallsInv ==
    \A t \in Threads : \A i \in DOMAIN calls[t] :
        /\ pc[t] # "start"
        /\ calls[t][i].kind = "enter" => pc[t] = "lock"
        /\ calls[t][i].kind \in {"left", "remove"} => calls[t][i].who \in closed
        /\ FullQueues = {} /\ i > 1 => calls[t][i].op # "relay"

\* A connection has entered its room's manager before it asks for the user's lock.
entering(q) == Len(q) = 1 /\ q[1].kind = "enter" /\ q[1].op \in {"lock", "write"}

EnterInv ==
    \A c \in Conns :
        /\ pc[c] = "lock" => IF Idle(c) THEN mgr[c] # None ELSE entering(calls[c])
        /\ pc[c] \notin {"start", "lock"} => mgr[c] # None

relaying(t) == ~Idle(t) /\ Top(t).op = "relay"

ReadInv == FullQueues = {} => \A t \in Threads : readers[t] = IF relaying(t) THEN 1 ELSE 0

InSlot == {"cookie", "joined", "roster", "self", "alert", "online", "leave"}

\* From the search to the publication a connection holds the user's lock; it publishes its
\* session in a free slot, and the session stays there until it is closed.
SlotInv ==
    \A c \in Conns :
        /\ pc[c] \in {"find", "wait", "build"} => ulock[mgr[c]][UserOf[c]] = c
        /\ pc[c] = "build" => slot[mgr[c]][UserOf[c]] = None
        /\ pc[c] \in InSlot /\ c \notin closed => slot[mgr[c]][UserOf[c]] = c

IInv == Shape /\ CallsInv /\ EnterInv /\ ReadInv /\ SlotInv

-----------------------------------------------------------------------------
(***************************************************************************)
(* Lemmas about stacks of calls.                                           *)
(***************************************************************************)
LEMMA Stacked ==
  ASSUME NEW new \in Seq(Calls), NEW old \in Seq(Calls), old # <<>>
  PROVE  /\ new \o Tail(old) \in Seq(Calls)
         /\ Len(new \o Tail(old)) = Len(new) + Len(old) - 1
         /\ \A i \in DOMAIN (new \o Tail(old)) :
                \/ i \in DOMAIN new /\ (new \o Tail(old))[i] = new[i]
                \/ i > Len(new) /\ \E j \in DOMAIN old : j > 1 /\ (new \o Tail(old))[i] = old[j]
         /\ new # <<>> => (new \o Tail(old))[1] = new[1]
  <1> DEFINE q == new \o Tail(old)
  <1>1. /\ Tail(old) \in Seq(Calls) /\ Len(Tail(old)) = Len(old) - 1
        /\ \A i \in 1..Len(Tail(old)) : Tail(old)[i] = old[i + 1]
    BY HeadTailProperties
  <1>2. /\ q \in Seq(Calls) /\ Len(q) = Len(new) + Len(Tail(old))
        /\ \A i \in 1..(Len(new) + Len(Tail(old))) :
               q[i] = IF i <= Len(new) THEN new[i] ELSE Tail(old)[i - Len(new)]
    BY <1>1, ConcatProperties
  <1>3. /\ Len(new) \in Nat /\ Len(old) \in Nat /\ Len(q) \in Nat /\ DOMAIN new = 1..Len(new)
        /\ DOMAIN old = 1..Len(old) /\ DOMAIN q = 1..Len(q)
    BY <1>2, LenProperties
  <1>4. new # <<>> => Len(new) > 0
    BY EmptySeq
  <1>5. old # <<>> => Len(old) > 0
    BY EmptySeq
  <1> HIDE DEF q
  <1>6. ASSUME NEW i \in DOMAIN q
        PROVE  \/ (i \in DOMAIN new /\ q[i] = new[i])
               \/ (i > Len(new) /\ \E j \in DOMAIN old : j > 1 /\ q[i] = old[j])
    <2>1. CASE i <= Len(new)
      BY <2>1, <1>2, <1>3
    <2>2. CASE i > Len(new)
      <3>1. i - Len(new) \in 1..Len(Tail(old)) /\ q[i] = Tail(old)[i - Len(new)]
        BY <2>2, <1>1, <1>2, <1>3
      <3>2. q[i] = old[i - Len(new) + 1] /\ i - Len(new) + 1 \in DOMAIN old /\ i - Len(new) + 1 > 1
        BY <3>1, <1>1, <1>3, <2>2
      <3> QED BY <2>2, <3>2
    <2> QED BY <2>1, <2>2, <1>3
  <1>7. new # <<>> => q[1] = new[1]
    BY <1>1, <1>2, <1>3, <1>4, <1>5
  <1>8. Len(q) = Len(new) + Len(old) - 1
    BY <1>1, <1>2
  <1> QED BY <1>2, <1>6, <1>7, <1>8 DEF q

\* What a step of a call puts in its place.
fits(t, new) ==
    \A i \in DOMAIN new :
        /\ new[i].kind = "enter" => pc[t] = "lock"
        /\ new[i].kind \in {"left", "remove"} => new[i].who \in closed'
        /\ FullQueues = {} /\ i > 1 => new[i].op # "relay"

restacks(t, new) ==
    /\ ~Idle(t) /\ new \in Seq(Calls) /\ fits(t, new)
    /\ calls' = [calls EXCEPT ![t] = new \o Tail(@)]

LEMMA Restacked ==
  ASSUME IInv, NEW t \in Threads, NEW new, restacks(t, new),
         pc' = pc, closed \subseteq closed'
  PROVE  /\ calls' \in [Threads -> Seq(Calls)] /\ CallsInv'
         /\ \A x \in Threads : x # t => calls'[x] = calls[x]
         /\ FullQueues = {} => (relaying(t)' <=> new # <<>> /\ new[1].op = "relay")
         /\ Len(calls[t]) = 1 => Len(calls'[t]) = Len(new) /\ (new # <<>> => calls'[t][1] = new[1])
  <1> DEFINE old == calls[t]
             q == new \o Tail(old)
  <1>1. calls \in [Threads -> Seq(Calls)] /\ old \in Seq(Calls) /\ old # <<>> /\ new \in Seq(Calls)
    BY DEF IInv, Shape, restacks, Idle
  <1>2. /\ q \in Seq(Calls)
        /\ Len(q) = Len(new) + Len(old) - 1
        /\ \A i \in DOMAIN q :
               \/ (i \in DOMAIN new /\ q[i] = new[i])
               \/ (i > Len(new) /\ \E j \in DOMAIN old : j > 1 /\ q[i] = old[j])
        /\ new # <<>> => q[1] = new[1]
    BY <1>1, Stacked
  <1>3. calls'[t] = q /\ \A x \in Threads : x # t => calls'[x] = calls[x]
    BY <1>1 DEF restacks
  <1>4. calls' \in [Threads -> Seq(Calls)]
    BY <1>1, <1>2 DEF restacks
  <1>5. /\ Len(new) \in Nat /\ Len(old) \in Nat /\ Len(q) \in Nat /\ DOMAIN new = 1..Len(new)
        /\ DOMAIN old = 1..Len(old) /\ DOMAIN q = 1..Len(q)
        /\ (new # <<>> <=> Len(new) > 0) /\ (q # <<>> <=> Len(q) > 0) /\ Len(old) > 0
    BY <1>1, <1>2, LenProperties, EmptySeq
  <1> HIDE DEF q, old
  <1>6. CallsInv'
    <2> SUFFICES ASSUME NEW x \in Threads, NEW i \in DOMAIN calls'[x]
                 PROVE  /\ pc[x] # "start"
                        /\ calls'[x][i].kind = "enter" => pc[x] = "lock"
                        /\ calls'[x][i].kind \in {"left", "remove"} => calls'[x][i].who \in closed'
                        /\ FullQueues = {} /\ i > 1 => calls'[x][i].op # "relay"
      BY DEF CallsInv
    <2>1. CASE x # t
      BY <2>1, <1>3 DEF IInv, CallsInv
    <2>2. CASE x = t
      <3>0. pc[t] # "start"
        <4>1. 1 \in DOMAIN old
          BY <1>5
        <4> QED BY <4>1 DEF IInv, CallsInv, old
      <3>1. CASE i \in DOMAIN new /\ q[i] = new[i]
        BY <2>2, <3>0, <3>1, <1>3 DEF restacks, fits
      <3>2. CASE \E j \in DOMAIN old : j > 1 /\ q[i] = old[j]
        BY <2>2, <3>0, <3>2, <1>3 DEF IInv, CallsInv, old
      <3> QED BY <2>2, <3>1, <3>2, <1>2, <1>3
    <2> QED BY <2>1, <2>2
  <1>7. FullQueues = {} => (relaying(t)' <=> new # <<>> /\ new[1].op = "relay")
    <2> SUFFICES ASSUME FullQueues = {} PROVE relaying(t)' <=> new # <<>> /\ new[1].op = "relay"
      OBVIOUS
    <2>1. relaying(t)' <=> q # <<>> /\ q[1].op = "relay"
      BY <1>3 DEF relaying, Idle, Top
    <2>2. CASE new # <<>>
      <3>1. q # <<>>
        BY <2>2, <1>2, <1>5
      <3> QED BY <2>1, <2>2, <3>1, <1>2
    <2>3. CASE new = <<>>
      <3>1. ASSUME q # <<>> PROVE q[1].op # "relay"
        <4>1. 1 \in DOMAIN q /\ Len(new) = 0
          BY <2>3, <3>1, <1>5
        <4>2. PICK j \in DOMAIN old : j > 1 /\ q[1] = old[j]
          BY <4>1, <1>2, <1>5
        <4> QED BY <4>2 DEF IInv, CallsInv, old
      <3> QED BY <2>1, <2>3, <3>1
    <2> QED BY <2>2, <2>3
  <1>8. Len(old) = 1 => Len(q) = Len(new)
    BY <1>2, <1>5
  <1> QED BY <1>2, <1>3, <1>4, <1>6, <1>7, <1>8 DEF old

\* A call has the parts of a call.
LEMMA TopIsCall ==
  ASSUME IInv, NEW t \in Threads, ~Idle(t)
  PROVE  /\ Top(t) \in Calls /\ 1 \in DOMAIN calls[t]
         /\ Top(t).kind = "enter" => pc[t] = "lock"
         /\ Top(t).kind \in {"left", "remove"} => Top(t).who \in closed
  <1>1. calls[t] \in Seq(Calls) /\ calls[t] # <<>>
    BY DEF IInv, Shape, Idle
  <1>2. 1 \in 1..Len(calls[t]) /\ DOMAIN calls[t] = 1..Len(calls[t])
    BY <1>1, EmptySeq, LenProperties
  <1> QED BY <1>1, <1>2, ElementOfSeq DEF Top, IInv, CallsInv

LEMMA OneCall ==
  ASSUME NEW x \in Calls
  PROVE  <<x>> \in Seq(Calls) /\ Len(<<x>>) = 1 /\ <<x>> # <<>> /\ <<x>>[1] = x /\ DOMAIN <<x>> = {1}
  OBVIOUS

LEMMA SignoutCalls ==
  ASSUME NEW s \in Conns
  PROVE  /\ SignoutChat(s) \in Seq(Calls)
         /\ DOMAIN SignoutChat(s) = {1, 2}
         /\ SignoutChat(s)[1] = Call("rlock", s, "left", {})
         /\ SignoutChat(s)[2] = Call("lock", s, "remove", {})
         /\ Call("rlock", s, "left", {}) \in Calls /\ Call("lock", s, "remove", {}) \in Calls
  <1>1. Call("rlock", s, "left", {}) \in Calls /\ Call("lock", s, "remove", {}) \in Calls
    BY DEF Call, Calls
  <1> QED BY <1>1 DEF SignoutChat

LEMMA OneMore ==
  ASSUME NEW q \in Seq(Calls), NEW x \in Calls
  PROVE  /\ Append(q, x) \in Seq(Calls) /\ Len(Append(q, x)) = Len(q) + 1
         /\ \A i \in 1..Len(q) : Append(q, x)[i] = q[i]
         /\ Append(q, x)[Len(q) + 1] = x
  BY AppendProperties, LenProperties

LEMMA SignoutThen ==
  ASSUME NEW s \in Conns, NEW x \in Calls
  PROVE  LET q == Append(SignoutChat(s), x)
         IN  /\ q \in Seq(Calls) /\ DOMAIN q = {1, 2, 3} /\ q # <<>>
             /\ q[1] = Call("rlock", s, "left", {}) /\ q[2] = Call("lock", s, "remove", {}) /\ q[3] = x
  <1>1. SignoutChat(s) \in Seq(Calls) /\ Len(SignoutChat(s)) = 2
    BY SignoutCalls DEF SignoutChat
  <1>2. /\ Append(SignoutChat(s), x) \in Seq(Calls) /\ Len(Append(SignoutChat(s), x)) = 3
        /\ \A i \in 1..2 : Append(SignoutChat(s), x)[i] = SignoutChat(s)[i]
        /\ Append(SignoutChat(s), x)[3] = x
    <2> DEFINE q == SignoutChat(s)
    <2>1. q \in Seq(Calls) /\ Len(q) = 2 /\ Len(q) + 1 = 3
      BY <1>1
    <2> HIDE DEF q
    <2>2. /\ Append(q, x) \in Seq(Calls) /\ Len(Append(q, x)) = Len(q) + 1
          /\ \A i \in 1..Len(q) : Append(q, x)[i] = q[i]
          /\ Append(q, x)[Len(q) + 1] = x
      BY <2>1, OneMore
    <2>3. Append(q, x)[3] = x /\ Len(Append(q, x)) = 3 /\ \A i \in 1..2 : Append(q, x)[i] = q[i]
      BY <2>1, <2>2
    <2> QED BY <2>2, <2>3 DEF q
  <1>3. DOMAIN Append(SignoutChat(s), x) = 1..3 /\ Append(SignoutChat(s), x) # <<>>
    BY <1>2, LenProperties, EmptySeq
  <1>4. 1..3 = {1, 2, 3} /\ 1 \in 1..2 /\ 2 \in 1..2
    OBVIOUS
  <1> QED BY <1>2, <1>3, <1>4, SignoutCalls

-----------------------------------------------------------------------------
(***************************************************************************)
(* The steps.                                                              *)
(***************************************************************************)
LEMMA InitHolds == Init => IInv
  <1> SUFFICES ASSUME Init PROVE IInv
    OBVIOUS
  <1>1. Shape
    BY EmptySeq DEF Init, Shape, PCs, MaybeConn
  <1>2. \A t \in Threads : DOMAIN calls[t] = {} /\ Idle(t)
    BY EmptySeq DEF Init, Idle
  <1>3. CallsInv
    BY <1>2 DEF CallsInv
  <1>4. EnterInv /\ ReadInv /\ SlotInv
    BY <1>2 DEF Init, EnterInv, ReadInv, SlotInv, InSlot, relaying, Threads
  <1> QED BY <1>1, <1>3, <1>4 DEF IInv

\* Nobody's lock or slot is touched, and no session is opened.
LEMMA SlotsKept ==
  ASSUME IInv, UNCHANGED <<pc, slot, ulock, mgr>>, closed \subseteq closed'
  PROVE  SlotInv'
  BY DEF IInv, SlotInv

\* A step of a call other than enterRoom.
LEMMA CallKept ==
  ASSUME IInv, NEW t \in Threads, NEW new, restacks(t, new),
         UNCHANGED <<pc, ulock, mgr, signon>>, SlotInv',
         rooms' \in [Rooms -> MaybeConn], slot' \in [Conns -> [Users -> MaybeConn]],
         closed \subseteq closed', closed' \subseteq Conns,
         readers' \in [Threads -> Int], \A x \in Threads : x # t => readers'[x] = readers[x],
         FullQueues = {} => readers'[t] = IF new # <<>> /\ new[1].op = "relay" THEN 1 ELSE 0,
         t \in Conns /\ pc[t] = "lock" => entering(new)
  PROVE  IInv'
  <1>1. /\ calls' \in [Threads -> Seq(Calls)] /\ CallsInv'
        /\ \A x \in Threads : x # t => calls'[x] = calls[x]
        /\ FullQueues = {} => (relaying(t)' <=> new # <<>> /\ new[1].op = "relay")
        /\ Len(calls[t]) = 1 => Len(calls'[t]) = Len(new) /\ (new # <<>> => calls'[t][1] = new[1])
    BY Restacked
  <1>2. Shape'
    BY <1>1 DEF IInv, Shape
  <1>4. ReadInv'
    BY <1>1 DEF IInv, ReadInv, relaying, Idle, Top
  <1>5. EnterInv'
    <2> SUFFICES ASSUME NEW c \in Conns
                 PROVE  /\ pc[c] = "lock" => IF Idle(c)' THEN mgr[c] # None ELSE entering(calls'[c])
                        /\ pc[c] \notin {"start", "lock"} => mgr[c] # None
      BY DEF EnterInv
    <2>1. c \in Threads
      BY DEF Threads
    <2>2. CASE c # t \/ pc[c] # "lock"
      BY <1>1, <2>1, <2>2 DEF IInv, EnterInv, Idle
    <2>3. CASE c = t /\ pc[c] = "lock"
      <3>1. entering(calls[t]) /\ entering(new)
        BY <2>3 DEF IInv, EnterInv, restacks
      <3>2. new # <<>> /\ new \in Seq(Calls)
        BY <3>1, EmptySeq DEF entering, restacks
      <3>3. entering(calls'[t])
        BY <3>1, <3>2, <1>1 DEF entering
      <3>4. ~Idle(t)'
        BY <3>3, EmptySeq DEF entering, Idle
      <3> QED BY <2>3, <3>3, <3>4
    <2> QED BY <2>2, <2>3
  <1> QED BY <1>1, <1>2, <1>4, <1>5 DEF IInv

\* At the lock a connection is entering, and does nothing else.
LEMMA AtLock ==
  ASSUME IInv, NEW t \in Threads, ~Idle(t), pc[t] = "lock", t \in Conns
  PROVE  Top(t).kind = "enter" /\ Top(t).op \in {"lock", "write"} /\ Len(calls[t]) = 1
  BY DEF IInv, EnterInv, entering, Top

LEMMA Returns ==
  ASSUME IInv, NEW t \in Threads, ~Idle(t), Return(t)
  PROVE  restacks(t, <<>>)
  <1>1. calls[t] \in Seq(Calls) /\ calls[t] # <<>> /\ calls \in [Threads -> Seq(Calls)]
    BY DEF IInv, Shape, Idle
  <1>2. Tail(calls[t]) \in Seq(Calls)
    BY <1>1, HeadTailProperties
  <1>3. <<>> \o Tail(calls[t]) = Tail(calls[t])
    BY <1>2, ConcatEmptySeq
  <1>4. <<>> \in Seq(Calls) /\ DOMAIN <<>> = {}
    BY EmptySeq
  <1> QED BY <1>1, <1>3, <1>4 DEF Return, restacks, fits

\* What most call steps leave as it is.
LEMMA Typed ==
  ASSUME IInv
  PROVE  /\ rooms \in [Rooms -> MaybeConn] /\ slot \in [Conns -> [Users -> MaybeConn]]
         /\ readers \in [Threads -> Int] /\ closed \subseteq Conns /\ signon \subseteq Conns
  BY DEF IInv, Shape

LEMMA RLockStep ==
  ASSUME IInv, NEW t \in Threads, RLock(t)
  PROVE  IInv'
  <1> DEFINE x == Call("relay", Top(t).who, Top(t).kind, Recipients(Top(t).who, Top(t).kind))
  <1>1. /\ ~Idle(t) /\ Top(t).op = "rlock" /\ readers' = [readers EXCEPT ![t] = @ + 1]
        /\ UNCHANGED <<pc, rooms, slot, ulock, mgr, signon, closed>>
        /\ calls' = [calls EXCEPT ![t] = <<x>> \o Tail(@)]
    BY DEF RLock, Become, roomVars, joinVars
  <1>2. /\ Top(t) \in Calls /\ (Top(t).kind = "enter" => pc[t] = "lock")
        /\ (Top(t).kind \in {"left", "remove"} => Top(t).who \in closed)
    BY <1>1, TopIsCall
  <1>3. Recipients(Top(t).who, Top(t).kind) \subseteq Conns
    BY DEF Recipients, AllSessions
  <1>4. x \in Calls /\ x.op = "relay" /\ x.kind = Top(t).kind /\ x.who = Top(t).who
    BY <1>2, <1>3 DEF Call, Calls
  <1> HIDE DEF x
  <1>5. restacks(t, <<x>>)
    BY <1>1, <1>2, <1>4, OneCall DEF restacks, fits
  <1>6. FullQueues = {} => readers'[t] = 1
    BY <1>1, Typed DEF IInv, ReadInv, relaying
  <1>7. ~(t \in Conns /\ pc[t] = "lock")
    BY <1>1, AtLock
  <1>8. SlotInv'
    BY <1>1, SlotsKept
  <1>9. readers' \in [Threads -> Int] /\ \A y \in Threads : y # t => readers'[y] = readers[y]
    BY <1>1, Typed
  <1> QED BY <1>1, <1>4, <1>5, <1>6, <1>7, <1>8, <1>9, Typed, OneCall, CallKept

LEMMA RelayStep ==
  ASSUME IInv, NEW t \in Threads, maybeRelayMessage(t)
  PROVE  IInv'
  <1>1. /\ ~Idle(t) /\ Top(t).op = "relay"
        /\ UNCHANGED <<pc, readers, rooms, slot, ulock, mgr, signon>>
    BY DEF maybeRelayMessage, mutexVars, roomVars, joinVars
  <1>2. /\ Top(t) \in Calls /\ (Top(t).kind = "enter" => pc[t] = "lock")
        /\ (Top(t).kind \in {"left", "remove"} => Top(t).who \in closed)
    BY <1>1, TopIsCall
  <1>3. PICK d \in Top(t).to :
          LET x == Call("relay", Top(t).who, Top(t).kind, Top(t).to \ {d})
          IN  \/ calls' = [calls EXCEPT ![t] = <<x>> \o Tail(@)] /\ closed' = closed
              \/ /\ d \in FullQueues /\ closed' = closed \cup {d}
                 /\ calls' = [calls EXCEPT ![t] = Append(SignoutChat(d), x) \o Tail(@)]
    BY DEF maybeRelayMessage, Become
  <1> DEFINE x == Call("relay", Top(t).who, Top(t).kind, Top(t).to \ {d})
  <1>4. d \in Conns /\ x \in Calls /\ x.op = "relay" /\ x.kind = Top(t).kind /\ x.who = Top(t).who
    BY <1>2 DEF Call, Calls
  <1>5. ~(t \in Conns /\ pc[t] = "lock")
    BY <1>1, AtLock
  <1>6. closed \subseteq closed' /\ closed' \subseteq Conns
    BY <1>3, <1>4, Typed
  <1>7. SlotInv'
    BY <1>1, <1>6, SlotsKept
  <1>8. FullQueues = {} => readers'[t] = 1
    BY <1>1 DEF IInv, ReadInv, relaying
  <1>9. CASE calls' = [calls EXCEPT ![t] = <<x>> \o Tail(@)]
    <2> HIDE DEF x
    <2>1. restacks(t, <<x>>)
      BY <1>1, <1>2, <1>4, <1>6, <1>9, OneCall DEF restacks, fits
    <2> QED BY <1>1, <1>4, <1>5, <1>6, <1>7, <1>8, <2>1, Typed, OneCall, CallKept
  <1>10. CASE d \in FullQueues /\ closed' = closed \cup {d}
              /\ calls' = [calls EXCEPT ![t] = Append(SignoutChat(d), x) \o Tail(@)]
    <2> DEFINE q == Append(SignoutChat(d), x)
    <2> HIDE DEF x
    <2>1. /\ q \in Seq(Calls) /\ DOMAIN q = {1, 2, 3} /\ q # <<>>
          /\ q[1] = Call("rlock", d, "left", {}) /\ q[2] = Call("lock", d, "remove", {}) /\ q[3] = x
      BY <1>4, SignoutThen
    <2> HIDE DEF q
    <2>2. fits(t, q)
      <3>1. FullQueues # {} /\ d \in closed'
        BY <1>10
      <3>2. /\ q[1].kind = "left" /\ q[1].who = d /\ q[2].kind = "remove" /\ q[2].who = d
            /\ q[3].kind = Top(t).kind /\ q[3].who = Top(t).who
        BY <2>1, <1>4 DEF Call
      <3> QED BY <2>1, <3>1, <3>2, <1>2, <1>6 DEF fits
    <2>3. restacks(t, q)
      BY <1>1, <1>10, <2>1, <2>2 DEF restacks, q
    <2> QED BY <1>1, <1>5, <1>6, <1>7, <1>10, <2>3, Typed, CallKept
  <1> QED BY <1>3, <1>9, <1>10

LEMMA RUnlockStep ==
  ASSUME IInv, NEW t \in Threads, RUnlock(t)
  PROVE  IInv'
  <1>1. /\ ~Idle(t) /\ Top(t).op = "relay" /\ readers' = [readers EXCEPT ![t] = @ - 1] /\ Return(t)
        /\ UNCHANGED <<pc, rooms, slot, ulock, mgr, signon, closed>>
    BY DEF RUnlock, roomVars, joinVars
  <1>2. restacks(t, <<>>)
    BY <1>1, Returns
  <1>3. FullQueues = {} => readers'[t] = 0
    BY <1>1, Typed DEF IInv, ReadInv, relaying
  <1>4. ~(t \in Conns /\ pc[t] = "lock")
    BY <1>1, AtLock
  <1>5. SlotInv'
    BY <1>1, SlotsKept
  <1>6. readers' \in [Threads -> Int] /\ \A y \in Threads : y # t => readers'[y] = readers[y]
    BY <1>1, Typed
  <1> QED BY <1>1, <1>2, <1>3, <1>4, <1>5, <1>6, Typed, CallKept

LEMMA LockStep ==
  ASSUME IInv, NEW t \in Threads, Lock(t)
  PROVE  IInv'
  <1> DEFINE x == Call("write", Top(t).who, Top(t).kind, {})
  <1>1. /\ ~Idle(t) /\ Top(t).op = "lock"
        /\ UNCHANGED <<pc, readers, rooms, slot, ulock, mgr, signon, closed>>
        /\ calls' = [calls EXCEPT ![t] = <<x>> \o Tail(@)]
    BY DEF Lock, Become, roomVars, joinVars
  <1>2. /\ Top(t) \in Calls /\ (Top(t).kind = "enter" => pc[t] = "lock")
        /\ (Top(t).kind \in {"left", "remove"} => Top(t).who \in closed)
    BY <1>1, TopIsCall
  <1>3. x \in Calls /\ x.op = "write" /\ x.kind = Top(t).kind /\ x.who = Top(t).who
    BY <1>2 DEF Call, Calls
  <1> HIDE DEF x
  <1>4. restacks(t, <<x>>)
    BY <1>1, <1>2, <1>3, OneCall DEF restacks, fits
  <1>5. FullQueues = {} => readers'[t] = 0
    BY <1>1 DEF IInv, ReadInv, relaying
  <1>6. t \in Conns /\ pc[t] = "lock" => entering(<<x>>)
    BY <1>1, <1>3, AtLock, OneCall DEF entering
  <1>7. SlotInv'
    BY <1>1, SlotsKept
  <1> QED BY <1>1, <1>3, <1>4, <1>5, <1>6, <1>7, Typed, OneCall, CallKept

\* A critical section under the write lock: it returns, and holds no read lock.
LEMMA WriteReturns ==
  ASSUME IInv, NEW t \in Threads, NEW kind, Writes(t, kind)
  PROVE  /\ ~Idle(t) /\ Top(t).op = "write" /\ Top(t).kind = kind /\ restacks(t, <<>>)
         /\ UNCHANGED <<pc, readers, closed>> /\ readers[t] = 0
         /\ t \in Conns /\ pc[t] = "lock" => kind = "enter"
  <1>1. ~Idle(t) /\ Top(t).op = "write" /\ Top(t).kind = kind /\ Return(t)
        /\ UNCHANGED <<pc, readers, closed>> /\ readers[t] = 0
    BY DEF Writes
  <1> QED BY <1>1, Returns, AtLock

LEMMA RestoreRoomStep ==
  ASSUME IInv, NEW c \in Conns, restoreRoom(c)
  PROVE  IInv'
  <1>1. c \in Threads
    BY DEF Threads
  <1>2. /\ Writes(c, "restore") /\ UNCHANGED <<slot, ulock, mgr, signon>>
        /\ rooms' = rooms \/ rooms' = [rooms EXCEPT ![RoomOf[c]] = mgr[c]]
    BY DEF restoreRoom, joinVars
  <1>3. /\ restacks(c, <<>>) /\ UNCHANGED <<pc, readers, closed>> /\ readers[c] = 0
        /\ pc[c] # "lock"
    BY <1>1, <1>2, WriteReturns
  <1>4. rooms' \in [Rooms -> MaybeConn]
    <2>1. mgr[c] \in MaybeConn
      BY DEF IInv, Shape
    <2> QED BY <1>2, <2>1, Typed
  <1>5. SlotInv'
    BY <1>2, <1>3, SlotsKept
  <1> QED BY <1>1, <1>2, <1>3, <1>4, <1>5, Typed, CallKept

LEMMA RemoveStep ==
  ASSUME IInv, NEW t \in Threads, RemoveSession(t)
  PROVE  IInv'
  <1> DEFINE s == Top(t).who
             u == UserOf[s]
             m == rooms[RoomOf[s]]
  <1>1. /\ Writes(t, "remove") /\ UNCHANGED <<ulock, mgr, signon>>
        /\ \/ UNCHANGED <<rooms, slot>>
           \/ /\ m # None
              /\ slot' = IF slot[m][u] = s THEN [slot EXCEPT ![m][u] = None] ELSE slot
              /\ rooms' = rooms \/ rooms' = [rooms EXCEPT ![RoomOf[s]] = None]
    BY DEF RemoveSession, joinVars
  <1>2. /\ restacks(t, <<>>) /\ UNCHANGED <<pc, readers, closed>> /\ readers[t] = 0
        /\ ~(t \in Conns /\ pc[t] = "lock") /\ ~Idle(t) /\ Top(t).kind = "remove"
    BY <1>1, WriteReturns
  <1>3. s \in closed /\ s \in Conns
    BY <1>2, TopIsCall, Typed
  <1>4. u \in Users /\ RoomOf[s] \in Rooms
    BY <1>3, ConstantsAssumption
  <1> HIDE DEF s, u
  <1>5. rooms' \in [Rooms -> MaybeConn]
    BY <1>1, <1>4, Typed DEF MaybeConn
  <1>6. slot' = slot \/ (m \in Conns /\ slot[m][u] = s /\ slot' = [slot EXCEPT ![m][u] = None])
    BY <1>1, <1>4, Typed DEF MaybeConn
  <1> HIDE DEF m
  <1>7. slot' \in [Conns -> [Users -> MaybeConn]]
    BY <1>4, <1>6, Typed DEF MaybeConn
  <1>8. \A n \in Conns : \A v \in Users :
            slot'[n][v] = slot[n][v] \/ (slot[n][v] = s /\ slot'[n][v] = None)
    BY <1>4, <1>6, Typed
  <1>9. SlotInv'
    <2> SUFFICES ASSUME NEW c \in Conns
                 PROVE  /\ pc[c] \in {"find", "wait", "build"} => ulock[mgr[c]][UserOf[c]] = c
                        /\ pc[c] = "build" => slot'[mgr[c]][UserOf[c]] = None
                        /\ pc[c] \in InSlot /\ c \notin closed => slot'[mgr[c]][UserOf[c]] = c
      BY <1>1, <1>2 DEF SlotInv
    <2>1. UserOf[c] \in Users
      BY ConstantsAssumption
    <2>2. pc[c] \notin {"start", "lock"} => mgr[c] \in Conns
      BY DEF IInv, EnterInv, Shape, MaybeConn
    <2>3. pc[c] = "build" => slot'[mgr[c]][UserOf[c]] = None
      BY <1>8, <2>1, <2>2 DEF IInv, SlotInv
    <2>4. pc[c] \in InSlot /\ c \notin closed => slot'[mgr[c]][UserOf[c]] = c
      BY <1>3, <1>8, <2>1, <2>2 DEF IInv, SlotInv, InSlot
    <2> QED BY <2>3, <2>4 DEF IInv, SlotInv
  <1> QED BY <1>1, <1>2, <1>5, <1>7, <1>9, Typed, CallKept

LEMMA EnterRoomStep ==
  ASSUME IInv, NEW c \in Conns, enterRoom(c)
  PROVE  IInv'
  <1>1. c \in Threads
    BY DEF Threads
  <1>2. PICK m : /\ m = (IF rooms[RoomOf[c]] = None THEN c ELSE rooms[RoomOf[c]])
                 /\ rooms' = [rooms EXCEPT ![RoomOf[c]] = m] /\ mgr' = [mgr EXCEPT ![c] = m]
    BY DEF enterRoom
  <1>3. Writes(c, "enter") /\ UNCHANGED <<slot, ulock, signon>>
    BY DEF enterRoom
  <1>4. /\ restacks(c, <<>>) /\ UNCHANGED <<pc, readers, closed>> /\ readers[c] = 0
        /\ ~Idle(c) /\ Top(c).kind = "enter"
    BY <1>1, <1>3, WriteReturns
  <1>5. pc[c] = "lock" /\ Len(calls[c]) = 1
    BY <1>1, <1>4, TopIsCall, AtLock
  <1>6. m \in Conns /\ m # None
    BY <1>2, ConstantsAssumption DEF IInv, Shape, MaybeConn
  <1>7. /\ mgr' \in [Conns -> MaybeConn] /\ mgr'[c] = m /\ \A d \in Conns : d # c => mgr'[d] = mgr[d]
        /\ rooms' \in [Rooms -> MaybeConn]
    BY <1>2, <1>6 DEF IInv, Shape, MaybeConn
  <1>8. /\ calls' \in [Threads -> Seq(Calls)] /\ CallsInv'
        /\ \A x \in Threads : x # c => calls'[x] = calls[x]
        /\ FullQueues = {} => ~relaying(c)'
        /\ Len(calls'[c]) = 0
    BY <1>1, <1>4, <1>5, Restacked, EmptySeq
  <1>9. Idle(c)'
    BY <1>1, <1>8, EmptySeq DEF Idle
  <1>10. Shape'
    BY <1>3, <1>4, <1>7, <1>8 DEF IInv, Shape
  <1>11. EnterInv'
    <2> SUFFICES ASSUME NEW d \in Conns
                 PROVE  /\ pc[d] = "lock" => IF Idle(d)' THEN mgr'[d] # None ELSE entering(calls'[d])
                        /\ pc[d] \notin {"start", "lock"} => mgr'[d] # None
      BY <1>4 DEF EnterInv
    <2>1. CASE d = c
      BY <2>1, <1>6, <1>7, <1>9
    <2>2. CASE d # c
      <3>1. d \in Threads
        BY DEF Threads
      <3> QED BY <2>2, <3>1, <1>7, <1>8 DEF IInv, EnterInv, Idle
    <2> QED BY <2>1, <2>2
  <1>12. ReadInv'
    BY <1>4, <1>8 DEF IInv, ReadInv, relaying, Idle, Top
  <1>13. SlotInv'
    BY <1>3, <1>4, <1>5, <1>7 DEF IInv, SlotInv, InSlot
  <1> QED BY <1>8, <1>10, <1>11, <1>12, <1>13 DEF IInv

LEMMA CopyStep ==
  ASSUME IInv, NEW t \in Threads, copyManagers(t)
  PROVE  IInv'
  <1> DEFINE x == Call("each", Top(t).who, "chats", {rooms[r] : r \in Rooms} \ {None})
  <1>1. /\ ~Idle(t) /\ Top(t).op = "copy"
        /\ UNCHANGED <<pc, readers, rooms, slot, ulock, mgr, signon, closed>>
        /\ calls' = [calls EXCEPT ![t] = <<x>> \o Tail(@)]
    BY DEF copyManagers, Become, mutexVars, roomVars, joinVars
  <1>2. Top(t) \in Calls
    BY <1>1, TopIsCall
  <1>3. {rooms[r] : r \in Rooms} \ {None} \subseteq Conns
    BY Typed DEF MaybeConn
  <1>4. x \in Calls /\ x.op = "each" /\ x.kind = "chats"
    BY <1>2, <1>3 DEF Call, Calls
  <1> HIDE DEF x
  <1>5. restacks(t, <<x>>)
    BY <1>1, <1>4, OneCall DEF restacks, fits
  <1>6. FullQueues = {} => readers'[t] = 0
    BY <1>1 DEF IInv, ReadInv, relaying
  <1>7. ~(t \in Conns /\ pc[t] = "lock")
    BY <1>1, AtLock
  <1>8. SlotInv'
    BY <1>1, SlotsKept
  <1> QED BY <1>1, <1>4, <1>5, <1>6, <1>7, <1>8, Typed, OneCall, CallKept

LEMMA CloseUserStep ==
  ASSUME IInv, NEW t \in Threads, closeUserSession(t)
  PROVE  IInv'
  <1>1. ~Idle(t) /\ Top(t).op = "each" /\ UNCHANGED <<pc, readers, rooms, slot, ulock, mgr, signon>>
    BY DEF closeUserSession, mutexVars, roomVars, joinVars
  <1>2. PICK m \in Top(t).to :
          LET s == slot[m][Top(t).who]
              x == Call("each", Top(t).who, "chats", Top(t).to \ {m})
          IN  \/ /\ live(s) /\ closed' = closed \cup {s}
                 /\ calls' = [calls EXCEPT ![t] = Append(SignoutChat(s), x) \o Tail(@)]
              \/ calls' = [calls EXCEPT ![t] = <<x>> \o Tail(@)] /\ closed' = closed
    BY DEF closeUserSession, Become
  <1> DEFINE s == slot[m][Top(t).who]
             x == Call("each", Top(t).who, "chats", Top(t).to \ {m})
  <1>3. x \in Calls /\ x.op = "each" /\ x.kind = "chats"
    BY <1>1, TopIsCall DEF Call, Calls
  <1>4. live(s) => s \in Conns
    BY Typed DEF live
  <1>5. closed \subseteq closed' /\ closed' \subseteq Conns
    BY <1>2, <1>4, Typed
  <1>6. SlotInv'
    BY <1>1, <1>5, SlotsKept
  <1>7. FullQueues = {} => readers'[t] = 0
    BY <1>1 DEF IInv, ReadInv, relaying
  <1>8. ~(t \in Conns /\ pc[t] = "lock")
    BY <1>1, AtLock
  <1>9. CASE calls' = [calls EXCEPT ![t] = <<x>> \o Tail(@)]
    <2> HIDE DEF x
    <2>1. restacks(t, <<x>>)
      BY <1>1, <1>3, <1>9, OneCall DEF restacks, fits
    <2> QED BY <1>1, <1>3, <1>5, <1>6, <1>7, <1>8, <2>1, Typed, OneCall, CallKept
  <1>10. CASE /\ live(s) /\ closed' = closed \cup {s}
              /\ calls' = [calls EXCEPT ![t] = Append(SignoutChat(s), x) \o Tail(@)]
    <2> DEFINE q == Append(SignoutChat(s), x)
    <2> HIDE DEF x, s
    <2>1. /\ q \in Seq(Calls) /\ DOMAIN q = {1, 2, 3} /\ q # <<>>
          /\ q[1] = Call("rlock", s, "left", {}) /\ q[2] = Call("lock", s, "remove", {}) /\ q[3] = x
      BY <1>3, <1>4, <1>10, SignoutThen
    <2> HIDE DEF q
    <2>2. /\ q[1].kind = "left" /\ q[1].who = s /\ q[2].kind = "remove" /\ q[2].who = s
          /\ q[3].kind = "chats" /\ q[1].op = "rlock" /\ q[2].op = "lock" /\ q[3].op = "each"
      BY <2>1, <1>3 DEF Call
    <2>3. restacks(t, q)
      BY <1>1, <1>10, <2>1, <2>2 DEF restacks, fits, q
    <2> QED BY <1>1, <1>5, <1>6, <1>7, <1>8, <2>2, <2>3, Typed, CallKept
  <1> QED BY <1>2, <1>9, <1>10

LEMMA AllClosedStep ==
  ASSUME IInv, NEW t \in Threads, allClosed(t)
  PROVE  IInv'
  <1>1. /\ ~Idle(t) /\ Top(t).op = "each" /\ Return(t)
        /\ UNCHANGED <<pc, readers, rooms, slot, ulock, mgr, signon, closed>>
    BY DEF allClosed, mutexVars, roomVars, joinVars
  <1>2. restacks(t, <<>>)
    BY <1>1, Returns
  <1>3. FullQueues = {} => readers'[t] = 0
    BY <1>1 DEF IInv, ReadInv, relaying
  <1>4. ~(t \in Conns /\ pc[t] = "lock")
    BY <1>1, AtLock
  <1>5. SlotInv'
    BY <1>1, SlotsKept
  <1> QED BY <1>1, <1>2, <1>3, <1>4, <1>5, Typed, CallKept

-----------------------------------------------------------------------------
\* A thread that is inside no call moves on, and may make calls.
mayCall(cs) ==
    /\ cs \in Seq(Calls)
    /\ \A i \in DOMAIN cs :
           /\ cs[i].kind # "enter" /\ cs[i].op # "relay"
           /\ cs[i].kind \in {"left", "remove"} => cs[i].who \in closed'

LEMMA Moves ==
  ASSUME IInv, NEW t \in Threads, NEW from, NEW to \in PCs \ {"start", "lock"}, Goto(t, from, to),
         t \in Conns => from # "start",
         calls' = calls \/ \E cs : mayCall(cs) /\ calls' = [calls EXCEPT ![t] = cs],
         UNCHANGED <<readers, rooms, mgr>>, SlotInv',
         slot' \in [Conns -> [Users -> MaybeConn]], ulock' \in [Conns -> [Users -> MaybeConn]],
         signon' \subseteq Conns, closed \subseteq closed', closed' \subseteq Conns
  PROVE  IInv'
  <1>1. /\ pc[t] = from /\ Idle(t) /\ pc' \in [Threads -> PCs] /\ pc'[t] = to
        /\ \A x \in Threads : x # t => pc'[x] = pc[x]
    BY DEF Goto, IInv, Shape
  <1>2. DOMAIN calls[t] = {}
    BY <1>1, EmptySeq DEF Idle
  <1>3. PICK cs : mayCall(cs) /\ calls' = [calls EXCEPT ![t] = cs]
    <2>1. mayCall(<<>>)
      BY EmptySeq DEF mayCall
    <2>2. calls = [calls EXCEPT ![t] = <<>>]
      BY <1>1 DEF Idle, IInv, Shape
    <2> QED BY <2>1, <2>2
  <1>4. /\ calls' \in [Threads -> Seq(Calls)] /\ calls'[t] = cs
        /\ \A x \in Threads : x # t => calls'[x] = calls[x]
    BY <1>3 DEF IInv, Shape, mayCall
  <1>5. Shape'
    BY <1>1, <1>4 DEF IInv, Shape
  <1>6. CallsInv'
    BY <1>1, <1>3, <1>4 DEF IInv, CallsInv, mayCall
  <1>7. EnterInv'
    BY <1>1, <1>4 DEF IInv, EnterInv, Idle, Threads
  <1>8. ReadInv'
    <2>1. ~relaying(t) /\ ~relaying(t)'
      <3>1. cs # <<>> => 1 \in DOMAIN cs
        BY <1>3, EmptySeq, LenProperties DEF mayCall
      <3> QED BY <1>1, <1>3, <1>4, <3>1 DEF relaying, mayCall, Idle, Top
    <2>2. \A x \in Threads : x # t => (relaying(x)' <=> relaying(x))
      BY <1>4 DEF relaying, Idle, Top
    <2> QED BY <2>1, <2>2 DEF IInv, ReadInv
  <1> QED BY <1>5, <1>6, <1>7, <1>8 DEF IInv

\* A move that takes neither the user's lock nor the slot.
Looking == {"find", "wait", "build"}

LEMMA MovesApart ==
  ASSUME IInv, NEW t \in Threads, NEW from, NEW to, Goto(t, from, to),
         UNCHANGED <<slot, ulock, mgr>>, closed \subseteq closed',
         to \in Looking => from \in Looking, to \in InSlot => from \in InSlot,
         t \in Conns /\ to = "build" => slot[mgr[t]][UserOf[t]] = None
  PROVE  SlotInv'
  <1>1. pc[t] = from /\ pc'[t] = to /\ \A x \in Threads : x # t => pc'[x] = pc[x]
    BY DEF Goto, IInv, Shape
  <1> SUFFICES ASSUME NEW c \in Conns
               PROVE  /\ pc'[c] \in Looking => ulock[mgr[c]][UserOf[c]] = c
                      /\ pc'[c] = "build" => slot[mgr[c]][UserOf[c]] = None
                      /\ pc'[c] \in InSlot /\ c \notin closed' => slot[mgr[c]][UserOf[c]] = c
    BY DEF SlotInv, Looking
  <1>2. c \in Threads
    BY DEF Threads
  <1>3. CASE c # t
    BY <1>1, <1>2, <1>3 DEF IInv, SlotInv, Looking
  <1>4. CASE c = t
    BY <1>1, <1>4 DEF IInv, SlotInv, Looking
  <1> QED BY <1>3, <1>4

LEMMA SignoutMayCall ==
  ASSUME NEW s \in Conns, s \in closed'
  PROVE  mayCall(SignoutChat(s))
  <1> DEFINE q == SignoutChat(s)
  <1>1. /\ q \in Seq(Calls) /\ DOMAIN q = {1, 2}
        /\ q[1] = Call("rlock", s, "left", {}) /\ q[2] = Call("lock", s, "remove", {})
    BY SignoutCalls
  <1> HIDE DEF q
  <1>2. /\ q[1].kind = "left" /\ q[1].op = "rlock" /\ q[1].who = s
        /\ q[2].kind = "remove" /\ q[2].op = "lock" /\ q[2].who = s
    BY <1>1 DEF Call
  <1>3. mayCall(q)
    BY <1>1, <1>2 DEF mayCall
  <1> QED BY <1>3 DEF q

LEMMA OneMayCall ==
  ASSUME NEW who \in Conns \cup Users, NEW op \in {"rlock", "lock", "copy"},
         NEW kind \in {"restore", "users", "joined", "message", "chats"}
  PROVE  mayCall(<<Call(op, who, kind, {})>>)
  <1>1. Call(op, who, kind, {}) \in Calls
    BY DEF Call, Calls
  <1>2. Call(op, who, kind, {}).kind = kind /\ Call(op, who, kind, {}).op = op
    BY DEF Call
  <1> QED BY <1>1, <1>2, OneCall DEF mayCall

\* The lock of a user in the manager a connection has entered.
LEMMA Entered ==
  ASSUME IInv, NEW c \in Conns, Idle(c), pc[c] # "start"
  PROVE  mgr[c] \in Conns /\ UserOf[c] \in Users /\ c \in Threads
  BY ConstantsAssumption DEF IInv, EnterInv, Shape, MaybeConn, Threads

LEMMA LockOf ==
  ASSUME IInv, NEW c \in Conns, Idle(c), pc[c] # "start", NEW h \in MaybeConn, lockOf(c, h)
  PROVE  /\ ulock' \in [Conns -> [Users -> MaybeConn]]
         /\ \A m \in Conns : \A u \in Users :
                ulock'[m][u] = IF m = mgr[c] /\ u = UserOf[c] THEN h ELSE ulock[m][u]
  BY Entered DEF lockOf, IInv, Shape

LEMMA AddSessionStep ==
  ASSUME IInv, NEW c \in Conns, AddSession(c)
  PROVE  IInv'
  <1> DEFINE x == Call("lock", c, "enter", {})
  <1>1. /\ Goto(c, "start", "lock") /\ calls' = [calls EXCEPT ![c] = <<x>>] /\ c \in Threads
        /\ UNCHANGED <<readers, rooms, slot, ulock, mgr, signon, closed>>
    BY DEF AddSession, Invoke, mutexVars, roomVars, joinVars, Threads
  <1>2. x \in Calls /\ x.kind = "enter" /\ x.op = "lock"
    BY DEF Call, Calls
  <1>3. /\ Idle(c) /\ pc' \in [Threads -> PCs] /\ pc'[c] = "lock"
        /\ \A t \in Threads : t # c => pc'[t] = pc[t]
    BY <1>1 DEF Goto, IInv, Shape, PCs
  <1> HIDE DEF x
  <1>4. /\ <<x>> \in Seq(Calls) /\ Len(<<x>>) = 1 /\ <<x>> # <<>> /\ <<x>>[1] = x /\ DOMAIN <<x>> = {1}
    BY <1>2, OneCall
  <1>5. /\ calls' \in [Threads -> Seq(Calls)] /\ calls'[c] = <<x>>
        /\ \A t \in Threads : t # c => calls'[t] = calls[t]
    BY <1>1, <1>4 DEF IInv, Shape
  <1>6. Shape'
    BY <1>1, <1>3, <1>5 DEF IInv, Shape
  <1>7. CallsInv'
    BY <1>1, <1>2, <1>3, <1>4, <1>5 DEF IInv, CallsInv
  <1>8. EnterInv'
    BY <1>1, <1>2, <1>3, <1>4, <1>5 DEF IInv, EnterInv, Idle, entering, Threads
  <1>9. ReadInv'
    BY <1>1, <1>2, <1>3, <1>4, <1>5 DEF IInv, ReadInv, relaying, Idle, Top
  <1>10. SlotInv'
    BY <1>1, MovesApart DEF Looking, InSlot
  <1> QED BY <1>6, <1>7, <1>8, <1>9, <1>10 DEF IInv

LEMMA LockUserStep ==
  ASSUME IInv, NEW c \in Conns, lockUser(c)
  PROVE  IInv'
  <1>1. /\ Goto(c, "lock", "find") /\ pc[c] = "lock" /\ Idle(c) /\ lockOf(c, c)
        /\ ulock[mgr[c]][UserOf[c]] = None
        /\ UNCHANGED <<calls, readers, rooms, slot, mgr, signon, closed>>
    BY DEF lockUser, Goto, mutexVars, roomVars
  <1>2. mgr[c] \in Conns /\ UserOf[c] \in Users /\ c \in Threads
    BY <1>1, Entered
  <1>3. /\ ulock' \in [Conns -> [Users -> MaybeConn]]
        /\ \A m \in Conns : \A u \in Users :
               ulock'[m][u] = IF m = mgr[c] /\ u = UserOf[c] THEN c ELSE ulock[m][u]
    BY <1>1, LockOf DEF MaybeConn
  <1>4. SlotInv'
    <2> SUFFICES ASSUME NEW d \in Conns
                 PROVE  /\ pc'[d] \in Looking => ulock'[mgr[d]][UserOf[d]] = d
                        /\ pc'[d] = "build" => slot[mgr[d]][UserOf[d]] = None
                        /\ pc'[d] \in InSlot /\ d \notin closed => slot[mgr[d]][UserOf[d]] = d
      BY <1>1 DEF SlotInv, Looking
    <2>1. CASE d = c
      BY <1>1, <1>2, <1>3, <2>1 DEF Goto, IInv, Shape, Looking, InSlot
    <2>2. CASE d # c
      <3>1. pc'[d] = pc[d] /\ UserOf[d] \in Users
        BY <1>1, <2>2, ConstantsAssumption DEF Goto, IInv, Shape, Threads
      <3>2. pc[d] \in Looking => mgr[d] \in Conns /\ ulock[mgr[d]][UserOf[d]] = d /\ d # None
        BY ConstantsAssumption DEF IInv, Shape, EnterInv, SlotInv, MaybeConn, Looking
      <3> QED BY <1>1, <1>3, <3>1, <3>2 DEF IInv, SlotInv
    <2> QED BY <2>1, <2>2
  <1>5. "find" \in PCs \ {"start", "lock"}
    BY DEF PCs
  <1> QED BY <1>1, <1>2, <1>3, <1>4, <1>5, Typed, Moves

LEMMA EvictStep ==
  ASSUME IInv, NEW c \in Conns, evict(c)
  PROVE  IInv'
  <1> DEFINE a == slot[mgr[c]][UserOf[c]]
  <1>1. /\ Goto(c, "find", IF a = None THEN "build" ELSE "wait") /\ pc[c] = "find" /\ Idle(c)
        /\ UNCHANGED <<readers, rooms, slot, ulock, mgr, signon>>
        /\ \/ UNCHANGED <<closed, calls>>
           \/ a # None /\ closed' = closed \cup {a} /\ calls' = [calls EXCEPT ![c] = SignoutChat(a)]
    BY DEF evict, Goto, Invoke, mutexVars, roomVars, joinVars
  <1>2. mgr[c] \in Conns /\ UserOf[c] \in Users /\ c \in Threads
    BY <1>1, Entered
  <1>3. a \in MaybeConn
    BY <1>2, Typed
  <1>4. PICK to \in {"build", "wait"} : Goto(c, "find", to) /\ (to = "build" => a = None)
    BY <1>1
  <1> HIDE DEF a
  <1>5. closed \subseteq closed' /\ closed' \subseteq Conns
    BY <1>1, <1>3, Typed DEF MaybeConn
  <1>6. calls' = calls \/ \E cs : mayCall(cs) /\ calls' = [calls EXCEPT ![c] = cs]
    BY <1>1, <1>3, SignoutMayCall DEF MaybeConn
  <1>7. SlotInv'
    BY <1>1, <1>2, <1>4, <1>5, MovesApart DEF Looking, InSlot, a
  <1>8. to \in PCs \ {"start", "lock"}
    BY <1>4 DEF PCs
  <1>9. ulock \in [Conns -> [Users -> MaybeConn]]
    BY DEF IInv, Shape
  <1> QED BY <1>1, <1>2, <1>4, <1>5, <1>6, <1>7, <1>8, <1>9, Typed, Moves

LEMMA WaitTimeoutStep ==
  ASSUME IInv, NEW c \in Conns, waitTimeout(c)
  PROVE  IInv'
  <1>1. /\ Goto(c, "wait", "gone") /\ pc[c] = "wait" /\ Idle(c) /\ lockOf(c, None)
        /\ UNCHANGED <<calls, readers, rooms, slot, mgr, signon, closed>>
    BY DEF waitTimeout, Goto, mutexVars, roomVars
  <1>2. mgr[c] \in Conns /\ UserOf[c] \in Users /\ c \in Threads
    BY <1>1, Entered
  <1>3. /\ ulock' \in [Conns -> [Users -> MaybeConn]]
        /\ \A m \in Conns : \A u \in Users :
               ulock'[m][u] = IF m = mgr[c] /\ u = UserOf[c] THEN None ELSE ulock[m][u]
    BY <1>1, LockOf DEF MaybeConn
  <1>4. SlotInv'
    <2> SUFFICES ASSUME NEW d \in Conns
                 PROVE  /\ pc'[d] \in Looking => ulock'[mgr[d]][UserOf[d]] = d
                        /\ pc'[d] = "build" => slot[mgr[d]][UserOf[d]] = None
                        /\ pc'[d] \in InSlot /\ d \notin closed => slot[mgr[d]][UserOf[d]] = d
      BY <1>1 DEF SlotInv, Looking
    <2>1. CASE d = c
      BY <1>1, <1>2, <2>1 DEF Goto, IInv, Shape, Looking, InSlot
    <2>2. CASE d # c
      <3>1. pc'[d] = pc[d] /\ UserOf[d] \in Users
        BY <1>1, <2>2, ConstantsAssumption DEF Goto, IInv, Shape, Threads
      <3>2. pc[d] \in Looking => mgr[d] \in Conns /\ ulock[mgr[d]][UserOf[d]] = d
        BY ZenonT(60) DEF IInv, Shape, EnterInv, SlotInv, MaybeConn, Looking
      <3>3. ulock[mgr[c]][UserOf[c]] = c
        BY <1>1 DEF IInv, SlotInv
      <3> QED BY <1>1, <1>3, <2>2, <3>1, <3>2, <3>3 DEF IInv, SlotInv
    <2> QED BY <2>1, <2>2
  <1>5. "gone" \in PCs \ {"start", "lock"}
    BY DEF PCs
  <1> QED BY <1>1, <1>2, <1>3, <1>4, <1>5, Typed, Moves

\* The slot is free, so whoever of the user's connections joined before is closed.
LEMMA NewSessionStep ==
  ASSUME IInv, NEW c \in Conns, newSession(c)
  PROVE  IInv'
  <1>1. /\ Goto(c, "build", "cookie") /\ pc[c] = "build" /\ Idle(c) /\ lockOf(c, None)
        /\ slot' = [slot EXCEPT ![mgr[c]][UserOf[c]] = c]
        /\ UNCHANGED <<calls, readers, rooms, mgr, signon, closed>>
    BY DEF newSession, Goto, mutexVars
  <1>2. mgr[c] \in Conns /\ UserOf[c] \in Users /\ c \in Threads
    BY <1>1, Entered
  <1>3. /\ ulock' \in [Conns -> [Users -> MaybeConn]]
        /\ \A m \in Conns : \A u \in Users :
               ulock'[m][u] = IF m = mgr[c] /\ u = UserOf[c] THEN None ELSE ulock[m][u]
    BY <1>1, LockOf DEF MaybeConn
  <1>4. /\ slot' \in [Conns -> [Users -> MaybeConn]]
        /\ \A m \in Conns : \A u \in Users :
               slot'[m][u] = IF m = mgr[c] /\ u = UserOf[c] THEN c ELSE slot[m][u]
    BY <1>1, <1>2, Typed DEF MaybeConn
  <1>5. SlotInv'
    <2> SUFFICES ASSUME NEW d \in Conns
                 PROVE  /\ pc'[d] \in Looking => ulock'[mgr[d]][UserOf[d]] = d
                        /\ pc'[d] = "build" => slot'[mgr[d]][UserOf[d]] = None
                        /\ pc'[d] \in InSlot /\ d \notin closed => slot'[mgr[d]][UserOf[d]] = d
      BY <1>1 DEF SlotInv, Looking
    <2>1. CASE d = c
      BY <1>1, <1>2, <1>4, <2>1 DEF Goto, IInv, Shape, Looking
    <2>2. CASE d # c
      <3>1. pc'[d] = pc[d] /\ UserOf[d] \in Users
        BY <1>1, <2>2, ConstantsAssumption DEF Goto, IInv, Shape, Threads
      <3>2. pc[d] \in Looking \cup InSlot => mgr[d] \in Conns
        BY DEF IInv, Shape, EnterInv, MaybeConn, Looking, InSlot
      <3>3. pc[d] \in Looking => ulock[mgr[d]][UserOf[d]] = d
        BY DEF IInv, SlotInv, Looking
      <3>4. ulock[mgr[c]][UserOf[c]] = c /\ slot[mgr[c]][UserOf[c]] = None
        BY <1>1 DEF IInv, SlotInv
      <3>5. pc[d] \in Looking => ~(mgr[d] = mgr[c] /\ UserOf[d] = UserOf[c])
        BY <2>2, <3>3, <3>4
      <3>6. pc[d] \in InSlot /\ d \notin closed => ~(mgr[d] = mgr[c] /\ UserOf[d] = UserOf[c])
        BY <3>4, ConstantsAssumption DEF IInv, SlotInv
      <3>7. pc[d] = "build" => pc[d] \in Looking
        BY DEF Looking
      <3> QED BY <1>3, <1>4, <3>1, <3>2, <3>3, <3>5, <3>6, <3>7 DEF IInv, SlotInv
    <2> QED BY <2>1, <2>2
  <1>6. "cookie" \in PCs \ {"start", "lock"}
    BY DEF PCs
  <1> QED BY <1>1, <1>2, <1>3, <1>4, <1>5, <1>6, Typed, Moves

\* The moves that leave the registry's slots and locks alone.
LEMMA OtherMoves ==
  ASSUME IInv, NEW t \in Threads, NEW from, NEW to \in PCs \ {"start", "lock"}, Goto(t, from, to),
         t \in Conns => from # "start",
         calls' = calls \/ \E cs : mayCall(cs) /\ calls' = [calls EXCEPT ![t] = cs],
         UNCHANGED <<readers, rooms, mgr, slot, ulock>>,
         to \notin Looking \/ (t \in Conns /\ to = "build" /\ from = "wait" /\ slot[mgr[t]][UserOf[t]] = None),
         to \in InSlot => from \in InSlot,
         signon' \subseteq Conns, closed \subseteq closed', closed' \subseteq Conns
  PROVE  IInv'
  <1>1. SlotInv'
    BY MovesApart DEF Looking
  <1>2. slot' \in [Conns -> [Users -> MaybeConn]] /\ ulock' \in [Conns -> [Users -> MaybeConn]]
    BY DEF IInv, Shape
  <1> QED BY <1>1, <1>2, Moves

LEMMA ClientOnlineStep ==
  ASSUME IInv, NEW c \in Conns, ClientOnline(c)
  PROVE  IInv'
  <1>1. PICK from \in {"joined", "roster", "self", "alert"}, to \in {"roster", "self", "alert", "online"} :
           Goto(c, from, to)
    BY DEF ClientOnline
  <1>2. /\ UNCHANGED <<readers, rooms, mgr, slot, ulock, closed>>
        /\ signon' = signon \/ signon' = signon \cup {c}
    BY DEF ClientOnline, mutexVars, roomVars, joinVars
  <1>3. calls' = calls \/ \E cs : mayCall(cs) /\ calls' = [calls EXCEPT ![c] = cs]
    <2>1. mayCall(<<Call("rlock", c, "users", {})>>) /\ mayCall(<<Call("rlock", c, "joined", {})>>)
      BY OneMayCall
    <2> QED BY <2>1 DEF ClientOnline, Invoke
  <1>4. c \in Threads /\ to \in PCs \ {"start", "lock"} /\ to \notin Looking /\ from \in InSlot
    BY <1>1 DEF Threads, PCs, Looking, InSlot
  <1>5. signon' \subseteq Conns
    BY <1>2, Typed
  <1>6. from # "start"
    BY <1>1
  <1> QED BY <1>1, <1>2, <1>3, <1>4, <1>5, <1>6, Typed, OtherMoves

LEMMA OtherConnectionStep ==
  ASSUME IInv, NEW c \in Conns,
         waitRemoved(c) \/ SetChatRoomCookie(c) \/ ChannelMsgToHost(c) \/ disconnect(c) \/ CloseInstance(c)
  PROVE  IInv'
  <1>1. c \in Threads
    BY DEF Threads
  <1>2. UNCHANGED <<readers, rooms, mgr, slot, ulock, signon>>
    BY DEF waitRemoved, SetChatRoomCookie, ChannelMsgToHost, disconnect, CloseInstance,
           mutexVars, roomVars, joinVars
  <1>3. {"build", "joined", "online", "leave", "gone"} \subseteq PCs \ {"start", "lock"}
    BY DEF PCs
  <1>4. CASE waitRemoved(c)
    <2>1. /\ Goto(c, "wait", "build") /\ slot[mgr[c]][UserOf[c]] = None /\ UNCHANGED <<calls, closed>>
      BY <1>4 DEF waitRemoved
    <2> QED BY <1>1, <1>2, <1>3, <2>1, Typed, OtherMoves DEF InSlot
  <1>5. CASE SetChatRoomCookie(c)
    <2>1. /\ Goto(c, "cookie", "joined") /\ closed' = closed
          /\ calls' = [calls EXCEPT ![c] = <<Call("lock", c, "restore", {})>>]
      BY <1>5 DEF SetChatRoomCookie, Invoke
    <2>2. mayCall(<<Call("lock", c, "restore", {})>>)
      BY OneMayCall
    <2>3. "joined" \notin Looking /\ "cookie" \in InSlot
      BY DEF Looking, InSlot
    <2> QED BY <1>1, <1>2, <1>3, <2>1, <2>2, <2>3, Typed, OtherMoves
  <1>6. CASE ChannelMsgToHost(c)
    <2>1. /\ Goto(c, "online", "online") /\ closed' = closed
          /\ calls' = [calls EXCEPT ![c] = <<Call("rlock", c, "message", {})>>]
      BY <1>6 DEF ChannelMsgToHost, Invoke
    <2>2. mayCall(<<Call("rlock", c, "message", {})>>)
      BY OneMayCall
    <2>3. "online" \notin Looking /\ "online" \in InSlot
      BY DEF Looking, InSlot
    <2> QED BY <1>1, <1>2, <1>3, <2>1, <2>2, <2>3, Typed, OtherMoves
  <1>7. CASE disconnect(c)
    <2>1. PICK from \in {"joined", "online"} : Goto(c, from, "leave")
      BY <1>7 DEF disconnect
    <2>2. UNCHANGED <<calls, closed>> /\ from # "start"
      BY <1>7, <2>1 DEF disconnect
    <2>3. "leave" \notin Looking /\ from \in InSlot
      BY <2>1 DEF Looking, InSlot
    <2> QED BY <1>1, <1>2, <1>3, <2>1, <2>2, <2>3, Typed, OtherMoves
  <1>8. CASE CloseInstance(c)
    <2>1. /\ Goto(c, "leave", "gone")
          /\ \/ UNCHANGED <<closed, calls>>
             \/ closed' = closed \cup {c} /\ calls' = [calls EXCEPT ![c] = SignoutChat(c)]
      BY <1>8 DEF CloseInstance, Invoke
    <2>2. closed \subseteq closed' /\ closed' \subseteq Conns
      BY <2>1, Typed
    <2>3. calls' = calls \/ \E cs : mayCall(cs) /\ calls' = [calls EXCEPT ![c] = cs]
      BY <2>1, SignoutMayCall
    <2>4. "gone" \notin Looking /\ "gone" \notin InSlot
      BY DEF Looking, InSlot
    <2> QED BY <1>1, <1>2, <1>3, <2>1, <2>2, <2>3, <2>4, Typed, OtherMoves
  <1> QED BY <1>4, <1>5, <1>6, <1>7, <1>8

LEMMA TeardownStep ==
  ASSUME IInv, NEW k \in Teardowns, RemoveUserFromAllChats(k)
  PROVE  IInv'
  <1>1. k \in Threads /\ k \notin Conns /\ UserOf[k] \in Users
    BY ConstantsAssumption DEF Threads
  <1>2. pc[k] = "start" /\ pc' = [pc EXCEPT ![k] = "gone"]
        /\ calls' = [calls EXCEPT ![k] = <<Call("copy", UserOf[k], "chats", {})>>]
        /\ UNCHANGED <<readers, rooms, mgr, slot, ulock, signon, closed>>
    BY DEF RemoveUserFromAllChats, mutexVars, roomVars, joinVars
  <1>3. Idle(k)
    <2>1. calls[k] \in Seq(Calls)
      BY <1>1 DEF IInv, Shape
    <2>2. calls[k] # <<>> => 1 \in DOMAIN calls[k]
      BY <2>1, EmptySeq, LenProperties
    <2> QED BY <1>1, <1>2, <2>2 DEF Idle, IInv, CallsInv
  <1>4. Goto(k, "start", "gone")
    BY <1>2, <1>3 DEF Goto
  <1>5. mayCall(<<Call("copy", UserOf[k], "chats", {})>>)
    BY <1>1, OneMayCall
  <1>6. "gone" \in PCs \ {"start", "lock"} /\ "gone" \notin Looking /\ "gone" \notin InSlot
    BY DEF PCs, Looking, InSlot
  <1> QED BY <1>1, <1>2, <1>4, <1>5, <1>6, Typed, OtherMoves

LEMMA StepHolds == IInv /\ [Next]_vars => IInv'
  <1> SUFFICES ASSUME IInv, [Next]_vars PROVE IInv'
    OBVIOUS
  <1>1. ASSUME NEW t \in Threads, CallStep(t) PROVE IInv'
    BY <1>1, RLockStep, RelayStep, RUnlockStep, LockStep, RemoveStep, EnterRoomStep, RestoreRoomStep,
       CopyStep, CloseUserStep, AllClosedStep DEF CallStep
  <1>2. ASSUME NEW c \in Conns, Connection(c) PROVE IInv'
    BY <1>2, AddSessionStep, LockUserStep, EvictStep, WaitTimeoutStep, NewSessionStep,
       ClientOnlineStep, OtherConnectionStep DEF Connection
  <1>3. CASE UNCHANGED vars
    <2>1. UNCHANGED <<pc, calls, readers, rooms, slot, ulock, mgr, signon, closed>>
      BY <1>3 DEF vars
    <2>2. Shape' /\ CallsInv'
      BY <2>1 DEF IInv, Shape, CallsInv
    <2>3. EnterInv' /\ ReadInv'
      BY <2>1 DEF IInv, EnterInv, ReadInv, relaying, Idle, Top
    <2>4. SlotInv'
      BY <2>1, SlotsKept
    <2> QED BY <2>2, <2>3, <2>4 DEF IInv
  <1> QED BY <1>1, <1>2, <1>3, TeardownStep DEF Next, Stopped

THEOREM Inductive == Spec => []IInv
  BY InitHolds, StepHolds, PTL DEF Spec

-----------------------------------------------------------------------------
(***************************************************************************)
(* Who knows whom.  The invariant is relative to IInv.                      *)
(***************************************************************************)
\* A manager is named after the connection that created it, and belongs to that
\* connection's room.
ManagerInv ==
    /\ \A c \in Conns : mgr[c] # None => mgr[mgr[c]] = mgr[c] /\ RoomOf[mgr[c]] = RoomOf[c]
    /\ \A r \in Rooms : rooms[r] # None => mgr[rooms[r]] = rooms[r] /\ RoomOf[rooms[r]] = r

\* A session is in its own user's slot of the manager its connection entered.
OwnerInv ==
    \A m \in Conns, u \in Users : slot[m][u] # None =>
        mgr[slot[m][u]] = m /\ UserOf[slot[m][u]] = u

Joining == {"start", "lock", "find", "wait", "build", "cookie"}

restoring(q) == Len(q) = 1 /\ q[1].kind = "restore" /\ q[1].op \in {"lock", "write"}

\* A connection that has signed on has a cookie, is on the lists or leaves, and has restored
\* its room's manager first.
JoinInv ==
    \A c \in Conns :
        /\ pc[c] = "start" \/ (pc[c] = "lock" /\ ~Idle(c)) => mgr[c] = None
        /\ c \in signon => pc[c] \notin Joining \cup {"joined"} /\ (pc[c] = "gone" => c \in closed)
        /\ pc[c] = "joined" \/ c \in signon => c \in cookie
        /\ pc[c] = "joined" /\ ~Idle(c) => restoring(calls[c])

\* A session is signed out of its room once: its departure is announced, then its slot freed.
SignoutInv ==
    \A t \in Threads : \A i \in DOMAIN calls[t] :
        LET s == calls[t][i].who
        IN  /\ calls[t][i].kind = "left" =>
                 i + 1 \in DOMAIN calls[t] /\ calls[t][i + 1].kind = "remove" /\ calls[t][i + 1].who = s
            /\ calls[t][i].kind = "remove" =>
                 /\ s \in Conns /\ mgr[s] # None /\ slot[mgr[s]][UserOf[s]] = s
                 /\ \A x \in Threads : \A j \in DOMAIN calls[x] :
                        calls[x][j].kind = "remove" /\ calls[x][j].who = s => x = t /\ j = i

\* All who entered a room have entered one manager.
Settled == \A c, d \in Conns : mgr[c] # None /\ mgr[d] # None => mgr[c] = mgr[d]

\* Who has joined is in the manager that the room's messages go to.
RestoredInv ==
    Settled => \A c \in Conns :
        live(c) \/ (pc[c] = "joined" /\ Idle(c) /\ c \notin closed) => rooms[RoomOf[c]] = mgr[c]

announces(x, s, kind, c) ==
    x.kind = kind /\ x.who = s /\ (x.op = "rlock" \/ (x.op = "relay" /\ c \in x.to))

\* c has read a list with d on it and is still to be sent that list.
awaitsList(c, d) ==
    UserOf[d] \in users[c] /\ \E i \in DOMAIN calls[c] : announces(calls[c][i], c, "users", c)

\* d has still to announce its arrival to c.
awaitsArrival(c, d) ==
    /\ UserOf[c] # UserOf[d]
    /\ pc[d] \in {"roster", "self"} \/ \E i \in DOMAIN calls[d] : announces(calls[d][i], d, "joined", c)

\* Of two live participants, each lists the other, unless it has yet to read the list, to
\* be sent it, or to be told of the other's arrival.
KnownInv ==
    Settled => \A c, d \in Conns :
        live(c) /\ live(d) =>
            pc[c] = "roster" \/ UserOf[d] \in roster[c] \/ awaitsList(c, d) \/ awaitsArrival(c, d)

\* Every connection has a list of its own.
Lists == users = [c \in Conns |-> users[c]] /\ roster = [c \in Conns |-> roster[c]]

KInv == ManagerInv /\ OwnerInv /\ JoinInv /\ SignoutInv /\ RestoredInv /\ KnownInv /\ Lists

\* A live session has its cookie and is in its slot.
LEMMA LiveInSlot ==
  ASSUME IInv, KInv, NEW c \in Conns, live(c)
  PROVE  /\ c \in Threads /\ UserOf[c] \in Users /\ RoomOf[c] \in Rooms /\ mgr[c] \in Conns
         /\ mgr[c] # None /\ slot[mgr[c]][UserOf[c]] = c /\ c \in cookie
         /\ pc[c] \notin Joining \cup {"joined", "gone"}
  <1>1. c \in Threads /\ UserOf[c] \in Users /\ RoomOf[c] \in Rooms
    BY ConstantsAssumption DEF Threads
  <1>2. c \in cookie /\ pc[c] \notin Joining \cup {"joined", "gone"} /\ c \notin closed
    BY DEF live, KInv, JoinInv
  <1>3. mgr[c] # None
    BY <1>2 DEF IInv, EnterInv, Joining
  <1>4. mgr[c] \in Conns
    BY <1>3 DEF IInv, Shape, MaybeConn
  <1>5. pc[c] \in InSlot
    BY <1>1, <1>2 DEF InSlot, Joining, IInv, Shape, PCs
  <1> QED BY <1>1, <1>2, <1>3, <1>4, <1>5 DEF IInv, SlotInv

\* Where everybody is in one manager, a live user has one session.
LEMMA OneLive ==
  ASSUME IInv, KInv, Settled, NEW c \in Conns, NEW s \in Conns, live(c),
         mgr[s] # None, slot[mgr[s]][UserOf[s]] = s, UserOf[s] = UserOf[c]
  PROVE  s = c
  BY LiveInSlot DEF Settled

\* The stack after a call's step, position by position.
LEMMA StackedAt ==
  ASSUME IInv, NEW t \in Threads, NEW new, restacks(t, new)
  PROVE  /\ Len(new) \in Nat /\ Len(calls[t]) \in Nat \ {0} /\ DOMAIN new = 1..Len(new)
         /\ DOMAIN calls[t] = 1..Len(calls[t])
         /\ DOMAIN calls'[t] = 1..(Len(new) + Len(calls[t]) - 1)
         /\ \A i \in 1..Len(new) : calls'[t][i] = new[i]
         /\ \A i \in 2..Len(calls[t]) : calls'[t][Len(new) + i - 1] = calls[t][i]
         /\ \A x \in Threads : x # t => calls'[x] = calls[x]
  <1> DEFINE old == calls[t]
             q == new \o Tail(old)
  <1>1. calls \in [Threads -> Seq(Calls)] /\ old \in Seq(Calls) /\ old # <<>> /\ new \in Seq(Calls)
    BY DEF IInv, Shape, restacks, Idle
  <1>2. /\ Tail(old) \in Seq(Calls) /\ Len(Tail(old)) = Len(old) - 1
        /\ \A i \in 1..Len(Tail(old)) : Tail(old)[i] = old[i + 1]
    BY <1>1, HeadTailProperties
  <1>3. /\ q \in Seq(Calls) /\ Len(q) = Len(new) + Len(Tail(old))
        /\ \A i \in 1..(Len(new) + Len(Tail(old))) :
               q[i] = IF i <= Len(new) THEN new[i] ELSE Tail(old)[i - Len(new)]
    BY <1>1, <1>2, ConcatProperties
  <1>4. /\ Len(new) \in Nat /\ Len(old) \in Nat /\ Len(old) > 0 /\ DOMAIN new = 1..Len(new)
        /\ DOMAIN old = 1..Len(old) /\ DOMAIN q = 1..Len(q)
    BY <1>1, <1>3, LenProperties, EmptySeq
  <1>5. calls'[t] = q /\ \A x \in Threads : x # t => calls'[x] = calls[x]
    BY <1>1 DEF restacks
  <1> HIDE DEF q, old
  <1>6. ASSUME NEW i \in 1..Len(new) PROVE q[i] = new[i]
    <2>1. i \in 1..(Len(new) + Len(Tail(old))) /\ i <= Len(new)
      BY <1>2, <1>4
    <2> QED BY <1>3, <2>1
  <1>7. ASSUME NEW i \in 2..Len(old) PROVE q[Len(new) + i - 1] = old[i]
    <2>1. /\ Len(new) + i - 1 \in 1..(Len(new) + Len(Tail(old))) /\ ~(Len(new) + i - 1 <= Len(new))
          /\ (Len(new) + i - 1) - Len(new) = i - 1 /\ i - 1 \in 1..Len(Tail(old)) /\ (i - 1) + 1 = i
      BY <1>2, <1>4
    <2>2. q[Len(new) + i - 1] = Tail(old)[(Len(new) + i - 1) - Len(new)]
      BY <1>3, <2>1
    <2>3. Tail(old)[i - 1] = old[(i - 1) + 1]
      BY <1>2, <2>1
    <2> QED BY <2>1, <2>2, <2>3
  <1>8. DOMAIN q = 1..(Len(new) + Len(old) - 1)
    <2>1. Len(q) = Len(new) + Len(old) - 1
      BY <1>2, <1>3, <1>4
    <2> QED BY <1>4, <2>1
  <1>9. /\ \A i \in 1..Len(new) : calls'[t][i] = new[i]
        /\ \A i \in 2..Len(old) : calls'[t][Len(new) + i - 1] = old[i]
    BY <1>5, <1>6, <1>7
  <1>10. Len(old) \in Nat \ {0} /\ DOMAIN calls'[t] = 1..(Len(new) + Len(old) - 1)
    BY <1>4, <1>5, <1>8
  <1> QED BY <1>4, <1>5, <1>9, <1>10 DEF old

-----------------------------------------------------------------------------
(***************************************************************************)
(* Sign-outs.                                                              *)
(***************************************************************************)
parting == {"left", "remove"}

\* What a step of a call puts in its place: nothing; the same call, further on, or one that
\* signs nobody out; or that after signing out a session that was open.
signs(t, new) ==
    \/ new = <<>>
    \/ \E x \in Calls : /\ x.kind \in parting => x.kind = Top(t).kind /\ x.who = Top(t).who
                        /\ \/ new = <<x>>
                           \/ \E s \in Conns \ closed :
                                  /\ mgr[s] # None /\ slot[mgr[s]][UserOf[s]] = s
                                  /\ new = Append(SignoutChat(s), x)

\* Who a stack's entry is to remove.
removes(x, s) == x.kind = "remove" /\ x.who = s

LEMMA SignoutUnfolded ==
  SignoutInv <=>
    /\ \A t \in Threads : \A i \in DOMAIN calls[t] : calls[t][i].kind = "left" =>
           i + 1 \in DOMAIN calls[t] /\ removes(calls[t][i + 1], calls[t][i].who)
    /\ \A t \in Threads : \A i \in DOMAIN calls[t] : \A s : removes(calls[t][i], s) =>
           s \in Conns /\ mgr[s] # None /\ slot[mgr[s]][UserOf[s]] = s
    /\ \A t, x \in Threads : \A i \in DOMAIN calls[t] : \A j \in DOMAIN calls[x] : \A s :
           removes(calls[t][i], s) /\ removes(calls[x][j], s) => x = t /\ j = i
  BY DEF SignoutInv, removes

\* Nobody is to be removed twice.
LEMMA RemovedOnce ==
  ASSUME SignoutInv, NEW x \in Threads, NEW y \in Threads, NEW i \in DOMAIN calls[x],
         NEW j \in DOMAIN calls[y], NEW s, removes(calls[x][i], s), removes(calls[y][j], s)
  PROVE  y = x /\ j = i
  BY DEF SignoutInv, removes

LEMMA NextPosition ==
  ASSUME NEW n \in Nat, NEW l \in Nat, NEW i \in Nat, i > n, i - n + 1 + 1 \in 1..l
  PROVE  /\ i - n + 1 + 1 \in 2..l /\ n + (i - n + 1 + 1) - 1 = i + 1
         /\ i + 1 \in 1..(n + l - 1)
  OBVIOUS

\* A step of a call keeps the order of a sign-out.
LEMMA SignoutRestacked ==
  ASSUME IInv, SignoutInv, NEW t \in Threads, NEW new, restacks(t, new), signs(t, new),
         \A s \in Conns : mgr[s] # None => mgr'[s] = mgr[s],
         \A x \in Threads : \A i \in DOMAIN calls[x] : \A s :
             removes(calls[x][i], s) /\ (x # t \/ i > 1) => slot'[mgr[s]][UserOf[s]] = s,
         new # <<>> => slot' = slot
  PROVE  SignoutInv'
  <1> DEFINE old == calls[t]
             n == Len(new)
  <1>1. /\ n \in Nat /\ Len(old) \in Nat \ {0} /\ DOMAIN new = 1..n
        /\ DOMAIN old = 1..Len(old)
        /\ DOMAIN calls'[t] = 1..(n + Len(old) - 1)
        /\ \A i \in 1..n : calls'[t][i] = new[i]
        /\ \A i \in 2..Len(old) : calls'[t][n + i - 1] = old[i]
        /\ \A x \in Threads : x # t => calls'[x] = calls[x]
    BY StackedAt
  <1>2. 1 \in DOMAIN old /\ Top(t) = old[1]
    BY <1>1 DEF Top
  <1>3. /\ \A x \in Threads : \A i \in DOMAIN calls[x] : calls[x][i].kind = "left" =>
               i + 1 \in DOMAIN calls[x] /\ removes(calls[x][i + 1], calls[x][i].who)
        /\ \A x \in Threads : \A i \in DOMAIN calls[x] : \A s : removes(calls[x][i], s) =>
               s \in Conns /\ mgr[s] # None /\ slot[mgr[s]][UserOf[s]] = s
        /\ \A x, y \in Threads : \A i \in DOMAIN calls[x] : \A j \in DOMAIN calls[y] : \A s :
               removes(calls[x][i], s) /\ removes(calls[y][j], s) => y = x /\ j = i
    BY SignoutUnfolded
  <1>4. \A x \in Threads : \A i \in DOMAIN calls[x] : \A s :
            removes(calls[x][i], s) => s \in closed
    BY DEF IInv, CallsInv, removes
  \* What may be said of the first entries.
  <1>5. /\ n \in {0, 1, 3}
        /\ \A i \in 1..n : \A s : removes(new[i], s) =>
               \/ i = 1 /\ n = 1 /\ removes(old[1], s)
               \/ i = 2 /\ n = 3 /\ s \in Conns \ closed /\ mgr[s] # None /\ slot[mgr[s]][UserOf[s]] = s
               \/ i = 3 /\ n = 3 /\ removes(old[1], s)
        /\ \A i \in 1..n : new[i].kind = "left" =>
               \/ i = 1 /\ n = 1 /\ old[1].kind = "left" /\ old[1].who = new[i].who
               \/ i = 1 /\ n = 3 /\ removes(new[2], new[i].who)
               \/ i = 3 /\ n = 3 /\ old[1].kind = "left" /\ old[1].who = new[i].who
    <2>1. CASE new = <<>>
      <3>1. n = 0
        BY <2>1
      <3> QED BY <3>1
    <2>2. ASSUME NEW x \in Calls, x.kind \in parting => x.kind = Top(t).kind /\ x.who = Top(t).who,
                 new = <<x>>
          PROVE  <1>5
      <3>1. n = 1 /\ new[1] = x
        BY <2>2
      <3>2. 1..n = {1}
        BY <3>1
      <3> HIDE DEF n
      <3> QED BY <2>2, <1>2, <3>1, <3>2 DEF removes, parting
    <2>3. ASSUME NEW x \in Calls, x.kind \in parting => x.kind = Top(t).kind /\ x.who = Top(t).who,
                 NEW s \in Conns \ closed, mgr[s] # None, slot[mgr[s]][UserOf[s]] = s,
                 new = Append(SignoutChat(s), x)
          PROVE  <1>5
      <3>1. /\ DOMAIN new = {1, 2, 3}
            /\ new[1] = Call("rlock", s, "left", {}) /\ new[2] = Call("lock", s, "remove", {}) /\ new[3] = x
        BY <2>3, SignoutThen
      <3>2. /\ new[1].kind = "left" /\ new[1].who = s
            /\ new[2].kind = "remove" /\ new[2].who = s
        BY <3>1 DEF Call
      <3>3. n = 3
        <4>1. 1..n = {1, 2, 3}
          BY <1>1, <3>1
        <4>2. 3 \in 1..n /\ 4 \notin 1..n
          BY <4>1
        <4> QED BY <4>2, <1>1
      <3>4. 1..n = {1, 2, 3}
        BY <1>1, <3>1
      <3> HIDE DEF n
      <3> QED BY <2>3, <1>2, <3>1, <3>2, <3>3, <3>4 DEF removes, parting
    <2> QED BY <2>1, <2>2, <2>3 DEF signs
  <1> HIDE DEF n, old
  \* An entry of the new stack is one of the first, or was further in before.
  <1>6. ASSUME NEW i \in DOMAIN calls'[t]
        PROVE  \/ i \in 1..n /\ calls'[t][i] = new[i]
               \/ /\ i > n /\ i - n + 1 \in 2..Len(old) /\ calls'[t][i] = old[i - n + 1]
    <2>1. CASE i \in 1..n
      BY <1>1, <2>1
    <2>2. CASE i \notin 1..n
      <3>1. i > n /\ i - n + 1 \in 2..Len(old) /\ n + (i - n + 1) - 1 = i
        BY <1>1, <2>2
      <3> QED BY <1>1, <3>1
    <2> QED BY <2>1, <2>2
  <1>7. \A i \in DOMAIN calls'[t] : \A s : removes(calls'[t][i], s) =>
            \/ i = n /\ n \in {1, 3} /\ removes(old[1], s)
            \/ i = 2 /\ n = 3 /\ s \in Conns \ closed /\ mgr[s] # None /\ slot[mgr[s]][UserOf[s]] = s
            \/ i > n /\ i - n + 1 \in 2..Len(old) /\ removes(old[i - n + 1], s)
    BY <1>5, <1>6
  <1>8. 2..Len(old) \subseteq DOMAIN old
    BY <1>1
  <1>9. ASSUME NEW x \in Threads, NEW i \in DOMAIN calls'[x], calls'[x][i].kind = "left"
        PROVE  i + 1 \in DOMAIN calls'[x] /\ removes(calls'[x][i + 1], calls'[x][i].who)
    <2>1. CASE x # t
      BY <1>1, <1>3, <1>9, <2>1
    <2>2. CASE x = t
      <3>1. CASE i \in 1..n /\ calls'[t][i] = new[i]
        <4>1. CASE i = n /\ n \in {1, 3} /\ old[1].kind = "left" /\ old[1].who = new[i].who
          <5>1. 2 \in 2..Len(old) /\ removes(old[2], old[1].who)
            <6>1. 1 + 1 \in DOMAIN old /\ removes(old[1 + 1], old[1].who)
              BY <4>1, <1>2, <1>3 DEF old
            <6> QED BY <6>1, <1>1
          <5>2. n + 2 - 1 = i + 1 /\ i + 1 \in 1..(n + Len(old) - 1)
            BY <4>1, <5>1, <1>1
          <5>3. calls'[t][i + 1] = old[2]
            BY <1>1, <5>1, <5>2
          <5> QED BY <2>2, <3>1, <4>1, <5>1, <5>2, <5>3, <1>1
        <4>2. CASE i = 1 /\ n = 3 /\ removes(new[2], new[i].who)
          <5>1. 2 \in 1..n /\ 2 \in DOMAIN calls'[t] /\ i + 1 = 2
            BY <4>2, <1>1
          <5> QED BY <2>2, <3>1, <4>2, <5>1, <1>1
        <4> QED BY <1>5, <1>9, <2>2, <3>1, <4>1, <4>2
      <3>2. CASE i > n /\ i - n + 1 \in 2..Len(old) /\ calls'[t][i] = old[i - n + 1]
        <4> DEFINE k == i - n + 1
        <4>1. k + 1 \in DOMAIN old /\ removes(old[k + 1], old[k].who) /\ k \in 2..Len(old)
          BY <1>3, <1>8, <1>9, <2>2, <3>2 DEF old
        <4>2. k + 1 \in 2..Len(old) /\ n + (k + 1) - 1 = i + 1 /\ i + 1 \in 1..(n + Len(old) - 1)
          <5>3. i \in Nat
            BY <1>1, <2>2
          <5>4. k + 1 \in 1..Len(old)
            BY <1>1, <4>1
          <5>1. i \in Nat /\ i > n /\ k + 1 \in 1..Len(old)
            BY <3>2, <5>3, <5>4
          <5>2. n \in Nat /\ Len(old) \in Nat
            BY <1>1
          <5> QED BY <5>1, <5>2, NextPosition
        <4>3. calls'[t][i + 1] = old[k + 1]
          BY <1>1, <4>2
        <4> QED BY <1>1, <2>2, <3>2, <4>1, <4>2, <4>3
      <3> QED BY <1>6, <2>2, <3>1, <3>2
    <2> QED BY <2>1, <2>2
  <1>10. ASSUME NEW x \in Threads, NEW i \in DOMAIN calls'[x], NEW s, removes(calls'[x][i], s)
         PROVE  s \in Conns /\ mgr'[s] # None /\ slot'[mgr'[s]][UserOf[s]] = s
    <2> SUFFICES s \in Conns /\ mgr[s] # None /\ slot'[mgr[s]][UserOf[s]] = s
      OBVIOUS
    <2>1. CASE x # t
      BY <1>1, <1>3, <1>10, <2>1
    <2>2. CASE x = t
      <3>1. CASE i = n /\ n \in {1, 3} /\ removes(old[1], s)
        <4>1. new # <<>>
          BY <3>1 DEF n
        <4> QED BY <1>2, <1>3, <3>1, <4>1 DEF old
      <3>2. CASE i = 2 /\ n = 3 /\ s \in Conns \ closed /\ mgr[s] # None /\ slot[mgr[s]][UserOf[s]] = s
        <4>1. new # <<>>
          BY <3>2 DEF n
        <4> QED BY <3>2, <4>1
      <3>3. CASE i > n /\ i - n + 1 \in 2..Len(old) /\ removes(old[i - n + 1], s)
        <4>1. i - n + 1 \in DOMAIN old /\ i - n + 1 > 1
          BY <1>8, <3>3
        <4> QED BY <1>3, <3>3, <4>1 DEF old
      <3> QED BY <1>7, <1>10, <2>2, <3>1, <3>2, <3>3
    <2> QED BY <2>1, <2>2
  \* The position before the step of an entry that removes somebody already closed.
  <1>11. ASSUME NEW i \in DOMAIN calls'[t], NEW s, removes(calls'[t][i], s), s \in closed
         PROVE  /\ i >= n
                /\ i - n + 1 \in DOMAIN old /\ removes(old[i - n + 1], s)
    <2>1. CASE i = n /\ n \in {1, 3} /\ removes(old[1], s)
      BY <1>1, <1>2, <2>1
    <2>2. CASE i > n /\ i - n + 1 \in 2..Len(old) /\ removes(old[i - n + 1], s)
      BY <1>1, <1>8, <2>2
    <2> QED BY <1>7, <1>11, <2>1, <2>2
  <1>12. ASSUME NEW x \in Threads, NEW y \in Threads, NEW i \in DOMAIN calls'[x],
                NEW j \in DOMAIN calls'[y], NEW s, removes(calls'[x][i], s), removes(calls'[y][j], s)
         PROVE  y = x /\ j = i
    <2>1. CASE s \in closed
      <3>1. CASE x # t /\ y # t
        <4>1. calls'[x] = calls[x] /\ calls'[y] = calls[y]
          BY <1>1, <3>1
        <4>2. i \in DOMAIN calls[x] /\ removes(calls[x][i], s)
          BY <1>12, <4>1
        <4>3. j \in DOMAIN calls[y] /\ removes(calls[y][j], s)
          BY <1>12, <4>1
        <4> QED BY <4>2, <4>3 DEF SignoutInv, removes
      <3>2. CASE x = t /\ y = t
        <4>1. /\ i - n + 1 \in DOMAIN old /\ removes(old[i - n + 1], s)
              /\ j - n + 1 \in DOMAIN old /\ removes(old[j - n + 1], s)
          BY <1>11, <1>12, <2>1, <3>2
        <4>2. \A a, b \in DOMAIN old : removes(old[a], s) /\ removes(old[b], s) => a = b
          BY RemovedOnce DEF old
        <4>3. i - n + 1 = j - n + 1
          BY <4>1, <4>2
        <4>4. i \in Nat /\ j \in Nat
          BY <1>1, <3>2
        <4> QED BY <1>1, <3>2, <4>3, <4>4
      <3>3. CASE x = t /\ y # t
        <4>1. i - n + 1 \in DOMAIN old /\ removes(old[i - n + 1], s)
          BY <1>11, <1>12, <2>1, <3>3
        <4>2. calls'[y] = calls[y]
          BY <1>1, <3>3
        <4>3. j \in DOMAIN calls[y] /\ removes(calls[y][j], s)
          BY <1>12, <4>2
        <4>4. i - n + 1 \in DOMAIN calls[t] /\ removes(calls[t][i - n + 1], s)
          BY <4>1 DEF old
        <4> QED BY <3>3, <4>3, <4>4, RemovedOnce
      <3>4. CASE x # t /\ y = t
        <4>1. j - n + 1 \in DOMAIN old /\ removes(old[j - n + 1], s)
          BY <1>11, <1>12, <2>1, <3>4
        <4>2. calls'[x] = calls[x]
          BY <1>1, <3>4
        <4>3. i \in DOMAIN calls[x] /\ removes(calls[x][i], s)
          BY <1>12, <4>2
        <4>4. j - n + 1 \in DOMAIN calls[t] /\ removes(calls[t][j - n + 1], s)
          BY <4>1 DEF old
        <4> QED BY <3>4, <4>3, <4>4, RemovedOnce
      <3> QED BY <3>1, <3>2, <3>3, <3>4
    <2>2. CASE s \notin closed
      <3>1. \A k \in DOMAIN calls'[t] : removes(calls'[t][k], s) => k = 2
        BY <1>2, <1>4, <1>7, <1>8, <2>2 DEF old
      <3>2. \A z \in Threads : \A k \in DOMAIN calls'[z] : removes(calls'[z][k], s) => z = t
        BY <1>1, <1>4, <2>2
      <3> QED BY <1>12, <3>1, <3>2
    <2> QED BY <2>1, <2>2
  <1>13. SignoutInv'
    <2> SUFFICES ASSUME NEW x \in Threads, NEW i \in DOMAIN calls'[x]
                 PROVE  LET s == calls'[x][i].who
                        IN  /\ calls'[x][i].kind = "left" =>
                                 /\ i + 1 \in DOMAIN calls'[x]
                                 /\ calls'[x][i + 1].kind = "remove" /\ calls'[x][i + 1].who = s
                            /\ calls'[x][i].kind = "remove" =>
                                 /\ s \in Conns /\ mgr'[s] # None /\ slot'[mgr'[s]][UserOf[s]] = s
                                 /\ \A y \in Threads : \A j \in DOMAIN calls'[y] :
                                        calls'[y][j].kind = "remove" /\ calls'[y][j].who = s
                                        => y = x /\ j = i
      BY DEF SignoutInv
    <2> QED BY <1>9, <1>10, <1>12 DEF removes
  <1> QED BY <1>13

\* A thread inside no call makes none, or one that signs nobody out, or signs out an open session.
begins(cs) ==
    \/ cs = <<>>
    \/ \E x \in Calls : x.kind \notin parting /\ cs = <<x>>
    \/ \E s \in Conns \ closed :
           mgr[s] # None /\ slot[mgr[s]][UserOf[s]] = s /\ cs = SignoutChat(s)

LEMMA SignoutMoved ==
  ASSUME IInv, SignoutInv, NEW t \in Threads, Idle(t), NEW cs, begins(cs),
         calls' = [calls EXCEPT ![t] = cs], mgr' = mgr,
         \A m \in Conns, u \in Users : slot[m][u] # None => slot'[m][u] = slot[m][u]
  PROVE  SignoutInv'
  <1>1. calls'[t] = cs /\ \A x \in Threads : x # t => calls'[x] = calls[x]
    BY DEF IInv, Shape
  <1>2. DOMAIN calls[t] = {}
    BY EmptySeq DEF Idle
  <1>3. \A x \in Threads : \A i \in DOMAIN calls[x] : \A s :
            removes(calls[x][i], s) => s \in closed
    BY DEF IInv, CallsInv, removes
  <1>4. ASSUME NEW s \in Conns, mgr[s] # None, slot[mgr[s]][UserOf[s]] = s
        PROVE  slot'[mgr[s]][UserOf[s]] = s
    BY <1>4, ConstantsAssumption DEF IInv, Shape, MaybeConn
  <1>5. \/ DOMAIN cs = {}
        \/ DOMAIN cs = {1} /\ cs[1].kind \notin parting
        \/ \E s \in Conns \ closed :
               /\ mgr[s] # None /\ slot[mgr[s]][UserOf[s]] = s /\ DOMAIN cs = {1, 2}
               /\ cs[1].kind = "left" /\ cs[1].who = s /\ cs[2].kind = "remove" /\ cs[2].who = s
    <2>1. CASE cs = <<>>
      BY <2>1, EmptySeq
    <2>2. CASE \E x \in Calls : x.kind \notin parting /\ cs = <<x>>
      BY <2>2, OneCall
    <2>3. ASSUME NEW s \in Conns \ closed, mgr[s] # None, slot[mgr[s]][UserOf[s]] = s, cs = SignoutChat(s)
          PROVE  <1>5
      <3>1. /\ DOMAIN cs = {1, 2}
            /\ cs[1] = Call("rlock", s, "left", {}) /\ cs[2] = Call("lock", s, "remove", {})
        BY <2>3, SignoutCalls
      <3> QED BY <2>3, <3>1 DEF Call
    <2> QED BY <2>1, <2>2, <2>3 DEF begins
  <1>6. ASSUME NEW x \in Threads, NEW i \in DOMAIN calls'[x], calls'[x][i].kind = "left"
        PROVE  i + 1 \in DOMAIN calls'[x] /\ removes(calls'[x][i + 1], calls'[x][i].who)
    <2>1. CASE x # t
      BY <1>1, <1>6, <2>1 DEF SignoutInv, removes
    <2>2. CASE x = t
      BY <1>1, <1>5, <1>6, <2>2 DEF removes, parting
    <2> QED BY <2>1, <2>2
  <1>7. ASSUME NEW x \in Threads, NEW i \in DOMAIN calls'[x], NEW s, removes(calls'[x][i], s)
        PROVE  s \in Conns /\ mgr[s] # None /\ slot'[mgr[s]][UserOf[s]] = s
    <2>1. s \in Conns /\ mgr[s] # None /\ slot[mgr[s]][UserOf[s]] = s
      <3>1. CASE x # t
        BY <1>1, <1>7, <3>1 DEF SignoutInv, removes
      <3>2. CASE x = t
        BY <1>1, <1>5, <1>7, <3>2 DEF removes, parting
      <3> QED BY <3>1, <3>2
    <2> QED BY <2>1, <1>4
  <1>8. ASSUME NEW x \in Threads, NEW y \in Threads, NEW i \in DOMAIN calls'[x],
               NEW j \in DOMAIN calls'[y], NEW s, removes(calls'[x][i], s), removes(calls'[y][j], s)
        PROVE  y = x /\ j = i
    <2>1. CASE x # t /\ y # t
      <3>1. calls'[x] = calls[x] /\ calls'[y] = calls[y]
        BY <1>1, <2>1
      <3> QED BY <1>8, <3>1 DEF SignoutInv, removes
    <2>2. CASE x = t /\ y = t
      BY <1>1, <1>5, <1>8, <2>2 DEF removes, parting
    <2>3. CASE x = t /\ y # t
      BY <1>1, <1>3, <1>5, <1>8, <2>3 DEF removes, parting
    <2>4. CASE x # t /\ y = t
      BY <1>1, <1>3, <1>5, <1>8, <2>4 DEF removes, parting
    <2> QED BY <2>1, <2>2, <2>3, <2>4
  <1> SUFFICES ASSUME NEW x \in Threads, NEW i \in DOMAIN calls'[x]
               PROVE  LET s == calls'[x][i].who
                      IN  /\ calls'[x][i].kind = "left" =>
                               /\ i + 1 \in DOMAIN calls'[x]
                               /\ calls'[x][i + 1].kind = "remove" /\ calls'[x][i + 1].who = s
                          /\ calls'[x][i].kind = "remove" =>
                               /\ s \in Conns /\ mgr'[s] # None /\ slot'[mgr'[s]][UserOf[s]] = s
                               /\ \A y \in Threads : \A j \in DOMAIN calls'[y] :
                                      calls'[y][j].kind = "remove" /\ calls'[y][j].who = s => y = x /\ j = i
    BY DEF SignoutInv
  <1> QED BY <1>6, <1>7, <1>8 DEF removes

-----------------------------------------------------------------------------
(***************************************************************************)
(* Steps of a call.                                                        *)
(***************************************************************************)
\* What a step of a call that relayed to the living has told them, or has still to tell.
tells(t, new) ==
    \A c, d \in Conns : Settled /\ live(c) /\ live(d) /\ c \notin closed' /\ d \notin closed' =>
        /\ UserOf[d] \in roster[c] => UserOf[d] \in roster'[c]
        /\ t = c /\ UserOf[d] \in users[c] /\ announces(Top(t), c, "users", c)
             => UserOf[d] \in roster'[c] \/ \E k \in DOMAIN new : announces(new[k], c, "users", c)
        /\ t = d /\ UserOf[c] # UserOf[d] /\ announces(Top(t), d, "joined", c)
             => UserOf[d] \in roster'[c] \/ \E k \in DOMAIN new : announces(new[k], d, "joined", c)

LEMMA KnownRestacked ==
  ASSUME IInv, KInv, NEW t \in Threads, NEW new, restacks(t, new), tells(t, new),
         pc' = pc, users' = users, signon' = signon, closed \subseteq closed', Settled' => Settled
  PROVE  KnownInv'
  <1>1. /\ Len(new) \in Nat /\ DOMAIN new = 1..Len(new)
        /\ Len(calls[t]) \in Nat \ {0} /\ DOMAIN calls[t] = 1..Len(calls[t])
        /\ DOMAIN calls'[t] = 1..(Len(new) + Len(calls[t]) - 1)
        /\ \A i \in 1..Len(new) : calls'[t][i] = new[i]
        /\ \A i \in 2..Len(calls[t]) : calls'[t][Len(new) + i - 1] = calls[t][i]
        /\ \A x \in Threads : x # t => calls'[x] = calls[x]
    BY StackedAt
  <1>2. \A k \in DOMAIN new : k \in DOMAIN calls'[t] /\ calls'[t][k] = new[k]
    BY <1>1
  <1>3. ASSUME NEW i \in DOMAIN calls[t], i # 1
        PROVE  \E k \in DOMAIN calls'[t] : calls'[t][k] = calls[t][i]
    <2>1. i \in 2..Len(calls[t]) /\ Len(new) + i - 1 \in DOMAIN calls'[t]
      BY <1>1, <1>3
    <2> QED BY <1>1, <2>1
  <1> SUFFICES ASSUME Settled', NEW c \in Conns, NEW d \in Conns, live(c)', live(d)'
               PROVE  \/ pc'[c] = "roster" \/ UserOf[d] \in roster'[c]
                      \/ awaitsList(c, d)' \/ awaitsArrival(c, d)'
    BY DEF KnownInv
  <1>4. Settled /\ live(c) /\ live(d) /\ c \notin closed' /\ d \notin closed'
    BY DEF live
  <1>5. c \in Threads /\ d \in Threads
    BY DEF Threads
  <1>6. CASE pc[c] = "roster"
    BY <1>6
  <1>7. CASE UserOf[d] \in roster[c]
    BY <1>4, <1>7 DEF tells
  <1>8. CASE awaitsList(c, d)
    <2>1. PICK i \in DOMAIN calls[c] : announces(calls[c][i], c, "users", c)
      BY <1>8 DEF awaitsList
    <2>2. ASSUME NEW k \in DOMAIN calls'[c], announces(calls'[c][k], c, "users", c)
          PROVE  awaitsList(c, d)'
      BY <1>8, <2>2 DEF awaitsList, announces
    <2>3. CASE c # t
      BY <1>1, <1>5, <2>1, <2>2, <2>3
    <2>4. CASE c = t /\ i = 1
      BY <1>2, <1>4, <1>8, <2>1, <2>2, <2>4 DEF tells, awaitsList, Top
    <2>5. CASE c = t /\ i # 1
      BY <1>3, <2>1, <2>2, <2>5
    <2> QED BY <2>3, <2>4, <2>5
  <1>9. CASE awaitsArrival(c, d)
    <2>1. UserOf[c] # UserOf[d]
      BY <1>9 DEF awaitsArrival
    <2>2. CASE pc[d] \in {"roster", "self"}
      BY <2>1, <2>2 DEF awaitsArrival
    <2>3. CASE \E i \in DOMAIN calls[d] : announces(calls[d][i], d, "joined", c)
      <3>1. PICK i \in DOMAIN calls[d] : announces(calls[d][i], d, "joined", c)
        BY <2>3
      <3>2. ASSUME NEW k \in DOMAIN calls'[d], announces(calls'[d][k], d, "joined", c)
            PROVE  awaitsArrival(c, d)'
        BY <2>1, <3>2 DEF awaitsArrival, announces
      <3>3. CASE d # t
        BY <1>1, <1>5, <3>1, <3>2, <3>3
      <3>4. CASE d = t /\ i = 1
        BY <1>2, <1>4, <2>1, <3>1, <3>2, <3>4 DEF tells, Top
      <3>5. CASE d = t /\ i # 1
        BY <1>3, <3>1, <3>2, <3>5
      <3> QED BY <3>3, <3>4, <3>5
    <2> QED BY <1>9, <2>2, <2>3 DEF awaitsArrival
  <1> QED BY <1>4, <1>6, <1>7, <1>8, <1>9 DEF KInv, KnownInv

\* A connection that has just joined restores its room's manager, and does nothing else.
LEMMA AtJoined ==
  ASSUME KInv, NEW t \in Conns, pc[t] = "joined", ~Idle(t)
  PROVE  Top(t).kind = "restore" /\ Top(t).op \in {"lock", "write"} /\ Len(calls[t]) = 1
  BY DEF KInv, JoinInv, restoring, Top

LEMMA JoinRestacked ==
  ASSUME IInv, KInv, NEW t \in Threads, NEW new, restacks(t, new),
         UNCHANGED <<pc, cookie, signon>>, closed \subseteq closed',
         \A c \in Conns : mgr'[c] = mgr[c] \/ (pc[c] = "lock" /\ Idle(c)'),
         t \in Conns /\ pc[t] = "joined" => new = <<>> \/ restoring(new)
  PROVE  JoinInv'
  <1>1. /\ \A x \in Threads : x # t => calls'[x] = calls[x]
        /\ calls'[t] \in Seq(Calls) /\ new \in Seq(Calls)
        /\ Len(calls[t]) = 1 => Len(calls'[t]) = Len(new) /\ (new # <<>> => calls'[t][1] = new[1])
    BY Restacked DEF restacks
  <1>2. ~Idle(t)
    BY DEF restacks
  <1> SUFFICES ASSUME NEW c \in Conns
               PROVE  /\ pc[c] = "start" \/ (pc[c] = "lock" /\ ~Idle(c)') => mgr'[c] = None
                      /\ c \in signon => pc[c] \notin Joining \cup {"joined"}
                                          /\ (pc[c] = "gone" => c \in closed')
                      /\ pc[c] = "joined" \/ c \in signon => c \in cookie
                      /\ pc[c] = "joined" /\ ~Idle(c)' => restoring(calls'[c])
    BY DEF JoinInv
  <1>3. c \in Threads
    BY DEF Threads
  <1>4. pc[c] = "start" \/ (pc[c] = "lock" /\ ~Idle(c)') => mgr'[c] = None
    <2>1. ~Idle(c)' => ~Idle(c)
      BY <1>1, <1>2, <1>3 DEF Idle
    <2> QED BY <2>1 DEF KInv, JoinInv
  <1>5. pc[c] = "joined" /\ ~Idle(c)' => restoring(calls'[c])
    <2>1. CASE c # t
      BY <1>1, <1>3, <2>1 DEF KInv, JoinInv, Idle
    <2>2. CASE c = t
      <3> SUFFICES ASSUME pc[t] = "joined", calls'[t] # <<>> PROVE restoring(calls'[t])
        BY <2>2 DEF Idle
      <3>1. Len(calls[t]) = 1
        BY <1>2, <2>2, AtJoined
      <3>2. new # <<>>
        <4>1. Len(calls'[t]) = Len(new)
          BY <1>1, <3>1
        <4> QED BY <1>1, <4>1, EmptySeq
      <3>3. restoring(new)
        BY <2>2, <3>2
      <3> QED BY <1>1, <3>1, <3>2, <3>3 DEF restoring
    <2> QED BY <2>1, <2>2
  <1> QED BY <1>4, <1>5 DEF KInv, JoinInv

\* A step of a call that leaves the registry as it is.
LEMMA CallKeeps ==
  ASSUME IInv, KInv, NEW t \in Threads, NEW new, restacks(t, new), signs(t, new), tells(t, new),
         UNCHANGED <<pc, rooms, slot, mgr, cookie, signon, users>>, closed \subseteq closed',
         roster' = [c \in Conns |-> roster'[c]],
         t \in Conns /\ pc[t] = "joined" => new # <<>> /\ restoring(new)
  PROVE  KInv'
  <1>1. ManagerInv' /\ OwnerInv'
    BY DEF KInv, ManagerInv, OwnerInv
  <1>2. JoinInv'
    BY JoinRestacked
  <1>3. SignoutInv'
    <2>1. \A x \in Threads : \A i \in DOMAIN calls[x] : \A s :
             removes(calls[x][i], s) /\ (x # t \/ i > 1) => slot'[mgr[s]][UserOf[s]] = s
      BY DEF KInv, SignoutInv, removes
    <2>2. SignoutInv /\ (new # <<>> => slot' = slot) /\ \A s \in Conns : mgr[s] # None => mgr'[s] = mgr[s]
      BY DEF KInv
    <2> QED BY <2>1, <2>2, SignoutRestacked
  <1>4. RestoredInv'
    <2>1. \A c \in Conns : pc[c] = "joined" /\ Idle(c)' => Idle(c)
      <3> SUFFICES ASSUME NEW c \in Conns, pc[c] = "joined", calls'[c] = <<>>, c = t
                   PROVE  FALSE
        <4>1. \A x \in Threads : x # t => calls'[x] = calls[x]
          BY Restacked
        <4> QED BY <4>1 DEF Idle, Threads
      <3>1. new # <<>> /\ new \in Seq(Calls) /\ Len(calls[t]) = 1
        BY AtJoined DEF restacks
      <3>2. Len(calls'[t]) = Len(new)
        BY <3>1, Restacked
      <3> QED BY <3>1, <3>2, EmptySeq
    <2>2. Settled' <=> Settled
      BY DEF Settled
    <2> QED BY <2>1, <2>2 DEF KInv, RestoredInv, live
  <1>5. KnownInv'
    <2>1. Settled' => Settled
      BY DEF Settled
    <2> QED BY <2>1, KnownRestacked
  <1>6. Lists'
    BY DEF KInv, Lists
  <1> QED BY <1>1, <1>2, <1>3, <1>4, <1>5, <1>6 DEF KInv

\* What a step replaces that announces nothing.
LEMMA TellsNothing ==
  ASSUME NEW t \in Threads, NEW new, roster' = roster,
         Top(t).op # "rlock", Top(t).op # "relay" \/ Top(t).to = {}
  PROVE  tells(t, new)
  BY DEF tells, announces

LEMMA RLockKeeps ==
  ASSUME IInv, KInv, NEW t \in Threads, RLock(t)
  PROVE  KInv'
  <1> DEFINE to == Recipients(Top(t).who, Top(t).kind)
             x == Call("relay", Top(t).who, Top(t).kind, to)
  <1>1. /\ ~Idle(t) /\ Top(t).op = "rlock"
        /\ UNCHANGED <<pc, rooms, slot, mgr, cookie, signon, users, closed, roster>>
        /\ calls' = [calls EXCEPT ![t] = <<x>> \o Tail(@)]
    BY DEF RLock, Become, roomVars, joinVars
  <1>2. /\ Top(t) \in Calls /\ (Top(t).kind = "enter" => pc[t] = "lock")
        /\ (Top(t).kind \in {"left", "remove"} => Top(t).who \in closed)
    BY <1>1, TopIsCall
  <1>3. to \subseteq Conns
    BY DEF Recipients, AllSessions
  <1>4. /\ x \in Calls /\ x.op = "relay" /\ x.kind = Top(t).kind /\ x.who = Top(t).who
        /\ x.to = to
    BY <1>2, <1>3 DEF Call, Calls
  <1>5. restacks(t, <<x>>)
    <2> HIDE DEF x
    <2> QED BY <1>1, <1>2, <1>4, OneCall DEF restacks, fits
  <1>6. signs(t, <<x>>)
    <2> HIDE DEF x
    <2> QED BY <1>4 DEF signs
  <1>7. tells(t, <<x>>)
    <2> SUFFICES ASSUME NEW c \in Conns, NEW d \in Conns, Settled, live(c), live(d)
                 PROVE  /\ t = c /\ announces(Top(t), c, "users", c) => announces(x, c, "users", c)
                        /\ t = d /\ UserOf[c] # UserOf[d] /\ announces(Top(t), d, "joined", c)
                             => announces(x, d, "joined", c)
      <3> HIDE DEF x
      <3> QED BY <1>1, <1>4, OneCall DEF tells
    <2>1. /\ mgr[c] \in Conns /\ mgr[d] \in Conns /\ mgr[c] # None /\ mgr[d] # None
          /\ slot[mgr[c]][UserOf[c]] = c /\ c \in cookie /\ d \in cookie
      BY LiveInSlot
    <2>2. mgr[c] = mgr[d] /\ rooms[RoomOf[c]] = mgr[c] /\ rooms[RoomOf[d]] = mgr[d]
      BY <2>1 DEF Settled, KInv, RestoredInv
    <2>3. c \in AllSessions(RoomOf[c]) /\ c \in AllSessions(RoomOf[d])
      BY <2>1, <2>2 DEF AllSessions
    <2>4. Top(t).kind = "users" /\ Top(t).who = c => c \in to
      BY <2>1, <2>3 DEF Recipients
    <2>5. Top(t).kind = "joined" /\ Top(t).who = d /\ UserOf[c] # UserOf[d] => c \in to
      BY <2>1, <2>3 DEF Recipients
    <2> HIDE DEF x, to
    <2> QED BY <1>4, <2>4, <2>5 DEF announces
  <1>8. ~(t \in Conns /\ pc[t] = "joined")
    BY <1>1, AtJoined
  <1>9. roster' = [c \in Conns |-> roster'[c]]
    BY <1>1 DEF KInv, Lists
  <1> HIDE DEF x
  <1> QED BY <1>1, <1>5, <1>6, <1>7, <1>8, <1>9, CallKeeps

LEMMA RelayKeeps ==
  ASSUME IInv, KInv, NEW t \in Threads, maybeRelayMessage(t)
  PROVE  KInv'
  <1>1. /\ ~Idle(t) /\ Top(t).op = "relay"
        /\ UNCHANGED <<pc, rooms, slot, mgr, cookie, signon, users>>
    BY DEF maybeRelayMessage, mutexVars, roomVars, joinVars
  <1>2. /\ Top(t) \in Calls /\ (Top(t).kind = "enter" => pc[t] = "lock") /\ 1 \in DOMAIN calls[t]
        /\ (Top(t).kind \in {"left", "remove"} => Top(t).who \in closed)
    BY <1>1, TopIsCall
  <1>3. PICK r \in Top(t).to :
          LET x == Call("relay", Top(t).who, Top(t).kind, Top(t).to \ {r})
          IN  \/ /\ calls' = [calls EXCEPT ![t] = <<x>> \o Tail(@)] /\ closed' = closed
                 /\ roster' = IF live(r) THEN [roster EXCEPT ![r] = Told(r, Top(t).who, Top(t).kind)]
                              ELSE roster
              \/ /\ live(r) /\ r \in FullQueues /\ closed' = closed \cup {r} /\ roster' = roster
                 /\ calls' = [calls EXCEPT ![t] = Append(SignoutChat(r), x) \o Tail(@)]
    BY DEF maybeRelayMessage, Become
  <1> DEFINE x == Call("relay", Top(t).who, Top(t).kind, Top(t).to \ {r})
  <1>4. /\ r \in Conns /\ x \in Calls /\ x.op = "relay" /\ x.kind = Top(t).kind /\ x.who = Top(t).who
        /\ x.to = Top(t).to \ {r}
    BY <1>2 DEF Call, Calls
  <1>5. ~(t \in Conns /\ pc[t] = "joined")
    BY <1>1, AtJoined
  <1>6. roster = [c \in Conns |-> roster[c]]
    BY DEF KInv, Lists
  <1>7. \A c \in Conns : c # r => \A s : announces(Top(t), s, "users", c) => announces(x, s, "users", c)
    <2> HIDE DEF x
    <2> QED BY <1>1, <1>4 DEF announces
  <1>8. \A c \in Conns : c # r => \A s : announces(Top(t), s, "joined", c) => announces(x, s, "joined", c)
    <2> HIDE DEF x
    <2> QED BY <1>1, <1>4 DEF announces
  <1>9. CASE /\ calls' = [calls EXCEPT ![t] = <<x>> \o Tail(@)] /\ closed' = closed
             /\ roster' = IF live(r) THEN [roster EXCEPT ![r] = Told(r, Top(t).who, Top(t).kind)]
                          ELSE roster
    <2>1. restacks(t, <<x>>)
      <3> HIDE DEF x
      <3> QED BY <1>1, <1>2, <1>4, <1>9, OneCall DEF restacks, fits
    <2>2. signs(t, <<x>>)
      <3> HIDE DEF x
      <3> QED BY <1>4 DEF signs
    <2>3. /\ \A c \in Conns : c # r => roster'[c] = roster[c]
          /\ live(r) => roster'[r] = Told(r, Top(t).who, Top(t).kind)
      BY <1>4, <1>6, <1>9
    <2>4. tells(t, <<x>>)
      <3> SUFFICES ASSUME NEW c \in Conns, NEW d \in Conns, Settled, live(c), live(d)
                   PROVE  /\ UserOf[d] \in roster[c] => UserOf[d] \in roster'[c]
                          /\ t = c /\ UserOf[d] \in users[c] /\ announces(Top(t), c, "users", c)
                               => UserOf[d] \in roster'[c] \/ announces(x, c, "users", c)
                          /\ t = d /\ UserOf[c] # UserOf[d] /\ announces(Top(t), d, "joined", c)
                               => UserOf[d] \in roster'[c] \/ announces(x, d, "joined", c)
        <4> HIDE DEF x
        <4> QED BY <1>4, OneCall DEF tells
      <3>1. CASE c # r
        BY <1>7, <1>8, <2>3, <3>1
      <3>2. CASE c = r
        <4>1. roster'[c] = Told(c, Top(t).who, Top(t).kind)
          BY <2>3, <3>2
        <4>2. announces(Top(t), c, "users", c) /\ UserOf[d] \in users[c] => UserOf[d] \in roster'[c]
          BY <4>1 DEF announces, Told
        <4>3. announces(Top(t), d, "joined", c) => UserOf[d] \in roster'[c]
          BY <4>1 DEF announces, Told
        <4>4. ASSUME UserOf[d] \in roster[c], UserOf[d] \notin roster'[c] PROVE FALSE
          <5> DEFINE s == Top(t).who
          <5>1. Top(t).kind = "left" /\ UserOf[s] = UserOf[d]
            BY <4>1, <4>4 DEF Told
          <5>2. s \in Conns /\ mgr[s] # None /\ slot[mgr[s]][UserOf[s]] = s /\ s \in closed
            BY <1>2, <5>1 DEF KInv, SignoutInv, Top
          <5>3. s = d
            BY <5>1, <5>2, OneLive
          <5> QED BY <5>2, <5>3 DEF live
        <4> QED BY <4>2, <4>3, <4>4
      <3> QED BY <3>1, <3>2
    <2>5. roster' = [c \in Conns |-> roster'[c]]
      BY <1>6, <1>9
    <2> HIDE DEF x
    <2> QED BY <1>1, <1>5, <1>9, <2>1, <2>2, <2>4, <2>5, CallKeeps
  <1>10. CASE /\ live(r) /\ r \in FullQueues /\ closed' = closed \cup {r} /\ roster' = roster
              /\ calls' = [calls EXCEPT ![t] = Append(SignoutChat(r), x) \o Tail(@)]
    <2> DEFINE q == Append(SignoutChat(r), x)
    <2>1. /\ q \in Seq(Calls) /\ DOMAIN q = {1, 2, 3} /\ q # <<>>
          /\ q[1] = Call("rlock", r, "left", {}) /\ q[2] = Call("lock", r, "remove", {}) /\ q[3] = x
      <3> HIDE DEF x
      <3> QED BY <1>4, SignoutThen
    <2>2. signs(t, q)
      <3>1. mgr[r] # None /\ slot[mgr[r]][UserOf[r]] = r /\ r \in Conns \ closed
        BY <1>4, <1>10, LiveInSlot DEF live
      <3> HIDE DEF x
      <3> QED BY <1>4, <3>1 DEF signs
    <2>3. tells(t, q)
      <3> HIDE DEF x, q
      <3> QED BY <1>7, <1>8, <1>10, <2>1 DEF tells
    <2>4. restacks(t, q)
      <3>1. FullQueues # {} /\ r \in closed'
        BY <1>10
      <3>2. /\ q[1].kind = "left" /\ q[1].who = r /\ q[2].kind = "remove" /\ q[2].who = r
            /\ q[3].kind = Top(t).kind /\ q[3].who = Top(t).who
        <4> HIDE DEF x, q
        <4> QED BY <2>1, <1>4 DEF Call
      <3> HIDE DEF x
      <3>3. fits(t, q)
        <4> HIDE DEF q
        <4> QED BY <1>2, <1>10, <2>1, <3>1, <3>2 DEF fits
      <3> QED BY <1>1, <1>10, <2>1, <3>3 DEF restacks
    <2> HIDE DEF x, q
    <2> QED BY <1>1, <1>5, <1>6, <1>10, <2>2, <2>3, <2>4, CallKeeps
  <1> QED BY <1>3, <1>9, <1>10

LEMMA RUnlockKeeps ==
  ASSUME IInv, KInv, NEW t \in Threads, RUnlock(t)
  PROVE  KInv'
  <1>1. /\ ~Idle(t) /\ Top(t).op = "relay" /\ Top(t).to = {} /\ Return(t)
        /\ UNCHANGED <<pc, rooms, slot, mgr, cookie, signon, users, closed, roster>>
    BY DEF RUnlock, roomVars, joinVars
  <1>2. restacks(t, <<>>) /\ signs(t, <<>>) /\ tells(t, <<>>)
    BY <1>1, Returns, TellsNothing DEF signs
  <1>3. ~(t \in Conns /\ pc[t] = "joined")
    BY <1>1, AtJoined
  <1>4. roster' = [c \in Conns |-> roster'[c]]
    BY <1>1 DEF KInv, Lists
  <1> QED BY <1>1, <1>2, <1>3, <1>4, CallKeeps

LEMMA LockKeeps ==
  ASSUME IInv, KInv, NEW t \in Threads, Lock(t)
  PROVE  KInv'
  <1> DEFINE x == Call("write", Top(t).who, Top(t).kind, {})
  <1>1. /\ ~Idle(t) /\ Top(t).op = "lock"
        /\ UNCHANGED <<pc, rooms, slot, mgr, cookie, signon, users, closed, roster>>
        /\ calls' = [calls EXCEPT ![t] = <<x>> \o Tail(@)]
    BY DEF Lock, Become, roomVars, joinVars
  <1>2. /\ Top(t) \in Calls /\ (Top(t).kind = "enter" => pc[t] = "lock")
        /\ (Top(t).kind \in {"left", "remove"} => Top(t).who \in closed)
    BY <1>1, TopIsCall
  <1>3. x \in Calls /\ x.op = "write" /\ x.kind = Top(t).kind /\ x.who = Top(t).who
    BY <1>2 DEF Call, Calls
  <1> HIDE DEF x
  <1>4. restacks(t, <<x>>) /\ signs(t, <<x>>) /\ tells(t, <<x>>)
    BY <1>1, <1>2, <1>3, OneCall, TellsNothing DEF restacks, fits, signs
  <1>5. t \in Conns /\ pc[t] = "joined" => <<x>> # <<>> /\ restoring(<<x>>)
    BY <1>1, <1>3, AtJoined, OneCall DEF restoring
  <1>6. roster' = [c \in Conns |-> roster'[c]]
    BY <1>1 DEF KInv, Lists
  <1> QED BY <1>1, <1>4, <1>5, <1>6, CallKeeps

LEMMA CopyKeeps ==
  ASSUME IInv, KInv, NEW t \in Threads, copyManagers(t)
  PROVE  KInv'
  <1> DEFINE x == Call("each", Top(t).who, "chats", {rooms[r] : r \in Rooms} \ {None})
  <1>1. /\ ~Idle(t) /\ Top(t).op = "copy"
        /\ UNCHANGED <<pc, rooms, slot, mgr, cookie, signon, users, closed, roster>>
        /\ calls' = [calls EXCEPT ![t] = <<x>> \o Tail(@)]
    BY DEF copyManagers, Become, mutexVars, roomVars, joinVars
  <1>2. Top(t) \in Calls
    BY <1>1, TopIsCall
  <1>3. {rooms[r] : r \in Rooms} \ {None} \subseteq Conns
    BY Typed DEF MaybeConn
  <1>4. x \in Calls /\ x.op = "each" /\ x.kind = "chats"
    BY <1>2, <1>3 DEF Call, Calls
  <1> HIDE DEF x
  <1>5. restacks(t, <<x>>) /\ signs(t, <<x>>) /\ tells(t, <<x>>)
    BY <1>1, <1>4, OneCall, TellsNothing DEF restacks, fits, signs, parting
  <1>6. ~(t \in Conns /\ pc[t] = "joined")
    BY <1>1, AtJoined
  <1>7. roster' = [c \in Conns |-> roster'[c]]
    BY <1>1 DEF KInv, Lists
  <1> QED BY <1>1, <1>5, <1>6, <1>7, CallKeeps

LEMMA CloseUserKeeps ==
  ASSUME IInv, KInv, NEW t \in Threads, closeUserSession(t)
  PROVE  KInv'
  <1>1. /\ ~Idle(t) /\ Top(t).op = "each"
        /\ UNCHANGED <<pc, rooms, slot, mgr, cookie, signon, users, roster>>
    BY DEF closeUserSession, mutexVars, roomVars, joinVars
  <1>2. PICK m \in Top(t).to :
          LET s == slot[m][Top(t).who]
              x == Call("each", Top(t).who, "chats", Top(t).to \ {m})
          IN  \/ /\ live(s) /\ closed' = closed \cup {s}
                 /\ calls' = [calls EXCEPT ![t] = Append(SignoutChat(s), x) \o Tail(@)]
              \/ calls' = [calls EXCEPT ![t] = <<x>> \o Tail(@)] /\ closed' = closed
    BY DEF closeUserSession, Become
  <1> DEFINE s == slot[m][Top(t).who]
             x == Call("each", Top(t).who, "chats", Top(t).to \ {m})
  <1>3. x \in Calls /\ x.op = "each" /\ x.kind = "chats"
    BY <1>1, TopIsCall DEF Call, Calls
  <1>4. live(s) => s \in Conns
    BY Typed DEF live
  <1>5. \A new : tells(t, new)
    BY <1>1, TellsNothing
  <1>6. ~(t \in Conns /\ pc[t] = "joined")
    BY <1>1, AtJoined
  <1>7. roster' = [c \in Conns |-> roster'[c]]
    BY <1>1 DEF KInv, Lists
  <1>8. CASE calls' = [calls EXCEPT ![t] = <<x>> \o Tail(@)] /\ closed' = closed
    <2> HIDE DEF x
    <2>1. restacks(t, <<x>>) /\ signs(t, <<x>>)
      BY <1>1, <1>3, <1>8, OneCall DEF restacks, fits, signs, parting
    <2> QED BY <1>1, <1>5, <1>6, <1>7, <1>8, <2>1, CallKeeps
  <1>9. CASE /\ live(s) /\ closed' = closed \cup {s}
             /\ calls' = [calls EXCEPT ![t] = Append(SignoutChat(s), x) \o Tail(@)]
    <2> DEFINE q == Append(SignoutChat(s), x)
    <2>1. mgr[s] # None /\ slot[mgr[s]][UserOf[s]] = s /\ s \in Conns \ closed
      BY <1>4, <1>9, LiveInSlot DEF live
    <2> HIDE DEF x, s
    <2>2. /\ q \in Seq(Calls) /\ DOMAIN q = {1, 2, 3} /\ q # <<>>
          /\ q[1] = Call("rlock", s, "left", {}) /\ q[2] = Call("lock", s, "remove", {}) /\ q[3] = x
      BY <1>3, <2>1, SignoutThen
    <2>3. signs(t, q)
      BY <1>3, <2>1 DEF signs, parting
    <2> HIDE DEF q
    <2>4. /\ q[1].kind = "left" /\ q[1].who = s /\ q[2].kind = "remove" /\ q[2].who = s
          /\ q[3].kind = "chats" /\ q[1].op = "rlock" /\ q[2].op = "lock" /\ q[3].op = "each"
      BY <2>2, <1>3 DEF Call
    <2>5. restacks(t, q)
      BY <1>1, <1>9, <2>2, <2>4 DEF restacks, fits, q
    <2> QED BY <1>1, <1>5, <1>6, <1>7, <1>9, <2>3, <2>5, CallKeeps
  <1> QED BY <1>2, <1>8, <1>9

LEMMA AllClosedKeeps ==
  ASSUME IInv, KInv, NEW t \in Threads, allClosed(t)
  PROVE  KInv'
  <1>1. /\ ~Idle(t) /\ Top(t).op = "each" /\ Return(t)
        /\ UNCHANGED <<pc, rooms, slot, mgr, cookie, signon, users, closed, roster>>
    BY DEF allClosed, mutexVars, roomVars, joinVars
  <1>2. restacks(t, <<>>) /\ signs(t, <<>>) /\ tells(t, <<>>)
    BY <1>1, Returns, TellsNothing DEF signs
  <1>3. ~(t \in Conns /\ pc[t] = "joined")
    BY <1>1, AtJoined
  <1>4. roster' = [c \in Conns |-> roster'[c]]
    BY <1>1 DEF KInv, Lists
  <1> QED BY <1>1, <1>2, <1>3, <1>4, CallKeeps

\* A critical section tells nobody anything.
LEMMA WriteKnown ==
  ASSUME IInv, KInv, NEW t \in Threads, NEW kind, Writes(t, kind),
         UNCHANGED <<users, signon>>, Settled' => Settled
  PROVE  KnownInv' /\ (users' = users => Lists')
  <1>1. ~Idle(t) /\ Top(t).op = "write" /\ restacks(t, <<>>) /\ UNCHANGED <<pc, closed>>
    BY WriteReturns
  <1>2. roster' = roster
    BY DEF Writes
  <1>3. tells(t, <<>>)
    BY <1>1, <1>2, TellsNothing
  <1> QED BY <1>1, <1>2, <1>3, KnownRestacked DEF KInv, Lists

LEMMA EnterRoomKeeps ==
  ASSUME IInv, KInv, NEW c \in Conns, enterRoom(c)
  PROVE  KInv'
  <1>1. c \in Threads /\ RoomOf[c] \in Rooms
    BY ConstantsAssumption DEF Threads
  <1>2. PICK m : /\ m = (IF rooms[RoomOf[c]] = None THEN c ELSE rooms[RoomOf[c]])
                 /\ rooms' = [rooms EXCEPT ![RoomOf[c]] = m] /\ mgr' = [mgr EXCEPT ![c] = m]
    BY DEF enterRoom
  <1>3. Writes(c, "enter") /\ UNCHANGED <<slot, cookie, signon, users>>
    BY DEF enterRoom
  <1>4. /\ restacks(c, <<>>) /\ UNCHANGED <<pc, closed>> /\ ~Idle(c) /\ Top(c).kind = "enter"
    BY <1>1, <1>3, WriteReturns
  <1>5. pc[c] = "lock" /\ Len(calls[c]) = 1 /\ mgr[c] = None
    BY <1>1, <1>4, TopIsCall, AtLock DEF KInv, JoinInv
  <1>6. m \in Conns /\ m # None /\ c # None
    BY <1>2, ConstantsAssumption DEF IInv, Shape, MaybeConn
  <1>7. /\ mgr'[c] = m /\ \A d \in Conns : d # c => mgr'[d] = mgr[d]
        /\ rooms'[RoomOf[c]] = m /\ \A r \in Rooms : r # RoomOf[c] => rooms'[r] = rooms[r]
        /\ mgr \in [Conns -> MaybeConn] /\ rooms \in [Rooms -> MaybeConn]
    BY <1>1, <1>2 DEF IInv, Shape
  <1>8. \A d \in Conns : mgr[d] # None => mgr'[d] = mgr[d]
    BY <1>5, <1>7
  <1>9. Settled' => Settled
    BY <1>8 DEF Settled
  <1>10. ManagerInv'
    <2>1. mgr'[m] = m /\ RoomOf[m] = RoomOf[c]
      <3>1. CASE rooms[RoomOf[c]] = None
        BY <1>2, <1>7, <3>1
      <3>2. CASE rooms[RoomOf[c]] # None
        BY <1>1, <1>2, <1>6, <1>8, <3>2 DEF KInv, ManagerInv
      <3> QED BY <3>1, <3>2
    <2>2. ASSUME NEW d \in Conns, mgr'[d] # None
          PROVE  mgr'[mgr'[d]] = mgr'[d] /\ RoomOf[mgr'[d]] = RoomOf[d]
      <3>1. CASE d = c
        BY <1>7, <2>1, <3>1
      <3>2. CASE d # c
        <4>1. mgr[d] # None /\ mgr'[d] = mgr[d] /\ mgr[d] \in Conns /\ mgr[mgr[d]] = mgr[d]
          BY <1>7, <2>2, <3>2 DEF KInv, ManagerInv, MaybeConn
        <4> QED BY <1>8, <4>1 DEF KInv, ManagerInv
      <3> QED BY <3>1, <3>2
    <2>3. ASSUME NEW r \in Rooms, rooms'[r] # None
          PROVE  mgr'[rooms'[r]] = rooms'[r] /\ RoomOf[rooms'[r]] = r
      <3>1. CASE r = RoomOf[c]
        BY <1>7, <2>1, <3>1
      <3>2. CASE r # RoomOf[c]
        <4>1. rooms'[r] = rooms[r] /\ rooms[r] \in Conns
          BY <1>7, <2>3, <3>2 DEF MaybeConn
        <4> QED BY <1>8, <2>3, <4>1 DEF KInv, ManagerInv
      <3> QED BY <3>1, <3>2
    <2> QED BY <2>2, <2>3 DEF ManagerInv
  <1>11. OwnerInv'
    <2> SUFFICES ASSUME NEW n \in Conns, NEW u \in Users, slot[n][u] # None
                 PROVE  mgr'[slot[n][u]] = n /\ UserOf[slot[n][u]] = u
      BY <1>3 DEF OwnerInv
    <2>1. slot[n][u] \in Conns /\ n # None
      BY Typed, ConstantsAssumption DEF MaybeConn
    <2> QED BY <1>8, <2>1 DEF KInv, OwnerInv
  <1>12. Idle(c)'
    <2>1. Len(calls'[c]) = Len(<<>>) /\ calls'[c] \in Seq(Calls)
      BY <1>1, <1>4, <1>5, Restacked
    <2> QED BY <2>1, EmptySeq DEF Idle
  <1>13. JoinInv'
    <2>1. ~(c \in Conns /\ pc[c] = "joined")
      BY <1>5
    <2>2. \A d \in Conns : mgr'[d] = mgr[d] \/ (pc[d] = "lock" /\ Idle(d)')
      BY <1>5, <1>7, <1>12
    <2> QED BY <1>1, <1>3, <1>4, <2>1, <2>2, JoinRestacked
  <1>14. SignoutInv'
    <2>1. \A x \in Threads : \A i \in DOMAIN calls[x] : \A s :
             removes(calls[x][i], s) /\ (x # c \/ i > 1) => slot'[mgr[s]][UserOf[s]] = s
      BY <1>3 DEF KInv, SignoutInv, removes
    <2>2. SignoutInv /\ slot' = slot /\ signs(c, <<>>)
      BY <1>3 DEF KInv, signs
    <2> QED BY <1>1, <1>4, <1>8, <2>1, <2>2, SignoutRestacked
  <1>15. RestoredInv'
    <2> SUFFICES ASSUME Settled', NEW d \in Conns,
                        live(d)' \/ (pc[d] = "joined" /\ Idle(d)' /\ d \notin closed)
                 PROVE  rooms'[RoomOf[d]] = mgr'[d]
      BY <1>4 DEF RestoredInv
    <2>1. d # c /\ d \in Threads
      BY <1>3, <1>4, <1>5, LiveInSlot DEF live, Joining, Threads, KInv, JoinInv
    <2>2. Idle(d)' <=> Idle(d)
      BY <1>1, <1>4, <2>1, Restacked DEF Idle
    <2>3. rooms[RoomOf[d]] = mgr[d]
      BY <1>3, <1>4, <1>9, <2>2 DEF KInv, RestoredInv, live
    <2>4. mgr[d] # None
      <3>1. pc[d] # "lock" /\ pc[d] # "start"
        BY <1>3, <1>4 DEF live, Joining, KInv, JoinInv
      <3> QED BY <3>1 DEF IInv, EnterInv
    <2>5. RoomOf[d] \in Rooms
      BY ConstantsAssumption
    <2>6. CASE RoomOf[d] = RoomOf[c]
      BY <1>2, <1>7, <2>1, <2>3, <2>4, <2>6
    <2>7. CASE RoomOf[d] # RoomOf[c]
      BY <1>7, <2>1, <2>3, <2>5, <2>7
    <2> QED BY <2>6, <2>7
  <1>16. KnownInv' /\ Lists'
    BY <1>1, <1>3, <1>9, WriteKnown
  <1> QED BY <1>10, <1>11, <1>13, <1>14, <1>15, <1>16 DEF KInv

LEMMA RestoreRoomKeeps ==
  ASSUME IInv, KInv, NEW c \in Conns, restoreRoom(c)
  PROVE  KInv'
  <1> DEFINE r == RoomOf[c]
  <1>1. c \in Threads /\ r \in Rooms
    BY ConstantsAssumption DEF Threads
  <1>2. /\ Writes(c, "restore") /\ UNCHANGED <<slot, mgr, cookie, signon, users>>
        /\ rooms' = IF rooms[r] = None THEN [rooms EXCEPT ![r] = mgr[c]] ELSE rooms
    BY DEF restoreRoom, joinVars
  <1>3. /\ restacks(c, <<>>) /\ UNCHANGED <<pc, closed>> /\ pc[c] # "lock"
    BY <1>1, <1>2, WriteReturns
  <1>4. mgr[c] # None /\ mgr[c] \in Conns
    <2>1. pc[c] # "start"
      <3>1. 1 \in DOMAIN calls[c]
        BY <1>1, <1>3, TopIsCall DEF restacks
      <3> QED BY <1>1, <3>1 DEF IInv, CallsInv
    <2> QED BY <1>3, <2>1 DEF IInv, EnterInv, Shape, MaybeConn
  <1> HIDE DEF r
  <1>5. /\ rooms'[r] = (IF rooms[r] = None THEN mgr[c] ELSE rooms[r])
        /\ \A q \in Rooms : q # r => rooms'[q] = rooms[q]
    BY <1>1, <1>2, Typed
  <1>6. RoomOf[c] = r
    BY DEF r
  <1>7. ManagerInv'
    BY <1>2, <1>4, <1>5, <1>6 DEF KInv, ManagerInv
  <1>8. OwnerInv'
    BY <1>2 DEF KInv, OwnerInv
  <1>9. JoinInv'
    BY <1>1, <1>2, <1>3, JoinRestacked
  <1>10. SignoutInv'
    <2>1. \A x \in Threads : \A i \in DOMAIN calls[x] : \A s :
             removes(calls[x][i], s) /\ (x # c \/ i > 1) => slot'[mgr[s]][UserOf[s]] = s
      BY <1>2 DEF KInv, SignoutInv, removes
    <2>2. SignoutInv /\ slot' = slot /\ signs(c, <<>>) /\ \A s \in Conns : mgr[s] # None => mgr'[s] = mgr[s]
      BY <1>2 DEF KInv, signs
    <2> QED BY <1>1, <1>3, <2>1, <2>2, SignoutRestacked
  <1>11. Settled' <=> Settled
    BY <1>2 DEF Settled
  <1>12. RestoredInv'
    <2> SUFFICES ASSUME Settled, NEW d \in Conns,
                        live(d) \/ (pc[d] = "joined" /\ Idle(d)' /\ d \notin closed)
                 PROVE  rooms'[RoomOf[d]] = mgr[d]
      BY <1>2, <1>3, <1>11 DEF RestoredInv, live
    <2>1. RoomOf[d] \in Rooms /\ d \in Threads
      BY ConstantsAssumption DEF Threads
    <2>2. mgr[d] # None
      <3>1. pc[d] # "lock" /\ pc[d] # "start"
        BY DEF live, Joining, KInv, JoinInv
      <3> QED BY <3>1 DEF IInv, EnterInv
    <2>3. CASE d = c
      <3>1. CASE rooms[r] = None
        BY <1>5, <1>6, <2>3, <3>1
      <3>2. CASE rooms[r] # None
        <4>1. mgr[rooms[r]] = rooms[r] /\ rooms[r] \in Conns
          BY <1>1, <3>2, Typed DEF KInv, ManagerInv, MaybeConn
        <4> QED BY <1>4, <1>5, <1>6, <2>3, <3>2, <4>1 DEF Settled
      <3> QED BY <3>1, <3>2
    <2>4. CASE d # c
      <3>1. Idle(d)' <=> Idle(d)
        BY <1>1, <1>3, <2>1, <2>4, Restacked DEF Idle
      <3>2. rooms[RoomOf[d]] = mgr[d]
        BY <3>1 DEF KInv, RestoredInv
      <3> QED BY <1>5, <2>1, <2>2, <3>2
    <2> QED BY <2>3, <2>4
  <1>13. KnownInv' /\ Lists'
    BY <1>1, <1>2, <1>11, WriteKnown
  <1> QED BY <1>7, <1>8, <1>9, <1>10, <1>12, <1>13 DEF KInv

\* Only the removed session leaves its slot, and a room with anybody in it stays.
LEMMA RemoveKeeps ==
  ASSUME IInv, KInv, NEW t \in Threads, RemoveSession(t)
  PROVE  KInv'
  <1> DEFINE s == Top(t).who
             u == UserOf[s]
             r == RoomOf[s]
             m == rooms[r]
  <1>1. /\ Writes(t, "remove") /\ UNCHANGED <<mgr, cookie, signon, users>>
        /\ \/ UNCHANGED <<rooms, slot>>
           \/ /\ m # None
              /\ slot' = IF slot[m][u] = s THEN [slot EXCEPT ![m][u] = None] ELSE slot
              /\ rooms' = IF \A v \in Users : slot'[m][v] = None
                            THEN [rooms EXCEPT ![r] = None] ELSE rooms
    BY DEF RemoveSession, joinVars
  <1>2. /\ restacks(t, <<>>) /\ UNCHANGED <<pc, closed>> /\ ~Idle(t) /\ Top(t).kind = "remove"
    BY <1>1, WriteReturns
  <1>3. s \in closed /\ s \in Conns /\ 1 \in DOMAIN calls[t] /\ removes(calls[t][1], s)
    BY <1>2, TopIsCall, Typed DEF removes, Top
  <1>4. u \in Users /\ r \in Rooms
    BY <1>3, ConstantsAssumption
  <1> HIDE DEF s, u, r, m
  <1>5. \A n \in Conns : \A v \in Users :
            slot'[n][v] = slot[n][v] \/ (slot[n][v] = s /\ slot'[n][v] = None)
    <2>1. m = None \/ m \in Conns
      BY <1>4, Typed DEF m, MaybeConn
    <2> QED BY <1>1, <1>4, <2>1, Typed
  <1>6. \A q \in Rooms :
            \/ rooms'[q] = rooms[q]
            \/ q = r /\ m # None /\ rooms'[q] = None /\ \A v \in Users : slot'[m][v] = None
    BY <1>1, <1>4, Typed
  <1>7. ManagerInv'
    BY <1>1, <1>6 DEF KInv, ManagerInv
  <1>8. OwnerInv'
    BY <1>1, <1>5 DEF KInv, OwnerInv
  <1>9. JoinInv'
    <2>1. ~(t \in Conns /\ pc[t] = "joined")
      BY <1>2, AtJoined
    <2> QED BY <1>1, <1>2, <2>1, JoinRestacked
  <1>10. SignoutInv'
    <2>1. ASSUME NEW x \in Threads, NEW i \in DOMAIN calls[x], NEW d, removes(calls[x][i], d), x # t \/ i > 1
          PROVE  slot'[mgr[d]][UserOf[d]] = d
      <3>1. d \in Conns /\ mgr[d] # None /\ slot[mgr[d]][UserOf[d]] = d
        BY <2>1 DEF KInv, SignoutInv, removes
      <3>2. d # s
        <4> SUFFICES ASSUME d = s PROVE x = t /\ i = 1
          BY <2>1
        <4> QED BY <1>3, <2>1 DEF KInv, SignoutInv, removes
      <3>3. mgr[d] \in Conns /\ UserOf[d] \in Users
        BY <3>1, ConstantsAssumption DEF IInv, Shape, MaybeConn
      <3> QED BY <1>5, <3>1, <3>2, <3>3
    <2>2. SignoutInv /\ signs(t, <<>>) /\ \A d \in Conns : mgr[d] # None => mgr'[d] = mgr[d]
      BY <1>1 DEF KInv, signs
    <2> QED BY <1>2, <2>1, <2>2, SignoutRestacked
  <1>11. Settled' <=> Settled
    BY <1>1 DEF Settled
  <1>12. RestoredInv'
    <2> SUFFICES ASSUME Settled, NEW d \in Conns,
                        live(d) \/ (pc[d] = "joined" /\ Idle(d)' /\ d \notin closed)
                 PROVE  rooms'[RoomOf[d]] = mgr[d]
      BY <1>1, <1>2, <1>11 DEF RestoredInv, live
    <2>1. RoomOf[d] \in Rooms /\ d \in Threads /\ UserOf[d] \in Users
      BY ConstantsAssumption DEF Threads
    <2>2. d # s /\ d \notin closed
      BY <1>3 DEF live
    <2>3. pc[d] = "joined" /\ Idle(d)' => Idle(d)
      <3>1. CASE d # t
        BY <1>2, <2>1, <3>1, Restacked DEF Idle
      <3>2. CASE d = t
        BY <1>2, <3>2, AtJoined
      <3> QED BY <3>1, <3>2
    <2>4. rooms[RoomOf[d]] = mgr[d]
      BY <2>3 DEF KInv, RestoredInv
    <2>5. mgr[d] # None /\ mgr[d] \in Conns /\ slot[mgr[d]][UserOf[d]] = d
      <3>1. CASE live(d)
        BY <3>1, LiveInSlot
      <3>2. CASE pc[d] = "joined"
        BY <2>2, <3>2 DEF IInv, SlotInv, InSlot, EnterInv, Shape, MaybeConn
      <3> QED BY <3>1, <3>2
    <2>6. slot'[mgr[d]][UserOf[d]] # None
      BY <1>5, <2>1, <2>2, <2>5, ConstantsAssumption
    <2> QED BY <1>6, <2>1, <2>4, <2>6 DEF m
  <1>13. KnownInv' /\ Lists'
    BY <1>1, <1>11, WriteKnown
  <1> QED BY <1>7, <1>8, <1>9, <1>10, <1>12, <1>13 DEF KInv

-----------------------------------------------------------------------------
(***************************************************************************)
(* Moves.                                                                  *)
(***************************************************************************)
\* The threads' places and stacks after a move.
LEMMA Moved ==
  ASSUME IInv, NEW t \in Threads, NEW from, NEW to, Goto(t, from, to),
         NEW cs, calls' = [calls EXCEPT ![t] = cs]
  PROVE  /\ pc[t] = from /\ Idle(t) /\ pc'[t] = to /\ calls'[t] = cs /\ DOMAIN calls[t] = {}
         /\ \A x \in Threads : x # t => pc'[x] = pc[x] /\ calls'[x] = calls[x]
  BY EmptySeq DEF Goto, IInv, Shape, Idle

\* What a move must keep to of the way a connection joins.
joins(c, to, cs) ==
    /\ to = "start" \/ (to = "lock" /\ cs # <<>>) => mgr[c] = None
    /\ c \in signon' => to \notin Joining \cup {"joined"} /\ (to = "gone" => c \in closed')
    /\ to = "joined" \/ c \in signon' => c \in cookie'
    /\ to = "joined" => cs # <<>> /\ restoring(cs)

LEMMA MoveKeeps ==
  ASSUME IInv, KInv, NEW t \in Threads, NEW from, NEW to, Goto(t, from, to),
         NEW cs, begins(cs), calls' = [calls EXCEPT ![t] = cs],
         UNCHANGED <<rooms, mgr>>, closed \subseteq closed', cookie \subseteq cookie',
         t \in Conns => joins(t, to, cs),
         signon' = signon \/ (signon' = signon \cup {t} /\ from = "joined"),
         \A m \in Conns, u \in Users : slot[m][u] # None => slot'[m][u] = slot[m][u],
         OwnerInv', KnownInv', Lists'
  PROVE  KInv'
  <1>1. /\ pc[t] = from /\ Idle(t) /\ pc'[t] = to /\ calls'[t] = cs /\ DOMAIN calls[t] = {}
        /\ \A x \in Threads : x # t => pc'[x] = pc[x] /\ calls'[x] = calls[x]
    BY Moved
  <1>2. ManagerInv'
    BY DEF KInv, ManagerInv
  <1>3. JoinInv'
    <2> SUFFICES ASSUME NEW c \in Conns
                 PROVE  /\ pc'[c] = "start" \/ (pc'[c] = "lock" /\ ~Idle(c)') => mgr[c] = None
                        /\ c \in signon' => pc'[c] \notin Joining \cup {"joined"}
                                            /\ (pc'[c] = "gone" => c \in closed')
                        /\ pc'[c] = "joined" \/ c \in signon' => c \in cookie'
                        /\ pc'[c] = "joined" /\ ~Idle(c)' => restoring(calls'[c])
      BY DEF JoinInv
    <2>1. CASE c = t
      BY <1>1, <2>1 DEF joins, Idle
    <2>2. CASE c # t
      BY <1>1, <2>2 DEF KInv, JoinInv, Idle, Threads
    <2> QED BY <2>1, <2>2
  <1>4. SignoutInv'
    <2>1. SignoutInv /\ mgr' = mgr
      BY DEF KInv
    <2> QED BY <1>1, <2>1, SignoutMoved
  <1>5. RestoredInv'
    <2> SUFFICES ASSUME Settled', NEW c \in Conns,
                        live(c)' \/ (pc'[c] = "joined" /\ Idle(c)' /\ c \notin closed')
                 PROVE  rooms[RoomOf[c]] = mgr[c]
      BY DEF RestoredInv
    <2>1. Settled /\ c \in Threads
      BY DEF Settled, Threads
    <2>2. live(c) \/ (pc[c] = "joined" /\ Idle(c) /\ c \notin closed)
      <3>1. CASE c = t
        BY <1>1, <3>1 DEF joins, live, Idle
      <3>2. CASE c # t
        BY <1>1, <2>1, <3>2 DEF live, Idle
      <3> QED BY <3>1, <3>2
    <2> QED BY <2>1, <2>2 DEF KInv, RestoredInv
  <1> QED BY <1>2, <1>3, <1>4, <1>5 DEF KInv

\* A move outside sign-on, of a thread that has nothing left to tell.
LEMMA MoveKnown ==
  ASSUME IInv, KInv, NEW t \in Threads, NEW from, NEW to, Goto(t, from, to), from \notin {"roster", "self"},
         NEW cs, calls' = [calls EXCEPT ![t] = cs],
         UNCHANGED <<mgr, signon, users, roster>>, closed \subseteq closed'
  PROVE  KnownInv' /\ Lists'
  <1>1. /\ pc[t] = from /\ Idle(t) /\ pc'[t] = to /\ calls'[t] = cs /\ DOMAIN calls[t] = {}
        /\ \A x \in Threads : x # t => pc'[x] = pc[x] /\ calls'[x] = calls[x]
    BY Moved
  <1>2. Lists'
    BY DEF KInv, Lists
  <1> SUFFICES ASSUME Settled', NEW c \in Conns, NEW d \in Conns, live(c)', live(d)'
               PROVE  \/ pc'[c] = "roster" \/ UserOf[d] \in roster'[c]
                      \/ awaitsList(c, d)' \/ awaitsArrival(c, d)'
    BY <1>2 DEF KnownInv
  <1>3. Settled /\ live(c) /\ live(d) /\ c \in Threads /\ d \in Threads
    BY DEF Settled, live, Threads
  <1>4. pc[c] = "roster" \/ UserOf[d] \in roster[c] \/ awaitsList(c, d) \/ awaitsArrival(c, d)
    BY <1>3 DEF KInv, KnownInv
  <1>5. CASE pc[c] = "roster"
    BY <1>1, <1>3, <1>5
  <1>6. CASE awaitsList(c, d)
    <2>1. c # t
      BY <1>1, <1>6 DEF awaitsList
    <2> QED BY <1>1, <1>3, <1>6, <2>1 DEF awaitsList, announces
  <1>7. CASE awaitsArrival(c, d)
    <2>1. d # t
      BY <1>1, <1>7 DEF awaitsArrival
    <2> QED BY <1>1, <1>3, <1>7, <2>1 DEF awaitsArrival, announces
  <1> QED BY <1>4, <1>5, <1>6, <1>7

\* A move that leaves the slots alone.
LEMMA PlainMoveKeeps ==
  ASSUME IInv, KInv, NEW t \in Threads, NEW from, NEW to, Goto(t, from, to), from \notin {"roster", "self"},
         NEW cs, begins(cs), calls' = [calls EXCEPT ![t] = cs],
         UNCHANGED <<rooms, slot, mgr, signon, users, roster>>,
         closed \subseteq closed', cookie \subseteq cookie',
         t \in Conns => joins(t, to, cs)
  PROVE  KInv'
  <1>1. KnownInv' /\ Lists'
    BY MoveKnown
  <1>2. OwnerInv'
    BY DEF KInv, OwnerInv
  <1> QED BY <1>1, <1>2, MoveKeeps

\* A thread inside no call that makes none.
LEMMA NoCalls ==
  ASSUME IInv, NEW t \in Threads, Idle(t), calls' = calls
  PROVE  begins(<<>>) /\ calls' = [calls EXCEPT ![t] = <<>>]
  BY DEF begins, Idle, IInv, Shape

\* One call that signs nobody out.
LEMMA OneBegins ==
  ASSUME NEW who \in Conns \cup Users, NEW op \in {"rlock", "lock", "copy"},
         NEW kind \in {"enter", "restore", "users", "joined", "message", "chats"}
  PROVE  LET x == Call(op, who, kind, {})
         IN  /\ begins(<<x>>) /\ x.op = op /\ x.kind = kind /\ x.who = who /\ x \in Calls
  <1> DEFINE x == Call(op, who, kind, {})
  <1>1. x \in Calls /\ x.op = op /\ x.kind = kind /\ x.who = who
    BY DEF Call, Calls
  <1> HIDE DEF x
  <1>2. begins(<<x>>)
    BY <1>1 DEF begins, parting
  <1> QED BY <1>1, <1>2 DEF x

\* Before it signs on a connection is in none of the later places.
LEMMA NotSignedOn ==
  ASSUME KInv, NEW c \in Conns, pc[c] \in Joining \cup {"joined"}
  PROVE  c \notin signon
  BY DEF KInv, JoinInv

LEMMA AddSessionKeeps ==
  ASSUME IInv, KInv, NEW c \in Conns, AddSession(c)
  PROVE  KInv'
  <1> DEFINE cs == <<Call("lock", c, "enter", {})>>
  <1>1. /\ Goto(c, "start", "lock") /\ calls' = [calls EXCEPT ![c] = cs] /\ c \in Threads /\ pc[c] = "start"
        /\ UNCHANGED <<rooms, slot, mgr, cookie, signon, users, closed, roster>>
    BY DEF AddSession, Invoke, Goto, roomVars, joinVars, Threads
  <1>2. begins(cs)
    BY OneBegins
  <1>3. joins(c, "lock", cs)
    <2>1. mgr[c] = None /\ c \notin signon
      BY <1>1, NotSignedOn DEF KInv, JoinInv, Joining
    <2> QED BY <1>1, <2>1 DEF joins
  <1> HIDE DEF cs
  <1> QED BY <1>1, <1>2, <1>3, PlainMoveKeeps

LEMMA LockUserKeeps ==
  ASSUME IInv, KInv, NEW c \in Conns, lockUser(c) \/ waitTimeout(c) \/ waitRemoved(c)
  PROVE  KInv'
  <1>1. /\ c \in Threads /\ Idle(c) /\ calls' = calls
        /\ UNCHANGED <<rooms, slot, mgr, cookie, signon, users, closed, roster>>
    BY DEF lockUser, waitTimeout, waitRemoved, Goto, roomVars, joinVars, Threads
  <1>2. PICK from \in {"lock", "wait"}, to \in {"find", "gone", "build"} : Goto(c, from, to)
    BY DEF lockUser, waitTimeout, waitRemoved
  <1>3. c \notin signon
    BY <1>2, NotSignedOn DEF Goto, Joining
  <1>4. joins(c, to, <<>>) /\ from \notin {"roster", "self"}
    BY <1>1, <1>2, <1>3 DEF joins
  <1>5. begins(<<>>) /\ calls' = [calls EXCEPT ![c] = <<>>]
    BY <1>1, NoCalls
  <1> QED BY <1>1, <1>2, <1>4, <1>5, PlainMoveKeeps

LEMMA EvictKeeps ==
  ASSUME IInv, KInv, NEW c \in Conns, evict(c)
  PROVE  KInv'
  <1> DEFINE a == slot[mgr[c]][UserOf[c]]
  <1>1. /\ Goto(c, "find", IF a = None THEN "build" ELSE "wait") /\ pc[c] = "find" /\ Idle(c)
        /\ UNCHANGED <<rooms, slot, mgr, cookie, signon, users, roster>>
        /\ \/ UNCHANGED <<closed, calls>>
           \/ /\ a # None /\ a \notin closed /\ closed' = closed \cup {a}
              /\ calls' = [calls EXCEPT ![c] = SignoutChat(a)]
    BY DEF evict, Goto, Invoke, roomVars, joinVars
  <1>2. mgr[c] \in Conns /\ UserOf[c] \in Users /\ c \in Threads
    BY <1>1, Entered
  <1>3. a # None => a \in Conns /\ mgr[a] = mgr[c] /\ UserOf[a] = UserOf[c]
    BY <1>2, Typed DEF MaybeConn, KInv, OwnerInv
  <1>4. mgr[c] # None
    BY <1>2, ConstantsAssumption
  <1>5. PICK to \in {"build", "wait"} : Goto(c, "find", to)
    BY <1>1
  <1>6. \A cs : joins(c, to, cs)
    <2>1. c \notin signon
      BY <1>1, NotSignedOn DEF Joining
    <2> QED BY <1>1, <2>1 DEF joins
  <1>7. CASE UNCHANGED <<closed, calls>>
    <2>1. begins(<<>>) /\ calls' = [calls EXCEPT ![c] = <<>>]
      BY <1>1, <1>2, <1>7, NoCalls
    <2> QED BY <1>1, <1>2, <1>5, <1>6, <1>7, <2>1, PlainMoveKeeps
  <1>8. CASE /\ a # None /\ a \notin closed /\ closed' = closed \cup {a}
             /\ calls' = [calls EXCEPT ![c] = SignoutChat(a)]
    <2>1. begins(SignoutChat(a))
      BY <1>3, <1>4, <1>8 DEF begins
    <2> HIDE DEF a
    <2> QED BY <1>1, <1>2, <1>5, <1>6, <1>8, <2>1, PlainMoveKeeps
  <1> QED BY <1>1, <1>7, <1>8

LEMMA NewSessionKeeps ==
  ASSUME IInv, KInv, NEW c \in Conns, newSession(c)
  PROVE  KInv'
  <1>1. /\ Goto(c, "build", "cookie") /\ pc[c] = "build" /\ Idle(c)
        /\ slot' = [slot EXCEPT ![mgr[c]][UserOf[c]] = c]
        /\ UNCHANGED <<calls, rooms, mgr, cookie, signon, users, closed, roster>>
    BY DEF newSession, Goto
  <1>2. mgr[c] \in Conns /\ UserOf[c] \in Users /\ c \in Threads
    BY <1>1, Entered
  <1>3. slot[mgr[c]][UserOf[c]] = None
    BY <1>1 DEF IInv, SlotInv
  <1>4. \A m \in Conns : \A u \in Users :
            slot'[m][u] = IF m = mgr[c] /\ u = UserOf[c] THEN c ELSE slot[m][u]
    BY <1>1, <1>2, Typed DEF MaybeConn
  <1>5. OwnerInv'
    BY <1>1, <1>4 DEF KInv, OwnerInv
  <1>6. \A m \in Conns, u \in Users : slot[m][u] # None => slot'[m][u] = slot[m][u]
    BY <1>3, <1>4
  <1>7. joins(c, "cookie", <<>>)
    <2>1. c \notin signon
      BY <1>1, NotSignedOn DEF Joining
    <2> QED BY <1>1, <2>1 DEF joins
  <1>8. begins(<<>>) /\ calls' = [calls EXCEPT ![c] = <<>>]
    BY <1>1, <1>2, NoCalls
  <1>9. KnownInv' /\ Lists'
    BY <1>1, <1>2, <1>8, MoveKnown
  <1> QED BY <1>1, <1>2, <1>5, <1>6, <1>7, <1>8, <1>9, MoveKeeps

LEMMA SetCookieKeeps ==
  ASSUME IInv, KInv, NEW c \in Conns, SetChatRoomCookie(c)
  PROVE  KInv'
  <1> DEFINE x == Call("lock", c, "restore", {})
  <1>1. /\ Goto(c, "cookie", "joined") /\ pc[c] = "cookie" /\ cookie' = cookie \cup {c}
        /\ calls' = [calls EXCEPT ![c] = <<x>>] /\ c \in Threads
        /\ UNCHANGED <<rooms, slot, mgr, signon, users, closed, roster>>
    BY DEF SetChatRoomCookie, Invoke, Goto, roomVars, Threads
  <1>2. begins(<<x>>) /\ x.op = "lock" /\ x.kind = "restore" /\ x \in Calls
    <2>1. x \in Calls /\ x.op = "lock" /\ x.kind = "restore"
      BY DEF Call, Calls
    <2> QED BY <2>1, OneBegins
  <1> HIDE DEF x
  <1>3. joins(c, "joined", <<x>>)
    <2>1. c \notin signon
      BY <1>1, NotSignedOn DEF Joining
    <2> QED BY <1>1, <1>2, <2>1, OneCall DEF joins, restoring
  <1> QED BY <1>1, <1>2, <1>3, PlainMoveKeeps

LEMMA LeavingKeeps ==
  ASSUME IInv, KInv, NEW c \in Conns, ChannelMsgToHost(c) \/ disconnect(c) \/ CloseInstance(c)
  PROVE  KInv'
  <1>1. /\ c \in Threads /\ Idle(c)
        /\ UNCHANGED <<rooms, slot, mgr, cookie, signon, users, roster>>
    BY DEF ChannelMsgToHost, disconnect, CloseInstance, Goto, roomVars, joinVars, Threads
  <1>2. c \in signon => c \in cookie
    BY DEF KInv, JoinInv
  <1>3. CASE ChannelMsgToHost(c)
    <2> DEFINE x == Call("rlock", c, "message", {})
    <2>1. Goto(c, "online", "online") /\ calls' = [calls EXCEPT ![c] = <<x>>] /\ closed' = closed
      BY <1>3 DEF ChannelMsgToHost, Invoke
    <2>2. begins(<<x>>)
      BY OneBegins
    <2> HIDE DEF x
    <2>3. joins(c, "online", <<x>>)
      BY <1>1, <1>2 DEF joins, Joining
    <2> QED BY <1>1, <2>1, <2>2, <2>3, PlainMoveKeeps
  <1>4. CASE disconnect(c)
    <2>1. PICK from \in {"joined", "online"} : Goto(c, from, "leave")
      BY <1>4 DEF disconnect
    <2>2. UNCHANGED <<calls, closed>> /\ from \notin {"roster", "self"}
      BY <1>4, <2>1 DEF disconnect
    <2>3. begins(<<>>) /\ calls' = [calls EXCEPT ![c] = <<>>]
      BY <1>1, <2>2, NoCalls
    <2>4. joins(c, "leave", <<>>)
      BY <1>1, <1>2 DEF joins, Joining
    <2> QED BY <1>1, <2>1, <2>2, <2>3, <2>4, PlainMoveKeeps
  <1>5. CASE CloseInstance(c)
    <2>1. /\ Goto(c, "leave", "gone") /\ pc[c] = "leave"
          /\ \/ UNCHANGED <<closed, calls>> /\ c \in closed
             \/ /\ c \notin closed /\ closed' = closed \cup {c}
                /\ calls' = [calls EXCEPT ![c] = SignoutChat(c)]
      BY <1>5 DEF CloseInstance, Invoke, Goto
    <2>2. mgr[c] # None /\ (c \notin closed => slot[mgr[c]][UserOf[c]] = c)
      BY <2>1 DEF IInv, EnterInv, SlotInv, InSlot
    <2>3. \A cs : joins(c, "gone", cs)
      BY <1>1, <1>2, <2>1 DEF joins, Joining
    <2>4. CASE UNCHANGED <<closed, calls>> /\ c \in closed
      <3>1. begins(<<>>) /\ calls' = [calls EXCEPT ![c] = <<>>]
        BY <1>1, <2>4, NoCalls
      <3> QED BY <1>1, <2>1, <2>3, <2>4, <3>1, PlainMoveKeeps
    <2>5. CASE /\ c \notin closed /\ closed' = closed \cup {c}
               /\ calls' = [calls EXCEPT ![c] = SignoutChat(c)]
      <3>1. begins(SignoutChat(c))
        BY <2>2, <2>5 DEF begins
      <3> QED BY <1>1, <2>1, <2>3, <2>5, <3>1, PlainMoveKeeps
    <2> QED BY <2>1, <2>4, <2>5
  <1> QED BY <1>3, <1>4, <1>5

LEMMA TeardownKeeps ==
  ASSUME IInv, KInv, NEW k \in Teardowns, RemoveUserFromAllChats(k)
  PROVE  KInv'
  <1> DEFINE cs == <<Call("copy", UserOf[k], "chats", {})>>
  <1>1. k \in Threads /\ k \notin Conns /\ UserOf[k] \in Users
    BY ConstantsAssumption DEF Threads
  <1>2. pc[k] = "start" /\ pc' = [pc EXCEPT ![k] = "gone"] /\ calls' = [calls EXCEPT ![k] = cs]
        /\ UNCHANGED <<rooms, mgr, slot, cookie, signon, users, closed, roster>>
    BY DEF RemoveUserFromAllChats, roomVars, joinVars
  <1>3. Idle(k)
    <2>1. calls[k] \in Seq(Calls)
      BY <1>1 DEF IInv, Shape
    <2>2. calls[k] # <<>> => 1 \in DOMAIN calls[k]
      BY <2>1, EmptySeq, LenProperties
    <2> QED BY <1>1, <1>2, <2>2 DEF Idle, IInv, CallsInv
  <1>4. Goto(k, "start", "gone")
    BY <1>2, <1>3 DEF Goto
  <1>5. begins(cs)
    BY <1>1, OneBegins
  <1> HIDE DEF cs
  <1> QED BY <1>1, <1>2, <1>4, <1>5, PlainMoveKeeps

\* Signing on: the session is live before it reads the list, and announces itself after.
LEMMA ClientOnlineKeeps ==
  ASSUME IInv, KInv, NEW c \in Conns, ClientOnline(c)
  PROVE  KInv'
  <1>1. /\ c \in Threads /\ Idle(c) /\ DOMAIN calls[c] = {}
        /\ UNCHANGED <<rooms, slot, mgr, cookie, closed, roster>>
    BY EmptySeq DEF ClientOnline, Goto, roomVars, joinVars, Threads, Idle
  <1>2. OwnerInv'
    BY <1>1 DEF KInv, OwnerInv
  <1>3. Settled' <=> Settled
    BY <1>1 DEF Settled
  <1>4. users = [x \in Conns |-> users[x]] /\ roster = [x \in Conns |-> roster[x]]
    BY DEF KInv, Lists
  <1>5. \A to \in {"roster", "self", "alert", "online"} : \A cs :
            (c \in signon' => c \in cookie) => joins(c, to, cs)
    BY <1>1 DEF joins, Joining
  <1>6. pc[c] = "joined" \/ c \in signon => c \in cookie
    BY DEF KInv, JoinInv
  <1>7. CASE Goto(c, "joined", "roster") /\ signon' = signon \cup {c} /\ UNCHANGED <<calls, users>>
    <2>1. begins(<<>>) /\ calls' = [calls EXCEPT ![c] = <<>>]
      BY <1>1, <1>7, NoCalls
    <2>2. /\ pc[c] = "joined" /\ pc'[c] = "roster"
          /\ \A x \in Threads : x # c => pc'[x] = pc[x] /\ calls'[x] = calls[x]
      BY <1>1, <1>7, <2>1, Moved
    <2>3. KnownInv'
      <3> SUFFICES ASSUME Settled, NEW e \in Conns, NEW d \in Conns, live(e)', live(d)'
                   PROVE  \/ pc'[e] = "roster" \/ UserOf[d] \in roster[e]
                          \/ awaitsList(e, d)' \/ awaitsArrival(e, d)'
        BY <1>1, <1>3 DEF KnownInv
      <3>1. CASE e = c
        BY <2>2, <3>1
      <3>2. CASE e # c /\ d = c
        <4>1. live(e) /\ c \notin closed
          BY <1>1, <1>7, <3>2 DEF live
        <4>2. mgr[c] # None /\ slot[mgr[c]][UserOf[c]] = c
          BY <2>2, <4>1 DEF IInv, SlotInv, InSlot, EnterInv
        <4>3. UserOf[e] # UserOf[c]
          BY <3>2, <4>1, <4>2, OneLive
        <4> QED BY <2>2, <3>2, <4>3 DEF awaitsArrival
      <3>3. CASE e # c /\ d # c
        <4>1. live(e) /\ live(d) /\ e \in Threads /\ d \in Threads
          BY <1>1, <1>7, <3>3 DEF live, Threads
        <4>2. pc[e] = "roster" \/ UserOf[d] \in roster[e] \/ awaitsList(e, d) \/ awaitsArrival(e, d)
          BY <4>1 DEF KInv, KnownInv
        <4>3. awaitsList(e, d) => awaitsList(e, d)'
          BY <1>7 DEF awaitsList, announces
        <4>4. awaitsArrival(e, d) => awaitsArrival(e, d)'
          BY <1>7, <2>2, <3>3, <4>1 DEF awaitsArrival, announces
        <4> QED BY <2>2, <3>3, <4>1, <4>2, <4>3, <4>4
      <3> QED BY <3>1, <3>2, <3>3
    <2>4. joins(c, "roster", <<>>)
      BY <1>5, <1>6, <2>2
    <2>5. Lists'
      BY <1>1, <1>7 DEF KInv, Lists
    <2> QED BY <1>1, <1>2, <1>7, <2>1, <2>3, <2>4, <2>5, MoveKeeps
  <1>8. CASE /\ Goto(c, "roster", "self") /\ signon' = signon
             /\ users' = [users EXCEPT ![c] = {UserOf[d] : d \in AllSessions(RoomOf[c])}]
             /\ calls' = [calls EXCEPT ![c] = <<Call("rlock", c, "users", {})>>]
    <2> DEFINE x == Call("rlock", c, "users", {})
    <2>1. begins(<<x>>) /\ x.op = "rlock" /\ x.kind = "users" /\ x.who = c /\ x \in Calls
      <3>1. c \in Conns \cup Users
        OBVIOUS
      <3> QED BY <3>1, OneBegins
    <2>2. calls' = [calls EXCEPT ![c] = <<x>>]
      BY <1>8
    <2> HIDE DEF x
    <2>3. /\ pc'[c] = "self" /\ calls'[c] = <<x>>
          /\ \A y \in Threads : y # c => pc'[y] = pc[y] /\ calls'[y] = calls[y]
      BY <1>1, <1>8, <2>2, Moved
    <2>4. /\ users'[c] = {UserOf[d] : d \in AllSessions(RoomOf[c])}
          /\ \A y \in Conns : y # c => users'[y] = users[y]
          /\ users' = [y \in Conns |-> users'[y]]
      BY <1>4, <1>8
    <2>5. KnownInv'
      <3> SUFFICES ASSUME Settled, NEW e \in Conns, NEW d \in Conns, live(e), live(d)
                   PROVE  \/ pc'[e] = "roster" \/ UserOf[d] \in roster[e]
                          \/ awaitsList(e, d)' \/ awaitsArrival(e, d)'
        BY <1>1, <1>3, <1>8 DEF KnownInv, live
      <3>1. CASE e = c
        <4>1. /\ mgr[c] # None /\ mgr[d] # None /\ mgr[c] = mgr[d]
              /\ slot[mgr[d]][UserOf[d]] = d
          BY <3>1, LiveInSlot DEF Settled
        <4>2. rooms[RoomOf[c]] = mgr[c]
          BY <3>1 DEF KInv, RestoredInv
        <4>3. UserOf[d] \in users'[c]
          BY <2>4, <4>1, <4>2 DEF AllSessions
        <4>4. 1 \in DOMAIN calls'[c] /\ announces(calls'[c][1], c, "users", c)
          BY <2>1, <2>3, OneCall DEF announces
        <4>5. awaitsList(c, d)'
          BY <4>3, <4>4 DEF awaitsList, announces
        <4> QED BY <3>1, <4>5
      <3>2. CASE e # c
        <4>1. pc[e] = "roster" \/ UserOf[d] \in roster[e] \/ awaitsList(e, d) \/ awaitsArrival(e, d)
          BY DEF KInv, KnownInv
        <4>2. e \in Threads /\ d \in Threads
          BY DEF Threads
        <4>3. awaitsList(e, d) => awaitsList(e, d)'
          BY <2>3, <2>4, <3>2, <4>2 DEF awaitsList, announces
        <4>4. awaitsArrival(e, d) => awaitsArrival(e, d)'
          BY <2>3, <4>2 DEF awaitsArrival, announces
        <4> QED BY <2>3, <3>2, <4>1, <4>2, <4>3, <4>4
      <3> QED BY <3>1, <3>2
    <2>6. joins(c, "self", <<x>>)
      BY <1>5, <1>6, <1>8
    <2>7. Lists'
      BY <1>1, <1>4, <2>4 DEF Lists
    <2>8. slot' = slot /\ cookie \subseteq cookie'
      BY <1>1
    <2> QED BY <1>1, <1>2, <1>8, <2>1, <2>2, <2>5, <2>6, <2>7, <2>8, MoveKeeps
  <1>9. CASE /\ Goto(c, "self", "alert") /\ UNCHANGED <<signon, users>>
             /\ calls' = [calls EXCEPT ![c] = <<Call("rlock", c, "joined", {})>>]
    <2> DEFINE x == Call("rlock", c, "joined", {})
    <2>1. begins(<<x>>) /\ x.op = "rlock" /\ x.kind = "joined" /\ x.who = c /\ x \in Calls
      <3>1. c \in Conns \cup Users
        OBVIOUS
      <3> QED BY <3>1, OneBegins
    <2>2. calls' = [calls EXCEPT ![c] = <<x>>]
      BY <1>9
    <2> HIDE DEF x
    <2>3. /\ pc[c] = "self" /\ calls'[c] = <<x>>
          /\ \A y \in Threads : y # c => pc'[y] = pc[y] /\ calls'[y] = calls[y]
      BY <1>1, <1>9, <2>2, Moved
    <2>4. KnownInv'
      <3> SUFFICES ASSUME Settled, NEW e \in Conns, NEW d \in Conns, live(e), live(d)
                   PROVE  \/ pc'[e] = "roster" \/ UserOf[d] \in roster[e]
                          \/ awaitsList(e, d)' \/ awaitsArrival(e, d)'
        BY <1>1, <1>3, <1>9 DEF KnownInv, live
      <3>1. pc[e] = "roster" \/ UserOf[d] \in roster[e] \/ awaitsList(e, d) \/ awaitsArrival(e, d)
        BY DEF KInv, KnownInv
      <3>2. e \in Threads /\ d \in Threads
        BY DEF Threads
      <3>3. awaitsList(e, d) => awaitsList(e, d)'
        BY <1>1, <1>9, <2>3, <3>2 DEF awaitsList, announces
      <3>4. ASSUME awaitsArrival(e, d) PROVE awaitsArrival(e, d)'
        <4>1. CASE d = c
          <5>1. 1 \in DOMAIN calls'[c] /\ announces(calls'[c][1], c, "joined", e)
            BY <2>1, <2>3, OneCall DEF announces
          <5> QED BY <3>4, <4>1, <5>1 DEF awaitsArrival, announces
        <4>2. CASE d # c
          BY <2>3, <3>2, <3>4, <4>2 DEF awaitsArrival, announces
        <4> QED BY <4>1, <4>2
      <3>5. pc[e] = "roster" => pc'[e] = "roster"
        BY <2>3, <3>2
      <3> QED BY <3>1, <3>3, <3>4, <3>5
    <2>5. joins(c, "alert", <<x>>)
      BY <1>5, <1>6, <1>9
    <2>6. Lists'
      BY <1>1, <1>9 DEF KInv, Lists
    <2>7. slot' = slot /\ cookie \subseteq cookie'
      BY <1>1
    <2> QED BY <1>1, <1>2, <1>9, <2>1, <2>2, <2>4, <2>5, <2>6, <2>7, MoveKeeps
  <1>10. CASE Goto(c, "alert", "online") /\ UNCHANGED <<calls, signon, users>>
    <2>1. begins(<<>>) /\ calls' = [calls EXCEPT ![c] = <<>>]
      BY <1>1, <1>10, NoCalls
    <2>2. joins(c, "online", <<>>)
      BY <1>5, <1>6, <1>10
    <2> QED BY <1>1, <1>10, <2>1, <2>2, PlainMoveKeeps
  <1> QED BY <1>7, <1>8, <1>9, <1>10 DEF ClientOnline, Invoke, joinVars

LEMMA KInitHolds == Init => KInv
  <1> SUFFICES ASSUME Init PROVE KInv
    OBVIOUS
  <1>1. \A t \in Threads : DOMAIN calls[t] = {} /\ Idle(t)
    BY EmptySeq DEF Init, Idle
  <1>2. ManagerInv /\ OwnerInv /\ Lists
    BY DEF Init, ManagerInv, OwnerInv, Lists
  <1>3. JoinInv
    BY <1>1 DEF Init, JoinInv, Threads
  <1>4. SignoutInv
    BY <1>1 DEF SignoutInv
  <1>5. RestoredInv /\ KnownInv
    BY DEF Init, RestoredInv, KnownInv, live, Threads
  <1> QED BY <1>2, <1>3, <1>4, <1>5 DEF KInv

LEMMA KStepHolds == IInv /\ KInv /\ [Next]_vars => KInv'
  <1> SUFFICES ASSUME IInv, KInv, [Next]_vars PROVE KInv'
    OBVIOUS
  <1>1. ASSUME NEW t \in Threads, CallStep(t) PROVE KInv'
    BY <1>1, RLockKeeps, RelayKeeps, RUnlockKeeps, LockKeeps, RemoveKeeps, EnterRoomKeeps,
       RestoreRoomKeeps, CopyKeeps, CloseUserKeeps, AllClosedKeeps DEF CallStep
  <1>2. ASSUME NEW c \in Conns, Connection(c) PROVE KInv'
    BY <1>2, AddSessionKeeps, LockUserKeeps, EvictKeeps, NewSessionKeeps, SetCookieKeeps,
       ClientOnlineKeeps, LeavingKeeps DEF Connection
  <1>3. CASE UNCHANGED vars
    <2>1. UNCHANGED <<pc, calls, rooms, slot, mgr, cookie, signon, closed, users, roster>>
      BY <1>3 DEF vars
    <2>2. ManagerInv' /\ OwnerInv' /\ Lists' /\ (Settled' <=> Settled)
      BY <2>1 DEF KInv, ManagerInv, OwnerInv, Lists, Settled
    <2>3. JoinInv' /\ SignoutInv'
      BY <2>1 DEF KInv, JoinInv, SignoutInv, Idle
    <2>4. RestoredInv'
      BY <2>1, <2>2 DEF KInv, RestoredInv, live, Idle
    <2>5. KnownInv'
      BY <2>1, <2>2 DEF KInv, KnownInv, live, awaitsList, awaitsArrival, announces
    <2> QED BY <2>2, <2>3, <2>4, <2>5 DEF KInv
  <1> QED BY <1>1, <1>2, <1>3, TeardownKeeps DEF Next, Stopped

\* The invariant of who knows whom.
THEOREM KInductive == Spec => []KInv
  <1>1. Init => KInv
    BY KInitHolds
  <1>2. IInv /\ KInv /\ [Next]_vars => KInv'
    BY KStepHolds
  <1> QED BY <1>1, <1>2, Inductive, PTL DEF Spec

-----------------------------------------------------------------------------
(***************************************************************************)
(* The properties.                                                         *)
(***************************************************************************)
\* A user has one open session per room and manager, however joins, evictions, timeouts,
\* relays that close full queues and teardowns interleave: the per-user lock is held from
\* the search to the publication, and a slot is freed only of a closed session.
THEOREM OneOpenSession == Spec => []OneSessionPerUser
  <1>1. IInv => OneSessionPerUser
    BY DEF IInv, SlotInv, InSlot, OneSessionPerUser
  <1> QED BY <1>1, Inductive, PTL

\* As long as no queue is full, nobody asks for mapMutex while holding it.
THEOREM LockTakenOnce ==
  ASSUME FullQueues = {}
  PROVE  Spec => []LockNotReentered
  <1>1. IInv => LockNotReentered
    BY DEF IInv, ReadInv, relaying, LockNotReentered
  <1> QED BY <1>1, Inductive, PTL

\* Two participants who have finished joining, and stayed, know of each other, in whatever
\* order their sign-ons, the relays of earlier departures and the evictions of earlier sessions
\* went: of two live sessions the one that reads the list later finds the other on it, or is
\* still to be told of the other's arrival; and the departure of a user's earlier session is
\* relayed while that session still holds the slot that the new one has to wait for.
THEOREM EverybodyKnown == Spec => []ParticipantsSeeEachOther
  <1>1. IInv /\ KInv => ParticipantsSeeEachOther
    <2> SUFFICES ASSUME IInv, KInv, NEW c \in Conns, NEW d \in Conns,
                        {pc[c], pc[d]} = {"online"}, Idle(c), Idle(d),
                        {c, d} \subseteq AllSessions(RoomOf[c]),
                        \A x \in Conns : mgr[x] \in {None, mgr[c]}
                 PROVE  UserOf[d] \in roster[c]
      BY DEF ParticipantsSeeEachOther
    <2>1. pc[c] = "online" /\ pc[d] = "online" /\ live(c) /\ live(d)
      BY DEF AllSessions
    <2>2. Settled
      BY DEF Settled
    <2>3. pc[c] = "roster" \/ UserOf[d] \in roster[c] \/ awaitsList(c, d) \/ awaitsArrival(c, d)
      BY <2>1, <2>2 DEF KInv, KnownInv
    <2>4. DOMAIN calls[c] = {} /\ DOMAIN calls[d] = {}
      BY EmptySeq DEF Idle
    <2> QED BY <2>1, <2>3, <2>4 DEF awaitsList, awaitsArrival
  <1> QED BY <1>1, Inductive, KInductive, PTL
==============================================================================
