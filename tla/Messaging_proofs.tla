--------------------------- MODULE Messaging_proofs ---------------------------
(***************************************************************************)
(* Proofs about Messaging, for every number of messages, senders and        *)
(* instances, every queue and inbox limit and every number of retrievals.   *)
(***************************************************************************)
EXTENDS Messaging, SequenceTheorems, TLAPS

(***************************************************************************)
(* The inductive invariant.                                                *)
(***************************************************************************)
Places == {"start", "choose", "lookup", "relay", "store"} \cup Outcomes

Shape ==
    /\ conn \in [Instances -> {"off", "live", "closed"}]
    /\ got \in [Instances -> Seq(Msgs)]
    /\ inbox \in Seq(Msgs)
    /\ pc \in [Msgs -> Places]
    /\ mode \in [Msgs -> {"none", "all", "active"}]
    /\ todo \in [Msgs -> SUBSET Instances]
    /\ online \in [Msgs -> SUBSET Instances]
    /\ job \in [Instances -> Seq(Msgs)]
    /\ stage \in [Instances -> {"idle", "relay", "delete"}]

\* A message is relayed or stored, never both, and is nowhere before.
ModeInv ==
    \A m \in Msgs :
        /\ pc[m] \in {"start", "choose", "store", "saved", "refused"} => mode[m] = "none"
        /\ pc[m] \in {"lookup", "relay", "acked"} => mode[m] # "none"
        /\ pc[m] # "relay" => todo[m] = {}

WhereInv ==
    \A m \in Msgs :
        /\ m \in ToSet(inbox) => pc[m] = "saved"
        /\ \A i \in Instances :
               /\ m \in ToSet(job[i]) => pc[m] = "saved"
               /\ m \in ToSet(got[i]) => pc[m] \in {"relay", "acked", "saved"}
               /\ i \in todo[m] => m \notin ToSet(got[i])

\* What an instance still relays to itself, or can still read, it has not got.
OnceInv ==
    /\ IsInjective(inbox)
    /\ \A i \in Instances :
           /\ IsInjective(got[i]) /\ IsInjective(job[i])
           /\ stage[i] # "relay" => job[i] = <<>>
           /\ ToSet(job[i]) \cap ToSet(got[i]) = {}
           /\ stage[i] = "idle" => ToSet(inbox) \cap ToSet(got[i]) = {}

\* A sender's next message waits for the outcome of the one before.
TurnInv ==
    \A m, n \in Msgs : n < m /\ From[n] = From[m] /\ pc[m] # "start" => pc[n] \in Outcomes

OnlineInv ==
    \A m \in Msgs :
        /\ online[m] \subseteq live
        /\ pc[m] \in {"relay", "acked"} /\ mode[m] = "all" =>
               \A i \in online[m] : i \in todo[m] \/ m \in ToSet(got[i])

IInv == Shape /\ ModeInv /\ WhereInv /\ OnceInv /\ TurnInv /\ RelayedInOrder /\ OnlineInv

-----------------------------------------------------------------------------
(***************************************************************************)
(* Lemmas about queues.                                                    *)
(***************************************************************************)
LEMMA InQueue ==
  ASSUME NEW q \in Seq(Msgs), NEW m
  PROVE  m \in ToSet(q) <=> \E x \in 1..Len(q) : q[x] = m
  BY LenProperties DEF ToSet

LEMMA Queued ==
  ASSUME NEW q \in Seq(Msgs), NEW m \in Msgs
  PROVE  /\ Append(q, m) \in Seq(Msgs)
         /\ ToSet(Append(q, m)) = ToSet(q) \cup {m}
         /\ IsInjective(q) /\ m \notin ToSet(q) => IsInjective(Append(q, m))
  <1>1. /\ Append(q, m) \in Seq(Msgs) /\ Len(Append(q, m)) = Len(q) + 1 /\ Len(q) \in Nat
        /\ \A x \in 1..Len(q) : Append(q, m)[x] = q[x]
        /\ Append(q, m)[Len(q) + 1] = m
    BY AppendProperties, LenProperties
  <1>2. ToSet(Append(q, m)) \subseteq ToSet(q) \cup {m}
    <2> SUFFICES ASSUME NEW e \in ToSet(Append(q, m)) PROVE e \in ToSet(q) \cup {m}
      OBVIOUS
    <2>1. PICK x \in 1..(Len(q) + 1) : Append(q, m)[x] = e
      BY <1>1, InQueue
    <2>2. x \in 1..Len(q) \/ x = Len(q) + 1
      BY <1>1
    <2> QED BY <2>1, <2>2, <1>1, InQueue
  <1>3. ToSet(q) \cup {m} \subseteq ToSet(Append(q, m))
    <2>1. m \in ToSet(Append(q, m))
      <3>1. Len(q) + 1 \in 1..Len(Append(q, m))
        BY <1>1
      <3> QED BY <3>1, <1>1, InQueue
    <2>2. ASSUME NEW e \in ToSet(q) PROVE e \in ToSet(Append(q, m))
      <3>1. PICK x \in 1..Len(q) : q[x] = e
        BY InQueue
      <3>2. x \in 1..(Len(q) + 1) /\ Append(q, m)[x] = e
        BY <3>1, <1>1
      <3> QED BY <3>2, <1>1, InQueue
    <2> QED BY <2>1, <2>2
  <1>4. ASSUME IsInjective(q), m \notin ToSet(q) PROVE IsInjective(Append(q, m))
    <2>1. DOMAIN Append(q, m) = 1..(Len(q) + 1) /\ DOMAIN q = 1..Len(q)
      BY <1>1, LenProperties
    <2>2. \A x \in 1..Len(q) : q[x] # m
      BY <1>4, InQueue
    <2> QED BY <2>1, <2>2, <1>1, <1>4 DEF IsInjective
  <1> QED BY <1>1, <1>2, <1>3, <1>4

LEMMA Dequeued ==
  ASSUME NEW q \in Seq(Msgs), q # <<>>
  PROVE  /\ Head(q) \in Msgs /\ Head(q) \in ToSet(q)
         /\ Tail(q) \in Seq(Msgs) /\ ToSet(Tail(q)) \subseteq ToSet(q)
         /\ IsInjective(q) => IsInjective(Tail(q)) /\ Head(q) \notin ToSet(Tail(q))
  <1>1. /\ Head(q) \in Msgs /\ Tail(q) \in Seq(Msgs) /\ Len(Tail(q)) = Len(q) - 1
        /\ \A x \in 1..Len(Tail(q)) : Tail(q)[x] = q[x + 1]
    BY HeadTailProperties
  <1>2. Len(q) \in Nat \ {0} /\ Head(q) = q[1]
    BY EmptySeq
  <1>3. Head(q) \in ToSet(q)
    BY <1>2, InQueue
  <1>4. ToSet(Tail(q)) \subseteq ToSet(q)
    <2> SUFFICES ASSUME NEW e \in ToSet(Tail(q)) PROVE e \in ToSet(q)
      OBVIOUS
    <2>1. PICK x \in 1..Len(Tail(q)) : Tail(q)[x] = e
      BY <1>1, InQueue
    <2>2. x + 1 \in 1..Len(q) /\ q[x + 1] = e
      BY <2>1, <1>1, <1>2
    <2> QED BY <2>2, InQueue
  <1>5. ASSUME IsInjective(q) PROVE IsInjective(Tail(q)) /\ Head(q) \notin ToSet(Tail(q))
    <2>1. DOMAIN Tail(q) = 1..(Len(q) - 1) /\ DOMAIN q = 1..Len(q)
      BY <1>1, LenProperties
    <2>2. IsInjective(Tail(q))
      BY <2>1, <1>1, <1>2, <1>5 DEF IsInjective
    <2>3. \A x \in 1..Len(Tail(q)) : Tail(q)[x] # Head(q)
      BY <2>1, <1>1, <1>2, <1>5 DEF IsInjective
    <2> QED BY <2>2, <2>3, <1>1, InQueue
  <1> QED BY <1>1, <1>3, <1>4, <1>5

LEMMA EmptyQueue == ToSet(<<>>) = {} /\ IsInjective(<<>>) /\ <<>> \in Seq(Msgs)
  <1>1. <<>> \in Seq(Msgs) /\ Len(<<>>) = 0 /\ DOMAIN <<>> = {}
    BY EmptySeq
  <1>2. \A m : m \notin ToSet(<<>>)
    BY <1>1 DEF ToSet
  <1> QED BY <1>1, <1>2 DEF IsInjective

-----------------------------------------------------------------------------
(***************************************************************************)
(* The steps.                                                              *)
(***************************************************************************)
LEMMA InitHolds == Init => IInv
  <1> SUFFICES ASSUME Init PROVE IInv
    OBVIOUS
  <1> USE DEF Init
  <1>1. Shape
    BY EmptyQueue DEF Shape, Places
  <1>2. ModeInv /\ WhereInv
    BY EmptyQueue DEF ModeInv, WhereInv
  <1>3. OnceInv
    BY EmptyQueue DEF OnceInv
  <1>4. TurnInv /\ OnlineInv
    BY DEF TurnInv, OnlineInv
  <1>5. RelayedInOrder
    BY EmptySeq DEF RelayedInOrder
  <1> QED BY <1>1, <1>2, <1>3, <1>4, <1>5 DEF IInv

\* What the invariant is about.
kept == <<got, inbox, pc, mode, todo, job, stage>>

\* An instance comes or goes, and nothing else.
LEMMA ComesOrGoes ==
  ASSUME IInv, UNCHANGED kept, Shape', OnlineInv'
  PROVE  IInv'
  BY DEF IInv, kept, ModeInv, WhereInv, OnceInv, TurnInv, RelayedInOrder

LEMMA OnlineSteps ==
  ASSUME IInv, NEW i \in Instances,
         ClientOnline(i) \/ setActive(i) \/ receiveSessMessages(i)
  PROVE  IInv'
  <1>1. UNCHANGED kept /\ online' = online
    BY DEF kept, ClientOnline, setActive, receiveSessMessages, sendVars, jobVars
  <1>2. conn' = conn \/ (conn[i] = "off" /\ conn' = [conn EXCEPT ![i] = "live"])
    BY DEF ClientOnline, setActive, receiveSessMessages
  <1>3. Shape'
    BY <1>1, <1>2 DEF IInv, Shape, kept
  <1>4. live \subseteq live'
    BY <1>2 DEF IInv, Shape, live
  <1>5. OnlineInv'
    BY <1>1, <1>4 DEF IInv, OnlineInv, kept
  <1> QED BY <1>1, <1>3, <1>5, ComesOrGoes

\* An instance closes: those who counted it online do so no longer.
closes(i) ==
    /\ conn' = [conn EXCEPT ![i] = "closed"]
    /\ online' = [m \in Msgs |-> online[m] \ {i}]

LEMMA ClosesOnline ==
  ASSUME IInv, NEW i \in Instances, closes(i)
  PROVE  /\ conn' \in [Instances -> {"off", "live", "closed"}]
         /\ online' \in [Msgs -> SUBSET Instances]
         /\ \A m \in Msgs : online'[m] \subseteq live' /\ online'[m] = online[m] \ {i}
  <1>1. conn' \in [Instances -> {"off", "live", "closed"}]
    BY DEF closes, IInv, Shape
  <1>2. online' \in [Msgs -> SUBSET Instances] /\ \A m \in Msgs : online'[m] = online[m] \ {i}
    BY DEF closes, IInv, Shape
  <1>3. live' = live \ {i}
    BY DEF closes, IInv, Shape, live
  <1> QED BY <1>1, <1>2, <1>3 DEF IInv, OnlineInv

LEMMA CloseStep ==
  ASSUME IInv, NEW i \in Instances, CloseInstance(i)
  PROVE  IInv'
  <1>1. UNCHANGED kept /\ closes(i)
    BY DEF kept, CloseInstance, jobVars, closes
  <1>2. Shape'
    BY <1>1, ClosesOnline DEF IInv, Shape, kept
  <1>3. OnlineInv'
    BY <1>1, ClosesOnline DEF IInv, OnlineInv, kept
  <1> QED BY <1>1, <1>2, <1>3, ComesOrGoes

\* The three outcomes of a push.
queues(i, m) == got' = [got EXCEPT ![i] = Append(@, m)] /\ UNCHANGED <<conn, online>>

LEMMA PushOutcomes ==
  ASSUME NEW i \in Instances, NEW m \in Msgs, push(i, m)
  PROVE  \/ queues(i, m)
         \/ (closes(i) /\ got' = got)
         \/ (UNCHANGED <<got, conn, online>> /\ conn[i] = "closed")
  BY DEF push, queues, closes

\* What a queued message does to the queues.
LEMMA QueuesGot ==
  ASSUME IInv, NEW i \in Instances, NEW m \in Msgs, queues(i, m), m \notin ToSet(got[i])
  PROVE  /\ got' \in [Instances -> Seq(Msgs)]
         /\ \A j \in Instances : IsInjective(got'[j])
         /\ \A j \in Instances : ToSet(got'[j]) = ToSet(got[j]) \cup (IF j = i THEN {m} ELSE {})
  <1>1. got \in [Instances -> Seq(Msgs)] /\ \A j \in Instances : IsInjective(got[j])
    BY DEF IInv, Shape, OnceInv
  <1>2. got'[i] = Append(got[i], m) /\ \A j \in Instances : j # i => got'[j] = got[j]
    BY <1>1 DEF queues
  <1>3. got' \in [Instances -> Seq(Msgs)]
    BY <1>1, <1>2, Queued DEF queues
  <1>4. IsInjective(got'[i]) /\ ToSet(got'[i]) = ToSet(got[i]) \cup {m}
    BY <1>1, <1>2, Queued
  <1> QED BY <1>1, <1>2, <1>3, <1>4

\* A message may be queued if no later one of its sender has been relayed to the instance.
LEMMA QueuesInOrder ==
  ASSUME IInv, NEW i \in Instances, NEW m \in Msgs, queues(i, m), mode' = mode,
         mode[m] = "none" \/
             \A n \in ToSet(got[i]) : From[n] = From[m] /\ mode[n] # "none" => n < m
  PROVE  RelayedInOrder'
  <1>1. got \in [Instances -> Seq(Msgs)] /\ RelayedInOrder
    BY DEF IInv, Shape
  <1>2. got'[i] = Append(got[i], m) /\ \A j \in Instances : j # i => got'[j] = got[j]
    BY <1>1 DEF queues
  <1>3. /\ Len(got[i]) \in Nat /\ DOMAIN got[i] = 1..Len(got[i])
        /\ DOMAIN got'[i] = 1..(Len(got[i]) + 1)
        /\ \A x \in 1..Len(got[i]) : got'[i][x] = got[i][x]
        /\ got'[i][Len(got[i]) + 1] = m
    <2>1. got[i] \in Seq(Msgs)
      BY <1>1
    <2> QED BY <2>1, <1>2, AppendProperties, LenProperties
  <1>4. \A x \in 1..Len(got[i]) : got[i][x] \in ToSet(got[i])
    BY <1>1, InQueue
  <1> SUFFICES ASSUME NEW j \in Instances, NEW x \in DOMAIN got'[j], NEW y \in DOMAIN got'[j],
                      x < y, From[got'[j][x]] = From[got'[j][y]],
                      mode[got'[j][x]] # "none", mode[got'[j][y]] # "none"
               PROVE  got'[j][x] < got'[j][y]
    BY DEF RelayedInOrder
  <1>5. CASE j # i
    BY <1>1, <1>2, <1>5 DEF RelayedInOrder
  <1>6. CASE j = i /\ y \in 1..Len(got[i])
    <2>1. x \in 1..Len(got[i])
      BY <1>3, <1>6
    <2> QED BY <2>1, <1>1, <1>3, <1>6 DEF RelayedInOrder
  <1>7. CASE j = i /\ y = Len(got[i]) + 1
    <2>1. x \in 1..Len(got[i])
      BY <1>3, <1>7
    <2>2. got'[i][y] = m /\ got'[i][x] = got[i][x] /\ got[i][x] \in ToSet(got[i])
      BY <2>1, <1>3, <1>4, <1>7
    <2> QED BY <2>2, <1>7
  <1> QED BY <1>3, <1>5, <1>6, <1>7

\* Steps of a sender that touch no queue.
LEMMA LookupStep ==
  ASSUME IInv, NEW m \in Msgs, lookup(m)
  PROVE  IInv'
  <1>1. UNCHANGED <<conn, got, inbox, mode, todo, job, stage>> /\ pc[m] = "start"
    BY DEF lookup, instVars, jobVars
  <1>2. PICK p \in {"store", "refused", "choose"} : pc' = [pc EXCEPT ![m] = p]
    BY DEF lookup, goto
  <1>3. online' = [online EXCEPT ![m] = live] /\ live' = live /\ live \subseteq Instances
    BY <1>1 DEF lookup, live
  <1>4. Shape'
    BY <1>1, <1>2, <1>3 DEF IInv, Shape, Places, Outcomes
  <1>5. pc'[m] = p /\ \A n \in Msgs : n # m => pc'[n] = pc[n]
    BY <1>2 DEF IInv, Shape
  <1>6. ModeInv'
    BY <1>1, <1>5 DEF IInv, ModeInv
  <1>7. WhereInv'
    BY <1>1, <1>5 DEF IInv, WhereInv
  <1>8. OnceInv' /\ RelayedInOrder'
    BY <1>1 DEF IInv, OnceInv, RelayedInOrder
  <1>9. TurnInv'
    <2>1. \A n \in 1..(m - 1) : From[n] = From[m] => pc[n] \in Outcomes
      BY DEF lookup
    <2> SUFFICES ASSUME NEW k \in Msgs, NEW n \in Msgs,
                        n < k, From[n] = From[k], pc'[k] # "start"
                 PROVE  pc'[n] \in Outcomes
      BY DEF TurnInv
    <2>2. CASE k = m
      <3>1. n \in 1..(m - 1)
        BY <2>2, MessagingAssumption DEF Msgs
      <3>2. n # m
        BY <2>2, MessagingAssumption DEF Msgs
      <3> QED BY <2>1, <2>2, <3>1, <3>2, <1>5
    <2>3. CASE k # m
      <3>1. pc[n] \in Outcomes
        BY <2>3, <1>5 DEF IInv, TurnInv
      <3>2. n # m
        BY <3>1, <1>1 DEF Outcomes
      <3> QED BY <3>1, <3>2, <1>5
    <2> QED BY <2>2, <2>3
  <1>10. OnlineInv'
    BY <1>1, <1>3, <1>5 DEF IInv, Shape, OnlineInv
  <1> QED BY <1>4, <1>6, <1>7, <1>8, <1>9, <1>10 DEF IInv

\* A message that has been looked up goes on, or comes to an end.
LEMMA TurnKept ==
  ASSUME IInv, NEW m \in Msgs, NEW p \in Places,
         pc' = [pc EXCEPT ![m] = p], pc[m] \notin {"start"} \cup Outcomes
  PROVE  TurnInv' /\ pc' \in [Msgs -> Places] /\ \A n \in Msgs : pc'[n] = IF n = m THEN p ELSE pc[n]
  <1>1. pc' \in [Msgs -> Places] /\ \A n \in Msgs : pc'[n] = IF n = m THEN p ELSE pc[n]
    BY DEF IInv, Shape
  <1>2. TurnInv'
    BY <1>1 DEF IInv, TurnInv
  <1> QED BY <1>1, <1>2

LEMMA ChooseStep ==
  ASSUME IInv, NEW m \in Msgs, choose(m)
  PROVE  IInv'
  <1>1. /\ UNCHANGED <<conn, got, inbox, todo, online, job, stage>>
        /\ pc[m] = "choose" /\ pc' = [pc EXCEPT ![m] = "lookup"]
    BY DEF choose, instVars, jobVars, goto
  <1>2. PICK k \in {"active", "all"} : mode' = [mode EXCEPT ![m] = k]
    BY DEF choose
  <1>3. /\ TurnInv' /\ pc' \in [Msgs -> Places]
        /\ \A n \in Msgs : pc'[n] = IF n = m THEN "lookup" ELSE pc[n]
    BY <1>1, TurnKept DEF Places, Outcomes
  <1>4. Shape' /\ \A n \in Msgs : mode'[n] = IF n = m THEN k ELSE mode[n]
    BY <1>1, <1>2, <1>3 DEF IInv, Shape
  <1>5. ModeInv'
    BY <1>1, <1>3, <1>4 DEF IInv, ModeInv
  <1>6. WhereInv' /\ \A i \in Instances : m \notin ToSet(got[i])
    BY <1>1, <1>3 DEF IInv, WhereInv
  <1>7. OnceInv'
    BY <1>1 DEF IInv, OnceInv
  <1>8. RelayedInOrder'
    <2>1. \A i \in Instances : \A x \in DOMAIN got[i] : got[i][x] \in Msgs /\ got[i][x] \in ToSet(got[i])
      BY InQueue, LenProperties, ElementOfSeq DEF IInv, Shape
    <2>2. \A i \in Instances : \A x \in DOMAIN got[i] : mode'[got[i][x]] = mode[got[i][x]]
      BY <2>1, <1>4, <1>6
    <2> QED BY <2>2, <1>1 DEF IInv, RelayedInOrder
  <1>9. OnlineInv'
    BY <1>1, <1>3, <1>4 DEF IInv, OnlineInv, live
  <1> QED BY <1>3, <1>4, <1>5, <1>6, <1>7, <1>8, <1>9 DEF IInv

LEMMA RelayLookupStep ==
  ASSUME IInv, NEW m \in Msgs, relayLookup(m)
  PROVE  IInv'
  <1>1. /\ UNCHANGED <<conn, got, inbox, mode, online, job, stage>>
        /\ pc[m] = "lookup" /\ pc' = [pc EXCEPT ![m] = "relay"]
        /\ todo' = [todo EXCEPT ![m] = live] /\ live \subseteq Instances
    BY DEF relayLookup, instVars, jobVars, goto, live
  <1>2. /\ TurnInv' /\ pc' \in [Msgs -> Places]
        /\ \A n \in Msgs : pc'[n] = IF n = m THEN "relay" ELSE pc[n]
    BY <1>1, TurnKept DEF Places, Outcomes
  <1>3. Shape' /\ \A n \in Msgs : todo'[n] = IF n = m THEN live ELSE todo[n]
    BY <1>1, <1>2 DEF IInv, Shape
  <1>4. ModeInv'
    BY <1>1, <1>2, <1>3 DEF IInv, ModeInv
  <1>5. WhereInv'
    BY <1>1, <1>2, <1>3 DEF IInv, WhereInv
  <1>6. OnceInv' /\ RelayedInOrder'
    BY <1>1 DEF IInv, OnceInv, RelayedInOrder
  <1>7. OnlineInv'
    <2>1. live' = live
      BY <1>1 DEF live
    <2> QED BY <2>1, <1>1, <1>2, <1>3 DEF IInv, OnlineInv
  <1> QED BY <1>2, <1>3, <1>4, <1>5, <1>6, <1>7 DEF IInv

LEMMA AcknowledgeStep ==
  ASSUME IInv, NEW m \in Msgs, acknowledge(m)
  PROVE  IInv'
  <1>1. /\ UNCHANGED <<conn, got, inbox, mode, todo, online, job, stage>>
        /\ pc[m] = "relay" /\ todo[m] = {} /\ pc' = [pc EXCEPT ![m] = "acked"]
    BY DEF acknowledge, instVars, jobVars, goto
  <1>2. /\ TurnInv' /\ pc' \in [Msgs -> Places]
        /\ \A n \in Msgs : pc'[n] = IF n = m THEN "acked" ELSE pc[n]
    BY <1>1, TurnKept DEF Places, Outcomes
  <1>3. Shape'
    BY <1>1, <1>2 DEF IInv, Shape
  <1>4. ModeInv'
    BY <1>1, <1>2 DEF IInv, ModeInv
  <1>5. WhereInv'
    BY <1>1, <1>2 DEF IInv, WhereInv
  <1>6. OnceInv' /\ RelayedInOrder'
    BY <1>1 DEF IInv, OnceInv, RelayedInOrder
  <1>7. OnlineInv'
    BY <1>1, <1>2 DEF IInv, OnlineInv, live
  <1> QED BY <1>2, <1>3, <1>4, <1>5, <1>6, <1>7 DEF IInv

LEMMA SaveStep ==
  ASSUME IInv, NEW m \in Msgs, SaveMessage(m)
  PROVE  IInv'
  <1>1. /\ UNCHANGED <<conn, got, mode, todo, online, job, stage>> /\ pc[m] = "store"
        /\ inbox \in Seq(Msgs)
    BY DEF SaveMessage, instVars, jobVars, IInv, Shape
  <1>2. \/ (pc' = [pc EXCEPT ![m] = "saved"] /\ inbox' = Append(inbox, m))
        \/ (pc' = [pc EXCEPT ![m] = "refused"] /\ inbox' = inbox)
    BY DEF SaveMessage, goto
  <1>3. m \notin ToSet(inbox)
    BY <1>1 DEF IInv, WhereInv
  <1>4. PICK p \in {"saved", "refused"} :
           /\ pc' = [pc EXCEPT ![m] = p]
           /\ inbox' \in Seq(Msgs) /\ IsInjective(inbox')
           /\ ToSet(inbox') = ToSet(inbox) \cup (IF p = "saved" THEN {m} ELSE {})
    BY <1>1, <1>2, <1>3, Queued DEF IInv, OnceInv
  <1>5. /\ TurnInv' /\ pc' \in [Msgs -> Places]
        /\ \A n \in Msgs : pc'[n] = IF n = m THEN p ELSE pc[n]
    BY <1>1, <1>4, TurnKept DEF Places, Outcomes
  <1>6. Shape'
    BY <1>1, <1>4, <1>5 DEF IInv, Shape
  <1>7. ModeInv'
    BY <1>1, <1>5 DEF IInv, ModeInv
  <1>8. WhereInv' /\ \A i \in Instances : m \notin ToSet(got[i])
    BY <1>1, <1>4, <1>5 DEF IInv, WhereInv
  <1>9. OnceInv'
    BY <1>1, <1>4, <1>8 DEF IInv, OnceInv
  <1>10. RelayedInOrder'
    BY <1>1 DEF IInv, RelayedInOrder
  <1>11. OnlineInv'
    BY <1>1, <1>5 DEF IInv, OnlineInv, live
  <1> QED BY <1>5, <1>6, <1>7, <1>8, <1>9, <1>10, <1>11 DEF IInv

\* One instance of a relay's list.
LEMMA RelayStep ==
  ASSUME IInv, NEW m \in Msgs, relay(m)
  PROVE  IInv'
  <1>1. UNCHANGED <<inbox, pc, mode, job, stage>> /\ pc[m] = "relay"
    BY DEF relay, jobVars
  <1>2. PICK i \in todo[m] :
           /\ todo' = [todo EXCEPT ![m] = @ \ {i}]
           /\ IF conn[i] = "live" /\ (mode[m] = "active" => active[i])
              THEN push(i, m)
              ELSE UNCHANGED <<unread, got, conn, online>>
    BY DEF relay
  <1>3. i \in Instances /\ mode[m] \in {"all", "active"}
    BY <1>1 DEF IInv, Shape, ModeInv
  <1>4. /\ todo' \in [Msgs -> SUBSET Instances]
        /\ \A n \in Msgs : todo'[n] = todo[n] \ (IF n = m THEN {i} ELSE {})
    BY <1>2 DEF IInv, Shape
  <1>5. m \notin ToSet(got[i]) /\ m \notin ToSet(inbox) /\ \A j \in Instances : m \notin ToSet(job[j])
    BY <1>1, <1>2, <1>3 DEF IInv, WhereInv
  <1>6. ModeInv' /\ TurnInv'
    BY <1>1, <1>4 DEF IInv, ModeInv, TurnInv
  <1>7. \/ queues(i, m)
        \/ (closes(i) /\ got' = got)
        \/ (UNCHANGED <<got, conn, online>> /\ (mode[m] = "active" \/ conn[i] # "live"))
    BY <1>2, <1>3, PushOutcomes
  <1>8. CASE queues(i, m)
    <2>1. /\ got' \in [Instances -> Seq(Msgs)]
          /\ \A j \in Instances : IsInjective(got'[j])
          /\ \A j \in Instances : ToSet(got'[j]) = ToSet(got[j]) \cup (IF j = i THEN {m} ELSE {})
      BY <1>3, <1>5, <1>8, QueuesGot
    <2>2. conn' = conn /\ online' = online /\ live' = live
      BY <1>8 DEF queues, live
    <2>3. Shape'
      BY <1>1, <1>4, <2>1, <2>2 DEF IInv, Shape
    <2>4. WhereInv'
      BY <1>1, <1>4, <2>1 DEF IInv, WhereInv
    <2>5. OnceInv'
      BY <1>1, <1>5, <2>1 DEF IInv, OnceInv
    <2>6. RelayedInOrder'
      <3>1. ASSUME NEW n \in ToSet(got[i]), From[n] = From[m], mode[n] # "none" PROVE n < m
        <4>1. n \in Msgs
          <5>1. got[i] \in Seq(Msgs)
            BY <1>3 DEF IInv, Shape
          <5>2. PICK x \in 1..Len(got[i]) : got[i][x] = n
            BY <3>1, <5>1, InQueue
          <5> QED BY <5>1, <5>2, ElementOfSeq
        <4>2. pc[n] # "start" /\ n # m
          BY <3>1, <4>1, <1>5 DEF IInv, ModeInv
        <4>3. ~(m < n)
          BY <3>1, <4>1, <4>2, <1>1 DEF IInv, TurnInv, Outcomes
        <4> QED BY <4>1, <4>2, <4>3, MessagingAssumption DEF Msgs
      <3> QED BY <3>1, <1>1, <1>3, <1>8, QueuesInOrder
    <2>7. OnlineInv'
      <3>1. \A n \in Msgs : \A j \in Instances :
               j \in todo[n] \/ n \in ToSet(got[j]) => j \in todo'[n] \/ n \in ToSet(got'[j])
        BY <1>4, <2>1
      <3>2. \A n \in Msgs : online'[n] = online[n] /\ online[n] \subseteq Instances
        BY <2>2 DEF IInv, Shape
      <3> QED BY <1>1, <2>2, <3>1, <3>2 DEF IInv, OnlineInv
    <2> QED BY <1>6, <2>3, <2>4, <2>5, <2>6, <2>7 DEF IInv
  <1>9. CASE got' = got /\ (closes(i) \/
                 (UNCHANGED <<conn, online>> /\ (mode[m] = "active" \/ conn[i] # "live")))
    <2>1. /\ conn' \in [Instances -> {"off", "live", "closed"}]
          /\ online' \in [Msgs -> SUBSET Instances]
          /\ \A n \in Msgs : online'[n] \subseteq live' /\ online'[n] \subseteq online[n]
          /\ mode[m] = "all" => i \notin online'[m]
      <3>1. CASE closes(i)
        BY <3>1, <1>3, ClosesOnline
      <3>2. CASE UNCHANGED <<conn, online>> /\ (mode[m] = "active" \/ conn[i] # "live")
        <4>1. live' = live /\ (mode[m] = "all" => i \notin live)
          BY <3>2 DEF live
        <4> QED BY <3>2, <4>1 DEF IInv, Shape, OnlineInv
      <3> QED BY <1>9, <3>1, <3>2
    <2>2. Shape'
      BY <1>1, <1>4, <1>9, <2>1 DEF IInv, Shape
    <2>3. WhereInv' /\ OnceInv' /\ RelayedInOrder'
      BY <1>1, <1>4, <1>9 DEF IInv, WhereInv, OnceInv, RelayedInOrder
    <2>4. OnlineInv'
      BY <1>1, <1>4, <1>9, <2>1 DEF IInv, OnlineInv
    <2> QED BY <1>6, <2>2, <2>3, <2>4 DEF IInv
  <1> QED BY <1>7, <1>8, <1>9

-----------------------------------------------------------------------------
\* OfflineRetrieve.
LEMMA RetrieveStep ==
  ASSUME IInv, NEW i \in Instances, RetrieveMessages(i)
  PROVE  IInv'
  <1>1. /\ UNCHANGED <<conn, got, inbox, pc, mode, todo, online>> /\ stage[i] = "idle"
        /\ job' = [job EXCEPT ![i] = inbox]
        /\ stage' = [stage EXCEPT ![i] = IF inbox = <<>> THEN "idle" ELSE "relay"]
    BY DEF RetrieveMessages, instVars, sendVars
  <1>2. Shape'
    BY <1>1 DEF IInv, Shape
  <1>3. /\ \A j \in Instances : job'[j] = IF j = i THEN inbox ELSE job[j]
        /\ \A j \in Instances : j # i => stage'[j] = stage[j]
        /\ stage'[i] = IF inbox = <<>> THEN "idle" ELSE "relay"
    BY <1>1 DEF IInv, Shape
  <1>4. ModeInv' /\ TurnInv' /\ RelayedInOrder'
    BY <1>1 DEF IInv, ModeInv, TurnInv, RelayedInOrder
  <1>5. WhereInv'
    BY <1>1, <1>3 DEF IInv, WhereInv
  <1>6. OnceInv'
    BY <1>1, <1>3 DEF IInv, OnceInv
  <1>7. OnlineInv'
    BY <1>1 DEF IInv, OnlineInv, live
  <1> QED BY <1>2, <1>4, <1>5, <1>6, <1>7 DEF IInv

LEMMA RelayToSelfStep ==
  ASSUME IInv, NEW i \in Instances, RelayToSelf(i)
  PROVE  IInv'
  <1>1. UNCHANGED <<inbox, pc, mode, todo>> /\ stage[i] = "relay"
    BY DEF RelayToSelf, sendVars
  <1>2. ModeInv' /\ TurnInv'
    BY <1>1 DEF IInv, ModeInv, TurnInv
  <1>3. CASE job[i] = <<>>
    <2>1. UNCHANGED <<conn, got, online, job>> /\ stage' = [stage EXCEPT ![i] = "delete"]
      BY <1>3 DEF RelayToSelf, instVars, sendVars
    <2>2. Shape' /\ \A j \in Instances : stage'[j] = IF j = i THEN "delete" ELSE stage[j]
      BY <1>1, <2>1 DEF IInv, Shape
    <2>3. WhereInv' /\ RelayedInOrder'
      BY <1>1, <2>1 DEF IInv, WhereInv, RelayedInOrder
    <2>4. OnceInv'
      BY <1>1, <1>3, <2>1, <2>2 DEF IInv, OnceInv
    <2>5. OnlineInv'
      BY <1>1, <2>1 DEF IInv, OnlineInv, live
    <2> QED BY <1>2, <2>2, <2>3, <2>4, <2>5 DEF IInv
  <1>4. CASE job[i] # <<>>
    <2> DEFINE m == Head(job[i])
    <2>1. push(i, m) /\ job' = [job EXCEPT ![i] = Tail(@)] /\ stage' = stage
      BY <1>4 DEF RelayToSelf
    <2>2. job[i] \in Seq(Msgs) /\ job \in [Instances -> Seq(Msgs)]
      BY DEF IInv, Shape
    <2>3. /\ m \in Msgs /\ m \in ToSet(job[i]) /\ Tail(job[i]) \in Seq(Msgs)
          /\ ToSet(Tail(job[i])) \subseteq ToSet(job[i]) /\ IsInjective(Tail(job[i]))
          /\ m \notin ToSet(Tail(job[i]))
      BY <1>4, <2>2, Dequeued DEF IInv, OnceInv
    <2>4. job' \in [Instances -> Seq(Msgs)] /\ \A j \in Instances : job'[j] = IF j = i THEN Tail(job[i]) ELSE job[j]
      BY <2>1, <2>2, <2>3
    <2>5. pc[m] = "saved" /\ m \notin ToSet(got[i]) /\ mode[m] = "none" /\ todo[m] = {}
      BY <2>3 DEF IInv, WhereInv, OnceInv, ModeInv
    <2> HIDE DEF m
    <2>6. CASE queues(i, m)
      <3>1. /\ got' \in [Instances -> Seq(Msgs)]
            /\ \A j \in Instances : IsInjective(got'[j])
            /\ \A j \in Instances : ToSet(got'[j]) = ToSet(got[j]) \cup (IF j = i THEN {m} ELSE {})
        BY <2>3, <2>5, <2>6, QueuesGot
      <3>2. conn' = conn /\ online' = online /\ live' = live
        BY <2>6 DEF queues, live
      <3>3. Shape'
        BY <1>1, <2>1, <2>4, <3>1, <3>2 DEF IInv, Shape
      <3>4. WhereInv'
        BY <1>1, <2>3, <2>4, <2>5, <3>1, ZenonT(60) DEF IInv, WhereInv
      <3>5. OnceInv'
        BY <1>1, <2>1, <2>3, <2>4, <3>1 DEF IInv, OnceInv
      <3>6. RelayedInOrder'
        BY <1>1, <2>3, <2>5, <2>6, QueuesInOrder
      <3>7. OnlineInv'
        <4>1. \A n \in Msgs : \A j \in Instances : n \in ToSet(got[j]) => n \in ToSet(got'[j])
          BY <3>1
        <4>2. \A n \in Msgs : online'[n] = online[n] /\ online[n] \subseteq Instances
          BY <3>2 DEF IInv, Shape
        <4> QED BY <1>1, <3>2, <4>1, <4>2 DEF IInv, OnlineInv
      <3> QED BY <1>2, <3>3, <3>4, <3>5, <3>6, <3>7 DEF IInv
    <2>7. CASE got' = got /\ (closes(i) \/ UNCHANGED <<conn, online>>)
      <3>1. /\ conn' \in [Instances -> {"off", "live", "closed"}]
            /\ online' \in [Msgs -> SUBSET Instances]
            /\ \A n \in Msgs : online'[n] \subseteq live' /\ online'[n] \subseteq online[n]
        <4>1. CASE closes(i)
          BY <4>1, ClosesOnline
        <4>2. CASE UNCHANGED <<conn, online>>
          <5>1. live' = live
            BY <4>2 DEF live
          <5> QED BY <4>2, <5>1 DEF IInv, Shape, OnlineInv
        <4> QED BY <2>7, <4>1, <4>2
      <3>2. Shape'
        BY <1>1, <2>1, <2>4, <2>7, <3>1 DEF IInv, Shape
      <3>3. WhereInv' /\ RelayedInOrder'
        BY <1>1, <2>3, <2>4, <2>7 DEF IInv, WhereInv, RelayedInOrder
      <3>4. OnceInv'
        BY <1>1, <2>1, <2>3, <2>4, <2>7 DEF IInv, OnceInv
      <3>5. OnlineInv'
        BY <1>1, <2>7, <3>1 DEF IInv, OnlineInv
      <3> QED BY <1>2, <3>2, <3>3, <3>4, <3>5 DEF IInv
    <2> QED BY <2>1, <2>3, <2>6, <2>7, PushOutcomes
  <1> QED BY <1>3, <1>4

\* Whatever has been stored by now goes, read or not.
LEMMA DeleteStep ==
  ASSUME IInv, NEW i \in Instances, DeleteMessages(i)
  PROVE  IInv'
  <1>1. /\ UNCHANGED <<conn, got, pc, mode, todo, online, job>> /\ stage[i] = "delete"
        /\ inbox' = <<>> /\ stage' = [stage EXCEPT ![i] = "idle"]
    BY DEF DeleteMessages, instVars, sendVars
  <1>2. inbox' \in Seq(Msgs) /\ IsInjective(inbox') /\ ToSet(inbox') = {}
    BY <1>1, EmptyQueue
  <1>3. Shape' /\ \A j \in Instances : stage'[j] = IF j = i THEN "idle" ELSE stage[j]
    BY <1>1, <1>2 DEF IInv, Shape
  <1>4. ModeInv' /\ TurnInv' /\ RelayedInOrder'
    BY <1>1 DEF IInv, ModeInv, TurnInv, RelayedInOrder
  <1>5. WhereInv'
    BY <1>1, <1>2 DEF IInv, WhereInv
  <1>6. OnceInv'
    BY <1>1, <1>2, <1>3 DEF IInv, OnceInv
  <1>7. OnlineInv'
    BY <1>1 DEF IInv, OnlineInv, live
  <1> QED BY <1>3, <1>4, <1>5, <1>6, <1>7 DEF IInv

LEMMA StepHolds == IInv /\ [Next]_vars => IInv'
  <1> SUFFICES ASSUME IInv, [Next]_vars PROVE IInv'
    OBVIOUS
  <1>1. ASSUME NEW m \in Msgs, ChannelMsgToHost(m) PROVE IInv'
    BY <1>1, LookupStep, ChooseStep, RelayLookupStep, RelayStep, AcknowledgeStep, SaveStep
       DEF ChannelMsgToHost
  <1>2. ASSUME NEW i \in Instances, OfflineRetrieve(i) PROVE IInv'
    BY <1>2, RetrieveStep, RelayToSelfStep, DeleteStep DEF OfflineRetrieve
  <1>3. ASSUME NEW i \in Instances,
               ClientOnline(i) \/ setActive(i) \/ receiveSessMessages(i) \/ CloseInstance(i)
        PROVE  IInv'
    BY <1>3, OnlineSteps, CloseStep
  <1>4. CASE UNCHANGED vars
    <2>1. UNCHANGED kept /\ UNCHANGED <<conn, online>>
      BY <1>4 DEF vars, kept, instVars, sendVars, jobVars
    <2>2. Shape' /\ OnlineInv'
      BY <2>1 DEF IInv, Shape, OnlineInv, live, kept
    <2> QED BY <2>1, <2>2, ComesOrGoes
  <1> QED BY <1>1, <1>2, <1>3, <1>4 DEF Next

THEOREM Inductive == Spec => []IInv
  BY InitHolds, StepHolds, PTL DEF Spec

-----------------------------------------------------------------------------
(***************************************************************************)
(* The properties.                                                         *)
(***************************************************************************)
\* No instance of the recipient gets a message twice: relays, retrievals and deletions of
\* the inbox interleave as they like.
THEOREM GotAtMostOnce == Spec => []AtMostOnce
  <1>1. IInv => AtMostOnce
    BY DEF IInv, OnceInv, AtMostOnce
  <1> QED BY <1>1, Inductive, PTL

\* An instance gets what one sender has relayed in the order it was sent: the sender's
\* connection serves the next request after the last.
THEOREM GotInOrder == Spec => []RelayedInOrder
  <1>1. IInv => RelayedInOrder
    BY DEF IInv
  <1> QED BY <1>1, Inductive, PTL

\* A refused message is nowhere, and a stored one was not relayed.
THEOREM FateIsOne == Spec => []OneFate
  <1>1. IInv => OneFate
    BY DEF IInv, WhereInv, ModeInv, OneFate
  <1> QED BY <1>1, Inductive, PTL

\* The relay to an inactive account reaches every instance that stays.
THEOREM AllInactiveGetIt == Spec => []InactiveAllGetIt
  <1>1. IInv => InactiveAllGetIt
    BY DEF IInv, ModeInv, OnlineInv, InactiveAllGetIt
  <1> QED BY <1>1, Inductive, PTL
==============================================================================
