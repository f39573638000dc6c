--------------------------- MODULE Warnings_proofs ---------------------------
(***************************************************************************)
(* Proofs about warnings and the rate limit they move.  ConvoTracker, for   *)
(* every set of conversations and instances, every window and every bound   *)
(* on the clock and the calls; WarnMonitor, for every set of warners, every *)
(* class of the rate limit and all increments; RateLimit, for every class   *)
(* and all times between requests.                                         *)
(***************************************************************************)
EXTENDS ConvoTracker, WarnMonitor, RateLimit, SequenceTheorems, FiniteSetTheorems, TLAPS

-----------------------------------------------------------------------------
(***************************************************************************)
(* Who may warn: ConvoTracker.                                             *)
(***************************************************************************)

\* No two conversations share a key.
KeysDiffer == \A c, d \in Convos : Key[c] = Key[d] => c = d

Keys == {Key[c] : c \in Convos}
Call == [at : {"count", "set"}, convo : Convos, start : Times, msgs : Nat, buf : Buffers, new : BOOLEAN]

(***************************************************************************)
(* The inductive invariant.                                                *)
(***************************************************************************)
Shape ==
    /\ now \in Times
    /\ convos \in [Keys -> Buffers \cup {Nothing}] /\ warns \in [Keys -> Buffers \cup {Nothing}]
    /\ calls \in [Instances -> Call \cup {Idle}]
    /\ said \in [Convos -> Seq(Times)] /\ granted \in [Convos -> Seq(Times)]

\* A message of c was sent within the window that ends at t.
heard(c, t) == \E m \in DOMAIN said[c] : said[c][m] \in (t - Window + 1)..t

SaidInv == \A c \in Convos : \A m \in DOMAIN said[c] : said[c][m] <= now

\* What a buffer remembers of a conversation has been said in it.
BufferInv ==
    \A c \in Convos : \A n \in Slots :
        convos[Key[c]] # Nothing /\ convos[Key[c]].vals[n] # Nothing =>
            \E m \in DOMAIN said[c] : said[c][m] = convos[Key[c]].vals[n]

\* A call is over before the clock moves, has counted messages only if there is one in the
\* window, and gets past the count only if it has counted one.
CallInv ==
    \A i \in Instances : calls[i] # Idle =>
        /\ calls[i].start = now
        /\ calls[i].msgs > 0 => heard(calls[i].convo, now)
        /\ calls[i].at = "set" => calls[i].msgs > 0

WarnedInv == Shape /\ SaidInv /\ BufferInv /\ CallInv /\ WarnNeedsMessage

-----------------------------------------------------------------------------
(***************************************************************************)
(* Lemmas about the ring buffer and the history.                           *)
(***************************************************************************)
LEMMA RingBuffer ==
  ASSUME NEW id \in Ids
  PROVE  ringBuffer(id) \in Buffers /\ \A n \in Slots : ringBuffer(id).vals[n] = Nothing
  BY DEF ringBuffer, Buffers, Slots

LEMMA SetBuffer ==
  ASSUME NEW buf \in Buffers, NEW t \in Times
  PROVE  /\ set(buf, t) \in Buffers
         /\ \A n \in Slots : set(buf, t).vals[n] \in {t, buf.vals[n]}
  <1>1. buf.id \in Ids /\ buf.cur \in Slots /\ buf.vals \in [Slots -> Times \cup {Nothing}]
    BY DEF Buffers
  <1>2. (buf.cur + 1) % 3 \in Slots
    BY <1>1 DEF Slots
  <1>3. [buf.vals EXCEPT ![buf.cur] = t] \in [Slots -> Times \cup {Nothing}]
    BY <1>1
  <1>4. \A n \in Slots : [buf.vals EXCEPT ![buf.cur] = t][n] \in {t, buf.vals[n]}
    BY <1>1
  <1> QED BY <1>1, <1>2, <1>3, <1>4 DEF set, Buffers

LEMMA Counted ==
  ASSUME NEW buf, NEW t
  PROVE  /\ inWindow(buf, t) \in Nat
         /\ inWindow(buf, t) > 0 => \E n \in Slots : buf.vals[n] # Nothing /\ buf.vals[n] > t - Window
  <1> DEFINE S == {n \in Slots : buf.vals[n] # Nothing /\ buf.vals[n] > t - Window}
  <1>1. IsFiniteSet(Slots)
    <2>1. 0 \in Int /\ 2 \in Int
      OBVIOUS
    <2> QED BY <2>1, FS_Interval DEF Slots
  <1>2. IsFiniteSet(S)
    BY <1>1, FS_Subset, S \subseteq Slots
  <1>3. Cardinality(S) \in Nat /\ (Cardinality(S) = 0 <=> S = {})
    BY <1>2, FS_CardinalityType, FS_EmptySet
  <1>4. inWindow(buf, t) = Cardinality(S)
    BY DEF inWindow
  <1>5. S # {} => \E n \in Slots : buf.vals[n] # Nothing /\ buf.vals[n] > t - Window
    OBVIOUS
  <1> HIDE DEF S
  <1> QED BY <1>3, <1>4, <1>5

\* A history only grows.
LEMMA Grown ==
  ASSUME NEW q \in Seq(Times), NEW t \in Times
  PROVE  /\ Append(q, t) \in Seq(Times)
         /\ DOMAIN Append(q, t) = DOMAIN q \cup {Len(q) + 1}
         /\ \A x \in DOMAIN q : Append(q, t)[x] = q[x]
         /\ Append(q, t)[Len(q) + 1] = t
  <1>1. Len(q) \in Nat /\ DOMAIN q = 1..Len(q) /\ DOMAIN Append(q, t) = 1..(Len(q) + 1)
    BY AppendProperties, LenProperties
  <1>2. 1..(Len(q) + 1) = 1..Len(q) \cup {Len(q) + 1}
    BY <1>1
  <1> QED BY <1>1, <1>2, AppendProperties

-----------------------------------------------------------------------------
(***************************************************************************)
(* The steps.                                                              *)
(***************************************************************************)
LEMMA InitWarned == ConvoInit => WarnedInv
  <1> SUFFICES ASSUME ConvoInit PROVE WarnedInv
    OBVIOUS
  <1>1. Shape
    BY TrackerAssumption, EmptySeq DEF ConvoInit, Shape, Times, Keys
  <1>2. \A c \in Convos : DOMAIN said[c] = {} /\ DOMAIN granted[c] = {}
    BY EmptySeq DEF ConvoInit
  <1>3. SaidInv /\ WarnNeedsMessage
    BY <1>2 DEF SaidInv, WarnNeedsMessage
  <1>4. BufferInv /\ CallInv
    BY DEF ConvoInit, BufferInv, CallInv
  <1> QED BY <1>1, <1>3, <1>4 DEF WarnedInv
\* What has been said, and what is said now.
LEMMA SaidGrows ==
  ASSUME Shape, NEW c \in Convos, said' = [said EXCEPT ![c] = Append(@, now)]
  PROVE  /\ said' \in [Convos -> Seq(Times)]
         /\ \A d \in Convos : \A m \in DOMAIN said[d] : m \in DOMAIN said'[d] /\ said'[d][m] = said[d][m]
         /\ \A d \in Convos : \A m \in DOMAIN said'[d] :
                said'[d][m] = now \/ (m \in DOMAIN said[d] /\ said'[d][m] = said[d][m])
         /\ \E m \in DOMAIN said'[c] : said'[c][m] = now
  <1>1. said \in [Convos -> Seq(Times)] /\ now \in Times /\ said[c] \in Seq(Times)
    BY DEF Shape
  <1>2. /\ Append(said[c], now) \in Seq(Times)
        /\ DOMAIN Append(said[c], now) = DOMAIN said[c] \cup {Len(said[c]) + 1}
        /\ \A x \in DOMAIN said[c] : Append(said[c], now)[x] = said[c][x]
        /\ Append(said[c], now)[Len(said[c]) + 1] = now
    BY <1>1, Grown
  <1>3. said'[c] = Append(said[c], now) /\ \A d \in Convos : d # c => said'[d] = said[d]
    BY <1>1
  <1>4. said' \in [Convos -> Seq(Times)]
    BY <1>1, <1>2
  <1> QED BY <1>2, <1>3, <1>4

LEMMA TrackConvoStep ==
  ASSUME WarnedInv, KeysDiffer, NEW c \in Convos, trackConvo(c)
  PROVE  WarnedInv'
  <1> DEFINE k == Key[c]
             buf == IF found(convos, k) THEN convos[k] ELSE ringBuffer(<<Nothing, now>>)
  <1>1. /\ UNCHANGED <<now, warns, calls, granted>>
        /\ said' = [said EXCEPT ![c] = Append(@, now)]
        /\ convos' = [convos EXCEPT ![k] = set(buf, now)]
    BY DEF trackConvo
  <1>2. Shape /\ now \in Times /\ k \in Keys
    BY DEF WarnedInv, Shape, Keys
  <1>3. buf \in Buffers /\ \A n \in Slots : buf.vals[n] = Nothing \/ (convos[k] # Nothing /\ buf.vals[n] = convos[k].vals[n])
    <2>1. CASE found(convos, k)
      BY <1>2, <2>1 DEF found, Shape
    <2>2. CASE ~found(convos, k)
      <3>1. <<Nothing, now>> \in Ids
        BY <1>2 DEF Ids
      <3> QED BY <2>2, <3>1, RingBuffer
    <2> QED BY <2>1, <2>2
  <1> HIDE DEF buf
  <1>4. set(buf, now) \in Buffers /\ \A n \in Slots : set(buf, now).vals[n] \in {now, buf.vals[n]}
    BY <1>2, <1>3, SetBuffer
  <1>5. /\ convos' \in [Keys -> Buffers \cup {Nothing}] /\ convos'[k] = set(buf, now)
        /\ \A d \in Convos : d # c => convos'[Key[d]] = convos[Key[d]]
    <2>1. \A d \in Convos : d # c => Key[d] # k /\ Key[d] \in Keys
      BY DEF KeysDiffer, Keys
    <2> QED BY <1>1, <1>2, <1>4, <2>1 DEF Shape
  <1>6. /\ said' \in [Convos -> Seq(Times)]
        /\ \A d \in Convos : \A m \in DOMAIN said[d] : m \in DOMAIN said'[d] /\ said'[d][m] = said[d][m]
        /\ \A d \in Convos : \A m \in DOMAIN said'[d] :
               said'[d][m] = now \/ (m \in DOMAIN said[d] /\ said'[d][m] = said[d][m])
        /\ \E m \in DOMAIN said'[c] : said'[c][m] = now
    BY <1>1, <1>2, SaidGrows
  <1>7. Shape'
    BY <1>1, <1>2, <1>5, <1>6 DEF Shape
  <1>8. SaidInv'
    <2>1. now <= now
      BY <1>2, TrackerAssumption DEF Times
    <2> QED BY <1>1, <1>6, <2>1 DEF WarnedInv, SaidInv
  <1>9. BufferInv'
    <2> SUFFICES ASSUME NEW d \in Convos, NEW n \in Slots,
                        convos'[Key[d]] # Nothing, convos'[Key[d]].vals[n] # Nothing
                 PROVE  \E m \in DOMAIN said'[d] : said'[d][m] = convos'[Key[d]].vals[n]
      BY DEF BufferInv
    <2>1. ASSUME convos[Key[d]] # Nothing, convos[Key[d]].vals[n] # Nothing
          PROVE  \E m \in DOMAIN said'[d] : said'[d][m] = convos[Key[d]].vals[n]
      <3>1. PICK m \in DOMAIN said[d] : said[d][m] = convos[Key[d]].vals[n]
        BY <2>1 DEF WarnedInv, BufferInv
      <3> QED BY <3>1, <1>6
    <2>2. CASE d # c
      BY <2>1, <2>2, <1>5
    <2>3. CASE d = c
      <3>1. convos'[k].vals[n] \in {now, buf.vals[n]}
        BY <1>4, <1>5
      <3>2. CASE convos'[k].vals[n] = now
        BY <2>3, <3>2, <1>6
      <3>3. CASE convos'[k].vals[n] = buf.vals[n]
        BY <2>1, <2>3, <3>3, <1>3
      <3> QED BY <3>1, <3>2, <3>3
    <2> QED BY <2>2, <2>3
  <1>10. CallInv'
    <2>1. \A d \in Convos : heard(d, now) => heard(d, now)'
      BY <1>1, <1>6 DEF heard
    <2>2. \A i \in Instances : calls[i] # Idle => calls[i].convo \in Convos
      BY <1>2 DEF Shape, Call
    <2> QED BY <1>1, <2>1, <2>2 DEF WarnedInv, CallInv
  <1>11. WarnNeedsMessage'
    BY <1>1, <1>6 DEF WarnedInv, WarnNeedsMessage
  <1> QED BY <1>7, <1>8, <1>9, <1>10, <1>11 DEF WarnedInv

LEMMA ReadStep ==
  ASSUME WarnedInv, NEW i \in Instances, read(i)
  PROVE  WarnedInv'
  <1>1. UNCHANGED <<now, convos, warns, said, granted>>
    BY DEF read
  <1>2. PICK c \in Convos :
           /\ found(convos, Key[c])
           /\ calls' = [calls EXCEPT ![i] =
                  [at |-> "count", convo |-> c, start |-> now, msgs |-> inWindow(convos[Key[c]], now),
                   new |-> ~found(warns, Key[c]),
                   buf |-> IF found(warns, Key[c]) THEN warns[Key[c]] ELSE ringBuffer(<<i, now>>)]]
    BY DEF read
  <1> DEFINE k == Key[c]
             buf == IF found(warns, k) THEN warns[k] ELSE ringBuffer(<<i, now>>)
             call == [at |-> "count", convo |-> c, start |-> now, msgs |-> inWindow(convos[k], now),
                      new |-> ~found(warns, k), buf |-> buf]
  <1>3. Shape /\ now \in Times /\ k \in Keys
    BY DEF WarnedInv, Shape, Keys
  <1>4. buf \in Buffers
    <2>1. <<i, now>> \in Ids
      BY <1>3 DEF Ids
    <2>2. CASE found(warns, k)
      BY <1>3, <2>2 DEF Shape, found
    <2>3. CASE ~found(warns, k)
      BY <2>1, <2>3, RingBuffer
    <2> QED BY <2>2, <2>3
  <1>5. inWindow(convos[k], now) \in Nat
    BY Counted
  <1>6. (~found(warns, k)) \in BOOLEAN
    BY DEF found
  <1>7. call \in Call
    BY <1>3, <1>4, <1>5, <1>6 DEF Call
  <1>8. calls' \in [Instances -> Call \cup {Idle}] /\ \A j \in Instances : calls'[j] = IF j = i THEN call ELSE calls[j]
    BY <1>2, <1>3, <1>7 DEF Shape
  <1>9. call.msgs > 0 => heard(c, now)
    <2> SUFFICES ASSUME inWindow(convos[k], now) > 0 PROVE heard(c, now)
      OBVIOUS
    <2>1. PICK n \in Slots : convos[k].vals[n] # Nothing /\ convos[k].vals[n] > now - Window
      BY Counted
    <2>2. PICK m \in DOMAIN said[c] : said[c][m] = convos[k].vals[n]
      BY <1>2, <2>1 DEF WarnedInv, BufferInv, found
    <2>3. said[c][m] <= now /\ said[c][m] \in Times
      <3>1. said[c] \in Seq(Times)
        BY <1>3 DEF Shape
      <3> QED BY <3>1, LenProperties, ElementOfSeq DEF WarnedInv, SaidInv
    <2>4. said[c][m] \in (now - Window + 1)..now
      BY <2>1, <2>2, <2>3, <1>3, TrackerAssumption DEF Times
    <2> QED BY <2>4 DEF heard
  <1>10. call.start = now /\ call.convo = c /\ call.at = "count"
    OBVIOUS
  <1> HIDE DEF call
  <1>11. CallInv'
    BY <1>1, <1>8, <1>9, <1>10 DEF WarnedInv, CallInv, heard
  <1>12. Shape'
    BY <1>1, <1>3, <1>8 DEF Shape
  <1>13. SaidInv' /\ BufferInv' /\ WarnNeedsMessage'
    BY <1>1 DEF WarnedInv, SaidInv, BufferInv, WarnNeedsMessage
  <1> QED BY <1>11, <1>12, <1>13 DEF WarnedInv

\* Granted: more messages are in the window than warnings.
LEMMA CountStep ==
  ASSUME WarnedInv, NEW i \in Instances, count(i)
  PROVE  WarnedInv'
  <1> DEFINE call == calls[i]
             buf == current(call)
             denied == call.msgs <= inWindow(buf, call.start)
             next == [call EXCEPT !.at = "set", !.buf = buf]
  <1>1. /\ UNCHANGED <<now, convos, said, granted>> /\ call.at = "count"
        /\ warns' = IF call.new THEN [warns EXCEPT ![Key[call.convo]] = buf] ELSE warns
        /\ calls' = [calls EXCEPT ![i] = IF denied THEN Idle ELSE next]
    BY DEF count
  <1>2. Shape /\ call \in Call /\ call # Idle
    BY <1>1 DEF WarnedInv, Shape, Idle
  <1>3. call.convo \in Convos /\ call.msgs \in Nat /\ call.buf \in Buffers /\ Key[call.convo] \in Keys
    BY <1>2 DEF Call, Keys
  <1>4. buf \in Buffers
    BY <1>2, <1>3 DEF current, Shape
  <1>5. next \in Call /\ next.convo = call.convo /\ next.msgs = call.msgs /\ next.start = call.start
    BY <1>2, <1>4 DEF Call
  <1>6. ~denied => call.msgs > 0
    <2>1. inWindow(buf, call.start) \in Nat
      BY Counted
    <2> QED BY <2>1, <1>3
  <1> HIDE DEF call, buf, denied, next
  <1>7. Shape'
    BY <1>1, <1>2, <1>3, <1>4, <1>5 DEF Shape
  <1>8. CallInv'
    <2>1. \A j \in Instances : calls'[j] = IF j = i THEN IF denied THEN Idle ELSE next ELSE calls[j]
      BY <1>1, <1>2 DEF Shape
    <2>2. call.start = now /\ (call.msgs > 0 => heard(call.convo, now))
      BY <1>2 DEF WarnedInv, CallInv, call
    <2> QED BY <1>1, <1>5, <1>6, <2>1, <2>2 DEF WarnedInv, CallInv, heard
  <1>9. SaidInv' /\ BufferInv' /\ WarnNeedsMessage'
    BY <1>1 DEF WarnedInv, SaidInv, BufferInv, WarnNeedsMessage
  <1> QED BY <1>7, <1>8, <1>9 DEF WarnedInv

LEMMA RecordStep ==
  ASSUME WarnedInv, NEW i \in Instances, record(i)
  PROVE  WarnedInv'
  <1> DEFINE call == calls[i]
             k == Key[call.convo]
  <1>1. /\ UNCHANGED <<now, convos, said>> /\ call.at = "set" /\ calls' = [calls EXCEPT ![i] = Idle]
        /\ warns' = warns \/ (warns[k] # Nothing /\ warns' = [warns EXCEPT ![k] = set(@, call.start)])
        /\ granted' = [granted EXCEPT ![call.convo] = Append(@, now)]
    BY DEF record
  <1>2. Shape /\ now \in Times /\ call \in Call /\ call # Idle
    BY <1>1 DEF WarnedInv, Shape, Idle
  <1>3. call.convo \in Convos /\ call.start \in Times /\ k \in Keys
    BY <1>2 DEF Call, Keys
  <1>4. call.start = now /\ heard(call.convo, now)
    BY <1>1, <1>2 DEF WarnedInv, CallInv
  <1> HIDE DEF call
  <1>5. warns' \in [Keys -> Buffers \cup {Nothing}]
    <2>1. CASE warns' = warns
      BY <1>2, <2>1 DEF Shape
    <2>2. CASE warns[k] # Nothing /\ warns' = [warns EXCEPT ![k] = set(@, call.start)]
      <3>1. warns[k] \in Buffers /\ warns \in [Keys -> Buffers \cup {Nothing}]
        BY <1>2, <1>3, <2>2 DEF Shape
      <3>2. set(warns[k], call.start) \in Buffers
        BY <1>3, <3>1, SetBuffer
      <3> HIDE DEF k
      <3> QED BY <2>2, <3>1, <3>2
    <2> QED BY <1>1, <2>1, <2>2
  <1>6. granted[call.convo] \in Seq(Times) /\ granted \in [Convos -> Seq(Times)]
    BY <1>2, <1>3 DEF Shape
  <1>7. /\ Append(granted[call.convo], now) \in Seq(Times)
        /\ DOMAIN Append(granted[call.convo], now) = DOMAIN granted[call.convo] \cup {Len(granted[call.convo]) + 1}
        /\ \A x \in DOMAIN granted[call.convo] :
               Append(granted[call.convo], now)[x] = granted[call.convo][x]
        /\ Append(granted[call.convo], now)[Len(granted[call.convo]) + 1] = now
    BY <1>2, <1>6, Grown
  <1>8. /\ granted' \in [Convos -> Seq(Times)] /\ granted'[call.convo] = Append(granted[call.convo], now)
        /\ \A d \in Convos : d # call.convo => granted'[d] = granted[d]
    BY <1>1, <1>3, <1>6, <1>7
  <1>9. Shape' /\ \A j \in Instances : calls'[j] = IF j = i THEN Idle ELSE calls[j]
    BY <1>1, <1>2, <1>5, <1>8 DEF Shape
  <1>10. WarnNeedsMessage'
    <2> SUFFICES ASSUME NEW c \in Convos, NEW n \in DOMAIN granted'[c]
                 PROVE  \E m \in DOMAIN said[c] : said[c][m] \in (granted'[c][n] - Window + 1)..granted'[c][n]
      BY <1>1 DEF WarnNeedsMessage
    <2>1. CASE n \in DOMAIN granted[c] /\ granted'[c][n] = granted[c][n]
      BY <2>1 DEF WarnedInv, WarnNeedsMessage
    <2>2. CASE c = call.convo /\ granted'[c][n] = now
      BY <2>2, <1>4 DEF heard
    <2> QED BY <1>7, <1>8, <2>1, <2>2
  <1>11. CallInv'
    BY <1>1, <1>9 DEF WarnedInv, CallInv, heard
  <1>12. SaidInv' /\ BufferInv'
    BY <1>1 DEF WarnedInv, SaidInv, BufferInv
  <1> QED BY <1>9, <1>10, <1>11, <1>12 DEF WarnedInv

\* The clock moves between calls only.
LEMMA TickStep ==
  ASSUME WarnedInv, tick
  PROVE  WarnedInv'
  <1>1. /\ UNCHANGED <<convos, warns, calls, said, granted>> /\ \A i \in Instances : calls[i] = Idle
        /\ now' = now + 1 /\ now < MaxTime /\ now \in Times
    BY DEF tick, WarnedInv, Shape
  <1>2. now' \in Times /\ now <= now'
    BY <1>1, TrackerAssumption DEF Times
  <1>3. Shape'
    BY <1>1, <1>2 DEF WarnedInv, Shape
  <1>4. SaidInv'
    <2> SUFFICES ASSUME NEW c \in Convos, NEW m \in DOMAIN said[c] PROVE said[c][m] <= now'
      BY <1>1 DEF SaidInv
    <2>1. said[c] \in Seq(Times)
      BY DEF WarnedInv, Shape
    <2>2. said[c][m] \in Times /\ said[c][m] <= now
      BY <2>1, LenProperties, ElementOfSeq DEF WarnedInv, SaidInv
    <2> QED BY <1>1, <1>2, <2>2, TrackerAssumption DEF Times
  <1>5. CallInv'
    BY <1>1 DEF CallInv
  <1>6. BufferInv' /\ WarnNeedsMessage'
    BY <1>1 DEF WarnedInv, BufferInv, WarnNeedsMessage
  <1> QED BY <1>3, <1>4, <1>5, <1>6 DEF WarnedInv

LEMMA WarnedStep == KeysDiffer /\ WarnedInv /\ [ConvoNext]_convoVars => WarnedInv'
  <1> SUFFICES ASSUME KeysDiffer, WarnedInv, [ConvoNext]_convoVars PROVE WarnedInv'
    OBVIOUS
  <1>1. ASSUME NEW c \in Convos, trackConvo(c) PROVE WarnedInv'
    BY <1>1, TrackConvoStep
  <1>2. ASSUME NEW i \in Instances, trackWarn(i) PROVE WarnedInv'
    BY <1>2, ReadStep, CountStep, RecordStep DEF trackWarn
  <1>3. CASE UNCHANGED convoVars
    BY <1>3 DEF convoVars, WarnedInv, Shape, SaidInv, BufferInv, CallInv, heard, WarnNeedsMessage
  <1> QED BY <1>1, <1>2, <1>3, TickStep DEF ConvoNext

\* A warning is granted only within an hour of a message, although trackWarn takes no
\* lock, reads the messages before it counts and records after: as long as no two
\* conversations share a key.
THEOREM WarnsAfterMessage ==
  ASSUME KeysDiffer
  PROVE  ConvoSpec => []WarnNeedsMessage
  <1>1. WarnedInv => WarnNeedsMessage
    BY DEF WarnedInv
  <1>2. WarnedInv /\ [ConvoNext]_convoVars => WarnedInv'
    BY WarnedStep
  <1> QED BY InitWarned, <1>1, <1>2, PTL DEF ConvoSpec

-----------------------------------------------------------------------------
(***************************************************************************)
(* One warning for each message.                                           *)
(***************************************************************************)
Recent(i, q) == i \in DOMAIN q /\ i > Len(q) - 3

\* A buffer remembers the last three of a history, each in its slot.
Remembers(buf, q) ==
    /\ buf.cur = Len(q) % 3
    /\ \A i \in DOMAIN q : Recent(i, q) => buf.vals[(i - 1) % 3] = q[i]
    /\ \A n \in Slots : buf.vals[n] # Nothing => \E i \in DOMAIN q : Recent(i, q) /\ (i - 1) % 3 = n

CacheInv ==
    \A c \in Convos : LET k == Key[c] IN
        /\ IF convos[k] = Nothing THEN said[c] = <<>> ELSE Remembers(convos[k], said[c])
        /\ IF warns[k] = Nothing THEN granted[c] = <<>> ELSE Remembers(warns[k], granted[c])

\* The n-th warning came after the n-th message.
InStepInv ==
    \A c \in Convos : \A n \in DOMAIN granted[c] : n \in DOMAIN said[c] /\ said[c][n] <= granted[c][n]

\* A call holds the buffer in the cache, if there is one, and gets past the count only if a
\* message is left to warn for.
Sound(call) ==
    LET c == call.convo
        k == Key[call.convo]
    IN  /\ IF call.at = "count" /\ call.new
           THEN warns[k] = Nothing /\ call.buf.cur = 0 /\ \A n \in Slots : call.buf.vals[n] = Nothing
           ELSE warns[k] # Nothing /\ warns[k].id = call.buf.id
        /\ call.at = "count" /\ call.msgs > inWindow(current(call), call.start) => Len(granted[c]) < Len(said[c])
        /\ call.at = "set" => Len(granted[c]) < Len(said[c])

OneCallInv ==
    \A i \in Instances : calls[i] # Idle => Sound(calls[i]) /\ \A j \in Instances : calls[j] # Idle => j = i

\* In the first window, and while no two calls have overlapped.
QuietInv == now <= Window /\ ~raced => CacheInv /\ InStepInv /\ OneCallInv

LEMMA Emptied ==
  ASSUME NEW buf, buf.cur = 0, \A n \in Slots : buf.vals[n] = Nothing
  PROVE  Remembers(buf, <<>>)
  BY EmptySeq DEF Remembers

LEMMA Remembered ==
  ASSUME NEW buf \in Buffers, NEW q \in Seq(Times), NEW t \in Times, Remembers(buf, q)
  PROVE  Remembers(set(buf, t), Append(q, t))
  <1> DEFINE z == set(buf, t)
             r == Append(q, t)
  <1>1. /\ buf.cur \in Slots /\ buf.vals \in [Slots -> Times \cup {Nothing}]
        /\ Len(q) \in Nat /\ DOMAIN q = 1..Len(q) /\ Len(r) = Len(q) + 1 /\ DOMAIN r = 1..(Len(q) + 1)
    BY AppendProperties, LenProperties DEF Buffers
  <1>2. /\ z.cur = (buf.cur + 1) % 3 /\ z.vals[buf.cur] = t
        /\ \A n \in Slots : n # buf.cur => z.vals[n] = buf.vals[n]
    BY <1>1 DEF set
  <1>3. r[Len(q) + 1] = t /\ \A i \in 1..Len(q) : r[i] = q[i]
    BY <1>1, AppendProperties
  <1>4. buf.cur = Len(q) % 3
    BY DEF Remembers
  <1>5. \A i \in Int : (i - 1) % 3 \in Slots
    BY DEF Slots
  <1> HIDE DEF z, r
  <1>6. z.cur = Len(r) % 3
    BY <1>1, <1>2, <1>4
  <1>7. ASSUME NEW i \in DOMAIN r, Recent(i, r) PROVE z.vals[(i - 1) % 3] = r[i]
    <2>1. CASE i = Len(q) + 1
      BY <1>1, <1>2, <1>3, <1>4, <2>1
    <2>2. CASE i # Len(q) + 1
      <3>1. i \in DOMAIN q /\ Recent(i, q) /\ i > Len(q) - 2
        BY <1>1, <1>7, <2>2 DEF Recent
      <3>2. (i - 1) % 3 # buf.cur
        <4>1. i = Len(q) - 1 \/ i = Len(q)
          BY <1>1, <3>1
        <4> QED BY <1>1, <1>4, <4>1
      <3>3. buf.vals[(i - 1) % 3] = q[i]
        BY <3>1 DEF Remembers
      <3> QED BY <1>1, <1>2, <1>3, <1>5, <3>1, <3>2, <3>3
    <2> QED BY <2>1, <2>2
  <1>8. ASSUME NEW n \in Slots, z.vals[n] # Nothing
        PROVE  \E i \in DOMAIN r : Recent(i, r) /\ (i - 1) % 3 = n
    <2>1. CASE n = buf.cur
      <3>1. Len(q) + 1 \in DOMAIN r /\ Recent(Len(q) + 1, r)
        BY <1>1 DEF Recent
      <3> QED BY <1>1, <1>4, <2>1, <3>1
    <2>2. CASE n # buf.cur
      <3>1. PICK i \in DOMAIN q : Recent(i, q) /\ (i - 1) % 3 = n
        BY <1>2, <1>8, <2>2 DEF Remembers
      <3>2. i # Len(q) - 2
        BY <1>1, <1>4, <2>2, <3>1
      <3>3. i \in DOMAIN r /\ Recent(i, r)
        BY <1>1, <3>1, <3>2 DEF Recent
      <3> QED BY <3>1, <3>3
    <2> QED BY <2>1, <2>2
  <1> QED BY <1>6, <1>7, <1>8 DEF Remembers, z, r

\* Of two histories of one length, of which the second is later at every place, no more of
\* the first is in the window.
LEMMA NotMore ==
  ASSUME NEW a, NEW b, NEW q \in Seq(Times), NEW r \in Seq(Times), NEW t \in Times,
         Remembers(a, q), Remembers(b, r), Len(q) = Len(r), \A i \in DOMAIN q : q[i] <= r[i]
  PROVE  inWindow(a, t) <= inWindow(b, t)
  <1> DEFINE S(buf) == {n \in Slots : buf.vals[n] # Nothing /\ buf.vals[n] > t - Window}
  <1>1. DOMAIN q = DOMAIN r /\ \A i \in DOMAIN q : q[i] \in Times /\ r[i] \in Times
    BY LenProperties, ElementOfSeq
  <1>2. ASSUME NEW n \in Slots, a.vals[n] # Nothing, a.vals[n] > t - Window
        PROVE  b.vals[n] # Nothing /\ b.vals[n] > t - Window
    <2>1. PICK i \in DOMAIN q : Recent(i, q) /\ (i - 1) % 3 = n
      BY <1>2 DEF Remembers
    <2>2. a.vals[n] = q[i]
      BY <2>1 DEF Remembers
    <2>3. Recent(i, r) /\ i \in DOMAIN r
      BY <1>1, <2>1 DEF Recent
    <2>4. b.vals[n] = r[i]
      BY <2>1, <2>3 DEF Remembers
    <2>5. q[i] <= r[i] /\ q[i] \in Int /\ r[i] \in Int /\ t \in Int
      BY <1>1 DEF Times
    <2>6. b.vals[n] # Nothing
      BY <1>1, <2>4, NoneAssumption
    <2>7. q[i] > t - Window
      BY <1>2, <2>2
    <2> QED BY <2>4, <2>5, <2>6, <2>7, TrackerAssumption
  <1>3. S(a) \subseteq S(b)
    BY <1>2
  <1>4. IsFiniteSet(S(b))
    <2>1. 0 \in Int /\ 2 \in Int
      OBVIOUS
    <2>2. IsFiniteSet(Slots)
      BY <2>1, FS_Interval DEF Slots
    <2> QED BY <2>2, FS_Subset, S(b) \subseteq Slots
  <1>5. Cardinality(S(a)) <= Cardinality(S(b))
    BY <1>3, <1>4, FS_Subset
  <1> QED BY <1>5 DEF inWindow

LEMMA FirstWindow ==
  ASSUME Shape, now <= Window, NEW c \in Convos
  PROVE  /\ found(convos, Key[c]) <=> convos[Key[c]] # Nothing
         /\ found(warns, Key[c]) <=> warns[Key[c]] # Nothing
  <1>1. now \in Times /\ Key[c] \in Keys
    BY DEF Shape, Keys
  <1>2. ASSUME NEW buf \in Buffers PROVE now <= buf.id[2] + Window
    <2>1. buf.id[2] \in Times
      BY DEF Buffers, Ids
    <2> QED BY <1>1, <2>1, TrackerAssumption DEF Times
  <1> QED BY <1>1, <1>2 DEF Shape, found

LEMMA QuietInit == ConvoInit => QuietInv
  BY EmptySeq DEF ConvoInit, QuietInv, CacheInv, InStepInv, OneCallInv, Keys

LEMMA QuietConvo ==
  ASSUME WarnedInv, QuietInv, KeysDiffer, NEW c \in Convos, trackConvo(c)
  PROVE  QuietInv'
  <1> DEFINE k == Key[c]
             buf == IF found(convos, k) THEN convos[k] ELSE ringBuffer(<<Nothing, now>>)
  <1>1. /\ UNCHANGED <<now, warns, calls, granted, raced>>
        /\ said' = [said EXCEPT ![c] = Append(@, now)]
        /\ convos' = [convos EXCEPT ![k] = set(buf, now)]
    BY DEF trackConvo
  <1> SUFFICES ASSUME now <= Window, ~raced PROVE CacheInv' /\ InStepInv' /\ OneCallInv'
    BY <1>1 DEF QuietInv
  <1>2. Shape /\ CacheInv /\ InStepInv /\ OneCallInv /\ now \in Times /\ said[c] \in Seq(Times) /\ k \in Keys
    BY DEF WarnedInv, QuietInv, Shape, Keys
  <1>3. buf \in Buffers /\ Remembers(buf, said[c])
    <2>1. CASE convos[k] # Nothing
      BY <1>2, <2>1, FirstWindow DEF Shape, CacheInv
    <2>2. CASE convos[k] = Nothing
      <3>1. <<Nothing, now>> \in Ids
        BY <1>2 DEF Ids
      <3>2. buf = ringBuffer(<<Nothing, now>>) /\ said[c] = <<>>
        BY <1>2, <2>2, FirstWindow DEF CacheInv
      <3>3. buf.cur = 0
        BY <3>2 DEF ringBuffer
      <3> HIDE DEF buf
      <3> QED BY <3>1, <3>2, <3>3, RingBuffer, Emptied
    <2> QED BY <2>1, <2>2
  <1> HIDE DEF buf
  <1>4. set(buf, now) \in Buffers /\ Remembers(set(buf, now), Append(said[c], now))
    BY <1>2, <1>3, SetBuffer, Remembered
  <1>5. /\ convos'[k] = set(buf, now) /\ said'[c] = Append(said[c], now)
        /\ \A d \in Convos : d # c => convos'[Key[d]] = convos[Key[d]] /\ said'[d] = said[d]
    <2>1. \A d \in Convos : d # c => Key[d] # k /\ Key[d] \in Keys
      BY DEF KeysDiffer, Keys
    <2> QED BY <1>1, <1>2, <1>4, <2>1 DEF Shape
  <1>6. CacheInv'
    BY <1>1, <1>2, <1>4, <1>5, NoneAssumption DEF CacheInv
  <1>7. /\ \A d \in Convos : \A m \in DOMAIN said[d] : m \in DOMAIN said'[d] /\ said'[d][m] = said[d][m]
        /\ \A d \in Convos : Len(said[d]) <= Len(said'[d])
    <2>1. Len(Append(said[c], now)) = Len(said[c]) + 1 /\ Len(said[c]) \in Nat
      BY <1>2, AppendProperties, LenProperties
    <2>2. \A d \in Convos : Len(said[d]) \in Nat
      BY <1>2, LenProperties DEF Shape
    <2> QED BY <1>1, <1>2, <1>5, <2>1, <2>2, SaidGrows
  <1>8. InStepInv'
    BY <1>1, <1>2, <1>7 DEF InStepInv
  <1>9. OneCallInv'
    <2>1. \A i \in Instances : calls[i] # Idle => calls[i].convo \in Convos
      BY <1>2 DEF Shape, Call
    <2>2. \A d \in Convos : Len(said[d]) \in Nat /\ Len(said'[d]) \in Nat /\ Len(granted[d]) \in Nat
      <3>1. said' \in [Convos -> Seq(Times)]
        BY <1>1, <1>2, SaidGrows
      <3> QED BY <1>2, <3>1, LenProperties DEF Shape
    <2>3. \A d \in Convos : Len(granted[d]) < Len(said[d]) => Len(granted[d]) < Len(said'[d])
      BY <1>7, <2>2
    <2> QED BY <1>1, <1>2, <2>1, <2>3 DEF OneCallInv, Sound, current
  <1> QED BY <1>6, <1>8, <1>9

LEMMA QuietRead ==
  ASSUME WarnedInv, QuietInv, NEW i \in Instances, read(i)
  PROVE  QuietInv'
  <1>1. UNCHANGED <<now, convos, warns, said, granted>> /\ raced' = (raced \/ \E j \in Instances : calls[j] # Idle)
    BY DEF read
  <1> SUFFICES ASSUME now <= Window, ~raced, \A j \in Instances : calls[j] = Idle
               PROVE  CacheInv' /\ InStepInv' /\ OneCallInv'
    BY <1>1 DEF QuietInv
  <1>2. PICK c \in Convos :
           /\ found(convos, Key[c])
           /\ calls' = [calls EXCEPT ![i] =
                  [at |-> "count", convo |-> c, start |-> now, msgs |-> inWindow(convos[Key[c]], now),
                   new |-> ~found(warns, Key[c]),
                   buf |-> IF found(warns, Key[c]) THEN warns[Key[c]] ELSE ringBuffer(<<i, now>>)]]
    BY DEF read
  <1> DEFINE k == Key[c]
             buf == IF found(warns, k) THEN warns[k] ELSE ringBuffer(<<i, now>>)
  <1>0. PICK call : call = [at |-> "count", convo |-> c, start |-> now, msgs |-> inWindow(convos[k], now),
                            new |-> ~found(warns, k), buf |-> buf]
    OBVIOUS
  <1>3. /\ Shape /\ CacheInv /\ InStepInv /\ now \in Times
        /\ said[c] \in Seq(Times) /\ granted[c] \in Seq(Times)
    BY DEF WarnedInv, QuietInv, Shape
  <1>4. /\ call.at = "count" /\ call.convo = c /\ call.start = now /\ call.msgs = inWindow(convos[k], now)
        /\ call.buf = buf /\ (call.new <=> warns[k] = Nothing)
        /\ buf = IF warns[k] # Nothing THEN warns[k] ELSE ringBuffer(<<i, now>>)
    BY <1>0, <1>3, FirstWindow
  <1>5. warns[k] = Nothing => buf.cur = 0 /\ \A n \in Slots : buf.vals[n] = Nothing
    BY <1>4 DEF ringBuffer
  <1>6. \A j \in Instances : calls'[j] = IF j = i THEN call ELSE Idle
    BY <1>0, <1>2, <1>3 DEF Shape
  <1> HIDE DEF buf
  <1>7. Remembers(buf, granted[c]) /\ current(call) = buf
    BY <1>3, <1>4, <1>5, Emptied DEF CacheInv, current
  <1>8. call.msgs > inWindow(current(call), now) => Len(granted[c]) < Len(said[c])
    <2>1. SUFFICES ASSUME ~(Len(granted[c]) < Len(said[c])) PROVE inWindow(convos[k], now) <= inWindow(buf, now)
      BY <1>4, <1>7, Counted
    <2>2. Len(granted[c]) \in Nat /\ Len(said[c]) \in Nat /\ DOMAIN granted[c] = 1..Len(granted[c])
          /\ DOMAIN said[c] = 1..Len(said[c])
      BY <1>3, LenProperties
    <2>3. Len(granted[c]) = Len(said[c])
      <3>1. Len(granted[c]) # 0 => Len(granted[c]) \in DOMAIN granted[c]
        BY <2>2
      <3> QED BY <1>3, <2>1, <2>2, <3>1 DEF InStepInv
    <2>4. \A n \in DOMAIN said[c] : said[c][n] <= granted[c][n]
      BY <1>3, <2>2, <2>3 DEF InStepInv
    <2>5. Remembers(convos[k], said[c])
      BY <1>2, <1>3 DEF CacheInv, found
    <2> QED BY <1>3, <1>7, <2>3, <2>4, <2>5, NotMore
  <1>9. Sound(call)'
    <2>1. current(call)' = current(call)
      BY <1>1 DEF current
    <2> QED BY <1>1, <1>4, <1>5, <1>8, <2>1 DEF Sound
  <1>10. OneCallInv'
    BY <1>6, <1>9 DEF OneCallInv
  <1> QED BY <1>1, <1>3, <1>10 DEF CacheInv, InStepInv

LEMMA QuietCount ==
  ASSUME WarnedInv, QuietInv, KeysDiffer, NEW i \in Instances, count(i)
  PROVE  QuietInv'
  <1>0. PICK call : call = calls[i]
    OBVIOUS
  <1>00. PICK buf : buf = current(call)
    OBVIOUS
  <1> DEFINE c == call.convo
             k == Key[call.convo]
             denied == call.msgs <= inWindow(buf, call.start)
  <1>000. PICK next : next = [call EXCEPT !.at = "set", !.buf = buf]
    OBVIOUS
  <1>1. /\ UNCHANGED <<now, convos, said, granted, raced>> /\ call.at = "count"
        /\ warns' = IF call.new THEN [warns EXCEPT ![k] = buf] ELSE warns
        /\ calls' = [calls EXCEPT ![i] = IF denied THEN Idle ELSE next]
    BY <1>0, <1>00, <1>000 DEF count
  <1> SUFFICES ASSUME now <= Window, ~raced PROVE CacheInv' /\ InStepInv' /\ OneCallInv'
    BY <1>1 DEF QuietInv
  <1>2. Shape /\ CacheInv /\ InStepInv /\ OneCallInv /\ call \in Call /\ call # Idle
    BY <1>0, <1>1 DEF WarnedInv, QuietInv, Shape, Idle
  <1>3. c \in Convos /\ call.msgs \in Nat /\ call.buf \in Buffers /\ call.new \in BOOLEAN /\ k \in Keys
    BY <1>2 DEF Call, Keys
  <1>4. Sound(call) /\ \A j \in Instances : calls[j] # Idle => j = i
    BY <1>0, <1>2 DEF OneCallInv
  <1>5. /\ next.at = "set" /\ next.convo = c /\ next.buf = buf
    BY <1>2, <1>000 DEF Call
  <1>6. buf \in Buffers /\ Remembers(buf, granted[c]) /\ warns'[k] = buf /\ \A l \in Keys : l # k => warns'[l] = warns[l]
    <2>1. CASE call.new
      <3>1. warns[k] = Nothing /\ call.buf.cur = 0 /\ \A n \in Slots : call.buf.vals[n] = Nothing
        BY <1>1, <1>4, <2>1 DEF Sound
      <3>2. buf = call.buf /\ granted[c] = <<>>
        BY <1>00, <1>2, <1>3, <3>1 DEF current, CacheInv
      <3>3. Remembers(buf, granted[c])
        BY <3>1, <3>2, Emptied
      <3> QED BY <1>1, <1>2, <1>3, <2>1, <3>2, <3>3 DEF Shape
    <2>2. CASE ~call.new
      <3>1. warns[k] # Nothing /\ warns[k].id = call.buf.id
        BY <1>4, <2>2 DEF Sound
      <3>2. buf = warns[k] /\ warns[k] \in Buffers
        BY <1>00, <1>2, <1>3, <3>1 DEF current, Shape
      <3> QED BY <1>1, <1>2, <1>3, <2>2, <3>1, <3>2 DEF CacheInv
    <2> QED BY <2>1, <2>2
  <1>7. buf # Nothing
    BY <1>6, NoneAssumption
  <1>8. CacheInv'
    <2>1. \A d \in Convos : d # c => Key[d] # k /\ Key[d] \in Keys
      BY <1>3 DEF KeysDiffer, Keys
    <2> QED BY <1>1, <1>2, <1>6, <1>7, <2>1 DEF CacheInv
  <1>9. ~denied => Len(granted[c]) < Len(said[c])
    <2>1. inWindow(buf, call.start) \in Nat
      BY Counted
    <2> QED BY <1>00, <1>1, <1>3, <1>4, <2>1 DEF Sound
  <1>10. ~denied => Sound(next)'
    BY <1>1, <1>5, <1>6, <1>7, <1>9 DEF Sound
  <1>11. \A j \in Instances : calls'[j] = IF j = i THEN IF denied THEN Idle ELSE next ELSE Idle
    BY <1>1, <1>2, <1>4 DEF Shape
  <1>12. OneCallInv'
    BY <1>10, <1>11 DEF OneCallInv
  <1> QED BY <1>1, <1>2, <1>8, <1>12 DEF InStepInv

LEMMA QuietRecord ==
  ASSUME WarnedInv, QuietInv, KeysDiffer, NEW i \in Instances, record(i)
  PROVE  QuietInv'
  <1>0. PICK call : call = calls[i]
    OBVIOUS
  <1> DEFINE c == call.convo
             k == Key[call.convo]
             live == warns[k] # Nothing /\ warns[k].id = call.buf.id
  <1>1. /\ UNCHANGED <<now, convos, said, raced>> /\ call.at = "set" /\ calls' = [calls EXCEPT ![i] = Idle]
        /\ warns' = IF live THEN [warns EXCEPT ![k] = set(@, call.start)] ELSE warns
        /\ granted' = [granted EXCEPT ![c] = Append(@, now)]
    BY <1>0 DEF record
  <1> SUFFICES ASSUME now <= Window, ~raced PROVE CacheInv' /\ InStepInv' /\ OneCallInv'
    BY <1>1 DEF QuietInv
  <1>2. /\ Shape /\ SaidInv /\ CacheInv /\ InStepInv /\ OneCallInv /\ now \in Times
        /\ call \in Call /\ call # Idle
    BY <1>0, <1>1 DEF WarnedInv, QuietInv, Shape, Idle
  <1>3. c \in Convos /\ k \in Keys /\ said[c] \in Seq(Times) /\ granted[c] \in Seq(Times)
    BY <1>2 DEF Call, Keys, Shape
  <1>4. Sound(call) /\ call.start = now /\ \A j \in Instances : calls[j] # Idle => j = i
    BY <1>0, <1>2 DEF OneCallInv, WarnedInv, CallInv
  <1>5. live /\ Len(granted[c]) < Len(said[c])
    BY <1>1, <1>4 DEF Sound
  <1>6. warns[k] \in Buffers /\ Remembers(warns[k], granted[c])
    BY <1>2, <1>3, <1>5 DEF Shape, CacheInv
  <1>7. /\ set(warns[k], now) \in Buffers /\ set(warns[k], now) # Nothing
        /\ Remembers(set(warns[k], now), Append(granted[c], now))
    BY <1>2, <1>3, <1>6, SetBuffer, Remembered, NoneAssumption
  <1>8. /\ warns'[k] = set(warns[k], now) /\ granted'[c] = Append(granted[c], now)
        /\ \A d \in Convos : d # c => warns'[Key[d]] = warns[Key[d]] /\ granted'[d] = granted[d]
    <2>1. \A d \in Convos : d # c => Key[d] # k /\ Key[d] \in Keys
      BY <1>3 DEF KeysDiffer, Keys
    <2>2. warns \in [Keys -> Buffers \cup {Nothing}] /\ granted \in [Convos -> Seq(Times)]
      BY <1>2 DEF Shape
    <2>3. warns' = [warns EXCEPT ![k] = set(@, now)]
      BY <1>1, <1>4, <1>5
    <2> HIDE DEF c, k, live
    <2> QED BY <1>1, <1>3, <2>1, <2>2, <2>3
  <1>9. CacheInv'
    BY <1>1, <1>2, <1>7, <1>8 DEF CacheInv
  <1>10. InStepInv'
    <2>1. /\ DOMAIN Append(granted[c], now) = DOMAIN granted[c] \cup {Len(granted[c]) + 1}
          /\ \A n \in DOMAIN granted[c] : Append(granted[c], now)[n] = granted[c][n]
          /\ Append(granted[c], now)[Len(granted[c]) + 1] = now
      BY <1>2, <1>3, Grown
    <2>2. Len(granted[c]) + 1 \in DOMAIN said[c]
      BY <1>3, <1>5, LenProperties
    <2>3. said[c][Len(granted[c]) + 1] <= now
      BY <1>2, <1>3, <2>2 DEF SaidInv
    <2> QED BY <1>1, <1>2, <1>8, <2>1, <2>2, <2>3 DEF InStepInv
  <1>11. OneCallInv'
    <2>1. \A j \in Instances : calls'[j] = Idle
      BY <1>1, <1>2, <1>4 DEF Shape
    <2> QED BY <2>1 DEF OneCallInv
  <1> QED BY <1>9, <1>10, <1>11

LEMMA QuietTick ==
  ASSUME WarnedInv, QuietInv, tick
  PROVE  QuietInv'
  <1>1. /\ UNCHANGED <<convos, warns, calls, said, granted, raced>> /\ \A i \in Instances : calls[i] = Idle
        /\ now' = now + 1 /\ now \in Int
    BY DEF tick, WarnedInv, Shape, Times
  <1>2. now' <= Window => now <= Window
    BY <1>1, TrackerAssumption
  <1> QED BY <1>1, <1>2 DEF QuietInv, CacheInv, InStepInv, OneCallInv

LEMMA QuietStep == KeysDiffer /\ WarnedInv /\ QuietInv /\ [ConvoNext]_convoVars => QuietInv'
  <1> SUFFICES ASSUME KeysDiffer, WarnedInv, QuietInv, [ConvoNext]_convoVars PROVE QuietInv'
    OBVIOUS
  <1>1. ASSUME NEW c \in Convos, trackConvo(c) PROVE QuietInv'
    BY <1>1, QuietConvo
  <1>2. ASSUME NEW i \in Instances, trackWarn(i) PROVE QuietInv'
    BY <1>2, QuietRead, QuietCount, QuietRecord DEF trackWarn
  <1>3. CASE UNCHANGED convoVars
    BY <1>3 DEF convoVars, QuietInv, CacheInv, InStepInv, OneCallInv, Sound, current
  <1> QED BY <1>1, <1>2, <1>3, QuietTick DEF ConvoNext

\* Until the first buffer can expire, and while no two calls of trackWarn overlap, an
\* account grants at most one warning for each message, however many of its instances
\* warn and although a buffer remembers only three: as long as no two conversations share
\* a key.
THEOREM WarnsOncePerMessage ==
  ASSUME KeysDiffer
  PROVE  ConvoSpec => []WarningsPerMessage
  <1>1. WarnedInv /\ QuietInv => WarningsPerMessage
    <2> SUFFICES ASSUME WarnedInv, InStepInv, NEW c \in Convos PROVE Len(granted[c]) <= Len(said[c])
      BY DEF QuietInv, WarningsPerMessage, OnePerMessage
    <2>1. said[c] \in Seq(Times) /\ granted[c] \in Seq(Times)
      BY DEF WarnedInv, Shape
    <2>2. /\ Len(granted[c]) \in Nat /\ Len(said[c]) \in Nat
          /\ DOMAIN granted[c] = 1..Len(granted[c]) /\ DOMAIN said[c] = 1..Len(said[c])
      BY <2>1, LenProperties
    <2>3. Len(granted[c]) # 0 => Len(granted[c]) \in DOMAIN said[c]
      <3>1. Len(granted[c]) # 0 => Len(granted[c]) \in DOMAIN granted[c]
        BY <2>2
      <3> QED BY <3>1 DEF InStepInv
    <2> QED BY <2>2, <2>3
  <1>2. WarnedInv /\ [ConvoNext]_convoVars => WarnedInv'
    BY WarnedStep
  <1>3. WarnedInv /\ QuietInv /\ [ConvoNext]_convoVars => QuietInv'
    BY QuietStep
  <1> QED BY InitWarned, QuietInit, <1>1, <1>2, <1>3, PTL DEF ConvoSpec

-----------------------------------------------------------------------------
(***************************************************************************)
(* What a warning does: WarnMonitor.                                       *)
(***************************************************************************)

\* Longer away than this and the 16-bit arithmetic of calcElapsedWarningLevel wraps.
BackInTime == Periods \subseteq 0..655

(***************************************************************************)
(* The inductive invariant.                                                *)
(***************************************************************************)
\* A caller of ScaleWarningAndRateLimit sends while it holds the mutex, and only then.
HolderInv ==
    /\ pc \in [Scalers -> {"start", "send", "stop", "done"}]
    /\ \A p \in Scalers : pc[p] = "send" <=> mutex = p

ChanInv == chan = <<>> \/ \E x \in Int : chan = <<x>>

\* Until the account signs on the level is the stored one, and nothing goes on.
OfflineInv ==
    ~online => /\ mutex = None /\ chan = <<>> /\ mon = "select" /\ ~closed
               /\ warning \in Levels /\ stored = warning /\ away \in Periods

WarningInv == warning \in Int

\* With the mutex free, the session's level is the one that waits in the channel, or else
\* the one the consumer works on, or else the one it has stored and announced.
LevelInv ==
    online /\ mutex = None =>
        /\ chan # <<>> => chan = <<warning>>
        /\ chan = <<>> =>
               /\ mon \in {"signal", "store", "info", "announce"} => level = warning
               /\ mon \in {"info", "announce", "select"} => stored = warning
               /\ mon = "select" => told = warning

StoredInv == HolderInv /\ ChanInv /\ OfflineInv /\ WarningInv /\ LevelInv

-----------------------------------------------------------------------------
(***************************************************************************)
(* The steps.                                                              *)
(***************************************************************************)
LEMMA NoneIsNobody == None \notin Scalers
  BY ConstantsAssumption DEF Scalers, Decay

\* Back in time, a session starts with no more than the stored level.
LEMMA RestoredInRange ==
  ASSUME warning \in Levels, away \in 0..655
  PROVE  restored = warning - 50 * away /\ restored <= FullWarning
  <1>1. warning \in Int /\ 0 <= warning /\ warning <= 1000 /\ away \in Int /\ 0 <= away /\ away <= 655
    BY DEF Levels, FullWarning
  <1>2. calcElapsedWarningLevel(away) = -50 * away
    <2>1. away * warningDecayPct = -50 * away
      BY <1>1 DEF warningDecayPct
    <2>2. (-50 * away + 32768) % 65536 = -50 * away + 32768
      BY <1>1
    <2> QED BY <1>1, <2>1, <2>2 DEF calcElapsedWarningLevel, int16
  <1>3. (warning - 50 * away + 32768) % 65536 = warning - 50 * away + 32768
    BY <1>1
  <1>4. restored = warning - 50 * away
    BY <1>1, <1>2, <1>3 DEF restored, int16
  <1> QED BY <1>1, <1>4 DEF FullWarning

LEMMA InitStored == Init => StoredInv
  <1> SUFFICES ASSUME Init PROVE StoredInv
    OBVIOUS
  <1>1. warning \in Levels /\ warning \in Int
    BY ConstantsAssumption DEF Init, Levels
  <1>2. HolderInv
    BY NoneIsNobody DEF Init, HolderInv
  <1> QED BY <1>1, <1>2 DEF Init, StoredInv, ChanInv, OfflineInv, WarningInv, LevelInv

LEMMA SignOnStep ==
  ASSUME StoredInv, BackInTime, signOn
  PROVE  StoredInv'
  <1>1. /\ ~online /\ online' /\ UNCHANGED <<mutex, pc, mon, stored, closed>> /\ told' = warning'
        /\ chan' = IF warning = 0 \/ restored > FullWarning THEN <<>> ELSE <<warning'>>
    BY DEF signOn, RestoreWarningLevel
  <1>2. mutex = None /\ mon = "select" /\ warning \in Levels /\ stored = warning /\ away \in 0..655
    BY <1>1 DEF StoredInv, OfflineInv, BackInTime
  <1>3. restored = warning - 50 * away /\ restored <= FullWarning
    BY <1>2, RestoredInRange
  <1>4. restored \in Int /\ ~(restored > FullWarning)
    BY <1>2, <1>3 DEF Levels, FullWarning
  <1>5. warning' \in Int /\ (warning = 0 => warning' = 0)
    BY <1>2, <1>4 DEF signOn, RestoreWarningLevel, Scale
  <1>6. LevelInv' /\ ChanInv'
    BY <1>1, <1>2, <1>4, <1>5 DEF LevelInv, ChanInv
  <1> QED BY <1>1, <1>5, <1>6 DEF StoredInv, HolderInv, OfflineInv, WarningInv

\* The caller takes the mutex, and later sends the level and releases it.
LEMMA ScaleStep ==
  ASSUME StoredInv, NEW p \in Scalers, ScaleWarningAndRateLimit(p)
  PROVE  StoredInv'
  <1>1. CASE /\ online /\ online' /\ pc[p] = "start" /\ mutex = None
             /\ \E incr \in increments(p) : moved(incr)
             /\ mutex' = p /\ pc' = [pc EXCEPT ![p] = "send"] /\ UNCHANGED chan
    <2>1. PICK incr \in increments(p) : moved(incr)
      BY <1>1
    <2>2. incr \in Int
      BY ClassAssumption DEF increments, warningDecayPct
    <2>3. WarningInv'
      BY <2>1, <2>2 DEF StoredInv, WarningInv, moved, Scale
    <2>4. HolderInv'
      BY <1>1, NoneIsNobody DEF StoredInv, HolderInv
    <2> QED BY <1>1, <2>3, <2>4, NoneIsNobody DEF StoredInv, ChanInv, OfflineInv, LevelInv
  <1>2. CASE /\ pc[p] = "send" /\ chan' = <<warning>> /\ mutex' = None
             /\ pc' = [pc EXCEPT ![p] = afterScale(p)]
             /\ UNCHANGED <<online, warning, away, stored, closed>>
    <2>1. mutex = p /\ p # None /\ online
      BY <1>2, NoneIsNobody DEF StoredInv, HolderInv, OfflineInv
    <2>2. afterScale(p) \in {"done", "stop", "start"}
      BY DEF afterScale
    <2>3. HolderInv'
      BY <1>2, <2>1, <2>2, NoneIsNobody DEF StoredInv, HolderInv
    <2>4. LevelInv' /\ ChanInv'
      BY <1>2 DEF StoredInv, WarningInv, LevelInv, ChanInv
    <2> QED BY <1>2, <2>1, <2>3, <2>4 DEF StoredInv, OfflineInv, WarningInv
  <1> QED BY <1>1, <1>2 DEF ScaleWarningAndRateLimit, scaleVars

\* Steps of a caller or of the decay loop that concern neither the mutex nor the level.
LEMMA IdleStep ==
  ASSUME StoredInv,
         UNCHANGED <<online, warning, away, mutex, chan, mon, level, stored, told>>,
         closed' = closed \/ online,
         pc' = pc \/ \E p \in Scalers : \E q \in {"start", "done"} :
                         pc[p] # "send" /\ pc' = [pc EXCEPT ![p] = q]
  PROVE  StoredInv'
  <1>1. HolderInv'
    BY DEF StoredInv, HolderInv
  <1> QED BY <1>1 DEF StoredInv, ChanInv, OfflineInv, WarningInv, LevelInv

LEMMA ConsumerStep ==
  ASSUME StoredInv, Consumer
  PROVE  StoredInv'
  <1>1. UNCHANGED <<online, warning, away, mutex, pc, closed>>
    BY DEF Consumer, receiveWarning, sendSignal, SetWarnLevel, TLVUserInfo, BroadcastBuddyArrived,
           instanceClosed, scaleVars
  <1>2. HolderInv' /\ WarningInv'
    BY <1>1 DEF StoredInv, HolderInv, WarningInv
  <1>3. ChanInv' /\ OfflineInv'
    BY <1>1 DEF StoredInv, ChanInv, OfflineInv, Consumer, receiveWarning, sendSignal, SetWarnLevel,
                TLVUserInfo, BroadcastBuddyArrived, instanceClosed
  <1>4. LevelInv'
    <2>1. CASE receiveWarning
      <3>1. PICK x \in Int : chan = <<x>>
        BY <2>1 DEF StoredInv, ChanInv, receiveWarning
      <3>2. level' = x /\ chan' = <<>> /\ mon' \in {"signal", "store"}
        BY <2>1, <3>1 DEF receiveWarning
      <3>3. online /\ mutex = None => x = warning
        BY <3>1 DEF StoredInv, LevelInv
      <3> QED BY <1>1, <3>2, <3>3 DEF LevelInv
    <2>2. CASE sendSignal
      BY <1>1, <2>2 DEF StoredInv, LevelInv, sendSignal
    <2>3. CASE SetWarnLevel
      BY <1>1, <2>3 DEF StoredInv, LevelInv, SetWarnLevel
    <2>4. CASE TLVUserInfo
      BY <1>1, <2>4 DEF StoredInv, LevelInv, TLVUserInfo
    <2>5. CASE BroadcastBuddyArrived
      BY <1>1, <2>5 DEF StoredInv, LevelInv, BroadcastBuddyArrived
    <2>6. CASE instanceClosed
      BY <1>1, <2>6 DEF StoredInv, LevelInv, instanceClosed
    <2> QED BY <2>1, <2>2, <2>3, <2>4, <2>5, <2>6 DEF Consumer
  <1> QED BY <1>2, <1>3, <1>4 DEF StoredInv

LEMMA StoredStep == BackInTime /\ StoredInv /\ [Next]_vars => StoredInv'
  <1> SUFFICES ASSUME BackInTime, StoredInv, [Next]_vars PROVE StoredInv'
    OBVIOUS
  <1>1. CASE signOn
    BY <1>1, SignOnStep
  <1>2. ASSUME NEW p \in Scalers, ScaleWarningAndRateLimit(p) PROVE StoredInv'
    BY <1>2, ScaleStep
  <1>3. ASSUME NEW p \in Warners, refused(p) PROVE StoredInv'
    <2>1. p \in Scalers
      BY DEF Scalers
    <2> QED BY <1>3, <2>1, IdleStep DEF refused, scaleVars
  <1>4. CASE Consumer
    BY <1>4, ConsumerStep
  <1>5. CASE startTicker \/ closeFirst
    BY <1>5, IdleStep DEF startTicker, closeFirst, scaleVars
  <1>6. CASE stopTicker
    <2>1. Decay \in Scalers
      BY DEF Scalers
    <2> QED BY <1>6, <2>1, IdleStep DEF stopTicker, scaleVars
  <1>7. CASE UNCHANGED vars
    BY <1>7, IdleStep DEF vars, scaleVars
  <1> QED BY <1>1, <1>2, <1>3, <1>4, <1>5, <1>6, <1>7 DEF Next, Terminating

\* Whenever no level is on its way, the stored and the announced level are the session's,
\* however warnings, decay and the consumer interleave, for users who come back before
\* the elapsed periods overflow 16 bits.
THEOREM LevelIsStored ==
  ASSUME BackInTime
  PROVE  Spec => []StoredIsCurrent
  <1>1. StoredInv => StoredIsCurrent
    BY DEF StoredInv, LevelInv, StoredIsCurrent
  <1>2. StoredInv /\ [Next]_vars => StoredInv'
    BY StoredStep
  <1> QED BY InitStored, <1>1, <1>2, PTL DEF Spec

\* Nobody comes back with a higher warning level than on leaving, and nobody is still warned
\* after 20 decay periods (calcElapsedWarningLevel in foodgroup/icbm.go), for users who come
\* back before the elapsed periods overflow 16 bits.
THEOREM AbsenceForgives ==
  ASSUME BackInTime
  PROVE  Spec => ReturnForgives
  <1>1. ASSUME StoredInv, [Next]_vars, ~online, online'
        PROVE  warning' <= warning /\ (away * (-warningDecayPct) >= FullWarning => warning' = 0)
    <2>1. signOn
      BY <1>1 DEF Next, ScaleWarningAndRateLimit, refused, Consumer, receiveWarning, sendSignal,
                  SetWarnLevel, TLVUserInfo, BroadcastBuddyArrived, instanceClosed, startTicker,
                  stopTicker, closeFirst, Terminating, vars, scaleVars
    <2>2. warning \in Levels /\ away \in 0..655
      BY <1>1 DEF StoredInv, OfflineInv, BackInTime
    <2>3. restored = warning - 50 * away /\ restored <= FullWarning
      BY <2>2, RestoredInRange
    <2>4. warning \in 0..1000 /\ away \in Nat
      BY <2>2 DEF Levels, FullWarning
    <2>5. CASE warning = 0
      BY <2>1, <2>5 DEF signOn, RestoreWarningLevel
    <2>6. CASE warning # 0
      <3>1. warning' = IF 0 + restored < 0 THEN 0 ELSE 0 + restored
        BY <2>1, <2>3, <2>4, <2>6 DEF signOn, RestoreWarningLevel, Scale, FullWarning
      <3> QED BY <2>3, <2>4, <3>1 DEF FullWarning, warningDecayPct
    <2> QED BY <2>5, <2>6
  <1>2. StoredInv /\ [Next]_vars => [~online /\ online' =>
            warning' <= warning /\ (away * (-warningDecayPct) >= FullWarning => warning' = 0)]_scaleVars
    BY <1>1
  <1>3. StoredInv /\ [Next]_vars => StoredInv'
    BY StoredStep
  <1> QED BY InitStored, <1>2, <1>3, PTL DEF Spec, ReturnForgives
-----------------------------------------------------------------------------
(***************************************************************************)
(* What the monitor tells: RateLimit.                                      *)
(***************************************************************************)
\* The thresholds the instances were sent are those observed last.
NotifiedInv == notified = <<notified[1], notified[2]>> /\ notified[2] = seen[2]

LEMMA NotifiedStays == NotifiedInv /\ [RateNext]_allVars => NotifiedInv'
  <1> SUFFICES ASSUME NotifiedInv, [RateNext]_allVars PROVE NotifiedInv'
    OBVIOUS
  <1>1. CASE MonitorRateLimits
    BY <1>1 DEF NotifiedInv, MonitorRateLimits, ObserveRateChanges
  <1>2. CASE UNCHANGED <<seen, notified>>
    BY <1>2 DEF NotifiedInv
  <1>3. MonitorRateLimits \/ UNCHANGED <<seen, notified>>
    BY DEF RateNext, allVars, rateVars, Elapse, EvaluateRateLimit, SubscribeRateLimits,
           goQuiet, Warnings, SessionOver
  <1> QED BY <1>1, <1>2, <1>3

\* Whatever requests, ticks and warnings interleave, the monitor sends what it saw, and never
\* what it had sent already (OServiceService.MonitorRateLimits, Session.ObserveRateChanges).
THEOREM ToldOnce == RateSpec => ToldWhatWasSeen
  <1>1. RateInit => NotifiedInv
    BY DEF RateInit, NotifiedInv
  <1>2. NotifiedInv /\ [RateNext]_allVars =>
          [ notified' # notified =>
              /\ notified'[1] \in {seen'[1], notified[1]}
              /\ notified'[2] = seen'[2]
              /\ notified' # <<seen[1], seen[2]>> ]_allVars
    <2> SUFFICES ASSUME NotifiedInv, RateNext, notified' # notified
                 PROVE  /\ notified'[1] \in {seen'[1], notified[1]}
                        /\ notified'[2] = seen'[2]
                        /\ notified' # <<seen[1], seen[2]>>
      BY DEF allVars, rateVars
    <2>1. MonitorRateLimits
      BY DEF RateNext, allVars, rateVars, Elapse, EvaluateRateLimit, SubscribeRateLimits,
             goQuiet, Warnings, SessionOver
    <2>2. /\ notified'[1] \in {seen'[1], notified[1]}
          /\ notified'[2] = seen'[2]
      BY <2>1 DEF MonitorRateLimits, ObserveRateChanges, NotifiedInv
    <2>3. ASSUME notified' = <<seen[1], seen[2]>> PROVE FALSE
      <3>1. notified'[1] = seen[1] /\ notified'[2] = seen[2]
        BY <2>3
      <3>2. notified'[1] = notified[1] /\ notified'[2] = notified[2]
        BY <2>1, <3>1 DEF MonitorRateLimits, NotifiedInv
      <3>3. notified = <<seen[1], seen[2]>>
        BY <3>1, <3>2 DEF NotifiedInv
      <3> QED BY <2>3, <3>3
    <2> QED BY <2>2, <2>3
  <1> QED BY <1>1, <1>2, NotifiedStays, PTL DEF RateSpec, ToldWhatWasSeen

-----------------------------------------------------------------------------
(***************************************************************************)
(* Who is limited: RateLimit.                                              *)
(***************************************************************************)
\* The sum that is averaged fits into 32 bits: no pause is so long that it would not.
SumsFit == \A ms \in Gaps \cup {0} : Max * (WindowSize - 1) + ms <= MaxInt

\* At the clear level a request sent at once would not be limited.
ClearSparesOne == Limit * WindowSize <= Clear * (WindowSize - 1)

LEMMA NoWrap ==
  ASSUME NEW n \in 0..MaxInt
  PROVE  int32(n) = n
  <1>1. MaxInt \in Nat
    BY WindowAssumption
  <1> DEFINE a == n + MaxInt + 1
             b == 2 * (MaxInt + 1)
  <1>2. a \in Nat /\ b \in Nat /\ a < b
    BY <1>1
  <1>3. a % b = a
    <2> HIDE DEF a, b
    <2> QED BY <1>2
  <1> QED BY <1>1, <1>3 DEF int32

\* An average of numbers that are not below l is not below it.
LEMMA DivAtLeast ==
  ASSUME NEW n \in Nat, NEW d \in Nat \ {0}, NEW l \in Nat, l * d <= n
  PROVE  n \div d \in Nat /\ n \div d >= l
  OBVIOUS

LEMMA NewAverage ==
  ASSUME SumsFit, idle \in Gaps \cup {0}, currentLevel \in 0..Max,
         NEW l \in Nat, l <= Max, l * WindowSize <= currentLevel * (WindowSize - 1) + idle
  PROVE  newAvg \in l..Max
  <1> DEFINE n == currentLevel * (WindowSize - 1) + idle
  <1>1. /\ WindowSize \in Nat \ {0} /\ WindowSize - 1 \in Nat /\ idle \in Nat /\ MaxInt \in Nat
        /\ Max \in Nat /\ currentLevel \in Nat /\ currentLevel <= Max
    BY WindowAssumption, ClassAssumption
  <1>2. currentLevel * (WindowSize - 1) \in Nat /\ Max * (WindowSize - 1) \in Nat
    BY <1>1
  <1>3. currentLevel * (WindowSize - 1) <= Max * (WindowSize - 1)
    BY <1>1
  <1>4. Max * (WindowSize - 1) + idle <= MaxInt
    BY DEF SumsFit
  <1>5. idle \in 0..MaxInt /\ n \in 0..MaxInt
    BY <1>1, <1>2, <1>3, <1>4
  <1>6. int32(idle) = idle /\ int32(n) = n
    BY <1>5, NoWrap
  <1>7. average(idle) = n \div WindowSize
    BY <1>5, <1>6 DEF average, quotient
  <1>8. n \div WindowSize \in Nat /\ n \div WindowSize >= l
    <2> HIDE DEF n
    <2>1. l * WindowSize <= n
      BY DEF n
    <2> QED BY <1>1, <1>5, <2>1, DivAtLeast
  <1> HIDE DEF n
  <1> QED BY <1>1, <1>7, <1>8 DEF newAvg

\* Without warnings the class has its own thresholds.
UnwarnedInv ==
  /\ idle \in Gaps \cup {0} /\ warned \in Nat
  /\ warned = 0 => warning = 0 /\ limit = Limit /\ alert = Alert /\ clear = Clear

\* The average of a client that leaves the clear level between requests is not below it.
ServedInv ==
  patient /\ warned = 0 => /\ open /\ ~limitedNow /\ notified[1] \in {"clear", "alert"}
                           /\ currentLevel \in Clear..Max

LEMMA ScaleNumbers ==
  /\ Limit \in Nat /\ Alert \in Nat /\ Clear \in Nat /\ Max \in Nat /\ Disconnect \in Nat
  /\ Disconnect <= Limit /\ Limit <= Alert /\ Alert <= Clear /\ Clear <= Max
  /\ WindowSize \in Nat \ {0} /\ Gaps \subseteq Nat /\ MaxInt \in Nat
  BY ClassAssumption, WindowAssumption

LEMMA UnwarnedStays == UnwarnedInv /\ [RateNext]_allVars => UnwarnedInv'
  <1> SUFFICES ASSUME UnwarnedInv, [RateNext]_allVars PROVE UnwarnedInv'
    OBVIOUS
  <1>1. CASE Elapse
    BY <1>1 DEF Elapse, UnwarnedInv, scaleVars
  <1>2. CASE EvaluateRateLimit
    BY <1>2 DEF EvaluateRateLimit, UnwarnedInv, scaleVars
  <1>3. CASE Warnings
    <2>1. idle' = idle
      BY <1>3 DEF Warnings, rateVars
    <2>2. CASE EvilRequest
      <3>1. warned' = warned + 1
        BY <2>2 DEF EvilRequest
      <3> QED BY <2>1, <3>1 DEF UnwarnedInv
    <2>3. CASE decayTick
      <3>1. warned' = warned /\ warning > 0
        BY <2>3 DEF decayTick
      <3>2. warned # 0
        BY <3>1 DEF UnwarnedInv
      <3> QED BY <2>1, <3>1, <3>2 DEF UnwarnedInv
    <2> QED BY <1>3, <2>2, <2>3 DEF Warnings
  <1>4. CASE UNCHANGED <<scaleVars, idle>>
    BY <1>4 DEF UnwarnedInv, scaleVars
  <1> QED BY <1>1, <1>2, <1>3, <1>4 DEF RateNext, allVars, rateVars, SubscribeRateLimits,
             MonitorRateLimits, goQuiet, SessionOver

\* The request of a patient client, and a tick between two of them.
LEMMA PatientRequest ==
  ASSUME SumsFit, UnwarnedInv, ServedInv, EvaluateRateLimit
  PROVE  ServedInv'
  <1> SUFFICES ASSUME patient', warned' = 0
               PROVE  /\ open' /\ ~limitedNow' /\ notified'[1] \in {"clear", "alert"}
                      /\ currentLevel' \in Clear..Max
    BY DEF ServedInv
  <1>1. /\ patient /\ idle >= clear /\ warned = 0 /\ notified' = notified
        /\ currentLevel' = newAvg /\ (open' <=> CheckRateLimit # "disconnect")
        /\ limitedNow' <=> CheckRateLimit = "limited"
    BY DEF EvaluateRateLimit, scaleVars
  <1>2. /\ ~limitedNow /\ notified[1] \in {"clear", "alert"} /\ currentLevel \in Clear..Max
        /\ limit = Limit /\ alert = Alert /\ clear = Clear
    BY <1>1 DEF ServedInv, UnwarnedInv
  <1>3. idle \in Nat /\ idle >= Clear /\ currentLevel \in 0..Max
    BY <1>1, <1>2, ScaleNumbers DEF UnwarnedInv
  <1>4. Clear * WindowSize <= currentLevel * (WindowSize - 1) + idle
    <2>1. Clear * (WindowSize - 1) <= currentLevel * (WindowSize - 1)
      BY <1>2, ScaleNumbers
    <2>2. Clear * WindowSize = Clear * (WindowSize - 1) + Clear
      BY ScaleNumbers
    <2>3. Clear * (WindowSize - 1) \in Nat /\ currentLevel * (WindowSize - 1) \in Nat
      BY <1>3, ScaleNumbers
    <2> QED BY <1>3, <2>1, <2>2, <2>3, ScaleNumbers
  <1>5. newAvg \in Clear..Max
    BY <1>3, <1>4, ScaleNumbers, NewAverage DEF UnwarnedInv
  <1>6. CheckRateLimit = "clear"
    BY <1>2, <1>5, ScaleNumbers DEF CheckRateLimit
  <1> QED BY <1>1, <1>2, <1>5, <1>6

LEMMA PatientTick ==
  ASSUME SumsFit, ClearSparesOne, UnwarnedInv, ServedInv, MonitorRateLimits
  PROVE  ServedInv'
  <1> SUFFICES ASSUME patient', warned' = 0
               PROVE  /\ open' /\ ~limitedNow' /\ notified'[1] \in {"clear", "alert"}
                      /\ currentLevel' \in Clear..Max
    BY DEF ServedInv
  <1>1. patient /\ warned = 0 /\ open' = open
    BY DEF MonitorRateLimits, scaleVars
  <1>2. /\ open /\ ~limitedNow /\ notified[1] \in {"clear", "alert"} /\ currentLevel \in Clear..Max
        /\ limit = Limit /\ alert = Alert /\ clear = Clear
    BY <1>1 DEF ServedInv, UnwarnedInv
  <1>3. limitedNow' = limitedNow /\ currentLevel' = currentLevel
    BY <1>2 DEF MonitorRateLimits, ObserveRateChanges
  <1>4. idle \in Nat /\ currentLevel \in 0..Max
    BY <1>2, ScaleNumbers DEF UnwarnedInv
  <1>5. Limit * WindowSize <= currentLevel * (WindowSize - 1) + idle
    <2>1. Clear * (WindowSize - 1) <= currentLevel * (WindowSize - 1)
      BY <1>2, ScaleNumbers
    <2>2. Clear * (WindowSize - 1) \in Nat /\ currentLevel * (WindowSize - 1) \in Nat /\ Limit * WindowSize \in Nat
      BY <1>4, ScaleNumbers
    <2> QED BY <1>4, <2>1, <2>2 DEF ClearSparesOne
  <1>6. newAvg \in Limit..Max
    BY <1>4, <1>5, ScaleNumbers, NewAverage DEF UnwarnedInv
  <1>7. CheckRateLimit \in {"clear", "alert"}
    BY <1>2, <1>6, ScaleNumbers DEF CheckRateLimit
  <1>8. notified'[1] \in {"clear", "alert"}
    BY <1>2, <1>7 DEF MonitorRateLimits, ObserveRateChanges
  <1> QED BY <1>1, <1>2, <1>3, <1>8

\* A client that is not warned and leaves the clear level between requests is served, in
\* every class in which one request sent at once would be (CheckRateLimit).
THEOREM PatientServed == ASSUME SumsFit, ClearSparesOne PROVE RateSpec => []PatientIsServed
  <1> DEFINE Inv == UnwarnedInv /\ ServedInv
  <1>1. RateInit => Inv
    BY ScaleNumbers DEF RateInit, ScaleInit, UnwarnedInv, ServedInv
  <1>2. Inv /\ [RateNext]_allVars => Inv'
    <2> SUFFICES ASSUME UnwarnedInv, ServedInv, [RateNext]_allVars PROVE Inv'
      OBVIOUS
    <2>1. UnwarnedInv'
      BY UnwarnedStays
    <2>2. CASE EvaluateRateLimit
      BY <2>1, <2>2, PatientRequest
    <2>3. CASE MonitorRateLimits
      BY <2>1, <2>3, PatientTick
    <2>4. CASE UNCHANGED <<patient, open, limitedNow, notified, currentLevel>>
      <3>1. warned' = 0 => warned = 0
        <4>1. warned' = warned \/ warned' = warned + 1
          BY DEF RateNext, allVars, scaleVars, Elapse, EvaluateRateLimit, SubscribeRateLimits,
                 MonitorRateLimits, goQuiet, Warnings, EvilRequest, decayTick, SessionOver
        <4> QED BY <4>1 DEF UnwarnedInv
      <3> QED BY <2>1, <2>4, <3>1 DEF ServedInv
    <2>5. EvaluateRateLimit \/ MonitorRateLimits \/ UNCHANGED <<patient, open, limitedNow, notified, currentLevel>>
      BY DEF RateNext, allVars, rateVars, Elapse, SubscribeRateLimits, goQuiet, Warnings, SessionOver
    <2> QED BY <2>1, <2>2, <2>3, <2>4, <2>5
  <1>3. Inv => PatientIsServed
    BY DEF ServedInv, PatientIsServed
  <1> QED BY <1>1, <1>2, <1>3, PTL DEF RateSpec

=============================================================================
