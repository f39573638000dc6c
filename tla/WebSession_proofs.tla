-------------------------- MODULE WebSession_proofs --------------------------
(***************************************************************************)
(* Proofs about the life of web sessions, for every set of sessions, every  *)
(* scenario and every length of the polls and of the lease, within          *)
(* WebRoster: its requests, listeners and buddies act on the same sessions. *)
(***************************************************************************)
EXTENDS WebRoster, TLAPS

Starts == {"none", "registered", "online", "created", "listening", "seeding", "done", "failed"}
Modes == {"new", "idle", "polling", "lost", "gone", "refused"}

\* The fields of the records, with the types of those the arguments need; events and
\* views may hold anything.
SessShape == sess \in [Sessions -> [start : Starts, inst : {"none", "open", "closed"}, closed : BOOLEAN,
                                    idle : Nat, listener : {"none", "running", "busy", "ended"}]]

MgrShape == mgr \in [table : SUBSET Sessions, closed : BOOLEAN, reap : BOOLEAN]

ClosingShape == closing \in [Closers -> [todo : SUBSET Sessions, at : Sessions \cup {None},
                                         step : {"none", "queue", "instance", "join"}]]

QueueShape ==
  /\ queue = [s \in Sessions |-> queue[s]]
  /\ \A s \in Sessions : /\ DOMAIN queue[s] = {"events", "seq", "signal", "closed"}
                         /\ queue[s].signal \in BOOLEAN /\ queue[s].closed \in BOOLEAN

IsFetch(f) ==
  /\ DOMAIN f = {"at", "after", "age", "robbed"} /\ f.at \in {"none", "looking", "waiting"}
  /\ f.age \in Nat /\ f.robbed \in BOOLEAN
PollShape ==
  /\ poll = [s \in Sessions |-> [p \in Polls |-> poll[s][p]]]
  /\ \A s \in Sessions, p \in Polls : IsFetch(poll[s][p])

ClientShape ==
  /\ client = [s \in Sessions |-> client[s]]
  /\ \A s \in Sessions : /\ DOMAIN client[s] = {"mode", "wait", "missed", "view"}
                         /\ client[s].mode \in Modes
                         /\ client[s].wait \in Nat /\ client[s].missed \in BOOLEAN

Shapes == SessShape /\ MgrShape /\ ClosingShape /\ QueueShape /\ PollShape /\ ClientShape

-----------------------------------------------------------------------------
LEMMA Pushed ==
  ASSUME QueueShape, NEW s \in Sessions, NEW type, NEW data,
         queue' = [queue EXCEPT ![s] = Push(@, type, data)]
  PROVE  /\ QueueShape'
         /\ \A x \in Sessions \ {s} : queue'[x] = queue[x]
         /\ queue'[s].closed = queue[s].closed
         /\ queue[s].closed => queue'[s] = queue[s]
         /\ ~queue[s].closed => queue'[s].signal
  <1>1. queue' = [x \in Sessions |-> queue'[x]]
    BY DEF QueueShape
  <1>2. \A x \in Sessions \ {s} : queue'[x] = queue[x]
    BY DEF QueueShape
  <1>3. queue'[s] = Push(queue[s], type, data)
    BY DEF QueueShape
  <1>4. /\ queue'[s].closed = queue[s].closed
        /\ queue[s].closed => queue'[s] = queue[s]
        /\ ~queue[s].closed => queue'[s].signal = TRUE
    BY <1>3 DEF QueueShape, Push
  <1>5. DOMAIN queue'[s] = {"events", "seq", "signal", "closed"}
    BY <1>3 DEF QueueShape, Push
  <1> QED BY <1>1, <1>2, <1>4, <1>5 DEF QueueShape

\* The fetches that steps make of others.
LEMMA Fetches ==
  ASSUME NEW f, IsFetch(f)
  PROVE  /\ IsFetch([f EXCEPT !.at = "waiting"])
         /\ IsFetch([f EXCEPT !.robbed = TRUE])
         /\ IsFetch([f EXCEPT !.age = @ + 1])
         /\ [f EXCEPT !.at = "waiting"].at = "waiting" /\ [f EXCEPT !.at = "waiting"].age = f.age
         /\ [f EXCEPT !.at = "waiting"].after = f.after /\ [f EXCEPT !.at = "waiting"].robbed = f.robbed
         /\ [f EXCEPT !.robbed = TRUE].at = f.at /\ [f EXCEPT !.robbed = TRUE].age = f.age
         /\ [f EXCEPT !.robbed = TRUE].after = f.after /\ [f EXCEPT !.robbed = TRUE].robbed = TRUE
         /\ [f EXCEPT !.age = @ + 1].at = f.at /\ [f EXCEPT !.age = @ + 1].age = f.age + 1
         /\ [f EXCEPT !.age = @ + 1].after = f.after /\ [f EXCEPT !.age = @ + 1].robbed = f.robbed
  <1>1. /\ IsFetch([f EXCEPT !.at = "waiting"]) /\ IsFetch([f EXCEPT !.robbed = TRUE])
        /\ IsFetch([f EXCEPT !.age = @ + 1])
    BY DEF IsFetch
  <1> QED BY <1>1 DEF IsFetch

LEMMA NewFetches ==
  /\ \A after : IsFetch([at |-> "looking", after |-> after, age |-> 0, robbed |-> FALSE])
  /\ IsFetch(NoPoll)
  /\ NoPoll.at = "none" /\ NoPoll.age = 0 /\ NoPoll.robbed = FALSE
  BY DEF IsFetch, NoPoll

LEMMA PollSet ==
  ASSUME PollShape, NEW s \in Sessions, NEW p \in Polls, NEW f, IsFetch(f),
         poll' = [poll EXCEPT ![s][p] = f]
  PROVE  /\ PollShape'
         /\ \A x \in Sessions, q \in Polls : poll'[x][q] = IF x = s /\ q = p THEN f ELSE poll[x][q]
  BY DEF PollShape

\* The fetches of s once the left one has taken the signal from the live one.
LEMMA Robbed ==
  ASSUME PollShape, NEW s \in Sessions
  PROVE  /\ robLive(s) = [x \in Sessions |-> [q \in Polls |-> robLive(s)[x][q]]]
         /\ \A x \in Sessions, q \in Polls :
              /\ IsFetch(robLive(s)[x][q])
              /\ robLive(s)[x][q].at = poll[x][q].at /\ robLive(s)[x][q].age = poll[x][q].age
              /\ x # s \/ q # "live" => robLive(s)[x][q] = poll[x][q]
         /\ robLive(s)[s]["live"].robbed
  <1>0. "live" \in Polls
    BY DEF Polls
  <1>1. PICK f : f = [poll[s]["live"] EXCEPT !.robbed = TRUE]
    OBVIOUS
  <1>2. robLive(s) = [poll EXCEPT ![s] = [poll[s] EXCEPT !["live"] = f]]
    BY <1>1 DEF robLive
  <1>3. \A x \in Sessions, q \in Polls : robLive(s)[x][q] = IF x = s /\ q = "live" THEN f ELSE poll[x][q]
    BY <1>2 DEF PollShape, Polls
  <1>4. robLive(s) = [x \in Sessions |-> [q \in Polls |-> robLive(s)[x][q]]]
    BY <1>2 DEF PollShape, Polls
  <1>5. /\ IsFetch(f) /\ f.robbed = TRUE /\ f.at = poll[s]["live"].at /\ f.age = poll[s]["live"].age
    BY <1>0, <1>1, Fetches DEF PollShape
  <1> QED BY <1>0, <1>3, <1>4, <1>5 DEF PollShape

\* An answer clears the poll p, now being the polls as the answer finds them.
LEMMA AnsweredPoll ==
  ASSUME NEW s \in Sessions, NEW p \in Polls, NEW events, NEW now,
         now = [x \in Sessions |-> [q \in Polls |-> now[x][q]]],
         \A x \in Sessions, q \in Polls : IsFetch(now[x][q]),
         Answered(now, s, p, events)
  PROVE  /\ PollShape'
         /\ \A x \in Sessions, q \in Polls : poll'[x][q] = IF x = s /\ q = p THEN NoPoll ELSE now[x][q]
  <1>1. poll' = [now EXCEPT ![s][p] = NoPoll]
    BY DEF Answered
  <1>2. \A x \in Sessions, q \in Polls : poll'[x][q] = IF x = s /\ q = p THEN NoPoll ELSE now[x][q]
    BY <1>1
  <1>3. poll' = [x \in Sessions |-> [q \in Polls |-> poll'[x][q]]]
    BY <1>1
  <1>4. ASSUME NEW x \in Sessions, NEW q \in Polls PROVE IsFetch(poll'[x][q])
    <2>1. CASE x = s /\ q = p
      BY <2>1, <1>2, NewFetches
    <2>2. CASE x # s \/ q # p
      BY <2>2, <1>2
    <2> QED BY <2>1, <2>2
  <1> QED BY <1>2, <1>3, <1>4 DEF PollShape

LEMMA AnsweredNow ==
  ASSUME PollShape, NEW s \in Sessions, NEW p \in Polls, NEW events, Answered(poll, s, p, events)
  PROVE  /\ PollShape' /\ poll'[s][p] = NoPoll
         /\ \A x \in Sessions, q \in Polls : x # s \/ q # p => poll'[x][q] = poll[x][q]
  <1>1. /\ PollShape'
        /\ \A x \in Sessions, q \in Polls : poll'[x][q] = IF x = s /\ q = p THEN NoPoll ELSE poll[x][q]
    BY AnsweredPoll DEF PollShape
  <1> QED BY <1>1

LEMMA AnsweredClient ==
  ASSUME ClientShape, NEW s \in Sessions, NEW p \in Polls, NEW events, NEW now,
         Answered(now, s, p, events)
  PROVE  /\ ClientShape'
         /\ \A x \in Sessions \ {s} : client'[x] = client[x]
         /\ p = "live" => client'[s].mode = "idle"
         /\ p # "live" => client'[s].mode = client[s].mode
         /\ client'[s].missed = client[s].missed /\ client'[s].wait = client[s].wait
  BY DEF Answered, ClientShape, Modes, Polls

LEMMA ShapesInit == Init => Shapes
  <1> SUFFICES ASSUME Init PROVE Shapes
    OBVIOUS
  <1>1. SessShape /\ MgrShape
    BY DEF Init, SessionInit, SessShape, MgrShape, Starts
  <1>2. ClosingShape
    BY DEF Init, SessionInit, ClosingShape, Idle
  <1>3. QueueShape /\ ClientShape
    BY DEF Init, SessionInit, QueueShape, ClientShape, newClient, Modes
  <1>4. PollShape
    BY NewFetches DEF Init, SessionInit, PollShape
  <1> QED BY <1>1, <1>2, <1>3, <1>4 DEF Shapes

\* What a step leaves alone keeps its shape.
LEMMA SameShapes ==
  ASSUME Shapes
  PROVE  /\ sess' = sess => SessShape'
         /\ mgr' = mgr => MgrShape'
         /\ closing' = closing => ClosingShape'
         /\ queue' = queue => QueueShape'
         /\ poll' = poll => PollShape'
         /\ client' = client => ClientShape'
  BY DEF Shapes, SessShape, MgrShape, ClosingShape, QueueShape, PollShape, ClientShape

LEMMA ShapesStart ==
  ASSUME Shapes, NEW s \in Sessions,
         \/ Register(s) \/ StartError(s) \/ CreateSession(s)
         \/ StartListeningToOSCARSession(s) \/ CloseInstanceOutside(s)
  PROVE  Shapes'
  <1>1. CASE Register(s)
    <2>1. SessShape'
      BY <1>1, ZenonT(60) DEF Shapes, SessShape, Register, Starts
    <2> QED BY <1>1, <2>1, SameShapes DEF Register, Shapes
  <1>2. CASE StartError(s)
    <2>1. SessShape'
      BY <1>2, ZenonT(60) DEF Shapes, SessShape, StartError, StartFails, Starts
    <2>2. ClientShape'
      BY <1>2 DEF Shapes, ClientShape, StartError, StartFails, Modes
    <2> QED BY <1>2, <2>1, <2>2, SameShapes DEF StartError, StartFails, Shapes
  <1>3. CASE CreateSession(s)
    <2>1. SessShape'
      BY <1>3 DEF Shapes, SessShape, CreateSession, StartFails, Starts
    <2>2. MgrShape'
      BY <1>3 DEF Shapes, MgrShape, CreateSession, StartFails
    <2>3. ClientShape'
      BY <1>3 DEF Shapes, ClientShape, CreateSession, StartFails, Modes
    <2> QED BY <1>3, <2>1, <2>2, <2>3, SameShapes DEF CreateSession, StartFails, Shapes
  <1>4. CASE StartListeningToOSCARSession(s)
    <2>1. SessShape'
      BY <1>4, ZenonT(60) DEF Shapes, SessShape, StartListeningToOSCARSession, Starts
    <2> QED BY <1>4, <2>1, SameShapes DEF StartListeningToOSCARSession, Shapes
  <1>5. CASE CloseInstanceOutside(s)
    <2>1. SessShape'
      BY <1>5 DEF Shapes, SessShape, CloseInstanceOutside, Starts
    <2> QED BY <1>5, <2>1, SameShapes DEF CloseInstanceOutside, Shapes
  <1> QED BY <1>1, <1>2, <1>3, <1>4, <1>5

LEMMA ShapesClose ==
  ASSUME Shapes, 
         \/ reapExpired \/ Shutdown
         \/ \E c \in Closers : CloseMark(c) \/ CloseQueue(c) \/ CloseInstance(c) \/ CloseJoin(c)
         \/ \E s \in Sessions : EndSession(s)
  PROVE  Shapes'
  <1>1. CASE reapExpired
    <2>1. MgrShape'
      BY <1>1 DEF Shapes, MgrShape, reapExpired, Closers
    <2>2. ClosingShape'
      BY <1>1 DEF Shapes, ClosingShape, MgrShape, reapExpired, Closers
    <2> QED BY <1>1, <2>1, <2>2, SameShapes DEF reapExpired, Closers, Shapes
  <1>2. CASE Shutdown
    <2>1. MgrShape'
      BY <1>2 DEF Shapes, MgrShape, Shutdown, Closers
    <2>2. ClosingShape'
      BY <1>2 DEF Shapes, ClosingShape, MgrShape, Shutdown, Closers
    <2> QED BY <1>2, <2>1, <2>2, SameShapes DEF Shutdown, Closers, Shapes
  <1>3. ASSUME NEW c \in Closers, CloseMark(c) PROVE Shapes'
    <2>1. SessShape'
      <3>1. PICK s \in Sessions : sess' = [sess EXCEPT ![s].closed = TRUE]
        BY <1>3 DEF Shapes, ClosingShape, CloseMark
      <3> QED BY <3>1 DEF Shapes, SessShape, Starts
    <2>2. ClosingShape'
      BY <1>3 DEF Shapes, ClosingShape, CloseMark, Closers
    <2> QED BY <1>3, <2>1, <2>2, SameShapes DEF CloseMark, Closers, Shapes
  <1>4. ASSUME NEW c \in Closers, CloseQueue(c) PROVE Shapes'
    <2>1. QueueShape'
      BY <1>4 DEF Shapes, QueueShape, CloseQueue
    <2>2. ClosingShape'
      BY <1>4 DEF Shapes, ClosingShape, CloseQueue
    <2> QED BY <1>4, <2>1, <2>2, SameShapes DEF CloseQueue, Shapes
  <1>5. ASSUME NEW c \in Closers, CloseInstance(c) PROVE Shapes'
    <2>1. SessShape'
      BY <1>5 DEF Shapes, SessShape, CloseInstance, Starts
    <2>2. ClosingShape'
      BY <1>5 DEF Shapes, ClosingShape, CloseInstance
    <2> QED BY <1>5, <2>1, <2>2, SameShapes DEF CloseInstance, Shapes
  <1>6. ASSUME NEW c \in Closers, CloseJoin(c) PROVE Shapes'
    <2>1. ClosingShape'
      BY <1>6 DEF Shapes, ClosingShape, CloseJoin
    <2> QED BY <1>6, <2>1, SameShapes DEF CloseJoin, Shapes
  <1>7. ASSUME NEW s \in Sessions, EndSession(s) PROVE Shapes'
    <2>1. MgrShape'
      BY <1>7 DEF Shapes, MgrShape, EndSession, Closers
    <2>2. ClosingShape'
      BY <1>7 DEF Shapes, ClosingShape, EndSession, Closers
    <2>3. ClientShape'
      BY <1>7 DEF Shapes, ClientShape, EndSession, Closers, Modes
    <2> QED BY <1>7, <2>1, <2>2, <2>3, SameShapes DEF EndSession, Closers, Shapes
  <1> QED BY <1>1, <1>2, <1>3, <1>4, <1>5, <1>6, <1>7

LEMMA ShapesPoll ==
  ASSUME Shapes, NEW s \in Sessions,
         \/ FetchEvents(s) \/ HangUp(s) \/ FetchCancelled(s) \/ MissPoll(s) \/ Quit(s)
         \/ \E p \in Polls : FetchLooks(s, p) \/ FetchWakes(s, p) \/ FetchGivesUp(s, p)
  PROVE  Shapes'
  <1>0. "live" \in Polls /\ "left" \in Polls
    BY DEF Polls
  <1>1. CASE FetchEvents(s)
    <2>1. SessShape'
      BY <1>1 DEF Shapes, SessShape, FetchEvents, Touch, Starts
    <2>2. PollShape'
      <3>1. \/ poll' = [poll EXCEPT ![s]["live"] =
                          [at |-> "looking", after |-> client[s].view.last, age |-> 0, robbed |-> FALSE]]
            \/ poll' = poll
        BY <1>1 DEF FetchEvents
      <3> QED BY <1>0, <3>1, PollSet, NewFetches, SameShapes DEF Shapes
    <2>3. ClientShape'
      BY <1>1 DEF Shapes, ClientShape, FetchEvents, Touch, Modes
    <2> QED BY <1>1, <2>1, <2>2, <2>3, SameShapes DEF FetchEvents, Shapes
  <1>2. CASE HangUp(s)
    <2>1. PollShape'
      <3>1. /\ poll' = [x \in Sessions |-> [q \in Polls |-> poll'[x][q]]]
            /\ \A x \in Sessions, q \in Polls :
                 poll'[x][q] \in {poll[x][q], poll[s]["live"], NoPoll}
        BY <1>2 DEF Shapes, PollShape, HangUp, Polls
      <3> QED BY <1>0, <3>1, NewFetches DEF Shapes, PollShape
    <2>2. ClientShape'
      BY <1>2 DEF Shapes, ClientShape, HangUp, Modes
    <2> QED BY <1>2, <2>1, <2>2, SameShapes DEF HangUp, Shapes
  <1>3. CASE FetchCancelled(s)
    <2>2. PollShape'
      BY <1>0, <1>3, PollSet, NewFetches DEF Shapes, FetchCancelled
    <2> QED BY <1>3, <2>2, SameShapes DEF FetchCancelled, Shapes
  <1>4. CASE MissPoll(s)
    <2>1. ClientShape'
      BY <1>4 DEF Shapes, ClientShape, MissPoll, Modes
    <2> QED BY <1>4, <2>1, SameShapes DEF MissPoll, Shapes
  <1>5. CASE Quit(s)
    <2>1. ClientShape'
      BY <1>5 DEF Shapes, ClientShape, Quit, Modes
    <2> QED BY <1>5, <2>1, SameShapes DEF Quit, Shapes
  <1>6. ASSUME NEW p \in Polls, FetchLooks(s, p) PROVE Shapes'
    <2>1. PollShape' /\ ClientShape'
      <3>1. CASE poll' = [poll EXCEPT ![s][p].at = "waiting"] /\ UNCHANGED client
        <4>1. poll' = [poll EXCEPT ![s][p] = [poll[s][p] EXCEPT !.at = "waiting"]]
          BY <3>1
        <4>2. IsFetch([poll[s][p] EXCEPT !.at = "waiting"])
          BY Fetches DEF Shapes, PollShape
        <4>3. PollShape'
          BY <4>1, <4>2, PollSet DEF Shapes
        <4> QED BY <3>1, <4>3, SameShapes
      <3>2. CASE \E events : Answered(poll, s, p, events)
        BY <3>2, AnsweredNow, AnsweredClient DEF Shapes
      <3> QED BY <1>6, <3>1, <3>2 DEF FetchLooks
    <2> QED BY <1>6, <2>1, SameShapes DEF FetchLooks, Shapes
  <1>7. ASSUME NEW p \in Polls, FetchWakes(s, p) PROVE Shapes'
    <2>1. QueueShape'
      BY <1>7 DEF Shapes, QueueShape, FetchWakes
    <2>2. PollShape' /\ ClientShape'
      <3>1. PICK now, events :
               /\ now = poll \/ now = robLive(s)
               /\ Answered(now, s, p, events) \/ (poll' = now /\ client' = client)
        BY <1>7 DEF FetchWakes
      <3>2. /\ now = [x \in Sessions |-> [q \in Polls |-> now[x][q]]]
            /\ \A x \in Sessions, q \in Polls : IsFetch(now[x][q])
        BY <3>1, Robbed DEF Shapes, PollShape
      <3>3. CASE Answered(now, s, p, events)
        BY <3>2, <3>3, AnsweredPoll, AnsweredClient DEF Shapes
      <3>4. CASE poll' = now /\ client' = client
        BY <3>2, <3>4, SameShapes DEF PollShape
      <3> QED BY <3>1, <3>3, <3>4
    <2> QED BY <1>7, <2>1, <2>2, SameShapes DEF FetchWakes, Shapes
  <1>8. ASSUME NEW p \in Polls, FetchGivesUp(s, p) PROVE Shapes'
    <2>1. PollShape' /\ ClientShape'
      BY <1>8, AnsweredNow, AnsweredClient DEF Shapes, FetchGivesUp
    <2> QED BY <1>8, <2>1, SameShapes DEF FetchGivesUp, Shapes
  <1> QED BY <1>1, <1>2, <1>3, <1>4, <1>5, <1>6, <1>7, <1>8

LEMMA ShapesTick ==
  ASSUME Shapes, Tick
  PROVE  Shapes'
  <1>1. SessShape'
    <2>1. ASSUME NEW s \in Sessions
          PROVE  [sess[s] EXCEPT !.idle = IF s \in mgr.table /\ @ < TTL + 2 THEN @ + 1 ELSE @]
                   \in [start : Starts, inst : {"none", "open", "closed"}, closed : BOOLEAN,
                        idle : Nat, listener : {"none", "running", "busy", "ended"}]
      BY ConstantsAssumption DEF ConstantsAssumption, Shapes, SessShape, Starts
    <2> QED BY <2>1 DEF Tick, SessShape
  <1>2. MgrShape'
    BY DEF Shapes, MgrShape, Tick
  <1>3. PollShape'
    <2>1. ASSUME NEW s \in Sessions, NEW p \in Polls
          PROVE  IsFetch(poll'[s][p])
      <3>1. poll'[s][p] = [poll[s][p] EXCEPT !.age = IF poll[s][p].at = "waiting" THEN @ + 1 ELSE @]
        BY DEF Tick
      <3> QED BY <3>1 DEF Shapes, PollShape, IsFetch
    <2>2. poll' = [s \in Sessions |-> [p \in Polls |-> poll'[s][p]]]
      BY DEF Tick
    <2> QED BY <2>1, <2>2 DEF PollShape
  <1>4. ClientShape'
    <2>1. client' = [s \in Sessions |-> client'[s]]
      BY DEF Tick
    <2>2. ASSUME NEW s \in Sessions
          PROVE  /\ DOMAIN client'[s] = {"mode", "wait", "missed", "view"}
                 /\ client'[s].mode \in Modes
                 /\ client'[s].wait \in Nat /\ client'[s].missed \in BOOLEAN
      <3>1. \/ client'[s] = client[s]
            \/ client'[s] = [client[s] EXCEPT !.wait = @ + 1]
            \/ client'[s] = [client[s] EXCEPT !.mode = "idle", !.wait = 0]
        BY DEF Tick
      <3>2. /\ DOMAIN client[s] = {"mode", "wait", "missed", "view"} /\ client[s].mode \in Modes
            /\ client[s].wait \in Nat /\ client[s].missed \in BOOLEAN
        BY DEF Shapes, ClientShape
      <3>3. CASE client'[s] = [client[s] EXCEPT !.wait = @ + 1]
        BY <3>2, <3>3
      <3>4. CASE client'[s] = [client[s] EXCEPT !.mode = "idle", !.wait = 0]
        BY <3>2, <3>4 DEF Modes
      <3> QED BY <3>1, <3>2, <3>3, <3>4
    <2> QED BY <2>1, <2>2 DEF ClientShape
  <1> QED BY <1>1, <1>2, <1>3, <1>4, SameShapes DEF Tick, Shapes

LEMMA ShapesRoster ==
  ASSUME Shapes, NEW s \in Sessions,
         \/ ClientOnline(s) \/ SeedRenders(s) \/ SeedPushes(s) \/ ReceiveIM(s) \/ ListenerEnds(s)
         \/ handleFeedbagMessage(s) \/ refreshBuddyList(s) \/ handleBuddyMessage(s) \/ handleIncomingIM(s)
         \/ \E r \in Requests, o \in budget.ops : Edit(r, s, o)
  PROVE  Shapes'
  <1>1. CASE ClientOnline(s)
    <2>1. SessShape'
      BY <1>1 DEF Shapes, SessShape, ClientOnline, Starts
    <2> QED BY <1>1, <2>1, SameShapes DEF ClientOnline, Shapes
  <1>2. CASE SeedRenders(s)
    <2>1. SessShape'
      BY <1>2 DEF Shapes, SessShape, SeedRenders, Starts
    <2> QED BY <1>2, <2>1, SameShapes DEF SeedRenders, Shapes
  <1>3. CASE SeedPushes(s)
    <2>1. SessShape'
      BY <1>3 DEF Shapes, SessShape, SeedPushes, Starts
    <2>2. QueueShape'
      BY <1>3, Pushed DEF Shapes, SeedPushes
    <2>3. ClientShape'
      BY <1>3 DEF Shapes, ClientShape, SeedPushes, Modes
    <2> QED BY <1>3, <2>1, <2>2, <2>3, SameShapes DEF SeedPushes, Shapes
  <1>4. CASE ReceiveIM(s)
    <2> QED BY <1>4, SameShapes DEF ReceiveIM, Shapes
  <1>5. CASE ListenerEnds(s)
    <2>1. SessShape'
      BY <1>5 DEF Shapes, SessShape, ListenerEnds, Starts
    <2>2. QueueShape'
      BY <1>5, Pushed DEF Shapes, ListenerEnds
    <2> QED BY <1>5, <2>1, <2>2, SameShapes DEF ListenerEnds, Shapes
  <1>6. CASE handleFeedbagMessage(s)
    <2>1. SessShape'
      BY <1>6 DEF Shapes, SessShape, handleFeedbagMessage, Starts
    <2> QED BY <1>6, <2>1, SameShapes DEF handleFeedbagMessage, Shapes
  <1>7. CASE refreshBuddyList(s)
    <2>1. SessShape'
      BY <1>7 DEF Shapes, SessShape, refreshBuddyList, Starts
    <2>2. QueueShape'
      BY <1>7, Pushed DEF Shapes, refreshBuddyList
    <2> QED BY <1>7, <2>1, <2>2, SameShapes DEF refreshBuddyList, Shapes
  <1>8. CASE handleBuddyMessage(s)
    <2>1. QueueShape'
      BY <1>8, Pushed DEF Shapes, handleBuddyMessage
    <2> QED BY <1>8, <2>1, SameShapes DEF handleBuddyMessage, Shapes
  <1>9. CASE handleIncomingIM(s)
    <2>1. QueueShape'
      BY <1>9, Pushed DEF Shapes, handleIncomingIM
    <2> QED BY <1>9, <2>1, SameShapes DEF handleIncomingIM, Shapes
  <1>10. ASSUME NEW r \in Requests, NEW o \in budget.ops, Edit(r, s, o) PROVE Shapes'
    <2>1. SessShape'
      BY <1>10 DEF Shapes, SessShape, Edit, Touch, Starts
    <2> QED BY <1>10, <2>1, SameShapes DEF Edit, Touch, Shapes
  <1> QED BY <1>1, <1>2, <1>3, <1>4, <1>5, <1>6, <1>7, <1>8, <1>9, <1>10

-----------------------------------------------------------------------------
(***************************************************************************)
(* The steps, grouped by what they touch of a session's life.              *)
(***************************************************************************)
StartStep(s) ==
  \/ Register(s) \/ StartError(s) \/ CreateSession(s)
  \/ StartListeningToOSCARSession(s) \/ CloseInstanceOutside(s)
CloseStep ==
  \/ reapExpired \/ Shutdown
  \/ \E c \in Closers : CloseMark(c) \/ CloseQueue(c) \/ CloseInstance(c) \/ CloseJoin(c)
  \/ \E s \in Sessions : EndSession(s)
PollStep(s) ==
  \/ FetchEvents(s) \/ HangUp(s) \/ FetchCancelled(s) \/ MissPoll(s) \/ Quit(s)
  \/ \E p \in Polls : FetchLooks(s, p) \/ FetchWakes(s, p) \/ FetchGivesUp(s, p)
ListStep(s) ==
  \/ ClientOnline(s) \/ SeedRenders(s) \/ SeedPushes(s) \/ ReceiveIM(s) \/ ListenerEnds(s)
  \/ handleFeedbagMessage(s) \/ refreshBuddyList(s) \/ handleBuddyMessage(s) \/ handleIncomingIM(s)
  \/ \E r \in Requests, o \in budget.ops : Edit(r, s, o)

LEMMA Steps ==
  ASSUME [Next]_vars
  PROVE  \/ UNCHANGED <<mgr, sess, closing, queue, poll, client>>
         \/ CloseStep \/ Tick
         \/ \E s \in Sessions : StartStep(s) \/ PollStep(s) \/ ListStep(s)
  <1>1. CASE UNCHANGED vars
    BY <1>1 DEF vars, websessionVars
  <1>2. CASE SessionNext
    BY <1>2 DEF SessionNext, StartStep, CloseStep, PollStep, ListStep
  <1>3. CASE Tick
    BY <1>3
  <1>4. CASE \E b \in Buddies : BuddyMoves(b)
    BY <1>4 DEF BuddyMoves
  <1>5. CASE \E r \in Requests : \/ EditReads(r) \/ EditStores(r) \/ EditFails(r) \/ EditTells(r)
                                 \/ EditForgets(r) \/ EditEnds(r)
    BY <1>5 DEF EditReads, EditStores, EditFails, EditTells, EditForgets, EditEnds, websessionVars
  <1>6. CASE \E s \in Sessions :
               \/ ClientOnline(s) \/ SeedRenders(s) \/ SeedPushes(s) \/ ReceiveIM(s)
               \/ handleFeedbagMessage(s) \/ refreshBuddyList(s) \/ handleBuddyMessage(s)
               \/ handleIncomingIM(s) \/ \E r \in Requests, o \in budget.ops : Edit(r, s, o)
    BY <1>6 DEF ListStep
  <1> QED BY <1>1, <1>2, <1>3, <1>4, <1>5, <1>6 DEF Next, SessionStep, TimePasses

LEMMA ShapesStep ==
  ASSUME Shapes, [Next]_vars
  PROVE  Shapes'
  <1>1. CASE UNCHANGED <<mgr, sess, closing, queue, poll, client>>
    BY <1>1, SameShapes DEF Shapes
  <1>2. CASE CloseStep
    BY <1>2, ShapesClose DEF CloseStep
  <1>3. CASE Tick
    BY <1>3, ShapesTick
  <1>4. ASSUME NEW s \in Sessions, StartStep(s) PROVE Shapes'
    BY <1>4, ShapesStart DEF StartStep
  <1>5. ASSUME NEW s \in Sessions, PollStep(s) PROVE Shapes'
    BY <1>5, ShapesPoll DEF PollStep
  <1>6. ASSUME NEW s \in Sessions, ListStep(s) PROVE Shapes'
    BY <1>6, ShapesRoster DEF ListStep
  <1> QED BY <1>1, <1>2, <1>3, <1>4, <1>5, <1>6, Steps

-----------------------------------------------------------------------------
(***************************************************************************)
(* No orphan.                                                              *)
(***************************************************************************)
\* A session nobody has begun is filed nowhere.
StartInv ==
  \A s \in Sessions : sess[s].start = "none" =>
    sess[s].inst = "none" /\ s \notin mgr.table /\ ~BeingClosed(s)

\* A caller of Close has a session in hand up to the end of the call, and waits for
\* its listener only after it has closed the instance.
CloserInv ==
  \A c \in Closers : /\ closing[c].at = None <=> closing[c].step = "none"
                     /\ closing[c].step = "join" => sess[closing[c].at].inst = "closed"

\* Who marked a session closes its instance: the other callers may leave it alone.
ClosedInv ==
  \A s \in Sessions : sess[s].closed =>
    \/ sess[s].inst = "closed"
    \/ \E c \in Closers : closing[c].at = s /\ closing[c].step \in {"queue", "instance"}

\* Nobody is given sessions to close while it has some left.
TodoInv ==
  /\ \A s \in Sessions : closing[s].todo \subseteq {s}
  /\ mgr.reap => closing["reaper"].todo = {}
  /\ ~mgr.closed => closing["shutdown"].todo = {}

TableInv == mgr.closed => mgr.table = {}

OrphanInv == StartInv /\ CloserInv /\ ClosedInv /\ TodoInv /\ TableInv /\ NoOrphan

LEMMA OrphanInit == Init => OrphanInv
  BY ConstantsAssumption
     DEF Init, SessionInit, OrphanInv, StartInv, CloserInv, ClosedInv, TodoInv, TableInv, NoOrphan,
         BeingClosed, Closers, Idle, ConstantsAssumption

\* A caller that has a session in hand has one of the sessions.
LEMMA AtIsSession ==
  ASSUME Shapes, CloserInv, NEW c \in Closers, closing[c].step # "none"
  PROVE  closing[c].at \in Sessions
  BY DEF Shapes, ClosingShape, CloserInv

\* A step that leaves the instances, their closing and the table alone.
LEMMA OrphanFrame ==
  ASSUME Shapes, OrphanInv, mgr' = mgr, closing' = closing,
         \A s \in Sessions : /\ sess'[s].inst = sess[s].inst /\ sess'[s].closed = sess[s].closed
                             /\ sess[s].start # sess'[s].start =>
                                  /\ sess'[s].start # "none"
                                  /\ Starting(s) => sess'[s].start = "online"
  PROVE  OrphanInv'
  <1>1. StartInv'
    BY DEF OrphanInv, StartInv, BeingClosed
  <1>2. CloserInv'
    BY AtIsSession DEF OrphanInv, CloserInv
  <1>3. ClosedInv'
    BY DEF OrphanInv, ClosedInv
  <1>4. TodoInv' /\ TableInv'
    BY DEF OrphanInv, TodoInv, TableInv
  <1>5. NoOrphan'
    BY DEF OrphanInv, NoOrphan, Starting, BeingClosed
  <1> QED BY <1>1, <1>2, <1>3, <1>4, <1>5 DEF OrphanInv

\* A step of StartSession, or the end of an instance: s changes, the rest stays.
LEMMA OrphanStart ==
  ASSUME Shapes, OrphanInv, NEW s \in Sessions, StartStep(s)
  PROVE  OrphanInv'
  <1>1. \A x \in Sessions \ {s} : sess'[x] = sess[x]
    BY DEF StartStep, Register, StartError, CreateSession, StartFails, StartListeningToOSCARSession,
           CloseInstanceOutside, Shapes, SessShape
  <1>2. /\ sess'[s].closed = sess[s].closed /\ sess'[s].start # "none"
        /\ sess[s].inst = "closed" => sess'[s].inst = "closed"
        /\ sess'[s].inst = "open" =>
             \/ sess'[s].start \in {"registered", "online"}
             \/ sess[s].start = "online" /\ s \in mgr'.table /\ ~mgr'.closed
             \/ sess[s].inst = "open" /\ sess[s].start \notin {"registered", "online"}
    BY DEF StartStep, Register, StartError, CreateSession, StartFails, StartListeningToOSCARSession,
           CloseInstanceOutside, Shapes, SessShape, MgrShape, OrphanInv, StartInv, Starts
  <1>3. /\ closing' = closing /\ mgr'.closed = mgr.closed /\ mgr'.reap = mgr.reap
        /\ mgr'.table \in {mgr.table, mgr.table \cup {s}} /\ (mgr.closed => mgr'.table = mgr.table)
    BY DEF StartStep, Register, StartError, CreateSession, StartListeningToOSCARSession,
           CloseInstanceOutside, Shapes, MgrShape
  <1>4. StartInv'
    BY <1>1, <1>2, <1>3 DEF OrphanInv, StartInv, BeingClosed
  <1>5. CloserInv'
    BY <1>1, <1>2, <1>3, AtIsSession DEF OrphanInv, CloserInv
  <1>6. ClosedInv'
    BY <1>1, <1>2, <1>3 DEF OrphanInv, ClosedInv
  <1>7. TodoInv' /\ TableInv'
    BY <1>3 DEF OrphanInv, TodoInv, TableInv
  <1>8. NoOrphan'
    BY <1>1, <1>2, <1>3 DEF OrphanInv, NoOrphan, Starting, BeingClosed
  <1> QED BY <1>4, <1>5, <1>6, <1>7, <1>8 DEF OrphanInv

LEMMA OrphanClose ==
  ASSUME Shapes, OrphanInv, CloseStep
  PROVE  OrphanInv'
  <1>1. CASE reapExpired
    <2>1. /\ sess' = sess /\ ~mgr'.reap /\ mgr'.closed = mgr.closed
          /\ \A s \in mgr.table \ mgr'.table : s \in closing'["reaper"].todo
          /\ mgr'.table \subseteq mgr.table /\ closing'["reaper"].todo \subseteq mgr.table
          /\ closing["reaper"].todo = {}
          /\ \A c \in Closers : closing'[c].at = closing[c].at /\ closing'[c].step = closing[c].step
          /\ \A c \in Closers \ {"reaper"} : closing'[c].todo = closing[c].todo
      BY <1>1 DEF reapExpired, Shapes, MgrShape, ClosingShape, OrphanInv, TodoInv, Closers
    <2>2. StartInv' /\ ClosedInv' /\ TableInv'
      BY <2>1 DEF OrphanInv, StartInv, ClosedInv, TableInv, BeingClosed
    <2>3. CloserInv'
      BY <2>1, AtIsSession DEF OrphanInv, CloserInv
    <2>4. TodoInv'
      BY <2>1, ConstantsAssumption DEF OrphanInv, TodoInv, Closers, ConstantsAssumption
    <2>5. NoOrphan'
      BY <2>1 DEF OrphanInv, NoOrphan, Starting, BeingClosed, Closers
    <2> QED BY <2>2, <2>3, <2>4, <2>5 DEF OrphanInv
  <1>2. CASE Shutdown
    <2>1. /\ sess' = sess /\ ~mgr'.reap /\ mgr'.closed /\ mgr'.table = {}
          /\ closing'["shutdown"].todo = mgr.table
          /\ closing["shutdown"].todo = {}
          /\ \A c \in Closers : closing'[c].at = closing[c].at /\ closing'[c].step = closing[c].step
          /\ \A c \in Closers \ {"shutdown"} : closing'[c].todo = closing[c].todo
      BY <1>2 DEF Shutdown, Shapes, MgrShape, ClosingShape, OrphanInv, TodoInv, Closers
    <2>2. StartInv' /\ ClosedInv' /\ TableInv'
      BY <2>1 DEF OrphanInv, StartInv, ClosedInv, TableInv, BeingClosed
    <2>3. CloserInv'
      BY <2>1, AtIsSession DEF OrphanInv, CloserInv
    <2>4. TodoInv'
      BY <2>1, ConstantsAssumption DEF OrphanInv, TodoInv, Closers, ConstantsAssumption
    <2>5. NoOrphan'
      BY <2>1 DEF OrphanInv, NoOrphan, Starting, BeingClosed, Closers
    <2> QED BY <2>2, <2>3, <2>4, <2>5 DEF OrphanInv
  <1>3. ASSUME NEW c \in Closers, CloseMark(c) PROVE OrphanInv'
    <2>1. PICK s \in closing[c].todo :
             /\ closing' = [closing EXCEPT ![c] =
                  [todo |-> @.todo \ {s}, at |-> IF sess[s].closed THEN None ELSE s,
                   step |-> IF sess[s].closed THEN "none" ELSE "queue"]]
             /\ sess' = [sess EXCEPT ![s].closed = TRUE]
      BY <1>3 DEF CloseMark
    <2>2. s \in Sessions /\ mgr' = mgr /\ closing[c].at = None /\ closing[c].step = "none"
      BY <1>3, <2>1 DEF CloseMark, Shapes, ClosingShape, OrphanInv, CloserInv
    <2>3. \A x \in Sessions : /\ sess'[x].inst = sess[x].inst /\ sess'[x].start = sess[x].start
                              /\ x # s => sess'[x].closed = sess[x].closed
      BY <2>1, <2>2 DEF Shapes, SessShape
    <2>4. \A d \in Closers : d # c => closing'[d] = closing[d]
      BY <2>1 DEF Shapes, ClosingShape
    <2>5. /\ closing'[c].todo = closing[c].todo \ {s}
          /\ sess[s].closed => closing'[c].at = None /\ closing'[c].step = "none"
          /\ ~sess[s].closed => closing'[c].at = s /\ closing'[c].step = "queue"
      BY <2>1 DEF Shapes, ClosingShape
    <2>6. StartInv' /\ TableInv'
      BY <2>2, <2>3, <2>4, <2>5, ConstantsAssumption
         DEF OrphanInv, StartInv, TableInv, BeingClosed, ConstantsAssumption
    <2>7. CloserInv'
      BY <2>2, <2>3, <2>4, <2>5, AtIsSession, ConstantsAssumption DEF OrphanInv, CloserInv, ConstantsAssumption
    <2>8. ClosedInv'
      BY <2>2, <2>3, <2>4, <2>5 DEF OrphanInv, ClosedInv
    <2>9. TodoInv'
      BY <2>2, <2>4, <2>5 DEF OrphanInv, TodoInv, Closers
    <2>10. NoOrphan'
      <3> SUFFICES ASSUME NEW x \in Sessions, sess'[x].inst = "open"
                   PROVE  (Starting(x) \/ (x \in mgr.table /\ ~mgr.closed) \/ BeingClosed(x))'
        BY DEF NoOrphan
      <3>1. CASE Starting(x) \/ (x \in mgr.table /\ ~mgr.closed)
        BY <3>1, <2>2, <2>3 DEF Starting
      <3>2. CASE x = s /\ sess[s].closed
        <4>1. PICK d \in Closers : closing[d].at = s /\ closing[d].step \in {"queue", "instance"}
          BY <3>2, <2>3 DEF OrphanInv, ClosedInv
        <4> QED BY <3>2, <4>1, <2>2, <2>4 DEF BeingClosed
      <3>3. CASE x = s /\ ~sess[s].closed
        BY <3>3, <2>5 DEF BeingClosed
      <3>4. CASE x # s /\ BeingClosed(x)
        <4>1. PICK d \in Closers : x \in closing[d].todo \/ closing[d].at = x
          BY <3>4 DEF BeingClosed
        <4>2. x \in closing'[d].todo \/ closing'[d].at = x
          BY <3>4, <4>1, <2>2, <2>4, <2>5, ConstantsAssumption DEF ConstantsAssumption
        <4> QED BY <4>2 DEF BeingClosed
      <3>5. Starting(x) \/ (x \in mgr.table /\ ~mgr.closed) \/ BeingClosed(x)
        BY <2>3 DEF OrphanInv, NoOrphan
      <3> QED BY <3>1, <3>2, <3>3, <3>4, <3>5
    <2> QED BY <2>6, <2>7, <2>8, <2>9, <2>10 DEF OrphanInv
  <1>4. ASSUME NEW c \in Closers, CloseQueue(c) PROVE OrphanInv'
    <2>1. /\ sess' = sess /\ mgr' = mgr /\ closing[c].step = "queue" /\ closing'[c].step = "instance"
          /\ \A d \in Closers : /\ closing'[d].todo = closing[d].todo /\ closing'[d].at = closing[d].at
                                /\ d # c => closing'[d].step = closing[d].step
      BY <1>4 DEF CloseQueue, Shapes, ClosingShape
    <2>6. \A x \in Sessions : BeingClosed(x)' <=> BeingClosed(x)
      BY <2>1 DEF BeingClosed
    <2>7. StartInv'
      BY <2>1, <2>6 DEF OrphanInv, StartInv
    <2>8. TodoInv'
      BY <2>1 DEF OrphanInv, TodoInv, Closers
    <2>2. StartInv' /\ TableInv' /\ TodoInv'
      BY <2>1, <2>7, <2>8 DEF OrphanInv, TableInv
    <2>3. CloserInv'
      BY <2>1, AtIsSession DEF OrphanInv, CloserInv
    <2>4. ClosedInv'
      BY <2>1 DEF OrphanInv, ClosedInv
    <2>5. NoOrphan'
      BY <2>1 DEF OrphanInv, NoOrphan, Starting, BeingClosed
    <2> QED BY <2>2, <2>3, <2>4, <2>5 DEF OrphanInv
  <1>5. ASSUME NEW c \in Closers, CloseInstance(c) PROVE OrphanInv'
    <2>1. closing[c].at \in Sessions /\ mgr' = mgr
      BY <1>5, AtIsSession DEF CloseInstance, OrphanInv
    <2>2. /\ closing[c].step = "instance" /\ closing'[c].step = "join"
          /\ \A d \in Closers : /\ closing'[d].todo = closing[d].todo /\ closing'[d].at = closing[d].at
                                /\ d # c => closing'[d].step = closing[d].step
      BY <1>5 DEF CloseInstance, Shapes, ClosingShape
    <2>3. /\ sess'[closing[c].at].inst = "closed"
          /\ \A x \in Sessions : /\ x # closing[c].at => sess'[x].inst = sess[x].inst
                                 /\ sess'[x].start = sess[x].start /\ sess'[x].closed = sess[x].closed
      BY <1>5, <2>1 DEF CloseInstance, Shapes, SessShape
    <2>4. StartInv'
      <3>1. sess[closing[c].at].start # "none"
        BY <2>1 DEF OrphanInv, StartInv, BeingClosed
      <3> QED BY <2>1, <2>2, <2>3, <3>1 DEF OrphanInv, StartInv, BeingClosed
    <2>5. TableInv' /\ TodoInv'
      BY <2>1, <2>2 DEF OrphanInv, TableInv, TodoInv, Closers
    <2>6. CloserInv'
      BY <2>1, <2>2, <2>3, AtIsSession DEF OrphanInv, CloserInv
    <2>7. ClosedInv'
      BY <2>1, <2>2, <2>3 DEF OrphanInv, ClosedInv
    <2>8. NoOrphan'
      BY <2>1, <2>2, <2>3 DEF OrphanInv, NoOrphan, Starting, BeingClosed
    <2> QED BY <2>4, <2>5, <2>6, <2>7, <2>8 DEF OrphanInv
  <1>6. ASSUME NEW c \in Closers, CloseJoin(c) PROVE OrphanInv'
    <2>1. /\ sess' = sess /\ mgr' = mgr /\ closing[c].step = "join" /\ closing'[c].step = "none"
          /\ closing'[c].at = None
          /\ \A d \in Closers : /\ closing'[d].todo = closing[d].todo
                                /\ d # c => closing'[d].step = closing[d].step /\ closing'[d].at = closing[d].at
      BY <1>6 DEF CloseJoin, Shapes, ClosingShape
    <2>2. closing[c].at \in Sessions /\ sess[closing[c].at].inst = "closed"
      BY <2>1, AtIsSession DEF OrphanInv, CloserInv
    <2>3. StartInv'
      <3>1. \A x \in Sessions : BeingClosed(x)' => BeingClosed(x)
        BY <2>1, ConstantsAssumption DEF BeingClosed, ConstantsAssumption
      <3> QED BY <2>1, <3>1 DEF OrphanInv, StartInv
    <2>7. TableInv' /\ TodoInv'
      BY <2>1 DEF OrphanInv, TableInv, TodoInv, Closers
    <2>4. CloserInv'
      BY <2>1, AtIsSession DEF OrphanInv, CloserInv
    <2>5. ClosedInv'
      BY <2>1, <2>2 DEF OrphanInv, ClosedInv
    <2>6. NoOrphan'
      BY <2>1, <2>2 DEF OrphanInv, NoOrphan, Starting, BeingClosed
    <2> QED BY <2>3, <2>4, <2>5, <2>6, <2>7 DEF OrphanInv
  <1>7. ASSUME NEW s \in Sessions, EndSession(s) PROVE OrphanInv'
    <2>1. /\ sess' = sess /\ mgr'.closed = mgr.closed /\ mgr'.reap = mgr.reap
          /\ mgr'.table \subseteq mgr.table
          /\ mgr.table \ mgr'.table \subseteq closing'[s].todo
          /\ closing'[s].todo = closing[s].todo \/ (s \in mgr.table /\ closing'[s].todo = {s})
          /\ \A c \in Closers : /\ closing'[c].at = closing[c].at /\ closing'[c].step = closing[c].step
                                /\ c # s => closing'[c].todo = closing[c].todo
      BY <1>7 DEF EndSession, Shapes, MgrShape, ClosingShape, Closers
    <2>2. StartInv' /\ ClosedInv' /\ TableInv'
      BY <2>1 DEF OrphanInv, StartInv, ClosedInv, TableInv, BeingClosed
    <2>3. CloserInv'
      BY <2>1, AtIsSession DEF OrphanInv, CloserInv
    <2>4. TodoInv'
      BY <2>1, ConstantsAssumption DEF OrphanInv, TodoInv, Closers, ConstantsAssumption
    <2>5. NoOrphan'
      <3>1. closing[s].todo \subseteq closing'[s].todo /\ s \in Closers
        BY <2>1 DEF OrphanInv, TodoInv, Closers
      <3>2. \A x \in Sessions : BeingClosed(x) => BeingClosed(x)'
        BY <2>1, <3>1 DEF BeingClosed
      <3>3. \A x \in mgr.table : x \in mgr'.table \/ BeingClosed(x)'
        BY <2>1, <3>1 DEF BeingClosed
      <3> QED BY <2>1, <3>2, <3>3 DEF OrphanInv, NoOrphan, Starting
    <2> QED BY <2>2, <2>3, <2>4, <2>5 DEF OrphanInv
  <1> QED BY <1>1, <1>2, <1>3, <1>4, <1>5, <1>6, <1>7 DEF CloseStep

LEMMA OrphanStep ==
  ASSUME Shapes, OrphanInv, [Next]_vars
  PROVE  OrphanInv'
  <1>1. CASE UNCHANGED <<mgr, sess, closing, queue, poll, client>>
    BY <1>1, OrphanFrame
  <1>2. CASE Tick
    <2>1. /\ closing' = closing /\ mgr'.table = mgr.table /\ mgr'.closed = mgr.closed
          /\ closing["reaper"] = Idle
      BY <1>2 DEF Tick, Settled, Shapes, MgrShape, Closers
    <2>2. \A s \in Sessions : /\ sess'[s].inst = sess[s].inst /\ sess'[s].closed = sess[s].closed
                              /\ sess'[s].start = sess[s].start
      BY <1>2 DEF Tick, Shapes, SessShape
    <2>3. StartInv' /\ ClosedInv' /\ TableInv'
      BY <2>1, <2>2 DEF OrphanInv, StartInv, ClosedInv, TableInv, BeingClosed
    <2>4. CloserInv'
      BY <2>1, <2>2, AtIsSession DEF OrphanInv, CloserInv
    <2>5. TodoInv'
      BY <2>1 DEF OrphanInv, TodoInv, Idle
    <2>6. NoOrphan'
      BY <2>1, <2>2 DEF OrphanInv, NoOrphan, Starting, BeingClosed
    <2> QED BY <2>3, <2>4, <2>5, <2>6 DEF OrphanInv
  <1>3. ASSUME NEW s \in Sessions, PollStep(s) PROVE OrphanInv'
    <2>1. mgr' = mgr /\ closing' = closing
      BY <1>3 DEF PollStep, FetchEvents, HangUp, FetchCancelled, MissPoll, Quit, FetchLooks, FetchWakes, FetchGivesUp
    <2>2. sess' = sess \/ sess' = [sess EXCEPT ![s].idle = 0]
      BY <1>3 DEF PollStep, FetchEvents, Touch, HangUp, FetchCancelled, MissPoll, Quit, FetchLooks, FetchWakes, FetchGivesUp
    <2>3. \A x \in Sessions : /\ sess'[x].inst = sess[x].inst /\ sess'[x].closed = sess[x].closed
                              /\ sess'[x].start = sess[x].start
      BY <2>2 DEF Shapes, SessShape
    <2> QED BY <2>1, <2>3, OrphanFrame
  <1>4. ASSUME NEW s \in Sessions, ListStep(s) PROVE OrphanInv'
    <2>1. mgr' = mgr /\ closing' = closing
      BY <1>4 DEF ListStep, ClientOnline, SeedRenders, SeedPushes, ReceiveIM, ListenerEnds,
                  handleFeedbagMessage, refreshBuddyList, handleBuddyMessage, handleIncomingIM, Edit
    <2>2. \/ sess' = sess \/ sess' = [sess EXCEPT ![s].idle = 0]
          \/ \E l \in {"ended", "busy", "running"} : sess' = [sess EXCEPT ![s].listener = l]
          \/ sess[s].start = "registered" /\ sess' = [sess EXCEPT ![s].start = "online"]
          \/ sess[s].start = "listening" /\ sess' = [sess EXCEPT ![s].start = "seeding"]
          \/ sess[s].start = "seeding" /\ sess' = [sess EXCEPT ![s].start = "done"]
      BY <1>4 DEF ListStep, ClientOnline, SeedRenders, SeedPushes, ReceiveIM, ListenerEnds, Touch,
                  handleFeedbagMessage, refreshBuddyList, handleBuddyMessage, handleIncomingIM, Edit
    <2>3. \A x \in Sessions : /\ sess'[x].inst = sess[x].inst /\ sess'[x].closed = sess[x].closed
                              /\ sess[x].start # sess'[x].start =>
                                   /\ sess'[x].start # "none"
                                   /\ Starting(x) => sess'[x].start = "online"
      BY <2>2 DEF Shapes, SessShape, Starting
    <2> QED BY <2>1, <2>3, OrphanFrame
  <1> QED BY <1>1, <1>2, <1>3, <1>4, OrphanClose, OrphanStart, Steps

-----------------------------------------------------------------------------
(***************************************************************************)
(* No wake-up is lost.                                                     *)
(***************************************************************************)
\* The fetch and the queue of s are as they were, or the fetch does not wait unwarned.
PollKept(s) ==
  \/ queue'[s].signal \/ poll'[s]["live"].at # "waiting" \/ poll'[s]["live"].robbed
  \/ getEventsAfter(queue'[s].events, poll'[s]["live"].after) = <<>>
  \/ /\ queue'[s].events = queue[s].events /\ queue'[s].signal = queue[s].signal
     /\ poll'[s]["live"].at = poll[s]["live"].at /\ poll'[s]["live"].after = poll[s]["live"].after
     /\ poll'[s]["live"].robbed = poll[s]["live"].robbed

LEMMA PollFrame ==
  ASSUME PollSeesAll, \A s \in Sessions : PollKept(s)
  PROVE  PollSeesAll'
  BY DEF PollSeesAll, PollKept

LEMMA PollSame ==
  ASSUME poll' = poll, NEW s \in Sessions, queue'[s] = queue[s] \/ queue'[s].signal
  PROVE  PollKept(s)
  BY DEF PollKept

\* Push leaves a signal, or the queue as it was.
LEMMA PushKept ==
  ASSUME Shapes, poll' = poll, NEW s \in Sessions, NEW type, NEW data,
         queue' = [queue EXCEPT ![s] = Push(@, type, data)]
  PROVE  \A x \in Sessions : PollKept(x)
  BY Pushed, PollSame DEF Shapes

LEMMA PollFetch ==
  ASSUME Shapes, PollSeesAll, NEW s \in Sessions, NEW p \in Polls,
         FetchLooks(s, p) \/ FetchWakes(s, p) \/ FetchGivesUp(s, p)
  PROVE  \A x \in Sessions : PollKept(x)
  <1>0. "live" \in Polls
    BY DEF Polls
  <1>1. CASE FetchLooks(s, p)
    <2>1. CASE /\ poll' = [poll EXCEPT ![s][p].at = "waiting"]
               /\ getEventsAfter(queue[s].events, poll[s][p].after) = <<>>
      <3>1. /\ \A x \in Sessions, q \in Polls : x # s \/ q # p => poll'[x][q] = poll[x][q]
            /\ poll'[s][p] = [poll[s][p] EXCEPT !.at = "waiting"]
        <4>1. PICK f : f = [poll[s][p] EXCEPT !.at = "waiting"]
          OBVIOUS
        <4>2. poll' = [poll EXCEPT ![s] = [poll[s] EXCEPT ![p] = f]]
          BY <2>1, <4>1
        <4>3. \A x \in Sessions, q \in Polls : poll'[x][q] = IF x = s /\ q = p THEN f ELSE poll[x][q]
          BY <4>2 DEF Shapes, PollShape
        <4> QED BY <4>1, <4>3
      <3>2. poll'[s][p].after = poll[s][p].after
        BY <3>1, Fetches DEF Shapes, PollShape
      <3>3. queue' = queue
        BY <1>1 DEF FetchLooks
      <3> QED BY <1>0, <2>1, <3>1, <3>2, <3>3 DEF PollKept
    <2>2. CASE \E events : Answered(poll, s, p, events)
      <3>1. queue' = queue
        BY <1>1 DEF FetchLooks
      <3>2. /\ \A x \in Sessions, q \in Polls : x # s \/ q # p => poll'[x][q] = poll[x][q]
            /\ poll'[s][p] = NoPoll
        BY <2>2, AnsweredNow DEF Shapes
      <3> QED BY <1>0, <3>1, <3>2, NewFetches DEF PollKept
    <2> QED BY <1>1, <2>1, <2>2 DEF FetchLooks
  <1>2. CASE FetchWakes(s, p)
    <2>1. queue' = [queue EXCEPT ![s].signal = FALSE]
      BY <1>2 DEF FetchWakes
    <2>2. /\ queue'[s].events = queue[s].events
          /\ \A x \in Sessions \ {s} : queue'[x] = queue[x]
      BY <2>1 DEF Shapes, QueueShape
    <2>3. CASE ~(p = "left" /\ poll[s]["live"].at # "none")
      <3>1. \/ Answered(poll, s, p, getEventsAfter(queue[s].events, poll[s][p].after))
            \/ poll' = poll /\ getEventsAfter(queue[s].events, poll[s][p].after) = <<>>
        BY <1>2, <2>3 DEF FetchWakes
      <3>2. CASE poll' = poll /\ getEventsAfter(queue[s].events, poll[s][p].after) = <<>>
        BY <1>0, <2>2, <2>3, <3>2 DEF PollKept, Polls
      <3>3. CASE Answered(poll, s, p, getEventsAfter(queue[s].events, poll[s][p].after))
        <4>1. /\ \A x \in Sessions, q \in Polls : x # s \/ q # p => poll'[x][q] = poll[x][q]
              /\ poll'[s][p] = NoPoll
          BY <3>3, AnsweredNow DEF Shapes
        <4>2. poll'[s]["live"].at = "none"
          BY <1>0, <2>3, <4>1, NewFetches DEF Polls
        <4> QED BY <1>0, <2>2, <4>1, <4>2 DEF PollKept
      <3> QED BY <3>1, <3>2, <3>3
    <2>4. CASE p = "left" /\ poll[s]["live"].at # "none"
      <3>1. PICK now : now = robLive(s)
        OBVIOUS
      <3>2. poll' = now \/ \E events : Answered(now, s, p, events)
        BY <1>2, <2>4, <3>1 DEF FetchWakes
      <3>3. /\ now = [x \in Sessions |-> [q \in Polls |-> now[x][q]]]
            /\ \A x \in Sessions, q \in Polls : /\ IsFetch(now[x][q])
                                                /\ x # s \/ q # "live" => now[x][q] = poll[x][q]
            /\ now[s]["live"].robbed
        BY <3>1, Robbed DEF Shapes
      <3>4. \A x \in Sessions : poll'[x]["live"] = now[x]["live"]
        BY <1>0, <2>4, <3>2, <3>3, AnsweredPoll, SMTT(30) DEF Shapes
      <3> QED BY <1>0, <2>2, <3>3, <3>4 DEF PollKept
    <2> QED BY <2>3, <2>4
  <1>3. CASE FetchGivesUp(s, p)
    <2>1. queue' = queue
      BY <1>3 DEF FetchGivesUp
    <2>2. /\ \A x \in Sessions, q \in Polls : x # s \/ q # p => poll'[x][q] = poll[x][q]
          /\ poll'[s][p] = NoPoll
      BY <1>3, AnsweredNow DEF Shapes, FetchGivesUp
    <2> QED BY <1>0, <2>1, <2>2, NewFetches DEF PollKept
  <1> QED BY <1>1, <1>2, <1>3

LEMMA PollKeptStep ==
  ASSUME Shapes, PollSeesAll, [Next]_vars
  PROVE  PollSeesAll'
  <1>0. "live" \in Polls /\ "left" \in Polls /\ "live" # "left"
    BY DEF Polls
  <1>1. CASE UNCHANGED <<mgr, sess, closing, queue, poll, client>>
    BY <1>1, PollFrame, PollSame
  <1>2. CASE CloseStep
    <2>1. poll' = poll /\ (queue' = queue \/ \E c \in Closers : queue' = [queue EXCEPT ![closing[c].at].closed = TRUE])
      BY <1>2 DEF CloseStep, reapExpired, Shutdown, CloseMark, CloseQueue, CloseInstance, CloseJoin, EndSession
    <2>2. \A x \in Sessions : queue'[x].events = queue[x].events /\ queue'[x].signal = queue[x].signal
      <3>1. ASSUME NEW y, queue' = [queue EXCEPT ![y].closed = TRUE], NEW x \in Sessions
            PROVE  queue'[x].events = queue[x].events /\ queue'[x].signal = queue[x].signal
        BY <3>1 DEF Shapes, QueueShape
      <3> QED BY <2>1, <3>1
    <2> QED BY <2>1, <2>2, PollFrame DEF PollKept
  <1>3. CASE Tick
    <2>1. queue' = queue
      BY <1>3 DEF Tick
    <2>2. ASSUME NEW x \in Sessions
          PROVE  /\ poll'[x]["live"].at = poll[x]["live"].at
                 /\ poll'[x]["live"].after = poll[x]["live"].after
                 /\ poll'[x]["live"].robbed = poll[x]["live"].robbed
      <3>1. poll'[x]["live"] = [poll[x]["live"] EXCEPT !.age = IF poll[x]["live"].at = "waiting" THEN @ + 1 ELSE @]
        BY <1>0, <1>3 DEF Tick
      <3>2. IsFetch(poll[x]["live"])
        BY <1>0 DEF Shapes, PollShape
      <3> QED BY <3>1, <3>2 DEF IsFetch
    <2> QED BY <2>1, <2>2, PollFrame DEF PollKept
  <1>4. ASSUME NEW s \in Sessions, StartStep(s) PROVE PollSeesAll'
    BY <1>4, PollFrame, PollSame
       DEF StartStep, Register, StartError, CreateSession, StartListeningToOSCARSession, CloseInstanceOutside
  <1>5. ASSUME NEW s \in Sessions, PollStep(s) PROVE PollSeesAll'
    <2>1. CASE FetchEvents(s)
      <3>1. queue' = queue
        BY <2>1 DEF FetchEvents
      <3>2. \/ poll' = [poll EXCEPT ![s]["live"] =
                          [at |-> "looking", after |-> client[s].view.last, age |-> 0, robbed |-> FALSE]]
            \/ poll' = poll
        BY <2>1 DEF FetchEvents
      <3>3. \A x \in Sessions : poll'[x]["live"] = poll[x]["live"] \/ poll'[x]["live"].at # "waiting"
        BY <1>0, <3>2, PollSet, NewFetches DEF Shapes
      <3> QED BY <3>1, <3>3, PollFrame DEF PollKept
    <2>2. CASE HangUp(s)
      <3>1. queue' = queue
        BY <2>2 DEF HangUp
      <3>2. \A x \in Sessions : poll'[x]["live"] = poll[x]["live"] \/ poll'[x]["live"] = NoPoll
        BY <1>0, <2>2 DEF HangUp, Shapes, PollShape
      <3> QED BY <3>1, <3>2, PollFrame, NewFetches DEF PollKept
    <2>3. CASE FetchCancelled(s)
      <3>1. queue' = queue
        BY <2>3 DEF FetchCancelled
      <3>2. \A x \in Sessions : poll'[x]["live"] = poll[x]["live"]
        BY <1>0, <2>3, PollSet, NewFetches DEF FetchCancelled, Shapes
      <3> QED BY <3>1, <3>2, PollFrame DEF PollKept
    <2>4. CASE MissPoll(s) \/ Quit(s)
      BY <2>4, PollFrame, PollSame DEF MissPoll, Quit
    <2>5. ASSUME NEW p \in Polls, FetchLooks(s, p) \/ FetchWakes(s, p) \/ FetchGivesUp(s, p)
          PROVE  PollSeesAll'
      BY <2>5, PollFetch, PollFrame
    <2> QED BY <1>5, <2>1, <2>2, <2>3, <2>4, <2>5 DEF PollStep
  <1>6. ASSUME NEW s \in Sessions, ListStep(s) PROVE PollSeesAll'
    <2>1. CASE ListenerEnds(s) \/ SeedPushes(s) \/ refreshBuddyList(s) \/ handleBuddyMessage(s) \/ handleIncomingIM(s)
      <3>1. poll' = poll
        BY <2>1 DEF ListenerEnds, SeedPushes, refreshBuddyList, handleBuddyMessage, handleIncomingIM
      <3>2. PICK type, data : queue' = [queue EXCEPT ![s] = Push(@, type, data)]
        BY <2>1 DEF ListenerEnds, SeedPushes, refreshBuddyList, handleBuddyMessage, handleIncomingIM
      <3> QED BY <3>1, <3>2, PushKept, PollFrame
    <2>2. CASE queue' = queue /\ poll' = poll
      BY <2>2, PollFrame, PollSame
    <2> QED BY <1>6, <2>1, <2>2 DEF ListStep, ClientOnline, SeedRenders, ReceiveIM, handleFeedbagMessage, Edit
  <1> QED BY <1>1, <1>2, <1>3, <1>4, <1>5, <1>6, Steps

-----------------------------------------------------------------------------
(***************************************************************************)
(* The lease.                                                              *)
(***************************************************************************)
\* What StartSession and the requests have come to, and what the browser knows of it.
ModeInv(s) ==
  /\ sess[s].start \notin {"failed", "done"} <=> client[s].mode = "new"
  /\ sess[s].start = "failed" => client[s].mode = "refused"
  /\ client[s].mode = "polling" <=> poll[s]["live"].at # "none"
  /\ client[s].mode = "polling" => ~client[s].missed
  /\ client[s].mode = "lost" => client[s].missed /\ client[s].wait < PollMax
  /\ poll[s]["live"].age <= PollMax

\* How long at most the session has been idle, by what its client is doing: since the
\* start of the poll, and since the poll before it if one was missed.
AgeInv(s) ==
  /\ client[s].mode = "new" => sess[s].idle = 0
  /\ client[s].mode = "idle" => sess[s].idle <= IF client[s].missed THEN 2 * PollMax ELSE PollMax
  /\ client[s].mode = "polling" => sess[s].idle <= poll[s]["live"].age
  /\ client[s].mode = "lost" => sess[s].idle <= PollMax + client[s].wait

HeldInv(s) ==
  (/\ ~mgr.closed /\ sess[s].inst = "open" /\ client[s].mode \notin {"gone", "refused"}
   /\ sess[s].start \in {"created", "listening", "seeding", "done"})
    => s \in mgr.table /\ AgeInv(s)

ReapInv == \A s \in Sessions : s \in mgr.table /\ ~mgr.reap => sess[s].idle <= TTL

LeaseInv == (\A s \in Sessions : ModeInv(s) /\ HeldInv(s)) /\ ReapInv

LEMMA LeaseInit == Init => LeaseInv
  <1> SUFFICES ASSUME Init PROVE LeaseInv
    OBVIOUS
  <1>1. "live" \in Polls
    BY DEF Polls
  <1>2. ASSUME NEW s \in Sessions PROVE ModeInv(s) /\ HeldInv(s)
    BY <1>1, NewFetches, ConstantsAssumption
       DEF Init, SessionInit, ModeInv, HeldInv, newClient, ConstantsAssumption
  <1>3. ReapInv
    BY DEF Init, SessionInit, ReapInv
  <1> QED BY <1>2, <1>3 DEF LeaseInv

\* While the lease holds, the sweep does not find the session expired.
LEMMA NotExpired ==
  ASSUME Shapes, NEW s \in Sessions, ModeInv(s), AgeInv(s), client[s].mode \notin {"gone", "refused"}
  PROVE  sess[s].idle <= TTL
  <1>1. "live" \in Polls
    BY DEF Polls
  <1>2. /\ sess[s].idle \in Nat /\ client[s].mode \in Modes /\ client[s].wait \in Nat
        /\ IsFetch(poll[s]["live"])
    BY <1>1 DEF Shapes, SessShape, ClientShape, PollShape
  <1>3. poll[s]["live"].age \in Nat
    BY <1>2 DEF IsFetch
  <1> QED BY <1>2, <1>3, ConstantsAssumption DEF ModeInv, AgeInv, Modes, ConstantsAssumption

\* A step that leaves the progress of s, its client and its poll alone, and takes it out
\* of the table only when it is closed or not held.
LEMMA LeaseFrame ==
  ASSUME NEW s \in Sessions, sess[s].idle \in Nat, PollMax \in Nat,
         client[s].wait \in Nat, poll[s]["live"].age \in Nat,
         ModeInv(s), HeldInv(s),
         sess'[s].start = sess[s].start,
         sess'[s].idle = sess[s].idle \/ sess'[s].idle = 0,
         sess'[s].inst = "open" => sess[s].inst = "open" \/ sess[s].start = "none",
         client'[s] = client[s],
         poll'[s]["live"].at = poll[s]["live"].at, poll'[s]["live"].age = poll[s]["live"].age,
         ~mgr'.closed => ~mgr.closed,
         (s \in mgr.table /\ ~mgr'.closed /\ sess'[s].inst = "open") =>
           s \in mgr'.table \/ client[s].mode \in {"gone", "refused"}
             \/ sess[s].start \notin {"created", "listening", "seeding", "done"}
  PROVE  ModeInv(s)' /\ HeldInv(s)'
  <1>1. ModeInv(s)'
    BY DEF ModeInv
  <1>2. AgeInv(s) => AgeInv(s)'
    BY DEF AgeInv
  <1>3. HeldInv(s)'
    BY <1>2 DEF HeldInv
  <1> QED BY <1>1, <1>3

LEMMA Numbers ==
  ASSUME Shapes, NEW s \in Sessions
  PROVE  /\ sess[s].idle \in Nat /\ client[s].wait \in Nat /\ poll[s]["live"].age \in Nat
         /\ PollMax \in Nat /\ PollMax > 0 /\ TTL \in Nat /\ client[s].mode \in Modes
         /\ sess[s].start \in Starts
  <1>1. IsFetch(poll[s]["live"])
    BY DEF Shapes, PollShape, Polls
  <1> QED BY <1>1, ConstantsAssumption DEF Shapes, SessShape, ClientShape, IsFetch, ConstantsAssumption


\* The step leaves the sessions other than s alone.
LEMMA LeaseOthers ==
  ASSUME Shapes, LeaseInv, NEW s \in Sessions, NEW x \in Sessions \ {s},
         sess'[x] = sess[x], client'[x] = client[x], poll'[x]["live"] = poll[x]["live"],
         mgr'.closed = mgr.closed, x \in mgr.table => x \in mgr'.table
  PROVE  ModeInv(x)' /\ HeldInv(x)'
  BY Numbers, LeaseFrame DEF LeaseInv

LEMMA LeaseStart ==
  ASSUME Shapes, LeaseInv, OrphanInv, NEW s \in Sessions, StartStep(s)
  PROVE  LeaseInv'
  <1>0. "live" \in Polls
    BY DEF Polls
  <1>1. /\ poll' = poll
        /\ \A x \in Sessions \ {s} : sess'[x] = sess[x] /\ client'[x] = client[x]
        /\ mgr'.closed = mgr.closed /\ mgr'.reap = mgr.reap /\ mgr.table \subseteq mgr'.table
        /\ mgr'.table \subseteq mgr.table \cup {s}
    BY DEF StartStep, Register, StartError, CreateSession, StartFails, StartListeningToOSCARSession,
           CloseInstanceOutside, Shapes, SessShape, MgrShape, ClientShape
  <1>2. \A x \in Sessions \ {s} : ModeInv(x)' /\ HeldInv(x)'
    BY <1>1, LeaseOthers
  <1>3. /\ sess'[s].idle = sess[s].idle \/ sess'[s].idle = 0
        /\ s \in mgr'.table => s \in mgr.table \/ sess'[s].idle = 0
    BY DEF StartStep, Register, StartError, CreateSession, StartFails, StartListeningToOSCARSession,
           CloseInstanceOutside, Shapes, SessShape, MgrShape
  <1>4. ReapInv'
    BY <1>1, <1>3, Numbers DEF LeaseInv, ReapInv
  <1>5. ModeInv(s)' /\ HeldInv(s)'
    <2>1. CASE /\ sess'[s].start = "failed" /\ client'[s].mode = "refused"
               /\ client'[s].missed = client[s].missed /\ sess[s].start \in {"registered", "online"}
      BY <1>1, <2>1 DEF LeaseInv, ModeInv, HeldInv
    <2>2. CASE /\ sess[s].start = "online" /\ sess'[s].start = "created" /\ sess'[s].idle = 0
               /\ s \in mgr'.table /\ client' = client
      BY <1>1, <2>2, Numbers DEF LeaseInv, ModeInv, HeldInv, AgeInv
    <2>3. CASE /\ sess[s].start = "created" /\ sess'[s].start = "listening" /\ client' = client
               /\ sess'[s].idle = sess[s].idle /\ sess'[s].inst = sess[s].inst
      BY <1>1, <2>3 DEF LeaseInv, ModeInv, HeldInv, AgeInv
    <2>4. CASE sess[s].start = "none" /\ sess'[s].start = "registered" /\ client' = client
      BY <1>1, <2>4 DEF LeaseInv, ModeInv, HeldInv, AgeInv
    <2>5. CASE /\ sess'[s].start = sess[s].start /\ client' = client
               /\ sess'[s].idle = sess[s].idle /\ sess'[s].inst = "closed"
      BY <1>1, <2>5 DEF LeaseInv, ModeInv, HeldInv, AgeInv
    <2> QED
      BY <2>1, <2>2, <2>3, <2>4, <2>5
         DEF StartStep, Register, StartError, CreateSession, StartFails, StartListeningToOSCARSession,
             CloseInstanceOutside, Shapes, SessShape, MgrShape, ClientShape, Starts
  <1> QED BY <1>2, <1>4, <1>5 DEF LeaseInv

LEMMA LeaseClose ==
  ASSUME Shapes, LeaseInv, OrphanInv, CloseStep
  PROVE  LeaseInv'
  <1>0. "live" \in Polls
    BY DEF Polls
  <1>1. CASE reapExpired
    <2>1. /\ sess' = sess /\ client' = client /\ poll' = poll
          /\ mgr'.closed = mgr.closed /\ mgr'.table = mgr.table \ {s \in mgr.table : Unusable(s)}
      BY <1>1 DEF reapExpired, Shapes, MgrShape
    <2>2. ReapInv'
      BY <2>1, Numbers DEF ReapInv, Unusable, IsExpired
    <2>3. ASSUME NEW s \in Sessions PROVE ModeInv(s)' /\ HeldInv(s)'
      <3>1. ModeInv(s)'
        BY <2>1 DEF LeaseInv, ModeInv
      <3>2. AgeInv(s)' <=> AgeInv(s)
        BY <2>1 DEF AgeInv
      <3>3. ASSUME ~mgr'.closed, sess[s].inst = "open", client[s].mode \notin {"gone", "refused"},
                   sess[s].start \in {"created", "listening", "seeding", "done"}
            PROVE  s \in mgr'.table /\ AgeInv(s)
        <4>1. s \in mgr.table /\ AgeInv(s) /\ ModeInv(s)
          BY <2>1, <3>3 DEF LeaseInv, HeldInv
        <4>2. sess[s].idle <= TTL
          BY <3>3, <4>1, NotExpired
        <4> QED BY <2>1, <3>3, <4>1, <4>2, Numbers DEF Unusable, IsExpired
      <3> QED BY <2>1, <3>1, <3>2, <3>3 DEF HeldInv
    <2> QED BY <2>2, <2>3 DEF LeaseInv
  <1>2. CASE Shutdown
    <2>1. sess' = sess /\ client' = client /\ poll' = poll /\ mgr'.closed /\ mgr'.table = {}
      BY <1>2 DEF Shutdown, Shapes, MgrShape
    <2> QED BY <2>1 DEF LeaseInv, ReapInv, ModeInv, HeldInv
  <1>3. ASSUME NEW c \in Closers, CloseMark(c) \/ CloseQueue(c) \/ CloseInstance(c) \/ CloseJoin(c)
        PROVE  LeaseInv'
    <2>1. client' = client /\ poll' = poll /\ mgr' = mgr
      BY <1>3 DEF CloseMark, CloseQueue, CloseInstance, CloseJoin
    <2>2. \A x \in Sessions : /\ sess'[x].idle = sess[x].idle /\ sess'[x].start = sess[x].start
                              /\ sess'[x].inst = sess[x].inst \/ sess'[x].inst = "closed"
      <3>1. ASSUME NEW s, sess' = [sess EXCEPT ![s].closed = TRUE] \/ sess' = [sess EXCEPT ![s].inst = "closed"],
                   NEW x \in Sessions
            PROVE  /\ sess'[x].idle = sess[x].idle /\ sess'[x].start = sess[x].start
                   /\ sess'[x].inst = sess[x].inst \/ sess'[x].inst = "closed"
        BY <3>1 DEF Shapes, SessShape
      <3> QED BY <1>3, <3>1 DEF CloseMark, CloseQueue, CloseInstance, CloseJoin
    <2>3. ReapInv'
      BY <2>1, <2>2 DEF LeaseInv, ReapInv
    <2> QED BY <2>1, <2>2, <2>3, Numbers, LeaseFrame DEF LeaseInv
  <1>4. ASSUME NEW s \in Sessions, EndSession(s) PROVE LeaseInv'
    <2>1. /\ sess' = sess /\ poll' = poll /\ mgr'.closed = mgr.closed /\ mgr'.reap = mgr.reap
          /\ mgr'.table \subseteq mgr.table /\ \A x \in mgr.table \ {s} : x \in mgr'.table
          /\ client[s].mode = "idle" /\ client'[s].mode = "gone"
          /\ \A x \in Sessions \ {s} : client'[x] = client[x]
      BY <1>4 DEF EndSession, Shapes, MgrShape, ClientShape
    <2>2. ReapInv'
      BY <2>1 DEF LeaseInv, ReapInv
    <2>3. ModeInv(s)' /\ HeldInv(s)'
      BY <2>1 DEF LeaseInv, ModeInv, HeldInv
    <2>4. \A x \in Sessions \ {s} : ModeInv(x)' /\ HeldInv(x)'
      BY <2>1, LeaseOthers
    <2> QED BY <2>2, <2>3, <2>4 DEF LeaseInv
  <1> QED BY <1>1, <1>2, <1>3, <1>4 DEF CloseStep

\* A poll of s ends or is given up; the client may ask again.
LEMMA LeasePollEnds ==
  ASSUME Shapes, LeaseInv, NEW s \in Sessions,
         sess' = sess, mgr' = mgr, client[s].mode = "polling", client'[s].mode = "idle",
         client'[s].missed = client[s].missed, client'[s].wait = client[s].wait,
         poll'[s]["live"] = NoPoll
  PROVE  ModeInv(s)' /\ HeldInv(s)'
  <1>1. ModeInv(s)'
    BY NewFetches, Numbers DEF LeaseInv, ModeInv
  <1>2. AgeInv(s) => AgeInv(s)'
    BY Numbers DEF LeaseInv, ModeInv, AgeInv
  <1> QED BY <1>1, <1>2 DEF LeaseInv, HeldInv

LEMMA LeaseFetch ==
  ASSUME Shapes, LeaseInv, NEW s \in Sessions, NEW p \in Polls,
         FetchLooks(s, p) \/ FetchWakes(s, p) \/ FetchGivesUp(s, p)
  PROVE  LeaseInv'
  <1>0. "live" \in Polls /\ poll[s][p].at # "none"
    BY DEF Polls, FetchLooks, FetchWakes, FetchGivesUp
  <1>1. sess' = sess /\ mgr' = mgr
    BY DEF FetchLooks, FetchWakes, FetchGivesUp
  <1>2. PICK now, events :
          /\ now = poll \/ (p = "left" /\ now = robLive(s))
          /\ \/ Answered(now, s, p, events)
             \/ poll' = now /\ client' = client
             \/ poll' = [poll EXCEPT ![s][p].at = "waiting"] /\ client' = client
    BY DEF FetchLooks, FetchWakes, FetchGivesUp
  <1>3. /\ now = [x \in Sessions |-> [q \in Polls |-> now[x][q]]]
        /\ \A x \in Sessions, q \in Polls :
             IsFetch(now[x][q]) /\ now[x][q].at = poll[x][q].at /\ now[x][q].age = poll[x][q].age
    BY <1>2, Robbed DEF Shapes, PollShape
  <1>4. CASE \/ poll' = now /\ client' = client
             \/ poll' = [poll EXCEPT ![s][p].at = "waiting"] /\ client' = client
    <2>1. ASSUME poll' = [poll EXCEPT ![s][p].at = "waiting"], NEW x \in Sessions
          PROVE  /\ poll'[x]["live"].at # "none" <=> poll[x]["live"].at # "none"
                 /\ poll'[x]["live"].age = poll[x]["live"].age
      <3>1. PICK f : f = [poll[s][p] EXCEPT !.at = "waiting"]
        OBVIOUS
      <3>2. poll' = [poll EXCEPT ![s] = [poll[s] EXCEPT ![p] = f]]
        BY <2>1, <3>1
      <3>3. poll'[x]["live"] = IF x = s /\ p = "live" THEN f ELSE poll[x]["live"]
        BY <1>0, <3>2 DEF Shapes, PollShape
      <3>4. f.at = "waiting" /\ f.age = poll[s][p].age
        BY <3>1, Fetches DEF Shapes, PollShape
      <3> QED BY <1>0, <3>3, <3>4
    <2>2. \A x \in Sessions : /\ poll'[x]["live"].at # "none" <=> poll[x]["live"].at # "none"
                              /\ poll'[x]["live"].age = poll[x]["live"].age
      BY <1>0, <1>3, <1>4, <2>1
    <2>3. client' = client
      BY <1>4
    <2>4. ReapInv'
      BY <1>1 DEF LeaseInv, ReapInv
    <2>5. \A x \in Sessions : ModeInv(x)'
      BY <1>1, <2>2, <2>3 DEF LeaseInv, ModeInv
    <2>6. \A x \in Sessions : HeldInv(x)'
      BY <1>1, <2>2, <2>3 DEF LeaseInv, HeldInv, AgeInv
    <2> QED BY <2>4, <2>5, <2>6 DEF LeaseInv
  <1>5. CASE Answered(now, s, p, events)
    <2>1. \A x \in Sessions, q \in Polls : poll'[x][q] = IF x = s /\ q = p THEN NoPoll ELSE now[x][q]
      BY <1>3, <1>5, AnsweredPoll
    <2>2. /\ \A x \in Sessions \ {s} : client'[x] = client[x]
          /\ p = "live" => client'[s].mode = "idle"
          /\ p # "live" => client'[s].mode = client[s].mode
          /\ client'[s].missed = client[s].missed /\ client'[s].wait = client[s].wait
      BY <1>5, AnsweredClient DEF Shapes
    <2>3. ReapInv'
      BY <1>1 DEF LeaseInv, ReapInv
    <2>4. ASSUME NEW x \in Sessions, x # s \/ p # "live" PROVE ModeInv(x)' /\ HeldInv(x)'
      <3>1. /\ poll'[x]["live"].at = poll[x]["live"].at /\ poll'[x]["live"].age = poll[x]["live"].age
            /\ client'[x].mode = client[x].mode /\ client'[x].missed = client[x].missed
            /\ client'[x].wait = client[x].wait
        BY <1>0, <1>3, <2>1, <2>2, <2>4
      <3>2. ModeInv(x)'
        BY <1>1, <3>1 DEF LeaseInv, ModeInv
      <3>3. HeldInv(x)'
        BY <1>1, <3>1 DEF LeaseInv, HeldInv, AgeInv
      <3> QED BY <3>2, <3>3
    <2>5. CASE p = "live"
      <3>1. client[s].mode = "polling"
        BY <1>0, <2>5 DEF LeaseInv, ModeInv
      <3>2. client'[s].mode = "idle" /\ poll'[s]["live"] = NoPoll
        BY <1>0, <2>1, <2>2, <2>5
      <3>3. ModeInv(s)' /\ HeldInv(s)'
        BY <1>1, <2>2, <3>1, <3>2, LeasePollEnds
      <3>4. ASSUME NEW x \in Sessions PROVE ModeInv(x)' /\ HeldInv(x)'
        BY <2>4, <3>3
      <3> QED BY <2>3, <3>4 DEF LeaseInv
    <2> QED BY <2>3, <2>4, <2>5 DEF LeaseInv
  <1> QED BY <1>2, <1>4, <1>5

LEMMA LeasePoll ==
  ASSUME Shapes, LeaseInv, NEW s \in Sessions, PollStep(s)
  PROVE  LeaseInv'
  <1>0. "live" \in Polls /\ "left" \in Polls /\ "live" # "left"
    BY DEF Polls
  <1>1. ASSUME NEW p \in Polls, FetchLooks(s, p) \/ FetchWakes(s, p) \/ FetchGivesUp(s, p)
        PROVE  LeaseInv'
    BY <1>1, LeaseFetch
  <1>2. CASE FetchEvents(s)
    <2>1. /\ mgr' = mgr /\ client[s].mode = "idle"
          /\ \A x \in Sessions \ {s} : client'[x] = client[x] /\ sess'[x] = sess[x]
          /\ sess'[s].start = sess[s].start /\ sess'[s].inst = sess[s].inst
          /\ sess'[s].idle = sess[s].idle \/ sess'[s].idle = 0
      BY <1>2 DEF FetchEvents, Touch, Shapes, SessShape, ClientShape
    <2>2. ReapInv'
      BY <2>1, Numbers DEF LeaseInv, ReapInv
    <2>3. CASE /\ sess'[s].idle = 0 /\ client'[s].mode = "polling" /\ ~client'[s].missed
               /\ poll' = [poll EXCEPT ![s]["live"] =
                    [at |-> "looking", after |-> client[s].view.last, age |-> 0, robbed |-> FALSE]]
      <3>1. PICK f : f = [at |-> "looking", after |-> client[s].view.last, age |-> 0, robbed |-> FALSE]
        OBVIOUS
      <3>2. f.at = "looking" /\ f.age = 0 /\ IsFetch(f)
        BY <3>1, NewFetches
      <3>3. \A x \in Sessions : poll'[x]["live"] = IF x = s THEN f ELSE poll[x]["live"]
        <4>1. poll' = [poll EXCEPT ![s]["live"] = f]
          BY <2>3, <3>1
        <4> QED BY <1>0, <4>1 DEF Shapes, PollShape
      <3>4. \A x \in Sessions \ {s} : ModeInv(x)' /\ HeldInv(x)'
        BY <2>1, <3>3, LeaseOthers
      <3>5. ModeInv(s)'
        BY <2>1, <2>3, <3>2, <3>3, Numbers DEF LeaseInv, ModeInv
      <3>6. HeldInv(s)'
        <4>1. poll'[s]["live"].age = 0
          BY <3>2, <3>3
        <4>2. AgeInv(s)'
          BY <2>3, <4>1, Numbers DEF AgeInv
        <4> QED BY <2>1, <4>2 DEF LeaseInv, HeldInv
      <3> QED BY <2>2, <3>4, <3>5, <3>6 DEF LeaseInv
    <2>4. CASE poll' = poll /\ client'[s].mode = "refused" /\ client'[s].missed = client[s].missed
      <3>1. \A x \in Sessions \ {s} : ModeInv(x)' /\ HeldInv(x)'
        BY <2>1, <2>4, LeaseOthers
      <3>2. ModeInv(s)' /\ HeldInv(s)'
        BY <2>1, <2>4 DEF LeaseInv, ModeInv, HeldInv
      <3> QED BY <2>2, <3>1, <3>2 DEF LeaseInv
    <2>5. CASE /\ Touch(s)
               /\ poll' = [poll EXCEPT ![s]["live"] =
                    [at |-> "looking", after |-> client[s].view.last, age |-> 0, robbed |-> FALSE]]
               /\ client' = [client EXCEPT ![s].mode = "polling", ![s].missed = FALSE]
      <3>1. sess'[s].idle = 0
        BY <2>5 DEF Touch, Shapes, SessShape
      <3>2. client'[s].mode = "polling" /\ ~client'[s].missed
        BY <2>5 DEF Shapes, ClientShape
      <3> QED BY <2>3, <2>5, <3>1, <3>2
    <2>6. CASE poll' = poll /\ client' = [client EXCEPT ![s].mode = "refused"]
      <3>1. client'[s].mode = "refused" /\ client'[s].missed = client[s].missed
        BY <2>6 DEF Shapes, ClientShape
      <3> QED BY <2>4, <2>6, <3>1
    <2> QED BY <1>2, <2>5, <2>6 DEF FetchEvents
  <1>3. CASE HangUp(s)
    <2>1. /\ sess' = sess /\ mgr' = mgr /\ poll[s]["live"].at = "waiting"
          /\ client'[s].mode = "idle" /\ client'[s].missed = client[s].missed
          /\ client'[s].wait = client[s].wait
          /\ \A x \in Sessions \ {s} : client'[x] = client[x]
      BY <1>3 DEF HangUp, Shapes, ClientShape
    <2>2. /\ poll'[s]["live"] = NoPoll
          /\ \A x \in Sessions \ {s} : poll'[x]["live"] = poll[x]["live"]
      BY <1>0, <1>3 DEF HangUp, Shapes, PollShape
    <2>3. client[s].mode = "polling"
      BY <2>1 DEF LeaseInv, ModeInv
    <2>4. ModeInv(s)' /\ HeldInv(s)'
      BY <2>1, <2>2, <2>3, LeasePollEnds
    <2>5. \A x \in Sessions \ {s} : ModeInv(x)' /\ HeldInv(x)'
      BY <2>1, <2>2, LeaseOthers
    <2> QED BY <2>1, <2>4, <2>5 DEF LeaseInv, ReapInv
  <1>4. CASE FetchCancelled(s)
    <2>1. sess' = sess /\ mgr' = mgr /\ client' = client
      BY <1>4 DEF FetchCancelled
    <2>2. \A x \in Sessions : poll'[x]["live"] = poll[x]["live"]
      BY <1>0, <1>4, PollSet, NewFetches DEF FetchCancelled, Shapes
    <2> QED BY <2>1, <2>2, LeaseFrame, Numbers DEF LeaseInv, ReapInv
  <1>5. CASE MissPoll(s)
    <2>1. /\ sess' = sess /\ mgr' = mgr /\ poll' = poll /\ client[s].mode = "idle" /\ ~client[s].missed
          /\ client'[s].mode = "lost" /\ client'[s].missed /\ client'[s].wait = 0
          /\ \A x \in Sessions \ {s} : client'[x] = client[x]
      BY <1>5 DEF MissPoll, Shapes, ClientShape
    <2>2. \A x \in Sessions \ {s} : ModeInv(x)' /\ HeldInv(x)'
      BY <2>1, LeaseOthers
    <2>3. ModeInv(s)' /\ HeldInv(s)'
      BY <2>1, Numbers DEF LeaseInv, ModeInv, HeldInv, AgeInv
    <2> QED BY <2>1, <2>2, <2>3 DEF LeaseInv, ReapInv
  <1>6. CASE Quit(s)
    <2>1. /\ sess' = sess /\ mgr' = mgr /\ poll' = poll /\ client[s].mode = "idle" /\ client'[s].mode = "gone"
          /\ \A x \in Sessions \ {s} : client'[x] = client[x]
      BY <1>6 DEF Quit, Shapes, ClientShape
    <2>2. \A x \in Sessions \ {s} : ModeInv(x)' /\ HeldInv(x)'
      BY <2>1, LeaseOthers
    <2>3. ModeInv(s)' /\ HeldInv(s)'
      BY <2>1 DEF LeaseInv, ModeInv, HeldInv
    <2> QED BY <2>1, <2>2, <2>3 DEF LeaseInv, ReapInv
  <1> QED BY <1>1, <1>2, <1>3, <1>4, <1>5, <1>6 DEF PollStep

\* A tick lengthens every wait by one: what was idle p ticks is now idle p + 1.
LEMMA LeaseTick ==
  ASSUME Shapes, LeaseInv, OrphanInv, Tick
  PROVE  LeaseInv'
  <1>0. "live" \in Polls
    BY DEF Polls
  <1>1. mgr'.closed = mgr.closed /\ mgr'.table = mgr.table /\ mgr'.reap = ~mgr.closed
    BY DEF Tick, Shapes, MgrShape
  <1>2. ReapInv'
    BY <1>1 DEF ReapInv, OrphanInv, TableInv
  <1>3. ASSUME NEW s \in Sessions PROVE ModeInv(s)' /\ HeldInv(s)'
    <2>1. /\ sess'[s].start = sess[s].start /\ sess'[s].inst = sess[s].inst
          /\ sess'[s].idle = sess[s].idle \/ sess'[s].idle = sess[s].idle + 1
          /\ sess[s].start \in {"none", "failed", "done"} /\ client[s].mode # "idle"
      BY DEF Tick, Settled, Shapes, SessShape
    <2>2. /\ poll'[s]["live"].at = poll[s]["live"].at
          /\ poll[s]["live"].at = "none" => poll'[s]["live"].age = poll[s]["live"].age
          /\ poll[s]["live"].at # "none" => /\ poll'[s]["live"].age = poll[s]["live"].age + 1
                                           /\ poll[s]["live"].age < PollMax
      <3>1. poll'[s]["live"] = [poll[s]["live"] EXCEPT !.age = IF poll[s]["live"].at = "waiting" THEN @ + 1 ELSE @]
        BY <1>0 DEF Tick
      <3>2. poll[s]["live"].at = "none" \/ (poll[s]["live"].at = "waiting" /\ poll[s]["live"].age < PollMax)
        BY <1>0 DEF Tick, Settled
      <3>3. IsFetch(poll[s]["live"])
        BY <1>0 DEF Shapes, PollShape
      <3> QED BY <3>1, <3>2, <3>3 DEF IsFetch
    <2>3. CASE client[s].mode # "lost"
      <3>1. client'[s] = client[s]
        BY <2>3 DEF Tick
      <3>2. ModeInv(s)'
        BY <2>1, <2>2, <2>3, <3>1, Numbers DEF LeaseInv, ModeInv
      <3>3. HeldInv(s)'
        <4>1. CASE client[s].mode = "polling"
          <5>1. poll[s]["live"].at # "none"
            BY <4>1 DEF LeaseInv, ModeInv
          <5>2. AgeInv(s) => AgeInv(s)'
            BY <2>1, <2>2, <3>1, <4>1, <5>1, Numbers DEF AgeInv
          <5> QED BY <1>1, <2>1, <3>1, <5>2 DEF LeaseInv, HeldInv
        <4>2. CASE client[s].mode = "new"
          <5>1. sess'[s].start = "none" \/ sess'[s].start = "failed"
            BY <2>1, <4>2 DEF LeaseInv, ModeInv
          <5> QED BY <5>1 DEF HeldInv
        <4>3. CASE client[s].mode \in {"gone", "refused"}
          BY <3>1, <4>3 DEF HeldInv
        <4> QED BY <2>1, <2>3, <4>1, <4>2, <4>3, Numbers DEF Modes
      <3> QED BY <3>2, <3>3
    <2>4. CASE client[s].mode = "lost"
      <3>1. /\ sess[s].start = "done" /\ client[s].missed /\ client[s].wait < PollMax
            /\ poll[s]["live"].at = "none" /\ poll[s]["live"].age <= PollMax
        BY <2>1, <2>4 DEF LeaseInv, ModeInv
      <3>2. \/ client'[s] = [client[s] EXCEPT !.wait = @ + 1] /\ client[s].wait + 1 < PollMax
            \/ client'[s] = [client[s] EXCEPT !.mode = "idle", !.wait = 0] /\ ~(client[s].wait + 1 < PollMax)
        BY <2>4 DEF Tick
      <3>3. /\ client'[s].missed
            /\ \/ client'[s].mode = "lost" /\ client'[s].wait = client[s].wait + 1 /\ client'[s].wait < PollMax
               \/ client'[s].mode = "idle" /\ client[s].wait + 1 = PollMax
        <4>1. /\ DOMAIN client[s] = {"mode", "wait", "missed", "view"}
              /\ client[s].wait \in Nat /\ PollMax \in Nat
          BY Numbers DEF Shapes, ClientShape
        <4>2. CASE client'[s] = [client[s] EXCEPT !.wait = @ + 1] /\ client[s].wait + 1 < PollMax
          BY <2>4, <3>1, <4>1, <4>2
        <4>3. CASE /\ client'[s] = [client[s] EXCEPT !.mode = "idle", !.wait = 0]
                   /\ ~(client[s].wait + 1 < PollMax)
          BY <3>1, <4>1, <4>3
        <4> QED BY <3>2, <4>2, <4>3
      <3>4. ModeInv(s)'
        BY <2>1, <2>2, <3>1, <3>3 DEF ModeInv
      <3>5. HeldInv(s) /\ client[s].mode = "lost" /\ AgeInv(s) => AgeInv(s)'
        BY <2>1, <3>1, <3>3, Numbers DEF AgeInv
      <3>6. HeldInv(s)'
        BY <1>1, <2>1, <2>4, <3>5 DEF LeaseInv, HeldInv
      <3> QED BY <3>4, <3>6
    <2> QED BY <2>3, <2>4
  <1> QED BY <1>2, <1>3 DEF LeaseInv

LEMMA LeaseList ==
  ASSUME Shapes, LeaseInv, NEW s \in Sessions, ListStep(s)
  PROVE  LeaseInv'
  <1>0. mgr' = mgr /\ poll' = poll
    BY DEF ListStep, ClientOnline, SeedRenders, SeedPushes, ReceiveIM, ListenerEnds,
           handleFeedbagMessage, refreshBuddyList, handleBuddyMessage, handleIncomingIM, Edit
  <1>1. CASE SeedPushes(s)
    <2>1. /\ sess[s].start = "seeding" /\ sess'[s].start = "done" /\ client'[s].mode = "idle"
          /\ sess'[s].idle = sess[s].idle /\ sess'[s].inst = sess[s].inst
          /\ client'[s].missed = client[s].missed
          /\ \A x \in Sessions \ {s} : sess'[x] = sess[x] /\ client'[x] = client[x]
      BY <1>1 DEF SeedPushes, Shapes, SessShape, ClientShape
    <2>2. \A x \in Sessions \ {s} : ModeInv(x)' /\ HeldInv(x)'
      BY <1>0, <2>1, LeaseOthers
    <2>3. ReapInv'
      BY <1>0, <2>1 DEF LeaseInv, ReapInv
    <2>4. client[s].mode = "new"
      BY <2>1 DEF LeaseInv, ModeInv
    <2>5. ModeInv(s)'
      BY <1>0, <2>1, <2>4 DEF LeaseInv, ModeInv
    <2>6. HeldInv(s)'
      <3>1. AgeInv(s) => AgeInv(s)'
        BY <2>1, <2>4, Numbers DEF AgeInv
      <3> QED BY <1>0, <2>1, <2>4, <3>1 DEF LeaseInv, HeldInv
    <2> QED BY <2>2, <2>3, <2>5, <2>6 DEF LeaseInv
  <1>2. CASE SeedRenders(s)
    <2>1. /\ client' = client /\ sess[s].start = "listening" /\ sess'[s].start = "seeding"
          /\ sess'[s].idle = sess[s].idle /\ sess'[s].inst = sess[s].inst
          /\ \A x \in Sessions \ {s} : sess'[x] = sess[x]
      BY <1>2 DEF SeedRenders, Shapes, SessShape
    <2>2. \A x \in Sessions \ {s} : ModeInv(x)' /\ HeldInv(x)'
      BY <1>0, <2>1, LeaseOthers
    <2>3. ModeInv(s)' /\ HeldInv(s)'
      BY <1>0, <2>1 DEF LeaseInv, ModeInv, HeldInv, AgeInv
    <2> QED BY <1>0, <2>1, <2>2, <2>3 DEF LeaseInv, ReapInv
  <1>3. CASE ClientOnline(s)
    <2>1. /\ client' = client /\ sess[s].start = "registered" /\ sess'[s].start = "online"
          /\ sess'[s].idle = sess[s].idle
          /\ \A x \in Sessions \ {s} : sess'[x] = sess[x]
      BY <1>3 DEF ClientOnline, Shapes, SessShape
    <2>2. \A x \in Sessions \ {s} : ModeInv(x)' /\ HeldInv(x)'
      BY <1>0, <2>1, LeaseOthers
    <2>3. ModeInv(s)' /\ HeldInv(s)'
      BY <1>0, <2>1 DEF LeaseInv, ModeInv, HeldInv
    <2> QED BY <1>0, <2>1, <2>2, <2>3 DEF LeaseInv, ReapInv
  <1>4. CASE /\ client' = client
             /\ \/ sess' = sess
                \/ sess' = [sess EXCEPT ![s].idle = 0]
                \/ \E l \in {"ended", "busy", "running"} : sess' = [sess EXCEPT ![s].listener = l]
    <2>1. \A x \in Sessions : /\ sess'[x].start = sess[x].start /\ sess'[x].inst = sess[x].inst
                              /\ sess'[x].idle = sess[x].idle \/ sess'[x].idle = 0
      BY <1>4 DEF Shapes, SessShape
    <2>2. ReapInv'
      BY <1>0, <2>1, Numbers DEF LeaseInv, ReapInv
    <2>3. ASSUME NEW x \in Sessions PROVE ModeInv(x)' /\ HeldInv(x)'
      <3>1. ModeInv(x) /\ HeldInv(x) /\ client'[x] = client[x]
        BY <1>4 DEF LeaseInv
      <3> QED BY <1>0, <2>1, <3>1, Numbers, LeaseFrame
    <2> QED BY <2>2, <2>3 DEF LeaseInv
  <1> QED BY <1>1, <1>2, <1>3, <1>4
          DEF ListStep, ReceiveIM, ListenerEnds, Touch, handleFeedbagMessage, refreshBuddyList,
              handleBuddyMessage, handleIncomingIM, Edit

LEMMA LeaseStep ==
  ASSUME Shapes, OrphanInv, LeaseInv, [Next]_vars
  PROVE  LeaseInv'
  <1>1. CASE UNCHANGED <<mgr, sess, closing, queue, poll, client>>
    BY <1>1 DEF LeaseInv, ModeInv, HeldInv, AgeInv, ReapInv
  <1> QED BY <1>1, LeaseClose, LeaseTick, LeaseStart, LeasePoll, LeaseList, Steps

-----------------------------------------------------------------------------
(***************************************************************************)
(* The theorems.                                                           *)
(***************************************************************************)
LEMMA WebInv == Spec => [](Shapes /\ OrphanInv /\ PollSeesAll /\ LeaseInv)
  <1>1. Init => Shapes /\ OrphanInv /\ PollSeesAll /\ LeaseInv
    <2>1. Init => PollSeesAll
      BY NewFetches DEF Init, SessionInit, PollSeesAll, Polls
    <2> QED BY <2>1, ShapesInit, OrphanInit, LeaseInit
  <1>2. /\ Shapes /\ OrphanInv /\ PollSeesAll /\ LeaseInv /\ [Next]_vars
        => Shapes' /\ OrphanInv' /\ PollSeesAll' /\ LeaseInv'
    BY ShapesStep, OrphanStep, PollKeptStep, LeaseStep
  <1> QED BY <1>1, <1>2, PTL DEF Spec

\* No OSCAR session is left behind (aim_handler.go:288): whichever way StartSession, the
\* reaper, EndSession and Shutdown interleave, an open instance is in somebody's hands.
THEOREM NobodyOrphaned == Spec => []NoOrphan
  <1>1. OrphanInv => NoOrphan
    BY DEF OrphanInv
  <1> QED BY <1>1, WebInv, PTL

\* No wake-up is lost (EventQueue.Fetch): a long poll that waits although newer events are
\* queued has its signal pending, unless an abandoned poll took it.
THEOREM WakeUpKept == Spec => []PollSeesAll
  BY WebInv, PTL

\* The lease (session.go:32-58): two of the longest polls fit in the life of an idle session,
\* so that a client that misses at most one poll in a row never finds its session reaped.
THEOREM LeaseHolds == Spec => []SessionLease
  <1>1. Shapes /\ LeaseInv => SessionLease
    <2> SUFFICES ASSUME Shapes, LeaseInv PROVE SessionLease
      OBVIOUS
    <2>1. ASSUME NEW s \in Sessions, client[s].mode \in {"idle", "polling", "lost"}, ~mgr.closed,
                 sess[s].inst = "open"
          PROVE  s \in mgr.table /\ ~IsExpired(s)
      <3>1. sess[s].start = "done"
        BY <2>1, Numbers DEF LeaseInv, ModeInv, Starts
      <3>2. s \in mgr.table /\ AgeInv(s)
        BY <2>1, <3>1 DEF LeaseInv, HeldInv
      <3>3. sess[s].idle <= TTL
        BY <2>1, <3>2, NotExpired DEF LeaseInv
      <3> QED BY <3>2, <3>3, Numbers DEF IsExpired
    <2> QED BY <2>1 DEF SessionLease, LeaseInv, ReapInv
  <1> QED BY <1>1, WebInv, PTL
==============================================================================
