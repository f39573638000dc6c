---- MODULE WebSession ----
(***************************************************************************)
(* server/webapi: the life of a web session.  StartSession signs an OSCAR   *)
(* instance on and files a session for it; requests keep the session alive; *)
(* the reaper, EndSession and Shutdown close it.  Events wait in the        *)
(* session's bounded queue until the client fetches them by long polls.     *)
(*                                                                         *)
(* The clock ticks once per reaping interval (30 s): the life of an idle    *)
(* session is TTL = 5 ticks, the longest poll PollMax = 2.  A handler, a     *)
(* sweep and a prompt client's next request take less than a tick.          *)
(***************************************************************************)
EXTENDS Naturals, Sequences, FiniteSets, SequencesExt

CONSTANTS Sessions, None, TTL, PollMax, QueueMax,
          Budgets     \* scenarios: how often each thing may happen, and which edits

\* Two of the longest polls fit in the life of an idle session (aim_handler.go:571, session.go:52).
ConstantsAssumption ==
  /\ None \notin Sessions
  /\ {"reaper", "shutdown"} \cap Sessions = {}
  /\ TTL \in Nat /\ PollMax \in Nat \ {0} /\ 2 * PollMax <= TTL
ASSUME ConstantsAssumption

VARIABLES
  budget,     \* what is left of the scenario
  mgr,        \* SessionManager: [table, closed, reap: the sweep is due]
  sess,       \* per session [inst, closed, idle, listener] and start, the progress of StartSession
  closing,    \* the callers of Close: [todo, at, step]
  queue,      \* EventQueue per session: [events, seq, signal, closed]
  poll,       \* the fetches the server holds; robbed: another one took the signal meanwhile
  client      \* each browser: [mode, wait, missed] and view, what it knows

websessionVars == <<budget, mgr, sess, closing, queue, poll, client>>

Closers == {"reaper", "shutdown"} \cup Sessions
Polls == {"live", "left"}      \* "left": its client hung up, the server has not noticed
NoPoll == [at |-> "none", after |-> 0, age |-> 0, robbed |-> FALSE]
Idle == [todo |-> {}, at |-> None, step |-> "none"]
Spend(what) == budget[what] > 0 /\ budget' = [budget EXCEPT ![what] = @ - 1]

newView == [last |-> 0, gap |-> FALSE, list |-> None, shown |-> {}, late |-> FALSE]
newClient == [mode |-> "new", wait |-> 0, missed |-> FALSE, view |-> newView]

SessionInit ==
  /\ budget \in Budgets
  /\ mgr = [table |-> {}, closed |-> FALSE, reap |-> FALSE]
  /\ sess = [s \in Sessions |-> [start |-> "none", inst |-> "none", closed |-> FALSE,
                                 idle |-> 0, listener |-> "none"]]
  /\ closing = [c \in Closers |-> Idle]
  /\ queue = [s \in Sessions |-> [events |-> <<>>, seq |-> 0, signal |-> FALSE, closed |-> FALSE]]
  /\ poll = [s \in Sessions |-> [p \in Polls |-> NoPoll]]
  /\ client = [s \in Sessions |-> newClient]

---------------------------------------------------------------------------
(* The event queue.                                                         *)

\* Push drops the oldest event of a full queue, and leaves one signal.
Push(q, type, data) ==
  LET grown == Append(q.events, [seq |-> q.seq + 1, type |-> type, data |-> data])
  IN  IF q.closed THEN q
      ELSE [q EXCEPT !.seq = @ + 1, !.signal = TRUE,
                     !.events = IF Len(grown) > QueueMax THEN Tail(grown) ELSE grown]

getEventsAfter(events, seq) == SelectSeq(events, LAMBDA e : e.seq > seq)

\* What a client makes of the events of one answer: a list replaces what it
\* shows, a presence event changes one buddy.
seen(v, e) ==
  CASE e.type = "buddylist" -> [v EXCEPT !.list = e.data.list, !.shown = e.data.on, !.late = e.data.late]
    [] e.type = "arrived" -> [v EXCEPT !.shown = @ \cup {e.data}]
    [] e.type = "departed" -> [v EXCEPT !.shown = @ \ {e.data}]
    [] OTHER -> v
received(v, events) ==
  IF events = <<>> THEN v
  ELSE [FoldLeft(seen, v, events) EXCEPT !.last = Last(events).seq,
                                         !.gap = @ \/ Head(events).seq > v.last + 1]

\* An answer (now: the fetches at that moment) reaches the client, or is lost.
Answered(now, s, p, events) ==
  /\ poll' = [now EXCEPT ![s][p] = NoPoll]
  /\ \/ p = "live" /\ client' = [client EXCEPT ![s].mode = "idle", ![s].view = received(@, events)]
        /\ UNCHANGED budget
     \/ p = "live" /\ client' = [client EXCEPT ![s].mode = "idle"] /\ Spend("losses")
     \/ p = "left" /\ UNCHANGED <<client, budget>>

---------------------------------------------------------------------------
(* StartSession.                                                            *)

\* RegisterBOSSession, RunOnce and OnClose.
Register(s) ==
  /\ sess[s].start = "none" /\ Spend("starts")
  /\ sess' = [sess EXCEPT ![s].start = "registered", ![s].inst = "open"]
  /\ UNCHANGED <<mgr, closing, queue, poll, client>>

\* Every later failure gives the instance back.
StartFails(s) ==
  /\ sess' = [sess EXCEPT ![s].start = "failed", ![s].inst = "closed"]
  /\ client' = [client EXCEPT ![s].mode = "refused"]

StartError(s) ==
  /\ sess[s].start \in {"registered", "online"} /\ Spend("faults") /\ StartFails(s)
  /\ UNCHANGED <<mgr, closing, queue, poll>>

\* Mutant: filed even after Shutdown.
CreateSessionUnchecked(s) ==
  /\ sess[s].start = "online"
  /\ mgr' = [mgr EXCEPT !.table = @ \cup {s}]
  /\ sess' = [sess EXCEPT ![s].start = "created", ![s].idle = 0]
  /\ UNCHANGED <<budget, closing, queue, poll, client>>

\* The session is filed unless the manager was shut down meanwhile.
CreateSession(s) ==
  /\ sess[s].start = "online"
  /\ IF mgr.closed
     THEN StartFails(s) /\ UNCHANGED mgr
     ELSE /\ mgr' = [mgr EXCEPT !.table = @ \cup {s}]
          /\ sess' = [sess EXCEPT ![s].start = "created", ![s].idle = 0]
          /\ UNCHANGED client
  /\ UNCHANGED <<budget, closing, queue, poll>>

StartListeningToOSCARSession(s) ==
  /\ sess[s].start = "created"
  /\ sess' = [sess EXCEPT ![s].start = "listening",
                          ![s].listener = IF sess[s].closed THEN @ ELSE "running"]
  /\ UNCHANGED <<budget, mgr, closing, queue, poll, client>>

\* The listener finds the instance closed: by Close, or from outside, when a
\* poll is still to be told.
ListenerEnds(s) ==
  /\ sess[s].listener = "running" /\ sess[s].inst = "closed"
  /\ queue' = [queue EXCEPT ![s] = Push(@, "sessionEnded", None)]
  /\ sess' = [sess EXCEPT ![s].listener = "ended"]
  /\ UNCHANGED <<budget, mgr, closing, poll, client>>

\* Another sign-on, an administrator or the server closes the instance.
CloseInstanceOutside(s) ==
  /\ sess[s].inst = "open" /\ sess[s].start # "registered" /\ Spend("boots")
  /\ sess' = [sess EXCEPT ![s].inst = "closed"]
  /\ UNCHANGED <<mgr, closing, queue, poll, client>>

---------------------------------------------------------------------------
(* Closing.                                                                 *)

\* Close marks the session; only the first caller goes on.
CloseMark(c) ==
  /\ closing[c].at = None
  /\ \E s \in closing[c].todo :
       /\ closing' = [closing EXCEPT ![c] =
            [todo |-> @.todo \ {s}, at |-> IF sess[s].closed THEN None ELSE s,
             step |-> IF sess[s].closed THEN "none" ELSE "queue"]]
       /\ sess' = [sess EXCEPT ![s].closed = TRUE]
  /\ UNCHANGED <<budget, mgr, queue, poll, client>>

CloseQueue(c) ==
  /\ closing[c].step = "queue"
  /\ queue' = [queue EXCEPT ![closing[c].at].closed = TRUE]
  /\ closing' = [closing EXCEPT ![c].step = "instance"]
  /\ UNCHANGED <<budget, mgr, sess, poll, client>>

CloseInstance(c) ==
  /\ closing[c].step = "instance"
  /\ sess' = [sess EXCEPT ![closing[c].at].inst = "closed"]
  /\ closing' = [closing EXCEPT ![c].step = "join"]
  /\ UNCHANGED <<budget, mgr, queue, poll, client>>

CloseJoin(c) ==
  /\ closing[c].step = "join" /\ sess[closing[c].at].listener \notin {"running", "busy"}
  /\ closing' = [closing EXCEPT ![c].at = None, ![c].step = "none"]
  /\ UNCHANGED <<budget, mgr, sess, queue, poll, client>>

IsExpired(s) == sess[s].idle > TTL
Unusable(s) == IsExpired(s) \/ sess[s].inst = "closed"

\* A sweep takes the expired sessions out of the table and then closes them.
reapExpired ==
  /\ mgr.reap
  /\ LET expired == {s \in mgr.table : Unusable(s)}
     IN  /\ mgr' = [mgr EXCEPT !.reap = FALSE, !.table = @ \ expired]
         /\ closing' = [closing EXCEPT !["reaper"].todo = expired]
  /\ UNCHANGED <<budget, sess, queue, poll, client>>

Shutdown ==
  /\ ~mgr.closed /\ Spend("stops")
  /\ mgr' = [table |-> {}, closed |-> TRUE, reap |-> FALSE]
  /\ closing' = [closing EXCEPT !["shutdown"].todo = mgr.table]
  /\ UNCHANGED <<sess, queue, poll, client>>

\* EndSession: RequireSession, then RemoveSession.
EndSession(s) ==
  /\ client[s].mode = "idle" /\ Spend("ends")
  /\ client' = [client EXCEPT ![s].mode = "gone"]
  /\ IF s \in mgr.table /\ ~Unusable(s)
     THEN /\ mgr' = [mgr EXCEPT !.table = @ \ {s}]
          /\ closing' = [closing EXCEPT ![s].todo = {s}]
     ELSE UNCHANGED <<mgr, closing>>
  /\ UNCHANGED <<sess, queue, poll>>

---------------------------------------------------------------------------
(* Requests and polls.                                                      *)

\* RequireSession resolves the session and touches it.  A session taken out of
\* the table between the two is used all the same, as one taken out later is.
RequireSession(s) == s \in mgr.table /\ ~Unusable(s)
TouchNothing(s) == UNCHANGED sess      \* mutant
Touch(s) == sess' = [sess EXCEPT ![s].idle = 0]

FetchEvents(s) ==
  /\ client[s].mode = "idle"
  /\ \/ /\ RequireSession(s) /\ Touch(s) /\ poll[s]["live"].at = "none"
        /\ poll' = [poll EXCEPT ![s]["live"] =
                      [at |-> "looking", after |-> client[s].view.last, age |-> 0, robbed |-> FALSE]]
        /\ client' = [client EXCEPT ![s].mode = "polling", ![s].missed = FALSE]
     \/ ~RequireSession(s) /\ client' = [client EXCEPT ![s].mode = "refused"]
        /\ UNCHANGED <<sess, poll>>
  /\ UNCHANGED <<budget, mgr, closing, queue>>

\* Mutant: no first look.
FetchJustWaits(s, p) ==
  /\ poll[s][p].at = "looking"
  /\ poll' = [poll EXCEPT ![s][p].at = "waiting"]
  /\ UNCHANGED <<budget, mgr, sess, closing, queue, client>>

\* The first look of Fetch: a closed queue has nothing to tell.
FetchLooks(s, p) ==
  LET events == IF queue[s].closed THEN <<>> ELSE getEventsAfter(queue[s].events, poll[s][p].after)
  IN  /\ poll[s][p].at = "looking"
      /\ IF queue[s].closed \/ events # <<>>
         THEN Answered(poll, s, p, events)
         ELSE poll' = [poll EXCEPT ![s][p].at = "waiting"] /\ UNCHANGED <<client, budget>>
      /\ UNCHANGED <<mgr, sess, closing, queue>>

\* A waiting fetch takes the signal, whosever it is, and looks again.
robLive(s) == [poll EXCEPT ![s]["live"].robbed = TRUE]
FetchWakes(s, p) ==
  LET events == getEventsAfter(queue[s].events, poll[s][p].after)
  IN  /\ poll[s][p].at = "waiting" /\ queue[s].signal
      /\ queue' = [queue EXCEPT ![s].signal = FALSE]
      /\ LET rob == p = "left" /\ poll[s]["live"].at # "none"
             now == IF rob THEN robLive(s) ELSE poll
         IN  IF events # <<>> THEN Answered(now, s, p, events)
             ELSE poll' = now /\ UNCHANGED <<client, budget>>
      /\ UNCHANGED <<mgr, sess, closing>>

\* The queue was closed, or the time is up.
FetchGivesUp(s, p) ==
  /\ poll[s][p].at = "waiting" /\ (queue[s].closed \/ poll[s][p].age >= PollMax)
  /\ Answered(poll, s, p, <<>>)
  /\ UNCHANGED <<mgr, sess, closing, queue>>

\* A client hangs up; the server notices later.
HangUp(s) ==
  /\ poll[s]["live"].at = "waiting" /\ poll[s]["left"].at = "none" /\ Spend("losses")
  /\ poll' = [poll EXCEPT ![s]["left"] = poll[s]["live"], ![s]["live"] = NoPoll]
  /\ client' = [client EXCEPT ![s].mode = "idle"]
  /\ UNCHANGED <<mgr, sess, closing, queue>>

FetchCancelled(s) ==
  /\ poll[s]["left"].at = "waiting"
  /\ poll' = [poll EXCEPT ![s]["left"] = NoPoll]
  /\ UNCHANGED <<budget, mgr, sess, closing, queue, client>>

\* A poll never reaches the server: the client waits it out and tries again.
MissPoll(s) ==
  /\ client[s].mode = "idle" /\ ~client[s].missed /\ Spend("misses")
  /\ client' = [client EXCEPT ![s].mode = "lost", ![s].missed = TRUE, ![s].wait = 0]
  /\ UNCHANGED <<mgr, sess, closing, queue, poll>>

\* The browser is closed without EndSession.
Quit(s) ==
  /\ client[s].mode = "idle" /\ Spend("quits")
  /\ client' = [client EXCEPT ![s].mode = "gone"]
  /\ UNCHANGED <<mgr, sess, closing, queue, poll>>

---------------------------------------------------------------------------
\* A tick passes when nothing is due: no client between two requests, no fetch at
\* its limit or with news, and nobody starting, sweeping or closing.
Settled ==
  /\ ~mgr.reap
  /\ \A c \in Closers : closing[c] = Idle
  /\ \A s \in Sessions :
       /\ sess[s].start \in {"none", "failed", "done"}
       /\ sess[s].listener = "running" => sess[s].inst = "open"
       /\ client[s].mode # "idle"
       /\ \A p \in Polls : \/ poll[s][p].at = "none"
                           \/ /\ poll[s][p].at = "waiting" /\ poll[s][p].age < PollMax
                              /\ ~queue[s].signal /\ ~queue[s].closed

Tick ==
  /\ Settled /\ Spend("ticks")
  /\ sess' = [s \in Sessions |->
                [sess[s] EXCEPT !.idle = IF s \in mgr.table /\ @ < TTL + 2 THEN @ + 1 ELSE @]]
  /\ poll' = [s \in Sessions |-> [p \in Polls |->
                [poll[s][p] EXCEPT !.age = IF poll[s][p].at = "waiting" THEN @ + 1 ELSE @]]]
  /\ client' = [s \in Sessions |->
                IF client[s].mode # "lost" THEN client[s]
                ELSE IF client[s].wait + 1 < PollMax THEN [client[s] EXCEPT !.wait = @ + 1]
                ELSE [client[s] EXCEPT !.mode = "idle", !.wait = 0]]
  /\ mgr' = [mgr EXCEPT !.reap = ~mgr.closed]
  /\ UNCHANGED <<closing, queue>>

SessionNext ==
  \/ Shutdown \/ reapExpired
  \/ \E c \in Closers : CloseMark(c) \/ CloseQueue(c) \/ CloseInstance(c) \/ CloseJoin(c)
  \/ \E s \in Sessions :
       \/ Register(s) \/ StartError(s) \/ CreateSession(s) \/ StartListeningToOSCARSession(s)
       \/ ListenerEnds(s) \/ CloseInstanceOutside(s) \/ EndSession(s)
       \/ FetchEvents(s) \/ HangUp(s) \/ FetchCancelled(s) \/ MissPoll(s) \/ Quit(s)
       \/ \E p \in Polls : FetchLooks(s, p) \/ FetchWakes(s, p) \/ FetchGivesUp(s, p)

---------------------------------------------------------------------------
Starting(s) == sess[s].start \in {"registered", "online"}
BeingClosed(s) == \E c \in Closers : s \in closing[c].todo \/ closing[c].at = s

\* No OSCAR session is left behind: an open instance is in the hands of
\* StartSession, or in the table of a manager that is up and so within the
\* reaper's reach, or being closed (CreateSession after Shutdown,
\* aim_handler.go:288; the sessions the reaper has taken out of the table).
NoOrphan ==
  \A s \in Sessions : sess[s].inst = "open" =>
    Starting(s) \/ (s \in mgr.table /\ ~mgr.closed) \/ BeingClosed(s)

\* The lease (session.go:32-58): a client that keeps polling, and misses at most
\* one poll in a row, always finds its session while the manager is up and its
\* instance is open; and a session is out of the table within one tick of the
\* end of its life.
SessionLease ==
  \A s \in Sessions :
    /\ (client[s].mode \in {"idle", "polling", "lost"} /\ ~mgr.closed /\ sess[s].inst = "open")
         => (s \in mgr.table /\ ~IsExpired(s))
    /\ (s \in mgr.table /\ ~mgr.reap) => sess[s].idle <= TTL

\* No wake-up is lost: a fetch that waits although the queue holds newer events
\* has a signal pending, unless a fetch its client hung up on took it.
PollSeesAll ==
  \A s \in Sessions :
    (/\ poll[s]["live"].at = "waiting" /\ ~poll[s]["live"].robbed
     /\ getEventsAfter(queue[s].events, poll[s]["live"].after) # <<>>) => queue[s].signal
====
