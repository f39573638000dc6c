----------------------------- MODULE WarnMonitor -----------------------------
(***************************************************************************)
(* The warning level of one account and the goroutines around it:           *)
(* Session.ScaleWarningAndRateLimit (state/session.go), which sends the new *)
(* level on warningCh while it holds the session mutex, the two goroutines  *)
(* of ICBMService.UpdateWarnLevel (foodgroup/icbm.go) that store, announce  *)
(* and decay it, and the users who warn the account (EvilRequest).          *)
(*                                                                          *)
(* What a level does to the rate limits is in WarnScale.  The monitor       *)
(* goroutines are started for the account's first instance; the account     *)
(* stays signed on with its other instances when that one closes.           *)
(***************************************************************************)
EXTENDS WarnScale, Sequences

CONSTANTS
    Warners,      \* goroutines that serve an EvilRequest each
    Restored,     \* the levels a previous session may have stored
    FirstCloses,  \* whether the instance the monitor watches may close
    None

ASSUME ConstantsAssumption ==
    /\ Restored \subseteq Levels
    /\ FirstCloses \in BOOLEAN
    /\ None \notin Warners \cup {"decay"} /\ "decay" \notin Warners

Decay == "decay"
Scalers == Warners \cup {Decay}

VARIABLES
    mutex,    \* who holds Session.mutex for writing
    chan,     \* Session.warningCh, capacity 1
    signal,   \* UpdateWarnLevel's warnCh, capacity 1: how many signals it holds
    ticking,  \* inProgress: the decay ticker runs
    pc,       \* where each caller of ScaleWarningAndRateLimit is
    mon,      \* where the consumer goroutine is
    level,    \* the level the consumer received
    stored,   \* User.LastWarnLevel, as SetWarnLevel left it
    told,     \* the level last announced to buddies
    closed    \* the first instance is closed

vars == <<scaleVars, mutex, chan, signal, ticking, pc, mon, level, stored, told, closed>>

TypeOK ==
    /\ ScaleTypeOK
    /\ mutex \in Scalers \cup {None}
    /\ chan \in Seq(Levels) /\ Len(chan) <= 1
    /\ signal \in 0..1
    /\ ticking \in BOOLEAN
    /\ pc \in [Scalers -> {"start", "send", "stop", "done"}]
    /\ mon \in {"select", "signal", "store", "info", "announce", "gone"}
    /\ level \in Levels
    /\ stored \in Levels /\ told \in Levels
    /\ closed \in BOOLEAN

\* The account is signed off, with the level of its last session.
Init ==
    /\ online = FALSE /\ warning \in Restored /\ away \in Periods /\ warned = 0
    /\ limit = Limit /\ alert = Alert /\ clear = Clear
    /\ stored = warning /\ told = 0
    /\ chan = <<>> /\ ticking = FALSE
    /\ mutex = None /\ signal = 0 /\ level = 0 /\ closed = FALSE
    /\ pc = [p \in Scalers |-> "start"]
    /\ mon = "select"

\* RestoreWarningLevel sends the level it restored, if one was stored, and UpdateWarnLevel
\* starts; buddies are told at sign-on.
signOn ==
    /\ RestoreWarningLevel
    /\ chan' = IF warning = 0 \/ restored > FullWarning THEN <<>> ELSE <<warning'>>
    /\ ticking' = (warning' > 0)
    /\ told' = warning'
    /\ UNCHANGED <<mutex, signal, pc, mon, level, stored, closed>>

-----------------------------------------------------------------------------
\* What p adds to the level.
increments(p) == IF p = Decay THEN {warningDecayPct} ELSE Increments

\* Where the caller goes with the level it is returned: the decay loop stops at zero.
afterScale(p) == IF p # Decay THEN "done" ELSE IF warning = 0 THEN "stop" ELSE "start"

\* Mutant: a level that finds the channel full is not sent.
ScaleAndDrop(p) ==
    \/ /\ online /\ pc[p] = "start" /\ mutex = None
       /\ p = Decay => ticking
       /\ \E incr \in increments(p) : moved(incr)
       /\ mutex' = p
       /\ pc' = [pc EXCEPT ![p] = "send"]
       /\ UNCHANGED <<online, away, warned, chan, signal, ticking, mon, level, stored, told, closed>>
    \/ /\ pc[p] = "send"
       /\ chan' = IF chan = <<>> THEN <<warning>> ELSE chan
       /\ mutex' = None
       /\ pc' = [pc EXCEPT ![p] = afterScale(p)]
       /\ UNCHANGED <<scaleVars, signal, ticking, mon, level, stored, told, closed>>

\* ScaleWarningAndRateLimit takes the mutex, sets the level and sends it.
ScaleWarningAndRateLimit(p) ==
    \/ /\ online /\ pc[p] = "start" /\ mutex = None
       /\ p = Decay => ticking
       /\ \E incr \in increments(p) : moved(incr)
       /\ mutex' = p
       /\ pc' = [pc EXCEPT ![p] = "send"]
       /\ UNCHANGED <<online, away, warned, chan, signal, ticking, mon, level, stored, told, closed>>
    \/ /\ pc[p] = "send" /\ chan = <<>>
       /\ chan' = <<warning>>
       /\ mutex' = None
       /\ pc' = [pc EXCEPT ![p] = afterScale(p)]
       /\ UNCHANGED <<scaleVars, signal, ticking, mon, level, stored, told, closed>>

\* A warning that would pass 100% is denied.
refused(p) ==
    /\ online /\ pc[p] = "start" /\ mutex = None
    /\ \E incr \in increments(p) : warning + incr > FullWarning
    /\ pc' = [pc EXCEPT ![p] = "done"]
    /\ UNCHANGED <<scaleVars, mutex, chan, signal, ticking, mon, level, stored, told, closed>>

-----------------------------------------------------------------------------
(***************************************************************************)
(* UpdateWarnLevel's consumer goroutine.                                    *)
(***************************************************************************)
receiveWarning ==
    /\ mon = "select" /\ chan # <<>>
    /\ level' = Head(chan)
    /\ chan' = <<>>
    /\ mon' = IF Head(chan) > 0 THEN "signal" ELSE "store"
    /\ UNCHANGED <<scaleVars, mutex, signal, ticking, pc, stored, told, closed>>

sendSignal ==
    /\ mon = "signal" /\ signal = 0
    /\ signal' = 1
    /\ mon' = "store"
    /\ UNCHANGED <<scaleVars, mutex, chan, ticking, pc, level, stored, told, closed>>

SetWarnLevel ==
    /\ mon = "store"
    /\ stored' = level
    /\ mon' = "info"
    /\ UNCHANGED <<scaleVars, mutex, chan, signal, ticking, pc, level, told, closed>>

\* TLVUserInfo takes the session mutex for reading.
TLVUserInfo ==
    /\ mon = "info" /\ mutex = None
    /\ mon' = "announce"
    /\ UNCHANGED <<scaleVars, mutex, chan, signal, ticking, pc, level, stored, told, closed>>

BroadcastBuddyArrived ==
    /\ mon = "announce"
    /\ told' = level
    /\ mon' = "select"
    /\ UNCHANGED <<scaleVars, mutex, chan, signal, ticking, pc, level, stored, closed>>

instanceClosed ==
    /\ mon = "select" /\ closed
    /\ mon' = "gone"
    /\ UNCHANGED <<scaleVars, mutex, chan, signal, ticking, pc, level, stored, told, closed>>

Consumer ==
    \/ receiveWarning \/ sendSignal \/ SetWarnLevel \/ TLVUserInfo \/ BroadcastBuddyArrived
    \/ instanceClosed

-----------------------------------------------------------------------------
(***************************************************************************)
(* UpdateWarnLevel's decay loop.  A tick is five minutes after the last.    *)
(***************************************************************************)
\* Mutant: the loop consumes a signal without starting the ticker.
ignoreWarning ==
    /\ pc[Decay] = "start" /\ signal = 1 /\ ~closed
    /\ signal' = 0
    /\ UNCHANGED <<scaleVars, mutex, chan, ticking, pc, mon, level, stored, told, closed>>

startTicker ==
    /\ pc[Decay] = "start" /\ signal = 1
    /\ signal' = 0
    /\ ticking' = TRUE
    /\ UNCHANGED <<scaleVars, mutex, chan, pc, mon, level, stored, told, closed>>

\* The decay is complete, or the monitor's instance is closed.
stopTicker ==
    /\ \/ /\ pc[Decay] = "stop"
          /\ pc' = [pc EXCEPT ![Decay] = "start"]
       \/ /\ pc[Decay] = "start" /\ closed
          /\ pc' = [pc EXCEPT ![Decay] = "done"]
    /\ ticking' = FALSE
    /\ UNCHANGED <<scaleVars, mutex, chan, signal, mon, level, stored, told, closed>>

closeFirst ==
    /\ online /\ FirstCloses /\ ~closed
    /\ closed' = TRUE
    /\ UNCHANGED <<scaleVars, mutex, chan, signal, ticking, pc, mon, level, stored, told>>

\* The mutex is held by someone who waits for room in a channel nobody empties.
Stuck ==
    /\ mutex # None /\ chan # <<>>
    /\ \/ mon \in {"info", "gone"}
       \/ mon = "signal" /\ signal = 1 /\ pc[Decay] \notin {"start", "stop"}

Rest == \A w \in Warners : pc[w] = "done"

Terminating == (Stuck \/ Rest) /\ UNCHANGED vars

Next ==
    \/ signOn
    \/ \E p \in Scalers : ScaleWarningAndRateLimit(p)
    \/ \E p \in Warners : refused(p)
    \/ Consumer
    \/ startTicker \/ stopTicker \/ closeFirst
    \/ Terminating

Spec == Init /\ [][Next]_vars

(***************************************************************************)
(* Fairness: goroutines are scheduled and the ticker ticks.  A client need  *)
(* not warn and an instance need not close.                                 *)
(***************************************************************************)
Fairness ==
    /\ WF_vars(Consumer) /\ WF_vars(startTicker \/ stopTicker)
    /\ SF_vars(ScaleWarningAndRateLimit(Decay))
    /\ \A w \in Warners : WF_vars(pc[w] = "send" /\ ScaleWarningAndRateLimit(w))

FairSpec == Spec /\ Fairness

-----------------------------------------------------------------------------
(***************************************************************************)
(* Properties.                                                             *)
(***************************************************************************)
\* Whenever no level is on its way, the stored and the announced level are the session's:
\* levels are sent in the order they were set, and none is lost or overtaken.
StoredIsCurrent ==
    online /\ mutex = None /\ chan = <<>> /\ mon = "select" => stored = warning /\ told = warning

\* The session mutex is always released ("All methods on Session are safe for
\* concurrent use").
MutexIsReleased == mutex # None ~> mutex = None

\* A warning level decays to zero ("periodically decay warning level"), while the instance
\* that watches it is signed on and unless the deadlock MutexIsReleased is about stops
\* everything.
WarningDecays == online /\ warning > 0 ~> warning = 0 \/ closed \/ Stuck

\* The same for as long as the account is signed on with any instance.
DecaysThroughout == online /\ warning > 0 ~> warning = 0 \/ Stuck
==============================================================================
