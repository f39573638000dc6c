------------------------------ MODULE RateLimit ------------------------------
(***************************************************************************)
(* The rate limit of one SNAC class of an account: wire.CheckRateLimit,     *)
(* Session.EvaluateRateLimit on each request, Session.ObserveRateChanges    *)
(* and OServiceService.MonitorRateLimits on a ticker, SubscribeRateLimits,  *)
(* together with the warnings that move the thresholds (WarnScale).         *)
(*                                                                          *)
(* Time is what has passed since the last request, in milliseconds.  Bots,  *)
(* which EvaluateRateLimit exempts, are left out.                           *)
(***************************************************************************)
EXTENDS WarnScale, Sequences

CONSTANTS
    WindowSize, Disconnect,  \* the class's WindowSize and DisconnectLevel
    Gaps,                    \* the times between two requests
    MaxInt                   \* the largest int32

ASSUME WindowAssumption ==
    /\ WindowSize \in Nat \ {0} /\ Disconnect \in 0..Limit
    /\ Gaps \subseteq Nat /\ MaxInt \in Nat

VARIABLES
    currentLevel, \* CurrentLevel: the moving average
    limitedNow,   \* LimitedNow
    status,       \* CurrentStatus
    idle,         \* now - LastTime
    subscribed,   \* Subscribed
    seen,         \* lastObservedStates: the status and thresholds last observed
    notified,     \* the status and thresholds the instances were last sent
    open,         \* the session is not closed
    quiet,        \* the client sends no more
    patient       \* history: each request came at least the clear level after the last

rateVars == <<currentLevel, limitedNow, status, idle, subscribed, seen, notified, open, quiet, patient>>
allVars == <<scaleVars, rateVars>>

Statuses == {"clear", "alert", "limited", "disconnect"}
class == <<limit, alert, clear>>
Thresholds == (Limit..Max) \X (Alert..Max) \X (Clear..Max)

RateTypeOK ==
    /\ ScaleTypeOK
    /\ currentLevel \in -MaxInt..Max
    /\ limitedNow \in BOOLEAN /\ subscribed \in BOOLEAN
    /\ {open, quiet, patient} \subseteq BOOLEAN
    /\ status \in Statuses
    /\ idle \in Gaps \cup {0}
    /\ seen \in Statuses \X Thresholds /\ notified \in Statuses \X Thresholds

\* SetRateClasses of a new session.
RateInit ==
    /\ ScaleInit
    /\ currentLevel = Max /\ limitedNow = FALSE /\ status = "clear" /\ idle = 0
    /\ subscribed = FALSE
    /\ seen = <<"clear", class>> /\ notified = <<"clear", class>>
    /\ open = TRUE /\ quiet = FALSE /\ patient = TRUE

-----------------------------------------------------------------------------
(***************************************************************************)
(* CheckRateLimit, in 32-bit arithmetic.                                    *)
(***************************************************************************)
int32(n) == ((n + MaxInt + 1) % (2 * (MaxInt + 1))) - MaxInt - 1

quotient(n, d) == IF n < 0 THEN -((-n) \div d) ELSE n \div d

\* Mutant: the sum is divided by one more than the window.
averageOff(ms) == quotient(int32(currentLevel * (WindowSize - 1) + int32(ms)), WindowSize + 1)

average(ms) == quotient(int32(currentLevel * (WindowSize - 1) + int32(ms)), WindowSize)

newAvg == IF average(idle) > Max THEN Max ELSE average(idle)

CheckRateLimit ==
    IF newAvg < Disconnect THEN "disconnect"
    ELSE IF limitedNow THEN (IF newAvg >= clear THEN "clear" ELSE "limited")
    ELSE IF newAvg < limit THEN "limited"
    ELSE IF newAvg < alert THEN "alert"
    ELSE "clear"

-----------------------------------------------------------------------------
Elapse ==
    /\ open
    /\ \E g \in Gaps : g > idle /\ idle' = g
    /\ UNCHANGED <<scaleVars, currentLevel, limitedNow, status, subscribed, seen, notified, open, quiet, patient>>

\* A request: below the disconnect level it closes the session.
EvaluateRateLimit ==
    /\ open /\ ~quiet /\ idle \in Gaps
    /\ currentLevel' = newAvg
    /\ status' = CheckRateLimit
    /\ limitedNow' = (CheckRateLimit = "limited")
    /\ idle' = 0
    /\ open' = (CheckRateLimit # "disconnect")
    /\ patient' = (patient /\ idle >= clear)
    /\ UNCHANGED <<scaleVars, subscribed, seen, notified, quiet>>

SubscribeRateLimits ==
    /\ open /\ ~subscribed
    /\ subscribed' = TRUE
    /\ UNCHANGED <<scaleVars, currentLevel, limitedNow, status, idle, seen, notified, open, quiet, patient>>

\* Mutant: the monitor leaves a limited class to the next request.
ObserveNoClear ==
    /\ status' = CheckRateLimit
    /\ UNCHANGED <<limitedNow, currentLevel>>
    /\ seen' = <<CheckRateLimit, class>>

\* Mutant: the baseline is not moved.
ObserveOnly ==
    /\ status' = CheckRateLimit
    /\ IF limitedNow /\ CheckRateLimit = "clear"
       THEN limitedNow' = FALSE /\ currentLevel' = newAvg
       ELSE UNCHANGED <<limitedNow, currentLevel>>
    /\ UNCHANGED seen

\* What a request sent now would get; a limited class that would be clear is cleared.
ObserveRateChanges ==
    /\ status' = CheckRateLimit
    /\ IF limitedNow /\ CheckRateLimit = "clear"
       THEN limitedNow' = FALSE /\ currentLevel' = newAvg
       ELSE UNCHANGED <<limitedNow, currentLevel>>
    /\ seen' = <<CheckRateLimit, class>>

\* A tick: each transition is broadcast, except that to disconnect.
MonitorRateLimits ==
    /\ open /\ subscribed
    /\ ObserveRateChanges
    /\ notified' = << IF status' \notin {seen[1], "disconnect"} THEN status' ELSE notified[1],
                      IF class # seen[2] THEN class ELSE notified[2] >>
    /\ UNCHANGED <<scaleVars, idle, subscribed, open, quiet, patient>>

-----------------------------------------------------------------------------
goQuiet ==
    /\ open /\ ~quiet
    /\ quiet' = TRUE
    /\ UNCHANGED <<scaleVars, currentLevel, limitedNow, status, idle, subscribed, seen, notified, open, patient>>

Warnings == open /\ (EvilRequest \/ decayTick) /\ UNCHANGED rateVars

SessionOver == ~open /\ UNCHANGED allVars

RateNext ==
    \/ Elapse \/ EvaluateRateLimit \/ SubscribeRateLimits \/ MonitorRateLimits
    \/ goQuiet \/ Warnings \/ SessionOver

RateSpec == RateInit /\ [][RateNext]_allVars

(***************************************************************************)
(* Fairness: time passes, the monitor's ticker ticks and so does the decay. *)
(***************************************************************************)
RateFairness ==
    WF_allVars(Elapse) /\ WF_allVars(MonitorRateLimits) /\ WF_allVars(Warnings /\ decayTick)

FairRateSpec == RateSpec /\ RateFairness

-----------------------------------------------------------------------------
(***************************************************************************)
(* Properties.                                                             *)
(***************************************************************************)

\* The instances are told of a limit before they are told it is over, and what they were
\* told last is what the monitor saw last, disconnects apart: no transition is lost or
\* repeated however requests, ticks and warnings interleave.
ToldWhatWasSeen ==
    [][ notified' # notified =>
            /\ notified'[1] \in {seen'[1], notified[1]}
            /\ notified'[2] = seen'[2]
            /\ notified' # <<seen[1], seen[2]>> ]_allVars

\* A client that stops sending is let go and told so, once the decay has ended.
LimitIsLifted ==
    quiet /\ subscribed ~> \/ ~open
                           \/ ~limitedNow /\ notified = <<"clear", class>>

\* A client that is not warned and leaves at least the clear level between two requests
\* is never limited or disconnected, nor told so.
PatientIsServed ==
    patient /\ warned = 0 => open /\ ~limitedNow /\ notified[1] \in {"clear", "alert"}
==============================================================================
