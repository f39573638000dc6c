------------------------------ MODULE WarnScale ------------------------------
(***************************************************************************)
(* The warning level of an account and the IM rate limit thresholds that    *)
(* follow it: Session.ScaleWarningAndRateLimit (state/session.go),          *)
(* ICBMService.EvilRequest, RestoreWarningLevel and the decay tick of       *)
(* UpdateWarnLevel (foodgroup/icbm.go).  Levels are in tenths of a percent. *)
(***************************************************************************)
EXTENDS Integers

CONSTANTS
    Limit, Alert, Clear, Max,  \* the class's LimitLevel, AlertLevel, ClearLevel, MaxLevel
    Increments,                \* evilDelta, evilDeltaAnon
    Periods,                   \* how many decay periods a user may stay away
    MaxWarned                  \* bound: warnings in one session

ASSUME ClassAssumption ==
    /\ {Limit, Alert, Clear, Max} \subseteq Nat
    /\ Limit <= Alert /\ Alert <= Clear /\ Clear <= Max - 150
    /\ Increments \subseteq 1..1000 /\ Periods \subseteq Nat /\ MaxWarned \in Nat

VARIABLES
    online,   \* the account is signed on
    warning,  \* Session.warning; User.LastWarnLevel while signed off
    limit, alert, clear,  \* rateLimitStates: the class's thresholds
    away,     \* decay periods since the level was last stored
    warned    \* warnings in this session, where they are counted

scaleVars == <<online, warning, limit, alert, clear, away, warned>>

warningDecayPct == -50
FullWarning == 1000
Levels == 0..FullWarning

ScaleTypeOK ==
    /\ online \in BOOLEAN
    /\ warning \in Levels
    /\ limit \in Limit..Max /\ alert \in Alert..Max /\ clear \in Clear..Max
    /\ away \in Periods \cup {0} /\ warned \in 0..MaxWarned

ScaleInit ==
    /\ online = TRUE /\ warning = 0 /\ away = 0 /\ warned = 0
    /\ limit = Limit /\ alert = Alert /\ clear = Clear

-----------------------------------------------------------------------------

clamp(value, min, max) ==
    IF value < min THEN min ELSE IF value > max THEN max ELSE value

\* What incr of the distance to the buffered maximum comes to: float32 arithmetic, cut
\* towards zero.  The products of 260 and 520 that are whole numbers end just below them.
share(distance, incr) ==
    LET size == distance * (IF incr < 0 THEN -incr ELSE incr)
        short == size % 1000 = 0 /\ size # 0 /\ incr \in {260, 520, -260, -520} /\ distance # 750
        part == (size \div 1000) - (IF short THEN 1 ELSE 0)
    IN IF incr < 0 THEN -part ELSE part

\* A threshold that stood at value, moved by incr; base is the class's own.
scaled(value, base, incr) == clamp(value + share(Max - 150 - base, incr), base, Max)

\* Mutant: the thresholds only follow rises.
ScaleUpOnly(from, incr, l, a, c) ==
    /\ from + incr <= FullWarning
    /\ warning' = IF from + incr < 0 THEN 0 ELSE from + incr
    /\ limit' = scaled(l, Limit, IF incr > 0 THEN incr ELSE 0)
    /\ alert' = scaled(a, Alert, incr)
    /\ clear' = scaled(c, Clear, incr)

\* Scale(from, incr, l, a, c): the level moves by incr from "from", the thresholds from
\* l, a and c.  A level above 100% is refused.
Scale(from, incr, l, a, c) ==
    /\ from + incr <= FullWarning
    /\ warning' = IF from + incr < 0 THEN 0 ELSE from + incr
    /\ limit' = scaled(l, Limit, incr)
    /\ alert' = scaled(a, Alert, incr)
    /\ clear' = scaled(c, Clear, incr)

moved(incr) == Scale(warning, incr, limit, alert, clear)

EvilRequest ==
    /\ online /\ warned < MaxWarned
    /\ warned' = warned + 1
    /\ \E incr \in Increments : moved(incr)
    /\ UNCHANGED <<online, away>>

\* The decay ticker runs while the level is positive.
decayTick ==
    /\ online /\ warning > 0
    /\ moved(warningDecayPct)
    /\ UNCHANGED <<online, away, warned>>

-----------------------------------------------------------------------------
int16(n) == ((n + 32768) % 65536) - 32768

\* Mutant: the periods are counted up.
addElapsed(periods) == int16(periods * (-warningDecayPct))

calcElapsedWarningLevel(periods) == int16(periods * warningDecayPct)

\* A new session has the class's own thresholds; RestoreWarningLevel scales them by what
\* is left of the stored level.  A level it may not set leaves the session at zero.
restored == int16(warning + calcElapsedWarningLevel(away))

RestoreWarningLevel ==
    /\ ~online
    /\ online' = TRUE /\ away' = 0 /\ warned' = 0
    /\ IF warning = 0 \/ restored > FullWarning
       THEN /\ warning' = 0
            /\ limit' = Limit /\ alert' = Alert /\ clear' = Clear
       ELSE Scale(0, restored, Limit, Alert, Clear)

-----------------------------------------------------------------------------
(***************************************************************************)
(* Properties.                                                             *)
(***************************************************************************)
\* The thresholds keep the order CheckRateLimit relies on, whatever mix of warnings and
\* decays rounded them: limited before alerted, and cleared no lower than alerted.
ThresholdsOrdered == limit <= alert /\ alert <= clear /\ clear <= Max

\* A user who comes back is warned no more than on leaving, and not at all after 20
\* decay periods (RestoreWarningLevel).
ReturnForgives ==
    [][ ~online /\ online' =>
            warning' <= warning /\ (away * (-warningDecayPct) >= FullWarning => warning' = 0) ]_scaleVars

\* At warning level zero the rate limit is the class's own (session_test.go, the
\* "scale down" test: every level returns to its original).
ThresholdsReturn == online /\ warning = 0 => limit = Limit /\ alert = Alert /\ clear = Clear

\* "Apply a buffer to limit/clear/alert levels so that they never approach too close to
\* the maximum level" (state/session.go).
BufferKept == limit <= Max - 150 /\ alert <= Max - 150 /\ clear <= Max - 150
==============================================================================
