---------------------------- MODULE MCWarnMonitor ----------------------------
(***************************************************************************)
(* Instances of WarnMonitor for TLC, over class 3 of                        *)
(* wire.DefaultRateLimitClasses, the class of ICBMChannelMsgToHost.         *)
(***************************************************************************)
EXTENDS WarnMonitor

CONSTANTS w1, w2, w3

\* Nothing, one decay step, and so much that the second warning is denied.
MCRestored == {0, 50, 930}

\* Back at once, within the hour, and when the level has decayed entirely.
MCShortPeriods == {0, 1, 3, 20}

\* Four and a half days away: 16-bit arithmetic wraps.
MCLongPeriods == {0, 655, 656, 1310, 1311}
=============================================================================
