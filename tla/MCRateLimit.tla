----------------------------- MODULE MCRateLimit -----------------------------
(***************************************************************************)
(* Instances of RateLimit for TLC: class 3 of wire.DefaultRateLimitClasses. *)
(* TLC's integers have 32 bits themselves: MaxInt is smaller than the       *)
(* code's 2^31 - 1, and the longest gap is to it what 25 days are to 2^31.  *)
(***************************************************************************)
EXTENDS RateLimit

\* A burst, the pause a patient client leaves, and one in which any average recovers.
MCGaps == {0, Clear, 60000}

\* No gap below the clear level.
MCPatientGaps == {Clear, 9000, 130000}

\* One gap is past the largest int32.
MCLongGaps == MCPatientGaps \cup {MaxInt + 5000}
==============================================================================
