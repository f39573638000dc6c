--------------------------- MODULE SessionRegistry ---------------------------
(***************************************************************************)
(* What the registry of sessions promises the services that use it: an      *)
(* account is one session at a time, shared by at most so many connections. *)
(* A session that is being closed takes nobody in, ends once its last       *)
(* connection has left it, and no connection of the account gets in         *)
(* meanwhile by another session.  No locks, slots, channels or goroutines:  *)
(* SessionManager has those, and implements this.                           *)
(*                                                                          *)
(* A session has the name of the connection that began it.                  *)
(***************************************************************************)
EXTENDS Naturals, FiniteSets

CONSTANTS Conns, UserOf, MaxConcurrentSessions, None

VARIABLES
    phase,  \* of a session: "none" before it begins, "open", "closing", "over"
    on,     \* the session a connection is part of, or None
    left    \* the connections that have been part of a session

abstractVars == <<phase, on, left>>

SameAccount(c, d) == UserOf[c] = UserOf[d]
Inside(s) == {c \in Conns : on[c] = s}

Init ==
    /\ phase = [c \in Conns |-> "none"]
    /\ on = [c \in Conns |-> None]
    /\ left = {}

\* A session begins when the account has no open one and no connection left of an
\* earlier one, though the earlier one may not be over.
Begin(c) ==
    /\ phase[c] = "none" /\ on[c] = None /\ c \notin left
    /\ UNCHANGED left
    /\ \A s \in Conns : SameAccount(s, c) => phase[s] # "open" /\ on[s] = None
    /\ phase' = [phase EXCEPT ![c] = "open"]
    /\ on' = [on EXCEPT ![c] = c]

Join(c, s) ==
    /\ on[c] = None /\ c \notin left
    /\ phase[s] = "open" /\ SameAccount(s, c)
    /\ Cardinality(Inside(s)) < MaxConcurrentSessions
    /\ UNCHANGED <<left, phase>>
    /\ on' = [on EXCEPT ![c] = s]

Close(s) ==
    /\ phase[s] = "open"
    /\ UNCHANGED <<left, on>>
    /\ phase' = [phase EXCEPT ![s] = "closing"]

Leave(c) ==
    /\ on[c] # None
    /\ left' = left \cup {c}
    /\ on' = [on EXCEPT ![c] = None]
    /\ UNCHANGED phase

\* Once, and with nobody inside.
End(s) ==
    /\ phase[s] \in {"open", "closing"}
    /\ UNCHANGED <<left, on>>
    /\ Inside(s) = {}
    /\ phase' = [phase EXCEPT ![s] = "over"]

Next ==
    \E c \in Conns : Begin(c) \/ Close(c) \/ Leave(c) \/ End(c) \/ \E s \in Conns : Join(c, s)

Spec == Init /\ [][Next]_abstractVars
=============================================================================
