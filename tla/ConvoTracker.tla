---------------------------- MODULE ConvoTracker ----------------------------
(***************************************************************************)
(* convoTracker (foodgroup/icbm.go): who may warn whom.  A message from a   *)
(* sender to a recipient lets the recipient warn the sender once; each key  *)
(* remembers the last three messages and the last three warnings in ring    *)
(* buffers, which the cache forgets an hour after it first stored them.     *)
(*                                                                         *)
(* Two instances of the warning account run trackWarn at the same time: it *)
(* takes no lock.  A conversation is a pair of sender and recipient; its    *)
(* key is the two names run together.                                       *)
(***************************************************************************)
EXTENDS Integers, Sequences, FiniteSets

CONSTANTS
    Convos,     \* conversations
    Key,        \* [Convos -> keys]: convoTracker.key
    Instances,  \* instances of the warning account
    Window,     \* an hour
    MaxTime,    \* bound: the clock
    MaxSaid,    \* bound: messages and warnings of a conversation
    Nothing

ASSUME TrackerAssumption ==
    /\ DOMAIN Key = Convos
    /\ Window \in Nat \ {0} /\ MaxTime \in Nat /\ MaxSaid \in Nat

VARIABLES
    now,     \* the clock
    convos,  \* the cache of messages: key -> buffer or None
    warns,   \* the cache of warnings: key -> buffer or None
    calls,   \* what each instance does in trackWarn
    said,    \* history: when the messages of a conversation were sent
    granted, \* history: when its warnings were granted
    raced    \* history: two calls of trackWarn overlapped

convoVars == <<now, convos, warns, calls, said, granted, raced>>

Times == 0..MaxTime
Slots == 0..2
Ids == (Instances \cup {Nothing}) \X Times
Buffers == [id : Ids, cur : Slots, vals : [Slots -> Times \cup {Nothing}]]

ASSUME NoneAssumption == Nothing \notin Times /\ Nothing \notin Buffers

Idle == [at |-> "idle"]
Calls == [at : {"count", "set"}, convo : Convos, start : Times, msgs : 0..3, buf : Buffers, new : BOOLEAN]

ConvoTypeOK ==
    /\ now \in Times
    /\ convos \in [{Key[c] : c \in Convos} -> Buffers \cup {Nothing}]
    /\ warns \in [{Key[c] : c \in Convos} -> Buffers \cup {Nothing}]
    /\ calls \in [Instances -> Calls \cup {Idle}]
    /\ said \in [Convos -> Seq(Times)] /\ granted \in [Convos -> Seq(Times)] /\ raced \in BOOLEAN

ConvoInit ==
    /\ now = 0
    /\ convos = [k \in {Key[c] : c \in Convos} |-> Nothing]
    /\ warns = [k \in {Key[c] : c \in Convos} |-> Nothing]
    /\ calls = [i \in Instances |-> Idle]
    /\ said = [c \in Convos |-> <<>>] /\ granted = [c \in Convos |-> <<>>] /\ raced = FALSE

-----------------------------------------------------------------------------
(***************************************************************************)
(* The ring buffer and the cache.  A buffer is named by the instance and    *)
(* the time that made it.                                                   *)
(***************************************************************************)
ringBuffer(id) == [id |-> id, cur |-> 0, vals |-> [n \in Slots |-> Nothing]]

set(buf, t) == [id |-> buf.id, cur |-> (buf.cur + 1) % 3, vals |-> [buf.vals EXCEPT ![buf.cur] = t]]

\* Mutant: everything remembered counts.
countAll(buf, t) == Cardinality({n \in Slots : buf.vals[n] # Nothing})

\* v.After(now - window)
inWindow(buf, t) == Cardinality({n \in Slots : buf.vals[n] # Nothing /\ buf.vals[n] > t - Window})

\* go-cache: an item is found until an hour after it was stored.
found(cache, k) == cache[k] # Nothing /\ now <= cache[k].id[2] + Window

trackConvo(c) ==
    /\ Len(said[c]) < MaxSaid
    /\ LET k == Key[c]
           buf == IF found(convos, k) THEN convos[k] ELSE ringBuffer(<<Nothing, now>>)
       IN convos' = [convos EXCEPT ![k] = set(buf, now)]
    /\ said' = [said EXCEPT ![c] = Append(@, now)]
    /\ UNCHANGED <<now, warns, calls, granted, raced>>

-----------------------------------------------------------------------------
(***************************************************************************)
(* trackWarn: read the messages and the buffer of warnings; store a new     *)
(* buffer if there is none, and count; record the warning.                  *)
(***************************************************************************)
read(i) ==
    \E c \in Convos : LET k == Key[c] IN
        /\ calls[i] = Idle /\ Len(granted[c]) < MaxSaid
        /\ found(convos, k)
        /\ calls' = [calls EXCEPT ![i] =
               [at |-> "count", convo |-> c, start |-> now, msgs |-> inWindow(convos[k], now),
                new |-> ~found(warns, k),
                buf |-> IF found(warns, k) THEN warns[k] ELSE ringBuffer(<<i, now>>)]]
        /\ raced' = (raced \/ \E j \in Instances : calls[j] # Idle)
        /\ UNCHANGED <<now, convos, warns, said, granted>>

\* The buffer the call points to, as it is now: another call may have written to it.
current(call) ==
    LET k == Key[call.convo]
    IN IF warns[k] # Nothing /\ warns[k].id = call.buf.id THEN warns[k] ELSE call.buf

\* Mutant: as many warnings as messages are one too few.
countOneMore(i) ==
    /\ calls[i].at = "count"
    /\ LET call == calls[i]
           buf == current(call)
           denied == call.msgs < inWindow(buf, call.start)
       IN /\ warns' = IF call.new THEN [warns EXCEPT ![Key[call.convo]] = buf] ELSE warns
          /\ calls' = [calls EXCEPT ![i] = IF denied THEN Idle ELSE [call EXCEPT !.at = "set", !.buf = buf]]
    /\ UNCHANGED <<now, convos, said, granted, raced>>

count(i) ==
    /\ calls[i].at = "count"
    /\ LET call == calls[i]
           buf == current(call)
           denied == call.msgs <= inWindow(buf, call.start)
       IN /\ warns' = IF call.new THEN [warns EXCEPT ![Key[call.convo]] = buf] ELSE warns
          /\ calls' = [calls EXCEPT ![i] = IF denied THEN Idle ELSE [call EXCEPT !.at = "set", !.buf = buf]]
    /\ UNCHANGED <<now, convos, said, granted, raced>>

\* A buffer no longer in the cache is written to in vain.
record(i) ==
    /\ calls[i].at = "set"
    /\ LET call == calls[i]
           k == Key[call.convo]
           live == warns[k] # Nothing /\ warns[k].id = call.buf.id
       IN /\ warns' = IF live THEN [warns EXCEPT ![k] = set(@, call.start)] ELSE warns
          /\ granted' = [granted EXCEPT ![call.convo] = Append(@, now)]
    /\ calls' = [calls EXCEPT ![i] = Idle]
    /\ UNCHANGED <<now, convos, said, raced>>

trackWarn(i) == read(i) \/ count(i) \/ record(i)

\* A call takes no time.
tick ==
    /\ now < MaxTime /\ \A i \in Instances : calls[i] = Idle
    /\ now' = now + 1
    /\ UNCHANGED <<convos, warns, calls, said, granted, raced>>

ConvoNext ==
    \/ \E c \in Convos : trackConvo(c)
    \/ \E i \in Instances : trackWarn(i)
    \/ tick

ConvoSpec == ConvoInit /\ [][ConvoNext]_convoVars

-----------------------------------------------------------------------------
(***************************************************************************)
(* Properties.                                                             *)
(***************************************************************************)
\* "A user (the warner) can only warn another user (the warnee) only if the warner has
\* received a message from the warnee" (foodgroup/icbm.go), within the hour before.
WarnNeedsMessage ==
    \A c \in Convos : \A n \in DOMAIN granted[c] :
        \E m \in DOMAIN said[c] : said[c][m] \in (granted[c][n] - Window + 1)..granted[c][n]

\* "The warner may only warn 1 time per message received from warnee."
OnePerMessage == \A c \in Convos : Len(granted[c]) <= Len(said[c])

\* "The warner may only warn the warnee up to 3 times per warn window."
ThreePerWindow ==
    \A c \in Convos : \A t \in Times :
        Cardinality({n \in DOMAIN granted[c] : granted[c][n] \in t..(t + Window - 1)}) <= 3

\* Until the first buffer expires, and unless calls overlap, the account's instances
\* together warn at most once for each message (trackWarn).
WarningsPerMessage == now <= Window /\ ~raced => OnePerMessage

==============================================================================
