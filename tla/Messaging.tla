------------------------------ MODULE Messaging ------------------------------
(***************************************************************************)
(* Instant messages to one account: ICBMService.ChannelMsgToHost and        *)
(* OfflineRetrieve (foodgroup/icbm.go), the relays of the session manager   *)
(* (state/session_manager.go), the queues of the account's instances        *)
(* (state/session.go) and the table of offline messages                     *)
(* (state/user_store.go).                                                   *)
(*                                                                         *)
(* Each sender is one connection, whose requests are served one at a time;  *)
(* nobody blocks anybody and every sender asks for an acknowledgement.  An  *)
(* instance is live from ClientOnline until it is closed.  The account has  *)
(* a session as long as one of its instances is live.                       *)
(***************************************************************************)
EXTENDS Integers, Sequences, FiniteSets, SequencesExt

CONSTANTS
    NumMsgs,       \* messages are 1..NumMsgs
    From,          \* [1..NumMsgs -> senders]
    Stored,        \* messages that carry ICBMTLVStore
    Instances,     \* instances of the recipient
    QueueLimit,    \* capacity of an instance's msgCh
    InboxLimit,    \* offlineInboxLimit
    MaxRetrieves   \* bound: OfflineRetrieve calls of an instance

ASSUME MessagingAssumption ==
    /\ NumMsgs \in Nat /\ DOMAIN From = 1..NumMsgs /\ Stored \subseteq 1..NumMsgs
    /\ QueueLimit \in Nat \ {0} /\ InboxLimit \in Nat \ {0} /\ MaxRetrieves \in Nat

Msgs == 1..NumMsgs

VARIABLES
    conn,    \* instance -> off, live, closed
    active,  \* instance -> neither idle nor away
    unread,  \* instance -> how many messages wait in msgCh
    got,     \* instance -> every message that entered msgCh, in order
    inbox,   \* the rows of offlineMessage with this recipient
    count,   \* users.offlineMsgCount
    pc,      \* message -> where ChannelMsgToHost is
    mode,    \* message -> which relay was chosen
    todo,    \* message -> the instances its relay has still to visit
    online,  \* history: message -> the instances live since it was sent
    job,     \* instance -> the messages OfflineRetrieve has read and still relays
    stage,   \* instance -> where OfflineRetrieve is
    calls    \* instance -> OfflineRetrieve calls

instVars == <<conn, active, unread, got>>
sendVars == <<pc, mode, todo, online>>
jobVars == <<job, stage, calls>>
vars == <<instVars, inbox, count, sendVars, jobVars>>

Outcomes == {"acked", "saved", "refused"}

TypeOK ==
    /\ conn \in [Instances -> {"off", "live", "closed"}]
    /\ active \in [Instances -> BOOLEAN]
    /\ unread \in [Instances -> 0..QueueLimit]
    /\ got \in [Instances -> Seq(Msgs)]
    /\ inbox \in Seq(Msgs) /\ count \in 0..InboxLimit
    /\ pc \in [Msgs -> {"start", "choose", "lookup", "relay", "store"} \cup Outcomes]
    /\ mode \in [Msgs -> {"none", "all", "active"}]
    /\ todo \in [Msgs -> SUBSET Instances] /\ online \in [Msgs -> SUBSET Instances]
    /\ job \in [Instances -> Seq(Msgs)]
    /\ stage \in [Instances -> {"idle", "relay", "delete"}]
    /\ calls \in [Instances -> 0..MaxRetrieves]

Init ==
    /\ conn = [i \in Instances |-> "off"] /\ active = [i \in Instances |-> TRUE]
    /\ unread = [i \in Instances |-> 0] /\ got = [i \in Instances |-> <<>>]
    /\ inbox = <<>> /\ count = 0
    /\ pc = [m \in Msgs |-> "start"] /\ mode = [m \in Msgs |-> "none"]
    /\ todo = [m \in Msgs |-> {}] /\ online = [m \in Msgs |-> {}]
    /\ job = [i \in Instances |-> <<>>] /\ stage = [i \in Instances |-> "idle"]
    /\ calls = [i \in Instances |-> 0]

live == {i \in Instances : conn[i] = "live"}

-----------------------------------------------------------------------------
(***************************************************************************)
(* The recipient's instances.                                               *)
(***************************************************************************)
ClientOnline(i) ==
    /\ conn[i] = "off"
    /\ conn' = [conn EXCEPT ![i] = "live"]
    /\ UNCHANGED <<active, unread, got, inbox, count, sendVars, jobVars>>

\* Away or idle, or back.
setActive(i) ==
    /\ conn[i] = "live"
    /\ active' = [active EXCEPT ![i] = ~@]
    /\ UNCHANGED <<conn, unread, got, inbox, count, sendVars, jobVars>>

CloseInstance(i) ==
    /\ conn[i] = "live"
    /\ conn' = [conn EXCEPT ![i] = "closed"]
    /\ online' = [m \in Msgs |-> online[m] \ {i}]
    /\ UNCHANGED <<active, unread, got, inbox, count, pc, mode, todo, jobVars>>

receiveSessMessages(i) ==
    /\ conn[i] = "live" /\ unread[i] > 0
    /\ unread' = [unread EXCEPT ![i] = @ - 1]
    /\ UNCHANGED <<conn, active, got, inbox, count, sendVars, jobVars>>

\* Mutant: a full queue does not close the instance.
pushKeepOpen(i, m) ==
    IF conn[i] = "live" /\ unread[i] < QueueLimit
    THEN /\ unread' = [unread EXCEPT ![i] = @ + 1]
         /\ got' = [got EXCEPT ![i] = Append(@, m)]
         /\ UNCHANGED <<conn, online>>
    ELSE UNCHANGED <<unread, got, conn, online>>

\* RelayMessageToInstance, and what the relays do with its answer: a closed instance gets
\* nothing, a full one is closed.
push(i, m) ==
    IF conn[i] = "closed" THEN UNCHANGED <<unread, got, conn, online>>
    ELSE IF unread[i] < QueueLimit
    THEN /\ unread' = [unread EXCEPT ![i] = @ + 1]
         /\ got' = [got EXCEPT ![i] = Append(@, m)]
         /\ UNCHANGED <<conn, online>>
    ELSE /\ conn' = [conn EXCEPT ![i] = "closed"]
         /\ online' = [n \in Msgs |-> online[n] \ {i}]
         /\ UNCHANGED <<unread, got>>

-----------------------------------------------------------------------------
(***************************************************************************)
(* ChannelMsgToHost.                                                        *)
(***************************************************************************)
goto(m, place) == pc' = [pc EXCEPT ![m] = place]

\* Mutant: a connection serves its requests at the same time.
lookupAnyTime(m) ==
    /\ pc[m] = "start"
    /\ IF live = {} THEN goto(m, IF m \in Stored THEN "store" ELSE "refused")
                    ELSE goto(m, "choose")
    /\ online' = [online EXCEPT ![m] = live]
    /\ UNCHANGED <<instVars, inbox, count, mode, todo, jobVars>>

\* RetrieveSession: a message to nobody is stored if it may be.
lookup(m) ==
    /\ pc[m] = "start"
    /\ \A n \in 1..(m - 1) : From[n] = From[m] => pc[n] \in Outcomes
    /\ IF live = {} THEN goto(m, IF m \in Stored THEN "store" ELSE "refused")
                    ELSE goto(m, "choose")
    /\ online' = [online EXCEPT ![m] = live]
    /\ UNCHANGED <<instVars, inbox, count, mode, todo, jobVars>>

\* recipSess.Inactive()
choose(m) ==
    /\ pc[m] = "choose"
    /\ mode' = [mode EXCEPT ![m] = IF \E i \in live : active[i] THEN "active" ELSE "all"]
    /\ goto(m, "lookup")
    /\ UNCHANGED <<instVars, inbox, count, todo, online, jobVars>>

\* The relay looks the session up again, and takes its instances as they are.
relayLookup(m) ==
    /\ pc[m] = "lookup"
    /\ todo' = [todo EXCEPT ![m] = live]
    /\ goto(m, "relay")
    /\ UNCHANGED <<instVars, inbox, count, mode, online, jobVars>>

\* maybeRelayMessage and maybeRelayMessageActiveOnly: one instance of the list.
relay(m) ==
    /\ pc[m] = "relay"
    /\ \E i \in todo[m] :
           /\ todo' = [todo EXCEPT ![m] = @ \ {i}]
           /\ IF conn[i] = "live" /\ (mode[m] = "active" => active[i])
              THEN push(i, m)
              ELSE UNCHANGED <<unread, got, conn, online>>
    /\ UNCHANGED <<active, inbox, count, pc, mode, jobVars>>

\* trackConvo, and the acknowledgement.
acknowledge(m) ==
    /\ pc[m] = "relay" /\ todo[m] = {}
    /\ goto(m, "acked")
    /\ UNCHANGED <<instVars, inbox, count, mode, todo, online, jobVars>>

fromSame(m) == Cardinality({n \in DOMAIN inbox : From[inbox[n]] = From[m]})

\* Mutant: the message is inserted before the limit is checked.
SaveMessageLate(m) ==
    /\ pc[m] = "store"
    /\ inbox' = Append(inbox, m)
    /\ IF fromSame(m) >= InboxLimit
       THEN UNCHANGED count /\ goto(m, "refused")
       ELSE count' = fromSame(m) + 1 /\ goto(m, "saved")
    /\ UNCHANGED <<instVars, mode, todo, online, jobVars>>

\* One transaction: the limit is on the messages of this sender, and so is the count.
\* The recipient may have opted out.
SaveMessage(m) ==
    /\ pc[m] = "store"
    /\ \/ /\ fromSame(m) < InboxLimit
          /\ inbox' = Append(inbox, m)
          /\ count' = fromSame(m) + 1
          /\ goto(m, "saved")
       \/ goto(m, "refused") /\ UNCHANGED <<inbox, count>>
    /\ UNCHANGED <<instVars, mode, todo, online, jobVars>>

ChannelMsgToHost(m) ==
    lookup(m) \/ choose(m) \/ relayLookup(m) \/ relay(m) \/ acknowledge(m) \/ SaveMessage(m)

-----------------------------------------------------------------------------
(***************************************************************************)
(* OfflineRetrieve, from an instance's connection.                          *)
(***************************************************************************)
RetrieveMessages(i) ==
    /\ conn[i] = "live" /\ stage[i] = "idle" /\ calls[i] < MaxRetrieves
    /\ calls' = [calls EXCEPT ![i] = @ + 1]
    /\ job' = [job EXCEPT ![i] = inbox]
    /\ stage' = [stage EXCEPT ![i] = IF inbox = <<>> THEN "idle" ELSE "relay"]
    /\ UNCHANGED <<instVars, inbox, count, sendVars>>

RelayToSelf(i) ==
    /\ stage[i] = "relay"
    /\ IF job[i] = <<>>
       THEN /\ stage' = [stage EXCEPT ![i] = "delete"]
            /\ UNCHANGED <<instVars, sendVars, job>>
       ELSE /\ push(i, Head(job[i]))
            /\ job' = [job EXCEPT ![i] = Tail(@)]
            /\ UNCHANGED <<active, pc, mode, todo, stage>>
    /\ UNCHANGED <<inbox, count, calls>>

\* Mutant: the messages are left where they are.
keepMessages(i) ==
    /\ stage[i] = "delete"
    /\ stage' = [stage EXCEPT ![i] = "idle"]
    /\ UNCHANGED <<instVars, inbox, count, sendVars, job, calls>>

DeleteMessages(i) ==
    /\ stage[i] = "delete"
    /\ inbox' = <<>>
    /\ stage' = [stage EXCEPT ![i] = "idle"]
    /\ UNCHANGED <<instVars, count, sendVars, job, calls>>

OfflineRetrieve(i) == RetrieveMessages(i) \/ RelayToSelf(i) \/ DeleteMessages(i)

Next ==
    \/ \E i \in Instances :
           \/ ClientOnline(i) \/ setActive(i) \/ CloseInstance(i) \/ receiveSessMessages(i)
           \/ OfflineRetrieve(i)
    \/ \E m \in Msgs : ChannelMsgToHost(m)

Spec == Init /\ [][Next]_vars

-----------------------------------------------------------------------------
(***************************************************************************)
(* Properties.                                                             *)
(***************************************************************************)
\* No instance gets a message twice, relayed, retrieved, or both.
AtMostOnce == \A i \in Instances : IsInjective(got[i])

\* The messages one sender relays reach an instance in the order sent, and so does what
\* was stored before them, unless it is retrieved after they were relayed.
RelayedInOrder ==
    \A i \in Instances : \A x, y \in DOMAIN got[i] :
        LET a == got[i][x]
            b == got[i][y]
        IN x < y /\ From[a] = From[b] /\ mode[a] # "none" /\ mode[b] # "none" => a < b

\* A refused message is nowhere and a stored one was not relayed: what a sender is
\* answered is what became of the message.
OneFate ==
    \A m \in Msgs :
        /\ pc[m] = "refused" =>
               m \notin ToSet(inbox) /\ \A i \in Instances : m \notin ToSet(got[i]) \cup ToSet(job[i])
        /\ pc[m] = "saved" => mode[m] = "none"

\* A message sent to an account of which no instance is active is queued at every
\* instance that stays: none is skipped but those that close.
InactiveAllGetIt ==
    \A m \in Msgs : pc[m] = "acked" /\ mode[m] = "all" =>
        \A i \in online[m] : m \in ToSet(got[i])

\* Offline messages "are retrieved once the recipient comes online" (foodgroup/types.go):
\* a message that was stored stays stored until an instance has got it.
StoredUntilGot ==
    \A m \in Msgs : pc[m] = "saved" =>
        m \in ToSet(inbox) \/ \E i \in Instances : m \in ToSet(got[i])

\* ChannelMsgToHost "relays the instant message ... to the intended recipient": an
\* acknowledged message is queued at an instance, if one is live all the while.
AckedIsQueued ==
    \A m \in Msgs : pc[m] = "acked" /\ online[m] # {} =>
        \E i \in Instances : m \in ToSet(got[i])

\* "OfflineMsgCount is the count of offline messages for the user." (state/user.go)
CountIsInbox == inbox # <<>> => count = Len(inbox)
==============================================================================
