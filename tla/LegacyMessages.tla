--------------------------- MODULE LegacyMessages ---------------------------
(***************************************************************************)
(* Messages to the users of the ICQ gateway, while those sign on and off    *)
(* (LegacySessions).  The sender is outside: a client of the gateway        *)
(* (ProcessMessage), an ICQ client on OSCAR, or an AIM client.              *)
(*                                                                         *)
(* ProcessMessage only finds out where a message should go.  The packet     *)
(* handler that called it looks the recipient up once more and sends the    *)
(* packet; a message for an OSCAR session lies in the instance's queue      *)
(* until the session's pump turns it into a packet; one for nobody becomes  *)
(* a row of offlineMessage, which clients list after signing on and have    *)
(* deleted afterwards, all rows at once.                                    *)
(***************************************************************************)
EXTENDS LegacySessions, Functions

CONSTANTS
  Msgs,
  To,     \* [Msgs -> Users]
  Senders \* of "legacy", "icq" and "aim"

ASSUME LegacyMessagesAssumption ==
  To \in [Msgs -> Users] /\ Senders \subseteq {"legacy", "icq", "aim"}

VARIABLES
  at,        \* where the handling of a message is
  sender,    \* whose client sent it
  queue,     \* the OSCAR session in whose queue it lies
  rows,      \* offlineMessage
  shown,     \* how often it was sent to a signed-on client
  listed,    \* messages that were sent in an offline list
  blank,     \* of these, the ones whose text was left out
  asked,     \* sessions that have asked for their list
  open,      \* of these, the ones whose rows are still to be deleted
  disturbed  \* history: messages the recipient's coming or going, a list being deleted, or
             \* an error came between

msgVars == <<at, sender, queue, rows, shown, listed, blank, asked, open, disturbed>>

MsgInit ==
  /\ Init
  /\ at = [m \in Msgs |-> "none"] /\ sender = [m \in Msgs |-> None]
  /\ queue = [m \in Msgs |-> None] /\ rows = {} /\ shown = [m \in Msgs |-> 0]
  /\ listed = {} /\ blank = {} /\ asked = {} /\ open = {} /\ disturbed = {}

-----------------------------------------------------------------------------
(* Sending.                                                                *)

next(m, place) == at' = [at EXCEPT ![m] = place]

\* A sender on OSCAR has done; the gateway's handlers go on to send the packet.
return(m) == next(m, IF sender[m] = "legacy" THEN "handler" ELSE "ended")

\* Mutant: a message for a legacy client goes by way of its OSCAR session too.
ProcessMessageBothWays(m) ==
  /\ at[m] = "none"
  /\ \E k \in Senders : sender' = [sender EXCEPT ![m] = k]
  /\ next(m, "host")
  /\ UNCHANGED <<sessionVars, queue, rows, shown, listed, blank, asked, open, disturbed>>

\* Up to GetSession: for a legacy client nothing else is done here.
ProcessMessage(m) ==
  /\ at[m] = "none"
  /\ \E k \in Senders :
       /\ sender' = [sender EXCEPT ![m] = k]
       /\ next(m, IF k = "legacy" /\ reg.sessions[To[m]] # None THEN "handler" ELSE "host")
  /\ UNCHANGED <<sessionVars, queue, rows, shown, listed, blank, asked, open, disturbed>>

\* RetrieveSession.
ChannelMsgToHost(m) ==
  LET p == reg.store[To[m]]
  IN /\ at[m] = "host"
     /\ next(m, IF p # None /\ signedOn(p) THEN "relay" ELSE "store")
     /\ UNCHANGED <<sessionVars, sender, queue, rows, shown, listed, blank, asked, open, disturbed>>

\* RelayToScreenName looks the session up again, and says nothing if it is gone.
relay(m) ==
  LET p == reg.store[To[m]]
  IN /\ at[m] = "relay"
     /\ queue' = IF p # None /\ signedOn(p) THEN [queue EXCEPT ![m] = p] ELSE queue
     /\ return(m)
     /\ UNCHANGED <<sessionVars, sender, rows, shown, listed, blank, asked, open, disturbed>>

\* Refused (the inbox is full, or its owner takes no offline messages, or blocks the
\* sender) is NotLoggedOn, which ProcessMessage reports as stored; any other error it only
\* logs, and takes the message for delivered.
sendOfflineMessage(m) ==
  /\ at[m] = "store"
  /\ \/ /\ rows' = rows \cup {m}
        /\ disturbed' = IF open = {} THEN disturbed ELSE disturbed \cup {m}
        /\ return(m)
     \/ /\ disturbed' = disturbed \cup {m} /\ UNCHANGED rows
        /\ next(m, "ended") \/ return(m)
  /\ UNCHANGED <<sessionVars, sender, queue, shown, listed, blank, asked, open>>

\* The rest of the packet handler: one more GetSession.
SendOnlineMessage(m) ==
  /\ at[m] = "handler"
  /\ shown' = IF reg.sessions[To[m]] = None THEN shown ELSE [shown EXCEPT ![m] = @ + 1]
  /\ next(m, "ended")
  /\ UNCHANGED <<sessionVars, sender, queue, rows, listed, blank, asked, open, disturbed>>

-----------------------------------------------------------------------------
(* Receiving.                                                              *)

\* The pump, or an OSCAR client's connection; a legacy client cannot be told of a sender
\* whose name is not a UIN.
handleICBMMessage(m) ==
  LET p == queue[m]
  IN /\ p # None
     /\ queue' = [queue EXCEPT ![m] = None]
     /\ IF sender[m] = "aim" /\ ver[p] # 0
        THEN disturbed' = disturbed \cup {m} /\ UNCHANGED shown
        ELSE shown' = [shown EXCEPT ![m] = @ + 1] /\ UNCHANGED disturbed
     /\ UNCHANGED <<sessionVars, at, sender, rows, listed, blank, asked, open>>

\* The pump of a closed instance stops, and what is in the queue stays there.
pumpStops(p) ==
  /\ p \in shut /\ \E m \in Msgs : queue[m] = p
  /\ queue' = [m \in Msgs |-> IF queue[m] = p THEN None ELSE queue[m]]
  /\ UNCHANGED <<sessionVars, at, sender, rows, shown, listed, blank, asked, open, disturbed>>

-----------------------------------------------------------------------------
(* The offline list.                                                       *)

\* The client is signed on; a legacy client's session is looked up by its address.
present(s) ==
  \/ ver[s] = 0 /\ signedOn(s)
  \/ s \in Range(reg.sessions) /\ reg.inst[s] # None

rowsOf(u) == {m \in rows : To[m] = u}

\* GetOfflineMessages reads the text of instant messages only, and ProcessMessage stores
\* another kind; an OSCAR client gets both.
GetOfflineMessages(s) ==
  /\ listed' = listed \cup rowsOf(who[s])
  /\ blank' = blank \cup {m \in rowsOf(who[s]) : ver[s] # 0 /\ sender[m] = "legacy"}

\* After a failed read V2, V3 and V5 say that the list is done, and the client will
\* acknowledge it; V4 deletes what it has sent without being asked.
handleOfflineMsgReq(s) ==
  /\ present(s) /\ s \notin asked
  /\ asked' = asked \cup {s}
  /\ \/ /\ GetOfflineMessages(s)
        /\ open' = IF ver[s] = 4 /\ rowsOf(who[s]) = {} THEN open ELSE open \cup {s}
        /\ UNCHANGED disturbed
     \/ /\ ver[s] \notin {0, 4}
        /\ open' = open \cup {s}
        /\ disturbed' = disturbed \cup rowsOf(who[s])
        /\ UNCHANGED <<listed, blank>>
  /\ UNCHANGED <<sessionVars, at, sender, queue, rows, shown>>

\* AckOfflineMessages and DeleteMsgReq: whatever is there by now.
DeleteMessages(s) ==
  /\ s \in open /\ (ver[s] = 4 \/ present(s))
  /\ open' = open \ {s}
  /\ rows' = rows \ rowsOf(who[s])
  /\ UNCHANGED <<sessionVars, at, sender, queue, shown, listed, blank, asked, disturbed>>

-----------------------------------------------------------------------------
\* A message under way is disturbed by any change of the recipient's sessions.
SessionStep ==
  /\ SessionNext
  /\ disturbed' = disturbed \cup
       {m \in Msgs : (at[m] \notin {"none", "ended"} \/ queue[m] # None) /\
          LET u == To[m]
          IN <<reg.store[u], reg.sessions[u], shut>> # <<reg'.store[u], reg'.sessions[u], shut'>>}
  /\ UNCHANGED <<at, sender, queue, rows, shown, listed, blank, asked, open>>

Next ==
  \/ SessionStep
  \/ \E m \in Msgs :
       \/ ProcessMessage(m) \/ ChannelMsgToHost(m) \/ relay(m) \/ sendOfflineMessage(m)
       \/ SendOnlineMessage(m) \/ handleICBMMessage(m)
  \/ \E s \in Ids : pumpStops(s) \/ handleOfflineMsgReq(s) \/ DeleteMessages(s)

Spec == MsgInit /\ [][Next]_<<sessionVars, msgVars>>

-----------------------------------------------------------------------------
\* A message whose sender has done is in one place: it was shown to the client, lies in
\* its queue, or is (or was, until its owner had the list) a row.  It is neither lost nor
\* doubled, although it is looked up three times on its way, unless something disturbed it.
OnePlace ==
  \A m \in Msgs : at[m] = "ended" /\ m \notin disturbed =>
    shown[m] + (IF queue[m] # None THEN 1 ELSE 0) + (IF m \in rows \cup listed THEN 1 ELSE 0) = 1

\* "Message is the message text content." (LegacyOfflineMessage): no message of an offline
\* list comes without its text.
OfflineTextArrives == blank = {}
=============================================================================
