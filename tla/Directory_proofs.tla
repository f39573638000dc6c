-------------------------- MODULE Directory_proofs --------------------------
(***************************************************************************)
(* Proofs about Directory, for every set of users and numbers, every number *)
(* of requests and of errors of the store; and, in the second half, about   *)
(* LegacyPresence, for every finite set of users and any mix of versions.   *)
(***************************************************************************)
EXTENDS Directory, LegacyPresence, SequenceTheorems, FiniteSetTheorems, WellFoundedInduction, TLAPS

\* What requests, steps and packets are called.
Words ==
  {"", "400", "404", "409", "500", "DirectEmailSearch", "DirectNameSearch", "DirectUINSearch",
   "DirectWhiteSearch", "ExtInfoReq", "FindByEmail3", "FindByICQEmail", "FindByICQInterests",
   "FindByICQName", "FindByUIN", "FindByUIN2", "FindByWhitePages2", "FullUserInfo", "GetInfo",
   "GetNotes", "InfoReq", "MetaLoginInfo", "MetaSearchEmail", "MetaSearchName", "MetaSearchUIN",
   "MetaSearchWhite", "MetaSearchWhite2", "MetaSetAbout", "MetaSetAffiliations", "MetaSetBasic",
   "MetaSetHPCat", "MetaSetInterests", "MetaSetMore", "MetaSetPassword", "MetaSetSecurity",
   "MetaSetWork", "MetaUnregister", "MetaUserFullInfo", "MetaUserFullInfo2", "MetaUserInfo",
   "OldExtInfoReq", "OldInfoReq", "OldSearch", "OldSearchUIN", "RegNewUser", "RegNewUserInfo",
   "SearchByName", "SearchByUIN", "SearchStart", "SearchUIN", "SearchUser", "SetAffiliations",
   "SetAuth", "SetBasicInfo", "SetEmails", "SetHomeInfo", "SetHomeWeb", "SetICQInfo", "SetICQPhone",
   "SetInterests", "SetMoreInfo", "SetNotes", "SetPassword", "SetPermissions", "SetUserNotes",
   "SetWorkInfo", "SetWorkWeb", "ShortUserInfo", "UpdateBasic", "UpdateDetail", "XMLReqData",
   "about", "account", "ack", "affiliations", "any", "basic", "delete", "deleteUser", "emails",
   "end", "extinfo", "fail", "found", "found, more", "generate", "home", "homeweb", "hpcat", "info",
   "insert", "interests", "invalid", "kept", "more", "new", "notConnected", "notes", "ok", "over",
   "password", "postUser", "putICQProfile", "putUserPassword", "read", "say", "search", "short",
   "update", "user", "work", "workweb", "write", "xml"}

Packets == [kind : Words, last : BOOLEAN, uin : Nat, of : SUBSET ICQInfo, shows : SUBSET ICQInfo]
Steps == [do : Words, how : Words, part : SUBSET ICQInfo, fields : SUBSET everything, packets : Seq(Packets)]
Views == UNION {[D -> Int] : D \in SUBSET ICQInfo}
Requests ==
  [kind : Words, handler : Words, version : Nat, uin : Nat, onError : {None} \cup Seq(Steps),
   carries : SUBSET everything, told : Seq(Packets), script : Seq(Steps), copy : {None} \cup Profiles,
   stale : SUBSET everything, overlapped : SUBSET everything, failed : BOOLEAN, seen : Views]

Shape ==
  /\ users \in [Uins -> {None} \cup Rows]
  /\ reqs \in Seq(Requests)
  /\ freed \subseteq Uins
  /\ errors \in Nat

-----------------------------------------------------------------------------
(* Who owns a number.                                                      *)

\* The number was given away with the row of request r, or its row deleted.
Own(r, u) == u \in Uins /\ (u \in freed \/ (Exists(u) /\ users[u].owner = r))

Registers(q) == q.handler \in {"RegNewUser", "RegNewUserInfo"}
Registered == <<Say(Reply("new"))>>
NotConnected == <<Say(Reply("notConnected"))>>

\* Packets that tell no one a number, and the steps of the other requests.
Quiet == {p \in Packets : p.kind # "new"}
PlainSteps ==
  {s \in Steps : /\ s.do # "generate"
                 /\ s.do = "say" => s.packets[1] \in Quiet
                 /\ s.do = "write" => s.fields \subseteq s.part}

RegisterOf(r, q) ==
  /\ q.kind = "account"
  /\ q.onError \in {<<>>, NotConnected}
  /\ \/ q.script = RegisterNewUser \o Registered /\ q.uin = 0
     \/ q.script = <<InsertUser>> \o Registered /\ q.uin \in Uins
     \/ q.script = Registered /\ Own(r, q.uin)
     \/ q.script \in {<<>>, NotConnected}

PlainOf(q) ==
  /\ q.script \in Seq(PlainSteps) /\ q.onError \in {None} \cup Seq(PlainSteps)
  /\ q.script # <<>> => q.uin \in Uins

RegOf(r, q) ==
  /\ q.kind = "info" \/ q.kind = "search" => q.script = <<>>
  /\ IF Registers(q) THEN RegisterOf(r, q) ELSE PlainOf(q)

ToldOf(r, q) == \A i \in DOMAIN q.told : q.told[i].kind = "new" => Own(r, q.told[i].uin)

-----------------------------------------------------------------------------
(* What an update has stored.                                              *)

UpdateSteps == {s \in PlainSteps : s.do \in {"read", "write", "password", "say"}}
Refused == <<Say(Reply("500"))>>

Sets(s, f) == \/ s.do = "write" /\ f \in s.fields
              \/ s.do = "password" /\ f \in {"weak", "strong"}

Pending(script, f) == \E i \in DOMAIN script : Sets(script[i], f)

\* Before step i the row is read, f being set by then and not again.
ReadBefore(script, i, f) ==
  \E k \in 1..(i - 1) : script[k].do = "read" /\ \A j \in k..Len(script) : ~Sets(script[j], f)

Overwrites(s, f) == s.do = "write" /\ f \in s.part \ s.fields

SayLast(script) == \A i \in DOMAIN script : script[i].do = "say" => i = Len(script)

UpdateOf(q) ==
  q.kind = "update" =>
    /\ q.uin \in Uins
    /\ q.script \in Seq(UpdateSteps) /\ SayLast(q.script)
    /\ q.onError \in {None, <<>>, Refused}
    /\ q.failed /\ q.onError # None => q.script \in {<<>>, Refused}

\* No other request is about the same user.
Alone(r) == \A o \in DOMAIN reqs \ {r} : reqs[o].uin # reqs[r].uin

\* Field f of user u is what request r stored.
Stored(r, u, f) == Exists(u) /\ value(users[u], f) = r

\* What request r has read and will not set again is in its copy.
Copied(r, q, f) == q.copy # None /\ q.copy[f] = r /\ ~Pending(q.script, f)

\* It is stored or will be, and no step of the request itself undoes that.
Safe(r, q, f) ==
  /\ Stored(r, q.uin, f) \/ Pending(q.script, f)
  /\ \A i \in DOMAIN q.script : Overwrites(q.script[i], f) =>
       q.script[i].how # "over" /\ (ReadBefore(q.script, i, f) \/ Copied(r, q, f))

\* A statement that keeps what was there has a copy to take it from.
HasCopy(q) ==
  \A i \in DOMAIN q.script : q.script[i].do = "write" /\ q.script[i].how = "kept" =>
    q.copy # None \/ \E k \in 1..(i - 1) : q.script[k].do = "read"

StoredOf(r, q) ==
  q.kind = "update" /\ ~q.failed =>
    /\ HasCopy(q)
    /\ Alone(r) => q.overlapped = {}
    /\ UnderWay(q) \/ Alone(r) => \A f \in q.carries \ q.overlapped : Safe(r, q, f)

RequestInv ==
  \A r \in DOMAIN reqs :
    RegOf(r, reqs[r]) /\ ToldOf(r, reqs[r]) /\ UpdateOf(reqs[r]) /\ StoredOf(r, reqs[r])

\* Searches wait for what is under way.
InfoInv == \A p, q \in DOMAIN reqs : p < q /\ reqs[q].kind = "info" => ~UnderWay(reqs[p])

IInv == Shape /\ RequestInv /\ InfoInv /\ SeenAsSet

-----------------------------------------------------------------------------
(* The scripts of updates.                                                 *)

Statements == {s \in UpdateSteps : s.do # "say"}

HasRead(st) == \E k \in DOMAIN st : st[k].do = "read"

Keeps(st) ==
  \A i \in DOMAIN st : st[i].do = "write" /\ st[i].how = "kept" =>
    \E k \in 1..(i - 1) : st[k].do = "read"

Carries(st, c) ==
  \A f \in c : /\ Pending(st, f)
               /\ \A i \in DOMAIN st : Overwrites(st[i], f) => st[i].how # "over" /\ ReadBefore(st, i, f)

\* The statements st write the groups P and store c.
Good(st, c, P) ==
  /\ st \in Seq(Statements) /\ P \subseteq ICQInfo /\ c \subseteq everything
  /\ \A i \in DOMAIN st : st[i].part \subseteq P /\ st[i].fields \subseteq P
  /\ Keeps(st) /\ Carries(st, c)

LEMMA Fields ==
  /\ ICQInfo \subseteq everything /\ "weak" \in everything /\ "strong" \in everything
  /\ "weak" \notin ICQInfo /\ "strong" \notin ICQInfo
  BY DEF everything, ICQInfo, Basic, More, Work, Affiliations, Permissions

LEMMA Said == /\ Ack \in Packets /\ Ack.kind = "ack"
              /\ \A k \in Words : Reply(k) \in Packets /\ Reply(k).kind = k /\ Reply(k).uin = 0
  <1>1. /\ Ack = [kind |-> "ack", last |-> FALSE, uin |-> 0, of |-> {}, shows |-> {}]
        /\ \A k : Reply(k) = [kind |-> k, last |-> TRUE, uin |-> 0, of |-> {}, shows |-> {}]
    BY DEF Ack, Reply, Packet
  <1>2. {} \in SUBSET ICQInfo /\ 0 \in Nat /\ "ack" \in Words
    BY DEF Words
  <1> QED BY <1>1, <1>2 DEF Packets

LEMMA Called == {"", "read", "write", "password", "say", "over", "kept", "any", "update", "500"} \subseteq Words
  BY DEF Words

LEMMA Spoken ==
  ASSUME NEW p \in Packets
  PROVE  /\ Say(p) \in Steps /\ Say(p).do = "say" /\ Say(p).packets[1] = p
         /\ p.kind # "new" => Say(p) \in UpdateSteps
  <1>1. <<p>> \in Seq(Packets) /\ <<p>>[1] = p
    OBVIOUS
  <1>2. Say(p) \in Steps /\ Say(p).do = "say" /\ Say(p).packets = <<p>>
    BY <1>1, Called DEF Say, Step, Steps
  <1>3. p.kind # "new" => p \in Quiet
    BY DEF Quiet
  <1> QED BY <1>1, <1>2, <1>3 DEF PlainSteps, UpdateSteps

LEMMA Reads == User \in Statements /\ User.do = "read" /\ User.part = {} /\ User.fields = {}
  <1>1. User \in Steps /\ User.do = "read" /\ User.part = {} /\ User.fields = {}
    BY EmptySeq, Called DEF User, Step, Steps
  <1> QED BY <1>1 DEF Statements, UpdateSteps, PlainSteps

LEMMA Writes ==
  ASSUME NEW how \in Words, NEW part \in SUBSET ICQInfo, NEW fields \in SUBSET part
  PROVE  LET w == Write(how, part, fields)
         IN  w \in Statements /\ w.do = "write" /\ w.how = how /\ w.part = part /\ w.fields = fields
  <1> DEFINE w == Write(how, part, fields)
  <1>1. w \in Steps /\ w.do = "write" /\ w.how = how /\ w.part = part /\ w.fields = fields
    BY EmptySeq, Fields, Called DEF Write, Step, Steps
  <1> QED BY <1>1 DEF Statements, UpdateSteps, PlainSteps

LEMMA Passwords ==
  SetUserPassword \in Statements /\ SetUserPassword.do = "password" /\ SetUserPassword.part = {} /\ SetUserPassword.fields = {}
  <1>1. SetUserPassword \in Steps /\ SetUserPassword.do = "password" /\ SetUserPassword.part = {} /\ SetUserPassword.fields = {}
    BY EmptySeq, Called DEF SetUserPassword, Step, Steps
  <1> QED BY <1>1 DEF Statements, UpdateSteps, PlainSteps

LEMMA Longer ==
  ASSUME NEW S, NEW st \in Seq(S), NEW w \in S
  PROVE  LET t == st \o <<w>>
         IN  /\ t \in Seq(S) /\ Len(st) \in Nat /\ Len(t) = Len(st) + 1 /\ t[Len(st) + 1] = w
             /\ \A i \in 1..Len(st) : t[i] = st[i]
             /\ DOMAIN t = 1..(Len(st) + 1) /\ DOMAIN st = 1..Len(st)
  <1> DEFINE one == <<w>>
             t == st \o one
  <1>1. one \in Seq(S) /\ Len(one) = 1 /\ one[1] = w
    OBVIOUS
  <1> HIDE DEF one
  <1>2. /\ t \in Seq(S) /\ Len(t) = Len(st) + Len(one)
        /\ \A i \in 1 .. Len(st) + Len(one) : t[i] = IF i <= Len(st) THEN st[i] ELSE one[i - Len(st)]
    BY <1>1, ConcatProperties
  <1>3. Len(st) \in Nat /\ DOMAIN st = 1..Len(st) /\ DOMAIN t = 1..Len(t)
    BY <1>2, LenProperties
  <1> HIDE DEF t
  <1>4. t[Len(st) + 1] = w /\ \A i \in 1..Len(st) : t[i] = st[i]
    BY <1>1, <1>2, <1>3
  <1> QED BY <1>1, <1>2, <1>3, <1>4 DEF t, one

LEMMA Pair == ASSUME NEW a, NEW b PROVE <<a>> \o <<b>> = <<a, b>>
  <1>1. PICK s : s = <<a>> \o <<b>>
    OBVIOUS
  <1>2. PICK t : t = <<a, b>>
    OBVIOUS
  <1>3. <<a>> \in Seq({a, b}) /\ b \in {a, b} /\ Len(<<a>>) = 1 /\ <<a>>[1] = a
    OBVIOUS
  <1>4. s \in Seq({a, b}) /\ Len(s) = 2 /\ s[1] = a /\ s[2] = b
    BY <1>1, <1>3, Longer
  <1>5. t \in Seq({a, b}) /\ Len(t) = 2 /\ t[1] = a /\ t[2] = b
    BY <1>2
  <1>6. \A i \in 1..Len(s) : s[i] = t[i]
    BY <1>4, <1>5
  <1>7. s = t
    BY <1>4, <1>5, <1>6, SeqEqual
  <1> QED BY <1>1, <1>2, <1>7

LEMMA Nothing == Good(<<>>, {}, {})
  BY EmptySeq DEF Good, Keeps, Carries

\* A read changes nothing, and lets the statements after it keep what was there.
LEMMA ReadNext ==
  ASSUME NEW st, NEW c, NEW P, Good(st, c, P)
  PROVE  LET t == st \o <<User>> IN Good(t, c, P) /\ HasRead(t)
  <1>1. PICK t : t = st \o <<User>>
    OBVIOUS
  <1>2. /\ t \in Seq(Statements) /\ Len(st) \in Nat /\ Len(t) = Len(st) + 1 /\ t[Len(st) + 1] = User
        /\ \A i \in 1..Len(st) : t[i] = st[i]
        /\ DOMAIN t = 1..(Len(st) + 1) /\ DOMAIN st = 1..Len(st)
    BY <1>1, Longer, Reads DEF Good
  <1>3. \A i \in DOMAIN t : t[i].part \subseteq P /\ t[i].fields \subseteq P
    BY <1>2, Reads DEF Good
  <1>4. Keeps(t)
    BY <1>2, Reads DEF Good, Keeps
  <1>5. \A f : ~Sets(User, f) /\ ~Overwrites(User, f)
    BY Reads DEF Sets, Overwrites
  <1>6. ASSUME NEW f \in c
        PROVE  /\ Pending(t, f)
               /\ \A i \in DOMAIN t : Overwrites(t[i], f) => t[i].how # "over" /\ ReadBefore(t, i, f)
    <2>1. Pending(t, f)
      BY <1>2 DEF Good, Carries, Pending
    <2>2. ASSUME NEW i \in DOMAIN t, Overwrites(t[i], f)
          PROVE  t[i].how # "over" /\ ReadBefore(t, i, f)
      <3>1. i \in DOMAIN st /\ t[i] = st[i]
        BY <1>2, <1>5, <2>2
      <3>2. st[i].how # "over" /\ ReadBefore(st, i, f)
        BY <2>2, <3>1 DEF Good, Carries
      <3>3. PICK k \in 1..(i - 1) : st[k].do = "read" /\ \A j \in k..Len(st) : ~Sets(st[j], f)
        BY <3>2 DEF ReadBefore
      <3>4. t[k].do = "read" /\ \A j \in k..Len(t) : ~Sets(t[j], f)
        BY <1>2, <1>5, <3>1, <3>3
      <3> QED BY <3>1, <3>2, <3>4 DEF ReadBefore
    <2> QED BY <2>1, <2>2
  <1>7. Good(t, c, P) /\ HasRead(t)
    BY <1>2, <1>3, <1>4, <1>6, Reads DEF Good, Carries, HasRead
  <1> QED BY <1>1, <1>7

\* A group that was not written yet is written.
LEMMA WriteNext ==
  ASSUME NEW st, NEW c, NEW P, Good(st, c, P),
         NEW how \in Words, NEW part \in SUBSET ICQInfo, NEW fields \in SUBSET part,
         how = "kept" => HasRead(st), part \cap P = {}, c \cap part = {}
  PROVE  LET t == st \o <<Write(how, part, fields)>> IN Good(t, c \cup fields, P \cup part) /\ (HasRead(st) => HasRead(t))
  <1>1. PICK w : w = Write(how, part, fields)
    OBVIOUS
  <1>2. w \in Statements /\ w.do = "write" /\ w.how = how /\ w.part = part /\ w.fields = fields
    BY <1>1, Writes
  <1>3. PICK t : t = st \o <<w>>
    OBVIOUS
  <1>4. /\ t \in Seq(Statements) /\ Len(st) \in Nat /\ Len(t) = Len(st) + 1 /\ t[Len(st) + 1] = w
        /\ \A i \in 1..Len(st) : t[i] = st[i]
        /\ DOMAIN t = 1..(Len(st) + 1) /\ DOMAIN st = 1..Len(st)
    BY <1>2, <1>3, Longer DEF Good
  <1>5. \A i \in DOMAIN t : t[i].part \subseteq P \cup part /\ t[i].fields \subseteq P \cup part
    BY <1>2, <1>4 DEF Good
  <1>6. Keeps(t)
    BY <1>2, <1>4 DEF Good, Keeps, HasRead
  <1>7. \A f \in c : ~Sets(w, f) /\ ~Overwrites(w, f)
    BY <1>2 DEF Sets, Overwrites
  <1>8. ASSUME NEW f \in c
        PROVE  /\ Pending(t, f)
               /\ \A i \in DOMAIN t : Overwrites(t[i], f) => t[i].how # "over" /\ ReadBefore(t, i, f)
    <2>1. Pending(t, f)
      BY <1>4 DEF Good, Carries, Pending
    <2>2. ASSUME NEW i \in DOMAIN t, Overwrites(t[i], f)
          PROVE  t[i].how # "over" /\ ReadBefore(t, i, f)
      <3>1. i \in DOMAIN st /\ t[i] = st[i]
        BY <1>4, <1>7, <2>2
      <3>2. st[i].how # "over" /\ ReadBefore(st, i, f)
        BY <2>2, <3>1 DEF Good, Carries
      <3>3. PICK k \in 1..(i - 1) : st[k].do = "read" /\ \A j \in k..Len(st) : ~Sets(st[j], f)
        BY <3>2 DEF ReadBefore
      <3>4. t[k].do = "read" /\ \A j \in k..Len(t) : ~Sets(t[j], f)
        BY <1>4, <1>7, <3>1, <3>3
      <3> QED BY <3>1, <3>2, <3>4 DEF ReadBefore
    <2> QED BY <2>1, <2>2
  <1>9. ASSUME NEW f \in fields
        PROVE  /\ Pending(t, f)
               /\ \A i \in DOMAIN t : ~Overwrites(t[i], f)
    <2>1. Sets(t[Len(st) + 1], f) /\ ~Overwrites(t[Len(st) + 1], f)
      BY <1>2, <1>4 DEF Sets, Overwrites
    <2>2. \A i \in 1..Len(st) : ~Overwrites(t[i], f)
      BY <1>4 DEF Overwrites, Good
    <2> QED BY <1>4, <2>1, <2>2 DEF Pending
  <1>10. Carries(t, c \cup fields)
    BY <1>8, <1>9 DEF Carries
  <1>11. Good(t, c \cup fields, P \cup part)
    BY <1>4, <1>5, <1>6, <1>10, Fields DEF Good
  <1>12. HasRead(st) => HasRead(t)
    BY <1>4 DEF HasRead
  <1> QED BY <1>1, <1>3, <1>11, <1>12

\* The row is read and written as a whole.
LEMMA CopyNext ==
  ASSUME NEW st, NEW c, NEW P, Good(st, c, P),
         NEW fields \in SUBSET ICQInfo, fields \cap P = {}, fields \cap c = {}
  PROVE  Good((st \o <<User>>) \o <<SetICQInfo(fields)>>, c \cup fields, ICQInfo)
  <1>1. PICK s : s = st \o <<User>>
    OBVIOUS
  <1>2. PICK w : w = Write("kept", ICQInfo, fields)
    OBVIOUS
  <1>3. w \in Statements /\ w.do = "write" /\ w.how = "kept" /\ w.part = ICQInfo /\ w.fields = fields
    <2>1. "kept" \in Words /\ ICQInfo \in SUBSET ICQInfo /\ fields \in SUBSET ICQInfo
      BY Called
    <2> QED BY <1>2, <2>1, Writes
  <1>4. PICK t : t = s \o <<w>>
    OBVIOUS
  <1>5. Good(s, c, P) /\ s \in Seq(Statements)
    BY <1>1, ReadNext DEF Good
  <1>6. /\ Len(st) \in Nat /\ Len(s) = Len(st) + 1 /\ s[Len(st) + 1] = User
        /\ DOMAIN s = 1..Len(s)
    BY <1>1, Longer, Reads DEF Good
  <1>7. /\ t \in Seq(Statements) /\ Len(t) = Len(s) + 1 /\ t[Len(s) + 1] = w
        /\ \A i \in 1..Len(s) : t[i] = s[i]
        /\ DOMAIN t = 1..(Len(s) + 1)
    BY <1>3, <1>4, <1>5, Longer
  <1>8. t[Len(s)].do = "read"
    BY <1>6, <1>7, Reads
  <1>9. \A i \in DOMAIN t : t[i].part \subseteq ICQInfo /\ t[i].fields \subseteq ICQInfo
    BY <1>3, <1>5, <1>6, <1>7 DEF Good
  <1>10. Keeps(t)
    BY <1>3, <1>5, <1>6, <1>7, <1>8 DEF Good, Keeps
  <1>11. ASSUME NEW f \in c
         PROVE  /\ Pending(t, f)
                /\ \A i \in DOMAIN t : Overwrites(t[i], f) => t[i].how # "over" /\ ReadBefore(t, i, f)
    <2>1. Pending(t, f)
      BY <1>5, <1>6, <1>7 DEF Good, Carries, Pending
    <2>2. ASSUME NEW i \in DOMAIN t, Overwrites(t[i], f)
          PROVE  t[i].how # "over" /\ ReadBefore(t, i, f)
      <3>0. ~Sets(w, f) /\ ~Sets(User, f)
        BY <1>3, Reads DEF Sets
      <3>1. CASE i \in DOMAIN s
        <4>1. s[i].how # "over" /\ ReadBefore(s, i, f) /\ t[i] = s[i]
          BY <1>5, <1>6, <1>7, <2>2, <3>1 DEF Good, Carries
        <4>2. PICK k \in 1..(i - 1) : s[k].do = "read" /\ \A j \in k..Len(s) : ~Sets(s[j], f)
          BY <4>1 DEF ReadBefore
        <4>3. t[k].do = "read" /\ \A j \in k..Len(t) : ~Sets(t[j], f)
          BY <1>6, <1>7, <3>0, <3>1, <4>2
        <4> QED BY <3>1, <4>1, <4>3 DEF ReadBefore
      <3>2. CASE i = Len(s) + 1
        <4>1. \A j \in Len(s)..Len(t) : ~Sets(t[j], f)
          BY <1>6, <1>7, <3>0
        <4> QED BY <1>3, <1>6, <1>7, <1>8, <3>2, <4>1 DEF ReadBefore
      <3> QED BY <1>6, <1>7, <3>1, <3>2
    <2> QED BY <2>1, <2>2
  <1>12. ASSUME NEW f \in fields
         PROVE  /\ Pending(t, f)
                /\ \A i \in DOMAIN t : ~Overwrites(t[i], f)
    <2>1. Sets(t[Len(s) + 1], f) /\ ~Overwrites(t[Len(s) + 1], f)
      BY <1>3, <1>7 DEF Sets, Overwrites
    <2>2. \A i \in 1..Len(s) : ~Overwrites(t[i], f)
      BY <1>5, <1>6, <1>7 DEF Overwrites, Good
    <2> QED BY <1>6, <1>7, <2>1, <2>2 DEF Pending
  <1>13. Carries(t, c \cup fields)
    BY <1>11, <1>12 DEF Carries
  <1>14. Good(t, c \cup fields, ICQInfo)
    BY <1>5, <1>7, <1>9, <1>10, <1>13, Fields DEF Good
  <1> QED BY <1>1, <1>2, <1>4, <1>14 DEF SetICQInfo

\* A script with its reply.
Answers(script, c) ==
  script \in Seq(UpdateSteps) /\ SayLast(script) /\ Keeps(script) /\ Carries(script, c)

LEMMA SayNext ==
  ASSUME NEW st, NEW c, NEW P, Good(st, c, P), NEW k \in Words, k # "new"
  PROVE  Answers(st \o <<Say(Reply(k))>>, c)
  <1>1. PICK w : w = Say(Reply(k))
    OBVIOUS
  <1>2. w \in UpdateSteps /\ w.do = "say"
    BY <1>1, Spoken, Said
  <1>3. PICK t : t = st \o <<w>>
    OBVIOUS
  <1>4. /\ t \in Seq(UpdateSteps) /\ Len(st) \in Nat /\ Len(t) = Len(st) + 1 /\ t[Len(st) + 1] = w
        /\ \A i \in 1..Len(st) : t[i] = st[i] /\ st[i] \in Statements
        /\ DOMAIN t = 1..(Len(st) + 1) /\ DOMAIN st = 1..Len(st)
    <2>1. st \in Seq(UpdateSteps)
      BY SeqMonotonic DEF Good, Statements
    <2>2. \A i \in 1..Len(st) : st[i] \in Statements
      BY ElementOfSeq DEF Good
    <2> QED BY <1>2, <1>3, <2>1, <2>2, Longer
  <1>5. SayLast(t)
    BY <1>4 DEF SayLast, Statements
  <1>6. Keeps(t)
    BY <1>2, <1>4 DEF Good, Keeps
  <1>7. \A f \in c : ~Sets(w, f) /\ ~Overwrites(w, f)
    BY <1>2 DEF Sets, Overwrites
  <1>8. ASSUME NEW f \in c
        PROVE  /\ Pending(t, f)
               /\ \A i \in DOMAIN t : Overwrites(t[i], f) => t[i].how # "over" /\ ReadBefore(t, i, f)
    <2>1. Pending(t, f)
      BY <1>4 DEF Good, Carries, Pending
    <2>2. ASSUME NEW i \in DOMAIN t, Overwrites(t[i], f)
          PROVE  t[i].how # "over" /\ ReadBefore(t, i, f)
      <3>1. i \in DOMAIN st /\ t[i] = st[i]
        BY <1>4, <1>7, <2>2
      <3>2. st[i].how # "over" /\ ReadBefore(st, i, f)
        BY <2>2, <3>1 DEF Good, Carries
      <3>3. PICK n \in 1..(i - 1) : st[n].do = "read" /\ \A j \in n..Len(st) : ~Sets(st[j], f)
        BY <3>2 DEF ReadBefore
      <3>4. t[n].do = "read" /\ \A j \in n..Len(t) : ~Sets(t[j], f)
        BY <1>4, <1>7, <3>1, <3>3
      <3> QED BY <3>1, <3>2, <3>4 DEF ReadBefore
    <2> QED BY <2>1, <2>2
  <1> QED BY <1>1, <1>3, <1>4, <1>5, <1>6, <1>8 DEF Answers, Carries

\* An update begins.
NewUpdate(q) ==
  /\ q \in Requests /\ q.kind = "update" /\ ~Registers(q) /\ q.uin \in Uins
  /\ q.copy = None /\ q.failed = FALSE /\ q.overlapped = {}
  /\ q.told \in {<<>>, <<Ack>>} /\ q.onError \in {None, <<>>, Refused}
  /\ Answers(q.script, q.carries)

LEMMA Requested ==
  ASSUME NEW handler \in Words, handler \notin {"RegNewUser", "RegNewUserInfo"}, NEW version \in Nat,
         NEW u \in Uins, NEW onError \in {None, <<>>, Refused}, NEW c \in SUBSET everything,
         NEW told \in {<<>>, <<Ack>>}, NEW script, Answers(script, c)
  PROVE  NewUpdate(Request("update", handler, version, u, onError, c, told, script))
  <1>1. script \in Seq(Steps)
    BY SeqMonotonic DEF Answers, UpdateSteps, PlainSteps
  <1>2. told \in Seq(Packets)
    <2>1. Ack \in Packets
      BY Said
    <2>2. <<Ack>> \in Seq(Packets)
      BY <2>1
    <2> QED BY <2>2, EmptySeq
  <1>3. onError \in {None} \cup Seq(Steps)
    <2>1. "500" \in Words
      BY Called
    <2>2. Refused \in Seq(Steps)
      <3>1. Say(Reply("500")) \in Steps
        BY <2>1, Spoken, Said
      <3> QED BY <3>1 DEF Refused
    <2> QED BY <2>2, EmptySeq
  <1>4. u \in Nat /\ "update" \in Words
    <2>1. u \in Nat
      BY DirectoryAssumption
    <2> QED BY <2>1, Called
  <1>5. <<>> \in Views
    <2>1. <<>> \in [{} -> Int]
      OBVIOUS
    <2> QED BY <2>1 DEF Views
  <1>6. PICK q : q = Request("update", handler, version, u, onError, c, told, script)
    OBVIOUS
  <1>7. q \in Requests /\ q.kind = "update" /\ q.handler = handler /\ q.uin = u /\ q.copy = None
        /\ q.failed = FALSE /\ q.overlapped = {} /\ q.told = told /\ q.onError = onError
        /\ q.script = script /\ q.carries = c
    BY <1>1, <1>2, <1>3, <1>4, <1>5, <1>6 DEF Requests, Request
  <1> QED BY <1>6, <1>7 DEF NewUpdate, Registers

BeginsUpdate == \E q : NewUpdate(q) /\ Begin(q)

UpdateNames ==
  {"UpdateBasic", "UpdateDetail", "SetBasicInfo", "SetHomeInfo", "SetHomeWeb", "SetWorkInfo", "SetWorkWeb",
   "SetNotes", "SetPassword", "SetAuth", "MetaSetBasic", "MetaSetWork", "MetaSetMore", "MetaSetAbout",
   "MetaSetInterests", "MetaSetAffiliations", "MetaSetSecurity", "MetaSetPassword", "MetaSetHPCat",
   "SetAffiliations", "SetInterests", "SetMoreInfo", "SetPermissions", "SetUserNotes", "SetEmails",
   "SetICQPhone", "SetICQInfo", "putICQProfile", "putUserPassword"}

LEMMA Names == UpdateNames \subseteq Words \ {"RegNewUser", "RegNewUserInfo"}
  BY DEF Words, UpdateNames

LEMMA Replies == {"ok", "fail", "400", "500"} \subseteq Words \ {"new"}
  BY DEF Words

LEMMA Gateway ==
  ASSUME NEW handler \in UpdateNames, NEW version \in Nat, NEW u \in Uins, NEW c, NEW st, NEW P, Good(st, c, P),
         NEW reply \in {"ok", "fail"}, gateway(handler, version, u, c, st, reply)
  PROVE  BeginsUpdate
  <1>1. c \in SUBSET everything /\ handler \in Words \ {"RegNewUser", "RegNewUserInfo"}
    BY Names DEF Good
  <1>2. Answers(st \o <<Say(Reply(reply))>>, c)
    BY Replies, SayNext
  <1>3. <<Ack>> \in {<<>>, <<Ack>>} /\ None \in {None, <<>>, Refused}
    OBVIOUS
  <1>4. NewUpdate(Request("update", handler, version, u, None, c, <<Ack>>, st \o <<Say(Reply(reply))>>))
    BY <1>1, <1>2, <1>3, Requested
  <1> QED BY <1>4 DEF gateway, BeginsUpdate

LEMMA Answered ==
  ASSUME NEW handler \in UpdateNames, NEW version \in Nat, NEW u \in Uins, NEW c, NEW st, NEW P, Good(st, c, P),
         answered(handler, version, u, c, st)
  PROVE  BeginsUpdate
  <1>1. CASE gateway(handler, version, u, c, st, "ok")
    BY <1>1, Gateway
  <1>2. CASE gateway(handler, version, u, {}, <<>>, "ok")
    BY <1>2, Gateway, Nothing
  <1> QED BY <1>1, <1>2 DEF answered

LEMMA Service ==
  ASSUME NEW handler \in UpdateNames, NEW u \in Uins, NEW c, NEW st, NEW P, Good(st, c, P),
         service(handler, u, c, st)
  PROVE  BeginsUpdate
  <1>1. c \in SUBSET everything /\ handler \in Words \ {"RegNewUser", "RegNewUserInfo"}
    BY Names DEF Good
  <1>2. Answers(st \o <<Say(Reply("ok"))>>, c)
    BY Replies, SayNext
  <1>3. <<>> \in {<<>>, <<Ack>>} /\ <<>> \in {None, <<>>, Refused} /\ OSCAR \in Nat
    BY DEF OSCAR
  <1>4. NewUpdate(Request("update", handler, OSCAR, u, <<>>, c, <<>>, st \o <<Say(Reply("ok"))>>))
    BY <1>1, <1>2, <1>3, Requested
  <1> QED BY <1>4 DEF service, reqAck, BeginsUpdate

LEMMA Management ==
  ASSUME NEW handler \in UpdateNames, NEW u \in Uins, NEW c, NEW st, NEW P, Good(st, c, P),
         management(handler, u, c, st)
  PROVE  BeginsUpdate
  <1>1. c \in SUBSET everything /\ {} \in SUBSET everything /\ handler \in Words \ {"RegNewUser", "RegNewUserInfo"}
    BY Names DEF Good
  <1>2. <<>> \in {<<>>, <<Ack>>} /\ Refused \in {None, <<>>, Refused} /\ None \in {None, <<>>, Refused} /\ Mgmt \in Nat
    BY DEF Mgmt
  <1>3. CASE Begin(Request("update", handler, Mgmt, u, <<Say(Reply("500"))>>, c, <<>>, st \o <<Say(Reply("ok"))>>))
    <2>1. Answers(st \o <<Say(Reply("ok"))>>, c)
      BY Replies, SayNext
    <2>2. NewUpdate(Request("update", handler, Mgmt, u, Refused, c, <<>>, st \o <<Say(Reply("ok"))>>))
      BY <1>1, <1>2, <2>1, Requested
    <2> QED BY <1>3, <2>2 DEF Refused, BeginsUpdate
  <1>4. CASE Begin(Request("update", handler, Mgmt, u, None, {}, <<>>, <<Say(Reply("400"))>>))
    <2>1. Answers(<<>> \o <<Say(Reply("400"))>>, {})
      BY Replies, SayNext, Nothing
    <2>2. <<>> \o <<Say(Reply("400"))>> = <<Say(Reply("400"))>>
      OBVIOUS
    <2>3. NewUpdate(Request("update", handler, Mgmt, u, None, {}, <<>>, <<Say(Reply("400"))>>))
      BY <1>1, <1>2, <2>1, <2>2, Requested
    <2> QED BY <1>4, <2>3 DEF BeginsUpdate
  <1> QED BY <1>3, <1>4 DEF management

LEMMA Groups ==
  /\ Basic \subseteq ICQInfo /\ More \subseteq ICQInfo /\ Work \subseteq ICQInfo
  /\ Affiliations \subseteq ICQInfo /\ Permissions \subseteq ICQInfo
  /\ {"origin", "notes", "interests", "hpcat"} \subseteq ICQInfo
  /\ Basic \cap More = {} /\ Basic \cap Work = {} /\ Basic \cap Affiliations = {} /\ Basic \cap Permissions = {}
  /\ More \cap Work = {} /\ More \cap Affiliations = {} /\ More \cap Permissions = {}
  /\ Work \cap Affiliations = {} /\ Work \cap Permissions = {} /\ Affiliations \cap Permissions = {}
  /\ \A f \in {"origin", "notes", "interests", "hpcat"} :
       f \notin Basic /\ f \notin More /\ f \notin Work /\ f \notin Affiliations /\ f \notin Permissions
  BY DEF ICQInfo, Basic, More, Work, Affiliations, Permissions

\* Scripts of one statement, and of one that keeps what it does not set.
LEMMA OneRead == Good(<<User>>, {}, {}) /\ HasRead(<<User>>)
  <1>1. <<>> \o <<User>> = <<User>>
    OBVIOUS
  <1> QED BY <1>1, Nothing, ReadNext

LEMMA OneWrite ==
  ASSUME NEW how \in {"over", "any"}, NEW part \in SUBSET ICQInfo, NEW fields \in SUBSET part
  PROVE  Good(<<Write(how, part, fields)>>, fields, part)
  <1>1. <<>> \o <<Write(how, part, fields)>> = <<Write(how, part, fields)>>
    OBVIOUS
  <1>2. how \in Words /\ how # "kept" /\ part \cap {} = {} /\ {} \cap part = {}
    BY Called
  <1>3. Good(<<>> \o <<Write(how, part, fields)>>, {} \cup fields, {} \cup part)
    BY <1>2, Nothing, WriteNext
  <1>4. {} \cup fields = fields /\ {} \cup part = part
    OBVIOUS
  <1> QED BY <1>1, <1>3, <1>4

LEMMA KeptWrite ==
  ASSUME NEW part \in SUBSET ICQInfo, NEW fields \in SUBSET part
  PROVE  LET t == <<User>> \o <<Write("kept", part, fields)>> IN Good(t, fields, part) /\ HasRead(t)
  <1>1. "kept" \in Words /\ part \cap {} = {} /\ {} \cap part = {} /\ {} \cup fields = fields /\ {} \cup part = part
    BY Called
  <1>2. LET t == <<User>> \o <<Write("kept", part, fields)>>
        IN  Good(t, {} \cup fields, {} \cup part) /\ (HasRead(<<User>>) => HasRead(t))
    BY <1>1, OneRead, WriteNext
  <1> QED BY <1>1, <1>2, OneRead

LEMMA OnePassword == Good(<<SetUserPassword>>, {"weak", "strong"}, {})
  <1>1. PICK t : t = <<SetUserPassword>>
    OBVIOUS
  <1>2. t \in Seq(Statements) /\ Len(t) = 1 /\ t[1] = SetUserPassword /\ DOMAIN t = 1..1
    BY <1>1, Passwords
  <1>3. \A i \in DOMAIN t : t[i].do = "password" /\ t[i].part = {} /\ t[i].fields = {}
    BY <1>2, Passwords
  <1>4. Keeps(t)
    BY <1>3 DEF Keeps
  <1>5. Carries(t, {"weak", "strong"})
    BY <1>2, <1>3 DEF Carries, Pending, Sets, Overwrites
  <1>6. {"weak", "strong"} \subseteq everything
    BY Fields
  <1> QED BY <1>1, <1>2, <1>3, <1>4, <1>5, <1>6 DEF Good

\* The statement of one column.
LEMMA OneColumn ==
  /\ Good(<<SetUserNotes>>, {"notes"}, {"notes"}) /\ Good(<<SetInterests>>, {"interests"}, {"interests"})
  /\ Good(<<SetHomepageCategory>>, {"hpcat"}, {"hpcat"}) /\ Good(<<SetAffiliations>>, Affiliations, Affiliations)
  <1>1. \A F \in SUBSET ICQInfo : Good(<<Write("over", F, F)>>, F, F)
    BY OneWrite
  <1>2. {"notes"} \in SUBSET ICQInfo /\ {"interests"} \in SUBSET ICQInfo /\ {"hpcat"} \in SUBSET ICQInfo
        /\ Affiliations \in SUBSET ICQInfo
    BY Groups
  <1> QED BY <1>1, <1>2 DEF SetUserNotes, SetInterests, SetHomepageCategory, SetAffiliations

\* What the handlers do, group by group.
LEMMA DetailGood ==
  ASSUME NEW about \in BOOLEAN
  PROVE  \E P : Good(detailSteps(about), detailFields(about), P)
  <1>1. {"place", "phone"} \in SUBSET Basic /\ {"gender", "homepage"} \in SUBSET More /\ "kept" \in Words
    BY Called DEF Basic, More
  <1> DEFINE r == <<User>> \o <<Write("kept", Basic, {"place", "phone"})>>
             s == r \o <<Write("kept", More, {"gender", "homepage"})>>
             t == s \o <<Write("over", {"notes"}, {"notes"})>>
  <1>2. Good(r, {"place", "phone"}, Basic) /\ HasRead(r)
    BY <1>1, KeptWrite, Groups
  <1>3. Good(s, {"place", "phone"} \cup {"gender", "homepage"}, Basic \cup More)
    <2>1. More \cap Basic = {} /\ {"place", "phone"} \cap More = {} /\ More \in SUBSET ICQInfo
      BY <1>1, Groups
    <2> HIDE DEF r
    <2>2. LET q == r \o <<Write("kept", More, {"gender", "homepage"})>>
          IN  Good(q, {"place", "phone"} \cup {"gender", "homepage"}, Basic \cup More)
      BY <1>1, <1>2, <2>1, WriteNext
    <2> QED BY <2>2
  <1>4. {"place", "phone"} \cup {"gender", "homepage"} = detail
    BY DEF detail
  <1>5. Good(t, detail \cup {"notes"}, (Basic \cup More) \cup {"notes"})
    <2>1. {"notes"} \cap (Basic \cup More) = {} /\ detail \cap {"notes"} = {} /\ {"notes"} \in SUBSET ICQInfo
          /\ "over" \in Words /\ {"notes"} \in SUBSET {"notes"}
      BY Groups, Called DEF detail
    <2> HIDE DEF s
    <2>2. LET q == s \o <<Write("over", {"notes"}, {"notes"})>>
          IN  Good(q, detail \cup {"notes"}, (Basic \cup More) \cup {"notes"})
      BY <1>3, <1>4, <2>1, WriteNext
    <2> QED BY <2>2
  <1>6. detailSteps(about) = s \o (IF about THEN <<Write("over", {"notes"}, {"notes"})>> ELSE <<>>)
    BY DEF detailSteps, GetFullUserInfo, UpdateBasicInfo, UpdateMoreInfo, SetBasicInfo, SetMoreInfo, SetNotes, SetUserNotes
  <1>7. s \o <<>> = s
    BY <1>3, ConcatEmptySeq DEF Good
  <1> HIDE DEF s, t
  <1>8. CASE about
    <2>1. detailSteps(about) = t /\ detailFields(about) = detail \cup {"notes"}
      BY <1>6, <1>8 DEF t, detailFields
    <2> QED BY <1>5, <2>1
  <1>9. CASE ~about
    <2>1. detailSteps(about) = s /\ detailFields(about) = detail
      BY <1>6, <1>7, <1>9 DEF detailFields
    <2> QED BY <1>3, <1>4, <2>1
  <1> QED BY <1>8, <1>9

\* The permissions are read, and written back but for the one that is set.
LEMMA AuthGood ==
  ASSUME NEW st, NEW c, NEW P, Good(st, c, P), c \cap Permissions = {}, P \cap Permissions = {}
  PROVE  Good(st \o SetAuthMode, c \cup {"auth"}, P \cup Permissions)
  <1>1. PICK s : s = st \o <<User>>
    OBVIOUS
  <1>2. Good(s, c, P) /\ HasRead(s)
    BY <1>1, ReadNext
  <1>3. "kept" \in Words /\ Permissions \in SUBSET ICQInfo /\ {"auth"} \in SUBSET Permissions /\ Permissions \cap P = {}
    BY Called, Groups DEF Permissions
  <1>4. LET q == s \o <<Write("kept", Permissions, {"auth"})>> IN Good(q, c \cup {"auth"}, P \cup Permissions)
    BY <1>2, <1>3, WriteNext
  <1> DEFINE one == <<User>>
             two == <<Write("kept", Permissions, {"auth"})>>
  <1>5. st \in Seq(Steps) /\ one \in Seq(Steps) /\ two \in Seq(Steps)
    <2>1. st \in Seq(Steps)
      BY SeqMonotonic DEF Good, Statements, UpdateSteps, PlainSteps
    <2>2. User \in Steps /\ Write("kept", Permissions, {"auth"}) \in Steps
      BY <1>3, Reads, Writes DEF Statements, UpdateSteps, PlainSteps
    <2> QED BY <2>1, <2>2
  <1>6. SetAuthMode = one \o two
    <2>1. one \o two = <<User, Write("kept", Permissions, {"auth"})>>
      BY Pair
    <2> QED BY <2>1 DEF SetAuthMode, SetPermissions
  <1> HIDE DEF one, two
  <1>7. (st \o one) \o two = st \o (one \o two)
    BY <1>5, ConcatAssociative
  <1> QED BY <1>1, <1>4, <1>6, <1>7 DEF one, two

LEMMA OldClientsBegin ==
  ASSUME NEW u \in Uins, UpdateOldClients(u)
  PROVE  BeginsUpdate
  <1>1. CASE handleUpdateBasicV2(u)
    <2>0. "UpdateBasic" \in UpdateNames /\ 2 \in Nat
      BY DEF UpdateNames
    <2>1. CASE gateway("UpdateBasic", 2, u, {}, <<>>, "fail")
      BY <2>0, <2>1, Gateway, Nothing
    <2>2. ASSUME NEW hasAuth \in BOOLEAN,
                 gateway("UpdateBasic", 2, u, {"names", "email"} \cup (IF hasAuth THEN {"auth"} ELSE {}),
                   GetFullUserInfo \o UpdateBasicInfo("any", {"names", "email"})
                     \o (IF hasAuth THEN SetAuthMode ELSE <<>>), "ok")
          PROVE  BeginsUpdate
      <3> DEFINE w == <<Write("any", Basic, {"names", "email"})>>
                 s == <<User>> \o w
      <3>1. Good(s, {"names", "email"}, Basic)
        <4>1. /\ {"names", "email"} \in SUBSET Basic /\ "any" \in Words /\ "any" # "kept" /\ Basic \in SUBSET ICQInfo
              /\ Basic \cap {} = {} /\ {} \cap Basic = {} /\ {} \cup Basic = Basic
              /\ {} \cup {"names", "email"} = {"names", "email"}
          BY Called, Groups DEF Basic
        <4>2. LET q == <<User>> \o <<Write("any", Basic, {"names", "email"})>>
              IN  Good(q, {} \cup {"names", "email"}, {} \cup Basic)
          BY <4>1, OneRead, WriteNext
        <4> QED BY <4>1, <4>2
      <3>2. GetFullUserInfo \o UpdateBasicInfo("any", {"names", "email"}) = s
        BY DEF GetFullUserInfo, UpdateBasicInfo, SetBasicInfo
      <3> HIDE DEF s
      <3>3. CASE hasAuth
        <4>1. {"names", "email"} \cap Permissions = {} /\ Basic \cap Permissions = {}
          BY Groups DEF Permissions
        <4>2. Good(s \o SetAuthMode, {"names", "email"} \cup {"auth"}, Basic \cup Permissions)
          BY <3>1, <4>1, AuthGood
        <4>3. gateway("UpdateBasic", 2, u, {"names", "email"} \cup {"auth"}, s \o SetAuthMode, "ok")
          BY <2>2, <3>2, <3>3
        <4> QED BY <2>0, <4>2, <4>3, Gateway
      <3>4. CASE ~hasAuth
        <4>1. s \o <<>> = s
          BY <3>1, ConcatEmptySeq DEF Good
        <4>2. {"names", "email"} \cup {} = {"names", "email"}
          OBVIOUS
        <4>3. gateway("UpdateBasic", 2, u, {"names", "email"}, s, "ok")
          BY <2>2, <3>2, <3>4, <4>1, <4>2
        <4> QED BY <2>0, <3>1, <4>3, Gateway
      <3> QED BY <3>3, <3>4
    <2> QED BY <1>1, <2>1, <2>2 DEF handleUpdateBasicV2
  <1>2. CASE handleUpdateDetailV2(u)
    <2>0. "UpdateDetail" \in UpdateNames /\ 2 \in Nat
      BY DEF UpdateNames
    <2>1. CASE gateway("UpdateDetail", 2, u, {}, <<>>, "fail")
      BY <2>0, <2>1, Gateway, Nothing
    <2>2. ASSUME NEW about \in BOOLEAN,
                 gateway("UpdateDetail", 2, u, detailFields(about), detailSteps(about), "ok")
          PROVE  BeginsUpdate
      <3>1. PICK P : Good(detailSteps(about), detailFields(about), P)
        BY DetailGood
      <3> QED BY <2>0, <2>2, <3>1, Gateway
    <2> QED BY <1>2, <2>1, <2>2 DEF handleUpdateDetailV2
  <1>3. CASE handleSetBasicInfo(u)
    <2>0. "SetBasicInfo" \in UpdateNames /\ 3 \in Nat
      BY DEF UpdateNames
    <2>1. Good(<<Write("over", Basic, {"names", "email"})>>, {"names", "email"}, Basic)
      <3>1. {"names", "email"} \in SUBSET Basic /\ Basic \in SUBSET ICQInfo /\ "over" \in {"over", "any"}
        BY Groups DEF Basic
      <3> QED BY <3>1, OneWrite
    <2> QED BY <1>3, <2>0, <2>1, Answered DEF handleSetBasicInfo, UpdateBasicInfo, SetBasicInfo
  <1>4. CASE handleSetHomeInfo(u)
    <2>0. "SetHomeInfo" \in UpdateNames /\ 3 \in Nat
      BY DEF UpdateNames
    <2> DEFINE s == <<User>> \o <<Write("kept", Basic, {"place", "phone", "home"})>>
    <2>1. Good(s, {"place", "phone", "home"}, Basic)
      <3>1. {"place", "phone", "home"} \in SUBSET Basic /\ Basic \in SUBSET ICQInfo
        BY Groups DEF Basic
      <3> QED BY <3>1, KeptWrite
    <2>2. GetFullUserInfo \o UpdateBasicInfo("kept", {"place", "phone", "home"}) = s
      BY DEF GetFullUserInfo, UpdateBasicInfo, SetBasicInfo
    <2> HIDE DEF s
    <2>3. {"place", "phone", "home"} \cap Permissions = {} /\ Basic \cap Permissions = {}
          /\ {"place", "phone", "home"} \cup {"auth"} = {"place", "phone", "home", "auth"}
      BY Groups DEF Permissions
    <2>4. Good(s \o SetAuthMode, {"place", "phone", "home", "auth"}, Basic \cup Permissions)
      BY <2>1, <2>3, AuthGood
    <2>5. answered("SetHomeInfo", 3, u, {"place", "phone", "home", "auth"}, s \o SetAuthMode)
      BY <1>4, <2>2 DEF handleSetHomeInfo
    <2> QED BY <2>0, <2>4, <2>5, Answered
  <1>5. CASE handleSetHomeWeb(u)
    <2>0. "SetHomeWeb" \in UpdateNames /\ 3 \in Nat
      BY DEF UpdateNames
    <2>1. Good(<<Write("over", More, More)>>, More, More)
      <3>1. More \in SUBSET More /\ More \in SUBSET ICQInfo /\ "over" \in {"over", "any"}
        BY Groups DEF More
      <3> QED BY <3>1, OneWrite
    <2> QED BY <1>5, <2>0, <2>1, Answered DEF handleSetHomeWeb, UpdateMoreInfo, SetMoreInfo
  <1>6. CASE handleSetWorkInfo(u)
    <2>0. "SetWorkInfo" \in UpdateNames /\ 3 \in Nat
      BY DEF UpdateNames
    <2>1. Good(<<User>> \o <<Write("kept", Work, {"office"})>>, {"office"}, Work)
      <3>1. {"office"} \in SUBSET Work /\ Work \in SUBSET ICQInfo
        BY Groups DEF Work
      <3> QED BY <3>1, KeptWrite
    <2> QED BY <1>6, <2>0, <2>1, Answered DEF handleSetWorkInfo, GetFullUserInfo, UpdateWorkInfo, SetWorkInfo
  <1>7. CASE handleSetWorkWeb(u)
    <2>0. "SetWorkWeb" \in UpdateNames /\ 3 \in Nat
      BY DEF UpdateNames
    <2>1. Good(<<User>> \o <<Write("kept", Work, {"workWeb"})>>, {"workWeb"}, Work)
      <3>1. {"workWeb"} \in SUBSET Work /\ Work \in SUBSET ICQInfo
        BY Groups DEF Work
      <3> QED BY <3>1, KeptWrite
    <2> QED BY <1>7, <2>0, <2>1, Answered DEF handleSetWorkWeb, GetFullUserInfo, UpdateWorkInfo, SetWorkInfo
  <1>8. CASE handleSetNotes(u)
    <2>0. "SetNotes" \in UpdateNames /\ 3 \in Nat
      BY DEF UpdateNames
    <2>1. Good(<<SetUserNotes>>, {"notes"}, {"notes"})
      BY OneColumn
    <2> QED BY <1>8, <2>0, <2>1, Answered DEF handleSetNotes, SetNotes
  <1>9. CASE handleSetPassword(u)
    <2>0. "SetPassword" \in UpdateNames /\ 3 \in Nat
      BY DEF UpdateNames
    <2>1. Good(<<SetUserPassword>>, {"weak", "strong"}, {})
      BY OnePassword
    <2> QED BY <1>9, <2>0, <2>1, Answered DEF handleSetPassword, SetPassword
  <1>10. CASE handleSetAuth(u)
    <2>0. "SetAuth" \in UpdateNames /\ "ok" \in {"ok", "fail"} /\ 3 \in Nat
      BY DEF UpdateNames
    <2>1. Good(SetAuthMode, {"auth"}, Permissions)
      <3>1. Good(<<>> \o SetAuthMode, {} \cup {"auth"}, {} \cup Permissions)
        BY Nothing, AuthGood
      <3>2. <<>> \o SetAuthMode = SetAuthMode
        BY DEF SetAuthMode
      <3>3. {} \cup {"auth"} = {"auth"} /\ {} \cup Permissions = Permissions
        OBVIOUS
      <3> QED BY <3>1, <3>2, <3>3
    <2> QED BY <1>10, <2>0, <2>1, Gateway DEF handleSetAuth
  <1>11. CASE handleUpdateBasicV4(u)
    <2>0. "UpdateBasic" \in UpdateNames /\ 4 \in Nat
      BY DEF UpdateNames
    <2> DEFINE s == <<Write("over", Basic, {"names", "email"})>>
    <2>1. Good(s, {"names", "email"}, Basic)
      <3>1. {"names", "email"} \in SUBSET Basic /\ Basic \in SUBSET ICQInfo /\ "over" \in {"over", "any"}
        BY Groups DEF Basic
      <3> QED BY <3>1, OneWrite
    <2>2. UpdateBasicInfo("over", {"names", "email"}) = s
      BY DEF UpdateBasicInfo, SetBasicInfo
    <2> HIDE DEF s
    <2>3. {"names", "email"} \cap Permissions = {} /\ Basic \cap Permissions = {}
          /\ {"names", "email"} \cup {"auth"} = {"names", "email", "auth"}
      BY Groups DEF Permissions
    <2>4. Good(s \o SetAuthMode, {"names", "email", "auth"}, Basic \cup Permissions)
      BY <2>1, <2>3, AuthGood
    <2>5. answered("UpdateBasic", 4, u, {"names", "email", "auth"}, s \o SetAuthMode)
      BY <1>11, <2>2 DEF handleUpdateBasicV4
    <2> QED BY <2>0, <2>4, <2>5, Answered
  <1>12. CASE handleUpdateDetailV4(u)
    <2>0. "UpdateDetail" \in UpdateNames /\ 4 \in Nat
      BY DEF UpdateNames
    <2>1. PICK about \in BOOLEAN : answered("UpdateDetail", 4, u, detailFields(about), detailSteps(about))
      BY <1>12 DEF handleUpdateDetailV4
    <2>2. PICK P : Good(detailSteps(about), detailFields(about), P)
      BY DetailGood
    <2> QED BY <2>0, <2>1, <2>2, Answered
  <1> QED BY <1>1, <1>2, <1>3, <1>4, <1>5, <1>6, <1>7, <1>8, <1>9, <1>10, <1>11, <1>12 DEF UpdateOldClients

LEMMA NewClientsBegin ==
  ASSUME NEW u \in Uins, UpdateV5(u)
  PROVE  BeginsUpdate
  <1>1. CASE handleMetaSetBasic(u)
    <2>0. "MetaSetBasic" \in UpdateNames /\ 5 \in Nat
      BY DEF UpdateNames
    <2>1. Good(<<Write("over", Basic, Basic)>>, Basic, Basic)
      <3>1. Basic \in SUBSET Basic /\ Basic \in SUBSET ICQInfo /\ "over" \in {"over", "any"}
        BY Groups DEF Basic
      <3> QED BY <3>1, OneWrite
    <2> QED BY <1>1, <2>0, <2>1, Answered DEF handleMetaSetBasic, UpdateBasicInfo, SetBasicInfo
  <1>2. CASE handleMetaSetWork(u)
    <2>0. "MetaSetWork" \in UpdateNames /\ 5 \in Nat
      BY DEF UpdateNames
    <2>1. Good(<<Write("over", Work, Work)>>, Work, Work)
      <3>1. Work \in SUBSET Work /\ Work \in SUBSET ICQInfo /\ "over" \in {"over", "any"}
        BY Groups DEF Work
      <3> QED BY <3>1, OneWrite
    <2> QED BY <1>2, <2>0, <2>1, Answered DEF handleMetaSetWork, UpdateWorkInfo, SetWorkInfo
  <1>3. CASE handleMetaSetMore(u)
    <2>0. "MetaSetMore" \in UpdateNames /\ 5 \in Nat
      BY DEF UpdateNames
    <2>1. Good(<<Write("over", More, More)>>, More, More)
      <3>1. More \in SUBSET More /\ More \in SUBSET ICQInfo /\ "over" \in {"over", "any"}
        BY Groups DEF More
      <3> QED BY <3>1, OneWrite
    <2> QED BY <1>3, <2>0, <2>1, Answered DEF handleMetaSetMore, UpdateMoreInfo, SetMoreInfo
  <1>4. CASE handleMetaSetAbout(u)
    <2>0. "MetaSetAbout" \in UpdateNames /\ 5 \in Nat
      BY DEF UpdateNames
    <2>1. Good(<<SetUserNotes>>, {"notes"}, {"notes"})
      BY OneColumn
    <2> QED BY <1>4, <2>0, <2>1, Answered DEF handleMetaSetAbout, SetNotes
  <1>5. CASE handleMetaSetInterests(u)
    <2>0. "MetaSetInterests" \in UpdateNames /\ 5 \in Nat
      BY DEF UpdateNames
    <2>1. Good(<<SetInterests>>, {"interests"}, {"interests"})
      BY OneColumn
    <2> QED BY <1>5, <2>0, <2>1, Answered DEF handleMetaSetInterests, SetInterestsOf
  <1>6. CASE handleMetaSetAffiliations(u)
    <2>0. "MetaSetAffiliations" \in UpdateNames /\ 5 \in Nat
      BY DEF UpdateNames
    <2>1. Good(<<SetAffiliations>>, Affiliations, Affiliations)
      BY OneColumn
    <2> QED BY <1>6, <2>0, <2>1, Answered DEF handleMetaSetAffiliations, SetAffiliationsOf
  <1>7. CASE handleMetaSetSecurity(u)
    <2>0. "MetaSetSecurity" \in UpdateNames /\ 5 \in Nat
      BY DEF UpdateNames
    <2>1. Good(<<Write("over", Permissions, {"auth", "webAware"})>>, {"auth", "webAware"}, Permissions)
      <3>1. {"auth", "webAware"} \in SUBSET Permissions /\ Permissions \in SUBSET ICQInfo /\ "over" \in {"over", "any"}
        BY Groups DEF Permissions
      <3> QED BY <3>1, OneWrite
    <2> QED BY <1>7, <2>0, <2>1, Answered DEF handleMetaSetSecurity, UpdatePermissions, SetPermissions
  <1>8. CASE handleMetaSetPassword(u)
    <2>0. "MetaSetPassword" \in UpdateNames /\ 5 \in Nat
      BY DEF UpdateNames
    <2>1. Good(<<SetUserPassword>>, {"weak", "strong"}, {})
      BY OnePassword
    <2> QED BY <1>8, <2>0, <2>1, Answered DEF handleMetaSetPassword, SetPassword
  <1>9. CASE handleMetaSetHPCat(u)
    <2>0. "MetaSetHPCat" \in UpdateNames /\ 5 \in Nat
      BY DEF UpdateNames
    <2>1. Good(<<SetHomepageCategory>>, {"hpcat"}, {"hpcat"})
      BY OneColumn
    <2> QED BY <1>9, <2>0, <2>1, Answered DEF handleMetaSetHPCat, SetHomepageCategoryOf
  <1> QED BY <1>1, <1>2, <1>3, <1>4, <1>5, <1>6, <1>7, <1>8, <1>9 DEF UpdateV5

LEMMA TwoMore ==
  ASSUME NEW S, NEW s \in Seq(S), NEW x \in S, NEW y \in S
  PROVE  s \o <<x, y>> = (s \o <<x>>) \o <<y>>
  <1> DEFINE one == <<x>>
             two == <<y>>
  <1>1. one \in Seq(S) /\ two \in Seq(S) /\ one \o two = <<x, y>>
    BY Pair
  <1>2. s \in Seq(S) /\ one \in Seq(S) /\ two \in Seq(S)
    BY <1>1
  <1> HIDE DEF one, two
  <1>3. (s \o one) \o two = s \o (one \o two)
    BY <1>2, ConcatAssociative
  <1> QED BY <1>1, <1>3 DEF one, two

LEMMA OSCARBegin ==
  ASSUME NEW u \in Uins, UpdateOSCAR(u)
  PROVE  BeginsUpdate
  <1>1. CASE SetAffiliationsOSCAR(u)
    <2>0. "SetAffiliations" \in UpdateNames
      BY DEF UpdateNames
    <2>1. Good(<<SetAffiliations>>, Affiliations, Affiliations)
      BY OneColumn
    <2> QED BY <1>1, <2>0, <2>1, Service DEF SetAffiliationsOSCAR
  <1>2. CASE SetBasicInfoOSCAR(u)
    <2>0. "SetBasicInfo" \in UpdateNames
      BY DEF UpdateNames
    <2>1. Good(<<Write("over", Basic, Basic)>>, Basic, Basic)
      <3>1. Basic \in SUBSET Basic /\ Basic \in SUBSET ICQInfo /\ "over" \in {"over", "any"}
        BY Groups DEF Basic
      <3> QED BY <3>1, OneWrite
    <2> QED BY <1>2, <2>0, <2>1, Service DEF SetBasicInfoOSCAR, SetBasicInfo
  <1>3. CASE SetInterestsOSCAR(u)
    <2>0. "SetInterests" \in UpdateNames
      BY DEF UpdateNames
    <2>1. Good(<<SetInterests>>, {"interests"}, {"interests"})
      BY OneColumn
    <2> QED BY <1>3, <2>0, <2>1, Service DEF SetInterestsOSCAR
  <1>4. CASE SetMoreInfoOSCAR(u)
    <2>0. "SetMoreInfo" \in UpdateNames
      BY DEF UpdateNames
    <2>1. Good(<<Write("over", More, More)>>, More, More)
      <3>1. More \in SUBSET More /\ More \in SUBSET ICQInfo /\ "over" \in {"over", "any"}
        BY Groups DEF More
      <3> QED BY <3>1, OneWrite
    <2> QED BY <1>4, <2>0, <2>1, Service DEF SetMoreInfoOSCAR, SetMoreInfo
  <1>5. CASE SetPermissionsOSCAR(u)
    <2>0. "SetPermissions" \in UpdateNames
      BY DEF UpdateNames
    <2>1. Good(<<Write("over", Permissions, {"auth", "webAware"})>>, {"auth", "webAware"}, Permissions)
      <3>1. {"auth", "webAware"} \in SUBSET Permissions /\ Permissions \in SUBSET ICQInfo /\ "over" \in {"over", "any"}
        BY Groups DEF Permissions
      <3> QED BY <3>1, OneWrite
    <2> QED BY <1>5, <2>0, <2>1, Service DEF SetPermissionsOSCAR, SetPermissions
  <1>6. CASE SetUserNotesOSCAR(u)
    <2>0. "SetUserNotes" \in UpdateNames
      BY DEF UpdateNames
    <2>1. Good(<<SetUserNotes>>, {"notes"}, {"notes"})
      BY OneColumn
    <2> QED BY <1>6, <2>0, <2>1, Service DEF SetUserNotesOSCAR
  <1>7. CASE SetWorkInfoOSCAR(u)
    <2>0. "SetWorkInfo" \in UpdateNames
      BY DEF UpdateNames
    <2>1. Good(<<Write("over", Work, Work)>>, Work, Work)
      <3>1. Work \in SUBSET Work /\ Work \in SUBSET ICQInfo /\ "over" \in {"over", "any"}
        BY Groups DEF Work
      <3> QED BY <3>1, OneWrite
    <2> QED BY <1>7, <2>0, <2>1, Service DEF SetWorkInfoOSCAR, SetWorkInfo
  <1>8. CASE SetEmails(u)
    <2>0. "SetEmails" \in UpdateNames
      BY DEF UpdateNames
    <2>1. Good(<<>>, {}, {})
      BY Nothing
    <2> QED BY <1>8, <2>0, <2>1, Service DEF SetEmails
  <1>9. CASE SetICQPhone(u)
    <2>0. "SetICQPhone" \in UpdateNames
      BY DEF UpdateNames
    <2>1. Good(<<>>, {}, {})
      BY Nothing
    <2> QED BY <1>9, <2>0, <2>1, Service DEF SetICQPhone
  <1>10. CASE SetICQInfoOSCAR(u)
    <2>0. "SetICQInfo" \in UpdateNames
      BY DEF UpdateNames
    <2>1. PICK tlvs \in TLVSets : service("SetICQInfo", u, tlvs, allInfo(tlvs))
      BY <1>10 DEF SetICQInfoOSCAR
    <2>2. tlvs \in SUBSET ICQInfo /\ ICQInfo \in SUBSET ICQInfo
      BY DirectoryAssumption
    <2>3. Good(<<User>> \o <<Write("kept", ICQInfo, tlvs)>>, tlvs, ICQInfo)
      BY <2>2, KeptWrite
    <2>4. allInfo(tlvs) = <<User>> \o <<Write("kept", ICQInfo, tlvs)>>
      BY Pair DEF allInfo, SetICQInfo
    <2> QED BY <2>0, <2>1, <2>3, <2>4, Service
  <1> QED BY <1>1, <1>2, <1>3, <1>4, <1>5, <1>6, <1>7, <1>8, <1>9, <1>10 DEF UpdateOSCAR

\* The groups in turn, then the row as a whole.
LEMMA ProfileGood == \E P : Good(<<User>> \o groups \o origin, ICQInfo \ {"hpcat"}, P)
  <1> DEFINE W(F) == Write("over", F, F)
             q1 == <<User>> \o <<W(Basic)>>
             q2 == q1 \o <<W(More)>>
             q3 == q2 \o <<W(Work)>>
             q4 == q3 \o <<W({"notes"})>>
             q5 == q4 \o <<W({"interests"})>>
             q6 == q5 \o <<W(Affiliations)>>
             q7 == q6 \o <<W(Permissions)>>
             C1 == Basic
             C2 == C1 \cup More
             C3 == C2 \cup Work
             C4 == C3 \cup {"notes"}
             C5 == C4 \cup {"interests"}
             C6 == C5 \cup Affiliations
             C7 == C6 \cup Permissions
  <1>1. /\ Basic \in SUBSET ICQInfo /\ More \in SUBSET ICQInfo /\ Work \in SUBSET ICQInfo
        /\ Affiliations \in SUBSET ICQInfo /\ Permissions \in SUBSET ICQInfo /\ {"notes"} \in SUBSET ICQInfo
        /\ {"interests"} \in SUBSET ICQInfo /\ {"origin"} \in SUBSET ICQInfo
    BY Groups
  <1>2. \A F \in SUBSET ICQInfo : W(F) \in Statements
    BY Writes, Called
  <1>3. ASSUME NEW st, NEW C, Good(st, C, C), NEW F \in SUBSET ICQInfo, F \cap C = {}
        PROVE  Good(st \o <<W(F)>>, C \cup F, C \cup F)
    <2>1. "over" \in Words /\ "over" # "kept" /\ C \cap F = {} /\ F \in SUBSET F
      BY <1>3, Called
    <2>2. LET t == st \o <<Write("over", F, F)>> IN Good(t, C \cup F, C \cup F)
      BY <1>3, <2>1, WriteNext
    <2> QED BY <2>2
  <1> HIDE DEF W
  <1>4. Good(q1, C1, C1)
    <2>1. {} \cup Basic = Basic /\ Basic \cap {} = {}
      OBVIOUS
    <2>2. Good(<<User>> \o <<W(Basic)>>, {} \cup Basic, {} \cup Basic)
      BY <1>1, <1>3, <2>1, OneRead
    <2> QED BY <2>1, <2>2
  <1>5. Good(q2, C2, C2)
    <2>1. More \cap C1 = {}
      BY Groups
    <2> HIDE DEF q1, C1
    <2> QED BY <1>1, <1>3, <1>4, <2>1
  <1>6. Good(q3, C3, C3)
    <2>1. Work \cap C2 = {}
      BY Groups
    <2> HIDE DEF q2, C2
    <2> QED BY <1>1, <1>3, <1>5, <2>1
  <1>7. Good(q4, C4, C4)
    <2>1. {"notes"} \cap C3 = {}
      BY Groups
    <2> HIDE DEF q3, C3
    <2> QED BY <1>1, <1>3, <1>6, <2>1
  <1>8. Good(q5, C5, C5)
    <2>1. {"interests"} \cap C4 = {}
      BY Groups
    <2> HIDE DEF q4, C4
    <2> QED BY <1>1, <1>3, <1>7, <2>1
  <1>9. Good(q6, C6, C6)
    <2>1. Affiliations \cap C5 = {}
      BY Groups
    <2> HIDE DEF q5, C5
    <2> QED BY <1>1, <1>3, <1>8, <2>1
  <1>10. Good(q7, C7, C7)
    <2>1. Permissions \cap C6 = {}
      BY Groups
    <2> HIDE DEF q6, C6
    <2> QED BY <1>1, <1>3, <1>9, <2>1
  <1>11. q7 = <<User>> \o groups
    <2>1. groups = <<W(Basic), W(More), W(Work), W({"notes"}), W({"interests"}), W(Affiliations), W(Permissions)>>
      BY DEF groups, W, SetBasicInfo, SetMoreInfo, SetWorkInfo, SetUserNotes, SetInterests, SetAffiliations, SetPermissions
    <2>w1. PICK w1 : w1 = W(Basic)
      OBVIOUS
    <2>w2. PICK w2 : w2 = W(More)
      OBVIOUS
    <2>w3. PICK w3 : w3 = W(Work)
      OBVIOUS
    <2>w4. PICK w4 : w4 = W({"notes"})
      OBVIOUS
    <2>w5. PICK w5 : w5 = W({"interests"})
      OBVIOUS
    <2>w6. PICK w6 : w6 = W(Affiliations)
      OBVIOUS
    <2>w7. PICK w7 : w7 = W(Permissions)
      OBVIOUS
    <2>w0. PICK w0 : w0 = User
      OBVIOUS
    <2>2. <<w0>> \o <<w1, w2, w3, w4, w5, w6, w7>> =
            ((((((<<w0>> \o <<w1>>) \o <<w2>>) \o <<w3>>) \o <<w4>>) \o <<w5>>) \o <<w6>>) \o <<w7>>
      <3> DEFINE S == {w0, w1, w2, w3, w4, w5, w6, w7}
      <3>0. PICK s0 : s0 = <<w0>>
        OBVIOUS
      <3>z. s0 \in Seq(S) /\ Len(s0) = 1 /\ s0[1] = w0
        BY <3>0
      <3>1. PICK s1 : s1 = s0 \o <<w1>>
        OBVIOUS
      <3>2. s1 \in Seq(S) /\ Len(s1) = 2 /\ s1[1] = w0 /\ s1[2] = w1
        <4>1. w1 \in S
          OBVIOUS
        <4>2. s0 \in Seq(S)
          BY <3>z
        <4> HIDE DEF S
        <4>3. /\ s1 \in Seq(S) /\ Len(s1) = Len(s0) + 1 /\ s1[Len(s0) + 1] = w1
              /\ \A i \in 1..Len(s0) : s1[i] = s0[i]
          BY <4>1, <4>2, <3>1, Longer
        <4> QED BY <3>z, <4>3
      <3>3. PICK s2 : s2 = s1 \o <<w2>>
        OBVIOUS
      <3>4. s2 \in Seq(S) /\ Len(s2) = 3 /\ s2[1] = w0 /\ s2[2] = w1 /\ s2[3] = w2
        <4>1. w2 \in S
          OBVIOUS
        <4>2. s1 \in Seq(S)
          BY <3>2
        <4> HIDE DEF S
        <4>3. /\ s2 \in Seq(S) /\ Len(s2) = Len(s1) + 1 /\ s2[Len(s1) + 1] = w2
              /\ \A i \in 1..Len(s1) : s2[i] = s1[i]
          BY <4>1, <4>2, <3>3, Longer
        <4> QED BY <3>2, <4>3
      <3>5. PICK s3 : s3 = s2 \o <<w3>>
        OBVIOUS
      <3>6. s3 \in Seq(S) /\ Len(s3) = 4 /\ s3[1] = w0 /\ s3[2] = w1 /\ s3[3] = w2 /\ s3[4] = w3
        <4>1. w3 \in S
          OBVIOUS
        <4>2. s2 \in Seq(S)
          BY <3>4
        <4> HIDE DEF S
        <4>3. /\ s3 \in Seq(S) /\ Len(s3) = Len(s2) + 1 /\ s3[Len(s2) + 1] = w3
              /\ \A i \in 1..Len(s2) : s3[i] = s2[i]
          BY <4>1, <4>2, <3>5, Longer
        <4> QED BY <3>4, <4>3
      <3>7. PICK s4 : s4 = s3 \o <<w4>>
        OBVIOUS
      <3>8. s4 \in Seq(S) /\ Len(s4) = 5 /\ s4[1] = w0 /\ s4[2] = w1 /\ s4[3] = w2 /\ s4[4] = w3 /\ s4[5] = w4
        <4>1. w4 \in S
          OBVIOUS
        <4>2. s3 \in Seq(S)
          BY <3>6
        <4> HIDE DEF S
        <4>3. /\ s4 \in Seq(S) /\ Len(s4) = Len(s3) + 1 /\ s4[Len(s3) + 1] = w4
              /\ \A i \in 1..Len(s3) : s4[i] = s3[i]
          BY <4>1, <4>2, <3>7, Longer
        <4> QED BY <3>6, <4>3
      <3>9. PICK s5 : s5 = s4 \o <<w5>>
        OBVIOUS
      <3>10. s5 \in Seq(S) /\ Len(s5) = 6 /\ s5[1] = w0 /\ s5[2] = w1 /\ s5[3] = w2 /\ s5[4] = w3 /\ s5[5] = w4 /\ s5[6] = w5
        <4>1. w5 \in S
          OBVIOUS
        <4>2. s4 \in Seq(S)
          BY <3>8
        <4> HIDE DEF S
        <4>3. /\ s5 \in Seq(S) /\ Len(s5) = Len(s4) + 1 /\ s5[Len(s4) + 1] = w5
              /\ \A i \in 1..Len(s4) : s5[i] = s4[i]
          BY <4>1, <4>2, <3>9, Longer
        <4> QED BY <3>8, <4>3
      <3>11. PICK s6 : s6 = s5 \o <<w6>>
        OBVIOUS
      <3>12. s6 \in Seq(S) /\ Len(s6) = 7 /\ s6[1] = w0 /\ s6[2] = w1 /\ s6[3] = w2 /\ s6[4] = w3 /\ s6[5] = w4 /\ s6[6] = w5 /\ s6[7] = w6
        <4>1. w6 \in S
          OBVIOUS
        <4>2. s5 \in Seq(S)
          BY <3>10
        <4> HIDE DEF S
        <4>3. /\ s6 \in Seq(S) /\ Len(s6) = Len(s5) + 1 /\ s6[Len(s5) + 1] = w6
              /\ \A i \in 1..Len(s5) : s6[i] = s5[i]
          BY <4>1, <4>2, <3>11, Longer
        <4> QED BY <3>10, <4>3
      <3>13. PICK s7 : s7 = s6 \o <<w7>>
        OBVIOUS
      <3>14. s7 \in Seq(S) /\ Len(s7) = 8 /\ s7[1] = w0 /\ s7[2] = w1 /\ s7[3] = w2 /\ s7[4] = w3 /\ s7[5] = w4 /\ s7[6] = w5 /\ s7[7] = w6 /\ s7[8] = w7
        <4>1. w7 \in S
          OBVIOUS
        <4>2. s6 \in Seq(S)
          BY <3>12
        <4> HIDE DEF S
        <4>3. /\ s7 \in Seq(S) /\ Len(s7) = Len(s6) + 1 /\ s7[Len(s6) + 1] = w7
              /\ \A i \in 1..Len(s6) : s7[i] = s6[i]
          BY <4>1, <4>2, <3>13, Longer
        <4> QED BY <3>12, <4>3
      <3>15. PICK g : g = <<w1, w2, w3, w4, w5, w6, w7>>
        OBVIOUS
      <3>16. g \in Seq(S) /\ Len(g) = 7 /\ g[1] = w1 /\ g[2] = w2 /\ g[3] = w3 /\ g[4] = w4 /\ g[5] = w5 /\ g[6] = w6 /\ g[7] = w7
        BY <3>15
      <3>17. PICK p : p = s0 \o g
        OBVIOUS
      <3>18. /\ p \in Seq(S) /\ Len(p) = Len(s0) + Len(g)
             /\ \A i \in 1..Len(s0) + Len(g) : p[i] = IF i <= Len(s0) THEN s0[i] ELSE g[i - Len(s0)]
        <4>1. s0 \in Seq(S) /\ g \in Seq(S)
          BY <3>z, <3>16
        <4> HIDE DEF S
        <4> QED BY <4>1, <3>17, ConcatProperties
      <3>19. Len(p) = 8 /\ \A i \in 1..8 : s7[i] = p[i]
        <4>1. p[1] = w0 /\ p[2] = w1 /\ p[3] = w2 /\ p[4] = w3 /\ p[5] = w4 /\ p[6] = w5 /\ p[7] = w6 /\ p[8] = w7
          BY <3>z, <3>16, <3>18
        <4>2. Len(p) = 8
          BY <3>z, <3>16, <3>18
        <4> QED BY <3>14, <4>1, <4>2
      <3>20. p = s7
        <4> HIDE DEF S
        <4> QED BY <3>14, <3>18, <3>19, SeqEqual
      <3> QED BY <3>0, <3>1, <3>3, <3>5, <3>7, <3>9, <3>11, <3>13, <3>15, <3>17, <3>20
    <2> QED BY <2>1, <2>2, <2>w0, <2>w1, <2>w2, <2>w3, <2>w4, <2>w5, <2>w6, <2>w7
  <1>12. /\ {"origin"} \cap C7 = {} /\ C7 \cup {"origin"} = ICQInfo \ {"hpcat"}
    BY Groups DEF ICQInfo
  <1> HIDE DEF q7, C7
  <1>13. Good((q7 \o <<User>>) \o <<SetICQInfo({"origin"})>>, ICQInfo \ {"hpcat"}, ICQInfo)
    BY <1>1, <1>10, <1>12, CopyNext
  <1>14. q7 \o origin = (q7 \o <<User>>) \o <<SetICQInfo({"origin"})>>
    <2>1. q7 \in Seq(Statements) /\ User \in Statements
      BY <1>10, Reads DEF Good
    <2>2. SetICQInfo({"origin"}) \in Statements
      <3>1. "kept" \in Words /\ ICQInfo \in SUBSET ICQInfo
        BY Called
      <3> QED BY <1>1, <3>1, Writes DEF SetICQInfo
    <2> QED BY <2>1, <2>2, TwoMore DEF origin
  <1> QED BY <1>11, <1>13, <1>14

LEMMA ManagementBegin ==
  ASSUME NEW u \in Uins, putICQProfileHandler(u) \/ putUserPasswordHandler(u)
  PROVE  BeginsUpdate
  <1>1. CASE putICQProfileHandler(u)
    <2>0. "putICQProfile" \in UpdateNames
      BY DEF UpdateNames
    <2>1. PICK P : Good(<<User>> \o groups \o origin, ICQInfo \ {"hpcat"}, P)
      BY ProfileGood
    <2> QED BY <1>1, <2>0, <2>1, Management DEF putICQProfileHandler
  <1>2. CASE putUserPasswordHandler(u)
    <2>0. "putUserPassword" \in UpdateNames
      BY DEF UpdateNames
    <2> QED BY <1>2, <2>0, OnePassword, Management DEF putUserPasswordHandler
  <1> QED BY <1>1, <1>2

LEMMA UpdateBegins ==
  ASSUME NEW u \in Targets,
         \/ UpdateOldClients(u) \/ UpdateV5(u) \/ UpdateOSCAR(u)
         \/ putICQProfileHandler(u) \/ putUserPasswordHandler(u)
  PROVE  BeginsUpdate
  <1>1. u \in Uins
    BY DirectoryAssumption
  <1> QED BY <1>1, OldClientsBegin, NewClientsBegin, OSCARBegin, ManagementBegin

-----------------------------------------------------------------------------
(* Accounts and searches begin.                                            *)

NewAccount(q) ==
  /\ q \in Requests /\ q.kind = "account" /\ q.told \in {<<>>, <<Ack>>}
  /\ IF Registers(q)
     THEN q.onError \in {<<>>, NotConnected} /\ q.script = RegisterNewUser \o Registered /\ q.uin = 0
     ELSE /\ q.script \in Seq(PlainSteps) /\ q.onError \in {None} \cup Seq(PlainSteps)
          /\ q.uin \in Uins

BeginsAccount == \E q : NewAccount(q) /\ Begin(q)

AccountNames == {"RegNewUser", "RegNewUserInfo", "MetaUnregister", "postUser", "deleteUser"}

LEMMA AccountWords ==
  /\ AccountNames \subseteq Words
  /\ {"account", "search", "info", "new", "notConnected", "fail", "ok", "409", "404", "insert", "delete", "generate"} \subseteq Words
  BY DEF Words, AccountNames

\* The statements about accounts.
LEMMA AccountSteps ==
  /\ DeleteUser \in PlainSteps /\ InsertAccount \in PlainSteps /\ User \in PlainSteps
  /\ generateNewUIN \in Steps /\ InsertUser \in Steps
  /\ DeleteUser.do = "delete" /\ InsertAccount.do = "insert" /\ generateNewUIN.do = "generate" /\ InsertUser.do = "insert"
  /\ \A k \in Words : Say(Reply(k)) \in Steps /\ (k # "new" => Say(Reply(k)) \in PlainSteps)
  <1>1. /\ DeleteUser \in Steps /\ InsertAccount \in Steps /\ generateNewUIN \in Steps /\ InsertUser \in Steps
        /\ DeleteUser.do = "delete" /\ InsertAccount.do = "insert" /\ generateNewUIN.do = "generate" /\ InsertUser.do = "insert"
    BY EmptySeq, Fields, Called, AccountWords DEF DeleteUser, InsertAccount, generateNewUIN, InsertUser, Step, Steps
  <1>2. ASSUME NEW k \in Words
        PROVE  Say(Reply(k)) \in Steps /\ (k # "new" => Say(Reply(k)) \in PlainSteps)
    BY Spoken, Said DEF UpdateSteps
  <1>3. User \in PlainSteps
    BY Reads DEF Statements, UpdateSteps
  <1> QED BY <1>1, <1>2, <1>3 DEF PlainSteps

LEMMA Blanks ==
  /\ <<>> \in Views /\ <<>> \in Seq(Packets) /\ <<Ack>> \in Seq(Packets)
  /\ {} \in SUBSET everything
  <1>1. <<>> \in [{} -> Int]
    OBVIOUS
  <1>2. <<>> \in Views
    BY <1>1 DEF Views
  <1>3. Ack \in Packets
    BY Said
  <1>4. <<>> \in Seq(Packets) /\ <<Ack>> \in Seq(Packets)
    BY <1>3
  <1> QED BY <1>2, <1>4

LEMMA AccountBegins ==
  ASSUME NEW u \in Targets, Accounts(u)
  PROVE  BeginsAccount
  <1>0. u \in Uins /\ u \in Nat /\ 0 \in Nat /\ 2 \in Nat /\ 4 \in Nat /\ 5 \in Nat /\ Mgmt \in Nat
    BY DirectoryAssumption DEF Mgmt
  <1>1. /\ AccountNames \in SUBSET Words /\ \A n \in AccountNames \ {"RegNewUser", "RegNewUserInfo"} : TRUE
        /\ "RegNewUser" \in AccountNames /\ "RegNewUserInfo" \in AccountNames /\ "MetaUnregister" \in AccountNames
        /\ "postUser" \in AccountNames /\ "deleteUser" \in AccountNames
    BY AccountWords DEF AccountNames
  <1>2. /\ Say(Reply("new")) \in Steps /\ Say(Reply("notConnected")) \in Steps
        /\ Say(Reply("ok")) \in PlainSteps /\ Say(Reply("fail")) \in PlainSteps
        /\ Say(Reply("409")) \in PlainSteps /\ Say(Reply("404")) \in PlainSteps
    BY AccountWords, AccountSteps
  <1>3. \A k : <<k>> \in Seq({k})
    OBVIOUS
  <1>4. \A s \in Seq(PlainSteps) : s \in Seq(Steps)
    BY SeqMonotonic DEF PlainSteps
  <1> DEFINE reg == RegisterNewUser \o <<Say(Reply("new"))>>
  <1>5. reg \in Seq(Steps) /\ <<Say(Reply("notConnected"))>> \in Seq(Steps) /\ <<>> \in Seq(Steps)
    <2>1. <<generateNewUIN, InsertUser>> \in Seq(Steps)
      BY AccountSteps
    <2>2. RegisterNewUser \in Seq(Steps)
      BY <2>1 DEF RegisterNewUser
    <2>3. <<Say(Reply("notConnected"))>> \in Seq(Steps) /\ <<>> \in Seq(Steps)
      BY <1>2
    <2> QED BY <1>2, <2>2, <2>3, Longer
  <1>6. <<Ack>> \in {<<>>, <<Ack>>} /\ <<>> \in {<<>>, <<Ack>>}
    OBVIOUS
  <1>7. CASE handleRegNewUserV2
    <2>1. PICK q : q = Request("account", "RegNewUser", 2, 0, <<>>, {}, <<>>, reg)
      OBVIOUS
    <2> HIDE DEF reg
    <2>2. /\ q \in Requests /\ q.kind = "account" /\ q.handler = "RegNewUser" /\ q.uin = 0 /\ q.onError = <<>>
          /\ q.told = <<>> /\ q.script = reg
      <3>1. <<>> \in {None} \cup Seq(Steps) /\ <<Say(Reply("notConnected"))>> \in {None} \cup Seq(Steps)
            /\ reg \in Seq(Steps)
        BY <1>5
      <3> QED BY <1>0, <1>1, <2>1, <3>1, Blanks, AccountWords DEF Request, Requests
    <2>3. NewAccount(q)
      BY <2>2 DEF NewAccount, Registers, Registered, reg
    <2> QED BY <1>7, <2>1, <2>3 DEF handleRegNewUserV2, account, BeginsAccount, reg
  <1>8. CASE handleRegNewUserInfo
    <2>1. PICK q : q = Request("account", "RegNewUserInfo", 4, 0, <<Say(Reply("notConnected"))>>, {}, <<Ack>>, reg)
      OBVIOUS
    <2> HIDE DEF reg
    <2>2. /\ q \in Requests /\ q.kind = "account" /\ q.handler = "RegNewUserInfo" /\ q.uin = 0
          /\ q.onError = <<Say(Reply("notConnected"))>> /\ q.told = <<Ack>> /\ q.script = reg
      <3>1. <<>> \in {None} \cup Seq(Steps) /\ <<Say(Reply("notConnected"))>> \in {None} \cup Seq(Steps)
            /\ reg \in Seq(Steps)
        BY <1>5
      <3> QED BY <1>0, <1>1, <2>1, <3>1, Blanks, AccountWords DEF Request, Requests
    <2>3. NewAccount(q)
      BY <2>2 DEF NewAccount, Registers, Registered, NotConnected, reg
    <2> QED BY <1>8, <2>1, <2>3 DEF handleRegNewUserInfo, account, BeginsAccount, reg
  <1>9. ASSUME NEW handler \in {"MetaUnregister", "postUser", "deleteUser"}, NEW version \in Nat,
               NEW onError \in {None} \cup Seq(PlainSteps), NEW told \in {<<>>, <<Ack>>},
               NEW script \in Seq(PlainSteps),
               Begin(Request("account", handler, version, u, onError, {}, told, script))
        PROVE  BeginsAccount
    <2>1. PICK q : q = Request("account", handler, version, u, onError, {}, told, script)
      OBVIOUS
    <2>2. handler \in AccountNames /\ onError \in {None} \cup Seq(Steps) /\ script \in Seq(Steps)
      BY <1>1, <1>4
    <2>3. /\ q \in Requests /\ q.kind = "account" /\ q.handler = handler /\ q.uin = u
          /\ q.onError = onError /\ q.told = told /\ q.script = script
      BY <1>0, <2>1, <2>2, Blanks, AccountWords DEF Request, Requests
    <2>4. NewAccount(q)
      BY <1>0, <2>3 DEF NewAccount, Registers
    <2> QED BY <1>9, <2>1, <2>4 DEF BeginsAccount
  <1>10. CASE handleMetaUnregister(u)
    <2>1. CASE account("MetaUnregister", 5, u, <<Say(Reply("fail"))>>, <<Ack>>, DeleteAccount, "ok")
      <3>1. DeleteAccount \in Seq(PlainSteps)
        BY AccountSteps, Pair DEF DeleteAccount, ValidateCredentials
      <3>2. DeleteAccount \o <<Say(Reply("ok"))>> \in Seq(PlainSteps)
        BY <1>2, <3>1, Longer
      <3>3. <<Say(Reply("fail"))>> \in {None} \cup Seq(PlainSteps)
        BY <1>2
      <3> QED BY <1>0, <1>6, <1>9, <2>1, <3>2, <3>3 DEF account
    <2>2. CASE account("MetaUnregister", 5, u, None, <<Ack>>, <<>>, "fail")
      <3>1. <<>> \o <<Say(Reply("fail"))>> \in Seq(PlainSteps)
        BY <1>2, Longer, EmptySeq
      <3> QED BY <1>0, <1>6, <1>9, <2>2, <3>1 DEF account
    <2> QED BY <1>10, <2>1, <2>2 DEF handleMetaUnregister
  <1>11. CASE postUserHandler(u)
    <2>1. <<InsertAccount>> \in Seq(PlainSteps)
      BY AccountSteps
    <2>2. <<InsertAccount>> \o <<Say(Reply("ok"))>> \in Seq(PlainSteps)
      BY <1>2, <2>1, Longer
    <2>3. <<Say(Reply("409"))>> \in {None} \cup Seq(PlainSteps)
      BY <1>2
    <2> QED BY <1>0, <1>6, <1>9, <1>11, <2>2, <2>3 DEF account, postUserHandler
  <1>12. CASE deleteUserHandler(u)
    <2>1. <<DeleteUser>> \in Seq(PlainSteps)
      BY AccountSteps
    <2>2. <<DeleteUser>> \o <<Say(Reply("ok"))>> \in Seq(PlainSteps)
      BY <1>2, <2>1, Longer
    <2>3. <<Say(Reply("404"))>> \in {None} \cup Seq(PlainSteps)
      BY <1>2
    <2> QED BY <1>0, <1>6, <1>9, <1>12, <2>2, <2>3 DEF account, deleteUserHandler
  <1> QED BY <1>7, <1>8, <1>10, <1>11, <1>12 DEF Accounts

\* Packets that hide no field but those of N.
Fitting(N) == {p \in Quiet : p.of \ p.shows \subseteq N}

NewSearch(q) ==
  /\ q \in Requests /\ q.kind \in {"search", "info"} /\ ~Registers(q)
  /\ q.script = <<>> /\ q.onError = None /\ q.told \in Seq(Quiet)
  /\ q.kind = "info" => \A f \in DOMAIN q.seen \ NotShown(q) :
       q.uin \in Uins /\ f \in ICQInfo /\ Exists(q.uin) /\ q.seen[f] = users[q.uin].profile[f]

BeginsSearch == \E q : NewSearch(q) /\ Begin(q)

SearchNames ==
  {"SearchUIN", "SearchUser", "SearchStart", "SearchByUIN", "SearchByName", "OldSearchUIN", "OldSearch",
   "MetaSearchName", "MetaSearchEmail", "MetaSearchUIN", "MetaSearchWhite", "MetaSearchWhite2",
   "DirectWhiteSearch", "DirectNameSearch", "DirectEmailSearch", "DirectUINSearch", "FindByICQName",
   "FindByICQInterests", "FindByICQEmail", "FindByUIN", "FindByEmail3", "FindByUIN2", "FindByWhitePages2",
   "XMLReqData"}
InfoNames ==
  {"InfoReq", "ExtInfoReq", "GetInfo", "GetNotes", "MetaLoginInfo", "MetaUserFullInfo", "MetaUserFullInfo2",
   "MetaUserInfo", "OldInfoReq", "OldExtInfoReq", "FullUserInfo", "ShortUserInfo"}

LEMMA QuietAnswer ==
  ASSUME NEW version, NEW packets \in Seq(Quiet)
  PROVE  answer(version, packets) \in Seq(Quiet) /\ answer(version, packets) \in Seq(Packets)
  <1>1. Ack \in Quiet
    BY Said DEF Quiet
  <1>2. <<Ack>> \in Seq(Quiet)
    BY <1>1
  <1> HIDE DEF Quiet
  <1>3. <<Ack>> \o packets \in Seq(Quiet)
    <2> DEFINE one == <<Ack>>
    <2>1. one \in Seq(Quiet)
      BY <1>2
    <2> HIDE DEF one
    <2>2. one \o packets \in Seq(Quiet)
      BY <2>1, ConcatProperties
    <2> QED BY <2>2 DEF one
  <1>4. answer(version, packets) \in Seq(Quiet)
    BY <1>3 DEF answer
  <1> QED BY <1>4, SeqMonotonic DEF Quiet

LEMMA SearchRequested ==
  ASSUME NEW handler \in SearchNames, NEW version \in Nat, NEW packets \in Seq(Quiet),
         search(handler, version, packets)
  PROVE  BeginsSearch
  <1>1. handler \in Words /\ "search" \in Words /\ handler \notin {"RegNewUser", "RegNewUserInfo"}
    <2>1. SearchNames \subseteq Words \ {"RegNewUser", "RegNewUserInfo"}
      BY DEF SearchNames, Words
    <2>2. "search" \in Words
      BY AccountWords
    <2> QED BY <2>1, <2>2
  <1>2. PICK a : a = answer(version, packets)
    OBVIOUS
  <1>3. a \in Seq(Quiet) /\ a \in Seq(Packets)
    BY <1>2, QuietAnswer
  <1>4. PICK q : q = Request("search", handler, version, 0, None, {}, a, <<>>)
    OBVIOUS
  <1>5. <<>> \in Seq(Steps)
    OBVIOUS
  <1>6. q \in Requests /\ q.kind = "search" /\ q.handler = handler /\ q.script = <<>> /\ q.onError = None /\ q.told = a
    BY <1>1, <1>3, <1>4, <1>5, Blanks DEF Request, Requests
  <1>7. NewSearch(q)
    BY <1>1, <1>3, <1>6 DEF NewSearch, Registers
  <1> QED BY <1>2, <1>4, <1>7 DEF search, BeginsSearch

LEMMA InfoRequested ==
  ASSUME Shape, NEW handler \in InfoNames, NEW version \in Nat, NEW u \in Uins, NEW N, NEW packets \in Seq(Fitting(N)),
         \A q : q.version = version /\ q.handler = handler => N \subseteq NotShown(q),
         info(handler, version, u, packets)
  PROVE  BeginsSearch
  <1>1. handler \in Words /\ "info" \in Words /\ handler \notin {"RegNewUser", "RegNewUserInfo"} /\ "info" # "search"
    <2>1. InfoNames \subseteq Words \ {"RegNewUser", "RegNewUserInfo"}
      BY DEF InfoNames, Words
    <2>2. "info" \in Words
      BY AccountWords
    <2> QED BY <2>1, <2>2
  <1>2. PICK a : a = answer(version, packets)
    OBVIOUS
  <1>3. a \in Seq(Quiet) /\ a \in Seq(Packets)
    <2>1. packets \in Seq(Quiet)
      BY SeqMonotonic DEF Fitting
    <2> QED BY <1>2, <2>1, QuietAnswer
  <1>4. PICK v : v = IF Exists(u) THEN shown(u, packets) ELSE <<>>
    OBVIOUS
  <1>5. ASSUME Exists(u)
        PROVE  /\ v \in Views
               /\ \A f \in DOMAIN v \ N : f \in ICQInfo /\ v[f] = users[u].profile[f]
    <2> DEFINE infos == {packets[i] : i \in DOMAIN packets}
               D == UNION {p.of : p \in infos}
               H == UNION {p.shows : p \in infos}
    <2>1. infos \subseteq Fitting(N)
      BY ElementOfSeq, LenProperties
    <2>2. D \in SUBSET ICQInfo
      BY <2>1 DEF Fitting, Quiet, Packets
    <2>3. \A f \in D \ N : f \in H
      BY <2>1 DEF Fitting
    <2>4. users[u].profile \in [ICQInfo -> Int]
      BY <1>5 DEF Shape, Exists, Rows, Profiles
    <2>5. v = [f \in D |-> IF f \in H THEN users[u].profile[f] ELSE Blank]
      BY <1>4, <1>5 DEF shown
    <2> HIDE DEF D, H
    <2>6. v \in [D -> Int] /\ DOMAIN v = D
      BY <2>2, <2>4, <2>5 DEF Blank
    <2>7. \A f \in D \ N : v[f] = users[u].profile[f]
      BY <2>3, <2>5
    <2>8. v \in Views
      BY <2>2, <2>6 DEF Views
    <2> QED BY <2>2, <2>6, <2>7, <2>8
  <1>6. ~Exists(u) => v \in Views /\ DOMAIN v = {}
    BY <1>4, Blanks
  <1>7. PICK p : p = Request("info", handler, version, u, None, {}, a, <<>>)
    OBVIOUS
  <1>8. PICK q : q = [p EXCEPT !.seen = v]
    OBVIOUS
  <1>9. <<>> \in Seq(Steps) /\ u \in Nat
    BY DirectoryAssumption
  <1>10. /\ p \in Requests /\ p.kind = "info" /\ p.handler = handler /\ p.version = version /\ p.script = <<>>
         /\ p.onError = None /\ p.told = a /\ p.uin = u
    BY <1>1, <1>3, <1>7, <1>9, Blanks DEF Request, Requests
  <1>11. v \in Views
    BY <1>5, <1>6
  <1>12. /\ q \in Requests /\ q.kind = "info" /\ q.handler = handler /\ q.version = version /\ q.script = <<>>
         /\ q.onError = None /\ q.told = a /\ q.uin = u /\ q.seen = v
    BY <1>8, <1>10, <1>11 DEF Requests
  <1>13. \A f \in DOMAIN q.seen \ NotShown(q) :
           q.uin \in Uins /\ f \in ICQInfo /\ Exists(q.uin) /\ q.seen[f] = users[q.uin].profile[f]
    BY <1>5, <1>6, <1>12
  <1>14. NewSearch(q)
    BY <1>1, <1>3, <1>12, <1>13 DEF NewSearch, Registers
  <1> QED BY <1>2, <1>4, <1>7, <1>8, <1>14 DEF info, BeginsSearch

LEMMA Finds ==
  ASSUME NEW u \in Uins
  PROVE  Found(u) \in Quiet /\ LastFound(u) \in Quiet /\ MoreFound(u) \in Quiet
  <1>1. "found" \in Words /\ "found, more" \in Words /\ u \in Nat /\ {} \in SUBSET ICQInfo
    BY DirectoryAssumption DEF Words
  <1> QED BY <1>1 DEF Found, LastFound, MoreFound, Packet, Packets, Quiet

LEMMA Ends ==
  /\ Reply("end") \in Quiet /\ Reply("fail") \in Quiet /\ Reply("invalid") \in Quiet
  /\ Packet("xml", TRUE, 0, {}, {}) \in Quiet
  <1>1. "end" \in Words /\ "fail" \in Words /\ "invalid" \in Words /\ "xml" \in Words
    BY DEF Words
  <1>2. 0 \in Nat /\ {} \in SUBSET ICQInfo
    OBVIOUS
  <1> QED BY <1>1, <1>2 DEF Reply, Packet, Packets, Quiet

LEMMA OnePacket == \A S : \A p \in S : <<p>> \in Seq(S)
  OBVIOUS

LEMMA AsSeq == ASSUME NEW S, NEW n \in Nat, NEW f \in [1..n -> S] PROVE f \in Seq(S)
  OBVIOUS

LEMMA HitsFound ==
  ASSUME NEW hits \in Hits
  PROVE  hits \in Seq(Uins) /\ FirstHits(hits) \in Seq(Uins) /\ Len(hits) \in Nat
  <1>1. Cardinality(Uins) \in Nat
    BY FS_CardinalityType, DirectoryAssumption
  <1>2. PICK n \in 0..Cardinality(Uins) : hits \in [1..n -> {u \in Uins : Exists(u)}]
    BY DEF Hits
  <1>3. hits \in [1..n -> Uins] /\ n \in Nat
    BY <1>1, <1>2
  <1>4. hits \in Seq(Uins)
    BY <1>3, AsSeq
  <1>5. Len(hits) \in Nat
    BY <1>4, LenProperties
  <1>6. FirstHits(hits) \in Seq(Uins)
    <2>1. PICK m : m = IF Len(hits) < maxResults THEN Len(hits) ELSE maxResults
      OBVIOUS
    <2>2. m \in Int /\ m <= Len(hits) /\ 1 \in Int
      BY <1>5, <2>1, DirectoryAssumption
    <2>3. \A i \in 1..m : hits[i] \in Uins
      BY <1>4, <1>5, <2>2, ElementOfSeq
    <2>4. SubSeq(hits, 1, m) \in Seq(Uins)
      BY <2>2, <2>3, SubSeqProperties
    <2> QED BY <2>1, <2>4 DEF FirstHits
  <1> QED BY <1>4, <1>5, <1>6

LEMMA UserFound ==
  ASSUME NEW u \in Uins, NEW row, NEW err
  PROVE  SearchByUIN(u, row, err) \in Seq(Uins)
  BY EmptySeq, OnePacket DEF SearchByUIN

LEMMA NamesFound ==
  ASSUME NEW hits \in Seq(Uins), NEW err
  PROVE  SearchByName(hits, err) \in Seq(Uins)
  BY EmptySeq DEF SearchByName

\* The kinds of answers to a search.
LEMMA FoundThenEnd ==
  ASSUME NEW hits \in Seq(Uins)
  PROVE  [i \in DOMAIN hits |-> Found(hits[i])] \o <<Reply("end")>> \in Seq(Quiet)
  <1>1. DOMAIN hits = 1..Len(hits) /\ Len(hits) \in Nat /\ \A i \in 1..Len(hits) : hits[i] \in Uins
    BY LenProperties, ElementOfSeq
  <1>2. PICK f : f = [i \in DOMAIN hits |-> Found(hits[i])]
    OBVIOUS
  <1>3. f \in [1..Len(hits) -> Quiet]
    BY <1>1, <1>2, Finds
  <1>4. f \in Seq(Quiet)
    BY <1>1, <1>3, AsSeq
  <1>5. f \o <<Reply("end")>> \in Seq(Quiet)
    BY <1>4, Ends, Longer
  <1> QED BY <1>2, <1>5

LEMMA Listed ==
  ASSUME NEW hits \in Seq(Uins), NEW f, DOMAIN f = DOMAIN hits, f = [i \in DOMAIN hits |-> f[i]],
         \A i \in DOMAIN hits : f[i] \in Quiet
  PROVE  f \in Seq(Quiet)
  <1>1. DOMAIN hits = 1..Len(hits) /\ Len(hits) \in Nat
    BY LenProperties
  <1>2. f \in [1..Len(hits) -> Quiet]
    BY <1>1
  <1> QED BY <1>1, <1>2, AsSeq

LEMMA ResultsQuiet ==
  ASSUME NEW hits \in Seq(Uins), NEW err
  PROVE  results(err, hits) \in Seq(Quiet) /\ metaResults(hits) \in Seq(Quiet)
  <1>1. DOMAIN hits = 1..Len(hits) /\ Len(hits) \in Nat /\ \A i \in 1..Len(hits) : hits[i] \in Uins
    BY LenProperties, ElementOfSeq
  <1>2. PICK f : f = [i \in DOMAIN hits |-> replySearchHit(hits[i], i = Len(hits))]
    OBVIOUS
  <1>3. f \in Seq(Quiet)
    BY <1>1, <1>2, Finds, Listed DEF replySearchHit
  <1>4. <<reportSearchFailure>> \in Seq(Quiet) /\ <<reportNoSearchResults>> \in Seq(Quiet)
    BY Ends, OnePacket DEF reportSearchFailure, reportNoSearchResults
  <1>5. results(err, hits) \in Seq(Quiet)
    BY <1>2, <1>3, <1>4 DEF results
  <1>6. PICK g : g = [i \in DOMAIN hits |-> BuildSearchResult(hits, i)]
    OBVIOUS
  <1>7. g \in Seq(Quiet)
    <2>1. \A i \in DOMAIN hits : g[i] \in Quiet
      BY <1>1, <1>6, Finds, Ends DEF BuildSearchResult
    <2> QED BY <1>6, <2>1, Listed
  <1>8. <<BuildSearchResult(<<>>, 0)>> \in Seq(Quiet)
    BY Ends, OnePacket DEF BuildSearchResult
  <1>9. metaResults(hits) \in Seq(Quiet)
    BY <1>6, <1>7, <1>8 DEF metaResults
  <1> QED BY <1>5, <1>9

LEMMA WhiteQuiet ==
  ASSUME NEW hits \in Hits, NEW bad, NEW empty, NEW err
  PROVE  handleMetaSearchWhite(bad, err, hits) \in Seq(Quiet) /\ handleMetaSearchWhite2(bad, empty, err, hits) \in Seq(Quiet)
  <1>1. PICK found : found = FirstHits(hits)
    OBVIOUS
  <1>2. found \in Seq(Uins)
    BY <1>1, HitsFound
  <1>3. DOMAIN found = 1..Len(found) /\ Len(found) \in Nat /\ \A i \in 1..Len(found) : found[i] \in Uins
    BY <1>2, LenProperties, ElementOfSeq
  <1>4. PICK f : f = [i \in DOMAIN found |-> sendMetaWhiteFound(found[i], i = Len(found), Len(found) >= maxResults)]
    OBVIOUS
  <1>5. PICK g : g = [i \in DOMAIN found |-> sendMetaWhiteSearchResult2(found[i], i = Len(found), Len(found) >= maxResults)]
    OBVIOUS
  <1>6. f \in Seq(Quiet)
    <2>1. \A i \in DOMAIN found : f[i] \in Quiet
      BY <1>3, <1>4, Finds DEF sendMetaWhiteFound
    <2> QED BY <1>2, <1>4, <2>1, Listed
  <1>7. g \in Seq(Quiet)
    <2>1. \A i \in DOMAIN found : g[i] \in Quiet
      BY <1>3, <1>5, Finds DEF sendMetaWhiteSearchResult2
    <2> QED BY <1>2, <1>5, <2>1, Listed
  <1>8. <<sendMetaWhiteSearchEnd(TRUE)>> \in Seq(Quiet) /\ <<sendMetaWhiteSearchEnd(FALSE)>> \in Seq(Quiet)
    BY Ends, OnePacket DEF sendMetaWhiteSearchEnd
  <1>9. handleMetaSearchWhite(bad, err, hits) \in Seq(Quiet)
    BY <1>1, <1>4, <1>6, <1>8 DEF handleMetaSearchWhite
  <1>10. handleMetaSearchWhite2(bad, empty, err, hits) \in Seq(Quiet)
    BY <1>1, <1>5, <1>7, <1>8 DEF handleMetaSearchWhite2
  <1> QED BY <1>9, <1>10

\* The packets of a profile.
InfoKinds ==
  {"info", "extinfo", "basic", "home", "homeweb", "work", "workweb", "notes", "more", "hpcat", "about",
   "interests", "affiliations", "user", "emails", "short"}

LEMMA KindWords == InfoKinds \subseteq Words \ {"new"}
  BY DEF Words, InfoKinds

LEMMA Shows ==
  ASSUME NEW u \in Uins, NEW N,
         NEW kind \in InfoKinds,
         NEW of \in SUBSET ICQInfo, NEW hidden, of \cap hidden \subseteq N
  PROVE  Info(kind, u, of, hidden) \in Fitting(N)
  <1>1. kind \in Words /\ kind # "new"
    BY KindWords
  <1>2. u \in Nat /\ of \ hidden \in SUBSET ICQInfo
    BY DirectoryAssumption
  <1> QED BY <1>1, <1>2 DEF Info, Packet, Packets, Quiet, Fitting

LEMMA ShowsAll ==
  ASSUME NEW u \in Uins, NEW N, NEW last \in BOOLEAN,
         NEW kind \in InfoKinds,
         NEW of \in SUBSET ICQInfo, NEW showing \in SUBSET ICQInfo, of \ showing \subseteq N
  PROVE  Packet(kind, last, u, of, showing) \in Fitting(N)
  <1>1. kind \in Words /\ kind # "new"
    BY KindWords
  <1>2. u \in Nat
    BY DirectoryAssumption
  <1> QED BY <1>1, <1>2 DEF Packet, Packets, Quiet, Fitting

LEMMA Fails == \A N : /\ <<>> \in Seq(Fitting(N)) /\ <<Reply("fail")>> \in Seq(Fitting(N))
                     /\ <<Reply("invalid")>> \in Seq(Fitting(N))
  <1>1. \A N : Reply("fail") \in Fitting(N) /\ Reply("invalid") \in Fitting(N)
    BY Ends DEF Fitting, Reply, Packet
  <1> QED BY <1>1, OnePacket, EmptySeq


LEMMA OldSearchBegins ==
  ASSUME Shape, NEW bad \in BOOLEAN, NEW err \in BOOLEAN, NEW u \in Uins, NEW hits \in Hits, SearchOldClients(bad, err, u, hits)
  PROVE  BeginsSearch
  <1> DEFINE row == Exists(u)
  <1> HIDE DEF row
  <1>0. hits \in Seq(Uins) /\ 2 \in Nat /\ 3 \in Nat /\ 4 \in Nat /\ 5 \in Nat /\ OSCAR \in Nat
    BY HitsFound DEF OSCAR
  <1>1. CASE info("InfoReq", 2, u, handleInfoReqV2(bad, u))
    <2> DEFINE N == {"auth", "phone"}
    <2>1. "InfoReq" \in InfoNames
      BY DEF InfoNames
    <2>2. \A q : q.version = 2 /\ q.handler = "InfoReq" => N \subseteq NotShown(q)
      BY DEF NotShown, OSCAR
    <2>3. Info("info", u, {"names", "email", "auth"}, {"auth"}) \in Fitting(N)
      <3>1. {"names", "email", "auth"} \in SUBSET ICQInfo /\ {"names", "email", "auth"} \cap {"auth"} \subseteq N
        BY DEF ICQInfo, Basic, More, Work, Affiliations, Permissions, N
      <3> HIDE DEF N
      <3> QED BY <3>1, Shows, ShowsAll DEF InfoKinds, N
    <2> HIDE DEF N
    <2>4. handleInfoReqV2(bad, u) \in Seq(Fitting(N))
      BY <2>3, Fails, OnePacket DEF handleInfoReqV2, sendMetaFail, sendV5InvalidUIN
    <2> QED BY <1>0, <1>1, <2>1, <2>2, <2>4, InfoRequested
  <1>2. CASE info("ExtInfoReq", 2, u, handleExtInfoReqV2(bad, err, u))
    <2> DEFINE N == {"auth", "phone"}
    <2>1. "ExtInfoReq" \in InfoNames
      BY DEF InfoNames
    <2>2. \A q : q.version = 2 /\ q.handler = "ExtInfoReq" => N \subseteq NotShown(q)
      BY DEF NotShown, OSCAR
    <2>3. Info("extinfo", u, {"place", "phone", "gender", "homepage", "notes", "birth"}, {"phone"}) \in Fitting(N)
      <3>1. {"place", "phone", "gender", "homepage", "notes", "birth"} \in SUBSET ICQInfo /\ {"place", "phone", "gender", "homepage", "notes", "birth"} \cap {"phone"} \subseteq N
        BY DEF ICQInfo, Basic, More, Work, Affiliations, Permissions, N
      <3> HIDE DEF N
      <3> QED BY <3>1, Shows, ShowsAll DEF InfoKinds, N
    <2> HIDE DEF N
    <2>4. handleExtInfoReqV2(bad, err, u) \in Seq(Fitting(N))
      BY <2>3, Fails, OnePacket DEF handleExtInfoReqV2, sendMetaFail, sendV5InvalidUIN
    <2> QED BY <1>0, <1>2, <2>1, <2>2, <2>4, InfoRequested
  <1>3. CASE search("SearchUIN", 2, handleSearchUIN(bad, err, u, row))
    <2>1. "SearchUIN" \in SearchNames
      BY DEF SearchNames
    <2>2. handleSearchUIN(bad, err, u, row) \in Seq(Quiet)
      BY UserFound, FoundThenEnd DEF handleSearchUIN, plainly, sendSearchFoundV3, sendSearchEndV2
    <2> QED BY <1>0, <1>3, <2>1, <2>2, SearchRequested
  <1>4. CASE search("SearchUser", 2, handleSearchUser(bad, err, hits))
    <2>1. "SearchUser" \in SearchNames
      BY DEF SearchNames
    <2>2. DOMAIN hits = 1..Len(hits) /\ \A i \in 1..Len(hits) : hits[i] \in Uins
      BY <1>0, LenProperties, ElementOfSeq
    <2>3. PICK f : f = [i \in DOMAIN hits |-> sendSearchResultV2(hits[i], i = Len(hits))]
      OBVIOUS
    <2>4. \A i \in DOMAIN hits : f[i] \in Quiet
      BY <2>2, <2>3, Finds DEF sendSearchResultV2
    <2>5. f \in Seq(Quiet)
      BY <1>0, <2>3, <2>4, Listed
    <2>6. <<sendSearchEndV2>> \in Seq(Quiet)
      BY Ends, OnePacket DEF sendSearchEndV2
    <2>7. handleSearchUser(bad, err, hits) \in Seq(Quiet)
      BY <2>3, <2>5, <2>6 DEF handleSearchUser
    <2> QED BY <1>0, <1>4, <2>1, <2>7, SearchRequested
  <1>5. CASE info("GetInfo", 3, u, handleGetInfoV3(bad, u))
    <2> DEFINE N == {"home", "office", "workWeb", "birth", "langs"}
    <2>1. "GetInfo" \in InfoNames
      BY DEF InfoNames
    <2>2. \A q : q.version = 3 /\ q.handler = "GetInfo" => N \subseteq NotShown(q)
      BY DEF NotShown, OSCAR
    <2>3. BuildBasicInfo(u) \in Fitting(N) /\ BuildHomeInfo(u) \in Fitting(N) /\ BuildHomeWeb(u) \in Fitting(N) /\ BuildWorkInfo(u) \in Fitting(N) /\ BuildWorkWeb(u) \in Fitting(N)
      <3>1. {"names", "email", "auth"} \in SUBSET ICQInfo /\ {"place", "phone", "home", "gender"} \in SUBSET ICQInfo /\ {"homepage", "birth", "langs"} \in SUBSET ICQInfo /\ {"office"} \in SUBSET ICQInfo /\ {"workWeb"} \in SUBSET ICQInfo /\ {"place", "phone", "home", "gender"} \cap {"home"} \subseteq N /\ {"homepage", "birth", "langs"} \cap {"birth", "langs"} \subseteq N /\ {"office"} \cap {"office"} \subseteq N /\ {"workWeb"} \cap {"workWeb"} \subseteq N /\ {"names", "email", "auth"} \cap {} \subseteq N
        BY DEF ICQInfo, Basic, More, Work, Affiliations, Permissions, N
      <3> HIDE DEF N
      <3> QED BY <3>1, Shows, ShowsAll DEF InfoKinds, BuildBasicInfo, BuildHomeInfo, BuildHomeWeb, BuildWorkInfo, BuildWorkWeb
    <2> HIDE DEF N
    <2>4. handleGetInfoV3(bad, u) \in Seq(Fitting(N))
      BY <2>3, Fails DEF handleGetInfoV3, sendMetaFail, sendV5InvalidUIN
    <2> QED BY <1>0, <1>5, <2>1, <2>2, <2>4, InfoRequested
  <1>6. CASE info("GetNotes", 3, u, handleGetNotes(bad, u))
    <2> DEFINE N == {}
    <2>1. "GetNotes" \in InfoNames
      BY DEF InfoNames
    <2>2. \A q : q.version = 3 /\ q.handler = "GetNotes" => N \subseteq NotShown(q)
      BY DEF NotShown, OSCAR
    <2>3. sendNotes(u) \in Fitting(N)
      <3>1. {"notes"} \in SUBSET ICQInfo /\ {"notes"} \cap {} \subseteq N
        BY DEF ICQInfo, Basic, More, Work, Affiliations, Permissions, N
      <3> HIDE DEF N
      <3> QED BY <3>1, Shows, ShowsAll DEF InfoKinds, sendNotes
    <2> HIDE DEF N
    <2>4. handleGetNotes(bad, u) \in Seq(Fitting(N))
      BY <2>3, Fails, OnePacket DEF handleGetNotes, sendMetaFail, sendV5InvalidUIN
    <2> QED BY <1>0, <1>6, <2>1, <2>2, <2>4, InfoRequested
  <1>7. CASE search("SearchStart", 3, handleSearchStart(bad, err, u, row))
    <2>1. "SearchStart" \in SearchNames
      BY DEF SearchNames
    <2>2. handleSearchStart(bad, err, u, row) \in Seq(Quiet)
      BY UserFound, FoundThenEnd DEF handleSearchStart, plainly, sendSearchFoundV3, sendSearchDone
    <2> QED BY <1>0, <1>7, <2>1, <2>2, SearchRequested
  <1>8. CASE info("GetInfo", 4, u, handleGetInfoV4(bad, u))
    <2> DEFINE N == {}
    <2>1. "GetInfo" \in InfoNames
      BY DEF InfoNames
    <2>2. \A q : q.version = 4 /\ q.handler = "GetInfo" => N \subseteq NotShown(q)
      BY DEF NotShown, OSCAR
    <2>3. sendBasicInfo(u) \in Fitting(N)
      <3>1. {} \in SUBSET ICQInfo /\ {} \cap {} \subseteq N
        BY DEF ICQInfo, Basic, More, Work, Affiliations, Permissions, N
      <3> HIDE DEF N
      <3> QED BY <3>1, Shows, ShowsAll DEF InfoKinds, sendBasicInfo
    <2> HIDE DEF N
    <2>4. handleGetInfoV4(bad, u) \in Seq(Fitting(N))
      BY <2>3, Fails, OnePacket DEF handleGetInfoV4, sendMetaFail, sendV5InvalidUIN
    <2> QED BY <1>0, <1>8, <2>1, <2>2, <2>4, InfoRequested
  <1>9. CASE info("InfoReq", 4, u, handleInfoReqV4(bad, u))
    <2> DEFINE N == {}
    <2>1. "InfoReq" \in InfoNames
      BY DEF InfoNames
    <2>2. \A q : q.version = 4 /\ q.handler = "InfoReq" => N \subseteq NotShown(q)
      BY DEF NotShown, OSCAR
    <2>3. sendBasicInfoResponse(u) \in Fitting(N)
      <3>1. {"names", "email"} \in SUBSET ICQInfo /\ {"names", "email"} \cap {} \subseteq N
        BY DEF ICQInfo, Basic, More, Work, Affiliations, Permissions, N
      <3> HIDE DEF N
      <3> QED BY <3>1, Shows, ShowsAll DEF InfoKinds, sendBasicInfoResponse
    <2> HIDE DEF N
    <2>4. handleInfoReqV4(bad, u) \in Seq(Fitting(N))
      BY <2>3, Fails, OnePacket DEF handleInfoReqV4, sendMetaFail, sendV5InvalidUIN
    <2> QED BY <1>0, <1>9, <2>1, <2>2, <2>4, InfoRequested
  <1>10. CASE info("ExtInfoReq", 4, u, handleExtInfoReqV4(bad, u))
    <2> DEFINE N == {}
    <2>1. "ExtInfoReq" \in InfoNames
      BY DEF InfoNames
    <2>2. \A q : q.version = 4 /\ q.handler = "ExtInfoReq" => N \subseteq NotShown(q)
      BY DEF NotShown, OSCAR
    <2>3. sendExtInfoResponse(u) \in Fitting(N)
      <3>1. {"place", "phone", "gender", "birth", "homepage", "notes"} \in SUBSET ICQInfo /\ {"place", "phone", "gender", "birth", "homepage", "notes"} \cap {} \subseteq N
        BY DEF ICQInfo, Basic, More, Work, Affiliations, Permissions, N
      <3> HIDE DEF N
      <3> QED BY <3>1, Shows, ShowsAll DEF InfoKinds, sendExtInfoResponse
    <2> HIDE DEF N
    <2>4. handleExtInfoReqV4(bad, u) \in Seq(Fitting(N))
      BY <2>3, Fails, OnePacket DEF handleExtInfoReqV4, sendMetaFail, sendV5InvalidUIN
    <2> QED BY <1>0, <1>10, <2>1, <2>2, <2>4, InfoRequested
  <1>11. CASE search("SearchByUIN", 4, handleSearchByUIN(bad, err, u, row))
    <2>1. "SearchByUIN" \in SearchNames
      BY DEF SearchNames
    <2>2. handleSearchByUIN(bad, err, u, row) \in Seq(Quiet)
      BY UserFound, FoundThenEnd DEF handleSearchByUIN, plainly, sendSearchFoundV4, sendSearchEndV4
    <2> QED BY <1>0, <1>11, <2>1, <2>2, SearchRequested
  <1>12. CASE search("SearchByName", 4, handleSearchByName)
    <2>1. "SearchByName" \in SearchNames
      BY DEF SearchNames
    <2>2. handleSearchByName \in Seq(Quiet)
      BY Ends, OnePacket DEF handleSearchByName, sendSearchEndV4
    <2> QED BY <1>0, <1>12, <2>1, <2>2, SearchRequested
  <1> QED BY <1>1, <1>2, <1>3, <1>4, <1>5, <1>6, <1>7, <1>8, <1>9, <1>10, <1>11, <1>12 DEF SearchOldClients, row

LEMMA V5SearchBegins ==
  ASSUME Shape, NEW bad \in BOOLEAN, NEW err \in BOOLEAN, NEW u \in Uins, NEW hits \in Hits, SearchV5(bad, err, u, hits)
  PROVE  BeginsSearch
  <1> DEFINE row == Exists(u)
  <1> HIDE DEF row
  <1>0. hits \in Seq(Uins) /\ 2 \in Nat /\ 3 \in Nat /\ 4 \in Nat /\ 5 \in Nat /\ OSCAR \in Nat
    BY HitsFound DEF OSCAR
  <1>1. CASE info("MetaLoginInfo", 5, u, handleMetaLoginInfo(err, u, row))
    <2> DEFINE N == Work \cup Affiliations \cup {"interests", "hpcat", "notes"}
    <2>1. "MetaLoginInfo" \in InfoNames
      BY DEF InfoNames
    <2>2. \A q : q.version = 5 /\ q.handler = "MetaLoginInfo" => N \subseteq NotShown(q)
      BY DEF NotShown, OSCAR
    <2>3. sendMetaInfo3(u) \in Fitting(N) /\ sendMetaMore2(u) \in Fitting(N) /\ sendMetaHpageCat(u) \in Fitting(N) /\ sendMetaWork2(u) \in Fitting(N) /\ sendMetaAbout(u) \in Fitting(N) /\ sendMetaInterests(u) \in Fitting(N) /\ sendMetaAffiliations(u) \in Fitting(N)
      <3>1. {"notes"} \in SUBSET ICQInfo /\ {"interests"} \in SUBSET ICQInfo /\ Affiliations \in SUBSET ICQInfo /\ Work \in SUBSET ICQInfo /\ {"hpcat"} \in SUBSET ICQInfo /\ More \in SUBSET ICQInfo /\ (Basic \cup {"auth"}) \in SUBSET ICQInfo /\ {"notes"} \cap {"notes"} \subseteq N /\ {"interests"} \cap {"interests"} \subseteq N /\ Affiliations \cap Affiliations \subseteq N /\ Work \cap Work \subseteq N /\ {"hpcat"} \cap {"hpcat"} \subseteq N /\ More \cap {} \subseteq N /\ (Basic \cup {"auth"}) \cap {} \subseteq N
        BY DEF ICQInfo, Basic, More, Work, Affiliations, Permissions, N
      <3> HIDE DEF N
      <3> QED BY <3>1, Shows, ShowsAll DEF InfoKinds, sendMetaInfo3, sendMetaMore2, sendMetaWork2, sendMetaAbout, sendMetaInterests, sendMetaAffiliations, sendMetaHpageCat
    <2> HIDE DEF N
    <2>4. handleMetaLoginInfo(err, u, row) \in Seq(Fitting(N))
      <3> DEFINE one == <<sendMetaInfo3(u), sendMetaMore2(u), sendMetaHpageCat(u), sendMetaWork2(u)>>
      <3>1. one \in Seq(Fitting(N))
        BY <2>3
      <3>2. rest(u) \in Seq(Fitting(N))
        BY <2>3 DEF rest
      <3> HIDE DEF one
      <3>3. one \o rest(u) \in Seq(Fitting(N))
        BY <3>1, <3>2, ConcatProperties
      <3> QED BY <3>3, Fails DEF handleMetaLoginInfo, sendMetaFail, one
    <2> QED BY <1>0, <1>1, <2>1, <2>2, <2>4, InfoRequested
  <1>2. CASE info("MetaUserFullInfo2", 5, u, handleMetaUserFullInfo2(bad, err, u, row))
    <2> DEFINE N == Work \cup Affiliations \cup {"interests", "hpcat", "notes"}
    <2>1. "MetaUserFullInfo2" \in InfoNames
      BY DEF InfoNames
    <2>2. \A q : q.version = 5 /\ q.handler = "MetaUserFullInfo2" => N \subseteq NotShown(q)
      BY DEF NotShown, OSCAR
    <2>3. sendMetaInfo3(u) \in Fitting(N) /\ sendMetaMore2(u) \in Fitting(N) /\ sendMetaHpageCat(u) \in Fitting(N) /\ sendMetaWork2(u) \in Fitting(N) /\ sendMetaAbout(u) \in Fitting(N) /\ sendMetaInterests(u) \in Fitting(N) /\ sendMetaAffiliations(u) \in Fitting(N)
      <3>1. {"notes"} \in SUBSET ICQInfo /\ {"interests"} \in SUBSET ICQInfo /\ Affiliations \in SUBSET ICQInfo /\ Work \in SUBSET ICQInfo /\ {"hpcat"} \in SUBSET ICQInfo /\ More \in SUBSET ICQInfo /\ (Basic \cup {"auth"}) \in SUBSET ICQInfo /\ {"notes"} \cap {"notes"} \subseteq N /\ {"interests"} \cap {"interests"} \subseteq N /\ Affiliations \cap Affiliations \subseteq N /\ Work \cap Work \subseteq N /\ {"hpcat"} \cap {"hpcat"} \subseteq N /\ More \cap {} \subseteq N /\ (Basic \cup {"auth"}) \cap {} \subseteq N
        BY DEF ICQInfo, Basic, More, Work, Affiliations, Permissions, N
      <3> HIDE DEF N
      <3> QED BY <3>1, Shows, ShowsAll DEF InfoKinds, sendMetaInfo3, sendMetaMore2, sendMetaWork2, sendMetaAbout, sendMetaInterests, sendMetaAffiliations, sendMetaHpageCat
    <2> HIDE DEF N
    <2>4. handleMetaUserFullInfo2(bad, err, u, row) \in Seq(Fitting(N))
      <3> DEFINE one == <<sendMetaInfo3(u), sendMetaMore2(u), sendMetaHpageCat(u), sendMetaWork2(u)>>
      <3>1. one \in Seq(Fitting(N))
        BY <2>3
      <3>2. rest(u) \in Seq(Fitting(N))
        BY <2>3 DEF rest
      <3> HIDE DEF one
      <3>3. one \o rest(u) \in Seq(Fitting(N))
        BY <3>1, <3>2, ConcatProperties
      <3> QED BY <3>3, Fails DEF handleMetaUserFullInfo2, sendMetaFail, one
    <2> QED BY <1>0, <1>2, <2>1, <2>2, <2>4, InfoRequested
  <1>3. CASE info("MetaUserFullInfo", 5, u, handleMetaUserFullInfo(bad, err, u, row))
    <2> DEFINE N == Work \cup Affiliations \cup {"interests", "hpcat", "notes"}
    <2>1. "MetaUserFullInfo" \in InfoNames
      BY DEF InfoNames
    <2>2. \A q : q.version = 5 /\ q.handler = "MetaUserFullInfo" => N \subseteq NotShown(q)
      BY DEF NotShown, OSCAR
    <2>3. sendMetaFullUserInfo(u) \in Fitting(N) /\ sendMetaMore(u) \in Fitting(N) /\ sendMetaHpageCat(u) \in Fitting(N) /\ sendMetaWork(u) \in Fitting(N) /\ sendMetaAbout(u) \in Fitting(N) /\ sendMetaInterests(u) \in Fitting(N) /\ sendMetaAffiliations(u) \in Fitting(N)
      <3>1. {"notes"} \in SUBSET ICQInfo /\ {"interests"} \in SUBSET ICQInfo /\ Affiliations \in SUBSET ICQInfo /\ Work \in SUBSET ICQInfo /\ {"hpcat"} \in SUBSET ICQInfo /\ More \in SUBSET ICQInfo /\ {"names", "email"} \in SUBSET ICQInfo /\ {"notes"} \cap {"notes"} \subseteq N /\ {"interests"} \cap {"interests"} \subseteq N /\ Affiliations \cap Affiliations \subseteq N /\ Work \cap Work \subseteq N /\ {"hpcat"} \cap {"hpcat"} \subseteq N /\ More \cap {} \subseteq N /\ {"names", "email"} \cap {} \subseteq N
        BY DEF ICQInfo, Basic, More, Work, Affiliations, Permissions, N
      <3> HIDE DEF N
      <3> QED BY <3>1, Shows, ShowsAll DEF InfoKinds, sendMetaFullUserInfo, sendMetaMore, sendMetaWork, sendMetaAbout, sendMetaInterests, sendMetaAffiliations, sendMetaHpageCat
    <2> HIDE DEF N
    <2>4. handleMetaUserFullInfo(bad, err, u, row) \in Seq(Fitting(N))
      <3> DEFINE one == <<sendMetaFullUserInfo(u), sendMetaMore(u), sendMetaHpageCat(u), sendMetaWork(u)>>
      <3>1. one \in Seq(Fitting(N))
        BY <2>3
      <3>2. rest(u) \in Seq(Fitting(N))
        BY <2>3 DEF rest
      <3> HIDE DEF one
      <3>3. one \o rest(u) \in Seq(Fitting(N))
        BY <3>1, <3>2, ConcatProperties
      <3> QED BY <3>3, Fails DEF handleMetaUserFullInfo, sendMetaFail, one
    <2> QED BY <1>0, <1>3, <2>1, <2>2, <2>4, InfoRequested
  <1>4. CASE info("MetaUserInfo", 5, u, handleMetaUserInfo(bad, u))
    <2> DEFINE N == {"auth"}
    <2>1. "MetaUserInfo" \in InfoNames
      BY DEF InfoNames
    <2>2. \A q : q.version = 5 /\ q.handler = "MetaUserInfo" => N \subseteq NotShown(q)
      BY DEF NotShown, OSCAR
    <2>3. sendMetaUserInfo(u) \in Fitting(N)
      <3>1. {"names", "email", "gender", "auth"} \in SUBSET ICQInfo /\ {"names", "email", "gender"} \in SUBSET ICQInfo /\ {"names", "email", "gender", "auth"} \ {"names", "email", "gender"} \subseteq N
        BY DEF ICQInfo, Basic, More, Work, Affiliations, Permissions, N
      <3> HIDE DEF N
      <3> QED BY <3>1, Shows, ShowsAll DEF InfoKinds, sendMetaUserInfo
    <2> HIDE DEF N
    <2>4. handleMetaUserInfo(bad, u) \in Seq(Fitting(N))
      BY <2>3, Fails, OnePacket DEF handleMetaUserInfo, sendMetaFail, sendV5InvalidUIN
    <2> QED BY <1>0, <1>4, <2>1, <2>2, <2>4, InfoRequested
  <1>5. CASE info("OldInfoReq", 5, u, handleOldInfoReq(bad, u))
    <2> DEFINE N == {"auth"}
    <2>1. "OldInfoReq" \in InfoNames
      BY DEF InfoNames
    <2>2. \A q : q.version = 5 /\ q.handler = "OldInfoReq" => N \subseteq NotShown(q)
      BY DEF NotShown, OSCAR
    <2>3. sendV5OldStyleInfo(u) \in Fitting(N)
      <3>1. {"names", "email", "auth"} \in SUBSET ICQInfo /\ {"names", "email", "auth"} \cap {"auth"} \subseteq N
        BY DEF ICQInfo, Basic, More, Work, Affiliations, Permissions, N
      <3> HIDE DEF N
      <3> QED BY <3>1, Shows, ShowsAll DEF InfoKinds, sendV5OldStyleInfo
    <2> HIDE DEF N
    <2>4. handleOldInfoReq(bad, u) \in Seq(Fitting(N))
      BY <2>3, Fails, OnePacket DEF handleOldInfoReq, sendMetaFail, sendV5InvalidUIN
    <2> QED BY <1>0, <1>5, <2>1, <2>2, <2>4, InfoRequested
  <1>6. CASE info("OldExtInfoReq", 5, u, handleOldExtInfoReq(bad, err, u, row))
    <2> DEFINE N == {}
    <2>1. "OldExtInfoReq" \in InfoNames
      BY DEF InfoNames
    <2>2. \A q : q.version = 5 /\ q.handler = "OldExtInfoReq" => N \subseteq NotShown(q)
      BY DEF NotShown, OSCAR
    <2>3. sendV5OldStyleInfoExt(u) \in Fitting(N)
      <3>1. {"place", "phone", "gender", "homepage", "notes", "birth"} \in SUBSET ICQInfo /\ {"place", "phone", "gender", "homepage", "notes", "birth"} \cap {} \subseteq N
        BY DEF ICQInfo, Basic, More, Work, Affiliations, Permissions, N
      <3> HIDE DEF N
      <3> QED BY <3>1, Shows, ShowsAll DEF InfoKinds, sendV5OldStyleInfoExt
    <2> HIDE DEF N
    <2>4. handleOldExtInfoReq(bad, err, u, row) \in Seq(Fitting(N))
      BY <2>3, Fails, OnePacket DEF handleOldExtInfoReq, sendMetaFail, sendV5InvalidUIN
    <2> QED BY <1>0, <1>6, <2>1, <2>2, <2>4, InfoRequested
  <1>7. CASE search("OldSearchUIN", 5, handleOldSearchUIN(bad, err, u, row))
    <2>1. "OldSearchUIN" \in SearchNames
      BY DEF SearchNames
    <2>2. handleOldSearchUIN(bad, err, u, row) \in Seq(Quiet)
      BY UserFound, FoundThenEnd DEF handleOldSearchUIN, plainly, sendV5OldSearchFound, sendV5OldSearchEnd
    <2> QED BY <1>0, <1>7, <2>1, <2>2, SearchRequested
  <1>8. CASE search("OldSearch", 5, handleOldSearch)
    <2>1. "OldSearch" \in SearchNames
      BY DEF SearchNames
    <2>2. handleOldSearch \in Seq(Quiet)
      BY Ends, OnePacket DEF handleOldSearch, sendV5OldSearchEnd
    <2> QED BY <1>0, <1>8, <2>1, <2>2, SearchRequested
  <1>9. CASE search("MetaSearchName", 5, handleMetaSearchName(err, hits))
    <2>1. "MetaSearchName" \in SearchNames
      BY DEF SearchNames
    <2>2. handleMetaSearchName(err, hits) \in Seq(Quiet)
      BY <1>0, NamesFound, ResultsQuiet DEF handleMetaSearchName
    <2> QED BY <1>0, <1>9, <2>1, <2>2, SearchRequested
  <1>10. CASE search("MetaSearchEmail", 5, handleMetaSearchEmail(err, hits))
    <2>1. "MetaSearchEmail" \in SearchNames
      BY DEF SearchNames
    <2>2. handleMetaSearchEmail(err, hits) \in Seq(Quiet)
      BY <1>0, NamesFound, ResultsQuiet DEF handleMetaSearchEmail
    <2> QED BY <1>0, <1>10, <2>1, <2>2, SearchRequested
  <1>11. CASE search("MetaSearchUIN", 5, handleMetaSearchUIN(bad, u))
    <2>1. "MetaSearchUIN" \in SearchNames
      BY DEF SearchNames
    <2>2. handleMetaSearchUIN(bad, u) \in Seq(Quiet)
      BY OnePacket, EmptySeq, ResultsQuiet DEF handleMetaSearchUIN
    <2> QED BY <1>0, <1>11, <2>1, <2>2, SearchRequested
  <1>12. CASE search("MetaSearchWhite", 5, handleMetaSearchWhite(bad, err, hits))
    <2>1. "MetaSearchWhite" \in SearchNames
      BY DEF SearchNames
    <2>2. handleMetaSearchWhite(bad, err, hits) \in Seq(Quiet)
      BY WhiteQuiet
    <2> QED BY <1>0, <1>12, <2>1, <2>2, SearchRequested
  <1>13. ASSUME NEW empty \in BOOLEAN, search("MetaSearchWhite2", 5, handleMetaSearchWhite2(bad, empty, err, hits))
        PROVE  BeginsSearch
    <2>1. "MetaSearchWhite2" \in SearchNames
      BY DEF SearchNames
    <2>2. handleMetaSearchWhite2(bad, empty, err, hits) \in Seq(Quiet)
      BY WhiteQuiet
    <2> QED BY <1>0, <1>13, <2>1, <2>2, SearchRequested
  <1>14. CASE search("DirectWhiteSearch", 5, handleDirectWhiteSearch(bad, err, hits))
    <2>1. "DirectWhiteSearch" \in SearchNames
      BY DEF SearchNames
    <2>2. handleDirectWhiteSearch(bad, err, hits) \in Seq(Quiet)
      BY WhiteQuiet DEF handleDirectWhiteSearch
    <2> QED BY <1>0, <1>14, <2>1, <2>2, SearchRequested
  <1>15. CASE search("DirectNameSearch", 5, handleDirectNameSearch(err, hits))
    <2>1. "DirectNameSearch" \in SearchNames
      BY DEF SearchNames
    <2>2. handleDirectNameSearch(err, hits) \in Seq(Quiet)
      BY <1>0, NamesFound, FoundThenEnd DEF handleDirectNameSearch, plainly, sendV5OldSearchFound, sendV5OldSearchEnd
    <2> QED BY <1>0, <1>15, <2>1, <2>2, SearchRequested
  <1>16. CASE search("DirectEmailSearch", 5, handleDirectEmailSearch(err, hits))
    <2>1. "DirectEmailSearch" \in SearchNames
      BY DEF SearchNames
    <2>2. handleDirectEmailSearch(err, hits) \in Seq(Quiet)
      BY <1>0, NamesFound, FoundThenEnd DEF handleDirectEmailSearch, plainly, sendV5OldSearchFound, sendV5OldSearchEnd
    <2> QED BY <1>0, <1>16, <2>1, <2>2, SearchRequested
  <1>17. CASE search("DirectUINSearch", 5, handleDirectUINSearch(bad, err, u, row))
    <2>1. "DirectUINSearch" \in SearchNames
      BY DEF SearchNames
    <2>2. handleDirectUINSearch(bad, err, u, row) \in Seq(Quiet)
      BY UserFound, FoundThenEnd DEF handleDirectUINSearch, plainly, sendV5OldSearchFound, sendV5OldSearchEnd
    <2> QED BY <1>0, <1>17, <2>1, <2>2, SearchRequested
  <1> QED BY <1>1, <1>2, <1>3, <1>4, <1>5, <1>6, <1>7, <1>8, <1>9, <1>10, <1>11, <1>12, <1>13, <1>14, <1>15, <1>16, <1>17 DEF SearchV5, row

LEMMA OSCARSearchBegins ==
  ASSUME Shape, NEW bad \in BOOLEAN, NEW err \in BOOLEAN, NEW u \in Uins, NEW hits \in Hits, SearchOSCAR(bad, err, u, hits)
  PROVE  BeginsSearch
  <1> DEFINE row == Exists(u)
  <1> HIDE DEF row
  <1>0. hits \in Seq(Uins) /\ 2 \in Nat /\ 3 \in Nat /\ 4 \in Nat /\ 5 \in Nat /\ OSCAR \in Nat
    BY HitsFound DEF OSCAR
  <1>1. CASE search("FindByICQName", OSCAR, FindByICQName(err, hits))
    <2>1. "FindByICQName" \in SearchNames
      BY DEF SearchNames
    <2>2. FindByICQName(err, hits) \in Seq(Quiet)
      BY <1>0, ResultsQuiet DEF FindByICQName
    <2> QED BY <1>0, <1>1, <2>1, <2>2, SearchRequested
  <1>2. CASE search("FindByICQInterests", OSCAR, FindByICQInterests(err, hits))
    <2>1. "FindByICQInterests" \in SearchNames
      BY DEF SearchNames
    <2>2. FindByICQInterests(err, hits) \in Seq(Quiet)
      BY <1>0, ResultsQuiet DEF FindByICQInterests
    <2> QED BY <1>0, <1>2, <2>1, <2>2, SearchRequested
  <1>3. CASE search("FindByICQEmail", OSCAR, FindByICQEmail(err, u, row))
    <2>1. "FindByICQEmail" \in SearchNames
      BY DEF SearchNames
    <2>2. FindByICQEmail(err, u, row) \in Seq(Quiet)
      BY UserFound, ResultsQuiet DEF FindByICQEmail
    <2> QED BY <1>0, <1>3, <2>1, <2>2, SearchRequested
  <1>4. CASE search("FindByUIN", OSCAR, FindByUIN(err, u, row))
    <2>1. "FindByUIN" \in SearchNames
      BY DEF SearchNames
    <2>2. FindByUIN(err, u, row) \in Seq(Quiet)
      BY UserFound, ResultsQuiet DEF FindByUIN
    <2> QED BY <1>0, <1>4, <2>1, <2>2, SearchRequested
  <1>5. CASE search("FindByEmail3", OSCAR, FindByEmail3(bad, err, u, row))
    <2>1. "FindByEmail3" \in SearchNames
      BY DEF SearchNames
    <2>2. FindByEmail3(bad, err, u, row) \in Seq(Quiet)
      BY UserFound, ResultsQuiet, EmptySeq DEF FindByEmail3
    <2> QED BY <1>0, <1>5, <2>1, <2>2, SearchRequested
  <1>6. CASE search("FindByUIN2", OSCAR, FindByUIN2(bad, err, u, row))
    <2>1. "FindByUIN2" \in SearchNames
      BY DEF SearchNames
    <2>2. FindByUIN2(bad, err, u, row) \in Seq(Quiet)
      BY UserFound, ResultsQuiet, EmptySeq DEF FindByUIN2
    <2> QED BY <1>0, <1>6, <2>1, <2>2, SearchRequested
  <1>7. CASE search("FindByWhitePages2", OSCAR, FindByWhitePages2(bad, err, hits))
    <2>1. "FindByWhitePages2" \in SearchNames
      BY DEF SearchNames
    <2>2. FindByWhitePages2(bad, err, hits) \in Seq(Quiet)
      BY <1>0, ResultsQuiet, EmptySeq DEF FindByWhitePages2
    <2> QED BY <1>0, <1>7, <2>1, <2>2, SearchRequested
  <1>8. CASE info("FullUserInfo", OSCAR, u, FullUserInfo(err, u, row))
    <2> DEFINE N == {"hpcat"}
    <2>1. "FullUserInfo" \in InfoNames
      BY DEF InfoNames
    <2>2. \A q : q.version = OSCAR /\ q.handler = "FullUserInfo" => N \subseteq NotShown(q)
      BY DEF NotShown, OSCAR
    <2>3. userInfo(u) \in Fitting(N) /\ moreUserInfo(u) \in Fitting(N) /\ extraEmails(u) \in Fitting(N) /\ homepageCat(u) \in Fitting(N) /\ workInfo(u) \in Fitting(N) /\ notes(u) \in Fitting(N) /\ interests(u) \in Fitting(N) /\ affiliations(u) \in Fitting(N)
      <3>1. (Basic \cup {"auth", "webAware"}) \in SUBSET ICQInfo /\ (More \cup {"place"}) \in SUBSET ICQInfo /\ {} \in SUBSET ICQInfo /\ {"hpcat"} \in SUBSET ICQInfo /\ Work \in SUBSET ICQInfo /\ {"notes"} \in SUBSET ICQInfo /\ {"interests"} \in SUBSET ICQInfo /\ Affiliations \in SUBSET ICQInfo /\ (Basic \cup {"auth", "webAware"}) \cap {} \subseteq N /\ (More \cup {"place"}) \cap {} \subseteq N /\ {} \cap {} \subseteq N /\ {"hpcat"} \cap {"hpcat"} \subseteq N /\ Work \cap {} \subseteq N /\ {"notes"} \cap {} \subseteq N /\ {"interests"} \cap {} \subseteq N /\ Affiliations \ Affiliations \subseteq N
        BY DEF ICQInfo, Basic, More, Work, Affiliations, Permissions, N
      <3> HIDE DEF N
      <3> QED BY <3>1, Shows, ShowsAll DEF InfoKinds, userInfo, moreUserInfo, extraEmails, homepageCat, workInfo, notes, interests, affiliations
    <2> HIDE DEF N
    <2>4. FullUserInfo(err, u, row) \in Seq(Fitting(N))
      <3>1. <<userInfo(u), moreUserInfo(u), extraEmails(u), homepageCat(u), workInfo(u), notes(u), interests(u), affiliations(u)>> \in Seq(Fitting(N))
        BY <2>3
      <3> QED BY <3>1, Fails DEF FullUserInfo, sendMetaFail
    <2> QED BY <1>0, <1>8, <2>1, <2>2, <2>4, InfoRequested
  <1>9. CASE info("ShortUserInfo", OSCAR, u, ShortUserInfo(err, u, row))
    <2> DEFINE N == {}
    <2>1. "ShortUserInfo" \in InfoNames
      BY DEF InfoNames
    <2>2. \A q : q.version = OSCAR /\ q.handler = "ShortUserInfo" => N \subseteq NotShown(q)
      BY DEF NotShown, OSCAR
    <2>3. Packet("short", TRUE, u, {"names", "email", "auth"}, {"names", "email", "auth"}) \in Fitting(N)
      <3>1. {"names", "email", "auth"} \in SUBSET ICQInfo /\ {"names", "email", "auth"} \ {"names", "email", "auth"} \subseteq N
        BY DEF ICQInfo, Basic, More, Work, Affiliations, Permissions, N
      <3> HIDE DEF N
      <3> QED BY <3>1, Shows, ShowsAll DEF InfoKinds, N
    <2> HIDE DEF N
    <2>4. ShortUserInfo(err, u, row) \in Seq(Fitting(N))
      <3>1. <<Packet("short", TRUE, u, {"names", "email", "auth"}, {"names", "email", "auth"})>> \in Seq(Fitting(N))
        BY <2>3, OnePacket
      <3> QED BY <3>1, Fails DEF ShortUserInfo, sendMetaFail
    <2> QED BY <1>0, <1>9, <2>1, <2>2, <2>4, InfoRequested
  <1>10. CASE search("XMLReqData", OSCAR, XMLReqData)
    <2>1. "XMLReqData" \in SearchNames
      BY DEF SearchNames
    <2>2. XMLReqData \in Seq(Quiet)
      BY Ends, OnePacket DEF XMLReqData
    <2> QED BY <1>0, <1>10, <2>1, <2>2, SearchRequested
  <1> QED BY <1>1, <1>2, <1>3, <1>4, <1>5, <1>6, <1>7, <1>8, <1>9, <1>10 DEF SearchOSCAR, row

LEMMA SearchBegins ==
  ASSUME Shape, Search
  PROVE  BeginsSearch /\ \A r \in DOMAIN reqs : ~UnderWay(reqs[r])
  <1>1. PICK bad \in BOOLEAN, err \in BOOLEAN, u \in Uins, hits \in Hits :
          SearchOldClients(bad, err, u, hits) \/ SearchV5(bad, err, u, hits) \/ SearchOSCAR(bad, err, u, hits)
    BY DEF Search
  <1>2. BeginsSearch
    BY <1>1, OldSearchBegins, V5SearchBegins, OSCARSearchBegins
  <1> QED BY <1>2 DEF Search

-----------------------------------------------------------------------------
(* A request begins: the others do not notice.                             *)

LEMMA SeenStays ==
  ASSUME Shape, InfoInv, RequestInv, SeenAsSet,
         NEW q \in Requests, NewSearch(q), \A r \in DOMAIN reqs : ~UnderWay(reqs[r]), q.kind = "info",
         NEW p \in DOMAIN reqs, reqs[p].kind = "update", reqs[p].uin = q.uin, ~reqs[p].failed, Alone(p),
         NEW f \in (reqs[p].carries \cap DOMAIN q.seen) \ NotShown(q)
  PROVE  q.seen[f] = p
  <1>1. StoredOf(p, reqs[p]) /\ reqs[p] \in Requests /\ reqs[p].script = <<>>
    <2>1. reqs[p] \in Requests
      BY DEF Shape
    <2> QED BY <2>1 DEF RequestInv, UnderWay
  <1>2. Safe(p, reqs[p], f)
    BY <1>1 DEF StoredOf
  <1>3. Stored(p, q.uin, f)
    BY <1>1, <1>2 DEF Safe, Pending
  <1>4. q.uin \in Uins /\ f \in ICQInfo /\ Exists(q.uin) /\ q.seen[f] = users[q.uin].profile[f]
    BY DEF NewSearch
  <1>5. f # "weak" /\ f # "strong"
    BY <1>4, Fields
  <1> QED BY <1>3, <1>4, <1>5 DEF Stored, value

LEMMA BeginKeeps ==
  ASSUME IInv, NEW q, Begin(q), q \in Requests,
         RegOf(Len(reqs) + 1, q), ToldOf(Len(reqs) + 1, q), UpdateOf(q),
         q.kind = "update" /\ ~q.failed => /\ HasCopy(q) /\ q.overlapped = {}
                                          /\ \A f \in q.carries : Safe(Len(reqs) + 1, q, f),
         q.kind = "info" => NewSearch(q) /\ \A r \in DOMAIN reqs : ~UnderWay(reqs[r])
  PROVE  IInv'
  <1>0. PICK n : n = Len(reqs) + 1
    OBVIOUS
  <1>1. /\ reqs' \in Seq(Requests) /\ n \in Nat /\ DOMAIN reqs' = DOMAIN reqs \cup {n} /\ reqs'[n] = q
        /\ \A i \in DOMAIN reqs : reqs'[i] = reqs[i] /\ i \in Nat /\ i < n
        /\ Len(reqs') = n
    <2>1. reqs \in Seq(Requests) /\ reqs' = Append(reqs, q)
      BY DEF IInv, Shape, Begin
    <2> QED BY <1>0, <2>1, AppendProperties, LenProperties
  <1>2. users' = users /\ freed' = freed /\ errors' = errors
    BY DEF Begin
  <1>3. Shape'
    BY <1>1, <1>2 DEF IInv, Shape
  <1>4. \A i, u : Own(i, u) => Own(i, u)'
    BY <1>2 DEF Own, Exists
  <1>5. \A i, u, f : Stored(i, u, f) => Stored(i, u, f)'
    BY <1>2 DEF Stored, Exists, value
  <1>6. ASSUME NEW i \in DOMAIN reqs
        PROVE  (Alone(i)' => Alone(i))
    BY <1>1 DEF Alone
  <1>7. ASSUME NEW i, NEW p, RegOf(i, p) PROVE RegOf(i, p)'
    BY <1>4, <1>7 DEF RegOf, RegisterOf, PlainOf
  <1>8. ASSUME NEW i, NEW p, ToldOf(i, p) PROVE ToldOf(i, p)'
    BY <1>4, <1>8 DEF ToldOf
  <1>9. ASSUME NEW i, NEW p, NEW f, Safe(i, p, f) PROVE Safe(i, p, f)'
    BY <1>5, <1>9 DEF Safe, Copied
  <1>10. ASSUME NEW p, UpdateOf(p) PROVE UpdateOf(p)'
    BY <1>10 DEF UpdateOf
  <1>11. ASSUME NEW i \in DOMAIN reqs
         PROVE  (RegOf(i, reqs[i]) /\ ToldOf(i, reqs[i]) /\ UpdateOf(reqs[i]) /\ StoredOf(i, reqs[i]))'
    <2>1. PICK p : p = reqs[i]
      OBVIOUS
    <2>2. RegOf(i, p) /\ ToldOf(i, p) /\ UpdateOf(p) /\ StoredOf(i, p)
      BY <2>1 DEF IInv, RequestInv
    <2>3. StoredOf(i, p)'
      <3>1. \A f : Safe(i, p, f) => Safe(i, p, f)'
        BY <1>9
      <3> QED BY <1>6, <2>2, <3>1 DEF StoredOf, HasCopy, UnderWay
    <2>4. reqs'[i] = p
      BY <1>1, <2>1
    <2> QED BY <1>7, <1>8, <1>10, <2>2, <2>3, <2>4
  <1>12. (RegOf(n, reqs[n]) /\ ToldOf(n, reqs[n]) /\ UpdateOf(reqs[n]) /\ StoredOf(n, reqs[n]))'
    <2>1. RegOf(n, q) /\ ToldOf(n, q) /\ UpdateOf(q)
      BY <1>0
    <2>2. q.kind = "update" /\ ~q.failed => /\ HasCopy(q) /\ q.overlapped = {}
                                          /\ \A f \in q.carries : Safe(n, q, f)
      BY <1>0
    <2>3. \A f : Safe(n, q, f) => Safe(n, q, f)'
      BY <1>9
    <2>4. StoredOf(n, q)'
      BY <2>2, <2>3 DEF StoredOf, HasCopy
    <2> QED BY <1>1, <1>7, <1>8, <1>10, <2>1, <2>4
  <1>13. RequestInv'
    BY <1>1, <1>11, <1>12 DEF RequestInv
  <1>14. InfoInv'
    <2> SUFFICES ASSUME NEW a \in DOMAIN reqs', NEW b \in DOMAIN reqs', a < b, reqs'[b].kind = "info"
                 PROVE  ~UnderWay(reqs[a])'
      BY DEF InfoInv
    <2>1. a \in DOMAIN reqs /\ reqs'[a] = reqs[a]
      BY <1>1
    <2>2. CASE b \in DOMAIN reqs
      BY <1>1, <2>1, <2>2 DEF IInv, InfoInv, UnderWay
    <2>3. CASE b = n
      BY <1>1, <2>1, <2>3 DEF UnderWay
    <2> QED BY <1>1, <2>2, <2>3
  <1>15. SeenAsSet'
    <2> SUFFICES ASSUME NEW a \in DOMAIN reqs', NEW b \in DOMAIN reqs',
                        a < b, reqs'[b].kind = "info", reqs'[b].version = reqs'[a].version,
                        reqs'[b].uin = reqs'[a].uin, reqs'[a].kind = "update", ~reqs'[a].failed,
                        Last(reqs'[a].told).kind = "ok",
                        \A o \in (DOMAIN reqs') \ {a, b} : reqs'[o].uin # reqs'[a].uin,
                        NEW f, f \in reqs'[a].carries, f \in DOMAIN reqs'[b].seen, f \notin NotShown(reqs'[b])
                 PROVE  reqs'[b].seen[f] = a
      BY DEF SeenAsSet, NotShown
    <2>1. a \in DOMAIN reqs /\ reqs'[a] = reqs[a]
      BY <1>1
    <2>2. CASE b \in DOMAIN reqs
      <3>1. reqs'[b] = reqs[b] /\ \A o \in (DOMAIN reqs) \ {a, b} : reqs[o].uin # reqs[a].uin
        BY <1>1, <2>1, <2>2
      <3> QED BY <2>1, <2>2, <3>1 DEF IInv, SeenAsSet
    <2>3. CASE b = n
      <3>1. reqs'[b] = q
        BY <1>1, <2>3
      <3>2. Alone(a)
        BY <1>1, <2>1, <2>3 DEF Alone
      <3>3. f \in (reqs[a].carries \cap DOMAIN q.seen) \ NotShown(q)
        BY <2>1, <3>1
      <3> QED BY <2>1, <3>1, <3>2, <3>3, SeenStays DEF IInv
    <2> QED BY <1>1, <2>2, <2>3
  <1> QED BY <1>3, <1>13, <1>14, <1>15 DEF IInv

LEMMA UpdateKeeps == ASSUME IInv, BeginsUpdate PROVE IInv'
  <1>1. PICK q : NewUpdate(q) /\ Begin(q)
    BY DEF BeginsUpdate
  <1>2. /\ q \in Requests /\ q.kind = "update" /\ ~Registers(q) /\ q.uin \in Uins
        /\ q.copy = None /\ q.failed = FALSE /\ q.overlapped = {}
        /\ q.told \in {<<>>, <<Ack>>} /\ q.onError \in {None, <<>>, Refused}
        /\ q.script \in Seq(UpdateSteps) /\ SayLast(q.script) /\ Keeps(q.script) /\ Carries(q.script, q.carries)
    BY <1>1 DEF NewUpdate, Answers
  <1>3. q.script \in Seq(PlainSteps)
    BY <1>2, SeqMonotonic DEF UpdateSteps
  <1>4. q.onError \in {None} \cup Seq(PlainSteps)
    <2>1. Say(Reply("500")) \in PlainSteps
      BY Called, AccountSteps
    <2> QED BY <1>2, <2>1, OnePacket, EmptySeq DEF Refused
  <1>5. RegOf(Len(reqs) + 1, q)
    BY <1>2, <1>3, <1>4 DEF RegOf, PlainOf
  <1>6. ToldOf(Len(reqs) + 1, q)
    BY <1>2, Said DEF ToldOf
  <1>7. UpdateOf(q)
    BY <1>2 DEF UpdateOf
  <1>8. HasCopy(q)
    BY <1>2 DEF HasCopy, Keeps
  <1>9. \A f \in q.carries : Safe(Len(reqs) + 1, q, f)
    BY <1>2 DEF Safe, Carries
  <1> QED BY <1>1, <1>2, <1>5, <1>6, <1>7, <1>8, <1>9, BeginKeeps

LEMMA AccountKeeps == ASSUME IInv, BeginsAccount PROVE IInv'
  <1>1. PICK q : NewAccount(q) /\ Begin(q)
    BY DEF BeginsAccount
  <1>2. RegOf(Len(reqs) + 1, q)
    BY <1>1 DEF NewAccount, RegOf, RegisterOf, PlainOf
  <1>3. ToldOf(Len(reqs) + 1, q)
    BY <1>1, Said DEF NewAccount, ToldOf
  <1>4. q \in Requests /\ q.kind = "account"
    BY <1>1 DEF NewAccount
  <1>5. UpdateOf(q)
    BY <1>4 DEF UpdateOf
  <1> QED BY <1>1, <1>2, <1>3, <1>4, <1>5, BeginKeeps

LEMMA SearchKeeps ==
  ASSUME IInv, BeginsSearch, \A r \in DOMAIN reqs : ~UnderWay(reqs[r])
  PROVE  IInv'
  <1>1. PICK q : NewSearch(q) /\ Begin(q)
    BY DEF BeginsSearch
  <1>2. /\ q \in Requests /\ q.kind \in {"search", "info"} /\ ~Registers(q)
        /\ q.script = <<>> /\ q.onError = None /\ q.told \in Seq(Quiet)
    BY <1>1 DEF NewSearch
  <1>3. RegOf(Len(reqs) + 1, q)
    BY <1>2, EmptySeq DEF RegOf, PlainOf
  <1>4. ToldOf(Len(reqs) + 1, q)
    <2>1. \A i \in DOMAIN q.told : q.told[i] \in Quiet
      BY <1>2, LenProperties, ElementOfSeq
    <2> QED BY <2>1 DEF ToldOf, Quiet
  <1>5. UpdateOf(q) /\ q.kind # "update"
    BY <1>2 DEF UpdateOf
  <1> QED BY <1>1, <1>2, <1>3, <1>4, <1>5, BeginKeeps

-----------------------------------------------------------------------------
(* A request goes on: what the others rely on stays.                       *)

\* How request p looks as m after a step of another that is n now and wrote F.
GoesOn(m, p, n, F) ==
  /\ m \in Requests /\ p \in Requests
  /\ m.kind = p.kind /\ m.handler = p.handler /\ m.version = p.version /\ m.uin = p.uin
  /\ m.onError = p.onError /\ m.carries = p.carries /\ m.told = p.told /\ m.script = p.script
  /\ m.copy = p.copy /\ m.failed = p.failed /\ m.seen = p.seen
  /\ m.overlapped = IF p.uin = n.uin /\ UnderWay(p) THEN p.overlapped \cup F ELSE p.overlapped

LEMMA Others ==
  ASSUME Shape, NEW r \in DOMAIN reqs, NEW n \in Requests, NEW F \in SUBSET everything, goOn(r, n, F)
  PROVE  /\ reqs' \in Seq(Requests) /\ DOMAIN reqs' = DOMAIN reqs /\ reqs'[r] = n
         /\ \A i \in DOMAIN reqs \ {r} : GoesOn(reqs'[i], reqs[i], n, F)
  <1>1. reqs \in Seq(Requests) /\ DOMAIN reqs = 1..Len(reqs) /\ Len(reqs) \in Nat /\ \A i \in DOMAIN reqs : reqs[i] \in Requests
    BY LenProperties, ElementOfSeq DEF Shape
  <1>2. PICK s : s = reqs'
    OBVIOUS
  <1>3. s = [i \in DOMAIN reqs |->
               IF i = r THEN n
               ELSE IF reqs[i].uin = n.uin /\ UnderWay(reqs[i])
                    THEN [reqs[i] EXCEPT !.stale = @ \cup F, !.overlapped = @ \cup F]
                    ELSE reqs[i]]
    BY <1>2 DEF goOn
  <1>4. ASSUME NEW i \in DOMAIN reqs \ {r}, NEW m, m = s[i], NEW p, p = reqs[i]
        PROVE  GoesOn(m, p, n, F)
    <2>1. p \in Requests
      BY <1>1, <1>4
    <2>2. m = IF p.uin = n.uin /\ UnderWay(p)
              THEN [p EXCEPT !.stale = @ \cup F, !.overlapped = @ \cup F] ELSE p
      BY <1>3, <1>4
    <2> QED BY <2>1, <2>2 DEF Requests, GoesOn
  <1>5. DOMAIN s = DOMAIN reqs /\ s[r] = n
    BY <1>3
  <1>6. s \in [1..Len(reqs) -> Requests]
    <2>1. \A i \in DOMAIN reqs : s[i] \in Requests
      BY <1>4, <1>5 DEF GoesOn
    <2>2. s = [i \in DOMAIN reqs |-> s[i]]
      BY <1>3
    <2> HIDE <1>3, <1>4
    <2> QED BY <1>1, <2>1, <2>2
  <1>7. s \in Seq(Requests)
    BY <1>1, <1>6, AsSeq
  <1> QED BY <1>2, <1>4, <1>5, <1>7

LEMMA StepKeeps ==
  ASSUME IInv, NEW r \in DOMAIN reqs, UnderWay(reqs[r]),
         NEW n \in Requests, NEW F \in SUBSET everything, goOn(r, n, F),
         n.kind = reqs[r].kind, n.handler = reqs[r].handler, n.version = reqs[r].version, n.carries = reqs[r].carries,
         n.uin = reqs[r].uin \/ (reqs[r].uin = 0 /\ reqs[r].kind = "account" /\ F = {}),
         users' \in [Uins -> {None} \cup Rows], freed' \subseteq Uins, errors' \in Nat,
         \A u \in Uins : u # n.uin => users'[u] = users[u],
         n.uin \in Uins => \A f \in everything \ F : \A i : Stored(i, n.uin, f) => Stored(i, n.uin, f)',
         \A i, u : Own(i, u) => Own(i, u)',
         RegOf(r, n)', ToldOf(r, n)', UpdateOf(n),
         n.kind = "update" /\ ~n.failed =>
           /\ ~reqs[r].failed /\ HasCopy(n) /\ n.overlapped = reqs[r].overlapped /\ n.uin = reqs[r].uin
           /\ \A f \in n.carries : Safe(r, reqs[r], f) => Safe(r, n, f)'
  PROVE  IInv'
  <1>1. /\ reqs' \in Seq(Requests) /\ DOMAIN reqs' = DOMAIN reqs /\ reqs'[r] = n
        /\ \A i \in DOMAIN reqs \ {r} : GoesOn(reqs'[i], reqs[i], n, F)
    BY Others DEF IInv
  <1>2. Shape'
    BY <1>1 DEF Shape
  <1> USE DEF GoesOn
  <1>3. \A i \in DOMAIN reqs : RegOf(i, reqs[i]) /\ ToldOf(i, reqs[i]) /\ UpdateOf(reqs[i]) /\ StoredOf(i, reqs[i])
    BY DEF IInv, RequestInv
  <1>4. \A i \in DOMAIN reqs : reqs'[i].uin = reqs[i].uin \/ reqs[i].uin = 0
    BY <1>1
  <1>5. ASSUME NEW i \in DOMAIN reqs, reqs[i].kind = "update", Alone(i)'
        PROVE  Alone(i) /\ (i # r => reqs[i].uin # n.uin)
    <2>1. reqs[i].uin \in Uins /\ reqs[i].uin # 0
      BY <1>3, <1>5, DirectoryAssumption DEF UpdateOf
    <2>2. \A o \in DOMAIN reqs \ {i} : reqs'[o].uin # reqs'[i].uin
      BY <1>1, <1>5 DEF Alone
    <2>3. i # r => reqs'[i].uin = reqs[i].uin
      BY <1>1
    <2>4. i = r => reqs'[i].uin = reqs[i].uin
      BY <1>1, <1>5
    <2>5. \A o \in DOMAIN reqs \ {i} : reqs[o].uin # reqs[i].uin
      BY <1>4, <2>1, <2>2, <2>3, <2>4
    <2> QED BY <1>1, <2>2, <2>3, <2>5 DEF Alone
  <1>6. ASSUME NEW i \in DOMAIN reqs \ {r}
        PROVE  (RegOf(i, reqs[i]) /\ ToldOf(i, reqs[i]) /\ UpdateOf(reqs[i]) /\ StoredOf(i, reqs[i]))'
    <2>1. PICK m : m = reqs'[i]
      OBVIOUS
    <2>2. PICK p : p = reqs[i]
      OBVIOUS
    <2>3. /\ m \in Requests /\ p \in Requests
          /\ m.kind = p.kind /\ m.handler = p.handler /\ m.version = p.version /\ m.uin = p.uin
          /\ m.onError = p.onError /\ m.carries = p.carries /\ m.told = p.told /\ m.script = p.script
          /\ m.copy = p.copy /\ m.failed = p.failed /\ m.seen = p.seen
          /\ m.overlapped = IF p.uin = n.uin /\ UnderWay(p) THEN p.overlapped \cup F ELSE p.overlapped
      BY <1>1, <2>1, <2>2
    <2>4. RegOf(i, p) /\ ToldOf(i, p) /\ UpdateOf(p) /\ StoredOf(i, p)
      BY <1>3, <2>2
    <2>5. RegOf(i, m)'
      BY <2>3, <2>4 DEF RegOf, RegisterOf, PlainOf, Registers
    <2>6. ToldOf(i, m)'
      BY <2>3, <2>4 DEF ToldOf
    <2>7. UpdateOf(m)'
      BY <2>3, <2>4 DEF UpdateOf
    <2>8. StoredOf(i, m)'
      <3> SUFFICES ASSUME p.kind = "update", ~p.failed
                   PROVE  /\ HasCopy(m) /\ (Alone(i)' => m.overlapped = {})
                          /\ UnderWay(m) \/ Alone(i)' => \A f \in m.carries \ m.overlapped : Safe(i, m, f)'
        BY <2>3 DEF StoredOf, HasCopy, UnderWay
      <3>1. HasCopy(m)
        BY <2>3, <2>4 DEF StoredOf, HasCopy
      <3>2. Alone(i)' => Alone(i) /\ p.uin # n.uin
        BY <1>5, <2>2
      <3>3. Alone(i)' => m.overlapped = {}
        BY <2>3, <2>4, <3>2 DEF StoredOf
      <3>4. ASSUME UnderWay(m) \/ Alone(i)', NEW f \in m.carries \ m.overlapped
            PROVE  Safe(i, m, f)'
        <4>1. f \in p.carries \ p.overlapped /\ f \in everything /\ p.uin \in Uins
          BY <2>3, <2>4, <3>4 DEF Requests, UpdateOf
        <4>2. Safe(i, p, f)
          BY <2>3, <2>4, <3>2, <3>4, <4>1 DEF StoredOf, UnderWay
        <4>3. p.uin = n.uin => f \notin F
          BY <2>3, <3>2, <3>4 DEF UnderWay
        <4>4. Stored(i, p.uin, f) => Stored(i, p.uin, f)'
          BY <4>1, <4>3 DEF Stored, Exists
        <4>5. (Stored(i, p.uin, f)' \/ Pending(p.script, f)) => Safe(i, m, f)'
          BY <2>3, <4>2 DEF Safe, Copied
        <4> QED BY <4>2, <4>4, <4>5 DEF Safe
      <3> QED BY <3>1, <3>3, <3>4
    <2> QED BY <2>1, <2>5, <2>6, <2>7, <2>8
  <1>7. (RegOf(r, reqs[r]) /\ ToldOf(r, reqs[r]) /\ UpdateOf(reqs[r]) /\ StoredOf(r, reqs[r]))'
    <2>1. PICK p : p = reqs[r]
      OBVIOUS
    <2>2. StoredOf(r, p) /\ UnderWay(p)
      BY <1>3, <2>1
    <2>3. StoredOf(r, n)'
      <3> SUFFICES ASSUME n.kind = "update", ~n.failed
                   PROVE  /\ HasCopy(n) /\ (Alone(r)' => n.overlapped = {})
                          /\ \A f \in n.carries \ n.overlapped : Safe(r, n, f)'
        BY DEF StoredOf, HasCopy, UnderWay
      <3>1. HasCopy(n)
        OBVIOUS
      <3>2. Alone(r)' => n.overlapped = {}
        BY <1>5, <2>1, <2>2 DEF StoredOf
      <3>3. \A f \in n.carries \ n.overlapped : Safe(r, n, f)'
        BY <2>1, <2>2 DEF StoredOf
      <3> QED BY <3>1, <3>2, <3>3
    <2>4. UpdateOf(n)'
      BY DEF UpdateOf
    <2> QED BY <1>1, <2>3, <2>4
  <1>8. RequestInv'
    BY <1>1, <1>6, <1>7 DEF RequestInv
  <1>9. ASSUME NEW b \in DOMAIN reqs, reqs'[b].kind = "info"
        PROVE  b # r /\ reqs[b].kind = "info" /\ \A a \in DOMAIN reqs : a < b => a # r
    <2>1. b # r
      <3>1. reqs[r].kind = "info" => reqs[r].script = <<>>
        BY <1>3 DEF RegOf
      <3> QED BY <1>1, <1>9, <3>1 DEF UnderWay
    <2>2. reqs[b].kind = "info"
      BY <1>1, <1>9, <2>1
    <2> QED BY <2>1, <2>2 DEF IInv, InfoInv
  <1>10. InfoInv'
    <2> SUFFICES ASSUME NEW a \in DOMAIN reqs, NEW b \in DOMAIN reqs, a < b, reqs'[b].kind = "info"
                 PROVE  ~UnderWay(reqs'[a])
      BY <1>1 DEF InfoInv, UnderWay
    <2>1. a # r /\ reqs[b].kind = "info"
      BY <1>9
    <2>2. ~UnderWay(reqs[a])
      BY <2>1 DEF IInv, InfoInv
    <2> QED BY <1>1, <2>1, <2>2 DEF UnderWay
  <1>11. SeenAsSet'
    <2> SUFFICES ASSUME NEW a \in DOMAIN reqs, NEW b \in DOMAIN reqs,
                        a < b, reqs'[b].kind = "info", reqs'[b].version = reqs'[a].version,
                        reqs'[b].uin = reqs'[a].uin, reqs'[a].kind = "update", ~reqs'[a].failed,
                        Last(reqs'[a].told).kind = "ok",
                        \A o \in (DOMAIN reqs) \ {a, b} : reqs'[o].uin # reqs'[a].uin,
                        NEW f, f \in reqs'[a].carries, f \in DOMAIN reqs'[b].seen, f \notin NotShown(reqs'[b])
                 PROVE  reqs'[b].seen[f] = a
      BY <1>1 DEF SeenAsSet, NotShown
    <2>1. a # r /\ b # r
      BY <1>9
    <2>2. PICK p : p = reqs[a]
      OBVIOUS
    <2>3. PICK s : s = reqs[b]
      OBVIOUS
    <2>4. PICK pp : pp = reqs'[a]
      OBVIOUS
    <2>5. PICK ss : ss = reqs'[b]
      OBVIOUS
    <2>6. /\ pp.version = p.version /\ pp.uin = p.uin /\ pp.kind = p.kind /\ pp.failed = p.failed
          /\ pp.told = p.told /\ pp.carries = p.carries
          /\ ss.version = s.version /\ ss.uin = s.uin /\ ss.kind = s.kind /\ ss.seen = s.seen /\ ss.handler = s.handler
      BY <1>1, <2>1, <2>2, <2>3, <2>4, <2>5
    <2>7. p.uin \in Uins /\ p.uin # 0
      BY <1>3, <2>2, <2>4, <2>6, DirectoryAssumption DEF UpdateOf
    <2>8. \A o \in (DOMAIN reqs) \ {a, b} : reqs[o].uin # p.uin
      <3> SUFFICES ASSUME NEW o \in (DOMAIN reqs) \ {a, b} PROVE reqs[o].uin # p.uin
        OBVIOUS
      <3>1. reqs'[o].uin # p.uin
        BY <2>4, <2>6
      <3> QED BY <1>4, <2>7, <3>1
    <2>9. f \in (p.carries \cap DOMAIN s.seen) \ NotShown(s)
      BY <2>4, <2>5, <2>6 DEF NotShown
    <2>10. s.seen[f] = a
      BY <2>2, <2>3, <2>4, <2>5, <2>6, <2>8, <2>9 DEF IInv, SeenAsSet
    <2> QED BY <2>5, <2>6, <2>10
  <1> QED BY <1>2, <1>8, <1>10, <1>11 DEF IInv

-----------------------------------------------------------------------------
(* A script without its first step.                                        *)

LEMMA Tails ==
  ASSUME NEW S, NEW st \in Seq(S), st # <<>>
  PROVE  /\ Tail(st) \in Seq(S) /\ Head(st) \in S /\ Head(st) = st[1] /\ 1 \in DOMAIN st
         /\ Len(Tail(st)) = Len(st) - 1 /\ Len(st) \in Nat /\ DOMAIN st = 1..Len(st)
         /\ DOMAIN Tail(st) = 1..(Len(st) - 1)
         /\ \A i \in DOMAIN Tail(st) : i + 1 \in DOMAIN st /\ Tail(st)[i] = st[i + 1]
  <1>1. Head(st) \in S /\ Tail(st) \in Seq(S) /\ Len(Tail(st)) = Len(st) - 1
        /\ \A i \in 1..Len(Tail(st)) : Tail(st)[i] = st[i + 1]
    BY HeadTailProperties
  <1>2. Len(st) \in Nat /\ DOMAIN st = 1..Len(st) /\ DOMAIN Tail(st) = 1..Len(Tail(st)) /\ Len(st) # 0
    BY <1>1, LenProperties, EmptySeq
  <1> QED BY <1>1, <1>2

\* t is st without its first step h, which is over.
Shifted(st, h, t) ==
  /\ t \in Seq(UpdateSteps) /\ h \in UpdateSteps
  /\ SayLast(st) => SayLast(t) /\ (h.do = "say" => t = <<>>)
  /\ \A f : Pending(st, f) => Sets(h, f) \/ Pending(t, f)
  /\ \A f : Pending(t, f) => Pending(st, f)
  /\ \A i \in DOMAIN t : i + 1 \in DOMAIN st /\ t[i] = st[i + 1] /\ t[i] \in UpdateSteps
  /\ \A i \in DOMAIN t : \A f :
       ReadBefore(st, i + 1, f) => ReadBefore(t, i, f) \/ (h.do = "read" /\ ~Pending(st, f))
  /\ 1 \in DOMAIN st /\ h = st[1] /\ \A f : ~ReadBefore(st, 1, f)

LEMMA Shift ==
  ASSUME NEW st \in Seq(UpdateSteps), st # <<>>, NEW h, h = Head(st), NEW t, t = Tail(st)
  PROVE  Shifted(st, h, t)
  <1>1. PICK N : N = Len(st)
    OBVIOUS
  <1>2. /\ t \in Seq(UpdateSteps) /\ h \in UpdateSteps /\ h = st[1] /\ 1 \in DOMAIN st
        /\ N \in Nat /\ DOMAIN st = 1..N /\ DOMAIN t = 1..(N - 1) /\ Len(t) = N - 1
        /\ \A i \in DOMAIN t : i + 1 \in DOMAIN st /\ t[i] = st[i + 1]
    BY <1>1, Tails
  <1>3. \A i \in DOMAIN t : t[i] \in UpdateSteps
    BY <1>2, ElementOfSeq
  <1>4. ASSUME NEW i \in DOMAIN st
        PROVE  i = 1 \/ (i - 1 \in DOMAIN t /\ t[i - 1] = st[i])
    <2>1. CASE i # 1
      <3>1. i \in Int /\ i - 1 \in 1..(N - 1) /\ (i - 1) + 1 = i
        BY <1>2, <2>1
      <3> QED BY <1>2, <3>1
    <2> QED BY <2>1
  <1>5. SayLast(st) => SayLast(t) /\ (h.do = "say" => t = <<>>)
    <2> SUFFICES ASSUME SayLast(st) PROVE SayLast(t) /\ (h.do = "say" => t = <<>>)
      OBVIOUS
    <2>1. ASSUME NEW i \in DOMAIN t, t[i].do = "say" PROVE i = Len(t)
      <3>1. i + 1 = N
        BY <1>1, <1>2, <2>1 DEF SayLast
      <3> QED BY <1>2, <2>1, <3>1
    <2>2. ASSUME h.do = "say" PROVE t = <<>>
      <3>1. 1 = N
        BY <1>1, <1>2, <2>2 DEF SayLast
      <3>2. Len(t) = 0
        BY <1>2, <3>1
      <3> QED BY <1>2, <3>2, EmptySeq
    <2> QED BY <2>1, <2>2 DEF SayLast
  <1>6. ASSUME NEW f, Pending(st, f) PROVE Sets(h, f) \/ Pending(t, f)
    <2>1. PICK i \in DOMAIN st : Sets(st[i], f)
      BY <1>6 DEF Pending
    <2> QED BY <1>2, <1>4, <2>1 DEF Pending
  <1>7. ASSUME NEW f, Pending(t, f) PROVE Pending(st, f)
    BY <1>2, <1>7 DEF Pending
  <1>8. ASSUME NEW i \in DOMAIN t, NEW f, ReadBefore(st, i + 1, f)
        PROVE  ReadBefore(t, i, f) \/ (h.do = "read" /\ ~Pending(st, f))
    <2>1. PICK k \in 1..((i + 1) - 1) : st[k].do = "read" /\ \A j \in k..Len(st) : ~Sets(st[j], f)
      BY <1>8 DEF ReadBefore
    <2>2. i \in Int /\ i \in 1..(N - 1) /\ k \in Int /\ k \in 1..i /\ k \in DOMAIN st
      BY <1>2, <2>1
    <2>3. CASE k = 1
      <3>1. \A j \in DOMAIN st : ~Sets(st[j], f)
        BY <1>1, <1>2, <2>1, <2>3
      <3> QED BY <1>2, <2>1, <2>3, <3>1 DEF Pending
    <2>4. CASE k # 1
      <3>1. k - 1 \in 1..(i - 1) /\ t[k - 1].do = "read"
        BY <1>4, <2>1, <2>2, <2>4
      <3>2. ASSUME NEW j \in (k - 1)..Len(t) PROVE ~Sets(t[j], f)
        <4>1. j \in DOMAIN t /\ j + 1 \in k..Len(st)
          BY <1>1, <1>2, <2>2, <2>4
        <4> QED BY <1>2, <2>1, <4>1
      <3> QED BY <3>1, <3>2 DEF ReadBefore
    <2> QED BY <2>3, <2>4
  <1>9. \A f : ~ReadBefore(st, 1, f)
    BY DEF ReadBefore
  <1> QED BY <1>2, <1>3, <1>5, <1>6, <1>7, <1>8, <1>9 DEF Shifted

\* An update goes on after a statement that did what it should.
LEMMA UpdateStep ==
  ASSUME NEW r, NEW q \in Requests, q.kind = "update", UpdateOf(q), ~q.failed, HasCopy(q), q.script # <<>>,
         NEW h, h = Head(q.script),
         NEW n \in Requests, n.kind = "update", ~n.failed, n.onError = q.onError,
         n.script = Tail(q.script), n.uin = q.uin, n.carries = q.carries,
         IF h.do = "read" THEN n.copy # None ELSE n.copy = q.copy
  PROVE  /\ UpdateOf(n) /\ HasCopy(n)
         /\ h.do = "write" /\ h.how = "kept" => q.copy # None
         /\ \A f \in n.carries :
              /\ Safe(r, q, f)
              /\ Sets(h, f) => Stored(r, q.uin, f)'
              /\ Stored(r, q.uin, f) /\ (Overwrites(h, f) => h.how # "over" /\ q.copy # None /\ q.copy[f] = r)
                   => Stored(r, q.uin, f)'
              /\ h.do = "read" /\ f \in ICQInfo /\ Stored(r, q.uin, f) => n.copy[f] = r
              => Safe(r, n, f)'
  <1>1. PICK st : st = q.script
    OBVIOUS
  <1>2. PICK t : t = Tail(q.script)
    OBVIOUS
  <1>3. st \in Seq(UpdateSteps) /\ SayLast(st) /\ q.uin \in Uins /\ q.onError \in {None, <<>>, Refused}
    BY <1>1 DEF UpdateOf
  <1>4. /\ t \in Seq(UpdateSteps) /\ h \in UpdateSteps /\ SayLast(t)
        /\ \A f : Pending(st, f) => Sets(h, f) \/ Pending(t, f)
        /\ \A f : Pending(t, f) => Pending(st, f)
        /\ \A i \in DOMAIN t : i + 1 \in DOMAIN st /\ t[i] = st[i + 1] /\ t[i] \in UpdateSteps
        /\ \A i \in DOMAIN t : \A f :
              ReadBefore(st, i + 1, f) => ReadBefore(t, i, f) \/ (h.do = "read" /\ ~Pending(st, f))
        /\ 1 \in DOMAIN st /\ h = st[1] /\ \A f : ~ReadBefore(st, 1, f)
    <2>1. st \in Seq(UpdateSteps) /\ st # <<>> /\ h = Head(st) /\ t = Tail(st)
      BY <1>1, <1>2, <1>3
    <2>2. Shifted(st, h, t)
      BY <2>1, Shift
    <2> QED BY <1>3, <2>2 DEF Shifted
  <1>5. UpdateOf(n)
    BY <1>2, <1>3, <1>4 DEF UpdateOf
  <1>6. HasCopy(n)
    <2> SUFFICES ASSUME NEW i \in DOMAIN t, t[i].do = "write", t[i].how = "kept"
                 PROVE  n.copy # None \/ \E k \in 1..(i - 1) : t[k].do = "read"
      BY <1>2 DEF HasCopy
    <2>1. PICK m : m = i + 1
      OBVIOUS
    <2>2. m \in DOMAIN st /\ st[m].do = "write" /\ st[m].how = "kept"
      BY <1>4, <2>1
    <2>3. q.copy # None \/ \E k \in 1..(m - 1) : st[k].do = "read"
      BY <1>1, <2>2 DEF HasCopy
    <2>4. i \in Int /\ i \in 1..Len(t)
      BY <1>4, LenProperties
    <2>5. CASE h.do = "read" \/ q.copy # None
      BY <2>5
    <2>6. ASSUME NEW k \in 1..(m - 1), st[k].do = "read", h.do # "read"
          PROVE  \E l \in 1..(i - 1) : t[l].do = "read"
      <3>1. k # 1 /\ k \in Int /\ k - 1 \in 1..(i - 1) /\ (k - 1) + 1 = k
        BY <1>4, <2>1, <2>4, <2>6
      <3>2. k - 1 \in DOMAIN t
        BY <1>4, <2>4, <3>1, LenProperties
      <3>3. t[k - 1] = st[k]
        BY <1>4, <3>1, <3>2
      <3> QED BY <2>6, <3>1, <3>3
    <2> QED BY <2>3, <2>5, <2>6
  <1>7. h.do = "write" /\ h.how = "kept" => q.copy # None
    BY <1>1, <1>4 DEF HasCopy
  <1>8. ASSUME NEW f \in n.carries, Safe(r, q, f),
               Sets(h, f) => Stored(r, q.uin, f)',
               Stored(r, q.uin, f) /\ (Overwrites(h, f) => h.how # "over" /\ q.copy # None /\ q.copy[f] = r)
                 => Stored(r, q.uin, f)',
               h.do = "read" /\ f \in ICQInfo /\ Stored(r, q.uin, f) => n.copy[f] = r
        PROVE  Safe(r, n, f)'
    <2>1. Stored(r, q.uin, f) \/ Pending(st, f)
      BY <1>1, <1>8 DEF Safe
    <2>2. \A i \in DOMAIN st : Overwrites(st[i], f) => st[i].how # "over" /\ (ReadBefore(st, i, f) \/ Copied(r, q, f))
      BY <1>1, <1>8 DEF Safe
    <2>3. Overwrites(h, f) => h.how # "over" /\ Copied(r, q, f)
      BY <1>4, <2>2
    <2>4. Stored(r, q.uin, f)' \/ Pending(t, f)
      BY <1>4, <1>8, <2>1, <2>3 DEF Copied
    <2>5. ASSUME NEW i \in DOMAIN t, Overwrites(t[i], f)
          PROVE  t[i].how # "over" /\ (ReadBefore(t, i, f) \/ Copied(r, n, f))
      <3>1. f \in ICQInfo
        BY <1>4, <2>5 DEF Overwrites, UpdateSteps, PlainSteps, Steps
      <3>2. t[i].how # "over" /\ (ReadBefore(st, i + 1, f) \/ Copied(r, q, f))
        BY <1>4, <2>2, <2>5
      <3>3. CASE ReadBefore(t, i, f)
        BY <3>2, <3>3
      <3>4. CASE ~Pending(st, f) /\ h.do = "read"
        BY <1>2, <1>4, <1>8, <2>1, <3>1, <3>2, <3>4 DEF Copied
      <3>5. CASE Copied(r, q, f)
        <4>1. ~Pending(st, f) /\ q.copy # None /\ q.copy[f] = r
          BY <1>1, <3>5 DEF Copied
        <4>2. n.copy # None /\ n.copy[f] = r
          BY <1>8, <2>1, <3>1, <4>1
        <4> QED BY <1>2, <1>4, <3>2, <4>1, <4>2 DEF Copied
      <3> QED BY <1>4, <3>2, <3>3, <3>4, <3>5
    <2> QED BY <1>2, <2>4, <2>5 DEF Safe, Copied
  <1> QED BY <1>5, <1>6, <1>7, <1>8

LEMMA Three == ASSUME NEW a, NEW b, NEW c PROVE <<a, b>> \o <<c>> = <<a, b, c>>
  <1>1. PICK s : s = <<a, b>> \o <<c>>
    OBVIOUS
  <1>2. PICK t : t = <<a, b, c>>
    OBVIOUS
  <1>3. <<a, b>> \in Seq({a, b, c}) /\ c \in {a, b, c} /\ Len(<<a, b>>) = 2 /\ <<a, b>>[1] = a /\ <<a, b>>[2] = b
    OBVIOUS
  <1>4. s \in Seq({a, b, c}) /\ Len(s) = 3 /\ s[1] = a /\ s[2] = b /\ s[3] = c
    BY <1>1, <1>3, Longer
  <1>5. t \in Seq({a, b, c}) /\ Len(t) = 3 /\ t[1] = a /\ t[2] = b /\ t[3] = c
    BY <1>2
  <1>6. \A i \in 1..Len(s) : s[i] = t[i]
    BY <1>4, <1>5
  <1>7. s = t
    BY <1>4, <1>5, <1>6, SeqEqual
  <1> QED BY <1>1, <1>2, <1>7

\* The scripts of a registration.
LEMMA Scripts ==
  /\ RegisterNewUser \o Registered # <<>> /\ <<InsertUser>> \o Registered # <<>> /\ Registered # <<>>
  /\ Head(RegisterNewUser \o Registered) = generateNewUIN
  /\ Tail(RegisterNewUser \o Registered) = <<InsertUser>> \o Registered
  /\ Head(<<InsertUser>> \o Registered) = InsertUser /\ Tail(<<InsertUser>> \o Registered) = Registered
  /\ Head(Registered) = Say(Reply("new")) /\ Tail(Registered) = <<>>
  /\ Head(NotConnected) = Say(Reply("notConnected")) /\ Tail(NotConnected) = <<>>
  /\ Head(Refused) = Say(Reply("500")) /\ Tail(Refused) = <<>>
  <1>1. PICK a : a = generateNewUIN
    OBVIOUS
  <1>2. PICK b : b = InsertUser
    OBVIOUS
  <1>3. PICK c : c = Say(Reply("new"))
    OBVIOUS
  <1>4. <<b>> \o <<c>> = <<b, c>>
    BY Pair
  <1>5. <<a, b>> \o <<c>> = <<a, b, c>>
    BY Three
  <1>6. \A w : Head(<<w>>) = w /\ Tail(<<w>>) = <<>>
    OBVIOUS
  <1>7. Head(<<a, b, c>>) = a /\ Tail(<<a, b, c>>) = <<b, c>> /\ <<a, b, c>> # <<>>
    OBVIOUS
  <1>8. Head(<<b, c>>) = b /\ Tail(<<b, c>>) = <<c>> /\ <<b, c>> # <<>> /\ <<c>> # <<>>
    OBVIOUS
  <1>9. RegisterNewUser \o Registered = <<a, b, c>> /\ <<InsertUser>> \o Registered = <<b, c>> /\ Registered = <<c>>
    BY <1>1, <1>2, <1>3, <1>4, <1>5 DEF RegisterNewUser, Registered
  <1> QED BY <1>1, <1>2, <1>3, <1>6, <1>7, <1>8, <1>9 DEF NotConnected, Refused

-----------------------------------------------------------------------------
(* A request goes on: its own part.                                        *)

\* Which step a request may be at.
LEMMA StepOf ==
  ASSUME NEW r, NEW q \in Requests, RegOf(r, q), UnderWay(q), NEW h, h = Head(q.script)
  PROVE  /\ h \in Steps /\ Tail(q.script) \in Seq(Steps) /\ q.kind \notin {"info", "search"}
         /\ ~Registers(q) => /\ h \in PlainSteps /\ q.uin \in Uins /\ Tail(q.script) \in Seq(PlainSteps)
                             /\ q.onError \in {None} \cup Seq(PlainSteps)
         /\ Registers(q) =>
              /\ q.kind = "account" /\ q.onError \in {<<>>, NotConnected}
              /\ \/ h.do = "generate" /\ q.uin = 0 /\ Tail(q.script) = <<InsertUser>> \o Registered
                 \/ h.do = "insert" /\ q.uin \in Uins /\ Tail(q.script) = Registered
                 \/ h.do = "say" /\ h.packets[1] \in Packets /\ Own(r, q.uin) /\ Tail(q.script) = <<>>
                 \/ h.do = "say" /\ h.packets[1] \in Quiet /\ Tail(q.script) = <<>>
  <1>1. q.script \in Seq(Steps) /\ q.script # <<>>
    BY DEF Requests, UnderWay
  <1>2. h \in Steps /\ Tail(q.script) \in Seq(Steps) /\ q.kind \notin {"info", "search"}
    BY <1>1, Tails DEF RegOf
  <1>3. CASE ~Registers(q)
    <2>1. q.script \in Seq(PlainSteps) /\ q.uin \in Uins /\ q.onError \in {None} \cup Seq(PlainSteps)
      BY <1>1, <1>3 DEF RegOf, PlainOf
    <2>2. h \in PlainSteps /\ Tail(q.script) \in Seq(PlainSteps)
      BY <1>1, <2>1, Tails
    <2> QED BY <1>2, <1>3, <2>1, <2>2
  <1>4. CASE Registers(q)
    <2>1. RegisterOf(r, q)
      BY <1>4 DEF RegOf
    <2>2. generateNewUIN.do = "generate" /\ InsertUser.do = "insert"
      BY AccountSteps
    <2>3. /\ Say(Reply("new")).do = "say" /\ Say(Reply("new")).packets[1] \in Packets
          /\ Say(Reply("notConnected")).do = "say" /\ Say(Reply("notConnected")).packets[1] \in Quiet
      BY AccountWords, Said, Spoken DEF Quiet
    <2>4. CASE q.script = RegisterNewUser \o Registered /\ q.uin = 0
      BY <1>2, <1>4, <2>1, <2>2, <2>4, Scripts DEF RegisterOf
    <2>5. CASE q.script = <<InsertUser>> \o Registered /\ q.uin \in Uins
      BY <1>2, <1>4, <2>1, <2>2, <2>5, Scripts DEF RegisterOf
    <2>6. CASE q.script = Registered /\ Own(r, q.uin)
      BY <1>2, <1>4, <2>1, <2>3, <2>6, Scripts DEF RegisterOf
    <2>7. CASE q.script = NotConnected
      BY <1>2, <1>4, <2>1, <2>3, <2>7, Scripts DEF RegisterOf
    <2> QED BY <1>1, <2>1, <2>4, <2>5, <2>6, <2>7 DEF RegisterOf
  <1> QED BY <1>3, <1>4

\* The rest of an update is one of an update.
LEMMA RestOfUpdate ==
  ASSUME NEW q \in Requests, UpdateOf(q), UnderWay(q),
         NEW n, n.kind = q.kind, n.uin = q.uin, n.onError = q.onError, n.failed = q.failed, n.script = Tail(q.script)
  PROVE  UpdateOf(n)
  <1> SUFFICES ASSUME q.kind = "update" PROVE UpdateOf(n)
    BY DEF UpdateOf
  <1>1. q.uin \in Uins /\ q.script \in Seq(UpdateSteps) /\ SayLast(q.script) /\ q.onError \in {None, <<>>, Refused}
        /\ (q.failed /\ q.onError # None => q.script \in {<<>>, Refused}) /\ q.script # <<>>
    BY DEF UpdateOf, UnderWay
  <1>2. Shifted(q.script, Head(q.script), Tail(q.script))
    BY <1>1, Shift
  <1>3. n.script \in Seq(UpdateSteps) /\ SayLast(n.script)
    BY <1>1, <1>2 DEF Shifted
  <1>4. q.failed /\ q.onError # None => n.script = <<>>
    BY <1>1, Scripts
  <1> QED BY <1>1, <1>3, <1>4 DEF UpdateOf

\* A statement fails: the request goes on, or answers and ends.
LEMMA FailKeeps ==
  ASSUME IInv, NEW r \in DOMAIN reqs, UnderWay(reqs[r]), Head(reqs[r].script).do # "say",
         NEW n \in {goneWrong(reqs[r]), [goneWrong(reqs[r]) EXCEPT !.copy = None]}, goOn(r, n, {}),
         users' = users, freed' = freed, errors' \in Nat
  PROVE  IInv'
  <1>1. PICK q : q = reqs[r]
    OBVIOUS
  <1>2. q \in Requests /\ RegOf(r, q) /\ ToldOf(r, q) /\ UpdateOf(q) /\ UnderWay(q)
    BY <1>1 DEF IInv, Shape, RequestInv
  <1>3. PICK h : h = Head(q.script)
    OBVIOUS
  <1>4. PICK t : t = Tail(q.script)
    OBVIOUS
  <1>5. PICK s : s = IF q.onError = None THEN t ELSE q.onError
    OBVIOUS
  <1>6. t \in Seq(Steps) /\ q.kind \notin {"info", "search"}
    BY <1>2, <1>4, StepOf
  <1>7. s \in Seq(Steps)
    BY <1>2, <1>5, <1>6 DEF Requests
  <1>8. /\ n \in Requests /\ n.kind = q.kind /\ n.handler = q.handler /\ n.version = q.version /\ n.uin = q.uin
        /\ n.onError = q.onError /\ n.carries = q.carries /\ n.told = q.told /\ n.script = s /\ n.failed = TRUE
    <2>1. goneWrong(q) = [q EXCEPT !.script = s, !.failed = TRUE]
      BY <1>2, <1>4, <1>5 DEF goneWrong, Requests
    <2>2. PICK g : g = goneWrong(q)
      OBVIOUS
    <2>3. /\ g \in Requests /\ g.kind = q.kind /\ g.handler = q.handler /\ g.version = q.version /\ g.uin = q.uin
          /\ g.onError = q.onError /\ g.carries = q.carries /\ g.told = q.told /\ g.script = s /\ g.failed = TRUE
      BY <1>2, <1>7, <2>1, <2>2 DEF Requests
    <2>4. n = g \/ n = [g EXCEPT !.copy = None]
      BY <1>1, <2>2
    <2> HIDE <2>2
    <2> QED BY <2>3, <2>4 DEF Requests
  <1>9. \A i, u : Own(i, u) => Own(i, u)'
    BY DEF Own, Exists
  <1>10. RegOf(r, n)'
    <2>1. CASE Registers(q)
      <3>1. q.kind = "account" /\ q.onError \in {<<>>, NotConnected}
        BY <1>2, <2>1, StepOf
      <3>2. q.onError # None
        BY <3>1, NoneAssumption DEF NotConnected
      <3>3. RegisterOf(r, n)'
        BY <1>5, <1>8, <3>1, <3>2 DEF RegisterOf
      <3> QED BY <1>8, <2>1, <3>1, <3>3 DEF RegOf, Registers
    <2>2. CASE ~Registers(q)
      <3>1. t \in Seq(PlainSteps) /\ q.uin \in Uins /\ q.onError \in {None} \cup Seq(PlainSteps)
        BY <1>2, <1>4, <2>2, StepOf
      <3>2. PlainOf(n)
        BY <1>5, <1>8, <3>1 DEF PlainOf
      <3> QED BY <1>6, <1>8, <2>2, <3>2 DEF RegOf, Registers, PlainOf
    <2> QED BY <2>1, <2>2
  <1>11. ToldOf(r, n)'
    BY <1>2, <1>8, <1>9 DEF ToldOf
  <1>12. UpdateOf(n)
    <2> SUFFICES ASSUME q.kind = "update" PROVE UpdateOf(n)
      BY <1>8 DEF UpdateOf
    <2>1. q.uin \in Uins /\ q.script \in Seq(UpdateSteps) /\ SayLast(q.script) /\ q.onError \in {None, <<>>, Refused}
      BY <1>2 DEF UpdateOf
    <2>2. Shifted(q.script, h, t)
      BY <1>2, <1>3, <1>4, <2>1, Shift DEF UnderWay
    <2>3. <<>> \in Seq(UpdateSteps) /\ SayLast(<<>>)
      BY EmptySeq DEF SayLast
    <2>4. Refused \in Seq(UpdateSteps) /\ SayLast(Refused)
      <3>1. Say(Reply("500")) \in UpdateSteps
        BY Called, Said, Spoken
      <3> QED BY <3>1 DEF Refused, SayLast
    <2> QED BY <1>5, <1>8, <2>1, <2>2, <2>3, <2>4 DEF UpdateOf, Shifted
  <1>13. \A i, u, f : Stored(i, u, f) => Stored(i, u, f)'
    BY DEF Stored, Exists, value
  <1>14. users' \in [Uins -> {None} \cup Rows] /\ freed' \subseteq Uins
    BY DEF IInv, Shape
  <1> QED BY <1>1, <1>2, <1>8, <1>9, <1>10, <1>11, <1>12, <1>13, <1>14, StepKeeps

\* A step succeeds: the request goes on after it.
LEMMA NextKeeps ==
  ASSUME IInv, NEW r \in DOMAIN reqs, NEW q, q = reqs[r], UnderWay(q), NEW h, h = Head(q.script),
         NEW n \in Requests, NEW F \in SUBSET everything, goOn(r, n, F),
         n.kind = q.kind, n.handler = q.handler, n.version = q.version, n.carries = q.carries,
         n.onError = q.onError, n.failed = q.failed, n.overlapped = q.overlapped, n.script = Tail(q.script),
         n.uin = q.uin \/ (Registers(q) /\ q.uin = 0 /\ F = {}),
         users' \in [Uins -> {None} \cup Rows], freed' \subseteq Uins, errors' = errors,
         \A u \in Uins : u # q.uin => users'[u] = users[u],
         q.uin \in Uins => \A f \in everything \ F : \A i : Stored(i, q.uin, f) => Stored(i, q.uin, f)',
         q.uin \notin Uins => users' = users,
         \A i, u : Own(i, u) => Own(i, u)',
         Registers(q) => RegisterOf(r, n)',
         ToldOf(r, n)',
         q.kind = "update" /\ ~q.failed =>
           /\ IF h.do = "read" THEN n.copy # None ELSE n.copy = q.copy
           /\ \A f \in q.carries :
                /\ Sets(h, f) => Stored(r, q.uin, f)'
                /\ Stored(r, q.uin, f) /\ (Overwrites(h, f) => h.how # "over" /\ q.copy # None /\ q.copy[f] = r)
                     => Stored(r, q.uin, f)'
                /\ h.do = "read" /\ f \in ICQInfo /\ Stored(r, q.uin, f) => n.copy[f] = r
  PROVE  IInv'
  <1>1. q \in Requests /\ RegOf(r, q) /\ UpdateOf(q) /\ StoredOf(r, q) /\ errors' \in Nat
    BY DEF IInv, Shape, RequestInv
  <1>2. q.kind \notin {"info", "search"}
    BY <1>1, StepOf
  <1>3. RegOf(r, n)'
    <2>1. CASE Registers(q)
      BY <1>2, <2>1 DEF RegOf, Registers
    <2>2. CASE ~Registers(q)
      <3>1. Tail(q.script) \in Seq(PlainSteps) /\ q.uin \in Uins /\ q.onError \in {None} \cup Seq(PlainSteps)
        BY <1>1, <2>2, StepOf
      <3>2. PlainOf(n)
        BY <2>2, <3>1 DEF PlainOf
      <3> QED BY <1>2, <2>2, <3>2 DEF RegOf, Registers, PlainOf
    <2> QED BY <2>1, <2>2
  <1>4. Registers(q) => q.kind = "account"
    BY <1>1 DEF RegOf, RegisterOf
  <1>5. UpdateOf(n)
    <2>1. n.kind = "update" => n.uin = q.uin
      BY <1>4
    <2>2. CASE n.uin = q.uin
      BY <1>1, <2>2, RestOfUpdate
    <2>3. CASE n.kind # "update"
      BY <2>3 DEF UpdateOf
    <2> QED BY <2>1, <2>2, <2>3
  <1>6. ASSUME q.kind = "update", ~q.failed
        PROVE  HasCopy(n) /\ \A f \in n.carries : Safe(r, q, f) => Safe(r, n, f)'
    <2>1. n.uin = q.uin /\ HasCopy(q) /\ q.script # <<>>
      BY <1>1, <1>4, <1>6 DEF StoredOf, UnderWay
    <2>2. IF h.do = "read" THEN n.copy # None ELSE n.copy = q.copy
      BY <1>6
    <2>3. HasCopy(n)
      BY <1>1, <1>6, <2>1, <2>2, UpdateStep
    <2>4. ASSUME NEW f \in n.carries, Safe(r, q, f)
          PROVE  Safe(r, n, f)'
      <3>1. /\ Sets(h, f) => Stored(r, q.uin, f)'
            /\ Stored(r, q.uin, f) /\ (Overwrites(h, f) => h.how # "over" /\ q.copy # None /\ q.copy[f] = r)
                 => Stored(r, q.uin, f)'
            /\ h.do = "read" /\ f \in ICQInfo /\ Stored(r, q.uin, f) => n.copy[f] = r
        BY <1>6, <2>4
      <3> QED BY <1>1, <1>6, <2>1, <2>2, <2>4, <3>1, UpdateStep
    <2> QED BY <2>3, <2>4
  <1>7. \A u \in Uins : u # n.uin => users'[u] = users[u]
    <2>1. CASE n.uin = q.uin
      BY <2>1
    <2>2. CASE Registers(q) /\ q.uin = 0
      BY <2>2, DirectoryAssumption
    <2> QED BY <2>1, <2>2
  <1>8. n.uin \in Uins => \A f \in everything \ F : \A i : Stored(i, n.uin, f) => Stored(i, n.uin, f)'
    <2>1. CASE n.uin = q.uin
      BY <2>1
    <2>2. CASE Registers(q) /\ q.uin = 0
      <3>1. users' = users
        BY <2>2, DirectoryAssumption
      <3> QED BY <3>1 DEF Stored, Exists, value
    <2> QED BY <2>1, <2>2
  <1>9. n.uin = reqs[r].uin \/ (reqs[r].uin = 0 /\ reqs[r].kind = "account" /\ F = {})
    BY <1>4
  <1>10. n.kind = "update" /\ ~n.failed =>
           /\ ~reqs[r].failed /\ HasCopy(n) /\ n.overlapped = reqs[r].overlapped /\ n.uin = reqs[r].uin
           /\ \A f \in n.carries : Safe(r, reqs[r], f) => Safe(r, n, f)'
    BY <1>4, <1>6
  <1> QED BY <1>1, <1>3, <1>5, <1>7, <1>8, <1>9, <1>10, StepKeeps

-----------------------------------------------------------------------------
(* The steps.                                                              *)

\* What a request at a step is.
LEMMA AtStep ==
  ASSUME IInv, NEW r \in DOMAIN reqs, UnderWay(reqs[r]), NEW q, q = reqs[r], NEW h, h = Head(q.script)
  PROVE  /\ q \in Requests /\ RegOf(r, q) /\ ToldOf(r, q) /\ UpdateOf(q) /\ StoredOf(r, q)
         /\ h \in Steps /\ Tail(q.script) \in Seq(Steps)
         /\ ~Registers(q) => h \in PlainSteps /\ q.uin \in Uins
         /\ h.do \notin {"generate", "insert", "say"} => ~Registers(q)
         /\ q.kind = "update" => h \in UpdateSteps
         /\ \A u \in Uins : Exists(u) => users[u] \in Rows
         /\ users \in [Uins -> {None} \cup Rows] /\ freed \subseteq Uins
  <1>1. /\ q \in Requests /\ RegOf(r, q) /\ ToldOf(r, q) /\ UpdateOf(q) /\ StoredOf(r, q)
        /\ users \in [Uins -> {None} \cup Rows] /\ freed \subseteq Uins
    BY DEF IInv, Shape, RequestInv
  <1>2. \A u \in Uins : Exists(u) => users[u] \in Rows
    BY <1>1 DEF Exists
  <1>3. /\ h \in Steps /\ Tail(q.script) \in Seq(Steps)
        /\ ~Registers(q) => h \in PlainSteps /\ q.uin \in Uins
        /\ h.do \notin {"generate", "insert", "say"} => ~Registers(q)
    BY <1>1, StepOf
  <1>4. q.kind = "update" => h \in UpdateSteps
    BY <1>1, Tails DEF UpdateOf, UnderWay
  <1> QED BY <1>1, <1>2, <1>3, <1>4

\* Where no row changes, nothing stored does.
LEMMA SameRows ==
  ASSUME users' = users, freed' = freed
  PROVE  /\ \A i, u : Own(i, u) => Own(i, u)'
         /\ \A i, u, f : Stored(i, u, f) => Stored(i, u, f)'
  BY DEF Own, Stored, Exists, value

LEMMA ReadKeeps == ASSUME IInv, NEW r \in DOMAIN reqs, ReadRow(r) PROVE IInv'
  <1>1. PICK q : q = reqs[r]
    OBVIOUS
  <1>2. PICK h : h = Head(q.script)
    OBVIOUS
  <1>3. UnderWay(q) /\ h.do = "read" /\ users' = users /\ freed' = freed /\ errors' = errors
    BY <1>1, <1>2 DEF ReadRow, atStep
  <1>4. /\ q \in Requests /\ ToldOf(r, q) /\ h \in Steps /\ Tail(q.script) \in Seq(Steps) /\ ~Registers(q) /\ q.uin \in Uins
        /\ Exists(q.uin) => users[q.uin] \in Rows
        /\ users \in [Uins -> {None} \cup Rows] /\ freed \subseteq Uins
    BY <1>1, <1>2, <1>3, AtStep
  <1>5. CASE ~Exists(q.uin)
    <2>1. goOn(r, [goneWrong(q) EXCEPT !.copy = None], {})
      BY <1>1, <1>5 DEF ReadRow
    <2>2. errors' \in Nat
      BY <1>3 DEF IInv, Shape
    <2> QED BY <1>1, <1>2, <1>3, <2>1, <2>2, FailKeeps
  <1>6. CASE Exists(q.uin)
    <2>1. PICK n : n = [next(q) EXCEPT !.copy = users[q.uin].profile, !.stale = {}]
      OBVIOUS
    <2>2. goOn(r, n, {})
      BY <1>1, <1>6, <2>1 DEF ReadRow
    <2>3. PICK row : row = users[q.uin]
      OBVIOUS
    <2>4. row \in Rows /\ row.profile \in Profiles /\ row.profile # None
      BY <1>4, <1>6, <2>3, NoneAssumption DEF Rows
    <2>5. n = [q EXCEPT !.script = Tail(q.script), !.copy = row.profile, !.stale = {}]
      BY <1>4, <2>1, <2>3 DEF next, Requests
    <2>6. /\ n \in Requests /\ n.kind = q.kind /\ n.handler = q.handler /\ n.version = q.version /\ n.uin = q.uin
          /\ n.onError = q.onError /\ n.carries = q.carries /\ n.told = q.told /\ n.script = Tail(q.script)
          /\ n.failed = q.failed /\ n.overlapped = q.overlapped /\ n.copy = row.profile
      BY <1>4, <2>4, <2>5 DEF Requests
    <2>7. ToldOf(r, n)'
      BY <1>3, <1>4, <2>6, SameRows DEF ToldOf
    <2>8. \A f \in ICQInfo : Stored(r, q.uin, f) => n.copy[f] = r
      BY <2>3, <2>6, Fields DEF Stored, value
    <2>9. \A f : ~Sets(h, f)
      BY <1>3 DEF Sets
    <2>10. users' \in [Uins -> {None} \cup Rows] /\ freed' \subseteq Uins /\ {} \in SUBSET everything
      BY <1>3, <1>4
    <2> HIDE <2>1, <2>3, <2>5
    <2> QED BY <1>1, <1>2, <1>3, <1>4, <2>2, <2>4, <2>6, <2>7, <2>8, <2>9, <2>10, SameRows, NextKeeps
  <1> QED BY <1>5, <1>6

\* The request without its first step.
LEMMA Next1 ==
  ASSUME NEW q \in Requests, Tail(q.script) \in Seq(Steps), NEW n, n = next(q)
  PROVE  /\ n \in Requests /\ n.kind = q.kind /\ n.handler = q.handler /\ n.version = q.version /\ n.uin = q.uin
         /\ n.onError = q.onError /\ n.carries = q.carries /\ n.told = q.told /\ n.script = Tail(q.script)
         /\ n.failed = q.failed /\ n.overlapped = q.overlapped /\ n.copy = q.copy
  BY DEF next, Requests

\* A row is changed: who owned a number still does, unless the row is another's now.
LEMMA RowChanged ==
  ASSUME Shape, NEW u \in Uins, NEW row \in Rows, users' = [users EXCEPT ![u] = row], freed' = freed,
         Exists(u) => users[u].owner = row.owner
  PROVE  /\ users' \in [Uins -> {None} \cup Rows]
         /\ \A i, v : Own(i, v) => Own(i, v)'
         /\ \A i, f : Stored(i, u, f)' <=> value(row, f) = i
         /\ \A v \in Uins : v # u => users'[v] = users[v]
  <1>1. users \in [Uins -> {None} \cup Rows] /\ row # None
    BY NoneAssumption DEF Shape
  <1>2. /\ users' \in [Uins -> {None} \cup Rows] /\ users'[u] = row
        /\ \A v \in Uins : v # u => users'[v] = users[v]
    BY <1>1
  <1>3. ASSUME NEW i, NEW v, Own(i, v) PROVE Own(i, v)'
    BY <1>1, <1>2, <1>3 DEF Own, Exists
  <1>4. \A i, f : Stored(i, u, f)' <=> value(row, f) = i
    <2>1. \A i, f : Stored(i, u, f)' <=> users'[u] # None /\ value(users'[u], f) = i
      BY DEF Stored, Exists, value
    <2> QED BY <1>1, <1>2, <2>1
  <1> QED BY <1>2, <1>3, <1>4

LEMMA WriteKeeps == ASSUME IInv, NEW r \in DOMAIN reqs, WriteRow(r) PROVE IInv'
  <1>1. PICK q : q = reqs[r]
    OBVIOUS
  <1>2. PICK h : h = Head(q.script)
    OBVIOUS
  <1>3. UnderWay(q) /\ h.do = "write" /\ freed' = freed /\ errors' = errors
    BY <1>1, <1>2 DEF WriteRow, atStep
  <1>4. /\ q \in Requests /\ ToldOf(r, q) /\ StoredOf(r, q) /\ h \in Steps /\ Tail(q.script) \in Seq(Steps)
        /\ ~Registers(q) /\ q.uin \in Uins /\ h \in PlainSteps
        /\ Exists(q.uin) => users[q.uin] \in Rows
        /\ users \in [Uins -> {None} \cup Rows] /\ freed \subseteq Uins /\ r \in Int /\ Shape
    <2>1. r \in Int /\ Shape
      BY DEF IInv, Shape
    <2> QED BY <1>1, <1>2, <1>3, <2>1, AtStep
  <1>5. h.part \subseteq ICQInfo /\ h.fields \subseteq h.part /\ h.part \subseteq everything
    BY <1>3, <1>4, Fields DEF PlainSteps, Steps
  <1>6. PICK n : n = next(q)
    OBVIOUS
  <1>7. /\ n \in Requests /\ n.kind = q.kind /\ n.handler = q.handler /\ n.version = q.version /\ n.uin = q.uin
        /\ n.onError = q.onError /\ n.carries = q.carries /\ n.told = q.told /\ n.script = Tail(q.script)
        /\ n.failed = q.failed /\ n.overlapped = q.overlapped /\ n.copy = q.copy
    BY <1>4, <1>6, Next1
  <1>8. q.kind = "update" /\ ~q.failed => h.how # "kept" \/ q.copy # None
    <2>1. q.script # <<>> /\ q.script \in Seq(Steps)
      BY <1>3, <1>4 DEF UnderWay, Requests
    <2>2. 1 \in DOMAIN q.script /\ h = q.script[1]
      BY <1>2, <2>1, Tails
    <2> QED BY <1>3, <1>4, <2>2 DEF StoredOf, HasCopy
  <1>9. CASE h.how = "kept" /\ q.copy = None
    <2>1. goOn(r, n, {}) /\ users' = users
      BY <1>1, <1>2, <1>6, <1>9 DEF WriteRow
    <2>2. ToldOf(r, n)'
      BY <1>3, <1>4, <1>7, <2>1, SameRows DEF ToldOf
    <2>3. users' \in [Uins -> {None} \cup Rows] /\ freed' \subseteq Uins /\ {} \in SUBSET everything
      BY <1>3, <1>4, <2>1
    <2>4. ~(q.kind = "update" /\ ~q.failed)
      BY <1>8, <1>9
    <2> HIDE <1>6
    <2> QED BY <1>1, <1>2, <1>3, <1>4, <1>7, <2>1, <2>2, <2>3, <2>4, SameRows, NextKeeps
  <1>10. CASE ~(h.how = "kept" /\ q.copy = None) /\ ~Exists(q.uin)
    <2>1. goOn(r, goneWrong(q), {}) /\ users' = users
      BY <1>1, <1>2, <1>10 DEF WriteRow
    <2>2. errors' \in Nat
      BY <1>3, <1>4 DEF Shape
    <2> QED BY <1>1, <1>2, <1>3, <2>1, <2>2, FailKeeps
  <1>11. CASE ~(h.how = "kept" /\ q.copy = None) /\ Exists(q.uin)
    <2>1. PICK u : u = q.uin
      OBVIOUS
    <2>2. PICK old : old = users[u]
      OBVIOUS
    <2>3. PICK w : w = written(r, h, q.copy, old.profile)
      OBVIOUS
    <2>4. PICK row : row = [old EXCEPT !.profile = w]
      OBVIOUS
    <2>5. u \in Uins /\ old \in Rows
      BY <1>4, <1>11, <2>1, <2>2
    <2>6. goOn(r, n, h.part) /\ users' = [users EXCEPT ![u] = row]
      <3>1. users' = [users EXCEPT ![q.uin].profile = written(r, h, q.copy, @)] /\ goOn(r, next(q), h.part)
        BY <1>1, <1>2, <1>11 DEF WriteRow
      <3>2. users' = [users EXCEPT ![u] = [users[u] EXCEPT !.profile = written(r, h, q.copy, users[u].profile)]]
        BY <2>1, <3>1
      <3> QED BY <1>6, <2>2, <2>3, <2>4, <3>1, <3>2
    <2>7. w = [f \in ICQInfo |-> IF f \in h.fields THEN r
                     ELSE IF f \notin h.part THEN old.profile[f]
                     ELSE IF h.how = "over" \/ q.copy = None THEN Blank ELSE q.copy[f]]
      BY <2>3 DEF written
    <2>8. w \in Profiles
      <3>1. old.profile \in Profiles /\ q.copy \in {None} \cup Profiles /\ Blank \in Int
        BY <1>4, <2>5 DEF Rows, Requests, Blank
      <3>2. \A f \in ICQInfo : old.profile[f] \in Int /\ (q.copy # None => q.copy[f] \in Int)
        BY <3>1 DEF Profiles
      <3> QED BY <1>4, <2>7, <3>1, <3>2 DEF Profiles
    <2>9. row \in Rows /\ row.owner = old.owner /\ row.weak = old.weak /\ row.strong = old.strong /\ row.profile = w
      BY <2>4, <2>5, <2>8 DEF Rows
    <2>10. /\ users' \in [Uins -> {None} \cup Rows]
           /\ \A i, v : Own(i, v) => Own(i, v)'
           /\ \A i, f : Stored(i, u, f)' <=> value(row, f) = i
           /\ \A v \in Uins : v # u => users'[v] = users[v]
      BY <1>3, <1>4, <2>2, <2>5, <2>6, <2>9, RowChanged
    <2>11. \A i, f : Stored(i, u, f) => value(old, f) = i
      BY <2>2 DEF Stored
    <2>12. \A f \in everything \ h.part : value(row, f) = value(old, f)
      BY <1>5, <2>7, <2>9 DEF value, everything
    <2>13. \A f \in everything \ h.part : \A i : Stored(i, u, f) => Stored(i, u, f)'
      BY <2>10, <2>11, <2>12
    <2>14. \A f : Sets(h, f) => value(row, f) = r
      BY <1>3, <1>5, <2>7, <2>9, Fields DEF Sets, value
    <2>15. \A f : Sets(h, f) => Stored(r, u, f)'
      BY <2>10, <2>14
    <2>16. ASSUME NEW f \in q.carries, Stored(r, u, f), Overwrites(h, f) => h.how # "over" /\ q.copy # None /\ q.copy[f] = r
           PROVE  Stored(r, u, f)'
      <3>1. f \in everything
        BY <1>4 DEF Requests
      <3>2. CASE f \in h.fields
        BY <1>3, <2>15, <3>2 DEF Sets
      <3>3. CASE f \in h.part \ h.fields
        <4>1. Overwrites(h, f)
          BY <1>3, <3>3 DEF Overwrites
        <4>2. f \in ICQInfo /\ w[f] = r
          BY <1>5, <2>7, <2>16, <3>3, <4>1
        <4>3. value(row, f) = r
          BY <2>9, <4>2, Fields DEF value
        <4> QED BY <2>10, <4>3
      <3>4. CASE f \notin h.part
        BY <2>13, <2>16, <3>1, <3>4
      <3> QED BY <3>2, <3>3, <3>4
    <2>17. ToldOf(r, n)'
      BY <1>4, <1>7, <2>10 DEF ToldOf
    <2>18. freed' \subseteq Uins /\ h.part \in SUBSET everything
      BY <1>3, <1>4, <1>5
    <2>19. users' \in [Uins -> {None} \cup Rows] /\ \A v \in Uins : v # q.uin => users'[v] = users[v]
      BY <2>1, <2>10
    <2>20. \A i, v : Own(i, v) => Own(i, v)'
      BY <2>10
    <2>21. q.kind = "update" /\ ~q.failed =>
             /\ IF h.do = "read" THEN n.copy # None ELSE n.copy = q.copy
             /\ \A f \in q.carries :
                  /\ Sets(h, f) => Stored(r, q.uin, f)'
                  /\ Stored(r, q.uin, f) /\ (Overwrites(h, f) => h.how # "over" /\ q.copy # None /\ q.copy[f] = r)
                       => Stored(r, q.uin, f)'
                  /\ h.do = "read" /\ f \in ICQInfo /\ Stored(r, q.uin, f) => n.copy[f] = r
      BY <1>3, <1>7, <2>1, <2>15, <2>16
    <2>22. q.uin \in Uins /\ \A f \in everything \ h.part : \A i : Stored(i, q.uin, f) => Stored(i, q.uin, f)'
      BY <2>1, <2>5, <2>13
    <2>23. goOn(r, n, h.part)
      BY <2>6
    <2> HIDE <1>6, <2>3, <2>4, <2>7
    <2> QED BY <1>1, <1>2, <1>3, <1>4, <1>7, <2>17, <2>18, <2>19, <2>20, <2>21, <2>22, <2>23, NextKeeps
  <1> QED BY <1>9, <1>10, <1>11

LEMMA PasswordKeeps == ASSUME IInv, NEW r \in DOMAIN reqs, WritePassword(r) PROVE IInv'
  <1>1. PICK q : q = reqs[r]
    OBVIOUS
  <1>2. PICK h : h = Head(q.script)
    OBVIOUS
  <1>3. UnderWay(q) /\ h.do = "password" /\ freed' = freed /\ errors' = errors
    BY <1>1, <1>2 DEF WritePassword, atStep
  <1>4. /\ q \in Requests /\ ToldOf(r, q) /\ h \in Steps /\ Tail(q.script) \in Seq(Steps)
        /\ ~Registers(q) /\ q.uin \in Uins
        /\ Exists(q.uin) => users[q.uin] \in Rows
        /\ freed \subseteq Uins /\ r \in Int /\ Shape
    <2>1. r \in Int /\ Shape
      BY DEF IInv, Shape
    <2> QED BY <1>1, <1>2, <1>3, <2>1, AtStep
  <1>5. CASE ~Exists(q.uin)
    <2>1. goOn(r, goneWrong(q), {}) /\ users' = users
      BY <1>1, <1>5 DEF WritePassword
    <2>2. errors' \in Nat
      BY <1>3, <1>4 DEF Shape
    <2> QED BY <1>1, <1>2, <1>3, <2>1, <2>2, FailKeeps
  <1>6. CASE Exists(q.uin)
    <2>1. PICK u : u = q.uin
      OBVIOUS
    <2>2. PICK old : old = users[u]
      OBVIOUS
    <2>3. PICK row : row = [old EXCEPT !.weak = r, !.strong = r]
      OBVIOUS
    <2>4. PICK n : n = next(q)
      OBVIOUS
    <2>5. u \in Uins /\ old \in Rows
      BY <1>4, <1>6, <2>1, <2>2
    <2>6. goOn(r, n, {"weak", "strong"}) /\ users' = [users EXCEPT ![u] = row]
      <3>1. users' = [users EXCEPT ![q.uin].weak = r, ![q.uin].strong = r] /\ goOn(r, next(q), {"weak", "strong"})
        BY <1>1, <1>6 DEF WritePassword
      <3>2. users \in [Uins -> {None} \cup Rows]
        BY <1>4 DEF Shape
      <3>3. users' = [users EXCEPT ![u] = [old EXCEPT !.weak = r, !.strong = r]]
        BY <2>1, <2>2, <2>5, <3>1, <3>2
      <3> QED BY <2>3, <2>4, <3>1, <3>3
    <2>7. row \in Rows /\ row.owner = old.owner /\ row.weak = r /\ row.strong = r /\ row.profile = old.profile
      BY <1>4, <2>3, <2>5 DEF Rows
    <2>8. /\ users' \in [Uins -> {None} \cup Rows]
          /\ \A i, v : Own(i, v) => Own(i, v)'
          /\ \A i, f : Stored(i, u, f)' <=> value(row, f) = i
          /\ \A v \in Uins : v # u => users'[v] = users[v]
      BY <1>3, <1>4, <2>2, <2>5, <2>6, <2>7, RowChanged
    <2>9. \A f \in everything \ {"weak", "strong"} : \A i : Stored(i, u, f) => Stored(i, u, f)'
      BY <2>2, <2>7, <2>8 DEF Stored, value
    <2>10. \A f \in {"weak", "strong"} : Stored(r, u, f)'
      BY <2>7, <2>8 DEF value
    <2>11. \A f : (Sets(h, f) => f \in {"weak", "strong"}) /\ ~Overwrites(h, f)
      BY <1>3 DEF Sets, Overwrites
    <2>12. /\ n \in Requests /\ n.kind = q.kind /\ n.handler = q.handler /\ n.version = q.version /\ n.uin = q.uin
           /\ n.onError = q.onError /\ n.carries = q.carries /\ n.told = q.told /\ n.script = Tail(q.script)
           /\ n.failed = q.failed /\ n.overlapped = q.overlapped /\ n.copy = q.copy
      BY <1>4, <2>4, Next1
    <2>13. ToldOf(r, n)'
      BY <1>4, <2>8, <2>12 DEF ToldOf
    <2>14. freed' \subseteq Uins /\ {"weak", "strong"} \in SUBSET everything
      BY <1>3, <1>4, Fields DEF Shape
    <2>15. \A f \in q.carries : f \in everything
      BY <1>4 DEF Requests
    <2>16. q.kind = "update" /\ ~q.failed =>
             /\ IF h.do = "read" THEN n.copy # None ELSE n.copy = q.copy
             /\ \A f \in q.carries :
                  /\ Sets(h, f) => Stored(r, q.uin, f)'
                  /\ Stored(r, q.uin, f) /\ (Overwrites(h, f) => h.how # "over" /\ q.copy # None /\ q.copy[f] = r)
                       => Stored(r, q.uin, f)'
                  /\ h.do = "read" /\ f \in ICQInfo /\ Stored(r, q.uin, f) => n.copy[f] = r
      BY <1>3, <2>1, <2>9, <2>10, <2>11, <2>12, <2>15
    <2>17. users' \in [Uins -> {None} \cup Rows] /\ \A v \in Uins : v # q.uin => users'[v] = users[v]
      BY <2>1, <2>8
    <2>18. q.uin \in Uins /\ ~Registers(q)
           /\ \A f \in everything \ {"weak", "strong"} : \A i : Stored(i, q.uin, f) => Stored(i, q.uin, f)'
      BY <1>4, <2>1, <2>5, <2>9
    <2>19. goOn(r, n, {"weak", "strong"}) /\ \A i, v : Own(i, v) => Own(i, v)'
      BY <2>6, <2>8
    <2> HIDE <2>3, <2>4
    <2> QED BY <1>1, <1>2, <1>3, <2>12, <2>13, <2>14, <2>16, <2>17, <2>18, <2>19, NextKeeps
  <1> QED BY <1>5, <1>6

LEMMA FailsKeeps == ASSUME IInv, NEW r \in DOMAIN reqs, StoreFails(r) PROVE IInv'
  <1>1. PICK q : q = reqs[r]
    OBVIOUS
  <1>2. /\ UnderWay(q) /\ Head(q.script).do # "say" /\ users' = users /\ freed' = freed
        /\ goOn(r, IF atStep(r, "read") THEN [goneWrong(q) EXCEPT !.copy = None] ELSE goneWrong(q), {})
    BY <1>1 DEF StoreFails, atStep
  <1>3. errors' \in Nat
    BY DEF StoreFails, IInv, Shape
  <1>4. PICK n \in {goneWrong(q), [goneWrong(q) EXCEPT !.copy = None]} :
          n = IF atStep(r, "read") THEN [goneWrong(q) EXCEPT !.copy = None] ELSE goneWrong(q)
    OBVIOUS
  <1>5. goOn(r, n, {})
    BY <1>2, <1>4
  <1> HIDE <1>4
  <1> QED BY <1>1, <1>2, <1>3, <1>5, FailKeeps

LEMMA DeleteKeeps == ASSUME IInv, NEW r \in DOMAIN reqs, DeleteRow(r) PROVE IInv'
  <1>1. PICK q : q = reqs[r]
    OBVIOUS
  <1>2. PICK h : h = Head(q.script)
    OBVIOUS
  <1>3. UnderWay(q) /\ h.do = "delete" /\ errors' = errors
    BY <1>1, <1>2 DEF DeleteRow, atStep
  <1>4. /\ q \in Requests /\ ToldOf(r, q) /\ h \in Steps /\ Tail(q.script) \in Seq(Steps)
        /\ ~Registers(q) /\ q.uin \in Uins
        /\ q.kind = "update" => h \in UpdateSteps
        /\ freed \subseteq Uins /\ Shape
    <2>1. Shape
      BY DEF IInv
    <2> QED BY <1>1, <1>2, <1>3, <2>1, AtStep
  <1>5. CASE ~Exists(q.uin)
    <2>1. goOn(r, goneWrong(q), {}) /\ users' = users /\ freed' = freed
      BY <1>1, <1>5 DEF DeleteRow
    <2>2. errors' \in Nat
      BY <1>3, <1>4 DEF Shape
    <2> QED BY <1>1, <1>2, <1>3, <2>1, <2>2, FailKeeps
  <1>6. CASE Exists(q.uin)
    <2>1. PICK u : u = q.uin
      OBVIOUS
    <2>2. PICK n : n = next(q)
      OBVIOUS
    <2>3. goOn(r, n, everything) /\ users' = [users EXCEPT ![u] = None] /\ freed' = freed \cup {u}
      BY <1>1, <1>6, <2>1, <2>2 DEF DeleteRow
    <2>4. /\ users' \in [Uins -> {None} \cup Rows] /\ freed' \subseteq Uins
          /\ \A v \in Uins : v # u => users'[v] = users[v]
      BY <1>4, <2>1, <2>3 DEF Shape
    <2>5. \A i, v : Own(i, v) => Own(i, v)'
      BY <2>3, <2>4 DEF Own, Exists
    <2>6. /\ n \in Requests /\ n.kind = q.kind /\ n.handler = q.handler /\ n.version = q.version /\ n.uin = q.uin
          /\ n.onError = q.onError /\ n.carries = q.carries /\ n.told = q.told /\ n.script = Tail(q.script)
          /\ n.failed = q.failed /\ n.overlapped = q.overlapped /\ n.copy = q.copy
      BY <1>4, <2>2, Next1
    <2>7. ToldOf(r, n)'
      BY <1>4, <2>5, <2>6 DEF ToldOf
    <2>8. q.kind # "update"
      BY <1>3, <1>4 DEF UpdateSteps
    <2>9. everything \in SUBSET everything /\ everything \ everything = {}
      OBVIOUS
    <2>10. goOn(r, n, everything) /\ \A v \in Uins : v # q.uin => users'[v] = users[v]
      BY <2>1, <2>3, <2>4
    <2> HIDE <2>2, <2>3
    <2> QED BY <1>1, <1>2, <1>3, <1>4, <2>4, <2>5, <2>6, <2>7, <2>8, <2>9, <2>10, NextKeeps
  <1> QED BY <1>5, <1>6

LEMMA InsertKeeps == ASSUME IInv, NEW r \in DOMAIN reqs, InsertRow(r) PROVE IInv'
  <1>1. PICK q : q = reqs[r]
    OBVIOUS
  <1>2. PICK h : h = Head(q.script)
    OBVIOUS
  <1>3. UnderWay(q) /\ h.do = "insert" /\ freed' = freed /\ errors' = errors
    BY <1>1, <1>2 DEF InsertRow, atStep
  <1>4. /\ q \in Requests /\ ToldOf(r, q) /\ RegOf(r, q) /\ h \in Steps /\ Tail(q.script) \in Seq(Steps)
        /\ ~Registers(q) => q.uin \in Uins
        /\ q.kind = "update" => h \in UpdateSteps
        /\ freed \subseteq Uins /\ Shape /\ r \in Int
    <2>1. Shape /\ r \in Int
      BY DEF IInv, Shape
    <2> QED BY <1>1, <1>2, <1>3, <2>1, AtStep
  <1>5. Registers(q) => /\ q.uin \in Uins /\ Tail(q.script) = Registered
                        /\ q.kind = "account" /\ q.onError \in {<<>>, NotConnected}
    BY <1>2, <1>3, <1>4, StepOf
  <1>6. CASE Exists(q.uin)
    <2>1. goOn(r, goneWrong(q), {}) /\ users' = users
      BY <1>1, <1>6 DEF InsertRow
    <2>2. errors' \in Nat
      BY <1>3, <1>4 DEF Shape
    <2> QED BY <1>1, <1>2, <1>3, <2>1, <2>2, FailKeeps
  <1>7. CASE ~Exists(q.uin)
    <2>1. PICK u : u = q.uin
      OBVIOUS
    <2>2. PICK n : n = next(q)
      OBVIOUS
    <2>3. PICK row : row = newRow(r)
      OBVIOUS
    <2>4. goOn(r, n, everything) /\ users' = [users EXCEPT ![u] = row]
      BY <1>1, <1>7, <2>1, <2>2, <2>3 DEF InsertRow
    <2>5. row \in Rows /\ row.owner = r
      <3>1. PICK weak \in {None} \cup Int : row = Row(r, weak, Blank)
        BY <1>4, <2>3 DEF newRow
      <3>2. [f \in ICQInfo |-> Blank] \in Profiles
        BY DEF Profiles, Blank
      <3> QED BY <1>4, <3>1, <3>2 DEF Row, Rows
    <2>6. u \in Uins
      BY <1>4, <1>5, <2>1
    <2>7. /\ users' \in [Uins -> {None} \cup Rows]
          /\ \A i, v : Own(i, v) => Own(i, v)'
          /\ \A v \in Uins : v # u => users'[v] = users[v]
      BY <1>3, <1>4, <1>7, <2>1, <2>4, <2>5, <2>6, RowChanged
    <2>8. Own(r, u)'
      <3>1. users'[u] = row /\ row # None
        BY <1>4, <2>4, <2>5, <2>6, NoneAssumption DEF Shape
      <3> QED BY <2>5, <2>6, <3>1 DEF Own, Exists
    <2>9. /\ n \in Requests /\ n.kind = q.kind /\ n.handler = q.handler /\ n.version = q.version /\ n.uin = q.uin
          /\ n.onError = q.onError /\ n.carries = q.carries /\ n.told = q.told /\ n.script = Tail(q.script)
          /\ n.failed = q.failed /\ n.overlapped = q.overlapped /\ n.copy = q.copy
      BY <1>4, <2>2, Next1
    <2>10. Registers(q) => RegisterOf(r, n)'
      BY <1>5, <2>1, <2>8, <2>9 DEF RegisterOf
    <2>11. ToldOf(r, n)'
      BY <1>4, <2>7, <2>9 DEF ToldOf
    <2>12. q.kind # "update"
      BY <1>3, <1>4 DEF UpdateSteps
    <2>13. everything \in SUBSET everything /\ everything \ everything = {} /\ freed' \subseteq Uins
      BY <1>3, <1>4
    <2>14. goOn(r, n, everything) /\ q.uin \in Uins /\ \A v \in Uins : v # q.uin => users'[v] = users[v]
      BY <2>1, <2>4, <2>6, <2>7
    <2> HIDE <2>2, <2>3, <2>4
    <2> QED BY <1>1, <1>2, <1>3, <1>4, <2>7, <2>9, <2>10, <2>11, <2>12, <2>13, <2>14, NextKeeps
  <1> QED BY <1>6, <1>7

\* A set of numbers has a least one.
LEMMA Least ==
  ASSUME NEW S \in SUBSET Nat, S # {}
  PROVE  Min(S) \in S
  <1>1. \E x \in S : \A y \in S : ~(<<y, x>> \in OpToRel(<, Nat))
    BY WFMin, NatLessThanWellFounded
  <1>2. \E x \in S : \A y \in S : x <= y
    <2>1. PICK x \in S : \A y \in S : ~(<<y, x>> \in OpToRel(<, Nat))
      BY <1>1
    <2>2. ASSUME NEW y \in S PROVE ~(y < x)
      <3>1. <<y, x>> \in Nat \X Nat /\ <<y, x>>[1] = y /\ <<y, x>>[2] = x
        OBVIOUS
      <3> QED BY <2>1, <3>1 DEF OpToRel
    <2> QED BY <2>2
  <1> QED BY <1>2 DEF Min

LEMMA PickKeeps == ASSUME IInv, NEW r \in DOMAIN reqs, PickUIN(r) PROVE IInv'
  <1>1. PICK q : q = reqs[r]
    OBVIOUS
  <1>2. PICK h : h = Head(q.script)
    OBVIOUS
  <1>3. UnderWay(q) /\ h.do = "generate" /\ users' = users /\ freed' = freed /\ errors' = errors
    BY <1>1, <1>2 DEF PickUIN, atStep
  <1>4. /\ q \in Requests /\ ToldOf(r, q) /\ RegOf(r, q) /\ h \in Steps /\ Tail(q.script) \in Seq(Steps)
        /\ ~Registers(q) => h \in PlainSteps
        /\ freed \subseteq Uins /\ users \in [Uins -> {None} \cup Rows] /\ Shape
    <2>1. Shape
      BY DEF IInv
    <2> QED BY <1>1, <1>2, <1>3, <2>1, AtStep
  <1>5. Registers(q)
    BY <1>3, <1>4 DEF PlainSteps
  <1>6. /\ q.uin = 0 /\ Tail(q.script) = <<InsertUser>> \o Registered
        /\ q.kind = "account" /\ q.onError \in {<<>>, NotConnected}
    BY <1>2, <1>3, <1>4, <1>5, StepOf
  <1>7. PICK free : free = {u \in Uins : ~Exists(u)}
    OBVIOUS
  <1>8. goOn(r, IF free = {} THEN goneWrong(q) ELSE [next(q) EXCEPT !.uin = Min(free)], {})
    BY <1>1, <1>7 DEF PickUIN
  <1>9. CASE free = {}
    <2>1. goOn(r, goneWrong(q), {})
      BY <1>8, <1>9
    <2>2. errors' \in Nat
      BY <1>3, <1>4 DEF Shape
    <2> QED BY <1>1, <1>2, <1>3, <2>1, <2>2, FailKeeps
  <1>10. CASE free # {}
    <2>1. PICK u : u = Min(free)
      OBVIOUS
    <2>2. u \in Uins /\ u \in Nat
      BY <1>7, <1>10, <2>1, Least, DirectoryAssumption
    <2>3. PICK n : n = [next(q) EXCEPT !.uin = u]
      OBVIOUS
    <2>4. goOn(r, n, {})
      BY <1>8, <1>10, <2>1, <2>3
    <2>5. /\ n \in Requests /\ n.kind = q.kind /\ n.handler = q.handler /\ n.version = q.version /\ n.uin = u
          /\ n.onError = q.onError /\ n.carries = q.carries /\ n.told = q.told /\ n.script = Tail(q.script)
          /\ n.failed = q.failed /\ n.overlapped = q.overlapped /\ n.copy = q.copy
      BY <1>4, <2>2, <2>3 DEF next, Requests
    <2>6. RegisterOf(r, n)'
      BY <1>6, <2>2, <2>5 DEF RegisterOf
    <2>7. ToldOf(r, n)'
      BY <1>3, <1>4, <2>5, SameRows DEF ToldOf
    <2>8. q.uin \notin Uins
      BY <1>6, DirectoryAssumption
    <2>9. users' \in [Uins -> {None} \cup Rows] /\ freed' \subseteq Uins /\ {} \in SUBSET everything
          /\ \A v \in Uins : users'[v] = users[v]
      BY <1>3, <1>4
    <2> HIDE <1>7, <1>8, <2>1, <2>3
    <2> QED BY <1>1, <1>2, <1>3, <1>4, <1>5, <1>6, <2>4, <2>5, <2>6, <2>7, <2>8, <2>9, SameRows, NextKeeps
  <1> QED BY <1>9, <1>10

LEMMA ReplyKeeps == ASSUME IInv, NEW r \in DOMAIN reqs, SendReply(r) PROVE IInv'
  <1>1. PICK q : q = reqs[r]
    OBVIOUS
  <1>2. PICK h : h = Head(q.script)
    OBVIOUS
  <1>3. UnderWay(q) /\ h.do = "say" /\ users' = users /\ freed' = freed /\ errors' = errors
    BY <1>1, <1>2 DEF SendReply, atStep
  <1>4. /\ q \in Requests /\ ToldOf(r, q) /\ RegOf(r, q) /\ h \in Steps /\ Tail(q.script) \in Seq(Steps)
        /\ ~Registers(q) => h \in PlainSteps /\ q.uin \in Uins
        /\ freed \subseteq Uins /\ users \in [Uins -> {None} \cup Rows]
    BY <1>1, <1>2, <1>3, AtStep
  <1>5. PICK p : p = h.packets[1]
    OBVIOUS
  <1>6. p \in Packets /\ (p.kind = "new" => Own(r, q.uin))
    <2>1. CASE Registers(q)
      <3>1. (p \in Packets /\ Own(r, q.uin)) \/ p \in Quiet
        BY <1>2, <1>3, <1>4, <1>5, <2>1, StepOf
      <3> QED BY <3>1 DEF Quiet
    <2>2. CASE ~Registers(q)
      BY <1>3, <1>4, <1>5, <2>2 DEF PlainSteps, Quiet
    <2> QED BY <2>1, <2>2
  <1>7. PICK a : a = IF p.kind = "new" THEN [p EXCEPT !.uin = q.uin] ELSE p
    OBVIOUS
  <1>8. a \in Packets /\ (a.kind = "new" => a.uin = q.uin /\ Own(r, q.uin))
    <2>1. q.uin \in Nat
      BY <1>4 DEF Requests
    <2>2. CASE p.kind = "new"
      BY <1>6, <1>7, <2>1, <2>2 DEF Packets
    <2>3. CASE p.kind # "new"
      BY <1>6, <1>7, <2>3
    <2> QED BY <2>2, <2>3
  <1>9. PICK told : told = Append(q.told, a)
    OBVIOUS
  <1>10. told \in Seq(Packets) /\ \A i \in DOMAIN told : told[i] = a \/ (i \in DOMAIN q.told /\ told[i] = q.told[i])
    <2>1. q.told \in Seq(Packets)
      BY <1>4 DEF Requests
    <2> QED BY <1>8, <1>9, <2>1, AppendProperties, LenProperties
  <1>11. PICK n : n = [next(q) EXCEPT !.told = told]
    OBVIOUS
  <1>12. goOn(r, n, {})
    <2>1. goOn(r, [next(q) EXCEPT !.told = Append(@, a)], {})
      BY <1>1, <1>2, <1>5, <1>7 DEF SendReply
    <2>2. [next(q) EXCEPT !.told = Append(@, a)] = n
      BY <1>4, <1>9, <1>11 DEF next, Requests
    <2> QED BY <2>1, <2>2
  <1>13. /\ n \in Requests /\ n.kind = q.kind /\ n.handler = q.handler /\ n.version = q.version /\ n.uin = q.uin
         /\ n.onError = q.onError /\ n.carries = q.carries /\ n.told = told /\ n.script = Tail(q.script)
         /\ n.failed = q.failed /\ n.overlapped = q.overlapped /\ n.copy = q.copy
    BY <1>4, <1>10, <1>11 DEF next, Requests
  <1>14. ToldOf(r, n)'
    <2>1. \A i, u : Own(i, u) => Own(i, u)'
      BY <1>3, SameRows
    <2> QED BY <1>4, <1>8, <1>10, <1>13, <2>1 DEF ToldOf
  <1>15. Registers(q) => RegisterOf(r, n)'
    <2> SUFFICES ASSUME Registers(q) PROVE RegisterOf(r, n)'
      OBVIOUS
    <2>1. q.kind = "account" /\ q.onError \in {<<>>, NotConnected} /\ Tail(q.script) = <<>>
      BY <1>2, <1>3, <1>4, StepOf
    <2> QED BY <1>13, <2>1 DEF RegisterOf
  <1>16. \A f : ~Sets(h, f)
    BY <1>3 DEF Sets
  <1>17. users' \in [Uins -> {None} \cup Rows] /\ freed' \subseteq Uins /\ {} \in SUBSET everything
         /\ \A v \in Uins : users'[v] = users[v]
    BY <1>3, <1>4
  <1> HIDE <1>7, <1>9, <1>11
  <1> QED BY <1>1, <1>2, <1>3, <1>4, <1>12, <1>13, <1>14, <1>15, <1>16, <1>17, SameRows, NextKeeps

-----------------------------------------------------------------------------
(* The invariant.                                                          *)

LEMMA InitInv == Init => IInv
  <1> SUFFICES ASSUME Init PROVE IInv
    OBVIOUS
  <1>1. reqs = <<>> /\ freed = {} /\ errors = 0
    BY DEF Init
  <1>2. Row(Before, Before, Before) \in Rows
    <2>1. [f \in ICQInfo |-> Before] \in Profiles
      BY DEF Profiles, Before
    <2> QED BY <2>1 DEF Row, Rows, Before
  <1>3. users \in [Uins -> {None} \cup Rows]
    BY <1>2 DEF Init
  <1>4. reqs \in Seq(Requests) /\ DOMAIN reqs = {}
    BY <1>1, EmptySeq
  <1> QED BY <1>1, <1>3, <1>4 DEF IInv, Shape, RequestInv, InfoInv, SeenAsSet

LEMMA NextInv == IInv /\ [Next]_vars => IInv'
  <1> SUFFICES ASSUME IInv, [Next]_vars PROVE IInv'
    OBVIOUS
  <1>1. ASSUME NEW u \in Targets,
               UpdateOldClients(u) \/ UpdateV5(u) \/ UpdateOSCAR(u) \/ putICQProfileHandler(u) \/ putUserPasswordHandler(u)
        PROVE  IInv'
    BY <1>1, UpdateBegins, UpdateKeeps
  <1>2. ASSUME NEW u \in Targets, Accounts(u) PROVE IInv'
    BY <1>2, AccountBegins, AccountKeeps
  <1>3. ASSUME NEW r \in DOMAIN reqs,
               ReadRow(r) \/ WriteRow(r) \/ WritePassword(r) \/ DeleteRow(r) \/ PickUIN(r) \/ InsertRow(r)
                 \/ SendReply(r) \/ StoreFails(r)
        PROVE  IInv'
    BY <1>3, ReadKeeps, WriteKeeps, PasswordKeeps, DeleteKeeps, PickKeeps, InsertKeeps, ReplyKeeps, FailsKeeps
  <1>4. ASSUME Search PROVE IInv'
    <2>1. Shape
      BY DEF IInv
    <2> QED BY <1>4, <2>1, SearchBegins, SearchKeeps
  <1>5. ASSUME UNCHANGED vars PROVE IInv'
    <2>1. users' = users /\ reqs' = reqs /\ freed' = freed /\ errors' = errors
      BY <1>5 DEF vars
    <2>2. Shape' /\ SeenAsSet'
      BY <2>1 DEF IInv, Shape, SeenAsSet, NotShown
    <2>3. InfoInv'
      BY <2>1 DEF IInv, InfoInv, UnderWay
    <2>4. ASSUME NEW r \in DOMAIN reqs
          PROVE  (RegOf(r, reqs[r]) /\ ToldOf(r, reqs[r]) /\ UpdateOf(reqs[r]) /\ StoredOf(r, reqs[r]))'
      <3>1. RegOf(r, reqs[r]) /\ ToldOf(r, reqs[r]) /\ UpdateOf(reqs[r]) /\ StoredOf(r, reqs[r])
        BY DEF IInv, RequestInv
      <3>2. (\A u, i : Own(i, u) <=> Own(i, u)') /\ (Alone(r) <=> Alone(r)')
        BY <2>1 DEF Own, Exists, Alone
      <3>3. \A f : Stored(r, reqs[r].uin, f) <=> Stored(r, reqs[r].uin, f)'
        BY <2>1 DEF Stored, Exists, value
      <3>4. (RegOf(r, reqs[r]) /\ ToldOf(r, reqs[r]) /\ UpdateOf(reqs[r]))'
        BY <2>1, <3>1, <3>2 DEF RegOf, RegisterOf, PlainOf, Registers, ToldOf, UpdateOf
      <3>5. StoredOf(r, reqs[r])'
        BY <2>1, <3>1, <3>2, <3>3 DEF StoredOf, HasCopy, UnderWay, Safe, Copied
      <3> QED BY <3>4, <3>5
    <2>5. RequestInv'
      BY <2>1, <2>4 DEF RequestInv
    <2> QED BY <2>2, <2>3, <2>5 DEF IInv
  <1> QED BY <1>1, <1>2, <1>3, <1>4, <1>5 DEF Next

\* Invariance: the shapes of requests and rows, what a request may still do and what
\* it has stored, and that searches wait.
THEOREM Invariance == Spec => []IInv
  <1> QED BY InitInv, NextInv, PTL DEF Spec

\* The number a registration answers with is that of the row it inserted, for as long
\* as the row is not deleted, however many register at a time (service.go:600).
THEOREM NumbersApart == Spec => []NoSharedAccount
  <1>1. IInv => NoSharedAccount
    BY DEF IInv, RequestInv, ToldOf, Own, NoSharedAccount
  <1> QED BY <1>1, Invariance, PTL

\* Who looks a user up with the client the profile was set with sees what was set,
\* if no other request was about that user: in every handler of every version.
THEOREM LookedUpAsSet == Spec => []SeenAsSet
  <1>1. IInv => SeenAsSet
    BY DEF IInv
  <1> QED BY <1>1, Invariance, PTL

\* A request that is about to answer is told more by its answer only.
LEMMA ToldAt ==
  ASSUME IInv, [Next]_vars, NEW r \in DOMAIN reqs, atStep(r, "say")
  PROVE  reqs'[r].told = reqs[r].told \/ SendReply(r)
  <1>1. PICK q : q = reqs[r]
    OBVIOUS
  <1>2. q \in Requests /\ reqs \in Seq(Requests)
    BY <1>1 DEF IInv, Shape
  <1>3. ASSUME NEW i \in DOMAIN reqs \ {r}, NEW n, NEW F, goOn(i, n, F)
        PROVE  reqs'[r].told = q.told
    BY <1>1, <1>2, <1>3 DEF goOn, Requests
  <1>4. ASSUME NEW n, Begin(n) PROVE reqs'[r].told = q.told
    BY <1>1, <1>2, <1>4 DEF Begin
  <1>5. ASSUME NEW i \in DOMAIN reqs,
               ReadRow(i) \/ WriteRow(i) \/ WritePassword(i) \/ DeleteRow(i) \/ PickUIN(i) \/ InsertRow(i)
                 \/ SendReply(i) \/ StoreFails(i)
        PROVE  reqs'[r].told = q.told \/ SendReply(r)
    <2>1. CASE i = r
      BY <1>5, <2>1 DEF ReadRow, WriteRow, WritePassword, DeleteRow, PickUIN, InsertRow, StoreFails, atStep
    <2>2. CASE i # r
      <3>1. \E n, F : goOn(i, n, F)
        BY <1>5 DEF ReadRow, WriteRow, WritePassword, DeleteRow, PickUIN, InsertRow, SendReply, StoreFails
      <3> QED BY <1>3, <2>2, <3>1
    <2> QED BY <2>1, <2>2
  <1>6. ASSUME NEW u \in Targets,
               UpdateOldClients(u) \/ UpdateV5(u) \/ UpdateOSCAR(u) \/ putICQProfileHandler(u) \/ putUserPasswordHandler(u)
        PROVE  \E n : Begin(n)
    BY <1>6, UpdateBegins DEF BeginsUpdate
  <1>7. ASSUME NEW u \in Targets, Accounts(u) PROVE \E n : Begin(n)
    BY <1>7, AccountBegins DEF BeginsAccount
  <1>8. ASSUME Search PROVE \E n : Begin(n)
    <2>1. Shape
      BY DEF IInv
    <2> QED BY <1>8, <2>1, SearchBegins DEF BeginsSearch
  <1>9. ASSUME UNCHANGED vars PROVE reqs'[r].told = q.told
    BY <1>1, <1>9 DEF vars
  <1> QED BY <1>1, <1>4, <1>5, <1>6, <1>7, <1>8, <1>9 DEF Next

\* An update answered with success has stored what it carried, except what others wrote
\* since it began: whole groups written again from copies read before included.
THEOREM SuccessIsStored == Spec => AcknowledgedIsStored
  <1>1. ASSUME IInv, [Next]_vars, NEW r \in DOMAIN reqs, NEW q, q = reqs[r],
               q.kind = "update", atStep(r, "say"), Len(reqs'[r].told) > Len(q.told), Last(reqs'[r].told).kind = "ok",
               q.failed => q.onError # None,
               NEW f \in q.carries \ q.overlapped
        PROVE  Exists(q.uin) /\ value(users[q.uin], f) = r
    <2>1. q \in Requests /\ UpdateOf(q) /\ StoredOf(r, q) /\ UnderWay(q) /\ Head(q.script).do = "say"
      BY <1>1 DEF IInv, Shape, RequestInv, atStep
    <2>2. q.script \in Seq(UpdateSteps) /\ q.script # <<>> /\ SayLast(q.script)
          /\ q.onError \in {None, <<>>, Refused} /\ (q.failed /\ q.onError # None => q.script \in {<<>>, Refused})
      BY <1>1, <2>1 DEF UpdateOf, UnderWay
    <2>3. CASE ~q.failed
      <3>1. Safe(r, q, f)
        BY <1>1, <2>1, <2>3 DEF StoredOf
      <3>2. ~Pending(q.script, f)
        <4>1. Shifted(q.script, Head(q.script), Tail(q.script))
          BY <2>2, Shift
        <4>2. Tail(q.script) = <<>>
          BY <2>1, <2>2, <4>1 DEF Shifted
        <4>3. ~Pending(<<>>, f) /\ ~Sets(Head(q.script), f)
          BY <2>1 DEF Pending, Sets
        <4> QED BY <4>1, <4>2, <4>3 DEF Shifted
      <3> QED BY <3>1, <3>2 DEF Safe, Stored
    <2>4. CASE q.failed
      <3>1. q.script = Refused
        BY <1>1, <2>2, <2>4
      <3>2. SendReply(r)
        <4>1. reqs'[r].told # q.told
          BY <1>1, <2>1 DEF Requests
        <4> QED BY <1>1, <4>1, ToldAt
      <3>3. PICK p : p = Head(q.script).packets[1]
        OBVIOUS
      <3>4. p \in Packets /\ p.kind = "500"
        <4>1. "500" \in Words
          BY Called
        <4>2. Reply("500") \in Packets /\ Reply("500").kind = "500"
          BY <4>1, Said
        <4>3. Say(Reply("500")).packets[1] = Reply("500")
          BY <4>2, Spoken
        <4>4. Head(q.script) = Say(Reply("500"))
          BY <3>1, Scripts
        <4> QED BY <3>3, <4>2, <4>3, <4>4
      <3>5. goOn(r, [next(q) EXCEPT !.told = Append(@, p)], {})
        BY <1>1, <3>2, <3>3, <3>4 DEF SendReply
      <3>6. reqs'[r].told = Append(q.told, p) /\ q.told \in Seq(Packets)
        BY <2>1, <3>5 DEF goOn, next, Requests
      <3>7. Last(reqs'[r].told) = p
        BY <3>4, <3>6, AppendProperties DEF Last
      <3> QED BY <1>1, <3>4, <3>7
    <2> QED BY <2>3, <2>4
  <1>2. IInv /\ [Next]_vars =>
          [\A r \in DOMAIN reqs :
             LET q == reqs[r]
             IN  /\ q.kind = "update" /\ atStep(r, "say")
                 /\ Len(reqs'[r].told) > Len(q.told) /\ Last(reqs'[r].told).kind = "ok"
                 /\ (q.failed => q.onError # None)
                 => \A f \in q.carries \ q.overlapped : Exists(q.uin) /\ value(users[q.uin], f) = r]_vars
    BY <1>1
  <1> QED BY <1>2, Invariance, PTL DEF AcknowledgedIsStored, Spec

-----------------------------------------------------------------------------
(* Who is shown online by the gateway: statuses and packets.               *)

Codes == 0..(2 * Invisible - 1)

\* Turning a status into OSCAR's, back, or into an old client's keeps the invisible flag.
LEMMA CodesKept ==
  ASSUME NEW s \in Codes
  PROVE  /\ mapLegacyStatusToOSCAR(s) \in Codes /\ oscarStatusToLegacy(s) \in Codes
         /\ downgradeStatusForV2(s) \in Codes
         /\ isInvisible(mapLegacyStatusToOSCAR(s)) <=> isInvisible(s)
         /\ isInvisible(oscarStatusToLegacy(s)) <=> isInvisible(s)
         /\ isInvisible(downgradeStatusForV2(s)) <=> isInvisible(s)
<1>1. base(s) \in 0..255
  BY DEF base, Invisible, Codes
<1> DEFINE m == CASE base(s) \in {0, 1, 32} -> base(s)
                [] base(s) \in {2, 19} -> 19
                [] base(s) \in {4, 5} -> 5
                [] base(s) \in {16, 17} -> 17
                [] OTHER -> 0
           o == CASE base(s) \in {0, 1, 2, 4, 16, 32} -> base(s)
                [] base(s) = 5 -> 4
                [] base(s) = 17 -> 16
                [] base(s) = 19 -> 2
                [] OTHER -> 0
           d == CASE base(s) \in {2, 16, 19} -> 17
                [] base(s) \in {4, 5} -> 1
                [] base(s) = 32 -> 0
                [] OTHER -> base(s)
<1>2. m \in 0..255
  BY <1>1
<1>3. o \in 0..255
  BY <1>1
<1>4. d \in 0..255
  BY <1>1
<1>5. /\ mapLegacyStatusToOSCAR(s) = withFlag(s, m)
      /\ oscarStatusToLegacy(s) = withFlag(s, o)
      /\ downgradeStatusForV2(s) = withFlag(s, d)
  BY DEF mapLegacyStatusToOSCAR, oscarStatusToLegacy, downgradeStatusForV2
<1>6. \A b \in 0..255 : withFlag(s, b) \in Codes /\ (isInvisible(withFlag(s, b)) <=> isInvisible(s))
  BY DEF withFlag, isInvisible, Invisible, Codes
<1> HIDE DEF m, o, d
<1>7. QED
  BY <1>2, <1>3, <1>4, <1>5, <1>6

Announcing(s) == <<<<"announce", s>>>>
Listing == <<<<"contacts", Absent>>>>
Adding(c) == <<<<"added", c>>>>
Changing(s) == <<<<"status", s>>>>
Leaving == <<<<"farewell", Absent>>, <<"remove", Absent>>>>
Left == <<<<"remove", Absent>>>>

Messages == [kind : {"arrived", "departed"}, about : Users, status : Codes]

Jobs ==
  {<<>>, Listing, Leaving, Left} \cup {Announcing(s) : s \in Codes} \cup {Changing(s) : s \in Codes}
    \cup {Adding(c) : c \in Users}

PresenceType ==
  /\ ver \in [Users -> 1..5]
  /\ sess \in [Users -> Sessions \cup {Absent}]
  /\ modeRow \subseteq Users /\ rows \subseteq Users \X Users
  /\ queue \in [Users -> Seq(Messages)]
  /\ shows \in [Users -> [Users -> Codes \cup {Offline}]]
  /\ job \in [Users -> Jobs]
  /\ raced \subseteq Users \X Users /\ unannounced \subseteq Users

\* The status as a client of that user's version is sent it.
sent(v, s) == IF ver[v] \in {1, 2} THEN downgradeStatusForV2(s) ELSE s

LEMMA PacketsSent ==
  ASSUME PresenceType, NEW v \in Users, NEW c, NEW s
  PROVE  /\ SendUserOnline(v, c, s) = About("online", v, c, sent(v, s))
         /\ SendStatusChange(v, c, s) = About("status", v, c, sent(v, s))
         /\ SendUserOffline(v, c) = About("offline", v, c, 0)
<1>1. ver[v] \in 1..5
  BY DEF PresenceType
<1>2. ver[v] = 1 \/ ver[v] = 2 \/ ver[v] = 3 \/ ver[v] = 4 \/ ver[v] = 5
  BY <1>1
<1>3. QED
  BY <1>2 DEF SendUserOnline, SendStatusChange, SendUserOffline, sent, sendUserOnlineV2, sendUserOnlineV3,
     sendUserOnlineV4, sendV5UserOnline, sendStatusUpdateV2, sendUserStatusV3, sendUserStatusV4,
     sendV5UserStatus, sendUserOfflineV2, sendUserOfflineV3, sendUserOfflineV4, sendV5UserOffline

\* What a client makes of one packet.
made(p, before) ==
  IF p.kind = "offline" THEN Offline
  ELSE IF p.kind = "status" /\ before = Offline THEN Offline ELSE p.status

LEMMA Received ==
  ASSUME PresenceType, NEW P, NEW v \in Users, NEW c \in Users
  PROVE  LET news == {p \in P : p.to = v /\ p.about = c}
         IN  /\ receive(P) = [x \in Users |-> [y \in Users |-> receive(P)[x][y]]]
             /\ (~IsContact(v, c) \/ news = {}) => receive(P)[v][c] = shows[v][c]
             /\ IsContact(v, c) /\ news # {} =>
                  \E p \in news : receive(P)[v][c] = made(p, shows[v][c])
<1> DEFINE news == {p \in P : p.to = v /\ p.about = c}
<1>1. receive(P)[v][c] =
        IF news = {} \/ sess[v] = Absent \/ c \notin sess[v].contacts THEN shows[v][c]
        ELSE made(CHOOSE q \in news : TRUE, shows[v][c])
  BY Zenon DEF receive, made
<1>2. news # {} => (CHOOSE q \in news : TRUE) \in news
  OBVIOUS
<1>3. receive(P) = [x \in Users |-> [y \in Users |-> receive(P)[x][y]]]
  BY DEF receive
<1> HIDE DEF news
<1>4. (~IsContact(v, c) \/ news = {}) => receive(P)[v][c] = shows[v][c]
  BY <1>1 DEF IsContact
<1>5. IsContact(v, c) /\ news # {} => \E p \in news : receive(P)[v][c] = made(p, shows[v][c])
  BY <1>1, <1>2 DEF IsContact
<1>6. QED
  BY <1>3, <1>4, <1>5 DEF news

-----------------------------------------------------------------------------
(* What holds of one user.                                                 *)

announcing(u) == \E s \in Codes : job[u] = Announcing(s)
changing(u) == \E s \in Codes : job[u] = Changing(s)

\* A session that is gone left nothing behind.
AbsentInv(u) ==
  sess[u] = Absent =>
    /\ job[u] = <<>> /\ queue[u] = <<>> /\ shows[u] = nothingShown
    /\ u \notin modeRow /\ u \notin unannounced

\* A V4 session without its OSCAR instance can only wait, be replaced or expire.
EnteringInv(u) ==
  entering(u) => sess[u].contacts = {} /\ sess[u].known = {} /\ queue[u] = <<>> /\ job[u] \in {<<>>, Leaving, Left}

AnnouncingInv(u) == announcing(u) => active(u) /\ sess[u].contacts = {}

\* Until it has announced itself, a session is on lists only if it replaced one that was.
FreshInv(u) == (announcing(u) \/ entering(u)) /\ u \in modeRow => u \in unannounced

ModeInv(u) ==
  /\ active(u) /\ ver[u] # 1 /\ ~announcing(u) /\ job[u] # Left => u \in modeRow
  /\ ver[u] = 1 => u \notin modeRow
  /\ job[u] = Left => u \notin modeRow /\ u \notin unannounced

AgreesInv(u) ==
  active(u) /\ ~announcing(u) /\ ~changing(u) /\ job[u] # Left /\ u \notin unannounced => agrees(u)

SessInv(u) ==
  sess[u] # Absent =>
    /\ u \notin sess[u].contacts /\ (~Relists => sess[u].known \subseteq sess[u].contacts)
    /\ sess[u].status \in Statuses \cup {0} /\ sess[u].oscar \in Codes
    /\ ver[u] = 3 => sess[u].visible = {} /\ sess[u].invisible = {}

ShowsInv(u) == \A c \in Users : shows[u][c] # Offline => IsContact(u, c)

\* Nobody adds himself, and what is announced was asked for.
JobInv(u) == job[u] # Adding(u) /\ \A s \in Codes : job[u] = Announcing(s) => s \in Statuses \cup {0}

OneInv(u) ==
  /\ AbsentInv(u) /\ EnteringInv(u) /\ AnnouncingInv(u) /\ FreshInv(u)
  /\ ModeInv(u) /\ AgreesInv(u) /\ SessInv(u) /\ ShowsInv(u) /\ JobInv(u)

-----------------------------------------------------------------------------
(* The kinds of steps.                                                     *)

\* A session is made, or gets its OSCAR instance.
Enter(u) ==
  /\ job[u] = <<>>
  /\ \E S \in Sessions :
       /\ install(u, S)
       /\ S.contacts = {} /\ S.known = {} /\ S.status \in Statuses \cup {0} /\ S.oscar \in Codes
       /\ ver[u] = 3 => S.visible = {} /\ S.invisible = {}
       /\ \/ S.active /\ \E s \in Statuses \cup {0} : start(u, Announcing(s))
          \/ ~S.active /\ UNCHANGED job
  /\ UNCHANGED <<ver, tables, raced>>

Ready(u) == active(u) /\ job[u] = <<>>

\* A logoff or an expiry: those who are told are told of an offline user.
Leave(u) ==
  /\ sess[u] # Absent /\ job[u] = <<>>
  /\ \E packets : logoff(u, packets) /\ \A p \in packets : p.kind = "offline" /\ p.about = u

Kind(u) ==
  \/ Enter(u) \/ announce(u) \/ contacts(u) \/ added(u) \/ status(u) \/ farewell(u) \/ RemoveSession(u)
  \/ \E cs \in SUBSET (Users \ {u}) :
       Ready(u) /\ (contactList(u, cs) \/ (ver[u] # 3 /\ (visibleList(u, cs) \/ invisibleList(u, cs))))
  \/ \E c \in Users \ {u} : Ready(u) /\ userAdd(u, c)
  \/ \E s \in Statuses : Ready(u) /\ (setStatusFirst(u, s) \/ handleSetStateV3(u, s))
  \/ Leave(u) \/ pump(u)

LEMMA FreshSession ==
  ASSUME NEW b \in BOOLEAN
  PROVE  LET S == [newLegacySession EXCEPT !.active = b]
         IN  /\ S \in Sessions /\ S.contacts = {} /\ S.known = {} /\ S.status = 0 /\ S.oscar = 0
             /\ S.visible = {} /\ S.invisible = {} /\ S.active = b
BY DEF newLegacySession, Sessions

LEMMA Kinds ==
  ASSUME PresenceType, NEW u \in Users, OneInv(u), Handling(u), Statuses \subseteq Codes
  PROVE  Kind(u)
<1> USE DEF Kind
<1>1. ASSUME CreateSession(u), job[u] = <<>>, \E s \in Statuses \cup {0} : start(u, <<<<"announce", s>>>>),
             UNCHANGED <<ver, tables, raced>>
      PROVE  Enter(u)
  <2>1. install(u, [newLegacySession EXCEPT !.active = TRUE])
    BY <1>1 DEF CreateSession
  <2>2. 0 \in Statuses \cup {0} /\ 0 \in Codes
    BY DEF Codes, Invisible
  <2>3. QED
    BY <1>1, <2>1, <2>2, FreshSession DEF Enter, Announcing
<1>2. CASE handleV1Login(u)
  BY <1>1, <1>2 DEF handleV1Login, login, idle
<1>3. CASE handleLoginV2(u)
  BY <1>1, <1>3 DEF handleLoginV2, login, idle
<1>4. CASE handleLoginV3(u)
  BY <1>1, <1>4 DEF handleLoginV3, login, idle
<1>5. CASE handleLoginV5(u)
  BY <1>1, <1>5 DEF handleLoginV5, login, idle
<1>6. CASE handleGetDepsV4(u)
  <2>1. /\ install(u, newLegacySession) /\ job[u] = <<>> /\ UNCHANGED <<ver, tables, raced, job>>
    BY <1>6 DEF handleGetDepsV4, CreatePendingSession, idle
  <2>2. LET S == newLegacySession
        IN  /\ S \in Sessions /\ S.contacts = {} /\ S.known = {} /\ S.status = 0 /\ S.oscar = 0
            /\ S.visible = {} /\ S.invisible = {} /\ ~S.active
    BY DEF newLegacySession, Sessions
  <2>3. 0 \in Statuses \cup {0} /\ 0 \in Codes
    BY DEF Codes, Invisible
  <2>4. QED
    BY <2>1, <2>2, <2>3 DEF Enter
<1>7. CASE handleLoginV4(u)
  <2>1. CASE ~(sess[u] # Absent /\ ~active(u))
    BY <1>1, <1>7, <2>1 DEF handleLoginV4, login, idle
  <2>2. CASE sess[u] # Absent /\ ~active(u)
    <3> DEFINE S == [sess[u] EXCEPT !.active = TRUE]
    <3>1. sess[u] \in Sessions /\ ver[u] = 4 /\ entering(u)
      BY <2>2, <1>7 DEF PresenceType, handleLoginV4, login, entering, active
    <3>2. sess[u].contacts = {} /\ sess[u].known = {} /\ sess[u].status \in Statuses \cup {0} /\ sess[u].oscar \in Codes
      BY <3>1, <2>2 DEF OneInv, EnteringInv, SessInv
    <3>3. /\ S \in Sessions /\ S.contacts = {} /\ S.known = {} /\ S.status \in Statuses \cup {0}
          /\ S.oscar \in Codes /\ S.active
      BY <3>1, <3>2 DEF Sessions
    <3>4. install(u, S) /\ job[u] = <<>> /\ (\E s \in Statuses : start(u, Announcing(s))) /\ UNCHANGED <<ver, tables, raced>>
      BY <1>7, <2>2 DEF handleLoginV4, AttachOSCARSession, login, idle, Announcing
    <3> HIDE DEF S
    <3>5. QED
      BY <3>1, <3>3, <3>4 DEF Enter
  <2>3. QED
    BY <2>1, <2>2
<1>8. CASE announce(u) \/ contacts(u) \/ added(u) \/ status(u) \/ farewell(u) \/ RemoveSession(u) \/ pump(u)
  BY <1>8
<1>9. ASSUME NEW cs \in SUBSET (Users \ {u}),
             \/ handleContactListV2(u, cs) \/ handleContactListV3(u, cs)
             \/ handleContactListV4(u, cs) \/ handleContactListV5(u, cs)
      PROVE  Ready(u) /\ contactList(u, cs)
  BY <1>9 DEF handleContactListV2, handleContactListV3, handleContactListV4, handleContactListV5, serves, idle, Ready
<1>10. ASSUME NEW cs \in SUBSET (Users \ {u}),
              \/ handleVisibleListV2(u, cs) \/ handleInvisibleListV2(u, cs)
              \/ handleVisibleListV5(u, cs) \/ handleInvisibleListV5(u, cs)
       PROVE  Ready(u) /\ ver[u] # 3 /\ (visibleList(u, cs) \/ invisibleList(u, cs))
  BY <1>10 DEF handleVisibleListV2, handleInvisibleListV2, handleVisibleListV5, handleInvisibleListV5,
     serves, idle, Ready
<1>11. ASSUME NEW c \in Users \ {u},
              \/ handleUserAddV2(u, c) \/ handleUserAddV3(u, c) \/ handleUserAddV4(u, c) \/ handleUserAddV5(u, c)
       PROVE  Ready(u) /\ userAdd(u, c)
  BY <1>11 DEF handleUserAddV2, handleUserAddV3, handleUserAddV4, handleUserAddV5, serves, idle, Ready
<1>12. ASSUME NEW s \in Statuses,
              \/ handleSetStatusV2(u, s) \/ handleSetStatusV3(u, s) \/ handleSetStatusV4(u, s)
              \/ handleSetStatusV5(u, s)
       PROVE  Ready(u) /\ setStatusFirst(u, s)
  BY <1>12 DEF handleSetStatusV2, handleSetStatusV3, handleSetStatusV4, handleSetStatusV5, serves, idle, Ready
<1>13. ASSUME NEW s \in Statuses, handleSetStateV3(u, s)
       PROVE  Ready(u)
  BY <1>13 DEF handleSetStateV3, serves, idle, Ready
<1>14. CASE handleLogoffV2(u)
  <2> DEFINE P == {sendUserOfflineV2(v, u) : v \in {w \in BroadcastToContacts(u) : ver[w] < 3}}
  <2>1. \A p \in P : p.kind = "offline" /\ p.about = u
    BY DEF sendUserOfflineV2, About
  <2>2. logoff(u, P) /\ sess[u] # Absent /\ job[u] = <<>>
    BY <1>14 DEF handleLogoffV2, serves, idle, active
  <2> HIDE DEF P
  <2>3. QED
    BY <2>1, <2>2 DEF Leave
<1>15. CASE handleLogoffV3(u) \/ handleLogoffV4(u) \/ handleLogoffV5(u)
  <2> DEFINE P == notifyContactsUserOffline(u)
  <2>1. \A p \in P : p.kind = "offline" /\ p.about = u
    BY PacketsSent DEF notifyContactsUserOffline, NotifyContactsOfStatus, About
  <2>2. logoff(u, P) /\ sess[u] # Absent /\ job[u] = <<>>
    BY <1>15 DEF handleLogoffV3, handleLogoffV4, handleLogoffV5, serves, idle, active
  <2> HIDE DEF P
  <2>3. QED
    BY <2>1, <2>2 DEF Leave
<1>16. CASE expire(u)
  <2> DEFINE P == {SendUserOffline(v, u) : v \in BroadcastToContacts(u)}
  <2>2. logoff(u, P) /\ sess[u] # Absent /\ job[u] = <<>>
    BY <1>16 DEF expire, idle
  <2>1. \A p \in P : p.kind = "offline" /\ p.about = u
    <3>1. sess[u].contacts \subseteq Users
      BY <2>2 DEF PresenceType, Sessions
    <3>2. QED
      BY <3>1, PacketsSent DEF BroadcastToContacts, About
  <2> HIDE DEF P
  <2>3. QED
    BY <2>1, <2>2 DEF Leave
<1>17. QED
  BY <1>2, <1>3, <1>4, <1>5, <1>6, <1>7, <1>8, <1>9, <1>10, <1>11, <1>12, <1>13, <1>14, <1>15, <1>16 DEF Handling

-----------------------------------------------------------------------------
(* What steps make of jobs and queues.                                     *)

LEMMA JobSteps ==
  ASSUME PresenceType, NEW u \in Users
  PROVE  /\ step(u, "announce") => \E s \in Codes : /\ job[u] = Announcing(s) /\ argument(u) = s
                                                    /\ job' = [job EXCEPT ![u] = <<>>]
         /\ step(u, "contacts") => job[u] = Listing /\ job' = [job EXCEPT ![u] = <<>>]
         /\ step(u, "added") => \E c \in Users : /\ job[u] = Adding(c) /\ argument(u) = c
                                                 /\ job' = [job EXCEPT ![u] = <<>>]
         /\ step(u, "status") => changing(u) /\ job' = [job EXCEPT ![u] = <<>>]
         /\ step(u, "farewell") => job[u] = Leaving /\ job' = [job EXCEPT ![u] = Left]
         /\ step(u, "remove") => job[u] = Left /\ job' = [job EXCEPT ![u] = <<>>]
<1>1. job[u] \in Jobs
  BY DEF PresenceType
<1>2. \/ job[u] = <<>> \/ job[u] = Listing \/ job[u] = Leaving \/ job[u] = Left
      \/ \E s \in Codes : job[u] = Announcing(s)
      \/ \E s \in Codes : job[u] = Changing(s)
      \/ \E c \in Users : job[u] = Adding(c)
  BY <1>1 DEF Jobs
<1>3. \A kind, arg : /\ Head(<<<<kind, arg>>>>) = <<kind, arg>>
                     /\ Head(<<<<kind, arg>>>>)[1] = kind /\ Head(<<<<kind, arg>>>>)[2] = arg
                     /\ Tail(<<<<kind, arg>>>>) = <<>>
  OBVIOUS
<1>4. /\ \A s : Head(Announcing(s))[1] = "announce" /\ Head(Announcing(s))[2] = s /\ Tail(Announcing(s)) = <<>>
      /\ \A s : Head(Changing(s))[1] = "status" /\ Tail(Changing(s)) = <<>>
      /\ \A c : Head(Adding(c))[1] = "added" /\ Head(Adding(c))[2] = c /\ Tail(Adding(c)) = <<>>
      /\ Head(Listing)[1] = "contacts" /\ Tail(Listing) = <<>>
      /\ Head(Left)[1] = "remove" /\ Tail(Left) = <<>>
  BY <1>3 DEF Announcing, Changing, Adding, Listing, Left
<1>12. Head(Leaving)[1] = "farewell" /\ Tail(Leaving) = Left
  BY DEF Leaving, Left
<1>13. \A kind : step(u, kind) => job[u] # <<>> /\ Head(job[u])[1] = kind /\ job' = [job EXCEPT ![u] = Tail(job[u])]
  BY DEF step
<1>5. step(u, "announce") =>
        \E s \in Codes : job[u] = Announcing(s) /\ argument(u) = s /\ job' = [job EXCEPT ![u] = <<>>]
  BY <1>2, <1>4, <1>12, <1>13 DEF argument
<1>6. step(u, "contacts") => job[u] = Listing /\ job' = [job EXCEPT ![u] = <<>>]
  BY <1>2, <1>4, <1>12, <1>13
<1>7. step(u, "added") =>
        \E c \in Users : job[u] = Adding(c) /\ argument(u) = c /\ job' = [job EXCEPT ![u] = <<>>]
  BY <1>2, <1>4, <1>12, <1>13 DEF argument
<1>8. step(u, "status") => changing(u) /\ job' = [job EXCEPT ![u] = <<>>]
  BY <1>2, <1>4, <1>12, <1>13 DEF changing
<1>9. step(u, "farewell") => job[u] = Leaving /\ job' = [job EXCEPT ![u] = Left]
  BY <1>2, <1>4, <1>12, <1>13
<1>10. step(u, "remove") => job[u] = Left /\ job' = [job EXCEPT ![u] = <<>>]
  BY <1>2, <1>4, <1>12, <1>13
<1>11. QED
  BY <1>5, <1>6, <1>7, <1>8, <1>9, <1>10

\* No two jobs are confused.
LEMMA JobsDiffer ==
  ASSUME NEW s, NEW c
  PROVE  /\ Announcing(s) \notin {<<>>, Listing, Leaving, Left, Adding(c), Changing(c)}
         /\ Changing(s) \notin {<<>>, Listing, Leaving, Left, Adding(c)}
         /\ Adding(s) \notin {<<>>, Listing, Leaving, Left}
         /\ Adding(s) = Adding(c) => s = c
         /\ Announcing(s) = Announcing(c) => s = c
         /\ Listing \notin {<<>>, Leaving, Left} /\ Leaving \notin {<<>>, Left} /\ Left # <<>>
<1>1. \A k, l, a, b : <<<<k, a>>>> = <<<<l, b>>>> => k = l /\ a = b
  <2> SUFFICES ASSUME NEW k, NEW l, NEW a, NEW b, <<<<k, a>>>> = <<<<l, b>>>> PROVE k = l /\ a = b
    OBVIOUS
  <2>1. <<<<k, a>>>>[1] = <<<<l, b>>>>[1]
    OBVIOUS
  <2>2. <<k, a>> = <<l, b>>
    BY <2>1
  <2>3. QED
    BY <2>2
<1>2. \A k, a : Len(<<<<k, a>>>>) = 1 /\ Len(Leaving) = 2 /\ Len(<<>>) = 0
  BY DEF Leaving
<1>3. /\ Announcing(s) \notin {<<>>, Leaving} /\ Changing(s) \notin {<<>>, Leaving}
      /\ Adding(s) \notin {<<>>, Leaving} /\ Listing \notin {<<>>, Leaving}
      /\ Left \notin {<<>>, Leaving} /\ Leaving # <<>>
  BY <1>2 DEF Announcing, Changing, Adding, Listing, Left
<1>4. QED
  BY <1>1, <1>3 DEF Announcing, Changing, Adding, Listing, Left

LEMMA SetToSeqLists ==
  ASSUME NEW S, IsFiniteSet(S)
  PROVE  /\ SetToSeq(S) \in Seq(S)
         /\ \A i, j \in DOMAIN SetToSeq(S) : SetToSeq(S)[i] = SetToSeq(S)[j] => i = j
         /\ \A x \in S : \E i \in DOMAIN SetToSeq(S) : SetToSeq(S)[i] = x
<1> DEFINE n == Cardinality(S)
           f == SetToSeq(S)
<1>1. n \in Nat /\ ExistsBijection(1..n, S)
  BY FS_CardinalityType
<1>2. \E g \in [1..n -> S] : IsInjective(g)
  BY <1>1 DEF ExistsBijection, Bijection, Injection
<1>3. f \in [1..n -> S] /\ IsInjective(f)
  BY <1>2 DEF SetToSeq
<1>4. f \in Injection(1..n, S)
  BY <1>3 DEF Injection
<1>5. Cardinality(1..n) = n
  BY <1>1, FS_Interval
<1>6. f \in Surjection(1..n, S)
  BY <1>4, <1>5, FS_Injection
<1>7. f \in Seq(S) /\ DOMAIN f = 1..n
  BY <1>1, <1>3
<1> HIDE DEF f
<1>8. QED
  BY <1>3, <1>6, <1>7 DEF IsInjective, Surjection, f

\* The queue of v has got the messages ms.
grown(v, ms) == ms \in Seq(Messages) /\ queue'[v] = queue[v] \o ms

LEMMA Relayed ==
  ASSUME PresenceType, NEW to, NEW m \in Messages, relay(to, m), NEW v \in Users
  PROVE  grown(v, IF v \in to THEN <<m>> ELSE <<>>)
<1>1. queue[v] \in Seq(Messages)
  BY DEF PresenceType
<1>2. queue'[v] = IF v \in to THEN Append(queue[v], m) ELSE queue[v]
  BY DEF relay
<1>3. Append(queue[v], m) = queue[v] \o <<m>> /\ queue[v] \o <<>> = queue[v]
  BY <1>1
<1>4. <<m>> \in Seq(Messages) /\ <<>> \in Seq(Messages)
  OBVIOUS
<1>5. QED
  BY <1>2, <1>3, <1>4 DEF grown

\* The contacts whose arrival u is told of, and those told of his.
metBy(u, cs) == {c \in cs : c \notin AuthRequired /\ active(c) /\ {u, c} \subseteq modeRow}
news(u, cs) == {c \in metBy(u, cs) : ~isInvisible(sess[c].oscar)}
hosts(u, cs) == {c \in metBy(u, cs) : <<c, u>> \in rows /\ ~isInvisible(sess[u].oscar)}

\* One message for each of them.
arrivals(ms, u, cs) ==
  /\ \A k \in DOMAIN ms : ms[k].about \in news(u, cs) /\ ms[k] = Arrived(ms[k].about, sess[ms[k].about].oscar)
  /\ \A k, l \in DOMAIN ms : ms[k].about = ms[l].about => k = l
  /\ \A c \in news(u, cs) : \E k \in DOMAIN ms : ms[k].about = c

LEMMA BuddiesAdded ==
  ASSUME PresenceType, NEW u \in Users, NEW cs \in SUBSET (Users \ {u}), AddBuddies(u, cs),
         \A x \in Users : OneInv(x), active(u), IsFiniteSet(Users)
  PROVE  /\ \A v \in Users \ {u} :
              grown(v, IF v \in hosts(u, cs) THEN <<Arrived(u, sess[u].oscar)>> ELSE <<>>)
         /\ \E ms : grown(u, ms) /\ arrivals(ms, u, cs)
<1> DEFINE mine == SetToSeq(news(u, cs))
           ms == [i \in DOMAIN mine |-> Arrived(mine[i], sess[mine[i]].oscar)]
<1>1. queue' = [v \in Users |->
        IF v = u THEN queue[u] \o ms
        ELSE IF v \in hosts(u, cs) THEN Append(queue[v], Arrived(u, sess[u].oscar)) ELSE queue[v]]
  <2>1. /\ news(u, cs) = {c \in {d \in {e \in cs : ~RequiresAuthorization(e)} : active(d) /\ {u, d} \subseteq modeRow} :
                            ~isInvisible(sess[c].oscar)}
        /\ hosts(u, cs) = {c \in {d \in {e \in cs : ~RequiresAuthorization(e)} : active(d) /\ {u, d} \subseteq modeRow} :
                            <<c, u>> \in rows /\ ~isInvisible(sess[u].oscar)}
    BY DEF news, hosts, metBy, RequiresAuthorization
  <2>2. QED
    BY <2>1 DEF AddBuddies
<1>2. /\ mine \in Seq(news(u, cs))
      /\ \A i, j \in DOMAIN mine : mine[i] = mine[j] => i = j
      /\ \A x \in news(u, cs) : \E i \in DOMAIN mine : mine[i] = x
  <2>1. IsFiniteSet(news(u, cs))
    BY FS_Subset DEF news, metBy
  <2> HIDE DEF mine
  <2>2. QED
    BY <2>1, SetToSeqLists DEF mine
<1>3. \A c \in Users : active(c) => Arrived(c, sess[c].oscar) \in Messages
  BY DEF OneInv, SessInv, Messages, Arrived, active
<1>4. news(u, cs) \subseteq Users /\ \A c \in news(u, cs) : active(c)
  BY DEF news, metBy
<1> HIDE DEF mine
<1>5. ms \in Seq(Messages)
  <2>1. \A i \in DOMAIN mine : mine[i] \in news(u, cs)
    BY <1>2
  <2>2. DOMAIN mine = 1..Len(mine) /\ Len(mine) \in Nat
    BY <1>2
  <2>3. \A i \in 1..Len(mine) : Arrived(mine[i], sess[mine[i]].oscar) \in Messages
    BY <2>1, <2>2, <1>3, <1>4
  <2>4. QED
    BY <2>2, <2>3
<1>6. grown(u, ms) /\ arrivals(ms, u, cs)
  <2>1. grown(u, ms)
    BY <1>1, <1>5 DEF grown
  <2>2. DOMAIN ms = DOMAIN mine /\ \A k \in DOMAIN mine : ms[k] = Arrived(mine[k], sess[mine[k]].oscar)
    OBVIOUS
  <2>3. \A k \in DOMAIN mine : mine[k] \in news(u, cs)
    BY <1>2
  <2>4. \A k \in DOMAIN mine : ms[k].about = mine[k]
    BY <2>2 DEF Arrived
  <2> HIDE DEF ms
  <2>5. QED
    BY <2>1, <2>2, <2>3, <2>4, <1>2 DEF arrivals
<1>7. \A v \in Users \ {u} : grown(v, IF v \in hosts(u, cs) THEN <<Arrived(u, sess[u].oscar)>> ELSE <<>>)
  <2> TAKE v \in Users \ {u}
  <2>1. queue[v] \in Seq(Messages) /\ Arrived(u, sess[u].oscar) \in Messages
    BY <1>3 DEF PresenceType
  <2>2. queue'[v] = IF v \in hosts(u, cs) THEN Append(queue[v], Arrived(u, sess[u].oscar)) ELSE queue[v]
    BY <1>1
  <2>3. Append(queue[v], Arrived(u, sess[u].oscar)) = queue[v] \o <<Arrived(u, sess[u].oscar)>>
        /\ queue[v] \o <<>> = queue[v]
    BY <2>1
  <2>4. <<Arrived(u, sess[u].oscar)>> \in Seq(Messages) /\ <<>> \in Seq(Messages)
    BY <2>1
  <2>5. QED
    BY <2>2, <2>3, <2>4 DEF grown
<1>8. QED
  BY <1>6, <1>7

LEMMA ReceivedType ==
  ASSUME PresenceType, NEW P, \A p \in P : p.status \in Codes
  PROVE  receive(P) \in [Users -> [Users -> Codes \cup {Offline}]]
<1>1. \A v, c \in Users : receive(P)[v][c] \in Codes \cup {Offline}
  <2> TAKE v, c \in Users
  <2>1. shows[v][c] \in Codes \cup {Offline}
    BY DEF PresenceType
  <2>2. QED
    BY <2>1, Received DEF made
<1>2. receive(P) = [x \in Users |-> [y \in Users |-> receive(P)[x][y]]]
  BY Zenon DEF receive
<1>3. QED
  BY <1>1, <1>2

-----------------------------------------------------------------------------
(* Types.                                                                  *)

LEMMA Assumed == IsFiniteSet(Users) /\ Absent \notin Sessions /\ Offline \notin Nat /\ Statuses \subseteq Codes
              /\ 0 \in Codes
<1>1. Statuses \subseteq Codes /\ 0 \in Codes
  BY LegacyPresenceAssumption DEF Codes, Invisible
<1>2. QED
  BY <1>1, LegacyPresenceAssumption

LEMMA SentCodes ==
  ASSUME NEW s \in Codes, NEW v
  PROVE  sent(v, s) \in Codes /\ (isInvisible(sent(v, s)) <=> isInvisible(s))
BY CodesKept DEF sent

\* The packets of the handlers, by receiver, contact and status.
LEMMA PacketsOf ==
  ASSUME PresenceType, NEW u \in Users, \A x \in Users : OneInv(x)
  PROVE  /\ sess[u] # Absent => \A p \in onlineContacts(u) :
              \E c \in Users : /\ c \in sess[u].contacts /\ contactStatus(u, c) # Offline
                               /\ p = About("online", u, c, sent(u, contactStatus(u, c)))
         /\ \A p \in notifyContactsUserOnline(u) :
              \E v \in Users : v # u /\ p = About("online", v, u, sent(v, sess[u].status))
         /\ \A p \in broadcastStatusChange(u) :
              \E v \in Users : v # u /\ p = About("status", v, u, sent(v, sess[u].status))
         /\ \A c \in Users : contactStatus(u, c) # Offline => sess[c] # Absent /\ contactStatus(u, c) \in Codes
<1>1. ASSUME sess[u] # Absent
      PROVE  \A p \in onlineContacts(u) :
              \E c \in Users : /\ c \in sess[u].contacts /\ contactStatus(u, c) # Offline
                               /\ p = About("online", u, c, sent(u, contactStatus(u, c)))
  <2>1. sess[u].contacts \subseteq Users
    BY <1>1 DEF PresenceType, Sessions
  <2>2. QED
    BY <2>1, PacketsSent DEF onlineContacts
<1>2. \A p \in notifyContactsUserOnline(u) :
        \E v \in Users : v # u /\ p = About("online", v, u, sent(v, sess[u].status))
  BY PacketsSent DEF notifyContactsUserOnline, NotifyContactsOfStatus
<1>3. \A p \in broadcastStatusChange(u) :
        \E v \in Users : v # u /\ p = About("status", v, u, sent(v, sess[u].status))
  BY PacketsSent DEF broadcastStatusChange, NotifyContactsOfStatus
<1>4. \A c \in Users : contactStatus(u, c) # Offline => sess[c] # Absent /\ contactStatus(u, c) \in Codes
  <2> SUFFICES ASSUME NEW c \in Users, contactStatus(u, c) # Offline
               PROVE  sess[c] # Absent /\ contactStatus(u, c) \in Codes
    OBVIOUS
  <2>1. sess[c] # Absent
    BY DEF contactStatus
  <2>2. sess[c].status \in Codes /\ sess[c].oscar \in Codes
    BY <2>1, Assumed DEF OneInv, SessInv
  <2>3. mapOSCARStatusToLegacy(sess[c].oscar) \in Codes
    BY <2>2, CodesKept DEF mapOSCARStatusToLegacy
  <2>4. QED
    BY <2>1, <2>2, <2>3 DEF contactStatus
<1>5. QED
  BY <1>1, <1>2, <1>3, <1>4

LEMMA StatusesAreCodes ==
  ASSUME \A x \in Users : OneInv(x), NEW u \in Users, sess[u] # Absent
  PROVE  sess[u].status \in Codes /\ sess[u].oscar \in Codes
BY Assumed DEF OneInv, SessInv

\* A message about a user may be sent to anybody.
LEMMA MessageTypes ==
  ASSUME NEW u \in Users, NEW s \in Codes
  PROVE  Arrived(u, s) \in Messages /\ Departed(u) \in Messages
BY DEF Arrived, Departed, Messages, Codes, Invisible

LEMMA RelayType ==
  ASSUME PresenceType, NEW to, NEW m \in Messages, relay(to, m)
  PROVE  queue' \in [Users -> Seq(Messages)]
BY DEF relay, PresenceType

LEMMA QueueGrows ==
  ASSUME PresenceType, NEW v \in Users, NEW ms, grown(v, ms)
  PROVE  queue'[v] \in Seq(Messages)
BY DEF grown, PresenceType

Outset == PresenceType /\ \A x \in Users : OneInv(x)

LEMMA BuddiesGrow ==
  ASSUME Outset, NEW u \in Users, NEW cs \in SUBSET (Users \ {u}), AddBuddies(u, cs), active(u)
  PROVE  \A v \in Users : \E ms : grown(v, ms)
<1>1. /\ \A v \in Users \ {u} : grown(v, IF v \in hosts(u, cs) THEN <<Arrived(u, sess[u].oscar)>> ELSE <<>>)
      /\ \E ms : grown(u, ms)
  <2>1. PresenceType /\ IsFiniteSet(Users) /\ \A x \in Users : OneInv(x)
    BY Assumed DEF Outset
  <2> HIDE DEF grown
  <2>2. QED
    BY <2>1, BuddiesAdded, Zenon
<1>2. QED
  BY <1>1, Zenon

LEMMA EnterType ==
  ASSUME Outset, NEW u \in Users, Enter(u)
  PROVE  PresenceType'
<1>1. nothingShown \in [Users -> Codes \cup {Offline}]
  BY DEF nothingShown
<1>2. PICK S \in Sessions : install(u, S)
  BY DEF Enter
<1>3. job' \in [Users -> Jobs]
  <2>1. \A s \in Statuses \cup {0} : Announcing(s) \in Jobs
    BY Assumed DEF Jobs
  <2>2. QED
    BY <2>1 DEF Enter, start, Outset, PresenceType
<1>4. /\ sess' = [sess EXCEPT ![u] = S] /\ queue' = [queue EXCEPT ![u] = <<>>]
      /\ shows' = [shows EXCEPT ![u] = nothingShown] /\ unannounced' \subseteq Users
  BY <1>2 DEF install, set, Outset, PresenceType
<1>5. QED
  BY <1>1, <1>3, <1>4 DEF Enter, Outset, PresenceType, tables

LEMMA AnnounceType ==
  ASSUME Outset, NEW u \in Users, announce(u)
  PROVE  PresenceType'
<1>1. PICK s \in Codes : job[u] = Announcing(s) /\ argument(u) = s /\ job' = [job EXCEPT ![u] = <<>>]
  BY JobSteps DEF announce, Outset
<1>2. sess[u] \in Sessions /\ active(u)
  BY <1>1 DEF Outset, PresenceType, OneInv, AnnouncingInv, announcing, active
<1>3. mapLegacyStatusToOSCAR(s) \in Codes /\ s \in Nat /\ mapLegacyStatusToOSCAR(s) \in Nat
  BY CodesKept DEF Codes
<1>4. sess' = [sess EXCEPT ![u] = [sess[u] EXCEPT !.status = s, !.oscar = mapLegacyStatusToOSCAR(s)]]
  BY <1>1 DEF announce, NotifyStatusChange, NotifyUserOnline, setStatus, set
<1>5. [sess[u] EXCEPT !.status = s, !.oscar = mapLegacyStatusToOSCAR(s)] \in Sessions
  BY <1>2, <1>3 DEF Sessions
<1>6. \E to : \E m \in Messages : relay(to, m)
  BY <1>1, <1>3, MessageTypes DEF announce, NotifyStatusChange, NotifyUserOnline, BroadcastBuddyArrived,
     BroadcastBuddyDeparted
<1>7. shows' \in [Users -> [Users -> Codes \cup {Offline}]]
  <2> DEFINE P == {SendUserOnline(v, u, s) : v \in {w \in NotifyContactsOfStatus(u) : ~isInvisible(s) /\ ver[u] = 4}}
  <2>1. shows' = receive(P)
    BY <1>1 DEF announce
  <2>2. \A p \in P : p.status \in Codes
    BY PacketsSent, SentCodes DEF NotifyContactsOfStatus, About, Outset
  <2> HIDE DEF P
  <2>3. QED
    BY <2>1, <2>2, ReceivedType DEF Outset
<1>8. modeRow' \subseteq Users /\ rows' \subseteq Users \X Users /\ unannounced' \subseteq Users
  BY DEF announce, NotifyStatusChange, NotifyUserOnline, Outset, PresenceType, tables
<1>9. queue' \in [Users -> Seq(Messages)]
  BY <1>6, RelayType DEF Outset
<1>10. job' \in [Users -> Jobs]
  BY <1>1 DEF Outset, PresenceType, Jobs
<1>11. QED
  BY <1>4, <1>5, <1>7, <1>8, <1>9, <1>10 DEF announce, Outset, PresenceType

LEMMA StatusType ==
  ASSUME Outset, NEW u \in Users, status(u)
  PROVE  PresenceType'
<1>1. changing(u) /\ job' = [job EXCEPT ![u] = <<>>]
  BY JobSteps DEF status, Outset
<1>2. sess[u] # Absent /\ sess[u] \in Sessions
  BY <1>1, JobsDiffer DEF Outset, PresenceType, OneInv, AbsentInv, changing
<1>3. sess[u].status \in Codes
  BY <1>2, StatusesAreCodes DEF Outset
<1> DEFINE o == mapLegacyStatusToOSCAR(sess[u].status)
<1>4. o \in Codes /\ o \in Nat /\ sess[u].status \in Nat
  BY <1>3, CodesKept DEF Codes
<1>5. sess' = [sess EXCEPT ![u] = [sess[u] EXCEPT !.status = sess[u].status, !.oscar = o]]
  BY DEF status, ProcessStatusChange, setStatus, set
<1> HIDE DEF o
<1>6. [sess[u] EXCEPT !.status = sess[u].status, !.oscar = o] \in Sessions
  BY <1>2, <1>4 DEF Sessions
<1>7. \E to : \E m \in Messages : relay(to, m)
  BY <1>4, MessageTypes DEF status, ProcessStatusChange, BroadcastBuddyArrived, BroadcastBuddyDeparted, o
<1>8. shows' \in [Users -> [Users -> Codes \cup {Offline}]]
  <2>1. \A p \in broadcastStatusChange(u) : p.status \in Codes
    BY <1>3, PacketsOf, SentCodes DEF About, Outset
  <2>2. QED
    BY <2>1, ReceivedType DEF Outset, status
<1>9. queue' \in [Users -> Seq(Messages)]
  BY <1>7, RelayType DEF Outset
<1>10. QED
  BY <1>1, <1>5, <1>6, <1>8, <1>9 DEF status, ProcessStatusChange, tables, Outset, PresenceType, Jobs

LEMMA ContactsType ==
  ASSUME Outset, NEW u \in Users, contacts(u)
  PROVE  PresenceType'
<1>1. job[u] = Listing /\ job' = [job EXCEPT ![u] = <<>>]
  BY JobSteps DEF contacts, Outset
<1>2. sess[u] # Absent /\ sess[u] \in Sessions
  BY <1>1, JobsDiffer DEF Outset, PresenceType, OneInv, AbsentInv
<1>3. sess[u].status \in Codes /\ sess[u].contacts \subseteq Users
  BY <1>2, StatusesAreCodes DEF Outset, Sessions
<1>4. \A p \in onlineContacts(u) \cup notifyContactsUserOnline(u) : p.status \in Codes
  BY <1>2, <1>3, PacketsOf, SentCodes DEF About, Outset
<1>5. shows' \in [Users -> [Users -> Codes \cup {Offline}]]
  BY <1>4, ReceivedType DEF Outset, contacts
<1>6. raced' \subseteq Users \X Users
  BY <1>3 DEF contacts, lookup, Outset, PresenceType
<1>7. QED
  BY <1>1, <1>5, <1>6 DEF contacts, tables, Outset, PresenceType, Jobs

LEMMA AddedType ==
  ASSUME Outset, NEW u \in Users, added(u)
  PROVE  PresenceType'
<1>1. PICK c \in Users : job[u] = Adding(c) /\ argument(u) = c /\ job' = [job EXCEPT ![u] = <<>>]
  BY JobSteps DEF added, Outset
<1>2. /\ c # u /\ sess[u] # Absent /\ active(u)
  BY <1>1, JobsDiffer DEF Outset, PresenceType, OneInv, AbsentInv, EnteringInv, JobInv, entering, active
<1>3. queue' \in [Users -> Seq(Messages)]
  <2>1. AddBuddies(u, {c}) /\ {c} \in SUBSET (Users \ {u})
    BY <1>1, <1>2 DEF added, ProcessUserAdd
  <2>2. \A v \in Users : \E ms : grown(v, ms)
    BY <1>2, <2>1, BuddiesGrow
  <2>3. DOMAIN queue' = Users /\ queue' = [v \in Users |-> queue'[v]]
    BY <2>1 DEF AddBuddies
  <2>4. QED
    BY <2>2, <2>3, QueueGrows DEF Outset
<1>4. shows' \in [Users -> [Users -> Codes \cup {Offline}]]
  <2>1. CASE sess[c] = Absent
    BY <1>1, <2>1 DEF added, Outset, PresenceType
  <2>2. CASE sess[c] # Absent
    <3> DEFINE P == {SendUserOnline(u, c, sess[c].status), SendUserOnline(c, u, sess[u].status)}
    <3>1. \A p \in P : p.status \in Codes
      BY <1>2, <2>2, StatusesAreCodes, PacketsSent, SentCodes DEF About, Outset
    <3>2. shows' = receive(P)
      BY <1>1, <2>2 DEF added
    <3> HIDE DEF P
    <3>3. QED
      BY <3>1, <3>2, ReceivedType DEF Outset
  <2>3. QED
    BY <2>1, <2>2
<1>5. raced' \subseteq Users \X Users /\ rows' \subseteq Users \X Users
  BY <1>1 DEF added, lookup, ProcessUserAdd, ownRows, Outset, PresenceType
<1>6. QED
  BY <1>1, <1>3, <1>4, <1>5 DEF added, Outset, PresenceType, Jobs

LEMMA LeavingType ==
  ASSUME Outset, NEW u \in Users, farewell(u) \/ RemoveSession(u) \/ Leave(u)
  PROVE  PresenceType'
<1>1. CASE farewell(u)
  <2>1. job[u] = Leaving /\ job' = [job EXCEPT ![u] = Left]
    BY <1>1, JobSteps DEF farewell, Outset
  <2>2. relay(listedBy(u), Departed(u)) /\ Departed(u) \in Messages
    <3>1. 0 \in Codes
      BY DEF Codes, Invisible
    <3>2. QED
      BY <1>1, <3>1, MessageTypes DEF farewell, NotifyUserOffline, BroadcastBuddyDeparted
  <2>3. queue' \in [Users -> Seq(Messages)]
    BY <2>2, RelayType DEF Outset
  <2>4. /\ modeRow' \subseteq Users /\ rows' \subseteq Users \X Users /\ raced' \subseteq Users \X Users
        /\ unannounced' \subseteq Users
    BY <1>1 DEF farewell, NotifyUserOffline, Outset, PresenceType
  <2>5. QED
    BY <1>1, <2>1, <2>3, <2>4 DEF farewell, Outset, PresenceType, Jobs
<1>2. CASE RemoveSession(u)
  <2>1. job[u] = Left /\ job' = [job EXCEPT ![u] = <<>>]
    BY <1>2, JobSteps DEF RemoveSession, Outset
  <2>2. nothingShown \in [Users -> Codes \cup {Offline}] /\ <<>> \in Seq(Messages)
    BY DEF nothingShown
  <2>3. QED
    BY <1>2, <2>1, <2>2 DEF RemoveSession, set, tables, history, Outset, PresenceType, Jobs
<1>3. CASE Leave(u)
  <2>1. PICK packets : logoff(u, packets) /\ \A p \in packets : p.kind = "offline" /\ p.about = u
    BY <1>3 DEF Leave
  <2>2. \A v, c \in Users : receive(packets)[v][c] \in Codes \cup {Offline}
    <3> TAKE v, c \in Users
    <3>1. shows[v][c] \in Codes \cup {Offline}
      BY DEF Outset, PresenceType
    <3>2. \A p \in packets : made(p, shows[v][c]) = Offline
      BY <2>1 DEF made
    <3>3. QED
      BY <3>1, <3>2, Received DEF Outset
  <2>3. receive(packets) = [x \in Users |-> [y \in Users |-> receive(packets)[x][y]]]
    BY Zenon DEF receive
  <2>4. shows' \in [Users -> [Users -> Codes \cup {Offline}]]
    BY <2>1, <2>2, <2>3 DEF logoff
  <2>5. job' = [job EXCEPT ![u] = Leaving]
    BY <2>1 DEF logoff, start, Leaving
  <2>6. QED
    BY <2>1, <2>4, <2>5 DEF logoff, tables, history, Outset, PresenceType, Jobs
<1>4. QED
  BY <1>1, <1>2, <1>3

LEMMA ListType ==
  ASSUME Outset, NEW u \in Users, NEW cs \in SUBSET (Users \ {u}), Ready(u),
         contactList(u, cs) \/ visibleList(u, cs) \/ invisibleList(u, cs)
  PROVE  PresenceType'
<1>1. sess[u] \in Sessions /\ active(u)
  BY DEF Ready, active, Outset, PresenceType
<1>2. CASE contactList(u, cs)
  <2>1. [sess[u] EXCEPT !.contacts = cs] \in Sessions
    BY <1>1 DEF Sessions
  <2>2. queue' \in [Users -> Seq(Messages)]
    <3>1. AddBuddies(u, cs)
      BY <1>2 DEF contactList
    <3>2. \A v \in Users : \E ms : grown(v, ms)
      BY <1>1, <3>1, BuddiesGrow
    <3>3. DOMAIN queue' = Users /\ queue' = [v \in Users |-> queue'[v]]
      BY <3>1 DEF AddBuddies
    <3>4. QED
      BY <3>2, <3>3, QueueGrows DEF Outset
  <2>3. rows' \subseteq Users \X Users
    BY <1>2 DEF contactList, ownRows, reverseRows, Outset, PresenceType
  <2>4. shows' \in [Users -> [Users -> Codes \cup {Offline}]]
    <3>1. [c \in Users |-> IF c \in cs THEN shows[u][c] ELSE Offline] \in [Users -> Codes \cup {Offline}]
      BY DEF Outset, PresenceType
    <3>2. shows' = [shows EXCEPT ![u] = [c \in Users |-> IF c \in cs THEN shows[u][c] ELSE Offline]]
      BY <1>2 DEF contactList
    <3>3. QED
      BY <3>1, <3>2 DEF Outset, PresenceType
  <2>5. job' \in [Users -> Jobs] /\ sess' = [sess EXCEPT ![u] = [sess[u] EXCEPT !.contacts = cs]]
    BY <1>2 DEF contactList, start, set, Listing, Jobs, Outset, PresenceType
  <2>6. QED
    BY <1>2, <2>1, <2>2, <2>3, <2>4, <2>5 DEF contactList, history, Outset, PresenceType
<1>3. CASE visibleList(u, cs)
  <2>1. [sess[u] EXCEPT !.visible = cs] \in Sessions
    BY <1>1 DEF Sessions
  <2>2. QED
    BY <1>3, <2>1 DEF visibleList, set, tables, history, Outset, PresenceType
<1>4. CASE invisibleList(u, cs)
  <2>1. [sess[u] EXCEPT !.invisible = cs] \in Sessions
    BY <1>1 DEF Sessions
  <2>2. QED
    BY <1>4, <2>1 DEF invisibleList, set, tables, history, Outset, PresenceType
<1>5. QED
  BY <1>2, <1>3, <1>4

LEMMA ChangeType ==
  ASSUME Outset, NEW u \in Users, Ready(u),
         \/ \E c \in Users \ {u} : userAdd(u, c)
         \/ \E s \in Statuses : setStatusFirst(u, s) \/ handleSetStateV3(u, s)
  PROVE  PresenceType'
<1>1. sess[u] \in Sessions
  BY DEF Ready, active, Outset, PresenceType
<1>2. ASSUME NEW c \in Users \ {u}, userAdd(u, c)
      PROVE  PresenceType'
  <2>1. [sess[u] EXCEPT !.contacts = sess[u].contacts \cup {c}] \in Sessions
    BY <1>1 DEF Sessions
  <2>2. job' \in [Users -> Jobs] /\ sess' = [sess EXCEPT ![u] = [sess[u] EXCEPT !.contacts = sess[u].contacts \cup {c}]]
    BY <1>2 DEF userAdd, start, set, Adding, Jobs, Outset, PresenceType
  <2>3. QED
    BY <1>2, <2>1, <2>2 DEF userAdd, tables, history, Outset, PresenceType
<1>3. ASSUME NEW s \in Statuses
      PROVE  s \in Codes /\ s \in Nat /\ [sess[u] EXCEPT !.status = s] \in Sessions
  <2>1. s \in Codes /\ s \in Nat
    BY <1>3, Assumed DEF Codes
  <2>2. QED
    BY <1>1, <2>1 DEF Sessions
<1>4. ASSUME NEW s \in Statuses, setStatusFirst(u, s)
      PROVE  PresenceType'
  <2>1. job' \in [Users -> Jobs] /\ sess' = [sess EXCEPT ![u] = [sess[u] EXCEPT !.status = s]]
    BY <1>3, <1>4 DEF setStatusFirst, start, set, Changing, Jobs, Outset, PresenceType
  <2>2. QED
    BY <1>3, <1>4, <2>1 DEF setStatusFirst, tables, history, Outset, PresenceType
<1>5. ASSUME NEW s \in Statuses, handleSetStateV3(u, s)
      PROVE  PresenceType'
  <2>1. PICK told \in SUBSET Users : shows' = receive({SendStatusChange(v, u, s) : v \in told})
    BY <1>5 DEF handleSetStateV3
  <2>2. \A p \in {SendStatusChange(v, u, s) : v \in told} : p.status \in Codes
    <3>1. \A v \in told : SendStatusChange(v, u, s) = About("status", v, u, sent(v, s)) /\ sent(v, s) \in Codes
      BY <1>3, PacketsSent, SentCodes DEF Outset
    <3>2. QED
      BY <3>1 DEF About
  <2>3. shows' \in [Users -> [Users -> Codes \cup {Offline}]]
    BY <2>1, <2>2, ReceivedType DEF Outset
  <2>4. sess' = [sess EXCEPT ![u] = [sess[u] EXCEPT !.status = s]] /\ unannounced' \subseteq Users
    BY <1>5 DEF handleSetStateV3, set, Outset, PresenceType
  <2>5. QED
    BY <1>3, <1>5, <2>3, <2>4 DEF handleSetStateV3, tables, Outset, PresenceType
<1>6. QED
  BY <1>2, <1>4, <1>5

\* What the pump does with one message.
LEMMA Pumps ==
  ASSUME Outset, NEW u \in Users, pump(u)
  PROVE  LET m == Head(queue[u])
         IN  /\ queue[u] # <<>> /\ m \in Messages /\ active(u) /\ sess[u] \in Sessions
             /\ queue' = [queue EXCEPT ![u] = Tail(queue[u])]
             /\ ~IsContact(u, m.about) => UNCHANGED <<sess, shows>>
             /\ IsContact(u, m.about) /\ m.kind = "arrived" =>
                  /\ sess' = [sess EXCEPT ![u] = [sess[u] EXCEPT !.known = sess[u].known \cup {m.about}]]
                  /\ shows' = receive({About(IF m.about \in sess[u].known THEN "status" ELSE "online",
                                              u, m.about, sent(u, oscarStatusToLegacy(m.status)))})
             /\ IsContact(u, m.about) /\ m.kind = "departed" =>
                  /\ sess' = [sess EXCEPT ![u] = [sess[u] EXCEPT !.known = sess[u].known \ {m.about}]]
                  /\ shows' = receive({About("offline", u, m.about, 0)})
             /\ UNCHANGED <<ver, modeRow, rows, job, raced, unannounced>>
<1> DEFINE m == Head(queue[u])
<1>1. queue[u] # <<>> /\ m \in Messages
  BY DEF pump, Outset, PresenceType
<1>2. active(u) /\ sess[u] \in Sessions
  BY <1>1 DEF Outset, PresenceType, OneInv, AbsentInv, EnteringInv, entering, active
<1>3. queue' = [queue EXCEPT ![u] = Tail(queue[u])] /\ UNCHANGED <<ver, modeRow, rows, job, raced, unannounced>>
  BY DEF pump, tables, history
<1>4. m.about \in Users
  BY <1>1 DEF Messages
<1>5. ~IsContact(u, m.about) => UNCHANGED <<sess, shows>>
  BY DEF pump
<1>6. IsContact(u, m.about) /\ m.kind = "arrived" =>
        /\ sess' = [sess EXCEPT ![u] = [sess[u] EXCEPT !.known = sess[u].known \cup {m.about}]]
        /\ shows' = receive({About(IF m.about \in sess[u].known THEN "status" ELSE "online",
                                    u, m.about, sent(u, oscarStatusToLegacy(m.status)))})
  BY <1>4, PacketsSent DEF pump, handleBuddyArrived, set, Outset
<1>7. IsContact(u, m.about) /\ m.kind = "departed" =>
        /\ sess' = [sess EXCEPT ![u] = [sess[u] EXCEPT !.known = sess[u].known \ {m.about}]]
        /\ shows' = receive({About("offline", u, m.about, 0)})
  BY <1>4, PacketsSent DEF pump, handleBuddyDeparted, set, Outset
<1>8. QED
  BY <1>1, <1>2, <1>3, <1>5, <1>6, <1>7

LEMMA PumpType ==
  ASSUME Outset, NEW u \in Users, pump(u)
  PROVE  PresenceType'
<1> DEFINE m == Head(queue[u])
<1>1. /\ queue[u] # <<>> /\ m \in Messages /\ sess[u] \in Sessions
      /\ queue' = [queue EXCEPT ![u] = Tail(queue[u])]
      /\ UNCHANGED <<ver, modeRow, rows, job, raced, unannounced>>
  BY Pumps
<1>2. queue' \in [Users -> Seq(Messages)]
  BY <1>1 DEF Outset, PresenceType
<1>3. m.about \in Users /\ m.status \in Codes /\ m.kind \in {"arrived", "departed"}
  BY <1>1 DEF Messages
<1>4. sess' \in [Users -> Sessions \cup {Absent}] /\ shows' \in [Users -> [Users -> Codes \cup {Offline}]]
  <2>1. CASE ~IsContact(u, m.about)
    BY <2>1, Pumps DEF Outset, PresenceType
  <2>2. CASE IsContact(u, m.about) /\ m.kind = "arrived"
    <3> DEFINE p == About(IF m.about \in sess[u].known THEN "status" ELSE "online",
                          u, m.about, sent(u, oscarStatusToLegacy(m.status)))
    <3>1. p.status \in Codes
      BY <1>3, CodesKept, SentCodes DEF About
    <3>2. shows' = receive({p})
      BY <2>2, Pumps
    <3>3. [sess[u] EXCEPT !.known = sess[u].known \cup {m.about}] \in Sessions
      BY <1>1, <1>3 DEF Sessions
    <3>4. sess' = [sess EXCEPT ![u] = [sess[u] EXCEPT !.known = sess[u].known \cup {m.about}]]
      BY <2>2, Pumps
    <3> HIDE DEF p, m
    <3>5. QED
      BY <3>1, <3>2, <3>3, <3>4, ReceivedType DEF Outset, PresenceType
  <2>3. CASE IsContact(u, m.about) /\ m.kind = "departed"
    <3> DEFINE p == About("offline", u, m.about, 0)
    <3>1. p.status \in Codes
      BY DEF About, Codes, Invisible
    <3>2. shows' = receive({p})
      BY <2>3, Pumps
    <3>3. [sess[u] EXCEPT !.known = sess[u].known \ {m.about}] \in Sessions
      BY <1>1, <1>3 DEF Sessions
    <3>4. sess' = [sess EXCEPT ![u] = [sess[u] EXCEPT !.known = sess[u].known \ {m.about}]]
      BY <2>3, Pumps
    <3> HIDE DEF p, m
    <3>5. QED
      BY <3>1, <3>2, <3>3, <3>4, ReceivedType DEF Outset, PresenceType
  <2>4. QED
    BY <1>3, <2>1, <2>2, <2>3
<1> HIDE DEF m
<1>5. QED
  BY <1>1, <1>2, <1>4 DEF Outset, PresenceType

LEMMA TypeKept ==
  ASSUME Outset, NEW u \in Users, Handling(u)
  PROVE  PresenceType'
<1>1. Kind(u)
  BY Kinds, Assumed DEF Outset
<1>2. QED
  BY <1>1, EnterType, AnnounceType, ContactsType, AddedType, StatusType, LeavingType, ListType, ChangeType,
     PumpType DEF Kind

-----------------------------------------------------------------------------
(* What holds of one user is kept.                                         *)

LEMMA ReceivedByContacts ==
  ASSUME Outset, NEW P, NEW x \in Users, NEW c \in Users, receive(P)[x][c] # Offline
  PROVE  IsContact(x, c)
<1>1. PresenceType /\ ShowsInv(x)
  BY DEF Outset, OneInv
<1>2. QED
  BY <1>1, Received DEF ShowsInv

\* A step that leaves a user's session alone.
LEMMA OthersKept ==
  ASSUME Outset, PresenceType', NEW x \in Users, ver' = ver,
         sess'[x] = sess[x], job'[x] = job[x], active(x) \/ queue'[x] = queue[x],
         x \in modeRow' <=> x \in modeRow, x \in unannounced' <=> x \in unannounced,
         \A c \in Users : shows'[x][c] # Offline => IsContact(x, c)
  PROVE  OneInv(x)'
<1>1. OneInv(x) /\ PresenceType
  BY DEF Outset
<1>2. AbsentInv(x)'
  <2> SUFFICES ASSUME sess[x] = Absent
               PROVE  /\ job[x] = <<>> /\ queue'[x] = <<>> /\ shows'[x] = nothingShown
                      /\ x \notin modeRow' /\ x \notin unannounced'
    BY DEF AbsentInv, nothingShown
  <2>1. ~active(x) /\ job[x] = <<>> /\ queue[x] = <<>> /\ x \notin modeRow /\ x \notin unannounced
    BY <1>1 DEF OneInv, AbsentInv, active
  <2>2. \A c \in Users : shows'[x][c] = Offline
    BY DEF IsContact
  <2>3. shows'[x] \in [Users -> Codes \cup {Offline}]
    BY DEF PresenceType
  <2>4. shows'[x] = nothingShown
    BY <2>2, <2>3 DEF nothingShown
  <2>5. QED
    BY <2>1, <2>4
<1>3. EnteringInv(x)'
  BY <1>1 DEF OneInv, EnteringInv, entering, active
<1>4. AnnouncingInv(x)' /\ FreshInv(x)' /\ ModeInv(x)' /\ AgreesInv(x)' /\ JobInv(x)'
  BY <1>1 DEF OneInv, AnnouncingInv, FreshInv, ModeInv, AgreesInv, JobInv, announcing, changing, entering,
     active, agrees
<1>5. SessInv(x)' /\ ShowsInv(x)'
  BY <1>1 DEF OneInv, SessInv, ShowsInv, IsContact
<1>6. QED
  BY <1>2, <1>3, <1>4, <1>5 DEF OneInv

LEMMA EnterOne ==
  ASSUME Outset, NEW u \in Users, Enter(u), NEW x \in Users
  PROVE  OneInv(x)'
<1>1. PICK S \in Sessions :
        /\ install(u, S)
        /\ S.contacts = {} /\ S.known = {} /\ S.status \in Statuses \cup {0} /\ S.oscar \in Codes
        /\ ver[u] = 3 => S.visible = {} /\ S.invisible = {}
        /\ \/ S.active /\ \E s \in Statuses \cup {0} : start(u, Announcing(s))
           \/ ~S.active /\ UNCHANGED job
  BY DEF Enter
<1>2. /\ sess' = [sess EXCEPT ![u] = S] /\ queue' = [queue EXCEPT ![u] = <<>>]
      /\ shows' = [shows EXCEPT ![u] = nothingShown] /\ UNCHANGED <<ver, modeRow, rows, raced>>
      /\ unannounced' = IF active(u) THEN unannounced \cup {u} ELSE unannounced
  BY <1>1 DEF install, set, Enter, tables
<1>3. PresenceType' /\ PresenceType /\ OneInv(u) /\ OneInv(x)
  BY EnterType DEF Outset
<1>4. CASE x # u
  <2>1. job'[x] = job[x]
    BY <1>1, <1>3, <1>4 DEF start, PresenceType
  <2>2. sess'[x] = sess[x] /\ queue'[x] = queue[x] /\ shows'[x] = shows[x]
    BY <1>2, <1>3, <1>4 DEF PresenceType
  <2>3. \A c \in Users : shows'[x][c] # Offline => IsContact(x, c)
    BY <1>3, <2>2 DEF OneInv, ShowsInv
  <2>4. QED
    BY <1>2, <1>3, <1>4, <2>1, <2>2, <2>3, OthersKept
<1>5. CASE x = u
  <2>1. sess'[u] = S /\ queue'[u] = <<>> /\ shows'[u] = nothingShown /\ job[u] = <<>> /\ S # Absent
    BY <1>1, <1>2, <1>3, Assumed DEF PresenceType, Enter
  <2>2. \/ S.active /\ \E s \in Codes : job'[u] = Announcing(s)
        \/ ~S.active /\ job'[u] = <<>>
    <3>1. \A s \in Statuses \cup {0} : s \in Codes
      BY Assumed
    <3>2. QED
      BY <1>1, <1>3, <2>1, <3>1 DEF start, PresenceType
  <2>3. u \in modeRow => active(u) \/ u \in unannounced
    BY <1>3, <2>1, JobsDiffer DEF OneInv, AbsentInv, FreshInv, entering, active
  <2>4. \A c \in Users : nothingShown[c] = Offline
    BY DEF nothingShown
  <2>5. AbsentInv(u)' /\ EnteringInv(u)' /\ AnnouncingInv(u)'
    BY <1>1, <2>1, <2>2, JobsDiffer DEF AbsentInv, EnteringInv, AnnouncingInv, entering, active, announcing
  <2>6. FreshInv(u)'
    BY <1>2, <2>3 DEF FreshInv
  <2>7. ModeInv(u)'
    <3>1. ver[u] = 1 => u \notin modeRow
      BY <1>3 DEF OneInv, ModeInv
    <3>2. QED
      BY <1>2, <2>1, <2>2, <3>1, JobsDiffer DEF ModeInv, announcing, active
  <2>8. AgreesInv(u)'
    BY <2>1, <2>2 DEF AgreesInv, announcing, active
  <2>11. JobInv(u)'
    <3>1. (\E s \in Statuses \cup {0} : job'[u] = Announcing(s)) \/ job'[u] = <<>>
      BY <1>1, <1>3, <2>1 DEF start, PresenceType
    <3>2. QED
      BY <3>1, JobsDiffer DEF JobInv
  <2>9. SessInv(u)' /\ ShowsInv(u)'
    BY <1>1, <1>2, <2>1, <2>4 DEF SessInv, ShowsInv
  <2>10. QED
    BY <1>5, <2>5, <2>6, <2>7, <2>8, <2>9, <2>11 DEF OneInv
<1>6. QED
  BY <1>4, <1>5

\* What relays and handlers do to the queues of those who are not connected.
LEMMA OnlyActive ==
  ASSUME Outset, NEW u \in Users, NEW x \in Users, ~active(x)
  PROVE  /\ x \notin listedBy(u)
         /\ \A cs : x \notin hosts(u, cs)
         /\ x \notin {v \in Users \ {u} : <<v, u>> \in rows /\ v \in modeRow /\ active(v)}
BY DEF listedBy, hosts, metBy

\* Who is told of an announcement, of version 1 nobody.
audience(u, s) ==
  {v \in Users \ {u} : /\ ver[u] # 1 /\ ~isInvisible(s)
                        /\ <<v, u>> \in rows /\ v \in modeRow /\ active(v)}

\* What the announcement of a session does.
LEMMA Announces ==
  ASSUME Outset, NEW u \in Users, announce(u)
  PROVE  \E s \in Statuses \cup {0} : LET o == mapLegacyStatusToOSCAR(s) IN
           /\ s \in Codes /\ o \in Codes /\ (isInvisible(o) <=> isInvisible(s))
           /\ announcing(u) /\ job' = [job EXCEPT ![u] = <<>>] /\ active(u) /\ sess[u] \in Sessions
           /\ sess' = [sess EXCEPT ![u] = [sess[u] EXCEPT !.status = s, !.oscar = o]]
           /\ modeRow' = IF ver[u] = 1 THEN modeRow ELSE modeRow \cup {u}
           /\ \A v \in Users : grown(v, IF v \in audience(u, s) THEN <<Arrived(u, o)>> ELSE <<>>)
           /\ \E P : /\ shows' = receive(P)
                     /\ \A p \in P : /\ p.to \in Users /\ p.about = u /\ p.kind = "online"
                                      /\ ~isInvisible(s) /\ ver[u] = 4 /\ p.status = sent(p.to, s)
           /\ unannounced' = unannounced \/ (ver[u] = 1 /\ unannounced' = unannounced \ {u})
           /\ UNCHANGED <<ver, rows, raced>>
<1>1. PICK s \in Codes : job[u] = Announcing(s) /\ argument(u) = s /\ job' = [job EXCEPT ![u] = <<>>]
  BY JobSteps DEF announce, Outset
<1> DEFINE o == mapLegacyStatusToOSCAR(s)
<1>2. s \in Statuses \cup {0} /\ announcing(u) /\ active(u) /\ sess[u] \in Sessions
  BY <1>1 DEF Outset, PresenceType, OneInv, AnnouncingInv, JobInv, announcing, active
<1>3. o \in Codes /\ (isInvisible(o) <=> isInvisible(s))
  BY CodesKept
<1> HIDE DEF o
<1>4. sess' = [sess EXCEPT ![u] = [sess[u] EXCEPT !.status = s, !.oscar = o]]
  BY <1>1 DEF announce, NotifyStatusChange, NotifyUserOnline, setStatus, set, o
<1>5. /\ modeRow' = IF ver[u] = 1 THEN modeRow ELSE modeRow \cup {u}
      /\ unannounced' = unannounced \/ (ver[u] = 1 /\ unannounced' = unannounced \ {u})
      /\ UNCHANGED <<ver, rows, raced>>
  BY DEF announce, NotifyStatusChange, NotifyUserOnline, tables
<1>6. relay(audience(u, s), Arrived(u, o))
  <2>1. CASE ver[u] = 1
    <3>1. listedBy(u) = {} /\ audience(u, s) = {}
      BY <2>1 DEF Outset, OneInv, ModeInv, listedBy, audience
    <3>2. \E m : relay({}, m)
      BY <1>1, <2>1, <3>1 DEF announce, NotifyStatusChange, BroadcastBuddyArrived, BroadcastBuddyDeparted
    <3>3. QED
      BY <3>1, <3>2 DEF relay
  <2>2. CASE ver[u] # 1
    <3>1. audience(u, s) = IF isInvisible(s) THEN {}
                           ELSE {v \in Users \ {u} : <<v, u>> \in rows /\ v \in modeRow /\ active(v)}
      BY <2>2 DEF audience
    <3>2. QED
      BY <1>1, <2>2, <3>1 DEF announce, NotifyUserOnline, o
  <2>3. QED
    BY <2>1, <2>2
<1>7. \A v \in Users : grown(v, IF v \in audience(u, s) THEN <<Arrived(u, o)>> ELSE <<>>)
  BY <1>3, <1>6, Relayed, MessageTypes DEF Outset
<1>8. \E P : /\ shows' = receive(P)
            /\ \A p \in P : /\ p.to \in Users /\ p.about = u /\ p.kind = "online"
                             /\ ~isInvisible(s) /\ ver[u] = 4 /\ p.status = sent(p.to, s)
  <2> DEFINE P == {SendUserOnline(v, u, s) : v \in {w \in NotifyContactsOfStatus(u) : ~isInvisible(s) /\ ver[u] = 4}}
  <2>1. shows' = receive(P)
    BY <1>1 DEF announce
  <2>2. \A p \in P : /\ p.to \in Users /\ p.about = u /\ p.kind = "online"
                     /\ ~isInvisible(s) /\ ver[u] = 4 /\ p.status = sent(p.to, s)
    BY PacketsSent DEF NotifyContactsOfStatus, About, Outset
  <2> HIDE DEF P
  <2>3. QED
    BY <2>1, <2>2
<1>9. QED
  BY <1>1, <1>2, <1>3, <1>4, <1>5, <1>7, <1>8 DEF o

\* A queue that gets nothing stays as it is.
LEMMA NothingGrown ==
  ASSUME PresenceType, NEW v \in Users, grown(v, <<>>)
  PROVE  queue'[v] = queue[v]
BY DEF grown, PresenceType

LEMMA AnnounceOne ==
  ASSUME Outset, NEW u \in Users, announce(u), NEW x \in Users
  PROVE  OneInv(x)'
<1>1. PresenceType' /\ PresenceType /\ OneInv(u) /\ OneInv(x)
  BY AnnounceType DEF Outset
<1> DEFINE o(s) == mapLegacyStatusToOSCAR(s)
<1>2. PICK s \in Statuses \cup {0} :
           /\ s \in Codes /\ o(s) \in Codes
           /\ announcing(u) /\ job' = [job EXCEPT ![u] = <<>>] /\ active(u) /\ sess[u] \in Sessions
           /\ sess' = [sess EXCEPT ![u] = [sess[u] EXCEPT !.status = s, !.oscar = o(s)]]
           /\ modeRow' = IF ver[u] = 1 THEN modeRow ELSE modeRow \cup {u}
           /\ \A v \in Users : grown(v, IF v \in audience(u, s) THEN <<Arrived(u, o(s))>> ELSE <<>>)
           /\ \E P : shows' = receive(P)
           /\ unannounced' = unannounced \/ (ver[u] = 1 /\ unannounced' = unannounced \ {u})
           /\ UNCHANGED <<ver, rows, raced>>
  BY Announces
<1>3. \A c \in Users : shows'[x][c] # Offline => IsContact(x, c)
  BY <1>2, ReceivedByContacts
<1>4. CASE x # u
  <2>1. active(x) \/ queue'[x] = queue[x]
    BY <1>1, <1>2, NothingGrown DEF audience
  <2>2. sess'[x] = sess[x] /\ job'[x] = job[x]
    BY <1>1, <1>2, <1>4 DEF PresenceType
  <2>3. QED
    BY <1>1, <1>2, <1>3, <1>4, <2>1, <2>2, OthersKept
<1>5. CASE x = u
  <2> DEFINE S == [sess[u] EXCEPT !.status = s, !.oscar = o(s)]
  <2>1. sess'[u] = S /\ job'[u] = <<>>
    BY <1>1, <1>2 DEF PresenceType
  <2>2. /\ S # Absent /\ S.active /\ S.contacts = sess[u].contacts /\ S.known = sess[u].known
        /\ S.visible = sess[u].visible /\ S.invisible = sess[u].invisible /\ S.status = s /\ S.oscar = o(s)
    <3> HIDE DEF o
    <3>3. s \in Nat /\ o(s) \in Nat
      BY <1>2 DEF Codes
    <3>1. S \in Sessions
      BY <1>2, <3>3 DEF Sessions
    <3>2. QED
      BY <3>1, <1>2, Assumed DEF Sessions, active
  <2> HIDE DEF S
  <2>3. AbsentInv(u)' /\ EnteringInv(u)' /\ AnnouncingInv(u)' /\ FreshInv(u)' /\ JobInv(u)'
    BY <2>1, <2>2, JobsDiffer DEF AbsentInv, EnteringInv, AnnouncingInv, FreshInv, JobInv, entering, active, announcing
  <2>4. ModeInv(u)'
    BY <1>1, <1>2, <2>1, JobsDiffer DEF ModeInv, OneInv
  <2>5. AgreesInv(u)'
    BY <2>1, <2>2 DEF AgreesInv, agrees
  <2>6. SessInv(u)' /\ ShowsInv(u)'
    BY <1>1, <1>2, <1>3, <1>5, <2>1, <2>2 DEF SessInv, ShowsInv, OneInv, IsContact, active
  <2>7. QED
    BY <1>5, <2>3, <2>4, <2>5, <2>6 DEF OneInv
<1>6. QED
  BY <1>4, <1>5

\* Whoever is on a job of these is connected.
LEMMA AtWork ==
  ASSUME Outset, NEW u \in Users,
         job[u] = Listing \/ changing(u) \/ (\E c \in Users : job[u] = Adding(c)) \/ announcing(u)
  PROVE  active(u) /\ sess[u] # Absent /\ sess[u] \in Sessions
<1>1. job[u] \notin {<<>>, Leaving, Left} \/ announcing(u)
  BY JobsDiffer DEF changing
<1>2. QED
  BY <1>1 DEF Outset, PresenceType, OneInv, AbsentInv, EnteringInv, AnnouncingInv, entering, active

\* What a status change does when the OSCAR side hears of it.
LEMMA Changes ==
  ASSUME Outset, NEW u \in Users, status(u)
  PROVE  LET o == mapLegacyStatusToOSCAR(sess[u].status) IN
           /\ sess[u].status \in Codes /\ o \in Codes /\ (isInvisible(o) <=> isInvisible(sess[u].status))
           /\ changing(u) /\ job' = [job EXCEPT ![u] = <<>>] /\ active(u) /\ sess[u] \in Sessions
           /\ sess' = [sess EXCEPT ![u] = [sess[u] EXCEPT !.oscar = o]]
           /\ \A v \in Users : grown(v, IF v \notin listedBy(u) THEN <<>>
                                        ELSE IF isInvisible(o) THEN <<Departed(u)>> ELSE <<Arrived(u, o)>>)
           /\ \E P : /\ shows' = receive(P)
                     /\ \A p \in P : p.about = u /\ p.kind = "status" /\ p.to \in Users /\ p.status = sent(p.to, sess[u].status)
           /\ unannounced' = IF isInvisible(o) THEN unannounced \ {u} ELSE unannounced
           /\ UNCHANGED <<ver, modeRow, rows, raced>>
<1> DEFINE o == mapLegacyStatusToOSCAR(sess[u].status)
<1>1. changing(u) /\ job' = [job EXCEPT ![u] = <<>>]
  BY JobSteps DEF status, Outset
<1>2. active(u) /\ sess[u] # Absent /\ sess[u] \in Sessions
  BY <1>1, AtWork
<1>3. sess[u].status \in Codes
  BY <1>2, StatusesAreCodes DEF Outset
<1>4. o \in Codes /\ (isInvisible(o) <=> isInvisible(sess[u].status))
  BY <1>3, CodesKept
<1>5. sess' = [sess EXCEPT ![u] = [sess[u] EXCEPT !.oscar = o]]
  <2>1. [sess[u] EXCEPT !.status = sess[u].status, !.oscar = o] = [sess[u] EXCEPT !.oscar = o]
    BY <1>2 DEF Sessions
  <2>2. QED
    BY <2>1 DEF status, ProcessStatusChange, setStatus, set
<1> HIDE DEF o
<1>6. \A v \in Users : grown(v, IF v \notin listedBy(u) THEN <<>>
                                ELSE IF isInvisible(o) THEN <<Departed(u)>> ELSE <<Arrived(u, o)>>)
  <2>1. Departed(u) \in Messages /\ Arrived(u, o) \in Messages
    BY <1>4, MessageTypes
  <2>2. CASE isInvisible(o)
    <3>1. relay(listedBy(u), Departed(u))
      BY <2>2 DEF status, ProcessStatusChange, BroadcastBuddyDeparted, o
    <3>2. QED
      BY <2>1, <2>2, <3>1, Relayed DEF Outset
  <2>3. CASE ~isInvisible(o)
    <3>1. relay(listedBy(u), Arrived(u, o))
      BY <2>3 DEF status, ProcessStatusChange, BroadcastBuddyArrived, o
    <3>2. QED
      BY <2>1, <2>3, <3>1, Relayed DEF Outset
  <2>4. QED
    BY <2>2, <2>3
<1>7. \E P : /\ shows' = receive(P)
             /\ \A p \in P : p.about = u /\ p.kind = "status" /\ p.to \in Users /\ p.status = sent(p.to, sess[u].status)
  <2>1. shows' = receive(broadcastStatusChange(u))
    BY DEF status
  <2>2. QED
    BY <2>1, PacketsOf DEF About, Outset
<1>8. unannounced' = IF isInvisible(o) THEN unannounced \ {u} ELSE unannounced
  BY DEF status, ProcessStatusChange, o
<1>9. QED
  BY <1>1, <1>2, <1>3, <1>4, <1>5, <1>6, <1>7, <1>8 DEF status, tables, o

LEMMA StatusOne ==
  ASSUME Outset, NEW u \in Users, status(u), NEW x \in Users
  PROVE  OneInv(x)'
<1>1. PresenceType' /\ PresenceType /\ OneInv(u) /\ OneInv(x)
  BY StatusType DEF Outset
<1> DEFINE o == mapLegacyStatusToOSCAR(sess[u].status)
<1>2. /\ o \in Codes /\ changing(u) /\ job' = [job EXCEPT ![u] = <<>>] /\ active(u) /\ sess[u] \in Sessions
      /\ sess' = [sess EXCEPT ![u] = [sess[u] EXCEPT !.oscar = o]]
      /\ \A v \in Users : grown(v, IF v \notin listedBy(u) THEN <<>>
                                   ELSE IF isInvisible(o) THEN <<Departed(u)>> ELSE <<Arrived(u, o)>>)
      /\ \E P : shows' = receive(P)
      /\ unannounced' = IF isInvisible(o) THEN unannounced \ {u} ELSE unannounced
      /\ UNCHANGED <<ver, modeRow, rows, raced>>
  BY Changes
<1>3. \A c \in Users : shows'[x][c] # Offline => IsContact(x, c)
  BY <1>2, ReceivedByContacts
<1>4. CASE x # u
  <2>1. active(x) \/ queue'[x] = queue[x]
    BY <1>1, <1>2, NothingGrown, OnlyActive
  <2>2. sess'[x] = sess[x] /\ job'[x] = job[x]
    BY <1>1, <1>2, <1>4 DEF PresenceType
  <2>3. QED
    BY <1>1, <1>2, <1>3, <1>4, <2>1, <2>2, OthersKept
<1>5. CASE x = u
  <2> DEFINE S == [sess[u] EXCEPT !.oscar = o]
  <2>1. sess'[u] = S /\ job'[u] = <<>>
    BY <1>1, <1>2 DEF PresenceType
  <2>2. /\ S # Absent /\ S.active /\ S.contacts = sess[u].contacts /\ S.known = sess[u].known
        /\ S.visible = sess[u].visible /\ S.invisible = sess[u].invisible
        /\ S.status = sess[u].status /\ S.oscar = o
    <3> HIDE DEF o
    <3>1. S \in Sessions
      BY <1>2 DEF Sessions, Codes
    <3>2. QED
      BY <3>1, <1>2, Assumed DEF Sessions, active
  <2>3. ~announcing(u) /\ job[u] # Left
    BY <1>2, JobsDiffer DEF changing, announcing
  <2> HIDE DEF S
  <2>4. AbsentInv(u)' /\ EnteringInv(u)' /\ AnnouncingInv(u)' /\ FreshInv(u)' /\ JobInv(u)'
    BY <2>1, <2>2, JobsDiffer DEF AbsentInv, EnteringInv, AnnouncingInv, FreshInv, JobInv, entering, active, announcing
  <2>5. ModeInv(u)'
    BY <1>1, <1>2, <2>1, <2>3, JobsDiffer DEF ModeInv, OneInv
  <2>6. AgreesInv(u)'
    BY <2>1, <2>2 DEF AgreesInv, agrees
  <2>7. SessInv(u)' /\ ShowsInv(u)'
    BY <1>1, <1>2, <1>3, <1>5, <2>1, <2>2 DEF SessInv, ShowsInv, OneInv, IsContact, active
  <2>8. QED
    BY <1>5, <2>4, <2>5, <2>6, <2>7 DEF OneInv
<1>6. QED
  BY <1>4, <1>5

\* A job that leaves the sessions, the modes and the histories of departures alone is done.
LEMMA JobDone ==
  ASSUME Outset, PresenceType', NEW u \in Users, NEW x \in Users, job' = [job EXCEPT ![u] = <<>>],
         job[u] = Listing \/ \E c \in Users : job[u] = Adding(c),
         UNCHANGED <<ver, sess, modeRow, unannounced>>, active(x) \/ queue'[x] = queue[x],
         \A c \in Users : shows'[x][c] # Offline => IsContact(x, c)
  PROVE  OneInv(x)'
<1>1. PresenceType /\ OneInv(u) /\ OneInv(x) /\ sess'[x] = sess[x]
  BY DEF Outset
<1>2. CASE x # u
  <2>1. job'[x] = job[x]
    BY <1>1, <1>2 DEF PresenceType
  <2>2. QED
    BY <1>1, <1>2, <2>1, OthersKept
<1>3. CASE x = u
  <2>1. active(u) /\ sess[u] # Absent /\ job'[u] = <<>> /\ ~announcing(u) /\ ~changing(u) /\ job[u] # Left
    BY <1>1, AtWork, JobsDiffer DEF announcing, changing, PresenceType
  <2>2. AbsentInv(u)' /\ EnteringInv(u)' /\ AnnouncingInv(u)' /\ FreshInv(u)' /\ JobInv(u)'
    BY <2>1, JobsDiffer DEF AbsentInv, EnteringInv, AnnouncingInv, FreshInv, JobInv, entering, active, announcing
  <2>3. ModeInv(u)' /\ AgreesInv(u)'
    BY <1>1, <2>1, JobsDiffer DEF ModeInv, AgreesInv, OneInv, agrees, active
  <2>4. SessInv(u)' /\ ShowsInv(u)'
    BY <1>1, <1>3 DEF SessInv, ShowsInv, OneInv, IsContact
  <2>5. QED
    BY <1>3, <2>2, <2>3, <2>4 DEF OneInv
<1>4. QED
  BY <1>2, <1>3

LEMMA ContactsOne ==
  ASSUME Outset, NEW u \in Users, contacts(u), NEW x \in Users
  PROVE  OneInv(x)'
<1>1. PresenceType' /\ PresenceType
  BY ContactsType DEF Outset
<1>2. job[u] = Listing /\ job' = [job EXCEPT ![u] = <<>>]
  BY JobSteps DEF contacts, Outset
<1>3. \A c \in Users : shows'[x][c] # Offline => IsContact(x, c)
  BY ReceivedByContacts DEF contacts
<1>4. QED
  BY <1>1, <1>2, <1>3, JobDone DEF contacts, tables

\* What it means that a contact was added.
LEMMA Adds ==
  ASSUME Outset, NEW u \in Users, added(u)
  PROVE  \E c \in Users :
           /\ c # u /\ job[u] = Adding(c) /\ job' = [job EXCEPT ![u] = <<>>] /\ active(u)
           /\ rows' = rows \cup ownRows(u, {c}) /\ AddBuddies(u, {c})
           /\ \/ sess[c] = Absent /\ shows' = shows
              \/ /\ sess[c] # Absent
                 /\ shows' = receive({About("online", u, c, sent(u, sess[c].status)),
                                      About("online", c, u, sent(c, sess[u].status))})
           /\ raced' = raced \cup {<<u, d>> : d \in {e \in {c} : job[e] # <<>> \/ entering(e)}}
           /\ UNCHANGED <<ver, sess, modeRow, unannounced>>
<1>1. PICK c \in Users : job[u] = Adding(c) /\ argument(u) = c /\ job' = [job EXCEPT ![u] = <<>>]
  BY JobSteps DEF added, Outset
<1>2. c # u /\ active(u)
  BY <1>1, AtWork DEF Outset, OneInv, JobInv
<1>3. rows' = rows \cup ownRows(u, {c}) /\ AddBuddies(u, {c})
  BY <1>1 DEF added, ProcessUserAdd
<1>4. \/ sess[c] = Absent /\ shows' = shows
      \/ /\ sess[c] # Absent
         /\ shows' = receive({SendUserOnline(u, c, sess[c].status), SendUserOnline(c, u, sess[u].status)})
  BY <1>1 DEF added
<1>5. \/ sess[c] = Absent /\ shows' = shows
      \/ /\ sess[c] # Absent
         /\ shows' = receive({About("online", u, c, sent(u, sess[c].status)),
                              About("online", c, u, sent(c, sess[u].status))})
  BY <1>4, PacketsSent DEF Outset
<1>6. raced' = raced \cup {<<u, d>> : d \in {e \in {c} : job[e] # <<>> \/ entering(e)}}
  BY <1>1 DEF added, lookup
<1>7. UNCHANGED <<ver, sess, modeRow, unannounced>>
  BY DEF added
<1>8. QED
  BY <1>1, <1>2, <1>3, <1>5, <1>6, <1>7

LEMMA AddedOne ==
  ASSUME Outset, NEW u \in Users, added(u), NEW x \in Users
  PROVE  OneInv(x)'
<1>1. PresenceType' /\ PresenceType /\ OneInv(x)
  BY AddedType DEF Outset
<1>2. PICK c \in Users :
           /\ c # u /\ job[u] = Adding(c) /\ job' = [job EXCEPT ![u] = <<>>] /\ active(u)
           /\ AddBuddies(u, {c}) /\ (shows' = shows \/ \E P : shows' = receive(P))
           /\ UNCHANGED <<ver, sess, modeRow, unannounced>>
  BY Adds
<1>3. \A d \in Users : shows'[x][d] # Offline => IsContact(x, d)
  BY <1>1, <1>2, ReceivedByContacts DEF OneInv, ShowsInv
<1>4. active(x) \/ queue'[x] = queue[x]
  BY <1>2, OnlyActive DEF AddBuddies, hosts, metBy, RequiresAuthorization
<1>5. QED
  BY <1>1, <1>2, <1>3, <1>4, JobDone

\* The last steps of a session.
LEMMA Farewells ==
  ASSUME Outset, NEW u \in Users, farewell(u)
  PROVE  /\ job[u] = Leaving /\ job' = [job EXCEPT ![u] = Left]
         /\ \A v \in Users : grown(v, IF v \in listedBy(u) THEN <<Departed(u)>> ELSE <<>>)
         /\ modeRow' = modeRow \ {u} /\ rows' = {r \in rows : r[1] # u} /\ unannounced' = unannounced \ {u}
         /\ raced' = raced \cup {<<v, u>> : v \in {w \in Users \ {u} : job[w] # <<>>}}
         /\ UNCHANGED <<ver, sess, shows>>
<1>1. job[u] = Leaving /\ job' = [job EXCEPT ![u] = Left]
  BY JobSteps DEF farewell, Outset
<1>2. relay(listedBy(u), Departed(u)) /\ Departed(u) \in Messages
  BY Assumed, MessageTypes DEF farewell, NotifyUserOffline, BroadcastBuddyDeparted
<1>3. \A v \in Users : grown(v, IF v \in listedBy(u) THEN <<Departed(u)>> ELSE <<>>)
  BY <1>2, Relayed DEF Outset
<1>4. QED
  BY <1>1, <1>3 DEF farewell, NotifyUserOffline

LEMMA FarewellOne ==
  ASSUME Outset, NEW u \in Users, farewell(u), NEW x \in Users
  PROVE  OneInv(x)'
<1>1. PresenceType' /\ PresenceType /\ OneInv(u) /\ OneInv(x)
  BY LeavingType DEF Outset
<1>2. /\ job[u] = Leaving /\ job' = [job EXCEPT ![u] = Left]
      /\ \A v \in Users : grown(v, IF v \in listedBy(u) THEN <<Departed(u)>> ELSE <<>>)
      /\ modeRow' = modeRow \ {u} /\ unannounced' = unannounced \ {u}
      /\ UNCHANGED <<ver, sess, shows>>
  BY Farewells
<1>3. \A c \in Users : shows'[x][c] # Offline => IsContact(x, c)
  BY <1>1, <1>2 DEF OneInv, ShowsInv
<1>4. active(x) \/ queue'[x] = queue[x]
  BY <1>1, <1>2, NothingGrown, OnlyActive
<1>5. CASE x # u
  BY <1>1, <1>2, <1>3, <1>4, <1>5, OthersKept DEF PresenceType
<1>6. CASE x = u
  <2>1. job'[u] = Left /\ sess'[u] = sess[u] /\ sess[u] # Absent
    BY <1>1, <1>2, JobsDiffer DEF OneInv, AbsentInv, PresenceType
  <2>2. AbsentInv(u)' /\ AnnouncingInv(u)' /\ FreshInv(u)' /\ JobInv(u)' /\ ModeInv(u)' /\ AgreesInv(u)'
    BY <1>2, <2>1, JobsDiffer DEF AbsentInv, AnnouncingInv, FreshInv, JobInv, ModeInv, AgreesInv, announcing
  <2>3. EnteringInv(u)'
    BY <1>1, <1>4, <1>6, <2>1 DEF EnteringInv, OneInv, entering, active
  <2>4. SessInv(u)' /\ ShowsInv(u)'
    BY <1>1, <1>2, <1>3, <1>6 DEF SessInv, ShowsInv, OneInv, IsContact
  <2>5. QED
    BY <1>6, <2>2, <2>3, <2>4 DEF OneInv
<1>7. QED
  BY <1>5, <1>6

LEMMA RemoveOne ==
  ASSUME Outset, NEW u \in Users, RemoveSession(u), NEW x \in Users
  PROVE  OneInv(x)'
<1>1. PresenceType' /\ PresenceType /\ OneInv(u) /\ OneInv(x)
  BY LeavingType DEF Outset
<1>2. /\ job[u] = Left /\ job' = [job EXCEPT ![u] = <<>>] /\ sess' = [sess EXCEPT ![u] = Absent]
      /\ queue' = [queue EXCEPT ![u] = <<>>] /\ shows' = [shows EXCEPT ![u] = nothingShown]
      /\ UNCHANGED <<ver, modeRow, rows, raced, unannounced>>
  BY JobSteps DEF RemoveSession, set, tables, history, Outset
<1>3. CASE x # u
  <2>1. sess'[x] = sess[x] /\ job'[x] = job[x] /\ queue'[x] = queue[x] /\ shows'[x] = shows[x]
    BY <1>1, <1>2, <1>3 DEF PresenceType
  <2>2. \A c \in Users : shows'[x][c] # Offline => IsContact(x, c)
    BY <1>1, <2>1 DEF OneInv, ShowsInv
  <2>3. QED
    BY <1>1, <1>2, <1>3, <2>1, <2>2, OthersKept
<1>4. CASE x = u
  <2>1. sess'[u] = Absent /\ job'[u] = <<>> /\ queue'[u] = <<>> /\ shows'[u] = nothingShown
    BY <1>1, <1>2 DEF PresenceType
  <2>2. u \notin modeRow /\ u \notin unannounced
    BY <1>1, <1>2 DEF OneInv, ModeInv
  <2>3. AbsentInv(u)' /\ EnteringInv(u)' /\ AnnouncingInv(u)' /\ FreshInv(u)' /\ JobInv(u)' /\ ModeInv(u)'
    BY <1>2, <2>1, <2>2, JobsDiffer DEF AbsentInv, EnteringInv, AnnouncingInv, FreshInv, JobInv, ModeInv, entering,
       active, announcing, nothingShown
  <2>4. AgreesInv(u)' /\ SessInv(u)'
    BY <2>1 DEF AgreesInv, SessInv, active
  <2>5. ShowsInv(u)'
    BY <2>1 DEF ShowsInv, nothingShown
  <2>6. QED
    BY <1>4, <2>3, <2>4, <2>5 DEF OneInv
<1>5. QED
  BY <1>3, <1>4

LEMMA LeaveOne ==
  ASSUME Outset, NEW u \in Users, Leave(u), NEW x \in Users
  PROVE  OneInv(x)'
<1>1. PresenceType' /\ PresenceType /\ OneInv(u) /\ OneInv(x)
  BY LeavingType DEF Outset
<1>2. PICK packets : logoff(u, packets)
  BY DEF Leave
<1>3. /\ job[u] = <<>> /\ sess[u] # Absent /\ job' = [job EXCEPT ![u] = Leaving]
      /\ shows' = receive(packets) /\ UNCHANGED <<ver, sess, modeRow, rows, queue, raced, unannounced>>
  BY <1>2 DEF Leave, logoff, start, tables, history, Leaving
<1>4. \A c \in Users : shows'[x][c] # Offline => IsContact(x, c)
  BY <1>3, ReceivedByContacts
<1>5. CASE x # u
  BY <1>1, <1>3, <1>4, <1>5, OthersKept DEF PresenceType
<1>6. CASE x = u
  <2>1. job'[u] = Leaving /\ sess'[u] = sess[u] /\ queue'[u] = queue[u] /\ ~announcing(u) /\ ~changing(u)
    BY <1>1, <1>3, JobsDiffer DEF PresenceType, announcing, changing
  <2>2. AbsentInv(u)' /\ AnnouncingInv(u)' /\ JobInv(u)'
    BY <1>3, <2>1, JobsDiffer DEF AbsentInv, AnnouncingInv, JobInv, announcing
  <2>3. EnteringInv(u)' /\ FreshInv(u)'
    BY <1>1, <1>3, <2>1, JobsDiffer DEF EnteringInv, FreshInv, OneInv, entering, announcing
  <2>4. ModeInv(u)' /\ AgreesInv(u)'
    BY <1>1, <1>3, <2>1, JobsDiffer DEF ModeInv, AgreesInv, OneInv, agrees, active
  <2>5. SessInv(u)' /\ ShowsInv(u)'
    BY <1>1, <1>3, <1>4, <1>6 DEF SessInv, ShowsInv, OneInv, IsContact
  <2>6. QED
    BY <1>6, <2>2, <2>3, <2>4, <2>5 DEF OneInv
<1>7. QED
  BY <1>5, <1>6

\* A client that asks something of its session.
LEMMA Asks ==
  ASSUME Outset, PresenceType', NEW u \in Users, NEW x \in Users, Ready(u), NEW S \in Sessions,
         sess' = [sess EXCEPT ![u] = S], S.active,
         u \notin S.contacts, ~Relists => S.known \subseteq S.contacts, S.status \in Statuses \cup {0}, S.oscar \in Codes,
         ver[u] = 3 => S.visible = {} /\ S.invisible = {},
         \A y \in Users \ {u} : job'[y] = job[y],
         job'[u] \in {<<>>, Listing} \/ changing(u)' \/ \E c \in Users \ {u} : job'[u] = Adding(c),
         changing(u)' \/ u \in unannounced' \/ (S.status = sess[u].status /\ S.oscar = sess[u].oscar),
         UNCHANGED <<ver, modeRow>>, unannounced \subseteq unannounced', unannounced' \subseteq unannounced \cup {u},
         active(x) \/ queue'[x] = queue[x],
         \A c \in Users : shows'[x][c] # Offline => IsContact(x, c)'
  PROVE  OneInv(x)'
<1>1. PresenceType /\ OneInv(u) /\ OneInv(x)
  BY DEF Outset
<1>2. CASE x # u
  <2>1. job'[x] = job[x] /\ sess'[x] = sess[x]
    BY <1>1, <1>2 DEF PresenceType
  <2>2. \A c \in Users : shows'[x][c] # Offline => IsContact(x, c)
    BY <2>1 DEF IsContact
  <2>3. QED
    BY <1>1, <1>2, <2>1, <2>2, OthersKept
<1>3. CASE x = u
  <2>1. sess'[u] = S /\ S # Absent /\ active(u) /\ job[u] = <<>>
    BY <1>1, Assumed DEF PresenceType, Ready
  <2>2. ~announcing(u)' /\ job'[u] \notin {Leaving, Left} /\ ~announcing(u) /\ ~changing(u) /\ job[u] # Left
    BY <2>1, JobsDiffer DEF announcing, changing
  <2>3. AbsentInv(u)' /\ EnteringInv(u)' /\ AnnouncingInv(u)'
    BY <2>1, <2>2 DEF AbsentInv, EnteringInv, AnnouncingInv, entering
  <2>4. FreshInv(u)'
    BY <2>1, <2>2 DEF FreshInv, entering
  <2>5. JobInv(u)'
    BY <2>2, JobsDiffer DEF JobInv, announcing, changing
  <2>6. ModeInv(u)'
    BY <1>1, <2>1, <2>2 DEF ModeInv, OneInv
  <2>7. AgreesInv(u)'
    <3>1. u \in unannounced' \/ changing(u)' \/ agrees(u)'
      BY <1>1, <2>1, <2>2 DEF AgreesInv, OneInv, agrees
    <3>2. QED
      BY <3>1 DEF AgreesInv
  <2>8. SessInv(u)' /\ ShowsInv(u)'
    BY <1>3, <2>1 DEF SessInv, ShowsInv, IsContact
  <2>9. QED
    BY <1>3, <2>3, <2>4, <2>5, <2>6, <2>7, <2>8 DEF OneInv
<1>4. QED
  BY <1>2, <1>3

LEMMA ListOne ==
  ASSUME Outset, NEW u \in Users, NEW cs \in SUBSET (Users \ {u}), Ready(u),
         contactList(u, cs) \/ (ver[u] # 3 /\ (visibleList(u, cs) \/ invisibleList(u, cs))), NEW x \in Users
  PROVE  OneInv(x)'
<1>1. PresenceType' /\ PresenceType /\ OneInv(u) /\ OneInv(x)
  BY ListType DEF Outset
<1>2. sess[u] \in Sessions /\ active(u) /\ job[u] = <<>> /\ sess[u] # Absent /\ sess[u].active
  BY <1>1 DEF Ready, active, PresenceType
<1>3. /\ u \notin sess[u].contacts /\ (~Relists => sess[u].known \subseteq sess[u].contacts)
      /\ sess[u].status \in Statuses \cup {0} /\ sess[u].oscar \in Codes
      /\ ver[u] = 3 => sess[u].visible = {} /\ sess[u].invisible = {}
  BY <1>1, <1>2 DEF OneInv, SessInv
<1>4. CASE contactList(u, cs)
  <2> DEFINE S == [sess[u] EXCEPT !.contacts = cs]
  <2>1. /\ S \in Sessions /\ S.active /\ S.contacts = cs /\ S.known = sess[u].known /\ S.status = sess[u].status
        /\ S.oscar = sess[u].oscar /\ S.visible = sess[u].visible /\ S.invisible = sess[u].invisible
    BY <1>2 DEF Sessions
  <2>2. /\ sess' = [sess EXCEPT ![u] = S] /\ job' = [job EXCEPT ![u] = Listing] /\ AddBuddies(u, cs)
        /\ shows' = [shows EXCEPT ![u] = [c \in Users |-> IF c \in cs THEN shows[u][c] ELSE Offline]]
        /\ UNCHANGED <<ver, modeRow, unannounced>>
    BY <1>4 DEF contactList, set, start, Listing, history
  <2>3. sess[u].contacts = {} \/ Relists
    BY <1>4 DEF contactList
  <2> HIDE DEF S
  <2>4. active(x) \/ queue'[x] = queue[x]
    BY <1>2, <2>2, OnlyActive DEF AddBuddies, hosts, metBy, RequiresAuthorization
  <2>5. \A c \in Users : shows'[x][c] # Offline => IsContact(x, c)'
    <3>1. CASE x = u
      BY <1>1, <2>1, <2>2, <3>1, Assumed DEF PresenceType, IsContact
    <3>2. CASE x # u
      BY <1>1, <2>2, <3>2 DEF PresenceType, OneInv, ShowsInv, IsContact
    <3>3. QED
      BY <3>1, <3>2
  <2>6. QED
    <3>1. u \notin S.contacts /\ (~Relists => S.known \subseteq S.contacts)
      BY <1>3, <2>1, <2>3
    <3>2. job'[u] = Listing /\ \A y \in Users \ {u} : job'[y] = job[y]
      BY <1>1, <2>2 DEF PresenceType
    <3>3. QED
      BY <1>1, <1>2, <1>3, <2>1, <2>2, <2>4, <2>5, <3>1, <3>2, Asks
<1>5. ASSUME NEW S \in Sessions, sess' = [sess EXCEPT ![u] = S], ver[u] # 3, S.active,
             S.contacts = sess[u].contacts, S.known = sess[u].known, S.status = sess[u].status,
             S.oscar = sess[u].oscar, UNCHANGED <<ver, modeRow, queue, shows, job, unannounced>>
      PROVE  OneInv(x)'
  <2>1. \A c \in Users : shows'[x][c] # Offline => IsContact(x, c)'
    BY <1>1, <1>5, Assumed DEF PresenceType, OneInv, ShowsInv, IsContact
  <2>2. QED
    BY <1>1, <1>2, <1>3, <1>5, <2>1, Asks
<1>6. CASE visibleList(u, cs)
  <2> DEFINE S == [sess[u] EXCEPT !.visible = cs]
  <2>1. /\ S \in Sessions /\ S.active /\ S.contacts = sess[u].contacts /\ S.known = sess[u].known
        /\ S.status = sess[u].status /\ S.oscar = sess[u].oscar
    BY <1>2 DEF Sessions
  <2>2. sess' = [sess EXCEPT ![u] = S] /\ UNCHANGED <<ver, modeRow, queue, shows, job, unannounced>>
    BY <1>6 DEF visibleList, set, tables, history
  <2> HIDE DEF S
  <2>3. QED
    BY <1>4, <1>5, <2>1, <2>2, <1>6
<1>7. CASE invisibleList(u, cs)
  <2> DEFINE S == [sess[u] EXCEPT !.invisible = cs]
  <2>1. /\ S \in Sessions /\ S.active /\ S.contacts = sess[u].contacts /\ S.known = sess[u].known
        /\ S.status = sess[u].status /\ S.oscar = sess[u].oscar
    BY <1>2 DEF Sessions
  <2>2. sess' = [sess EXCEPT ![u] = S] /\ UNCHANGED <<ver, modeRow, queue, shows, job, unannounced>>
    BY <1>7 DEF invisibleList, set, tables, history
  <2> HIDE DEF S
  <2>3. QED
    BY <1>4, <1>5, <2>1, <2>2, <1>7
<1>8. QED
  BY <1>4, <1>6, <1>7

LEMMA ChangeOne ==
  ASSUME Outset, NEW u \in Users, Ready(u), NEW x \in Users,
         \/ \E c \in Users \ {u} : userAdd(u, c)
         \/ \E s \in Statuses : setStatusFirst(u, s) \/ handleSetStateV3(u, s)
  PROVE  OneInv(x)'
<1>1. PresenceType' /\ PresenceType /\ OneInv(u) /\ OneInv(x)
  BY ChangeType DEF Outset
<1>2. sess[u] \in Sessions /\ active(u) /\ job[u] = <<>> /\ sess[u] # Absent /\ sess[u].active
  BY <1>1 DEF Ready, active, PresenceType
<1>3. /\ u \notin sess[u].contacts /\ (~Relists => sess[u].known \subseteq sess[u].contacts)
      /\ sess[u].status \in Statuses \cup {0} /\ sess[u].oscar \in Codes
      /\ ver[u] = 3 => sess[u].visible = {} /\ sess[u].invisible = {}
  BY <1>1, <1>2 DEF OneInv, SessInv
<1>4. \A c \in Users : shows[x][c] # Offline => IsContact(x, c)
  BY <1>1 DEF OneInv, ShowsInv
<1>5. ASSUME NEW c \in Users \ {u}, userAdd(u, c)
      PROVE  OneInv(x)'
  <2> DEFINE S == [sess[u] EXCEPT !.contacts = sess[u].contacts \cup {c}]
  <2>1. /\ S \in Sessions /\ S.active /\ S.contacts = sess[u].contacts \cup {c} /\ S.known = sess[u].known
        /\ S.status = sess[u].status /\ S.oscar = sess[u].oscar
        /\ S.visible = sess[u].visible /\ S.invisible = sess[u].invisible
    BY <1>2 DEF Sessions
  <2>2. /\ sess' = [sess EXCEPT ![u] = S] /\ job' = [job EXCEPT ![u] = Adding(c)]
        /\ UNCHANGED <<ver, modeRow, queue, shows, unannounced>>
    BY <1>5 DEF userAdd, set, start, Adding, tables, history
  <2> HIDE DEF S
  <2>3. \A d \in Users : shows'[x][d] # Offline => IsContact(x, d)'
    BY <1>1, <1>4, <2>1, <2>2, Assumed DEF PresenceType, IsContact
  <2>4. job'[u] = Adding(c) /\ \A y \in Users \ {u} : job'[y] = job[y]
    BY <1>1, <2>2 DEF PresenceType
  <2>5. u \notin S.contacts /\ (~Relists => S.known \subseteq S.contacts)
    BY <1>3, <2>1
  <2>6. QED
    BY <1>1, <1>2, <1>3, <2>1, <2>2, <2>3, <2>4, <2>5, Asks
<1>6. ASSUME NEW s \in Statuses
      PROVE  LET S == [sess[u] EXCEPT !.status = s]
             IN  /\ S \in Sessions /\ S.active /\ S.contacts = sess[u].contacts /\ S.known = sess[u].known
                 /\ S.status = s /\ S.oscar = sess[u].oscar
                 /\ S.visible = sess[u].visible /\ S.invisible = sess[u].invisible
  <2>1. s \in Nat
    BY Assumed DEF Codes
  <2>2. QED
    BY <1>2, <2>1 DEF Sessions
<1>7. ASSUME NEW s \in Statuses, setStatusFirst(u, s)
      PROVE  OneInv(x)'
  <2> DEFINE S == [sess[u] EXCEPT !.status = s]
  <2>1. /\ S \in Sessions /\ S.active /\ S.contacts = sess[u].contacts /\ S.known = sess[u].known
        /\ S.status = s /\ S.oscar = sess[u].oscar
        /\ S.visible = sess[u].visible /\ S.invisible = sess[u].invisible
    BY <1>6
  <2>2. /\ sess' = [sess EXCEPT ![u] = S] /\ job' = [job EXCEPT ![u] = Changing(s)]
        /\ UNCHANGED <<ver, modeRow, queue, shows, unannounced>>
    BY <1>7 DEF setStatusFirst, set, start, Changing, tables, history
  <2> HIDE DEF S
  <2>3. \A d \in Users : shows'[x][d] # Offline => IsContact(x, d)'
    BY <1>1, <1>4, <2>1, <2>2, Assumed DEF PresenceType, IsContact
  <2>4. changing(u)' /\ \A y \in Users \ {u} : job'[y] = job[y]
    BY <1>1, <2>2, Assumed DEF PresenceType, changing
  <2>5. u \notin S.contacts /\ (~Relists => S.known \subseteq S.contacts)
    BY <1>3, <2>1
  <2>6. QED
    BY <1>1, <1>2, <1>3, <2>1, <2>2, <2>3, <2>4, <2>5, Asks
<1>8. ASSUME NEW s \in Statuses, handleSetStateV3(u, s)
      PROVE  OneInv(x)'
  <2> DEFINE S == [sess[u] EXCEPT !.status = s]
  <2>1. /\ S \in Sessions /\ S.active /\ S.contacts = sess[u].contacts /\ S.known = sess[u].known
        /\ S.status = s /\ S.oscar = sess[u].oscar
        /\ S.visible = sess[u].visible /\ S.invisible = sess[u].invisible
    BY <1>6
  <2>2. /\ sess' = [sess EXCEPT ![u] = S] /\ unannounced' = unannounced \cup {u}
        /\ (\E P : shows' = receive(P)) /\ UNCHANGED <<ver, modeRow, queue, job>>
    BY <1>8 DEF handleSetStateV3, set, tables
  <2> HIDE DEF S
  <2>3. \A d \in Users : shows'[x][d] # Offline => IsContact(x, d)'
    <3>1. \A d \in Users : shows'[x][d] # Offline => IsContact(x, d)
      BY <2>2, ReceivedByContacts
    <3>2. QED
      BY <1>1, <2>1, <2>2, <3>1, Assumed DEF PresenceType, IsContact
  <2>4. u \notin S.contacts /\ (~Relists => S.known \subseteq S.contacts)
    BY <1>3, <2>1
  <2>5. QED
    BY <1>1, <1>2, <1>3, <2>1, <2>2, <2>3, <2>4, Asks
<1>9. QED
  BY <1>5, <1>7, <1>8

LEMMA PumpOne ==
  ASSUME Outset, NEW u \in Users, pump(u), NEW x \in Users
  PROVE  OneInv(x)'
<1>1. PresenceType' /\ PresenceType /\ OneInv(u) /\ OneInv(x)
  BY PumpType DEF Outset
<1> DEFINE m == Head(queue[u])
<1>2. /\ m \in Messages /\ active(u) /\ sess[u] \in Sessions /\ queue' = [queue EXCEPT ![u] = Tail(queue[u])]
      /\ ~IsContact(u, m.about) => UNCHANGED <<sess, shows>>
      /\ IsContact(u, m.about) /\ m.kind = "arrived" =>
           /\ sess' = [sess EXCEPT ![u] = [sess[u] EXCEPT !.known = sess[u].known \cup {m.about}]]
           /\ \E P : shows' = receive(P)
      /\ IsContact(u, m.about) /\ m.kind = "departed" =>
           /\ sess' = [sess EXCEPT ![u] = [sess[u] EXCEPT !.known = sess[u].known \ {m.about}]]
           /\ \E P : shows' = receive(P)
      /\ UNCHANGED <<ver, modeRow, rows, job, raced, unannounced>>
  BY Pumps
<1> HIDE DEF m
<1>3. m.about \in Users /\ m.kind \in {"arrived", "departed"}
  BY <1>2 DEF Messages
<1>4. \A c \in Users : shows'[x][c] # Offline => IsContact(x, c)
  BY <1>1, <1>2, <1>3, ReceivedByContacts DEF OneInv, ShowsInv
<1>5. \E K : /\ sess' = [sess EXCEPT ![u] = [sess[u] EXCEPT !.known = K]] /\ K \subseteq Users
             /\ K \subseteq sess[u].known \/ (m.about \in sess[u].contacts /\ K = sess[u].known \cup {m.about})
  <2>1. CASE ~IsContact(u, m.about)
    <3>1. sess[u] = [sess[u] EXCEPT !.known = sess[u].known] /\ sess[u].known \subseteq Users
      BY <1>2 DEF Sessions
    <3>2. QED
      BY <1>1, <1>2, <2>1, <3>1 DEF PresenceType
  <2>2. CASE IsContact(u, m.about)
    <3>1. /\ m.about \in sess[u].contacts
          /\ sess[u].known \cup {m.about} \subseteq Users /\ sess[u].known \ {m.about} \subseteq Users
      BY <1>2, <1>3, <2>2 DEF IsContact, Sessions
    <3>2. CASE m.kind = "arrived"
      BY <1>2, <2>2, <3>1, <3>2
    <3>3. CASE m.kind = "departed"
      BY <1>2, <2>2, <3>1, <3>3
    <3>4. QED
      BY <1>3, <3>2, <3>3
  <2>3. QED
    BY <2>1, <2>2
<1>6. CASE x # u
  <2>1. sess'[x] = sess[x] /\ queue'[x] = queue[x]
    BY <1>1, <1>2, <1>5, <1>6 DEF PresenceType
  <2>2. QED
    BY <1>1, <1>2, <1>4, <1>6, <2>1, OthersKept
<1>7. CASE x = u
  <2>1. PICK K : /\ sess' = [sess EXCEPT ![u] = [sess[u] EXCEPT !.known = K]] /\ K \subseteq Users
                 /\ K \subseteq sess[u].known \/ (m.about \in sess[u].contacts /\ K = sess[u].known \cup {m.about})
    BY <1>5
  <2> DEFINE S == [sess[u] EXCEPT !.known = K]
  <2>2. /\ S \in Sessions /\ S.active /\ S.contacts = sess[u].contacts /\ S.known = K
        /\ S.status = sess[u].status /\ S.oscar = sess[u].oscar
        /\ S.visible = sess[u].visible /\ S.invisible = sess[u].invisible
    BY <1>2, <2>1 DEF Sessions, active
  <2>3. sess'[u] = S /\ sess[u] # Absent
    BY <1>1, <1>2, <2>1 DEF PresenceType, active
  <2> HIDE DEF S
  <2>4. S # Absent
    BY <2>2, Assumed
  <2>5. AbsentInv(u)' /\ EnteringInv(u)' /\ AnnouncingInv(u)' /\ FreshInv(u)' /\ JobInv(u)'
    BY <1>1, <1>2, <2>2, <2>3, <2>4 DEF OneInv, AbsentInv, EnteringInv, AnnouncingInv, FreshInv, JobInv, entering,
       active, announcing
  <2>6. ModeInv(u)' /\ AgreesInv(u)'
    BY <1>1, <1>2, <2>2, <2>3, <2>4 DEF OneInv, ModeInv, AgreesInv, active, announcing, changing, agrees
  <2>7. SessInv(u)' /\ ShowsInv(u)'
    BY <1>1, <1>2, <1>4, <1>7, <2>1, <2>2, <2>3, <2>4 DEF OneInv, SessInv, ShowsInv, IsContact
  <2>8. QED
    BY <1>7, <2>5, <2>6, <2>7 DEF OneInv
<1>8. QED
  BY <1>6, <1>7

LEMMA OneKept ==
  ASSUME Outset, NEW u \in Users, Handling(u), NEW x \in Users
  PROVE  OneInv(x)'
<1>1. Kind(u)
  BY Kinds, Assumed DEF Outset
<1>2. QED
  BY <1>1, EnterOne, AnnounceOne, ContactsOne, AddedOne, StatusOne, FarewellOne, RemoveOne, LeaveOne, ListOne,
     ChangeOne, PumpOne DEF Kind

-----------------------------------------------------------------------------
(* What a step leaves alone: everybody else's session, and what they are    *)
(* shown of anybody but the user the step is of.                            *)

concern(P, u) == \A p \in P : p.to = u \/ p.about = u

LEMMA ReceivedElsewhere ==
  ASSUME PresenceType, NEW P, NEW u \in Users, concern(P, u), NEW x \in Users \ {u}, NEW c \in Users \ {u}
  PROVE  receive(P)[x][c] = shows[x][c]
<1>1. {p \in P : p.to = x /\ p.about = c} = {}
  BY DEF concern
<1>2. QED
  BY <1>1, Received

Elsewhere(u, x) ==
  /\ ver' = ver /\ raced \subseteq raced'
  /\ sess'[x] = sess[x] /\ job'[x] = job[x]
  /\ x \in modeRow' <=> x \in modeRow
  /\ x \in unannounced' <=> x \in unannounced
  /\ \A y \in Users : <<x, y>> \in rows => <<x, y>> \in rows'
  /\ \A c \in Users \ {u} : shows'[x][c] = shows[x][c]
  /\ \E ms : grown(x, ms) /\ \A k \in DOMAIN ms : ms[k].about = u

LEMMA NoMessage ==
  ASSUME PresenceType, NEW x \in Users, queue'[x] = queue[x], NEW u
  PROVE  \E ms : grown(x, ms) /\ \A k \in DOMAIN ms : ms[k].about = u
<1>1. grown(x, <<>>)
  BY DEF grown, PresenceType
<1>2. QED
  BY <1>1

LEMMA OneMessage ==
  ASSUME NEW x, NEW u, NEW m, m.about = u, NEW b \in BOOLEAN, grown(x, IF b THEN <<m>> ELSE <<>>)
  PROVE  \E ms : grown(x, ms) /\ \A k \in DOMAIN ms : ms[k].about = u
<1> DEFINE ms == IF b THEN <<m>> ELSE <<>>
<1>1. \A k \in DOMAIN ms : ms[k].about = u
  OBVIOUS
<1>2. grown(x, ms)
  OBVIOUS
<1> HIDE DEF ms
<1>3. QED
  BY <1>1, <1>2

LEMMA ElseEnter ==
  ASSUME Outset, NEW u \in Users, Enter(u), NEW x \in Users \ {u}
  PROVE  Elsewhere(u, x)
<1>1. PICK S \in Sessions : install(u, S) /\ (\/ \E s \in Statuses \cup {0} : start(u, Announcing(s))
                                              \/ UNCHANGED job)
  BY DEF Enter
<1>2. /\ sess'[x] = sess[x] /\ queue'[x] = queue[x] /\ shows'[x] = shows[x]
      /\ x \in unannounced' <=> x \in unannounced
  BY <1>1 DEF install, set, Outset, PresenceType
<1>3. job'[x] = job[x]
  BY <1>1 DEF start, Outset, PresenceType
<1>4. QED
  BY <1>2, <1>3, NoMessage DEF Enter, tables, Elsewhere, Outset

LEMMA ElseAnnounce ==
  ASSUME Outset, NEW u \in Users, announce(u), NEW x \in Users \ {u}
  PROVE  Elsewhere(u, x)
<1> DEFINE o(s) == mapLegacyStatusToOSCAR(s)
<1>1. PICK s \in Statuses \cup {0} :
           /\ job' = [job EXCEPT ![u] = <<>>]
           /\ sess' = [sess EXCEPT ![u] = [sess[u] EXCEPT !.status = s, !.oscar = o(s)]]
           /\ modeRow' = IF ver[u] = 1 THEN modeRow ELSE modeRow \cup {u}
           /\ \A v \in Users : grown(v, IF v \in audience(u, s) THEN <<Arrived(u, o(s))>> ELSE <<>>)
           /\ \E P : shows' = receive(P) /\ \A p \in P : p.about = u
           /\ unannounced' = unannounced \/ (ver[u] = 1 /\ unannounced' = unannounced \ {u})
           /\ UNCHANGED <<ver, rows, raced>>
  BY Announces
<1> HIDE DEF o
<1>2. sess'[x] = sess[x] /\ job'[x] = job[x]
  BY <1>1 DEF Outset, PresenceType
<1>3. \A c \in Users \ {u} : shows'[x][c] = shows[x][c]
  BY <1>1, ReceivedElsewhere DEF Outset, concern
<1>4. \E ms : grown(x, ms) /\ \A k \in DOMAIN ms : ms[k].about = u
  BY <1>1, OneMessage DEF Arrived
<1>5. QED
  BY <1>1, <1>2, <1>3, <1>4 DEF Elsewhere

LEMMA ElseContacts ==
  ASSUME Outset, NEW u \in Users, contacts(u), NEW x \in Users \ {u}
  PROVE  Elsewhere(u, x)
<1>1. job[u] = Listing /\ job' = [job EXCEPT ![u] = <<>>]
  BY JobSteps DEF contacts, Outset
<1>2. sess[u] # Absent
  BY <1>1, AtWork
<1>3. \A p \in onlineContacts(u) \cup notifyContactsUserOnline(u) : p.to = u \/ p.about = u
  BY <1>2, PacketsOf DEF About, Outset
<1>4. \A c \in Users \ {u} : shows'[x][c] = shows[x][c]
  BY <1>3, ReceivedElsewhere DEF contacts, Outset, concern
<1>5. job'[x] = job[x]
  BY <1>1 DEF Outset, PresenceType
<1>6. QED
  BY <1>4, <1>5, NoMessage DEF contacts, lookup, tables, Elsewhere, Outset

LEMMA ElseAdded ==
  ASSUME Outset, NEW u \in Users, added(u), NEW x \in Users \ {u}
  PROVE  Elsewhere(u, x)
<1>1. PICK c \in Users :
           /\ c # u /\ job' = [job EXCEPT ![u] = <<>>] /\ active(u)
           /\ rows' = rows \cup ownRows(u, {c}) /\ AddBuddies(u, {c})
           /\ \/ shows' = shows
              \/ shows' = receive({About("online", u, c, sent(u, sess[c].status)),
                                   About("online", c, u, sent(c, sess[u].status))})
           /\ raced \subseteq raced'
           /\ UNCHANGED <<ver, sess, modeRow, unannounced>>
  BY Adds
<1>2. \A d \in Users \ {u} : shows'[x][d] = shows[x][d]
  <2>1. concern({About("online", u, c, sent(u, sess[c].status)), About("online", c, u, sent(c, sess[u].status))}, u)
    BY DEF concern, About
  <2>2. QED
    BY <1>1, <2>1, ReceivedElsewhere DEF Outset
<1>3. grown(x, IF x \in hosts(u, {c}) THEN <<Arrived(u, sess[u].oscar)>> ELSE <<>>)
  BY <1>1, BuddiesAdded, Assumed DEF Outset
<1>4. \E ms : grown(x, ms) /\ \A k \in DOMAIN ms : ms[k].about = u
  BY <1>3, OneMessage DEF Arrived
<1>5. job'[x] = job[x]
  BY <1>1 DEF Outset, PresenceType
<1>6. QED
  BY <1>1, <1>2, <1>4, <1>5 DEF Elsewhere

LEMMA ElseStatus ==
  ASSUME Outset, NEW u \in Users, status(u), NEW x \in Users \ {u}
  PROVE  Elsewhere(u, x)
<1> DEFINE o == mapLegacyStatusToOSCAR(sess[u].status)
<1>1. /\ job' = [job EXCEPT ![u] = <<>>]
      /\ sess' = [sess EXCEPT ![u] = [sess[u] EXCEPT !.oscar = o]]
      /\ \A v \in Users : grown(v, IF v \notin listedBy(u) THEN <<>>
                                   ELSE IF isInvisible(o) THEN <<Departed(u)>> ELSE <<Arrived(u, o)>>)
      /\ \E P : shows' = receive(P) /\ \A p \in P : p.about = u
      /\ unannounced' = IF isInvisible(o) THEN unannounced \ {u} ELSE unannounced
      /\ UNCHANGED <<ver, modeRow, rows, raced>>
  BY Changes
<1> HIDE DEF o
<1>2. sess'[x] = sess[x] /\ job'[x] = job[x]
  BY <1>1 DEF Outset, PresenceType
<1>3. \A c \in Users \ {u} : shows'[x][c] = shows[x][c]
  BY <1>1, ReceivedElsewhere DEF Outset, concern
<1>4. \E ms : grown(x, ms) /\ \A k \in DOMAIN ms : ms[k].about = u
  <2> DEFINE m == IF isInvisible(o) THEN Departed(u) ELSE Arrived(u, o)
  <2>1. m.about = u
    BY DEF Departed, Arrived
  <2>2. grown(x, IF x \in listedBy(u) THEN <<m>> ELSE <<>>)
    BY <1>1
  <2> HIDE DEF m
  <2>3. QED
    BY <2>1, <2>2, OneMessage
<1>5. QED
  BY <1>1, <1>2, <1>3, <1>4 DEF Elsewhere

LEMMA ElseFarewell ==
  ASSUME Outset, NEW u \in Users, farewell(u), NEW x \in Users \ {u}
  PROVE  Elsewhere(u, x)
<1>1. /\ job' = [job EXCEPT ![u] = Left]
      /\ \A v \in Users : grown(v, IF v \in listedBy(u) THEN <<Departed(u)>> ELSE <<>>)
      /\ modeRow' = modeRow \ {u} /\ rows' = {r \in rows : r[1] # u} /\ unannounced' = unannounced \ {u}
      /\ raced \subseteq raced' /\ UNCHANGED <<ver, sess, shows>>
  BY Farewells
<1>2. job'[x] = job[x]
  BY <1>1 DEF Outset, PresenceType
<1>3. \E ms : grown(x, ms) /\ \A k \in DOMAIN ms : ms[k].about = u
  BY <1>1, OneMessage DEF Departed
<1>4. \A y \in Users : <<x, y>> \in rows => <<x, y>> \in rows'
  BY <1>1
<1>5. QED
  BY <1>1, <1>2, <1>3, <1>4 DEF Elsewhere

LEMMA ElseRest ==
  ASSUME Outset, NEW u \in Users, NEW x \in Users \ {u},
         \/ RemoveSession(u) \/ Leave(u) \/ pump(u)
         \/ \E cs \in SUBSET (Users \ {u}) :
              Ready(u) /\ (contactList(u, cs) \/ visibleList(u, cs) \/ invisibleList(u, cs))
         \/ \E c \in Users \ {u} : userAdd(u, c)
         \/ \E s \in Statuses : setStatusFirst(u, s) \/ handleSetStateV3(u, s)
  PROVE  Elsewhere(u, x)
<1>1. CASE RemoveSession(u)
  <2>1. /\ job'[x] = job[x] /\ sess'[x] = sess[x] /\ queue'[x] = queue[x] /\ shows'[x] = shows[x]
        /\ UNCHANGED <<ver, modeRow, rows, raced, unannounced>>
    BY <1>1 DEF RemoveSession, step, set, tables, history, Outset, PresenceType
  <2>2. QED
    BY <2>1, NoMessage DEF Elsewhere, Outset
<1>2. CASE Leave(u)
  <2>1. PICK packets : logoff(u, packets) /\ \A p \in packets : p.about = u
    BY <1>2 DEF Leave
  <2>2. /\ job'[x] = job[x] /\ UNCHANGED <<ver, sess, queue, modeRow, rows, raced, unannounced>>
        /\ shows' = receive(packets)
    BY <2>1 DEF logoff, start, tables, history, Outset, PresenceType
  <2>3. \A c \in Users \ {u} : shows'[x][c] = shows[x][c]
    BY <2>1, <2>2, ReceivedElsewhere DEF Outset, concern
  <2>4. QED
    BY <2>2, <2>3, NoMessage DEF Elsewhere, Outset
<1>3. CASE pump(u)
  <2> DEFINE m == Head(queue[u])
  <2>1. /\ queue' = [queue EXCEPT ![u] = Tail(queue[u])]
        /\ UNCHANGED <<ver, modeRow, rows, job, raced, unannounced>>
        /\ \/ UNCHANGED <<sess, shows>>
           \/ \E K : sess' = [sess EXCEPT ![u] = K] /\ \E P : shows' = receive(P) /\ concern(P, u)
    <3>1. m.kind \in {"arrived", "departed"}
      BY <1>3, Pumps DEF Messages
    <3>2. \A kind, s : concern({About(kind, u, m.about, s)}, u)
      BY DEF concern, About
    <3>3. CASE ~IsContact(u, m.about)
      BY <1>3, <3>3, Pumps
    <3>4. CASE IsContact(u, m.about) /\ m.kind = "arrived"
      BY <1>3, <3>2, <3>4, Pumps
    <3>5. CASE IsContact(u, m.about) /\ m.kind = "departed"
      BY <1>3, <3>2, <3>5, Pumps
    <3>6. QED
      BY <1>3, <3>1, <3>3, <3>4, <3>5, Pumps
  <2>2. sess'[x] = sess[x] /\ queue'[x] = queue[x]
    BY <2>1 DEF Outset, PresenceType
  <2>3. \A c \in Users \ {u} : shows'[x][c] = shows[x][c]
    BY <2>1, ReceivedElsewhere DEF Outset, concern
  <2>4. QED
    BY <2>1, <2>2, <2>3, NoMessage DEF Elsewhere, Outset
<1>4. ASSUME NEW cs \in SUBSET (Users \ {u}), Ready(u), contactList(u, cs)
      PROVE  Elsewhere(u, x)
  <2>1. /\ sess'[x] = sess[x] /\ job'[x] = job[x] /\ shows'[x] = shows[x] /\ rows \subseteq rows'
        /\ AddBuddies(u, cs) /\ UNCHANGED <<ver, modeRow, raced, unannounced>>
    BY <1>4 DEF contactList, set, start, history, Outset, PresenceType
  <2>2. grown(x, IF x \in hosts(u, cs) THEN <<Arrived(u, sess[u].oscar)>> ELSE <<>>)
    BY <1>4, <2>1, BuddiesAdded, Assumed DEF Outset, Ready
  <2>3. \E ms : grown(x, ms) /\ \A k \in DOMAIN ms : ms[k].about = u
    BY <2>2, OneMessage DEF Arrived
  <2>4. QED
    BY <2>1, <2>3 DEF Elsewhere
<1>5. ASSUME NEW cs, visibleList(u, cs) \/ invisibleList(u, cs)
      PROVE  Elsewhere(u, x)
  <2>1. /\ sess'[x] = sess[x]
        /\ UNCHANGED <<ver, modeRow, rows, queue, shows, job, raced, unannounced>>
    BY <1>5 DEF visibleList, invisibleList, set, tables, history, Outset, PresenceType
  <2>2. QED
    BY <2>1, NoMessage DEF Elsewhere, Outset
<1>6. ASSUME NEW a, userAdd(u, a) \/ setStatusFirst(u, a)
      PROVE  Elsewhere(u, x)
  <2>1. /\ sess'[x] = sess[x] /\ job'[x] = job[x]
        /\ UNCHANGED <<ver, modeRow, rows, queue, shows, raced, unannounced>>
    BY <1>6 DEF userAdd, setStatusFirst, set, start, tables, history, Outset, PresenceType
  <2>2. QED
    BY <2>1, NoMessage DEF Elsewhere, Outset
<1>7. ASSUME NEW s \in Statuses, handleSetStateV3(u, s)
      PROVE  Elsewhere(u, x)
  <2>1. PICK told \in SUBSET Users : shows' = receive({SendStatusChange(v, u, s) : v \in told})
    BY <1>7 DEF handleSetStateV3
  <2>2. \A p \in {SendStatusChange(v, u, s) : v \in told} : p.about = u
    BY PacketsSent DEF Outset, About
  <2>3. \A c \in Users \ {u} : shows'[x][c] = shows[x][c]
    BY <2>1, <2>2, ReceivedElsewhere DEF Outset, concern
  <2>4. /\ sess'[x] = sess[x] /\ (x \in unannounced' <=> x \in unannounced)
        /\ UNCHANGED <<ver, modeRow, rows, queue, job, raced>>
    BY <1>7 DEF handleSetStateV3, set, tables, Outset, PresenceType
  <2>5. QED
    BY <2>3, <2>4, NoMessage DEF Elsewhere, Outset
<1>8. QED
  BY <1>1, <1>2, <1>3, <1>4, <1>5, <1>6, <1>7

LEMMA OthersSpared ==
  ASSUME Outset, NEW u \in Users, Kind(u), NEW x \in Users \ {u}
  PROVE  Elsewhere(u, x)
BY ElseEnter, ElseAnnounce, ElseContacts, ElseAdded, ElseStatus, ElseFarewell, ElseRest DEF Kind

-----------------------------------------------------------------------------
(* What holds of a viewer and a contact: of the contact's arrivals on their *)
(* way, of a departure that will follow, and of what is shown meanwhile.    *)

\* A departure of c is on its way to v, past the i-th message.
Gone(v, c, i) == \E j \in DOMAIN queue[v] : j > i /\ queue[v][j].kind = "departed" /\ queue[v][j].about = c

\* v is told of c's comings and goings.
hears(v, c) == <<v, c>> \in rows /\ v \in modeRow /\ c \in modeRow

\* c may be taken for visible: he is, or his going has yet to be announced.
open(c) == c \in modeRow /\ (isInvisible(sess[c].oscar) => c \in unannounced)

plain(s) == s # Offline /\ ~isInvisible(s)

RowInv(v, c) == IsContact(v, c) /\ c \notin AuthRequired => <<v, c>> \in rows \/ job[v] \in {Adding(c), Left}

\* An arrival on its way is not stale, unless the departure follows it.
QueueInv(v, c) ==
  \A i \in DOMAIN queue[v] :
    queue[v][i].kind = "arrived" /\ queue[v][i].about = c => Gone(v, c, i) \/ (hears(v, c) /\ open(c))

GhostInv(v, c) ==
  views(v, c) /\ shows[v][c] # Offline => <<v, c>> \in raced \/ c \in modeRow \/ Gone(v, c, 0)

HiddenInv(v, c) ==
  views(v, c) /\ plain(shows[v][c]) /\ job[v] # Adding(c) => <<v, c>> \in raced \/ open(c) \/ Gone(v, c, 0)

TwoInv(v, c) ==
  /\ RowInv(v, c)
  /\ job[v] # Left => QueueInv(v, c) /\ GhostInv(v, c) /\ HiddenInv(v, c)

LEMMA Appended ==
  ASSUME PresenceType, NEW v \in Users, NEW ms, grown(v, ms)
  PROVE  /\ \A i \in DOMAIN queue[v] : i \in DOMAIN queue'[v] /\ queue'[v][i] = queue[v][i]
         /\ \A k \in DOMAIN ms : /\ Len(queue[v]) + k \in DOMAIN queue'[v]
                                 /\ queue'[v][Len(queue[v]) + k] = ms[k]
         /\ \A i \in DOMAIN queue'[v] : i \in DOMAIN queue[v] \/ (\E k \in DOMAIN ms : i = Len(queue[v]) + k)
         /\ DOMAIN queue[v] = 1..Len(queue[v]) /\ Len(queue[v]) \in Nat
         /\ DOMAIN ms = 1..Len(ms) /\ Len(ms) \in Nat
         /\ DOMAIN queue'[v] \subseteq Nat \ {0}
<1> DEFINE q == queue[v]
<1>1. q \in Seq(Messages) /\ ms \in Seq(Messages) /\ queue'[v] = q \o ms
  BY DEF PresenceType, grown
<1> HIDE DEF q
<1>2. /\ Len(q) \in Nat /\ Len(ms) \in Nat /\ DOMAIN q = 1..Len(q) /\ DOMAIN ms = 1..Len(ms)
      /\ DOMAIN (q \o ms) = 1..(Len(q) + Len(ms))
      /\ \A i \in 1..(Len(q) + Len(ms)) : (q \o ms)[i] = IF i <= Len(q) THEN q[i] ELSE ms[i - Len(q)]
  BY <1>1
<1>3. \A i \in DOMAIN q : i \in DOMAIN (q \o ms) /\ (q \o ms)[i] = q[i]
  BY <1>2
<1>4. \A k \in DOMAIN ms : Len(q) + k \in DOMAIN (q \o ms) /\ (q \o ms)[Len(q) + k] = ms[k]
  BY <1>2
<1>5. \A i \in DOMAIN (q \o ms) : i \in DOMAIN q \/ (\E k \in DOMAIN ms : i = Len(q) + k)
  <2> TAKE i \in DOMAIN (q \o ms)
  <2>1. CASE i <= Len(q)
    BY <1>2, <2>1
  <2>2. CASE i > Len(q)
    <3>1. i - Len(q) \in DOMAIN ms /\ i = Len(q) + (i - Len(q))
      BY <1>2, <2>2
    <3>2. QED
      BY <3>1
  <2>3. QED
    BY <1>2, <2>1, <2>2
<1>6. QED
  BY <1>1, <1>2, <1>3, <1>4, <1>5 DEF q

LEMMA GoneKept ==
  ASSUME PresenceType, NEW v \in Users, NEW c, NEW ms, grown(v, ms), NEW i, Gone(v, c, i)
  PROVE  Gone(v, c, i)'
<1>1. PICK j \in DOMAIN queue[v] : j > i /\ queue[v][j].kind = "departed" /\ queue[v][j].about = c
  BY DEF Gone
<1>2. j \in DOMAIN queue'[v] /\ queue'[v][j] = queue[v][j]
  BY <1>1, Appended
<1>3. QED
  BY <1>1, <1>2 DEF Gone

\* A departure that is sent comes after all that was sent before.
LEMMA DepartureSent ==
  ASSUME PresenceType, NEW v \in Users, NEW c, grown(v, <<Departed(c)>>)
  PROVE  /\ Gone(v, c, 0)'
         /\ QueueInv(v, c)'
<1> DEFINE n == Len(queue[v]) + 1
<1>1. n \in DOMAIN queue'[v] /\ queue'[v][n] = Departed(c) /\ n > 0
  <2>1. 1 \in DOMAIN <<Departed(c)>> /\ <<Departed(c)>>[1] = Departed(c)
    OBVIOUS
  <2> HIDE DEF n
  <2>2. QED
    BY <2>1, Appended DEF n
<1>2. \A i \in DOMAIN queue'[v] : i < n \/ i = n
  <2>1. \A k \in DOMAIN <<Departed(c)>> : k = 1
    OBVIOUS
  <2>2. QED
    BY <2>1, Appended
<1> HIDE DEF n
<1>3. Departed(c).kind = "departed" /\ Departed(c).about = c
  BY DEF Departed
<1>4. Gone(v, c, 0)'
  BY <1>1, <1>3 DEF Gone
<1>5. ASSUME NEW i \in DOMAIN queue'[v], queue'[v][i].kind = "arrived"
      PROVE  Gone(v, c, i)'
  <2>1. i < n
    BY <1>1, <1>2, <1>3, <1>5
  <2>2. n > i
    BY <1>1, <2>1, Appended
  <2>3. QED
    BY <1>1, <1>3, <2>2 DEF Gone
<1>6. QED
  BY <1>4, <1>5 DEF QueueInv

LEMMA ArrivalsKept ==
  ASSUME PresenceType, NEW v \in Users, NEW c, NEW ms, grown(v, ms), QueueInv(v, c),
         queue[v] = <<>> \/ (hears(v, c) /\ open(c) => hears(v, c)' /\ open(c)'),
         \A k \in DOMAIN ms : ms[k].about = c => ms[k].kind = "arrived" /\ hears(v, c)' /\ open(c)'
  PROVE  QueueInv(v, c)'
<1> SUFFICES ASSUME NEW i \in DOMAIN queue'[v], queue'[v][i].kind = "arrived", queue'[v][i].about = c
             PROVE  Gone(v, c, i)' \/ (hears(v, c)' /\ open(c)')
  BY DEF QueueInv
<1>1. CASE i \in DOMAIN queue[v]
  <2>1. queue[v][i] = queue'[v][i] /\ queue[v] # <<>>
    BY <1>1, Appended
  <2>2. Gone(v, c, i) \/ (hears(v, c) /\ open(c))
    BY <1>1, <2>1 DEF QueueInv
  <2>3. QED
    BY <2>1, <2>2, GoneKept
<1>2. ASSUME NEW k \in DOMAIN ms, i = Len(queue[v]) + k
      PROVE  hears(v, c)' /\ open(c)'
  BY <1>2, Appended
<1>3. QED
  BY <1>1, <1>2, Appended

\* What is shown stays, or is taken back.
LEMMA SightKept ==
  ASSUME NEW v \in Users, NEW c \in Users, v # c, GhostInv(v, c), HiddenInv(v, c), ShowsInv(v),
         ver' = ver, raced \subseteq raced',
         shows'[v][c] = shows[v][c] \/ shows'[v][c] = Offline,
         Gone(v, c, 0) => Gone(v, c, 0)', c \in modeRow => c \in modeRow', open(c) => open(c)',
         job[v] = Adding(c) => job'[v] = Adding(c)
  PROVE  GhostInv(v, c)' /\ HiddenInv(v, c)'
<1>1. ASSUME views(v, c)', shows'[v][c] # Offline
      PROVE  views(v, c) /\ shows[v][c] # Offline /\ shows'[v][c] = shows[v][c]
  BY <1>1 DEF ShowsInv, views
<1>2. GhostInv(v, c)'
  BY <1>1 DEF GhostInv
<1>3. HiddenInv(v, c)'
  BY <1>1 DEF HiddenInv, plain
<1>4. QED
  BY <1>2, <1>3

\* A step that changes nothing between the two for the worse.
LEMMA TwoKept ==
  ASSUME Outset, NEW v \in Users, NEW c \in Users, v # c, TwoInv(v, c), RowInv(v, c)',
         ver' = ver, raced \subseteq raced', job'[v] = Left \/ job[v] # Left,
         shows'[v][c] = shows[v][c] \/ shows'[v][c] = Offline,
         NEW ms, grown(v, ms), \A k \in DOMAIN ms : ms[k].about = c => ms[k].kind = "arrived" /\ hears(v, c)' /\ open(c)',
         hears(v, c) => hears(v, c)', c \in modeRow => c \in modeRow', open(c) => open(c)',
         job[v] = Adding(c) => job'[v] = Adding(c)
  PROVE  TwoInv(v, c)'
<1>1. PresenceType /\ ShowsInv(v)
  BY DEF Outset, OneInv
<1>2. Gone(v, c, 0) => Gone(v, c, 0)'
  BY <1>1, GoneKept
<1>3. ASSUME job[v] # Left
      PROVE  QueueInv(v, c)' /\ GhostInv(v, c)' /\ HiddenInv(v, c)'
  <2>1. QueueInv(v, c)'
    BY <1>1, <1>3, ArrivalsKept DEF TwoInv
  <2>2. GhostInv(v, c)' /\ HiddenInv(v, c)'
    BY <1>1, <1>2, <1>3, SightKept DEF TwoInv
  <2>3. QED
    BY <2>1, <2>2
<1>4. QED
  BY <1>3 DEF TwoInv

LEMMA TwoElsewhere ==
  ASSUME Outset, NEW u \in Users, Kind(u), NEW v \in Users \ {u}, NEW c \in Users \ {u}, v # c, TwoInv(v, c)
  PROVE  TwoInv(v, c)'
<1>1. Elsewhere(u, v) /\ Elsewhere(u, c)
  BY OthersSpared
<1>2. PICK ms : grown(v, ms) /\ \A k \in DOMAIN ms : ms[k].about = u
  BY <1>1 DEF Elsewhere
<1>3. hears(v, c) => hears(v, c)'
  BY <1>1 DEF Elsewhere, hears
<1>4. open(c) => open(c)'
  BY <1>1 DEF Elsewhere, open
<1>5. RowInv(v, c)'
  BY <1>1 DEF Elsewhere, RowInv, TwoInv, IsContact
<1>6. /\ ver' = ver /\ raced \subseteq raced' /\ job'[v] = job[v] /\ shows'[v][c] = shows[v][c]
      /\ c \in modeRow => c \in modeRow'
  BY <1>1 DEF Elsewhere
<1>7. QED
  BY <1>2, <1>3, <1>4, <1>5, <1>6, TwoKept

\* Whoever is connected and done with his login is among those who can be told, and one who is
\* visible may be taken for it.
LEMMA Reachable ==
  ASSUME Outset, NEW c \in Users, active(c), ver[c] # 1, ~announcing(c), ~changing(c), job[c] # Left
  PROVE  /\ c \in modeRow
         /\ ~isInvisible(sess[c].status) \/ ~isInvisible(sess[c].oscar) => open(c)
<1>1. OneInv(c) /\ sess[c] # Absent
  BY DEF Outset, active
<1>2. c \in modeRow
  BY <1>1 DEF OneInv, ModeInv
<1>3. sess[c].status \in Codes
  BY <1>1, StatusesAreCodes DEF Outset
<1>4. c \in unannounced \/ (isInvisible(sess[c].oscar) <=> isInvisible(sess[c].status))
  BY <1>1, <1>3, CodesKept DEF OneInv, AgreesInv, agrees
<1>5. QED
  BY <1>2, <1>4 DEF open

LEMMA OpenSeen ==
  ASSUME NEW v, NEW c, open(c)'
  PROVE  GhostInv(v, c)' /\ HiddenInv(v, c)'
BY DEF GhostInv, HiddenInv, open

\* A step of the contact's that shows the viewer nothing new, or nothing that is wrong.
LEMMA Theirs ==
  ASSUME Outset, NEW c \in Users, NEW v \in Users \ {c}, Kind(c), TwoInv(v, c),
         NEW ms, grown(v, ms), \A k \in DOMAIN ms : ms[k].about = c => ms[k].kind = "arrived" /\ hears(v, c)' /\ open(c)',
         c \in modeRow => c \in modeRow', open(c) => open(c)',
         \/ shows'[v][c] = shows[v][c] \/ shows'[v][c] = Offline
         \/ GhostInv(v, c)' /\ HiddenInv(v, c)'
  PROVE  TwoInv(v, c)'
<1>1. Elsewhere(c, v) /\ PresenceType
  BY OthersSpared DEF Outset
<1>2. /\ ver' = ver /\ raced \subseteq raced' /\ job'[v] = job[v] /\ RowInv(v, c)'
      /\ hears(v, c) => hears(v, c)'
  BY <1>1 DEF Elsewhere, RowInv, TwoInv, IsContact, hears
<1>3. CASE shows'[v][c] = shows[v][c] \/ shows'[v][c] = Offline
  BY <1>2, <1>3, TwoKept
<1>4. CASE GhostInv(v, c)' /\ HiddenInv(v, c)'
  <2>1. job[v] # Left => QueueInv(v, c)'
    BY <1>1, <1>2, ArrivalsKept DEF TwoInv
  <2>2. QED
    BY <1>2, <1>4, <2>1 DEF TwoInv
<1>5. QED
  BY <1>3, <1>4

LEMMA NothingComes ==
  ASSUME PresenceType, NEW v \in Users, queue'[v] = queue[v]
  PROVE  grown(v, <<>>)
BY DEF grown, PresenceType

LEMMA TheirsEnter ==
  ASSUME Outset, NEW c \in Users, NEW v \in Users \ {c}, Enter(c), TwoInv(v, c)
  PROVE  TwoInv(v, c)'
<1>1. PICK S \in Sessions : install(c, S)
  BY DEF Enter
<1>2. /\ queue'[v] = queue[v] /\ shows'[v] = shows[v] /\ modeRow' = modeRow
      /\ unannounced' = IF active(c) THEN unannounced \cup {c} ELSE unannounced
  BY <1>1 DEF Enter, install, tables, Outset, PresenceType
<1>3. c \in modeRow => c \in unannounced'
  BY <1>2 DEF Outset, OneInv, AbsentInv, FreshInv, entering, active
<1>4. open(c) => open(c)'
  BY <1>2, <1>3 DEF open
<1>5. QED
  BY <1>2, <1>4, NothingComes, Theirs DEF Kind, Outset

\* What the viewer may be shown by one who is connected.
LEMMA ShownByActive ==
  ASSUME Outset, NEW c \in Users, NEW v \in Users \ {c}, active(c), ~announcing(c), ~changing(c), job[c] # Left,
         UNCHANGED <<ver, modeRow, unannounced>>, sess'[c].oscar = sess[c].oscar,
         shows'[v][c] = sent(v, sess[c].status)
  PROVE  GhostInv(v, c)' /\ HiddenInv(v, c)'
<1>1. CASE ver[c] = 1
  BY <1>1 DEF GhostInv, HiddenInv, views
<1>2. CASE ver[c] # 1
  <2>1. c \in modeRow /\ (~isInvisible(sess[c].status) => open(c))
    BY <1>2, Reachable
  <2>2. sess[c].status \in Codes
    BY StatusesAreCodes DEF Outset, active
  <2>3. plain(shows'[v][c]) => open(c)
    BY <2>1, <2>2, SentCodes DEF plain
  <2>4. open(c) => open(c)'
    BY DEF open
  <2>5. QED
    BY <2>1, <2>3, <2>4 DEF GhostInv, HiddenInv
<1>3. QED
  BY <1>1, <1>2

LEMMA TheirsAnnounce ==
  ASSUME Outset, NEW c \in Users, NEW v \in Users \ {c}, announce(c), TwoInv(v, c)
  PROVE  TwoInv(v, c)'
<1> DEFINE o(s) == mapLegacyStatusToOSCAR(s)
<1>1. PICK s \in Statuses \cup {0} :
           /\ isInvisible(o(s)) <=> isInvisible(s)
           /\ announcing(c) /\ sess[c] \in Sessions /\ s \in Codes /\ o(s) \in Codes
           /\ sess' = [sess EXCEPT ![c] = [sess[c] EXCEPT !.status = s, !.oscar = o(s)]]
           /\ modeRow' = IF ver[c] = 1 THEN modeRow ELSE modeRow \cup {c}
           /\ \A w \in Users : grown(w, IF w \in audience(c, s) THEN <<Arrived(c, o(s))>> ELSE <<>>)
           /\ \E P : /\ shows' = receive(P)
                     /\ \A p \in P : ~isInvisible(s) /\ ver[c] = 4
           /\ unannounced' = unannounced \/ (ver[c] = 1 /\ unannounced' = unannounced \ {c})
           /\ UNCHANGED <<ver, rows, raced>>
  BY Announces
<1> HIDE DEF o
<1>2. sess'[c].oscar = o(s)
  <2>1. [sess[c] EXCEPT !.status = s, !.oscar = o(s)].oscar = o(s)
    BY <1>1 DEF Sessions
  <2>2. QED
    BY <1>1, <2>1 DEF Outset, PresenceType
<1>3. ver[c] # 1 /\ ~isInvisible(s) => open(c)'
  BY <1>1, <1>2 DEF open
<1>4. open(c) => open(c)'
  <2>1. c \in modeRow => c \in unannounced /\ ver[c] # 1
    BY <1>1 DEF Outset, OneInv, FreshInv, ModeInv
  <2>2. QED
    BY <1>1, <2>1 DEF open
<1>5. shows'[v][c] = shows[v][c] \/ open(c)'
  <2>1. PICK P : shows' = receive(P) /\ \A p \in P : ~isInvisible(s) /\ ver[c] = 4
    BY <1>1
  <2>2. CASE P = {}
    BY <2>1, <2>2, Received DEF Outset
  <2>3. CASE P # {}
    BY <1>3, <2>1, <2>3
  <2>4. QED
    BY <2>2, <2>3
<1>6. v \in audience(c, s) => hears(v, c)' /\ open(c)'
  BY <1>1, <1>3 DEF audience, hears
<1> DEFINE ms == IF v \in audience(c, s) THEN <<Arrived(c, o(s))>> ELSE <<>>
<1>7. grown(v, ms) /\ \A k \in DOMAIN ms : ms[k].kind = "arrived" /\ v \in audience(c, s)
  BY <1>1 DEF Arrived
<1> HIDE DEF ms
<1>8. QED
  BY <1>1, <1>4, <1>5, <1>6, <1>7, OpenSeen, Theirs DEF Kind

LEMMA TheirsContacts ==
  ASSUME Outset, NEW c \in Users, NEW v \in Users \ {c}, contacts(c), TwoInv(v, c)
  PROVE  TwoInv(v, c)'
<1>1. job[c] = Listing
  BY JobSteps DEF contacts, Outset
<1>2. active(c) /\ sess[c] # Absent /\ ~announcing(c) /\ ~changing(c) /\ job[c] # Left
  BY <1>1, AtWork, JobsDiffer DEF announcing, changing
<1>3. UNCHANGED <<ver, sess, modeRow, queue, unannounced>>
  BY DEF contacts, tables
<1>4. shows'[v][c] = shows[v][c] \/ shows'[v][c] = sent(v, sess[c].status)
  <2> DEFINE P == onlineContacts(c) \cup notifyContactsUserOnline(c)
  <2>1. \A p \in P : p.to = v => p.kind = "online" /\ p.status = sent(v, sess[c].status)
    BY <1>2, PacketsOf DEF Outset, About
  <2>2. shows' = receive(P)
    BY DEF contacts
  <2> HIDE DEF P
  <2>3. QED
    BY <2>1, <2>2, Received DEF Outset, made
<1>5. open(c) => open(c)'
  BY <1>3 DEF open
<1>6. QED
  BY <1>2, <1>3, <1>4, <1>5, ShownByActive, NothingComes, Theirs DEF Kind, Outset

LEMMA TheirsAdded ==
  ASSUME Outset, NEW c \in Users, NEW v \in Users \ {c}, added(c), TwoInv(v, c)
  PROVE  TwoInv(v, c)'
<1>1. PICK d \in Users :
           /\ d # c /\ job[c] = Adding(d) /\ active(c)
           /\ rows' = rows \cup ownRows(c, {d}) /\ AddBuddies(c, {d})
           /\ \/ shows' = shows
              \/ shows' = receive({About("online", c, d, sent(c, sess[d].status)),
                                   About("online", d, c, sent(d, sess[c].status))})
           /\ UNCHANGED <<ver, sess, modeRow, unannounced>>
  BY Adds
<1>2. ~announcing(c) /\ ~changing(c) /\ job[c] # Left
  BY <1>1, JobsDiffer DEF announcing, changing
<1>3. shows'[v][c] = shows[v][c] \/ shows'[v][c] = sent(v, sess[c].status)
  <2> DEFINE P == {About("online", c, d, sent(c, sess[d].status)), About("online", d, c, sent(d, sess[c].status))}
  <2>1. \A p \in P : p.to = v => p.kind = "online" /\ p.status = sent(v, sess[c].status)
    BY <1>1 DEF About
  <2>2. shows' = shows \/ shows' = receive(P)
    BY <1>1
  <2> HIDE DEF P
  <2>3. QED
    BY <2>1, <2>2, Received DEF Outset, made
<1>4. open(c) => open(c)'
  BY <1>1 DEF open
<1> DEFINE ms == IF v \in hosts(c, {d}) THEN <<Arrived(c, sess[c].oscar)>> ELSE <<>>
<1>5. grown(v, ms) /\ \A k \in DOMAIN ms : ms[k].kind = "arrived" /\ v \in hosts(c, {d})
  BY <1>1, BuddiesAdded, Assumed DEF Outset, Arrived
<1>6. v \in hosts(c, {d}) => hears(v, c)' /\ open(c)'
  BY <1>1 DEF hosts, metBy, hears, open
<1> HIDE DEF ms
<1>7. QED
  BY <1>1, <1>2, <1>3, <1>4, <1>5, <1>6, ShownByActive, Theirs DEF Kind

sentTo(P, u) == \A p \in P : p.to = u

LEMMA NoArrival ==
  ASSUME PresenceType, NEW v \in Users, NEW c, grown(v, <<>>), QueueInv(v, c), hears(v, c) => queue[v] = <<>>
  PROVE  QueueInv(v, c)'
<1>1. \A k \in DOMAIN <<>> : FALSE
  OBVIOUS
<1>2. QED
  BY <1>1, ArrivalsKept

\* A contact that is listed and in order reaches the viewer's queue.
LEMMA ViewerListed ==
  ASSUME Outset, NEW c \in Users, NEW v \in Users \ {c}, views(v, c), c \in modeRow, active(c),
         TwoInv(v, c), job[v] \notin {Adding(c), Left}
  PROVE  v \in listedBy(c)
<1>1. <<v, c>> \in rows /\ sess[v] # Absent /\ sess[v].contacts # {}
  BY DEF TwoInv, RowInv, views, IsContact
<1>2. active(v) /\ ~announcing(v) /\ ver[v] # 1
  BY <1>1 DEF Outset, OneInv, EnteringInv, AnnouncingInv, entering, active, views
<1>3. v \in modeRow
  BY <1>2 DEF Outset, OneInv, ModeInv
<1>4. QED
  BY <1>1, <1>2, <1>3 DEF listedBy

\* Only those who are connected have a queue, and they are told whenever they hear.
LEMMA HearersListed ==
  ASSUME Outset, NEW c \in Users, NEW v \in Users \ {c}, v \notin listedBy(c), hears(v, c)
  PROVE  queue[v] = <<>>
BY DEF listedBy, hears, Outset, OneInv, AbsentInv, EnteringInv, entering, active

LEMMA TheirsStatus ==
  ASSUME Outset, NEW c \in Users, NEW v \in Users \ {c}, status(c), TwoInv(v, c)
  PROVE  TwoInv(v, c)'
<1> DEFINE o == mapLegacyStatusToOSCAR(sess[c].status)
<1>1. /\ sess[c].status \in Codes /\ o \in Codes /\ (isInvisible(o) <=> isInvisible(sess[c].status))
      /\ changing(c) /\ active(c) /\ sess[c] \in Sessions
      /\ sess' = [sess EXCEPT ![c] = [sess[c] EXCEPT !.oscar = o]]
      /\ \A w \in Users : grown(w, IF w \notin listedBy(c) THEN <<>>
                                   ELSE IF isInvisible(o) THEN <<Departed(c)>> ELSE <<Arrived(c, o)>>)
      /\ \E P : shows' = receive(P) /\ \A p \in P : p.kind = "status"
      /\ UNCHANGED <<ver, modeRow, rows, raced>>
  BY Changes
<1>2. unannounced' = IF isInvisible(o) THEN unannounced \ {c} ELSE unannounced
  BY Changes
<1> HIDE DEF o
<1>3. sess'[c].oscar = o
  BY <1>1 DEF Outset, PresenceType, Sessions
<1>4. Elsewhere(c, v) /\ PresenceType
  BY OthersSpared DEF Kind, Outset
<1>5. shows[v][c] = Offline => shows'[v][c] = Offline
  BY <1>1, <1>4, Received DEF made
<1>6. ~isInvisible(o) => (open(c) <=> c \in modeRow)' /\ (ver[c] # 1 => c \in modeRow)
  <2>1. ~announcing(c) /\ job[c] # Left
    BY <1>1, JobsDiffer DEF announcing, changing
  <2>2. ver[c] # 1 => c \in modeRow
    BY <1>1, <2>1 DEF Outset, OneInv, ModeInv
  <2>3. QED
    BY <1>1, <1>3, <2>2 DEF open
<1>7. ASSUME job[v] # Left
      PROVE  QueueInv(v, c)' /\ GhostInv(v, c)' /\ HiddenInv(v, c)'
  <2>1. /\ QueueInv(v, c) /\ GhostInv(v, c) /\ job'[v] = job[v] /\ raced \subseteq raced' /\ ver' = ver
        /\ sess'[v] = sess[v] /\ (hears(v, c)' <=> hears(v, c))
    BY <1>1, <1>4, <1>7 DEF TwoInv, Elsewhere, hears
  <2>2. views(v, c)' => views(v, c)
    BY <2>1 DEF views, IsContact
  <2>3. CASE ~isInvisible(o)
    <3> DEFINE ms == IF v \in listedBy(c) THEN <<Arrived(c, o)>> ELSE <<>>
    <3>1. grown(v, ms) /\ \A k \in DOMAIN ms : ms[k].kind = "arrived" /\ v \in listedBy(c)
      BY <1>1, <2>3 DEF Arrived
    <3>2. v \in listedBy(c) => hears(v, c)' /\ open(c)'
      BY <1>6, <1>1, <2>3, <2>1 DEF listedBy, hears
    <3>3. hears(v, c) => hears(v, c)' /\ open(c)'
      BY <1>1, <1>6, <2>1, <2>3 DEF hears
    <3> HIDE DEF ms
    <3>4. QueueInv(v, c)'
      BY <1>4, <2>1, <3>1, <3>2, <3>3, ArrivalsKept
    <3>5. GhostInv(v, c)' /\ HiddenInv(v, c)'
      BY <1>6, <1>1, <2>2, <2>3 DEF GhostInv, HiddenInv, views
    <3>6. QED
      BY <3>4, <3>5
  <2>4. CASE isInvisible(o) /\ v \in listedBy(c)
    <3>1. grown(v, <<Departed(c)>>)
      BY <1>1, <2>4
    <3>2. QED
      BY <1>4, <3>1, DepartureSent DEF GhostInv, HiddenInv
  <2>5. CASE isInvisible(o) /\ v \notin listedBy(c)
    <3>1. grown(v, <<>>) /\ (hears(v, c) => queue[v] = <<>>)
      BY <1>1, <2>5, HearersListed
    <3>2. QueueInv(v, c)'
      BY <1>4, <2>1, <3>1, NoArrival
    <3>3. GhostInv(v, c)'
      <4>1. Gone(v, c, 0) => Gone(v, c, 0)'
        BY <1>4, <3>1, GoneKept
      <4>2. QED
        BY <1>1, <1>5, <2>1, <2>2, <4>1 DEF GhostInv
    <3>4. HiddenInv(v, c)'
      <4> SUFFICES ASSUME views(v, c)', plain(shows'[v][c]), job'[v] # Adding(c)
                   PROVE  <<v, c>> \in raced' \/ open(c)' \/ Gone(v, c, 0)'
        BY DEF HiddenInv
      <4>1. views(v, c) /\ c \notin modeRow
        BY <1>1, <1>7, <2>1, <2>2, <2>5, ViewerListed
      <4>2. QED
        BY <1>1, <3>3, <4>1 DEF GhostInv, plain
    <3>5. QED
      BY <3>2, <3>3, <3>4
  <2>6. QED
    BY <2>3, <2>4, <2>5
<1>8. RowInv(v, c)'
  BY <1>4 DEF Elsewhere, RowInv, TwoInv, IsContact
<1>9. QED
  BY <1>4, <1>7, <1>8 DEF TwoInv, Elsewhere

LEMMA TheirsFarewell ==
  ASSUME Outset, NEW c \in Users, NEW v \in Users \ {c}, farewell(c), TwoInv(v, c)
  PROVE  TwoInv(v, c)'
<1>1. /\ job[c] = Leaving
      /\ \A w \in Users : grown(w, IF w \in listedBy(c) THEN <<Departed(c)>> ELSE <<>>)
      /\ modeRow' = modeRow \ {c}
      /\ raced' = raced \cup {<<w, c>> : w \in {x \in Users \ {c} : job[x] # <<>>}}
      /\ UNCHANGED <<ver, sess, shows>>
  BY Farewells
<1>2. Elsewhere(c, v) /\ PresenceType
  BY OthersSpared DEF Kind, Outset
<1>3. RowInv(v, c)'
  BY <1>2 DEF Elsewhere, RowInv, TwoInv, IsContact
<1>4. ASSUME job[v] # Left
      PROVE  QueueInv(v, c)' /\ GhostInv(v, c)' /\ HiddenInv(v, c)'
  <2>1. CASE v \in listedBy(c)
    <3>1. grown(v, <<Departed(c)>>)
      BY <1>1, <2>1
    <3>2. QED
      BY <1>2, <3>1, DepartureSent DEF GhostInv, HiddenInv
  <2>2. CASE v \notin listedBy(c)
    <3>1. grown(v, <<>>) /\ (hears(v, c) => queue[v] = <<>>)
      BY <1>1, <2>2, HearersListed
    <3>2. QueueInv(v, c)'
      BY <1>2, <1>4, <3>1, NoArrival DEF TwoInv
    <3>3. Gone(v, c, 0) => Gone(v, c, 0)'
      BY <1>2, <3>1, GoneKept
    <3>4. views(v, c) /\ c \in modeRow /\ active(c) => <<v, c>> \in raced'
      <4>1. CASE job[v] = <<>>
        <5>1. job[v] \notin {Adding(c), Left}
          BY <4>1, JobsDiffer
        <5>2. QED
          BY <2>2, <5>1, ViewerListed
      <4>2. CASE job[v] # <<>>
        BY <1>1, <4>2
      <4>3. QED
        BY <4>1, <4>2
    <3>5. c \in modeRow => active(c) \/ <<v, c>> \in raced' \/ ~views(v, c)
      <4>1. ASSUME c \in modeRow, ~active(c), views(v, c), job[v] = <<>>
            PROVE  FALSE
        <5>1. <<v, c>> \in rows /\ sess[v] # Absent /\ sess[v].contacts # {}
          BY <1>4, <4>1, JobsDiffer DEF TwoInv, RowInv, views, IsContact
        <5>2. active(v) /\ ~announcing(v) /\ ver[v] # 1 /\ v \in modeRow
          BY <4>1, <5>1, JobsDiffer DEF Outset, OneInv, EnteringInv, AnnouncingInv, ModeInv, entering, active, views,
             announcing
        <5>3. QED
          BY <2>2, <4>1, <5>1, <5>2 DEF listedBy
      <4>2. QED
        BY <1>1, <4>1
    <3>6. views(v, c)' => views(v, c)
      BY <1>1 DEF views, IsContact
    <3>7. GhostInv(v, c)' /\ HiddenInv(v, c)'
      BY <1>1, <1>2, <1>4, <3>3, <3>4, <3>5, <3>6 DEF GhostInv, HiddenInv, TwoInv, plain, open, Elsewhere
    <3>8. QED
      BY <3>2, <3>7
  <2>3. QED
    BY <2>1, <2>2
<1>5. QED
  BY <1>2, <1>3, <1>4 DEF TwoInv, Elsewhere

LEMMA TheirsRest ==
  ASSUME Outset, NEW c \in Users, NEW v \in Users \ {c}, TwoInv(v, c), Kind(c),
         \/ RemoveSession(c) \/ Leave(c) \/ pump(c)
         \/ \E cs \in SUBSET (Users \ {c}) :
              Ready(c) /\ (contactList(c, cs) \/ visibleList(c, cs) \/ invisibleList(c, cs))
         \/ \E d \in Users \ {c} : Ready(c) /\ userAdd(c, d)
         \/ \E s \in Statuses : Ready(c) /\ (setStatusFirst(c, s) \/ handleSetStateV3(c, s))
  PROVE  TwoInv(v, c)'
<1> USE DEF Kind
<1>1. CASE RemoveSession(c)
  <2>1. job[c] = Left /\ queue'[v] = queue[v] /\ shows'[v] = shows[v] /\ UNCHANGED modeRow
    BY <1>1, JobSteps DEF RemoveSession, tables, Outset, PresenceType
  <2>2. c \notin modeRow
    BY <2>1 DEF Outset, OneInv, ModeInv
  <2>3. QED
    BY <2>1, <2>2, NothingComes, Theirs DEF open, Outset
<1>2. CASE Leave(c)
  <2>1. PICK packets : logoff(c, packets) /\ \A p \in packets : p.kind = "offline"
    BY <1>2 DEF Leave
  <2>2. shows' = receive(packets) /\ UNCHANGED <<sess, queue, modeRow, unannounced>>
    BY <2>1 DEF logoff, tables, history
  <2>3. shows'[v][c] = shows[v][c] \/ shows'[v][c] = Offline
    BY <2>1, <2>2, Received DEF made, Outset
  <2>4. open(c) => open(c)'
    BY <2>2 DEF open
  <2>5. QED
    BY <2>2, <2>3, <2>4, NothingComes, Theirs DEF Outset
<1>3. CASE pump(c)
  <2> DEFINE m == Head(queue[c])
  <2>1. /\ queue' = [queue EXCEPT ![c] = Tail(queue[c])] /\ sess[c] \in Sessions
        /\ UNCHANGED <<modeRow, unannounced>>
        /\ \/ UNCHANGED <<sess, shows>>
           \/ \E K : sess' = [sess EXCEPT ![c] = [sess[c] EXCEPT !.known = K]]
                     /\ \E P : shows' = receive(P) /\ sentTo(P, c)
    <3>1. m.kind \in {"arrived", "departed"}
      BY <1>3, Pumps DEF Messages
    <3>2. \A kind, s : sentTo({About(kind, c, m.about, s)}, c)
      BY DEF About, sentTo
    <3>3. CASE ~IsContact(c, m.about)
      BY <1>3, <3>3, Pumps
    <3>4. CASE IsContact(c, m.about) /\ m.kind = "arrived"
      BY <1>3, <3>2, <3>4, Pumps
    <3>5. CASE IsContact(c, m.about) /\ m.kind = "departed"
      BY <1>3, <3>2, <3>5, Pumps
    <3>6. QED
      BY <1>3, <3>1, <3>3, <3>4, <3>5, Pumps
  <2>2. queue'[v] = queue[v] /\ sess'[c].oscar = sess[c].oscar
    BY <2>1 DEF Outset, PresenceType, Sessions
  <2>3. shows'[v][c] = shows[v][c]
    BY <2>1, Received DEF Outset, sentTo
  <2>4. open(c) => open(c)'
    BY <2>1, <2>2 DEF open
  <2>5. QED
    BY <1>3, <2>1, <2>2, <2>3, <2>4, NothingComes, Theirs DEF Outset
<1>4. ASSUME NEW cs \in SUBSET (Users \ {c}), Ready(c), contactList(c, cs)
      PROVE  TwoInv(v, c)'
  <2>1. /\ sess' = [sess EXCEPT ![c] = [sess[c] EXCEPT !.contacts = cs]] /\ shows'[v] = shows[v] /\ rows \subseteq rows'
        /\ AddBuddies(c, cs) /\ UNCHANGED <<modeRow, unannounced>> /\ active(c) /\ sess[c] \in Sessions
    BY <1>4 DEF contactList, set, history, Outset, PresenceType, Ready, active
  <2>2. sess'[c].oscar = sess[c].oscar
    BY <2>1 DEF Outset, PresenceType, Sessions
  <2>3. open(c) => open(c)'
    BY <2>1, <2>2 DEF open
  <2> DEFINE ms == IF v \in hosts(c, cs) THEN <<Arrived(c, sess[c].oscar)>> ELSE <<>>
  <2>4. grown(v, ms) /\ \A k \in DOMAIN ms : ms[k].kind = "arrived" /\ v \in hosts(c, cs)
    BY <2>1, BuddiesAdded, Assumed DEF Outset, Arrived
  <2>5. v \in hosts(c, cs) => hears(v, c)' /\ open(c)'
    BY <2>1, <2>2 DEF hosts, metBy, hears, open
  <2> HIDE DEF ms
  <2>6. QED
    BY <2>1, <2>3, <2>4, <2>5, Theirs
<1>5. ASSUME sess[c] \in Sessions, sess'[c].oscar = sess[c].oscar,
             UNCHANGED <<queue, shows, modeRow, unannounced>>
      PROVE  TwoInv(v, c)'
  <2>1. open(c) => open(c)'
    BY <1>5 DEF open
  <2>2. QED
    BY <1>5, <2>1, NothingComes, Theirs DEF Outset
<1>6. ASSUME Ready(c)
      PROVE  sess[c] \in Sessions
  BY <1>6 DEF Ready, active, Outset, PresenceType
<1>7. ASSUME NEW cs, Ready(c), visibleList(c, cs) \/ invisibleList(c, cs)
      PROVE  TwoInv(v, c)'
  <2>1. sess'[c].oscar = sess[c].oscar
    BY <1>6, <1>7 DEF visibleList, invisibleList, set, Outset, PresenceType, Sessions
  <2>2. QED
    BY <1>5, <1>6, <1>7, <2>1 DEF visibleList, invisibleList, tables, history
<1>8. ASSUME NEW a, Ready(c), userAdd(c, a) \/ setStatusFirst(c, a)
      PROVE  TwoInv(v, c)'
  <2>1. sess'[c].oscar = sess[c].oscar
    BY <1>6, <1>8 DEF userAdd, setStatusFirst, set, Outset, PresenceType, Sessions
  <2>2. QED
    BY <1>5, <1>6, <1>8, <2>1 DEF userAdd, setStatusFirst, tables, history
<1>9. ASSUME NEW s \in Statuses, Ready(c), handleSetStateV3(c, s)
      PROVE  TwoInv(v, c)'
  <2>1. ver[c] = 3 /\ active(c) /\ job[c] = <<>> /\ ~announcing(c) /\ job[c] # Left
    BY <1>9, JobsDiffer DEF handleSetStateV3, serves, Ready, announcing
  <2>2. c \in modeRow
    BY <2>1 DEF Outset, OneInv, ModeInv
  <2>3. modeRow' = modeRow /\ c \in unannounced' /\ queue' = queue
    BY <1>9 DEF handleSetStateV3, tables
  <2>4. open(c)'
    BY <2>2, <2>3 DEF open
  <2>5. QED
    BY <1>9, <2>2, <2>3, <2>4, OpenSeen, NothingComes, Theirs DEF Outset
<1>10. QED
  BY <1>1, <1>2, <1>3, <1>4, <1>7, <1>8, <1>9

LEMMA TwoTheirs ==
  ASSUME Outset, NEW c \in Users, NEW v \in Users \ {c}, Kind(c), TwoInv(v, c)
  PROVE  TwoInv(v, c)'
BY TheirsEnter, TheirsAnnounce, TheirsContacts, TheirsAdded, TheirsStatus, TheirsFarewell, TheirsRest DEF Kind

\* A step of the viewer's own: the contact is as he was.
LEMMA ContactStays ==
  ASSUME Outset, NEW v \in Users, NEW c \in Users \ {v}, Kind(v)
  PROVE  /\ open(c)' <=> open(c)
         /\ c \in modeRow' <=> c \in modeRow
         /\ ver' = ver /\ raced \subseteq raced' /\ sess'[c] = sess[c] /\ job'[c] = job[c]
BY OthersSpared DEF Elsewhere, open

LEMMA Mine ==
  ASSUME Outset, NEW v \in Users, NEW c \in Users \ {v}, Kind(v), TwoInv(v, c), RowInv(v, c)',
         job'[v] = Left \/ job[v] # Left,
         shows'[v][c] = shows[v][c] \/ shows'[v][c] = Offline,
         queue'[v] = queue[v], hears(v, c) => hears(v, c)', job[v] # Adding(c)
  PROVE  TwoInv(v, c)'
<1>1. grown(v, <<>>) /\ \A k \in DOMAIN <<>> : FALSE
  BY NothingComes DEF Outset
<1>2. QED
  BY <1>1, ContactStays, TwoKept

LEMMA Nobody ==
  ASSUME NEW v, NEW c, ~IsContact(v, c)', queue'[v] = <<>>
  PROVE  TwoInv(v, c)'
BY DEF TwoInv, RowInv, QueueInv, GhostInv, HiddenInv, views

LEMMA MineComesAndGoes ==
  ASSUME Outset, NEW v \in Users, NEW c \in Users \ {v}, TwoInv(v, c), Kind(v),
         Enter(v) \/ announce(v) \/ farewell(v) \/ RemoveSession(v) \/ Leave(v)
  PROVE  TwoInv(v, c)'
<1>1. CASE Enter(v)
  <2>1. PICK S \in Sessions : install(v, S) /\ S.contacts = {}
    BY <1>1 DEF Enter
  <2>2. queue'[v] = <<>> /\ sess'[v] = S
    BY <2>1 DEF install, set, Outset, PresenceType
  <2>3. QED
    BY <2>1, <2>2, Nobody DEF IsContact
<1>2. CASE announce(v)
  <2> DEFINE o(s) == mapLegacyStatusToOSCAR(s)
  <2>1. PICK s \in Statuses \cup {0} :
           /\ announcing(v) /\ sess[v] \in Sessions /\ job' = [job EXCEPT ![v] = <<>>]
           /\ sess' = [sess EXCEPT ![v] = [sess[v] EXCEPT !.status = s, !.oscar = o(s)]]
           /\ modeRow \subseteq modeRow'
           /\ \A w \in Users : grown(w, IF w \in audience(v, s) THEN <<Arrived(v, o(s))>> ELSE <<>>)
           /\ \E P : shows' = receive(P) /\ \A p \in P : p.about = v
           /\ UNCHANGED rows
    BY <1>2, Announces
  <2> HIDE DEF o
  <2>2. ~IsContact(v, c)'
    <3>1. sess[v].contacts = {}
      BY <2>1 DEF Outset, OneInv, AnnouncingInv
    <3>2. sess'[v].contacts = {}
      BY <2>1, <3>1 DEF Outset, PresenceType, Sessions
    <3>3. QED
      BY <3>2 DEF IsContact
  <2>3. queue'[v] = queue[v]
    BY <2>1, NothingGrown DEF audience, Outset
  <2>4. shows'[v][c] = shows[v][c]
    BY <2>1, Received DEF Outset
  <2>5. job[v] # Left /\ job[v] # Adding(c)
    BY <2>1, JobsDiffer DEF announcing
  <2>6. QED
    BY <2>1, <2>2, <2>3, <2>4, <2>5, Mine DEF RowInv, hears
<1>3. CASE farewell(v)
  <2>1. job'[v] = Left
    BY <1>3, JobSteps DEF farewell, Outset, PresenceType
  <2>2. QED
    BY <2>1 DEF TwoInv, RowInv
<1>4. CASE RemoveSession(v)
  <2>1. queue'[v] = <<>> /\ sess'[v] = Absent
    BY <1>4 DEF RemoveSession, set, Outset, PresenceType
  <2>2. QED
    BY <2>1, Nobody DEF IsContact
<1>5. CASE Leave(v)
  <2>1. PICK packets : logoff(v, packets) /\ \A p \in packets : p.about = v
    BY <1>5 DEF Leave
  <2>2. shows' = receive(packets) /\ job[v] = <<>> /\ UNCHANGED <<sess, queue, modeRow, rows>>
    BY <1>5, <2>1 DEF logoff, tables, Leave
  <2>3. shows'[v][c] = shows[v][c]
    BY <2>1, <2>2, Received DEF Outset
  <2>4. job[v] # Left /\ job[v] # Adding(c)
    BY <2>2, JobsDiffer
  <2>5. RowInv(v, c)'
    BY <2>2, <2>4 DEF RowInv, TwoInv, IsContact
  <2>6. QED
    BY <2>2, <2>3, <2>4, <2>5, Mine DEF hears
<1>6. QED
  BY <1>1, <1>2, <1>3, <1>4, <1>5

\* What a client shows of somebody it has just looked up.
LEMMA LookedUp ==
  ASSUME Outset, NEW v \in Users, NEW c \in Users \ {v}, sess[c] # Absent, NEW s \in Codes,
         shows'[v][c] = sent(v, s), UNCHANGED <<ver, sess, modeRow, unannounced>>,
         job[c] # <<>> \/ entering(c) => <<v, c>> \in raced',
         s = sess[c].status \/ s = oscarStatusToLegacy(sess[c].oscar) \/ isInvisible(s)
  PROVE  GhostInv(v, c)' /\ HiddenInv(v, c)'
<1>1. CASE <<v, c>> \in raced' \/ ver[c] = 1
  BY <1>1 DEF GhostInv, HiddenInv, views
<1>2. CASE <<v, c>> \notin raced' /\ ver[c] # 1
  <2>1. active(c) /\ ~announcing(c) /\ ~changing(c) /\ job[c] # Left
    BY <1>2, JobsDiffer DEF entering, active, announcing, changing
  <2>2. sess[c].oscar \in Codes
    BY StatusesAreCodes DEF Outset
  <2>3. plain(shows'[v][c]) => ~isInvisible(s)
    BY SentCodes DEF plain
  <2>4. plain(shows'[v][c]) => ~isInvisible(sess[c].status) \/ ~isInvisible(sess[c].oscar)
    BY <2>2, <2>3, CodesKept
  <2>5. c \in modeRow /\ (plain(shows'[v][c]) => open(c))
    BY <1>2, <2>1, <2>4, Reachable
  <2>6. QED
    BY <2>5 DEF GhostInv, HiddenInv, open
<1>3. QED
  BY <1>1, <1>2

LEMMA MineContacts ==
  ASSUME Outset, NEW v \in Users, NEW c \in Users \ {v}, TwoInv(v, c), contacts(v)
  PROVE  TwoInv(v, c)'
<1>1. job[v] = Listing /\ job' = [job EXCEPT ![v] = <<>>]
  BY JobSteps DEF contacts, Outset
<1>2. /\ job'[v] = <<>> /\ job[v] # Left /\ job[v] # Adding(c) /\ sess[v] # Absent
      /\ UNCHANGED <<ver, sess, rows, modeRow, queue, unannounced>>
  BY <1>1, JobsDiffer, AtWork DEF contacts, tables, Outset, PresenceType
<1>3. RowInv(v, c)'
  BY <1>2 DEF RowInv, TwoInv, IsContact
<1>4. hears(v, c) => hears(v, c)'
  BY <1>2 DEF hears
<1>5. \/ shows'[v][c] = shows[v][c]
      \/ IsContact(v, c) /\ contactStatus(v, c) # Offline /\ shows'[v][c] = sent(v, contactStatus(v, c))
  <2> DEFINE P == onlineContacts(v) \cup notifyContactsUserOnline(v)
  <2>1. \A p \in P : p.about = c => /\ contactStatus(v, c) # Offline
                                    /\ p.kind = "online" /\ p.status = sent(v, contactStatus(v, c))
    BY <1>2, PacketsOf DEF Outset, About
  <2>2. shows' = receive(P)
    BY DEF contacts
  <2> HIDE DEF P
  <2>3. QED
    BY <2>1, <2>2, Received DEF Outset, made
<1>6. CASE shows'[v][c] = shows[v][c]
  BY <1>2, <1>3, <1>4, <1>6, Mine DEF Kind
<1>7. CASE IsContact(v, c) /\ contactStatus(v, c) # Offline /\ shows'[v][c] = sent(v, contactStatus(v, c))
  <2>1. sess[c] # Absent /\ contactStatus(v, c) \in Codes
    BY <1>7, PacketsOf DEF Outset
  <2>2. \/ contactStatus(v, c) = sess[c].status
        \/ contactStatus(v, c) = oscarStatusToLegacy(sess[c].oscar)
    BY <1>7 DEF contactStatus, mapOSCARStatusToLegacy
  <2>3. job[c] # <<>> \/ entering(c) => <<v, c>> \in raced'
    BY <1>7 DEF contacts, lookup, IsContact
  <2>4. GhostInv(v, c)' /\ HiddenInv(v, c)'
    BY <1>2, <1>7, <2>1, <2>2, <2>3, LookedUp
  <2>5. QueueInv(v, c)'
    <3>1. queue'[v] = queue[v] /\ hears(v, c)' = hears(v, c) /\ open(c)' = open(c)
      BY <1>2 DEF hears, open
    <3>2. QED
      BY <1>2, <3>1 DEF QueueInv, Gone, TwoInv
  <2>6. QED
    BY <1>3, <2>4, <2>5 DEF TwoInv
<1>8. QED
  BY <1>5, <1>6, <1>7

LEMMA MineAdded ==
  ASSUME Outset, NEW v \in Users, NEW c \in Users \ {v}, TwoInv(v, c), added(v)
  PROVE  TwoInv(v, c)'
<1>1. PICK d \in Users :
           /\ d # v /\ job[v] = Adding(d) /\ job' = [job EXCEPT ![v] = <<>>] /\ active(v)
           /\ rows' = rows \cup ownRows(v, {d}) /\ AddBuddies(v, {d})
           /\ \/ sess[d] = Absent /\ shows' = shows
              \/ /\ sess[d] # Absent
                 /\ shows' = receive({About("online", v, d, sent(v, sess[d].status)),
                                      About("online", d, v, sent(d, sess[v].status))})
           /\ raced' = raced \cup {<<v, x>> : x \in {e \in {d} : job[e] # <<>> \/ entering(e)}}
           /\ UNCHANGED <<ver, sess, modeRow, unannounced>>
  BY Adds
<1>2. job'[v] = <<>> /\ job[v] # Left /\ (job[v] = Adding(c) => d = c) /\ PresenceType
  BY <1>1, JobsDiffer DEF Outset, PresenceType
<1>3. RowInv(v, c)'
  <2>1. c = d /\ c \notin AuthRequired => <<v, c>> \in rows'
    BY <1>1 DEF ownRows, RequiresAuthorization
  <2>2. QED
    BY <1>1, <1>2, <2>1 DEF RowInv, TwoInv, IsContact
<1>4. hears(v, c) => hears(v, c)'
  BY <1>1 DEF hears
<1>5. PICK ms : grown(v, ms) /\ arrivals(ms, v, {d})
  BY <1>1, BuddiesAdded, Assumed DEF Outset
<1>6. \A k \in DOMAIN ms : ms[k].about = c => ms[k].kind = "arrived" /\ hears(v, c)' /\ open(c)'
  <2>1. c \in news(v, {d}) => hears(v, c)' /\ open(c)'
    BY <1>1 DEF news, metBy, hears, open, ownRows, RequiresAuthorization
  <2>2. \A k \in DOMAIN ms : ms[k].kind = "arrived"
    BY <1>5 DEF Arrived, arrivals
  <2>3. QED
    BY <1>5, <2>1, <2>2 DEF arrivals
<1>7. Gone(v, c, 0) => Gone(v, c, 0)'
  BY <1>2, <1>5, GoneKept
<1>8. open(c)' = open(c)
  BY <1>1 DEF open
<1>9. QueueInv(v, c)'
  BY <1>2, <1>4, <1>5, <1>6, <1>8, ArrivalsKept DEF TwoInv
<1>10. shows'[v][c] = shows[v][c] \/ (c = d /\ sess[c] # Absent /\ shows'[v][c] = sent(v, sess[c].status))
  <2> DEFINE P == {About("online", v, d, sent(v, sess[d].status)), About("online", d, v, sent(d, sess[v].status))}
  <2>1. \A p \in P : p.about = c => c = d /\ p.kind = "online" /\ p.status = sent(v, sess[c].status)
    BY DEF About
  <2>2. shows' = shows \/ (sess[d] # Absent /\ shows' = receive(P))
    BY <1>1
  <2> HIDE DEF P
  <2>3. QED
    BY <1>2, <2>1, <2>2, Received DEF made
<1>11. CASE c = d /\ sess[c] # Absent /\ shows'[v][c] = sent(v, sess[c].status)
  <2>1. sess[c].status \in Codes
    BY <1>11, StatusesAreCodes DEF Outset
  <2>2. job[c] # <<>> \/ entering(c) => <<v, c>> \in raced'
    BY <1>1, <1>11
  <2>3. GhostInv(v, c)' /\ HiddenInv(v, c)'
    BY <1>1, <1>11, <2>1, <2>2, LookedUp
  <2>4. QED
    BY <1>3, <1>9, <2>3 DEF TwoInv
<1>12. CASE shows'[v][c] = shows[v][c] /\ (c # d \/ sess[c] = Absent)
  <2>1. views(v, c)' = views(v, c) /\ raced \subseteq raced'
    BY <1>1 DEF views, IsContact
  <2>2. GhostInv(v, c)'
    BY <1>1, <1>2, <1>7, <1>12, <2>1 DEF GhostInv, TwoInv
  <2>3. HiddenInv(v, c)'
    <3>1. CASE c # d
      BY <1>1, <1>2, <1>7, <1>8, <1>12, <2>1, <3>1 DEF HiddenInv, TwoInv
    <3>2. CASE sess[c] = Absent
      <4>1. c \notin modeRow'
        BY <1>1, <3>2 DEF Outset, OneInv, AbsentInv
      <4>2. QED
        BY <2>2, <4>1 DEF HiddenInv, GhostInv, plain
    <3>3. QED
      BY <1>12, <3>1, <3>2
  <2>4. QED
    BY <1>3, <1>9, <2>2, <2>3 DEF TwoInv
<1>13. CASE shows'[v][c] = shows[v][c] /\ c = d /\ sess[c] # Absent
  <2>1. CASE IsContact(v, c)
    <3> DEFINE P == {About("online", v, d, sent(v, sess[d].status)), About("online", d, v, sent(d, sess[v].status))}
    <3>1. shows' = receive(P)
      BY <1>1, <1>13
    <3>2. \A p \in P : p.about = c => p.kind = "online" /\ p.status = sent(v, sess[c].status)
      BY <1>1, <1>13 DEF About
    <3>3. \E p \in P : p.to = v /\ p.about = c
      BY <1>13 DEF About
    <3> HIDE DEF P
    <3>4. shows'[v][c] = sent(v, sess[c].status)
      BY <1>2, <2>1, <3>1, <3>2, <3>3, Received DEF made
    <3>5. QED
      BY <1>11, <1>13, <3>4
  <2>2. CASE ~IsContact(v, c)
    <3>1. ~views(v, c)'
      BY <1>1, <2>2 DEF views, IsContact
    <3>2. QED
      BY <1>3, <1>9, <3>1 DEF TwoInv, GhostInv, HiddenInv
  <2>3. QED
    BY <2>1, <2>2
<1>14. QED
  BY <1>10, <1>11, <1>12, <1>13

LEMMA MineList ==
  ASSUME Outset, NEW v \in Users, NEW c \in Users \ {v}, TwoInv(v, c), NEW cs \in SUBSET (Users \ {v}),
         Ready(v), contactList(v, cs)
  PROVE  TwoInv(v, c)'
<1>1. /\ sess' = [sess EXCEPT ![v] = [sess[v] EXCEPT !.contacts = cs]]
      /\ rows' = rows \cup ownRows(v, cs) \cup reverseRows(v, cs) /\ AddBuddies(v, cs)
      /\ shows' = [shows EXCEPT ![v] = [d \in Users |-> IF d \in cs THEN shows[v][d] ELSE Offline]]
      /\ job' = [job EXCEPT ![v] = Listing] /\ UNCHANGED <<ver, modeRow, raced, unannounced>>
  BY DEF contactList, set, start, Listing, history
<1>2. /\ active(v) /\ sess[v] \in Sessions /\ job[v] = <<>> /\ job'[v] = Listing
      /\ job[v] # Left /\ job[v] # Adding(c)
  BY <1>1, JobsDiffer DEF Ready, active, Outset, PresenceType
<1>3. IsContact(v, c)' <=> c \in cs
  <2>1. sess'[v] = [sess[v] EXCEPT !.contacts = cs]
    BY <1>1 DEF Outset, PresenceType
  <2>2. [sess[v] EXCEPT !.contacts = cs].contacts = cs /\ [sess[v] EXCEPT !.contacts = cs] \in Sessions
    BY <1>2 DEF Sessions
  <2>3. QED
    BY <2>1, <2>2, Assumed DEF IsContact
<1>4. RowInv(v, c)'
  <2>1. c \in cs /\ c \notin AuthRequired => <<v, c>> \in rows'
    BY <1>1 DEF ownRows, RequiresAuthorization
  <2>2. QED
    BY <1>3, <2>1 DEF RowInv
<1>5. hears(v, c) => hears(v, c)'
  BY <1>1 DEF hears
<1>6. sess'[c] = sess[c] /\ open(c)' = open(c) /\ modeRow' = modeRow
  BY <1>1 DEF Outset, PresenceType, open
<1>7. PICK ms : grown(v, ms) /\ arrivals(ms, v, cs)
  BY <1>1, <1>2, BuddiesAdded, Assumed DEF Outset
<1>8. \A k \in DOMAIN ms : ms[k].about = c => ms[k].kind = "arrived" /\ hears(v, c)' /\ open(c)'
  <2>1. c \in news(v, cs) => hears(v, c)' /\ open(c)'
    BY <1>1, <1>6 DEF news, metBy, hears, open, ownRows, RequiresAuthorization
  <2>2. \A k \in DOMAIN ms : ms[k].kind = "arrived"
    BY <1>7 DEF Arrived, arrivals
  <2>3. QED
    BY <1>7, <2>1, <2>2 DEF arrivals
<1>9. shows'[v][c] = shows[v][c] \/ shows'[v][c] = Offline
  BY <1>1 DEF Outset, PresenceType
<1>10. ver' = ver /\ raced \subseteq raced'
  BY <1>1
<1>11. QED
  BY <1>2, <1>4, <1>5, <1>6, <1>7, <1>8, <1>9, <1>10, TwoKept

LEMMA MineAsks ==
  ASSUME Outset, NEW v \in Users, NEW c \in Users \ {v}, TwoInv(v, c), Kind(v), Ready(v),
         \/ \E cs : visibleList(v, cs) \/ invisibleList(v, cs)
         \/ \E d \in Users \ {v} : userAdd(v, d)
         \/ \E s \in Statuses : setStatusFirst(v, s) \/ handleSetStateV3(v, s)
  PROVE  TwoInv(v, c)'
<1>1. /\ sess[v] \in Sessions /\ sess[v] # Absent /\ job[v] = <<>> /\ job[v] # Left /\ job[v] # Adding(c)
      /\ PresenceType
  BY JobsDiffer DEF Ready, active, Outset, PresenceType
<1>2. UNCHANGED <<modeRow, rows, queue>>
  BY DEF visibleList, invisibleList, userAdd, setStatusFirst, handleSetStateV3, tables
<1>3. shows'[v][c] = shows[v][c]
  <2>1. ASSUME NEW s \in Statuses, handleSetStateV3(v, s)
        PROVE  shows'[v][c] = shows[v][c]
    <3>1. PICK told \in SUBSET Users : shows' = receive({SendStatusChange(w, v, s) : w \in told})
      BY <2>1 DEF handleSetStateV3
    <3>2. \A p \in {SendStatusChange(w, v, s) : w \in told} : p.about = v
      BY <1>1, PacketsSent DEF About
    <3>3. QED
      BY <1>1, <3>1, <3>2, Received
  <2>2. QED
    BY <2>1 DEF visibleList, invisibleList, userAdd, setStatusFirst
<1>4. RowInv(v, c)'
  <2>1. ASSUME NEW d \in Users \ {v}, userAdd(v, d)
        PROVE  RowInv(v, c)'
    <3>1. job'[v] = Adding(d) /\ sess'[v] = [sess[v] EXCEPT !.contacts = sess[v].contacts \cup {d}]
      BY <1>1, <2>1 DEF userAdd, set, start, Adding, PresenceType
    <3>2. IsContact(v, c)' => c = d \/ IsContact(v, c)
      BY <1>1, <3>1 DEF Sessions, IsContact
    <3>3. QED
      BY <1>1, <1>2, <3>1, <3>2, JobsDiffer DEF RowInv, TwoInv
  <2>2. ASSUME NEW K, sess'[v] = K, K.contacts = sess[v].contacts
        PROVE  RowInv(v, c)'
    BY <1>1, <1>2, <2>2, JobsDiffer DEF RowInv, TwoInv, IsContact
  <2>3. ASSUME NEW cs, visibleList(v, cs) \/ invisibleList(v, cs)
        PROVE  RowInv(v, c)'
    <3>1. sess'[v].contacts = sess[v].contacts
      BY <1>1, <2>3 DEF visibleList, invisibleList, set, PresenceType, Sessions
    <3>2. QED
      BY <2>2, <3>1
  <2>4. ASSUME NEW s \in Statuses, setStatusFirst(v, s) \/ handleSetStateV3(v, s)
        PROVE  RowInv(v, c)'
    <3>1. sess'[v].contacts = sess[v].contacts
      BY <1>1, <2>4 DEF setStatusFirst, handleSetStateV3, set, PresenceType, Sessions
    <3>2. QED
      BY <2>2, <3>1
  <2>5. QED
    BY <2>1, <2>3, <2>4
<1>5. QED
  BY <1>1, <1>2, <1>3, <1>4, Mine DEF hears

LEMMA MineStatus ==
  ASSUME Outset, NEW v \in Users, NEW c \in Users \ {v}, TwoInv(v, c), status(v)
  PROVE  TwoInv(v, c)'
<1> DEFINE o == mapLegacyStatusToOSCAR(sess[v].status)
<1>1. /\ changing(v) /\ sess[v] \in Sessions /\ job' = [job EXCEPT ![v] = <<>>]
      /\ sess' = [sess EXCEPT ![v] = [sess[v] EXCEPT !.oscar = o]]
      /\ \A w \in Users : w \notin listedBy(v) => grown(w, <<>>)
      /\ \E P : shows' = receive(P) /\ \A p \in P : p.about = v
      /\ UNCHANGED <<ver, modeRow, rows, raced>>
  BY Changes
<1> HIDE DEF o
<1>2. queue'[v] = queue[v]
  BY <1>1, NothingGrown DEF listedBy, Outset
<1>3. shows'[v][c] = shows[v][c]
  BY <1>1, Received DEF Outset
<1>4. job[v] # Left /\ job[v] # Adding(c)
  BY <1>1, JobsDiffer DEF changing
<1>5. IsContact(v, c)' => IsContact(v, c)
  <2>1. sess'[v].contacts = sess[v].contacts /\ sess[v] # Absent
    BY <1>1, Assumed DEF Outset, PresenceType, Sessions
  <2>2. QED
    BY <2>1 DEF IsContact
<1>6. RowInv(v, c)'
  BY <1>1, <1>4, <1>5 DEF RowInv, TwoInv
<1>7. QED
  BY <1>1, <1>2, <1>3, <1>4, <1>6, Mine DEF Kind, hears

\* What is left of a queue when its first message was read.
LEMMA FirstRead ==
  ASSUME PresenceType, NEW v \in Users, queue[v] # <<>>, queue'[v] = Tail(queue[v])
  PROVE  /\ \A i \in DOMAIN queue[v] : i = 1 \/ (i - 1 \in DOMAIN queue'[v] /\ queue'[v][i - 1] = queue[v][i])
         /\ \A i \in DOMAIN queue'[v] : /\ i + 1 \in DOMAIN queue[v] /\ queue'[v][i] = queue[v][i + 1]
                                        /\ i \in Nat /\ i >= 1
         /\ Head(queue[v]) = queue[v][1] /\ 1 \in DOMAIN queue[v] /\ DOMAIN queue[v] \subseteq Nat \ {0}
<1> DEFINE q == queue[v]
<1>1. q \in Seq(Messages) /\ q # <<>> /\ queue'[v] = Tail(q)
  BY DEF PresenceType
<1> HIDE DEF q
<1>2. /\ Len(q) \in Nat /\ Len(q) >= 1 /\ DOMAIN q = 1..Len(q) /\ DOMAIN Tail(q) = 1..(Len(q) - 1)
      /\ \A i \in 1..(Len(q) - 1) : Tail(q)[i] = q[i + 1]
      /\ Head(q) = q[1]
  BY <1>1
<1>3. \A i \in DOMAIN q : i = 1 \/ (i - 1 \in DOMAIN Tail(q) /\ Tail(q)[i - 1] = q[i])
  <2> TAKE i \in DOMAIN q
  <2>1. CASE i # 1
    <3>1. i - 1 \in 1..(Len(q) - 1) /\ (i - 1) + 1 = i
      BY <1>2, <2>1
    <3>2. QED
      BY <1>2, <3>1
  <2>2. QED
    BY <2>1
<1>4. QED
  BY <1>1, <1>2, <1>3 DEF q

LEMMA MinePump ==
  ASSUME Outset, NEW v \in Users, NEW c \in Users \ {v}, TwoInv(v, c), pump(v)
  PROVE  TwoInv(v, c)'
<1> DEFINE m == Head(queue[v])
<1>1. /\ queue[v] # <<>> /\ m \in Messages /\ active(v) /\ sess[v] \in Sessions
      /\ queue' = [queue EXCEPT ![v] = Tail(queue[v])]
      /\ ~IsContact(v, m.about) => UNCHANGED <<sess, shows>>
      /\ IsContact(v, m.about) /\ m.kind = "arrived" =>
           /\ sess' = [sess EXCEPT ![v] = [sess[v] EXCEPT !.known = sess[v].known \cup {m.about}]]
           /\ shows' = receive({About(IF m.about \in sess[v].known THEN "status" ELSE "online",
                                       v, m.about, sent(v, oscarStatusToLegacy(m.status)))})
      /\ IsContact(v, m.about) /\ m.kind = "departed" =>
           /\ sess' = [sess EXCEPT ![v] = [sess[v] EXCEPT !.known = sess[v].known \ {m.about}]]
           /\ shows' = receive({About("offline", v, m.about, 0)})
      /\ UNCHANGED <<ver, modeRow, rows, job, raced, unannounced>>
  BY Pumps
<1> HIDE DEF m
<1>2. PresenceType /\ queue'[v] = Tail(queue[v]) /\ m = queue[v][1] /\ 1 \in DOMAIN queue[v]
      /\ m.about \in Users /\ m.kind \in {"arrived", "departed"} /\ sess'[c] = sess[c]
  <2>1. PresenceType /\ queue'[v] = Tail(queue[v])
    BY <1>1 DEF Outset, PresenceType
  <2>2. m = queue[v][1] /\ 1 \in DOMAIN queue[v]
    BY <1>1, <2>1, FirstRead DEF m
  <2>3. m.about \in Users /\ m.kind \in {"arrived", "departed"}
    BY <1>1 DEF Messages
  <2>4. sess'[c] = sess[c]
    BY <1>1, <2>1, <2>3 DEF PresenceType
  <2>5. QED
    BY <2>1, <2>2, <2>3, <2>4
<1>3. IsContact(v, c)' <=> IsContact(v, c)
  <2>1. sess'[v] # Absent /\ sess'[v].contacts = sess[v].contacts /\ sess[v] # Absent
    <3>1. \A K \in SUBSET Users : /\ [sess[v] EXCEPT !.known = K].contacts = sess[v].contacts
                                   /\ [sess[v] EXCEPT !.known = K] \in Sessions
      BY <1>1 DEF Sessions
    <3>2. sess[v].known \cup {m.about} \in SUBSET Users /\ sess[v].known \ {m.about} \in SUBSET Users
          /\ sess[v] # Absent
      BY <1>1, <1>2, Assumed DEF Sessions
    <3>3. sess'[v] = sess[v] \/ \E K \in SUBSET Users : sess'[v] = [sess[v] EXCEPT !.known = K]
      <4>1. CASE ~IsContact(v, m.about)
        BY <1>1, <4>1
      <4>2. CASE IsContact(v, m.about) /\ m.kind = "arrived"
        BY <1>1, <1>2, <3>2, <4>2 DEF PresenceType
      <4>3. CASE IsContact(v, m.about) /\ m.kind = "departed"
        BY <1>1, <1>2, <3>2, <4>3 DEF PresenceType
      <4>4. QED
        BY <1>2, <4>1, <4>2, <4>3
    <3>4. QED
      BY <3>1, <3>2, <3>3, Assumed
  <2>2. QED
    BY <2>1 DEF IsContact
<1>4. hears(v, c)' = hears(v, c) /\ open(c)' = open(c) /\ views(v, c)' = views(v, c)
  BY <1>1, <1>2, <1>3 DEF hears, open, views
<1>5. ASSUME NEW i \in DOMAIN queue'[v], Gone(v, c, i + 1)
      PROVE  Gone(v, c, i)'
  <2>1. PICK j \in DOMAIN queue[v] : j > i + 1 /\ queue[v][j].kind = "departed" /\ queue[v][j].about = c
    BY <1>5 DEF Gone
  <2>2. i \in Nat /\ i >= 1 /\ j \in Nat
    BY <1>1, <1>2, <2>1, FirstRead
  <2>3. j # 1 /\ j - 1 > i
    BY <2>1, <2>2
  <2>4. j - 1 \in DOMAIN queue'[v] /\ queue'[v][j - 1] = queue[v][j]
    BY <1>1, <1>2, <2>1, <2>3, FirstRead
  <2>5. QED
    BY <2>1, <2>3, <2>4 DEF Gone
<1>6. (Gone(v, c, 1) => Gone(v, c, 0)') /\ (m.about # c \/ m.kind = "arrived" => (Gone(v, c, 0) => Gone(v, c, 0)'))
  <2>1. ASSUME NEW j \in DOMAIN queue[v], j # 1, queue[v][j].kind = "departed", queue[v][j].about = c
        PROVE  Gone(v, c, 0)'
    <3>1. j - 1 \in DOMAIN queue'[v] /\ queue'[v][j - 1] = queue[v][j] /\ j - 1 > 0
      BY <1>1, <1>2, <2>1, FirstRead
    <3>2. QED
      BY <2>1, <3>1 DEF Gone
  <2>2. QED
    BY <1>2, <2>1 DEF Gone
<1>7. RowInv(v, c)'
  BY <1>1, <1>3 DEF RowInv, TwoInv
<1>8. ASSUME job[v] # Left
      PROVE  QueueInv(v, c)' /\ GhostInv(v, c)' /\ HiddenInv(v, c)'
  <2>1. QueueInv(v, c) /\ GhostInv(v, c) /\ HiddenInv(v, c)
    BY <1>8 DEF TwoInv
  <2>2. QueueInv(v, c)'
    <3> SUFFICES ASSUME NEW i \in DOMAIN queue'[v], queue'[v][i].kind = "arrived", queue'[v][i].about = c
                 PROVE  Gone(v, c, i)' \/ (hears(v, c)' /\ open(c)')
      BY DEF QueueInv
    <3>1. i + 1 \in DOMAIN queue[v] /\ queue'[v][i] = queue[v][i + 1]
      BY <1>1, <1>2, FirstRead
    <3>2. Gone(v, c, i + 1) \/ (hears(v, c) /\ open(c))
      BY <2>1, <3>1 DEF QueueInv
    <3>3. QED
      BY <1>4, <1>5, <3>2
  <2>3. CASE ~IsContact(v, c)
    BY <1>3, <2>2, <2>3 DEF GhostInv, HiddenInv, views
  <2>4. CASE IsContact(v, c) /\ m.about # c
    <3>1. shows'[v][c] = shows[v][c]
      <4>1. \A kind, s : About(kind, v, m.about, s).about # c
        BY <2>4 DEF About
      <4>2. \A kind, s : receive({About(kind, v, m.about, s)})[v][c] = shows[v][c]
        BY <1>2, <4>1, Received
      <4>3. QED
        BY <1>1, <1>2, <4>2
    <3>2. GhostInv(v, c)' /\ HiddenInv(v, c)'
      BY <1>1, <1>4, <1>6, <2>1, <2>4, <3>1 DEF GhostInv, HiddenInv
    <3>3. QED
      BY <2>2, <3>2
  <2>5. CASE IsContact(v, c) /\ m.about = c /\ m.kind = "arrived"
    <3>1. Gone(v, c, 1) \/ (hears(v, c) /\ open(c))
      BY <1>2, <2>1, <2>5 DEF QueueInv
    <3>2. Gone(v, c, 0)' \/ open(c)'
      BY <1>4, <1>6, <3>1
    <3>3. QED
      BY <2>2, <3>2 DEF GhostInv, HiddenInv, open
  <2>6. CASE IsContact(v, c) /\ m.about = c /\ m.kind = "departed"
    <3> DEFINE p == About("offline", v, c, 0)
    <3>1. shows' = receive({p}) /\ p.to = v /\ p.about = c /\ p.kind = "offline"
      BY <1>1, <2>6 DEF About
    <3> HIDE DEF p
    <3>2. shows'[v][c] = Offline
      BY <1>2, <2>6, <3>1, Received DEF made
    <3>3. QED
      BY <2>2, <3>2 DEF GhostInv, HiddenInv, plain
  <2>7. QED
    BY <1>2, <2>3, <2>4, <2>5, <2>6
<1>9. QED
  BY <1>1, <1>7, <1>8 DEF TwoInv

LEMMA TwoMine ==
  ASSUME Outset, NEW v \in Users, NEW c \in Users \ {v}, Kind(v), TwoInv(v, c)
  PROVE  TwoInv(v, c)'
BY MineComesAndGoes, MineContacts, MineAdded, MineStatus, MineList, MineAsks, MinePump DEF Kind

PresenceInv == Outset /\ \A v \in Users : \A c \in Users \ {v} : TwoInv(v, c)

LEMMA PresenceStarts ==
  ASSUME PresenceInit
  PROVE  PresenceInv
<1>1. PresenceType
  BY DEF PresenceInit, PresenceType, Jobs
<1>2. ASSUME NEW u \in Users
      PROVE  OneInv(u)
  <2>1. sess[u] = Absent /\ job[u] = <<>> /\ queue[u] = <<>> /\ shows[u] = nothingShown
        /\ u \notin modeRow /\ u \notin unannounced
    BY DEF PresenceInit, nothingShown
  <2>2. \A c \in Users : shows[u][c] = Offline
    BY <2>1 DEF nothingShown
  <2>3. QED
    BY <2>1, <2>2, JobsDiffer DEF OneInv, AbsentInv, EnteringInv, AnnouncingInv, FreshInv, ModeInv, AgreesInv, SessInv,
       ShowsInv, JobInv, entering, active, announcing
<1>3. ASSUME NEW v \in Users, NEW c \in Users \ {v}
      PROVE  TwoInv(v, c)
  BY DEF PresenceInit, TwoInv, RowInv, QueueInv, GhostInv, HiddenInv, views, IsContact
<1>4. QED
  BY <1>1, <1>2, <1>3 DEF PresenceInv, Outset

LEMMA PresenceKept ==
  ASSUME PresenceInv, [PresenceNext]_presenceVars
  PROVE  PresenceInv'
<1>1. ASSUME NEW u \in Users, Handling(u)
      PROVE  PresenceInv'
  <2>1. Outset /\ Kind(u)
    BY <1>1, Kinds, Assumed DEF PresenceInv, Outset
  <2>2. Outset'
    BY <1>1, <2>1, TypeKept, OneKept DEF Outset
  <2>3. ASSUME NEW v \in Users, NEW c \in Users \ {v}
        PROVE  TwoInv(v, c)'
    <3>1. TwoInv(v, c)
      BY DEF PresenceInv
    <3>2. CASE u = v
      BY <2>1, <3>1, <3>2, TwoMine
    <3>3. CASE u = c
      BY <2>1, <3>1, <3>3, TwoTheirs
    <3>4. CASE u # v /\ u # c
      BY <2>1, <3>1, <3>4, TwoElsewhere
    <3>5. QED
      BY <3>2, <3>3, <3>4
  <2>4. QED
    BY <2>2, <2>3 DEF PresenceInv
<1>2. CASE UNCHANGED presenceVars
  <2>1. Outset'
    BY <1>2 DEF presenceVars, tables, history, PresenceInv, Outset, PresenceType, OneInv, AbsentInv, EnteringInv,
       AnnouncingInv, FreshInv, ModeInv, AgreesInv, SessInv, ShowsInv, JobInv, entering, active, announcing,
       changing, agrees, IsContact, nothingShown
  <2>2. ASSUME NEW v \in Users, NEW c \in Users \ {v}
        PROVE  TwoInv(v, c)'
    <3>1. TwoInv(v, c)
      BY DEF PresenceInv
    <3>2. /\ IsContact(v, c)' = IsContact(v, c) /\ views(v, c)' = views(v, c)
          /\ hears(v, c)' = hears(v, c) /\ open(c)' = open(c) /\ queue' = queue
          /\ UNCHANGED <<rows, job, raced, modeRow, shows>>
      BY <1>2 DEF presenceVars, tables, history, IsContact, views, hears, open
    <3>3. \A i : Gone(v, c, i)' <=> Gone(v, c, i)
      BY <3>2 DEF Gone
    <3>4. RowInv(v, c)' /\ (QueueInv(v, c) => QueueInv(v, c)')
      BY <3>1, <3>2, <3>3 DEF TwoInv, RowInv, QueueInv
    <3>5. (GhostInv(v, c) => GhostInv(v, c)') /\ (HiddenInv(v, c) => HiddenInv(v, c)')
      BY <3>2, <3>3 DEF GhostInv, HiddenInv
    <3>6. QED
      BY <3>1, <3>2, <3>4, <3>5 DEF TwoInv
  <2>3. QED
    BY <2>1, <2>2 DEF PresenceInv
<1>3. QED
  BY <1>1, <1>2 DEF PresenceNext

LEMMA PresenceInvariant == PresenceSpec => []PresenceInv
<1>1. PresenceInit => PresenceInv
  BY PresenceStarts
<1>2. PresenceInv /\ [PresenceNext]_presenceVars => PresenceInv'
  BY PresenceKept
<1>3. QED
  BY <1>1, <1>2, PTL DEF PresenceSpec

\* Whoever is gone left nothing behind, and what a viewer shows goes with the departure on its way.
THEOREM GhostsVanish == PresenceSpec => []NoGhosts
<1>1. PresenceInv => NoGhosts
  <2> SUFFICES ASSUME PresenceInv, settled, NEW v \in Users, NEW c \in Users,
                      views(v, c), sess[c] = Absent, shows[v][c] # Offline
               PROVE  <<v, c>> \in raced
    BY DEF NoGhosts
  <2>1. v # c /\ TwoInv(v, c) /\ OneInv(c) /\ job[v] = <<>> /\ queue[v] = <<>>
    BY DEF PresenceInv, Outset, views, settled
  <2>2. GhostInv(v, c)
    BY <2>1, JobsDiffer DEF TwoInv
  <2>3. c \notin modeRow /\ ~Gone(v, c, 0)
    BY <2>1 DEF OneInv, AbsentInv, Gone
  <2>4. QED
    BY <2>2, <2>3 DEF GhostInv
<1>2. QED
  BY <1>1, PresenceInvariant, PTL

\* Whatever a viewer shows of an invisible contact as plainly online is on its way out.
THEOREM HiddenFromViewers == PresenceSpec => []InvisibleStaysHidden
<1>1. PresenceInv => InvisibleStaysHidden
  <2> SUFFICES ASSUME PresenceInv, settled, NEW v \in Users, NEW c \in Users,
                      views(v, c), active(c), agrees(c), isInvisible(sess[c].status), c \notin unannounced,
                      plain(shows[v][c])
               PROVE  <<v, c>> \in raced
    BY DEF InvisibleStaysHidden, plain
  <2>1. v # c /\ TwoInv(v, c) /\ Outset /\ job[v] = <<>> /\ queue[v] = <<>>
    BY DEF PresenceInv, Outset, views, settled
  <2>2. HiddenInv(v, c) /\ job[v] # Adding(c)
    BY <2>1, JobsDiffer DEF TwoInv
  <2>3. ~Gone(v, c, 0)
    BY <2>1 DEF Gone
  <2>4. sess[c].status \in Codes
    BY <2>1, StatusesAreCodes DEF Outset, active
  <2>5. ~open(c)
    BY <2>4, CodesKept DEF open, agrees
  <2>6. QED
    BY <2>2, <2>3, <2>5 DEF HiddenInv
<1>2. QED
  BY <1>1, PresenceInvariant, PTL

-----------------------------------------------------------------------------
(* What a viewer shows of somebody who is online is what he chose, or the   *)
(* news of it is the last message about him on its way.                     *)

\* What a client of version 2, or one of a later version, makes of a status.
sameTo(two, s) == IF two THEN downgradeStatusForV2(s) ELSE oscarStatusToLegacy(mapLegacyStatusToOSCAR(s))

\* The statuses ICQ clients know (wire_legacy_commands.go, service.go:1740-1800).
KnownBases == {0, 1, 2, 4, 5, 16, 17, 19, 32}

\* A visible status that went through the OSCAR side, or to an old client, still says the same.
LEMMA SameStatus ==
  ASSUME NEW s \in KnownBases, NEW t \in KnownBases, NEW two \in BOOLEAN
  PROVE  /\ two => sameTo(two, downgradeStatusForV2(s)) = sameTo(two, s)
         /\ two => sameTo(two, downgradeStatusForV2(oscarStatusToLegacy(mapLegacyStatusToOSCAR(s)))) = sameTo(two, s)
         /\ ~two => sameTo(two, oscarStatusToLegacy(mapLegacyStatusToOSCAR(s))) = sameTo(two, s)
         /\ mapLegacyStatusToOSCAR(s) = mapLegacyStatusToOSCAR(t) => sameTo(two, s) = sameTo(two, t)
<1>1. \A r \in 0..255 : base(r) = r /\ ~isInvisible(r) /\ \A b \in 0..255 : withFlag(r, b) = b
  BY DEF base, isInvisible, withFlag, Invisible
<1>9. ASSUME NEW r \in KnownBases
      PROVE  /\ base(r) = r /\ ~isInvisible(r)
             /\ r = 0 \/ r = 1 \/ r = 2 \/ r = 4 \/ r = 5 \/ r = 16 \/ r = 17 \/ r = 19 \/ r = 32
  BY <1>1 DEF KnownBases
<1>2. \A r \in KnownBases :
         mapLegacyStatusToOSCAR(r) = IF r \in {2, 19} THEN 19 ELSE IF r \in {4, 5} THEN 5
                                     ELSE IF r \in {16, 17} THEN 17 ELSE r
  <2> TAKE r \in KnownBases
  <2>1. mapLegacyStatusToOSCAR(r) = CASE r \in {0, 1, 32} -> r [] r \in {2, 19} -> 19 [] r \in {4, 5} -> 5
                                      [] r \in {16, 17} -> 17 [] OTHER -> 0
    BY <1>9 DEF mapLegacyStatusToOSCAR, withFlag
  <2>2. QED
    BY <2>1, <1>9
<1>3. \A r \in KnownBases :
         oscarStatusToLegacy(r) = IF r = 5 THEN 4 ELSE IF r = 17 THEN 16 ELSE IF r = 19 THEN 2 ELSE r
  <2> TAKE r \in KnownBases
  <2>1. oscarStatusToLegacy(r) = CASE r \in {0, 1, 2, 4, 16, 32} -> r [] r = 5 -> 4 [] r = 17 -> 16
                                   [] r = 19 -> 2 [] OTHER -> 0
    BY <1>9 DEF oscarStatusToLegacy, withFlag
  <2>2. QED
    BY <2>1, <1>9
<1>4. \A r \in KnownBases :
         downgradeStatusForV2(r) = IF r \in {2, 16, 19} THEN 17 ELSE IF r \in {4, 5} THEN 1
                                   ELSE IF r = 32 THEN 0 ELSE r
  <2> TAKE r \in KnownBases
  <2>1. downgradeStatusForV2(r) = CASE r \in {2, 16, 19} -> 17 [] r \in {4, 5} -> 1
                                    [] r = 32 -> 0 [] OTHER -> r
    BY <1>9 DEF downgradeStatusForV2, withFlag
  <2>2. QED
    BY <2>1, <1>9
<1>5. \A r \in KnownBases : /\ mapLegacyStatusToOSCAR(r) \in KnownBases
                            /\ oscarStatusToLegacy(r) \in KnownBases
                            /\ downgradeStatusForV2(r) \in KnownBases
  BY <1>2, <1>3, <1>4 DEF KnownBases
<1>6. CASE two
  BY <1>6, <1>2, <1>3, <1>4, <1>5 DEF sameTo, KnownBases
<1>7. CASE ~two
  BY <1>7, <1>2, <1>3, <1>4, <1>5 DEF sameTo, KnownBases
<1>8. QED
  BY <1>6, <1>7

KnownStatuses == \A s \in Statuses : base(s) \in KnownBases

latest(v, c) ==
  \E i \in DOMAIN queue[v] :
    queue[v][i] = Arrived(c, sess[c].oscar) /\ \A j \in DOMAIN queue[v] : j > i => queue[v][j].about # c

noNews(v, c) == \A j \in DOMAIN queue[v] : queue[v][j].about # c

present(c) == active(c) /\ ~isInvisible(sess[c].oscar) /\ ~announcing(c) /\ job[c] \notin {Leaving, Left}

upToDate(v, c) ==
  ~changing(c) /\ agrees(c) /\ ~isInvisible(sess[c].status)
    => sameTo(ver[v] = 2, shows[v][c]) = sameTo(ver[v] = 2, sess[c].status)

\* The pump takes a contact for online that it announced: the client shows him, or will be
\* told of his departure.
KnownInv(v, c) ==
  IsContact(v, c) /\ c \in sess[v].known
    => Gone(v, c, 0) \/ (hears(v, c) /\ (shows[v][c] # Offline \/ job[c] = Leaving))

InStep(v, c) ==
  views(v, c) /\ present(c) /\ job[v] # Adding(c)
    => latest(v, c) \/ (noNews(v, c) /\ shows[v][c] # Offline /\ upToDate(v, c))

ThreeInv(v, c) == job[v] # Left => KnownInv(v, c) /\ InStep(v, c)

LEMMA KnownCodes ==
  ASSUME KnownStatuses, NEW s \in Statuses \cup {0}, ~isInvisible(s)
  PROVE  s \in KnownBases
<1>1. s \in Codes
  BY Assumed
<1>2. base(s) = s
  BY <1>1 DEF base, isInvisible, Codes, Invisible
<1>3. CASE s = 0
  BY <1>3 DEF KnownBases
<1>4. CASE s \in Statuses
  BY <1>2, <1>4 DEF KnownStatuses
<1>5. QED
  BY <1>3, <1>4

\* A status sent as it is, or as the OSCAR side has it, is the status that was chosen.
LEMMA SentSame ==
  ASSUME NEW s \in KnownBases, NEW v, ver[v] # 1
  PROVE  /\ sameTo(ver[v] = 2, sent(v, s)) = sameTo(ver[v] = 2, s)
         /\ sameTo(ver[v] = 2, sent(v, oscarStatusToLegacy(mapLegacyStatusToOSCAR(s)))) = sameTo(ver[v] = 2, s)
<1>1. CASE ver[v] = 2
  <2>1. \A t : sent(v, t) = downgradeStatusForV2(t)
    BY <1>1 DEF sent
  <2>2. sameTo(TRUE, downgradeStatusForV2(s)) = sameTo(TRUE, s)
    BY SameStatus
  <2>3. sameTo(TRUE, downgradeStatusForV2(oscarStatusToLegacy(mapLegacyStatusToOSCAR(s)))) = sameTo(TRUE, s)
    BY SameStatus
  <2>4. (ver[v] = 2) = TRUE
    BY <1>1
  <2>5. QED
    BY <2>1, <2>2, <2>3, <2>4
<1>2. CASE ver[v] # 2
  <2>1. \A t : sent(v, t) = t
    BY <1>2 DEF sent
  <2>2. sameTo(FALSE, oscarStatusToLegacy(mapLegacyStatusToOSCAR(s))) = sameTo(FALSE, s)
    BY SameStatus
  <2>3. (ver[v] = 2) = FALSE
    BY <1>2
  <2>4. QED
    BY <2>1, <2>2, <2>3
<1>3. QED
  BY <1>1, <1>2

LEMMA NewsKept ==
  ASSUME PresenceType, NEW v \in Users, NEW c, NEW ms, grown(v, ms), \A k \in DOMAIN ms : ms[k].about # c,
         sess'[c].oscar = sess[c].oscar
  PROVE  (latest(v, c) => latest(v, c)') /\ (noNews(v, c) => noNews(v, c)')
<1>1. \A j \in DOMAIN queue'[v] : queue'[v][j].about # c \/ (j \in DOMAIN queue[v] /\ queue'[v][j] = queue[v][j])
  BY Appended
<1>2. \A i \in DOMAIN queue[v] : i \in DOMAIN queue'[v] /\ queue'[v][i] = queue[v][i]
  BY Appended
<1>3. ASSUME latest(v, c)
      PROVE  latest(v, c)'
  <2>1. PICK i \in DOMAIN queue[v] :
          queue[v][i] = Arrived(c, sess[c].oscar) /\ \A j \in DOMAIN queue[v] : j > i => queue[v][j].about # c
    BY <1>3 DEF latest
  <2>2. \A j \in DOMAIN queue'[v] : j > i => queue'[v][j].about # c
    BY <1>1, <2>1
  <2>3. queue'[v][i] = Arrived(c, sess'[c].oscar)
    BY <1>2, <2>1
  <2>4. QED
    BY <1>2, <2>2, <2>3 DEF latest
<1>4. noNews(v, c) => noNews(v, c)'
  BY <1>1 DEF noNews
<1>5. QED
  BY <1>3, <1>4

LEMMA NewsCome ==
  ASSUME PresenceType, NEW v \in Users, NEW c, NEW ms, grown(v, ms), NEW k \in DOMAIN ms,
         ms[k] = Arrived(c, sess'[c].oscar), \A l \in DOMAIN ms : ms[l].about = c => l = k
  PROVE  latest(v, c)'
<1> DEFINE n == Len(queue[v])
<1>1. /\ n + k \in DOMAIN queue'[v] /\ queue'[v][n + k] = Arrived(c, sess'[c].oscar)
      /\ n \in Nat /\ k \in Nat /\ k >= 1
  BY Appended
<1>2. ASSUME NEW j \in DOMAIN queue'[v], j > n + k
      PROVE  queue'[v][j].about # c
  <2>1. j \notin DOMAIN queue[v]
    BY <1>1, <1>2, Appended
  <2>2. PICK l \in DOMAIN ms : j = n + l
    BY <2>1, Appended
  <2>3. l # k /\ queue'[v][j] = ms[l]
    BY <1>1, <1>2, <2>2, Appended
  <2>4. QED
    BY <2>3
<1> HIDE DEF n
<1>3. QED
  BY <1>1, <1>2 DEF latest

LEMMA KnownKept ==
  ASSUME PresenceType, NEW v \in Users, NEW c \in Users, NEW ms, grown(v, ms), KnownInv(v, c),
         IsContact(v, c)' /\ c \in sess'[v].known => IsContact(v, c) /\ c \in sess[v].known,
         hears(v, c) => hears(v, c)',
         shows[v][c] # Offline \/ job[c] = Leaving => shows'[v][c] # Offline \/ job'[c] = Leaving
  PROVE  KnownInv(v, c)'
BY GoneKept DEF KnownInv

LEMMA StepKept ==
  ASSUME PresenceType, NEW v \in Users, NEW c \in Users, NEW ms, grown(v, ms), InStep(v, c),
         views(v, c)' /\ present(c)' /\ job'[v] # Adding(c) => views(v, c) /\ present(c) /\ job[v] # Adding(c),
         \A k \in DOMAIN ms : ms[k].about # c,
         sess'[c].oscar = sess[c].oscar,
         shows[v][c] # Offline => shows'[v][c] # Offline,
         shows[v][c] # Offline /\ upToDate(v, c) => upToDate(v, c)'
  PROVE  InStep(v, c)'
<1>1. (latest(v, c) => latest(v, c)') /\ (noNews(v, c) => noNews(v, c)')
  BY NewsKept
<1>2. QED
  BY <1>1 DEF InStep

\* Nothing of the two changed.
LEMMA DateKept ==
  ASSUME NEW v, NEW c, ver' = ver, shows'[v][c] = shows[v][c], sess'[c].status = sess[c].status,
         sess'[c].oscar = sess[c].oscar, changing(c) => changing(c)'
  PROVE  upToDate(v, c) => upToDate(v, c)'
BY DEF upToDate, agrees

LEMMA ThreeElsewhere ==
  ASSUME Outset, NEW u \in Users, Kind(u), NEW v \in Users \ {u}, NEW c \in Users \ {u}, v # c, ThreeInv(v, c)
  PROVE  ThreeInv(v, c)'
<1>1. Elsewhere(u, v) /\ Elsewhere(u, c) /\ PresenceType
  BY OthersSpared DEF Outset
<1>2. PICK ms : grown(v, ms) /\ \A k \in DOMAIN ms : ms[k].about = u
  BY <1>1 DEF Elsewhere
<1>3. /\ ver' = ver /\ sess'[v] = sess[v] /\ sess'[c] = sess[c] /\ job'[v] = job[v] /\ job'[c] = job[c]
      /\ shows'[v][c] = shows[v][c] /\ (hears(v, c) => hears(v, c)')
  BY <1>1 DEF Elsewhere, hears
<1>4. IsContact(v, c)' = IsContact(v, c) /\ views(v, c)' = views(v, c) /\ present(c)' = present(c)
  BY <1>3 DEF IsContact, views, present, active, announcing
<1>5. upToDate(v, c) => upToDate(v, c)'
  BY <1>3, DateKept DEF changing
<1>6. ASSUME job[v] # Left
      PROVE  KnownInv(v, c)' /\ InStep(v, c)'
  <2>1. KnownInv(v, c)'
    BY <1>1, <1>2, <1>3, <1>4, <1>6, KnownKept DEF ThreeInv
  <2>2. InStep(v, c)'
    BY <1>1, <1>2, <1>3, <1>4, <1>5, <1>6, StepKept DEF ThreeInv
  <2>3. QED
    BY <2>1, <2>2
<1>7. QED
  BY <1>3, <1>6 DEF ThreeInv

\* A step of the contact's that says nothing about him to the pump's queue.
LEMMA TheirsQuiet ==
  ASSUME Outset, NEW c \in Users, NEW v \in Users \ {c}, Kind(c), ThreeInv(v, c),
         NEW ms, grown(v, ms), (\A k \in DOMAIN ms : ms[k].about # c) \/ latest(v, c)',
         hears(v, c) => hears(v, c)', present(c)' => present(c), sess'[c].oscar = sess[c].oscar,
         shows[v][c] # Offline => shows'[v][c] # Offline, job[c] = Leaving => job'[c] = Leaving,
         views(v, c) /\ shows[v][c] # Offline /\ upToDate(v, c) => upToDate(v, c)'
  PROVE  ThreeInv(v, c)'
<1>1. Elsewhere(c, v) /\ PresenceType
  BY OthersSpared DEF Outset
<1>2. ver' = ver /\ sess'[v] = sess[v] /\ job'[v] = job[v]
  BY <1>1 DEF Elsewhere
<1>3. IsContact(v, c)' = IsContact(v, c) /\ views(v, c)' = views(v, c)
  BY <1>2 DEF IsContact, views
<1>4. ASSUME job[v] # Left
      PROVE  KnownInv(v, c)' /\ InStep(v, c)'
  <2>1. KnownInv(v, c)'
    BY <1>1, <1>2, <1>3, <1>4, KnownKept DEF ThreeInv
  <2>2. ASSUME views(v, c), \A k \in DOMAIN ms : ms[k].about # c
        PROVE  InStep(v, c)'
    <3>1. InStep(v, c)
      BY <1>4 DEF ThreeInv
    <3>2. shows[v][c] # Offline /\ upToDate(v, c) => upToDate(v, c)'
      BY <2>2
    <3>3. views(v, c)' /\ present(c)' /\ job'[v] # Adding(c) => views(v, c) /\ present(c) /\ job[v] # Adding(c)
      BY <1>2, <2>2
    <3>4. QED
      BY <1>1, <2>2, <3>1, <3>2, <3>3, StepKept
  <2>3. ASSUME ~views(v, c) \/ latest(v, c)'
        PROVE  InStep(v, c)'
    <3>1. ~views(v, c)' \/ latest(v, c)'
      BY <1>3, <2>3
    <3>2. QED
      BY <3>1 DEF InStep
  <2>4. QED
    BY <2>1, <2>2, <2>3
<1>5. QED
  BY <1>2, <1>4 DEF ThreeInv

\* A step after which the contact is not there, or on his way with nothing before him.
LEMMA TheirsNews ==
  ASSUME Outset, NEW c \in Users, NEW v \in Users \ {c}, Kind(c), ThreeInv(v, c),
         ~present(c)' \/ ~views(v, c)' \/ latest(v, c)' \/ job[v] \in {Adding(c), Left},
         KnownInv(v, c) => KnownInv(v, c)'
  PROVE  ThreeInv(v, c)'
<1>1. Elsewhere(c, v)
  BY OthersSpared
<1>2. job'[v] = job[v]
  BY <1>1 DEF Elsewhere
<1>3. QED
  BY <1>2 DEF ThreeInv, InStep

LEMMA TheirsAlike ==
  ASSUME Outset, NEW c \in Users, NEW v \in Users \ {c}, Kind(c)
  PROVE  /\ ver' = ver /\ sess'[v] = sess[v] /\ job'[v] = job[v] /\ PresenceType
         /\ IsContact(v, c)' = IsContact(v, c) /\ views(v, c)' = views(v, c)
         /\ hears(v, c) /\ c \in modeRow' => hears(v, c)'
<1>1. Elsewhere(c, v) /\ PresenceType
  BY OthersSpared DEF Outset
<1>2. QED
  BY <1>1 DEF Elsewhere, IsContact, views, hears

LEMMA CodesShown == \A s \in Codes : \A v : sent(v, s) # Offline
BY SentCodes, Assumed DEF Codes

LEMMA ComesThree ==
  ASSUME Outset, NEW c \in Users, NEW v \in Users \ {c}, TwoInv(v, c), ThreeInv(v, c),
         Enter(c) \/ announce(c)
  PROVE  ThreeInv(v, c)'
<1>1. /\ Kind(c) /\ ver' = ver /\ sess'[v] = sess[v] /\ job'[v] = job[v] /\ PresenceType
      /\ IsContact(v, c)' = IsContact(v, c) /\ views(v, c)' = views(v, c)
      /\ hears(v, c) /\ c \in modeRow' => hears(v, c)'
  BY TheirsAlike DEF Kind
<1>2. CASE Enter(c)
  <2>1. PICK S \in Sessions : /\ install(c, S)
                              /\ (S.active /\ \E s \in Statuses \cup {0} : start(c, Announcing(s))) \/ ~S.active
    BY <1>2 DEF Enter
  <2>2. /\ queue'[v] = queue[v] /\ shows'[v] = shows[v] /\ modeRow' = modeRow /\ sess'[c] = S /\ job[c] = <<>>
    BY <1>1, <1>2, <2>1 DEF Enter, install, set, tables, PresenceType
  <2>3. ~present(c)'
    <3>1. CASE ~S.active
      BY <2>2, <3>1 DEF present, active
    <3>2. CASE S.active
      <4>1. \E s \in Codes : job'[c] = Announcing(s)
        BY <1>1, <2>1, <3>2, Assumed DEF start, PresenceType
      <4>2. QED
        BY <4>1 DEF present, announcing
    <3>3. QED
      BY <3>1, <3>2
  <2>4. KnownInv(v, c) => KnownInv(v, c)'
    <3>1. hears(v, c) => hears(v, c)'
      BY <1>1, <2>2 DEF hears
    <3>2. job[c] # Leaving
      BY <2>2, JobsDiffer
    <3>3. grown(v, <<>>)
      BY <1>1, <2>2, NothingComes
    <3>4. QED
      BY <1>1, <2>2, <3>1, <3>2, <3>3, KnownKept
  <2>5. QED
    BY <1>1, <2>3, <2>4, TheirsNews
<1>3. CASE announce(c)
  <2> DEFINE o(s) == mapLegacyStatusToOSCAR(s)
  <2>1. PICK s \in Statuses \cup {0} :
           /\ isInvisible(o(s)) <=> isInvisible(s)
           /\ announcing(c) /\ active(c) /\ sess[c] \in Sessions /\ s \in Codes /\ o(s) \in Codes
           /\ sess' = [sess EXCEPT ![c] = [sess[c] EXCEPT !.status = s, !.oscar = o(s)]]
           /\ modeRow' = IF ver[c] = 1 THEN modeRow ELSE modeRow \cup {c}
           /\ \A w \in Users : grown(w, IF w \in audience(c, s) THEN <<Arrived(c, o(s))>> ELSE <<>>)
           /\ \E P : /\ shows' = receive(P)
                     /\ \A p \in P : /\ p.to \in Users /\ p.about = c /\ p.kind = "online"
                                      /\ ~isInvisible(s) /\ ver[c] = 4 /\ p.status = sent(p.to, s)
           /\ UNCHANGED rows
    BY <1>3, Announces
  <2> HIDE DEF o
  <2>2. sess'[c].oscar = o(s)
    BY <1>1, <2>1 DEF PresenceType, Sessions
  <2> DEFINE ms == IF v \in audience(c, s) THEN <<Arrived(c, o(s))>> ELSE <<>>
  <2>3. grown(v, ms)
    BY <2>1
  <2>4. ASSUME present(c)', views(v, c), job[v] \notin {Adding(c), Left}
        PROVE  latest(v, c)'
    <3>1. ~isInvisible(s)
      BY <2>1, <2>2, <2>4 DEF present
    <3>2. <<v, c>> \in rows /\ sess[v] # Absent /\ sess[v].contacts # {}
      BY <2>4 DEF TwoInv, RowInv, views, IsContact
    <3>3. active(v) /\ ~announcing(v) /\ ver[v] # 1 /\ ver[c] # 1
      BY <2>4, <3>2 DEF Outset, OneInv, EnteringInv, AnnouncingInv, entering, active, views
    <3>4. v \in modeRow
      BY <2>4, <3>3 DEF Outset, OneInv, ModeInv
    <3>5. v \in audience(c, s)
      BY <3>1, <3>2, <3>3, <3>4 DEF audience
    <3>6. grown(v, <<Arrived(c, o(s))>>)
      BY <2>3, <3>5
    <3>7. 1 \in DOMAIN <<Arrived(c, o(s))>> /\ \A l \in DOMAIN <<Arrived(c, o(s))>> : l = 1
      OBVIOUS
    <3>8. <<Arrived(c, o(s))>>[1] = Arrived(c, sess'[c].oscar)
      BY <2>2
    <3>9. QED
      BY <1>1, <3>6, <3>7, <3>8, NewsCome
  <2> HIDE DEF ms
  <2>5. KnownInv(v, c) => KnownInv(v, c)'
    <3>1. hears(v, c) => hears(v, c)'
      BY <1>1, <2>1 DEF hears
    <3>2. job[c] # Leaving
      BY <2>1, JobsDiffer DEF announcing
    <3>3. shows[v][c] # Offline => shows'[v][c] # Offline
      <4>1. PICK P : shows' = receive(P) /\ \A p \in P : p.kind = "online" /\ p.status = sent(p.to, s)
        BY <2>1
      <4>2. sent(v, s) # Offline
        BY <2>1, CodesShown
      <4>3. \A p \in P : p.to = v => made(p, shows[v][c]) # Offline
        BY <4>1, <4>2 DEF made
      <4>4. QED
        BY <1>1, <4>1, <4>3, Received
    <3>4. QED
      BY <1>1, <2>3, <3>1, <3>2, <3>3, KnownKept
  <2>6. QED
    BY <1>1, <2>4, <2>5, TheirsNews
<1>4. QED
  BY <1>2, <1>3

\* What is sent of a connected contact's status is up to date.
LEMMA SentUpToDate ==
  ASSUME Outset, KnownStatuses, NEW c \in Users, NEW v, sess[c] # Absent, ver[v] # 1, ver' = ver, sess'[c] = sess[c],
         shows'[v][c] = sent(v, sess[c].status)
  PROVE  upToDate(v, c)'
<1>1. ASSUME ~isInvisible(sess[c].status)
      PROVE  sameTo(ver[v] = 2, sent(v, sess[c].status)) = sameTo(ver[v] = 2, sess[c].status)
  BY <1>1, KnownCodes, SentSame DEF Outset, OneInv, SessInv
<1>2. QED
  BY <1>1 DEF upToDate

LEMMA LastArrived ==
  ASSUME PresenceType, NEW v \in Users, NEW c, NEW b \in BOOLEAN, sess'[c].oscar = sess[c].oscar,
         grown(v, IF b THEN <<Arrived(c, sess[c].oscar)>> ELSE <<>>)
  PROVE  \E ms : grown(v, ms) /\ ((\A k \in DOMAIN ms : ms[k].about # c) \/ latest(v, c)')
<1>1. CASE b
  <2> DEFINE ms == <<Arrived(c, sess[c].oscar)>>
  <2>1. grown(v, ms)
    BY <1>1
  <2>2. 1 \in DOMAIN ms /\ (\A l \in DOMAIN ms : l = 1) /\ ms[1] = Arrived(c, sess'[c].oscar)
    OBVIOUS
  <2> HIDE DEF ms
  <2>3. latest(v, c)'
    BY <2>1, <2>2, NewsCome
  <2>4. QED
    BY <2>1, <2>3
<1>2. CASE ~b
  <2>1. grown(v, <<>>) /\ \A k \in DOMAIN <<>> : <<>>[k].about # c
    BY <1>2
  <2>2. QED
    BY <2>1
<1>3. QED
  BY <1>1, <1>2

LEMMA ListsThree ==
  ASSUME Outset, KnownStatuses, NEW c \in Users, NEW v \in Users \ {c}, TwoInv(v, c), ThreeInv(v, c),
         contacts(c) \/ added(c)
  PROVE  ThreeInv(v, c)'
<1>1. /\ Kind(c) /\ ver' = ver /\ sess'[v] = sess[v] /\ job'[v] = job[v] /\ PresenceType
      /\ hears(v, c) /\ c \in modeRow' => hears(v, c)'
  BY TheirsAlike DEF Kind
<1>2. /\ active(c) /\ sess[c] # Absent /\ sess' = sess /\ modeRow' = modeRow /\ job'[c] = <<>>
      /\ ~changing(c) /\ ~announcing(c) /\ job[c] \notin {Leaving, Left}
      /\ shows'[v][c] = shows[v][c] \/ shows'[v][c] = sent(v, sess[c].status)
      /\ \E ms : grown(v, ms) /\ ((\A k \in DOMAIN ms : ms[k].about # c) \/ latest(v, c)')
  <2>1. CASE contacts(c)
    <3>1. job[c] = Listing /\ job' = [job EXCEPT ![c] = <<>>]
      BY <2>1, JobSteps DEF contacts, Outset
    <3>2. active(c) /\ sess[c] # Absent /\ ~announcing(c) /\ ~changing(c) /\ job[c] \notin {Leaving, Left} /\ job'[c] = <<>>
      BY <1>1, <3>1, AtWork, JobsDiffer DEF announcing, changing, PresenceType
    <3>3. shows'[v][c] = shows[v][c] \/ shows'[v][c] = sent(v, sess[c].status)
      <4> DEFINE P == onlineContacts(c) \cup notifyContactsUserOnline(c)
      <4>1. \A p \in P : p.to = v => p.kind = "online" /\ p.status = sent(v, sess[c].status)
        BY <3>2, PacketsOf DEF Outset, About
      <4>2. shows' = receive(P)
        BY <2>1 DEF contacts
      <4> HIDE DEF P
      <4>3. QED
        BY <4>1, <4>2, Received DEF Outset, made
    <3>4. grown(v, <<>>) /\ \A k \in DOMAIN <<>> : <<>>[k].about # c
      BY <1>1, <2>1, NothingComes DEF contacts
    <3>5. QED
      BY <2>1, <3>2, <3>3, <3>4 DEF contacts, tables
  <2>2. CASE added(c)
    <3>1. PICK d \in Users :
             /\ d # c /\ job[c] = Adding(d) /\ job' = [job EXCEPT ![c] = <<>>] /\ active(c) /\ AddBuddies(c, {d})
             /\ \/ shows' = shows
                \/ shows' = receive({About("online", c, d, sent(c, sess[d].status)),
                                     About("online", d, c, sent(d, sess[c].status))})
             /\ UNCHANGED <<ver, sess, modeRow, unannounced>>
      BY <2>2, Adds
    <3>2. sess[c] # Absent /\ ~announcing(c) /\ ~changing(c) /\ job[c] \notin {Leaving, Left} /\ job'[c] = <<>>
      BY <1>1, <3>1, JobsDiffer DEF announcing, changing, active, PresenceType
    <3>3. shows'[v][c] = shows[v][c] \/ shows'[v][c] = sent(v, sess[c].status)
      <4> DEFINE P == {About("online", c, d, sent(c, sess[d].status)), About("online", d, c, sent(d, sess[c].status))}
      <4>1. \A p \in P : p.to = v => p.kind = "online" /\ p.status = sent(v, sess[c].status)
        BY <3>1 DEF About
      <4>2. shows' = shows \/ shows' = receive(P)
        BY <3>1
      <4> HIDE DEF P
      <4>3. QED
        BY <4>1, <4>2, Received DEF Outset, made
    <3>4. \E ms : grown(v, ms) /\ ((\A k \in DOMAIN ms : ms[k].about # c) \/ latest(v, c)')
      <4>1. grown(v, IF v \in hosts(c, {d}) THEN <<Arrived(c, sess[c].oscar)>> ELSE <<>>)
        BY <3>1, BuddiesAdded, Assumed DEF Outset
      <4>2. QED
        BY <1>1, <3>1, <4>1, LastArrived
    <3>5. QED
      BY <3>1, <3>2, <3>3, <3>4
  <2>3. QED
    BY <2>1, <2>2
<1>3. present(c)' => present(c)
  BY <1>2 DEF present, active
<1>4. shows[v][c] # Offline => shows'[v][c] # Offline
  BY <1>2, StatusesAreCodes, CodesShown DEF Outset
<1>5. views(v, c) /\ upToDate(v, c) => upToDate(v, c)'
  <2>1. CASE shows'[v][c] = shows[v][c]
    BY <1>1, <1>2, <2>1 DEF upToDate, agrees
  <2>2. CASE shows'[v][c] = sent(v, sess[c].status)
    BY <1>1, <1>2, <2>2, SentUpToDate DEF views
  <2>3. QED
    BY <1>2, <2>1, <2>2
<1>6. hears(v, c) => hears(v, c)'
  BY <1>1, <1>2 DEF hears
<1>7. QED
  BY <1>1, <1>2, <1>3, <1>4, <1>5, <1>6, TheirsQuiet

\* Whoever is heard of reaches the viewer's queue.
LEMMA HeardListed ==
  ASSUME Outset, NEW c \in Users, NEW v \in Users \ {c}, IsContact(v, c), hears(v, c)
  PROVE  v \in listedBy(c)
<1>1. active(v)
  BY DEF IsContact, Outset, OneInv, EnteringInv, entering, active
<1>2. QED
  BY <1>1 DEF listedBy, hears

LEMMA StatusThree ==
  ASSUME Outset, NEW c \in Users, NEW v \in Users \ {c}, TwoInv(v, c), ThreeInv(v, c), status(c)
  PROVE  ThreeInv(v, c)'
<1> DEFINE o == mapLegacyStatusToOSCAR(sess[c].status)
<1>1. /\ Kind(c) /\ ver' = ver /\ sess'[v] = sess[v] /\ job'[v] = job[v] /\ PresenceType
      /\ IsContact(v, c)' = IsContact(v, c) /\ views(v, c)' = views(v, c)
      /\ hears(v, c) /\ c \in modeRow' => hears(v, c)'
  BY TheirsAlike DEF Kind
<1>2. /\ sess[c].status \in Codes /\ changing(c) /\ active(c) /\ sess[c] \in Sessions
      /\ sess' = [sess EXCEPT ![c] = [sess[c] EXCEPT !.oscar = o]]
      /\ \A w \in Users : grown(w, IF w \notin listedBy(c) THEN <<>>
                                   ELSE IF isInvisible(o) THEN <<Departed(c)>> ELSE <<Arrived(c, o)>>)
      /\ \E P : /\ shows' = receive(P)
                /\ \A p \in P : p.kind = "status" /\ p.status = sent(p.to, sess[c].status)
      /\ modeRow' = modeRow
  BY Changes
<1> HIDE DEF o
<1>3. sess'[c].oscar = o
  BY <1>1, <1>2 DEF PresenceType, Sessions
<1>4. ~announcing(c) /\ job[c] # Left /\ job[c] # Leaving
  BY <1>2, JobsDiffer DEF announcing, changing
<1>5. shows[v][c] # Offline => shows'[v][c] # Offline
  <2>1. PICK P : /\ shows' = receive(P)
                 /\ \A p \in P : p.kind = "status" /\ p.status = sent(p.to, sess[c].status)
    BY <1>2
  <2>2. sent(v, sess[c].status) # Offline
    BY <1>2, CodesShown
  <2>3. shows[v][c] # Offline => \A p \in P : p.to = v => made(p, shows[v][c]) # Offline
    BY <2>1, <2>2 DEF made
  <2>4. QED
    BY <1>1, <2>1, <2>3, Received
<1>6. CASE isInvisible(o)
  <2>1. ~present(c)'
    BY <1>3, <1>6 DEF present
  <2>2. ASSUME KnownInv(v, c), IsContact(v, c)', c \in sess'[v].known
        PROVE  Gone(v, c, 0)'
    <3>1. Gone(v, c, 0) \/ hears(v, c)
      BY <1>1, <2>2 DEF KnownInv
    <3>2. CASE Gone(v, c, 0)
      BY <1>1, <1>2, <3>2, GoneKept
    <3>3. CASE hears(v, c)
      <4>1. v \in listedBy(c)
        BY <1>1, <2>2, <3>3, HeardListed
      <4>2. grown(v, <<Departed(c)>>)
        BY <1>2, <1>6, <4>1
      <4>3. QED
        BY <1>1, <4>2, DepartureSent
    <3>4. QED
      BY <3>1, <3>2, <3>3
  <2>3. KnownInv(v, c) => KnownInv(v, c)'
    BY <2>2 DEF KnownInv
  <2>4. QED
    BY <1>1, <2>1, <2>3, TheirsNews
<1>7. CASE ~isInvisible(o)
  <2> DEFINE ms == IF v \in listedBy(c) THEN <<Arrived(c, o)>> ELSE <<>>
  <2>1. grown(v, ms)
    BY <1>2, <1>7
  <2>2. ASSUME views(v, c)', job[v] \notin {Adding(c), Left}
        PROVE  latest(v, c)'
    <3>1. c \in modeRow
      BY <1>1, <1>2, <1>4, <2>2 DEF Outset, OneInv, ModeInv, views
    <3>2. v \in listedBy(c)
      BY <1>1, <1>2, <2>2, <3>1, ViewerListed
    <3>3. grown(v, <<Arrived(c, o)>>)
      BY <2>1, <3>2
    <3>4. 1 \in DOMAIN <<Arrived(c, o)>> /\ \A l \in DOMAIN <<Arrived(c, o)>> : l = 1
      OBVIOUS
    <3>5. <<Arrived(c, o)>>[1] = Arrived(c, sess'[c].oscar)
      BY <1>3
    <3>6. QED
      BY <1>1, <3>3, <3>4, <3>5, NewsCome
  <2> HIDE DEF ms
  <2>3. KnownInv(v, c) => KnownInv(v, c)'
    <3>1. hears(v, c) => hears(v, c)'
      BY <1>1, <1>2 DEF hears
    <3>2. QED
      BY <1>1, <1>4, <1>5, <2>1, <3>1, KnownKept
  <2>4. QED
    BY <1>1, <2>2, <2>3, TheirsNews
<1>8. QED
  BY <1>6, <1>7

LEMMA GoesThree ==
  ASSUME Outset, NEW c \in Users, NEW v \in Users \ {c}, ThreeInv(v, c),
         farewell(c) \/ RemoveSession(c) \/ Leave(c)
  PROVE  ThreeInv(v, c)'
<1>1. /\ Kind(c) /\ ver' = ver /\ sess'[v] = sess[v] /\ job'[v] = job[v] /\ PresenceType
      /\ IsContact(v, c)' = IsContact(v, c)
      /\ hears(v, c) /\ c \in modeRow' => hears(v, c)'
  BY TheirsAlike DEF Kind
<1>2. CASE farewell(c)
  <2>1. /\ \A w \in Users : grown(w, IF w \in listedBy(c) THEN <<Departed(c)>> ELSE <<>>)
        /\ job'[c] = Left
    BY <1>1, <1>2, Farewells, JobSteps DEF farewell, PresenceType
  <2>2. ~present(c)'
    BY <2>1 DEF present
  <2>3. ASSUME KnownInv(v, c), IsContact(v, c)', c \in sess'[v].known
        PROVE  Gone(v, c, 0)'
    <3>1. Gone(v, c, 0) \/ hears(v, c)
      BY <1>1, <2>3 DEF KnownInv
    <3>2. CASE Gone(v, c, 0)
      BY <1>1, <2>1, <3>2, GoneKept
    <3>3. CASE hears(v, c)
      <4>1. v \in listedBy(c)
        BY <1>1, <2>3, <3>3, HeardListed
      <4>2. grown(v, <<Departed(c)>>)
        BY <2>1, <4>1
      <4>3. QED
        BY <1>1, <4>2, DepartureSent
    <3>4. QED
      BY <3>1, <3>2, <3>3
  <2>4. KnownInv(v, c) => KnownInv(v, c)'
    BY <2>3 DEF KnownInv
  <2>5. QED
    BY <1>1, <2>2, <2>4, TheirsNews
<1>3. CASE RemoveSession(c)
  <2>1. job[c] = Left /\ queue'[v] = queue[v] /\ sess'[c] = Absent
    BY <1>3, JobSteps DEF RemoveSession, set, Outset, PresenceType
  <2>2. c \notin modeRow
    BY <2>1 DEF Outset, OneInv, ModeInv
  <2>3. ~present(c)'
    BY <2>1 DEF present, active
  <2>4. Gone(v, c, 0) => Gone(v, c, 0)'
    BY <2>1 DEF Gone
  <2>5. KnownInv(v, c) => KnownInv(v, c)'
    BY <1>1, <2>2, <2>4 DEF KnownInv, hears
  <2>6. QED
    BY <1>1, <2>3, <2>5, TheirsNews
<1>4. CASE Leave(c)
  <2>1. job'[c] = Leaving /\ queue'[v] = queue[v] /\ UNCHANGED modeRow
    BY <1>1, <1>4 DEF Leave, logoff, start, Leaving, tables, PresenceType
  <2>2. ~present(c)'
    BY <2>1 DEF present
  <2>3. KnownInv(v, c) => KnownInv(v, c)'
    <3>1. hears(v, c) => hears(v, c)'
      BY <1>1, <2>1 DEF hears
    <3>2. QED
      BY <1>1, <2>1, <3>1, NothingComes, KnownKept
  <2>4. QED
    BY <1>1, <2>2, <2>3, TheirsNews
<1>5. QED
  BY <1>2, <1>3, <1>4

LEMMA StateThree ==
  ASSUME Outset, KnownStatuses, NEW c \in Users, NEW v \in Users \ {c}, ThreeInv(v, c),
         NEW s \in Statuses, Ready(c), handleSetStateV3(c, s)
  PROVE  ThreeInv(v, c)'
<1>1. /\ Kind(c) /\ ver' = ver /\ sess'[v] = sess[v] /\ job'[v] = job[v] /\ PresenceType
      /\ hears(v, c) /\ c \in modeRow' => hears(v, c)'
  BY TheirsAlike DEF Kind
<1>2. /\ ver[c] = 3 /\ active(c) /\ sess[c] \in Sessions /\ s \in Codes /\ sess[c].invisible = {}
      /\ sess' = [sess EXCEPT ![c] = [sess[c] EXCEPT !.status = s]]
      /\ UNCHANGED <<modeRow, queue, job>>
  BY Assumed DEF handleSetStateV3, serves, active, set, tables, Outset, PresenceType, OneInv, SessInv
<1>3. sess'[c].status = s /\ sess'[c].oscar = sess[c].oscar
  BY <1>1, <1>2 DEF PresenceType, Sessions
<1> DEFINE told == {w \in Users \ {c} : IsContact(w, c) /\ IF isInvisible(s) THEN w \in sess[c].visible
                                                          ELSE w \notin sess[c].invisible}
           P == {SendStatusChange(w, c, s) : w \in told}
<1>4. /\ shows' = receive(P)
      /\ \A p \in P : p.to = v => p.kind = "status" /\ p.status = sent(v, s)
      /\ v \in told => \E p \in P : p.to = v /\ p.about = c
  <2>1. \A w \in Users : SendStatusChange(w, c, s) = About("status", w, c, sent(w, s))
    BY <1>1, PacketsSent
  <2>2. shows' = receive(P)
    BY DEF handleSetStateV3
  <2>3. QED
    BY <2>1, <2>2 DEF About
<1>5. ~isInvisible(s) /\ views(v, c) => v \in told
  BY <1>2 DEF views
<1> HIDE DEF P, told
<1>6. shows[v][c] # Offline => shows'[v][c] # Offline
  <2>1. sent(v, s) # Offline
    BY <1>2, CodesShown
  <2>2. shows[v][c] # Offline => \A p \in P : p.to = v => made(p, shows[v][c]) # Offline
    BY <1>4, <2>1 DEF made
  <2>3. QED
    BY <1>1, <1>4, <2>2, Received
<1>7. ASSUME views(v, c), shows[v][c] # Offline
      PROVE  upToDate(v, c)'
  <2>1. ASSUME ~isInvisible(s)
        PROVE  sameTo(ver[v] = 2, shows'[v][c]) = sameTo(ver[v] = 2, s)
    <3>1. \A p \in P : p.to = v => made(p, shows[v][c]) = sent(v, s)
      BY <1>4, <1>7 DEF made
    <3>2. \E p \in P : p.to = v /\ p.about = c
      BY <1>4, <1>5, <1>7, <2>1
    <3>3. IsContact(v, c) /\ ver[v] # 1
      BY <1>7 DEF views
    <3>4. shows'[v][c] = sent(v, s)
      BY <1>1, <1>4, <3>1, <3>2, <3>3, Received
    <3>5. QED
      BY <2>1, <3>3, <3>4, KnownCodes, SentSame
  <2>2. QED
    BY <1>1, <1>3, <2>1 DEF upToDate
<1>8. present(c)' => present(c)
  BY <1>2, <1>3 DEF present, announcing
<1>9. grown(v, <<>>) /\ \A k \in DOMAIN <<>> : <<>>[k].about # c
  BY <1>1, <1>2, NothingComes
<1>10. hears(v, c) => hears(v, c)'
  BY <1>1, <1>2 DEF hears
<1>11. QED
  BY <1>1, <1>2, <1>3, <1>6, <1>7, <1>8, <1>9, <1>10, TheirsQuiet

\* What the pump of another user does.
LEMMA PumpAway ==
  ASSUME Outset, NEW c \in Users, NEW v \in Users \ {c}, pump(c)
  PROVE  /\ active(c) /\ sess'[c].oscar = sess[c].oscar /\ sess'[c].status = sess[c].status
         /\ queue'[v] = queue[v] /\ shows'[v][c] = shows[v][c] /\ UNCHANGED <<ver, modeRow, job>>
<1> DEFINE m == Head(queue[c])
<1>1. /\ queue' = [queue EXCEPT ![c] = Tail(queue[c])] /\ sess[c] \in Sessions /\ active(c)
      /\ \/ UNCHANGED <<sess, shows>>
         \/ \E K : sess' = [sess EXCEPT ![c] = [sess[c] EXCEPT !.known = K]]
                   /\ \E P : shows' = receive(P) /\ sentTo(P, c)
      /\ UNCHANGED <<ver, modeRow, job>>
  <2>1. m.kind \in {"arrived", "departed"}
    BY Pumps DEF Messages
  <2>2. \A kind, s : sentTo({About(kind, c, m.about, s)}, c)
    BY DEF About, sentTo
  <2>3. CASE ~IsContact(c, m.about)
    BY <2>3, Pumps
  <2>4. CASE IsContact(c, m.about) /\ m.kind = "arrived"
    BY <2>2, <2>4, Pumps
  <2>5. CASE IsContact(c, m.about) /\ m.kind = "departed"
    BY <2>2, <2>5, Pumps
  <2>6. QED
    BY <2>1, <2>3, <2>4, <2>5, Pumps
<1>2. shows'[v][c] = shows[v][c]
  BY <1>1, Received DEF Outset, sentTo
<1>3. QED
  BY <1>1, <1>2 DEF Outset, PresenceType, Sessions

LEMMA QuietThree ==
  ASSUME Outset, KnownStatuses, NEW c \in Users, NEW v \in Users \ {c}, ThreeInv(v, c), Kind(c),
         \/ pump(c)
         \/ \E cs \in SUBSET (Users \ {c}) :
              Ready(c) /\ (contactList(c, cs) \/ visibleList(c, cs) \/ invisibleList(c, cs))
         \/ \E d \in Users \ {c} : Ready(c) /\ userAdd(c, d)
         \/ \E s \in Statuses : Ready(c) /\ (setStatusFirst(c, s) \/ handleSetStateV3(c, s))
  PROVE  ThreeInv(v, c)'
<1>1. /\ ver' = ver /\ sess'[v] = sess[v] /\ job'[v] = job[v] /\ PresenceType
      /\ hears(v, c) /\ c \in modeRow' => hears(v, c)'
  BY TheirsAlike
<1>2. ASSUME active(c), job[c] = <<>> \/ job' = job, sess'[c].oscar = sess[c].oscar, modeRow' = modeRow,
             shows'[v][c] = shows[v][c], sess'[c].status = sess[c].status \/ changing(c)',
             NEW ms, grown(v, ms), (\A k \in DOMAIN ms : ms[k].about # c) \/ latest(v, c)'
      PROVE  ThreeInv(v, c)'
  <2>1. ~announcing(c) \/ job' = job
    BY <1>2, JobsDiffer DEF announcing
  <2>2. job[c] \notin {Leaving, Left} \/ job' = job
    BY <1>2, JobsDiffer
  <2>3. ~changing(c) \/ job' = job
    BY <1>2, JobsDiffer DEF changing
  <2>4. present(c)' => present(c)
    BY <1>2, <2>1, <2>2 DEF present, announcing
  <2>5. upToDate(v, c) => upToDate(v, c)'
    <3>1. CASE changing(c)'
      BY <3>1 DEF upToDate
    <3>2. CASE sess'[c].status = sess[c].status
      BY <1>1, <1>2, <2>3, <3>2, DateKept DEF changing
    <3>3. QED
      BY <1>2, <3>1, <3>2
  <2>6. hears(v, c) => hears(v, c)'
    BY <1>1, <1>2 DEF hears
  <2>7. job[c] = Leaving => job'[c] = Leaving
    BY <2>2
  <2>8. QED
    BY <1>2, <2>4, <2>5, <2>6, <2>7, TheirsQuiet
<1>3. ASSUME active(c), job[c] = <<>> \/ job' = job, sess'[c].oscar = sess[c].oscar, modeRow' = modeRow,
             shows'[v][c] = shows[v][c], sess'[c].status = sess[c].status \/ changing(c)', queue'[v] = queue[v]
      PROVE  ThreeInv(v, c)'
  <2>1. grown(v, <<>>) /\ \A k \in DOMAIN <<>> : <<>>[k].about # c
    BY <1>1, <1>3, NothingComes
  <2>2. QED
    BY <1>2, <1>3, <2>1
<1>4. CASE pump(c)
  BY <1>3, <1>4, PumpAway
<1>5. ASSUME Ready(c)
      PROVE  active(c) /\ sess[c] \in Sessions /\ job[c] = <<>>
  BY <1>1, <1>5 DEF Ready, active, PresenceType
<1>6. ASSUME NEW cs \in SUBSET (Users \ {c}), Ready(c), contactList(c, cs)
      PROVE  ThreeInv(v, c)'
  <2>1. /\ sess' = [sess EXCEPT ![c] = [sess[c] EXCEPT !.contacts = cs]] /\ shows'[v] = shows[v]
        /\ AddBuddies(c, cs) /\ UNCHANGED modeRow
    BY <1>1, <1>6 DEF contactList, set, PresenceType
  <2>2. sess'[c].oscar = sess[c].oscar /\ sess'[c].status = sess[c].status
    BY <1>1, <1>5, <1>6, <2>1 DEF PresenceType, Sessions
  <2>3. grown(v, IF v \in hosts(c, cs) THEN <<Arrived(c, sess[c].oscar)>> ELSE <<>>)
    BY <1>5, <1>6, <2>1, BuddiesAdded, Assumed DEF Outset
  <2>4. \E ms : grown(v, ms) /\ ((\A k \in DOMAIN ms : ms[k].about # c) \/ latest(v, c)')
    BY <1>1, <2>2, <2>3, LastArrived
  <2>5. QED
    BY <1>2, <1>5, <1>6, <2>1, <2>2, <2>4
<1>7. ASSUME NEW cs, Ready(c), visibleList(c, cs) \/ invisibleList(c, cs)
      PROVE  ThreeInv(v, c)'
  <2>1. sess'[c].oscar = sess[c].oscar /\ sess'[c].status = sess[c].status
    BY <1>1, <1>5, <1>7 DEF visibleList, invisibleList, set, PresenceType, Sessions
  <2>2. QED
    BY <1>3, <1>5, <1>7, <2>1 DEF visibleList, invisibleList, tables
<1>8. ASSUME NEW d, Ready(c), userAdd(c, d)
      PROVE  ThreeInv(v, c)'
  <2>1. sess'[c].oscar = sess[c].oscar /\ sess'[c].status = sess[c].status
    BY <1>1, <1>5, <1>8 DEF userAdd, set, PresenceType, Sessions
  <2>2. QED
    BY <1>3, <1>5, <1>8, <2>1 DEF userAdd, tables
<1>9. ASSUME NEW s \in Statuses, Ready(c), setStatusFirst(c, s)
      PROVE  ThreeInv(v, c)'
  <2>1. sess'[c].oscar = sess[c].oscar
    BY <1>1, <1>5, <1>9 DEF setStatusFirst, set, PresenceType, Sessions
  <2>2. job'[c] = Changing(s) /\ s \in Codes
    BY <1>1, <1>9, Assumed DEF setStatusFirst, start, Changing, PresenceType
  <2>3. changing(c)'
    BY <2>2 DEF changing
  <2>4. QED
    BY <1>3, <1>5, <1>9, <2>1, <2>3 DEF setStatusFirst, tables
<1>10. QED
  BY <1>4, <1>6, <1>7, <1>8, <1>9, StateThree

LEMMA ThreeTheirs ==
  ASSUME Outset, KnownStatuses, NEW c \in Users, NEW v \in Users \ {c}, Kind(c), TwoInv(v, c), ThreeInv(v, c)
  PROVE  ThreeInv(v, c)'
BY ComesThree, ListsThree, StatusThree, GoesThree, QuietThree DEF Kind

\* A step of the viewer's own: nothing is shown, nothing comes.
LEMMA NobodyThree ==
  ASSUME NEW v, NEW c, ~IsContact(v, c)' \/ job'[v] = Left
  PROVE  ThreeInv(v, c)'
BY DEF ThreeInv, KnownInv, InStep, views

LEMMA MineThree ==
  ASSUME Outset, NEW v \in Users, NEW c \in Users \ {v}, Kind(v), ThreeInv(v, c), job[v] # Left,
         NEW ms, grown(v, ms), \A k \in DOMAIN ms : ms[k].about # c,
         IsContact(v, c)' /\ c \in sess'[v].known => IsContact(v, c) /\ c \in sess[v].known,
         hears(v, c) => hears(v, c)',
         shows[v][c] # Offline => shows'[v][c] # Offline,
         shows[v][c] # Offline /\ upToDate(v, c) => upToDate(v, c)',
         ((IsContact(v, c)' => IsContact(v, c)) /\ job[v] # Adding(c)) \/ job'[v] = Adding(c)
  PROVE  ThreeInv(v, c)'
<1>1. ver' = ver /\ sess'[c] = sess[c] /\ job'[c] = job[c] /\ PresenceType
  BY ContactStays DEF Outset
<1>2. KnownInv(v, c) /\ InStep(v, c)
  BY DEF ThreeInv
<1>3. KnownInv(v, c)'
  BY <1>1, <1>2, KnownKept
<1>4. InStep(v, c)'
  <2>1. CASE job'[v] = Adding(c)
    BY <2>1 DEF InStep
  <2>2. CASE job'[v] # Adding(c)
    <3>1. present(c)' = present(c)
      BY <1>1 DEF present, active, announcing
    <3>2. views(v, c)' => views(v, c)
      BY <1>1, <2>2 DEF views
    <3>3. QED
      BY <1>1, <1>2, <2>2, <3>1, <3>2, StepKept
  <2>3. QED
    BY <2>1, <2>2
<1>5. QED
  BY <1>3, <1>4 DEF ThreeInv

\* One that shows the same of the contact.
LEMMA MineSame ==
  ASSUME Outset, NEW v \in Users, NEW c \in Users \ {v}, Kind(v), ThreeInv(v, c), job[v] # Left,
         NEW ms, grown(v, ms), \A k \in DOMAIN ms : ms[k].about # c,
         IsContact(v, c)' /\ c \in sess'[v].known => IsContact(v, c) /\ c \in sess[v].known,
         hears(v, c) => hears(v, c)', shows'[v][c] = shows[v][c],
         ((IsContact(v, c)' => IsContact(v, c)) /\ job[v] # Adding(c)) \/ job'[v] = Adding(c)
  PROVE  ThreeInv(v, c)'
<1>1. ver' = ver /\ sess'[c] = sess[c] /\ job'[c] = job[c]
  BY ContactStays
<1>2. upToDate(v, c) => upToDate(v, c)'
  BY <1>1, DateKept DEF changing
<1>3. QED
  BY <1>2, MineThree

LEMMA MineQuietThree ==
  ASSUME Outset, ~Relists, NEW v \in Users, NEW c \in Users \ {v}, Kind(v), ThreeInv(v, c),
         \/ Leave(v) \/ status(v)
         \/ Ready(v) /\ \/ \E cs : visibleList(v, cs) \/ invisibleList(v, cs)
                        \/ \E d \in Users \ {v} : userAdd(v, d)
                        \/ \E s \in Statuses : setStatusFirst(v, s) \/ handleSetStateV3(v, s)
  PROVE  ThreeInv(v, c)'
<1>1. PresenceType
  BY DEF Outset
<1>2. ASSUME job[v] = <<>> \/ changing(v), sess[v] \in Sessions, sess'[v].contacts = sess[v].contacts,
             sess'[v].known = sess[v].known, queue'[v] = queue[v], shows'[v][c] = shows[v][c],
             UNCHANGED <<modeRow, rows>>
      PROVE  ThreeInv(v, c)'
  <2>1. grown(v, <<>>) /\ \A k \in DOMAIN <<>> : <<>>[k].about # c
    BY <1>1, <1>2, NothingComes
  <2>2. job[v] # Left /\ job[v] # Adding(c)
    BY <1>2, JobsDiffer DEF changing
  <2>3. (IsContact(v, c)' => IsContact(v, c)) /\ (hears(v, c) => hears(v, c)')
    BY <1>2, Assumed DEF IsContact, hears
  <2>4. QED
    BY <1>2, <2>1, <2>2, <2>3, MineSame
<1>3. CASE Leave(v)
  <2>1. PICK packets : logoff(v, packets) /\ \A p \in packets : p.about = v
    BY <1>3 DEF Leave
  <2>2. /\ shows' = receive(packets) /\ job[v] = <<>> /\ sess[v] \in Sessions
        /\ UNCHANGED <<sess, queue, modeRow, rows>>
    BY <1>1, <1>3, <2>1 DEF logoff, tables, Leave, PresenceType
  <2>3. shows'[v][c] = shows[v][c]
    BY <1>1, <2>1, <2>2, Received
  <2>4. QED
    BY <1>2, <2>2, <2>3
<1>4. CASE status(v)
  <2> DEFINE o == mapLegacyStatusToOSCAR(sess[v].status)
  <2>1. /\ changing(v) /\ sess[v] \in Sessions
        /\ sess' = [sess EXCEPT ![v] = [sess[v] EXCEPT !.oscar = o]]
        /\ \A w \in Users : w \notin listedBy(v) => grown(w, <<>>)
        /\ \E P : shows' = receive(P) /\ \A p \in P : p.about = v
        /\ UNCHANGED <<modeRow, rows>>
    BY <1>4, Changes
  <2> HIDE DEF o
  <2>2. queue'[v] = queue[v]
    BY <1>1, <2>1, NothingGrown DEF listedBy
  <2>3. shows'[v][c] = shows[v][c]
    BY <1>1, <2>1, Received
  <2>4. sess'[v].contacts = sess[v].contacts /\ sess'[v].known = sess[v].known
    BY <1>1, <2>1 DEF PresenceType, Sessions
  <2>5. QED
    BY <1>2, <2>1, <2>2, <2>3, <2>4
<1>5. ASSUME Ready(v)
      PROVE  sess[v] \in Sessions /\ sess[v] # Absent /\ job[v] = <<>>
  BY <1>1, <1>5 DEF Ready, active, PresenceType
<1>6. ASSUME NEW cs, Ready(v), visibleList(v, cs) \/ invisibleList(v, cs)
      PROVE  ThreeInv(v, c)'
  <2>1. sess'[v].contacts = sess[v].contacts /\ sess'[v].known = sess[v].known
    BY <1>1, <1>5, <1>6 DEF visibleList, invisibleList, set, PresenceType, Sessions
  <2>2. QED
    BY <1>2, <1>5, <1>6, <2>1 DEF visibleList, invisibleList, tables
<1>7. ASSUME NEW s \in Statuses, Ready(v), setStatusFirst(v, s)
      PROVE  ThreeInv(v, c)'
  <2>1. sess'[v].contacts = sess[v].contacts /\ sess'[v].known = sess[v].known
    BY <1>1, <1>5, <1>7 DEF setStatusFirst, set, PresenceType, Sessions
  <2>2. QED
    BY <1>2, <1>5, <1>7, <2>1 DEF setStatusFirst, tables
<1>8. ASSUME NEW s \in Statuses, Ready(v), handleSetStateV3(v, s)
      PROVE  ThreeInv(v, c)'
  <2>1. sess'[v].contacts = sess[v].contacts /\ sess'[v].known = sess[v].known
    BY <1>1, <1>5, <1>8 DEF handleSetStateV3, set, PresenceType, Sessions
  <2>2. PICK told \in SUBSET Users : shows' = receive({SendStatusChange(w, v, s) : w \in told})
    BY <1>8 DEF handleSetStateV3
  <2>3. \A p \in {SendStatusChange(w, v, s) : w \in told} : p.about = v
    BY <1>1, PacketsSent DEF About
  <2>4. shows'[v][c] = shows[v][c]
    BY <1>1, <2>2, <2>3, Received
  <2>5. QED
    BY <1>2, <1>5, <1>8, <2>1, <2>4 DEF handleSetStateV3, tables
<1>9. ASSUME NEW d \in Users \ {v}, Ready(v), userAdd(v, d)
      PROVE  ThreeInv(v, c)'
  <2>1. /\ job'[v] = Adding(d) /\ sess'[v] = [sess[v] EXCEPT !.contacts = sess[v].contacts \cup {d}]
        /\ queue'[v] = queue[v] /\ shows'[v][c] = shows[v][c] /\ UNCHANGED <<modeRow, rows>>
    BY <1>1, <1>9 DEF userAdd, set, start, Adding, tables, PresenceType
  <2>2. sess'[v].contacts = sess[v].contacts \cup {d} /\ sess'[v].known = sess[v].known
    BY <1>5, <1>9, <2>1 DEF Sessions
  <2>3. grown(v, <<>>) /\ \A k \in DOMAIN <<>> : <<>>[k].about # c
    BY <1>1, <2>1, NothingComes
  <2>4. job[v] # Left /\ job[v] # Adding(c)
    BY <1>5, <1>9, JobsDiffer
  <2>5. IsContact(v, c)' => IsContact(v, c) \/ c = d
    BY <1>5, <1>9, <2>2 DEF IsContact
  <2>6. IsContact(v, c)' /\ c \in sess'[v].known => IsContact(v, c) /\ c \in sess[v].known
    BY <1>5, <1>9, <2>2 DEF IsContact, Outset, OneInv, SessInv
  <2>7. hears(v, c) => hears(v, c)'
    BY <2>1 DEF hears
  <2>8. QED
    BY <2>1, <2>3, <2>4, <2>5, <2>6, <2>7, MineSame
<1>10. QED
  BY <1>3, <1>4, <1>6, <1>7, <1>8, <1>9

LEMMA MineGoesThree ==
  ASSUME Outset, NEW v \in Users, NEW c \in Users \ {v},
         Enter(v) \/ announce(v) \/ farewell(v) \/ RemoveSession(v)
  PROVE  ThreeInv(v, c)'
<1>1. PresenceType
  BY DEF Outset
<1>2. CASE Enter(v)
  <2>1. PICK S \in Sessions : install(v, S) /\ S.contacts = {}
    BY <1>2 DEF Enter
  <2>2. sess'[v] = S
    BY <1>1, <2>1 DEF install, set, PresenceType
  <2>3. QED
    BY <2>1, <2>2, NobodyThree DEF IsContact
<1>3. CASE announce(v)
  <2> DEFINE o(s) == mapLegacyStatusToOSCAR(s)
  <2>1. PICK s : /\ announcing(v) /\ sess[v] \in Sessions
                 /\ sess' = [sess EXCEPT ![v] = [sess[v] EXCEPT !.status = s, !.oscar = o(s)]]
    BY <1>3, Announces
  <2> HIDE DEF o
  <2>2. sess[v].contacts = {}
    BY <2>1 DEF Outset, OneInv, AnnouncingInv
  <2>3. sess'[v].contacts = {}
    BY <1>1, <2>1, <2>2 DEF PresenceType, Sessions
  <2>4. QED
    BY <2>3, NobodyThree DEF IsContact
<1>4. CASE farewell(v)
  <2>1. job'[v] = Left
    BY <1>1, <1>4, JobSteps DEF farewell, PresenceType
  <2>2. QED
    BY <2>1, NobodyThree
<1>5. CASE RemoveSession(v)
  <2>1. sess'[v] = Absent
    BY <1>1, <1>5 DEF RemoveSession, set, PresenceType
  <2>2. QED
    BY <2>1, NobodyThree DEF IsContact
<1>6. QED
  BY <1>2, <1>3, <1>4, <1>5

LEMMA MineContactsThree ==
  ASSUME Outset, KnownStatuses, NEW v \in Users, NEW c \in Users \ {v}, ThreeInv(v, c), contacts(v)
  PROVE  ThreeInv(v, c)'
<1>1. PresenceType /\ Kind(v)
  BY DEF Outset, Kind
<1>2. job[v] = Listing /\ job' = [job EXCEPT ![v] = <<>>]
  BY JobSteps DEF contacts, Outset
<1>3. /\ job[v] # Left /\ job[v] # Adding(c) /\ sess[v] # Absent
      /\ UNCHANGED <<ver, sess, rows, modeRow, queue>>
  BY <1>1, <1>2, JobsDiffer, AtWork DEF contacts, tables
<1>4. \/ shows'[v][c] = shows[v][c]
      \/ contactStatus(v, c) # Offline /\ shows'[v][c] = sent(v, contactStatus(v, c))
  <2> DEFINE P == onlineContacts(v) \cup notifyContactsUserOnline(v)
  <2>1. \A p \in P : p.about = c => /\ contactStatus(v, c) # Offline
                                    /\ p.kind = "online" /\ p.status = sent(v, contactStatus(v, c))
    BY <1>3, PacketsOf DEF Outset, About
  <2>2. shows' = receive(P)
    BY DEF contacts
  <2> HIDE DEF P
  <2>3. QED
    BY <1>1, <2>1, <2>2, Received DEF made
<1>5. grown(v, <<>>) /\ \A k \in DOMAIN <<>> : <<>>[k].about # c
  BY <1>1, <1>3, NothingComes
<1>6. IsContact(v, c)' = IsContact(v, c) /\ (hears(v, c) => hears(v, c)')
  BY <1>3 DEF IsContact, hears
<1>7. CASE shows'[v][c] = shows[v][c]
  BY <1>1, <1>3, <1>5, <1>6, <1>7, MineSame
<1>8. CASE contactStatus(v, c) # Offline /\ shows'[v][c] = sent(v, contactStatus(v, c))
  <2>1. sess[c] # Absent /\ contactStatus(v, c) \in Codes
    BY <1>8, PacketsOf DEF Outset
  <2>2. shows'[v][c] # Offline
    BY <1>8, <2>1, CodesShown
  <2>3. ASSUME views(v, c)
        PROVE  upToDate(v, c)'
    <3>1. CASE isInvisible(sess[c].status)
      BY <1>3, <3>1 DEF upToDate
    <3>2. CASE ~isInvisible(sess[c].status)
      <4>1. contactStatus(v, c) = sess[c].status
        BY <2>1, <3>2 DEF contactStatus
      <4>2. QED
        BY <1>3, <1>8, <2>1, <2>3, <4>1, SentUpToDate DEF views
    <3>3. QED
      BY <3>1, <3>2
  <2>4. CASE views(v, c)
    BY <1>1, <1>3, <1>5, <1>6, <2>2, <2>3, <2>4, MineThree
  <2>5. CASE ~views(v, c)
    <3>1. ~views(v, c)' /\ job'[c] = job[c]
      BY <1>1, <1>3, <2>5, ContactStays DEF views, IsContact
    <3>2. KnownInv(v, c)'
      BY <1>1, <1>3, <1>5, <1>6, <2>2, KnownKept DEF ThreeInv
    <3>3. QED
      BY <3>1, <3>2 DEF ThreeInv, InStep
  <2>6. QED
    BY <2>4, <2>5
<1>9. QED
  BY <1>4, <1>7, <1>8

\* Whom the viewer adds, he is told of when that one is there.
LEMMA TheirNews ==
  ASSUME Outset, NEW v \in Users, NEW c \in Users \ {v}, NEW cs, c \in cs, NEW ms, grown(v, ms), arrivals(ms, v, cs),
         active(v), ~announcing(v), job[v] # Left, views(v, c)', present(c), ver' = ver, sess'[c] = sess[c]
  PROVE  latest(v, c)'
<1>1. v \in modeRow /\ c \in modeRow
  BY DEF Outset, OneInv, ModeInv, views, present
<1>2. c \in news(v, cs)
  BY <1>1 DEF news, metBy, present, views
<1>3. PICK k \in DOMAIN ms : ms[k].about = c
  BY <1>2 DEF arrivals
<1>4. ms[k] = Arrived(c, sess'[c].oscar) /\ \A l \in DOMAIN ms : ms[l].about = c => l = k
  BY <1>3 DEF arrivals
<1>5. QED
  BY <1>3, <1>4, NewsCome DEF Outset

LEMMA MineAddedThree ==
  ASSUME Outset, KnownStatuses, NEW v \in Users, NEW c \in Users \ {v}, ThreeInv(v, c), added(v)
  PROVE  ThreeInv(v, c)'
<1>1. PICK d \in Users :
           /\ d # v /\ job[v] = Adding(d) /\ job' = [job EXCEPT ![v] = <<>>] /\ active(v)
           /\ rows' = rows \cup ownRows(v, {d}) /\ AddBuddies(v, {d})
           /\ \/ sess[d] = Absent /\ shows' = shows
              \/ /\ sess[d] # Absent
                 /\ shows' = receive({About("online", v, d, sent(v, sess[d].status)),
                                      About("online", d, v, sent(d, sess[v].status))})
           /\ UNCHANGED <<ver, sess, modeRow>>
  BY Adds
<1>2. job[v] # Left /\ ~announcing(v) /\ (job[v] = Adding(c) => d = c) /\ PresenceType /\ Kind(v)
  BY <1>1, JobsDiffer DEF Outset, announcing, Kind
<1>3. IsContact(v, c)' = IsContact(v, c) /\ (hears(v, c) => hears(v, c)')
  BY <1>1 DEF hears, IsContact
<1>4. PICK ms : grown(v, ms) /\ arrivals(ms, v, {d})
  BY <1>1, BuddiesAdded, Assumed DEF Outset
<1>5. shows'[v][c] = shows[v][c] \/ (c = d /\ sess[c] # Absent /\ shows'[v][c] = sent(v, sess[c].status))
  <2> DEFINE P == {About("online", v, d, sent(v, sess[d].status)), About("online", d, v, sent(d, sess[v].status))}
  <2>1. \A p \in P : p.about = c => c = d /\ p.kind = "online" /\ p.status = sent(v, sess[c].status)
    BY DEF About
  <2>2. shows' = shows \/ (sess[d] # Absent /\ shows' = receive(P))
    BY <1>1
  <2> HIDE DEF P
  <2>3. QED
    BY <1>2, <2>1, <2>2, Received DEF made
<1>6. CASE c # d
  <2>1. \A k \in DOMAIN ms : ms[k].about # c
    BY <1>4, <1>6 DEF arrivals, news, metBy
  <2>2. job[v] # Adding(c) /\ shows'[v][c] = shows[v][c]
    BY <1>2, <1>5, <1>6
  <2>3. QED
    BY <1>1, <1>2, <1>3, <1>4, <2>1, <2>2, MineSame
<1>7. CASE c = d
  <2>1. shows[v][c] # Offline => shows'[v][c] # Offline
    BY <1>5, StatusesAreCodes, CodesShown DEF Outset
  <2>2. sess'[c] = sess[c] /\ job'[c] = job[c]
    BY <1>2, ContactStays
  <2>3. KnownInv(v, c)'
    BY <1>1, <1>2, <1>3, <1>4, <2>1, <2>2, KnownKept DEF ThreeInv
  <2>4. InStep(v, c)'
    <3> SUFFICES ASSUME views(v, c)', present(c)' PROVE latest(v, c)'
      BY DEF InStep
    <3>1. present(c)
      BY <2>2 DEF present, active, announcing
    <3>2. QED
      BY <1>1, <1>2, <1>4, <1>7, <2>2, <3>1, TheirNews
  <2>5. QED
    BY <2>3, <2>4 DEF ThreeInv
<1>8. QED
  BY <1>6, <1>7

LEMMA MineListThree ==
  ASSUME Outset, ~Relists, NEW v \in Users, NEW c \in Users \ {v}, NEW cs \in SUBSET (Users \ {v}),
         Ready(v), contactList(v, cs)
  PROVE  ThreeInv(v, c)'
<1>1. /\ sess' = [sess EXCEPT ![v] = [sess[v] EXCEPT !.contacts = cs]] /\ AddBuddies(v, cs)
      /\ UNCHANGED <<ver, modeRow>> /\ sess[v].contacts = {}
  BY DEF contactList, set, history
<1>2. active(v) /\ sess[v] \in Sessions /\ job[v] # Left /\ ~announcing(v) /\ sess[v] # Absent
  BY JobsDiffer DEF Ready, active, announcing, Outset, PresenceType
<1>3. sess'[v].contacts = cs /\ sess'[v].known = {} /\ sess'[c] = sess[c]
  BY <1>1, <1>2 DEF Outset, OneInv, SessInv, PresenceType, Sessions
<1>4. KnownInv(v, c)'
  BY <1>3 DEF KnownInv
<1>5. PICK ms : grown(v, ms) /\ arrivals(ms, v, cs)
  BY <1>1, <1>2, BuddiesAdded, Assumed DEF Outset
<1>6. InStep(v, c)'
  <2> SUFFICES ASSUME views(v, c)', present(c)' PROVE latest(v, c)'
    BY DEF InStep
  <2>1. c \in cs
    BY <1>3 DEF views, IsContact
  <2>2. present(c)
    <3>1. job'[c] = job[c]
      BY DEF contactList, start, Outset, PresenceType
    <3>2. QED
      BY <1>3, <3>1 DEF present, active, announcing
  <2>3. QED
    BY <1>1, <1>2, <1>3, <1>5, <2>1, <2>2, TheirNews
<1>7. QED
  BY <1>4, <1>6 DEF ThreeInv

\* What the viewer's pump makes of one message, for one contact.
LEMMA PumpHere ==
  ASSUME Outset, NEW v \in Users, NEW c \in Users \ {v}, pump(v)
  PROVE  LET m == queue[v][1]
         IN  /\ queue[v] # <<>> /\ queue'[v] = Tail(queue[v]) /\ 1 \in DOMAIN queue[v] /\ PresenceType
             /\ m.kind \in {"arrived", "departed"} /\ UNCHANGED <<ver, modeRow, rows, job>> /\ sess'[c] = sess[c]
             /\ (IsContact(v, c)' => IsContact(v, c))
             /\ m.about # c => shows'[v][c] = shows[v][c] /\ (c \in sess'[v].known => c \in sess[v].known)
             /\ IsContact(v, c) /\ m.about = c /\ m.kind = "arrived" =>
                  shows'[v][c] = IF c \in sess[v].known /\ shows[v][c] = Offline THEN Offline
                                 ELSE sent(v, oscarStatusToLegacy(m.status))
             /\ IsContact(v, c) /\ m.about = c /\ m.kind = "departed" => c \notin sess'[v].known
<1> DEFINE m == Head(queue[v])
<1>1. /\ queue[v] # <<>> /\ m \in Messages /\ sess[v] \in Sessions
      /\ queue' = [queue EXCEPT ![v] = Tail(queue[v])]
      /\ ~IsContact(v, m.about) => UNCHANGED <<sess, shows>>
      /\ IsContact(v, m.about) /\ m.kind = "arrived" =>
           /\ sess' = [sess EXCEPT ![v] = [sess[v] EXCEPT !.known = sess[v].known \cup {m.about}]]
           /\ shows' = receive({About(IF m.about \in sess[v].known THEN "status" ELSE "online",
                                       v, m.about, sent(v, oscarStatusToLegacy(m.status)))})
      /\ IsContact(v, m.about) /\ m.kind = "departed" =>
           /\ sess' = [sess EXCEPT ![v] = [sess[v] EXCEPT !.known = sess[v].known \ {m.about}]]
           /\ shows' = receive({About("offline", v, m.about, 0)})
      /\ UNCHANGED <<ver, modeRow, rows, job>>
  BY Pumps
<1> HIDE DEF m
<1>2. PresenceType /\ queue'[v] = Tail(queue[v])
  BY <1>1 DEF Outset, PresenceType
<1>3. m = queue[v][1] /\ 1 \in DOMAIN queue[v]
  BY <1>1, <1>2, FirstRead DEF m
<1>4. m.about \in Users /\ m.kind \in {"arrived", "departed"}
  BY <1>1 DEF Messages
<1>5. \A K \in SUBSET Users : [sess[v] EXCEPT !.known = K].known = K
                              /\ [sess[v] EXCEPT !.known = K].contacts = sess[v].contacts
  BY <1>1 DEF Sessions
<1>6. sess[v].known \cup {m.about} \in SUBSET Users /\ sess[v].known \ {m.about} \in SUBSET Users /\ sess[v] # Absent
  BY <1>1, <1>4, Assumed DEF Sessions
<1>7. CASE ~IsContact(v, m.about)
  BY <1>1, <1>2, <1>3, <1>4, <1>7 DEF IsContact
<1>8. CASE IsContact(v, m.about) /\ m.kind = "arrived"
  <2> DEFINE p == About(IF m.about \in sess[v].known THEN "status" ELSE "online",
                        v, m.about, sent(v, oscarStatusToLegacy(m.status)))
  <2>1. /\ p.to = v /\ p.about = m.about /\ p.status = sent(v, oscarStatusToLegacy(m.status))
        /\ p.kind = IF m.about \in sess[v].known THEN "status" ELSE "online"
    BY DEF About
  <2>2. shows' = receive({p})
    BY <1>1, <1>8
  <2> HIDE DEF p
  <2>3. sess'[v].known = sess[v].known \cup {m.about} /\ sess'[v].contacts = sess[v].contacts /\ sess'[c] = sess[c]
    <3>1. sess' = [sess EXCEPT ![v] = [sess[v] EXCEPT !.known = sess[v].known \cup {m.about}]]
      BY <1>1, <1>8
    <3>2. sess'[v] = [sess[v] EXCEPT !.known = sess[v].known \cup {m.about}] /\ sess'[c] = sess[c]
      BY <1>2, <3>1 DEF PresenceType
    <3>3. QED
      BY <1>5, <1>6, <3>2
  <2>4. m.about # c => shows'[v][c] = shows[v][c]
    BY <1>2, <2>1, <2>2, Received
  <2>5. m.about = c => shows'[v][c] = made(p, shows[v][c])
    BY <1>2, <1>8, <2>1, <2>2, Received
  <2>6. m.about = c => shows'[v][c] = IF c \in sess[v].known /\ shows[v][c] = Offline THEN Offline
                                      ELSE sent(v, oscarStatusToLegacy(m.status))
    BY <2>1, <2>5 DEF made
  <2>7. IsContact(v, c)' => IsContact(v, c)
    BY <1>6, <2>3 DEF IsContact
  <2>8. QED
    BY <1>1, <1>2, <1>3, <1>4, <1>8, <2>3, <2>4, <2>6, <2>7
<1>9. CASE IsContact(v, m.about) /\ m.kind = "departed"
  <2> DEFINE p == About("offline", v, m.about, 0)
  <2>1. p.about = m.about
    BY DEF About
  <2>2. shows' = receive({p})
    BY <1>1, <1>9
  <2> HIDE DEF p
  <2>3. sess'[v].known = sess[v].known \ {m.about} /\ sess'[v].contacts = sess[v].contacts /\ sess'[c] = sess[c]
    <3>1. sess' = [sess EXCEPT ![v] = [sess[v] EXCEPT !.known = sess[v].known \ {m.about}]]
      BY <1>1, <1>9
    <3>2. sess'[v] = [sess[v] EXCEPT !.known = sess[v].known \ {m.about}] /\ sess'[c] = sess[c]
      BY <1>2, <3>1 DEF PresenceType
    <3>3. QED
      BY <1>5, <1>6, <3>2
  <2>4. m.about # c => shows'[v][c] = shows[v][c]
    BY <1>2, <2>1, <2>2, Received
  <2>5. IsContact(v, c)' => IsContact(v, c)
    BY <1>6, <2>3 DEF IsContact
  <2>6. QED
    BY <1>1, <1>2, <1>3, <1>4, <1>9, <2>3, <2>4, <2>5
<1>10. QED
  BY <1>4, <1>7, <1>8, <1>9

LEMMA NewsRead ==
  ASSUME PresenceType, NEW v \in Users, NEW c, queue[v] # <<>>, queue'[v] = Tail(queue[v]), sess'[c] = sess[c]
  PROVE  /\ latest(v, c) => latest(v, c)' \/ (queue[v][1] = Arrived(c, sess[c].oscar) /\ ~Gone(v, c, 0) /\ noNews(v, c)')
         /\ noNews(v, c) => noNews(v, c)' /\ queue[v][1].about # c
         /\ Gone(v, c, 0) => Gone(v, c, 0)' \/ (queue[v][1].kind = "departed" /\ queue[v][1].about = c)
         /\ Gone(v, c, 1) => Gone(v, c, 0)'
<1>1. /\ \A i \in DOMAIN queue[v] : i = 1 \/ (i - 1 \in DOMAIN queue'[v] /\ queue'[v][i - 1] = queue[v][i])
      /\ \A i \in DOMAIN queue'[v] : /\ i + 1 \in DOMAIN queue[v] /\ queue'[v][i] = queue[v][i + 1]
                                     /\ i \in Nat /\ i >= 1
      /\ 1 \in DOMAIN queue[v] /\ DOMAIN queue[v] \subseteq Nat \ {0}
  BY FirstRead
<1>2. ASSUME NEW j \in DOMAIN queue[v], j # 1, queue[v][j].kind = "departed", queue[v][j].about = c
      PROVE  Gone(v, c, 0)'
  <2>1. j - 1 \in DOMAIN queue'[v] /\ queue'[v][j - 1] = queue[v][j] /\ j - 1 > 0
    BY <1>1, <1>2
  <2>2. QED
    BY <1>2, <2>1 DEF Gone
<1>3. /\ Gone(v, c, 0) => Gone(v, c, 0)' \/ (queue[v][1].kind = "departed" /\ queue[v][1].about = c)
      /\ Gone(v, c, 1) => Gone(v, c, 0)'
  BY <1>1, <1>2 DEF Gone
<1>4. noNews(v, c) => noNews(v, c)' /\ queue[v][1].about # c
  BY <1>1 DEF noNews
<1>5. ASSUME latest(v, c)
      PROVE  latest(v, c)' \/ (queue[v][1] = Arrived(c, sess[c].oscar) /\ ~Gone(v, c, 0) /\ noNews(v, c)')
  <2>1. PICK i \in DOMAIN queue[v] :
          queue[v][i] = Arrived(c, sess[c].oscar) /\ \A j \in DOMAIN queue[v] : j > i => queue[v][j].about # c
    BY <1>5 DEF latest
  <2>2. \A j \in DOMAIN queue'[v] : j + 1 > i => queue'[v][j].about # c
    BY <1>1, <2>1
  <2>3. CASE i # 1
    <3>1. i - 1 \in DOMAIN queue'[v] /\ queue'[v][i - 1] = Arrived(c, sess'[c].oscar)
      BY <1>1, <2>1, <2>3
    <3>2. \A j \in DOMAIN queue'[v] : j > i - 1 => queue'[v][j].about # c
      BY <1>1, <2>1, <2>2
    <3>3. QED
      BY <3>1, <3>2 DEF latest
  <2>4. CASE i = 1
    <3>1. noNews(v, c)'
      BY <1>1, <2>2, <2>4 DEF noNews
    <3>2. ~Gone(v, c, 0)
      <4> SUFFICES ASSUME NEW j \in DOMAIN queue[v], queue[v][j].kind = "departed", queue[v][j].about = c
                   PROVE  FALSE
        BY DEF Gone
      <4>1. queue[v][1].kind = "arrived"
        BY <2>1, <2>4 DEF Arrived
      <4>2. j = 1 \/ j > 1
        BY <1>1
      <4>3. QED
        BY <2>1, <2>4, <4>1, <4>2
    <3>3. QED
      BY <2>1, <2>4, <3>1, <3>2
  <2>5. QED
    BY <2>3, <2>4
<1>6. QED
  BY <1>3, <1>4, <1>5

LEMMA PumpThree ==
  ASSUME Outset, KnownStatuses, NEW v \in Users, NEW c \in Users \ {v}, TwoInv(v, c), ThreeInv(v, c), pump(v)
  PROVE  ThreeInv(v, c)'
<1> DEFINE m == queue[v][1]
<1>1. /\ queue[v] # <<>> /\ queue'[v] = Tail(queue[v]) /\ 1 \in DOMAIN queue[v] /\ PresenceType
      /\ m.kind \in {"arrived", "departed"} /\ UNCHANGED <<ver, modeRow, rows, job>> /\ sess'[c] = sess[c]
      /\ (IsContact(v, c)' => IsContact(v, c))
      /\ m.about # c => shows'[v][c] = shows[v][c] /\ (c \in sess'[v].known => c \in sess[v].known)
      /\ IsContact(v, c) /\ m.about = c /\ m.kind = "arrived" =>
           shows'[v][c] = IF c \in sess[v].known /\ shows[v][c] = Offline THEN Offline
                          ELSE sent(v, oscarStatusToLegacy(m.status))
      /\ IsContact(v, c) /\ m.about = c /\ m.kind = "departed" => c \notin sess'[v].known
  BY PumpHere
<1>2. /\ latest(v, c) => latest(v, c)' \/ (m = Arrived(c, sess[c].oscar) /\ ~Gone(v, c, 0) /\ noNews(v, c)')
      /\ noNews(v, c) => noNews(v, c)' /\ m.about # c
      /\ Gone(v, c, 0) => Gone(v, c, 0)' \/ (m.kind = "departed" /\ m.about = c)
      /\ Gone(v, c, 1) => Gone(v, c, 0)'
  BY <1>1, NewsRead
<1>3. m \in Messages
  BY <1>1 DEF PresenceType
<1> HIDE DEF m
<1>4. /\ hears(v, c)' = hears(v, c) /\ (views(v, c)' => views(v, c)) /\ present(c)' = present(c)
      /\ changing(c)' = changing(c)
  BY <1>1 DEF hears, views, present, active, announcing, changing
<1>5. ASSUME job[v] # Left, IsContact(v, c)
      PROVE  KnownInv(v, c)' /\ InStep(v, c)'
  <2>1. KnownInv(v, c) /\ InStep(v, c)
    BY <1>5 DEF ThreeInv
  <2>2. CASE m.about # c
    <3>1. KnownInv(v, c)'
      BY <1>1, <1>2, <1>4, <1>5, <2>1, <2>2 DEF KnownInv
    <3>2. upToDate(v, c) => upToDate(v, c)'
      BY <1>1, <1>4, <2>2, DateKept
    <3>3. latest(v, c) => latest(v, c)'
      BY <1>2, <2>2 DEF Arrived
    <3>4. InStep(v, c)'
      BY <1>1, <1>2, <1>4, <2>1, <2>2, <3>2, <3>3 DEF InStep
    <3>5. QED
      BY <3>1, <3>4
  <2>3. CASE m.about = c /\ m.kind = "departed"
    <3>1. KnownInv(v, c)'
      BY <1>1, <1>5, <2>3 DEF KnownInv
    <3>2. latest(v, c) => latest(v, c)'
      BY <1>2, <2>3 DEF Arrived
    <3>3. InStep(v, c)'
      BY <1>1, <1>2, <1>4, <2>1, <2>3, <3>2 DEF InStep
    <3>4. QED
      BY <3>1, <3>3
  <2>4. CASE m.about = c /\ m.kind = "arrived"
    <3>1. oscarStatusToLegacy(m.status) \in Codes
      BY <1>3, CodesKept DEF Messages
    <3>2. sent(v, oscarStatusToLegacy(m.status)) # Offline
      BY <3>1, CodesShown
    <3>3. Gone(v, c, 1) \/ hears(v, c)
      BY <1>1, <1>5, <2>4 DEF TwoInv, QueueInv, m
    <3>4. c \in sess[v].known /\ shows[v][c] = Offline => Gone(v, c, 0)' \/ job[c] = Leaving
      BY <1>2, <1>5, <2>1, <2>4 DEF KnownInv
    <3>5. KnownInv(v, c)'
      BY <1>1, <1>2, <1>4, <1>5, <2>4, <3>2, <3>3, <3>4 DEF KnownInv
    <3>6. ASSUME views(v, c)', present(c)', job'[v] # Adding(c), ~latest(v, c)'
          PROVE  noNews(v, c)' /\ shows'[v][c] # Offline /\ upToDate(v, c)'
      <4>1. views(v, c) /\ present(c) /\ job[v] # Adding(c)
        BY <1>1, <1>4, <3>6
      <4>2. m = Arrived(c, sess[c].oscar) /\ ~Gone(v, c, 0) /\ noNews(v, c)'
        BY <1>2, <2>1, <2>4, <3>6, <4>1 DEF InStep
      <4>3. c \in sess[v].known => shows[v][c] # Offline
        BY <1>5, <2>1, <4>1, <4>2 DEF KnownInv, present
      <4>4. shows'[v][c] = sent(v, oscarStatusToLegacy(sess[c].oscar))
        BY <1>1, <1>5, <2>4, <4>2, <4>3 DEF Arrived
      <4>5. sess[c] # Absent /\ ver[v] # 1
        BY <4>1 DEF present, active, views
      <4>6. ASSUME sess[c].oscar = mapLegacyStatusToOSCAR(sess[c].status), ~isInvisible(sess[c].status)
            PROVE  sameTo(ver[v] = 2, shows'[v][c]) = sameTo(ver[v] = 2, sess[c].status)
        <5>1. sess[c].status \in KnownBases
          BY <4>5, <4>6, KnownCodes DEF Outset, OneInv, SessInv
        <5>2. QED
          BY <4>4, <4>5, <4>6, <5>1, SentSame
      <4>7. upToDate(v, c)'
        BY <1>1, <4>6 DEF upToDate, agrees
      <4>8. shows'[v][c] # Offline
        BY <1>1, <1>5, <2>4, <3>2, <4>3
      <4>9. QED
        BY <4>2, <4>7, <4>8
    <3>7. QED
      BY <3>5, <3>6 DEF InStep
  <2>5. QED
    BY <1>1, <2>2, <2>3, <2>4
<1>6. CASE ~IsContact(v, c)
  BY <1>1, <1>6, NobodyThree
<1>7. QED
  BY <1>1, <1>5, <1>6 DEF ThreeInv

LEMMA ThreeMine ==
  ASSUME Outset, ~Relists, KnownStatuses, NEW v \in Users, NEW c \in Users \ {v}, Kind(v), TwoInv(v, c), ThreeInv(v, c)
  PROVE  ThreeInv(v, c)'
BY MineGoesThree, MineContactsThree, MineAddedThree, MineListThree, MineQuietThree, PumpThree DEF Kind

ShownInv == PresenceInv /\ \A v \in Users : \A c \in Users \ {v} : ThreeInv(v, c)

LEMMA ShownStarts ==
  ASSUME PresenceInit
  PROVE  ShownInv
<1>1. ASSUME NEW v \in Users, NEW c \in Users \ {v}
      PROVE  ThreeInv(v, c)
  BY DEF PresenceInit, ThreeInv, KnownInv, InStep, views, IsContact
<1>2. QED
  BY <1>1, PresenceStarts DEF ShownInv

LEMMA ShownKept ==
  ASSUME ~Relists, KnownStatuses, ShownInv, [PresenceNext]_presenceVars
  PROVE  ShownInv'
<1>1. PresenceInv'
  BY PresenceKept DEF ShownInv
<1>2. ASSUME NEW u \in Users, Handling(u), NEW v \in Users, NEW c \in Users \ {v}
      PROVE  ThreeInv(v, c)'
  <2>1. Outset /\ Kind(u)
    BY <1>2, Kinds, Assumed DEF ShownInv, PresenceInv, Outset
  <2>2. TwoInv(v, c) /\ ThreeInv(v, c)
    BY DEF ShownInv, PresenceInv
  <2>3. CASE u = v
    BY <2>1, <2>2, <2>3, ThreeMine
  <2>4. CASE u = c
    BY <2>1, <2>2, <2>4, ThreeTheirs
  <2>5. CASE u # v /\ u # c
    BY <2>1, <2>2, <2>5, ThreeElsewhere
  <2>6. QED
    BY <2>3, <2>4, <2>5
<1>3. ASSUME UNCHANGED presenceVars, NEW v \in Users, NEW c \in Users \ {v}
      PROVE  ThreeInv(v, c)'
  <2>1. ThreeInv(v, c)
    BY DEF ShownInv
  <2>2. UNCHANGED <<ver, sess, modeRow, rows, queue, shows, job>>
    BY <1>3 DEF presenceVars, tables
  <2>3. /\ KnownInv(v, c)' <=> KnownInv(v, c)
        /\ InStep(v, c)' <=> InStep(v, c)
    BY <2>2 DEF KnownInv, InStep, IsContact, views, hears, present, active, announcing, changing, agrees, upToDate,
       latest, noNews, Gone
  <2>4. QED
    BY <2>1, <2>2, <2>3 DEF ThreeInv
<1>4. QED
  BY <1>1, <1>2, <1>3 DEF ShownInv, PresenceNext

\* A visible contact's last status is on the viewer's screen or last in his queue, so once
\* all is quiet it is on the screen (notifyContactsUserOnline, broadcastStatusChange,
\* handleBuddyArrived): for clients that do not send their list again in a session, and for
\* the statuses ICQ clients know.
THEOREM BuddiesKeptShown ==
  ASSUME ~Relists, KnownStatuses
  PROVE  PresenceSpec => []BuddiesShown
<1>1. PresenceInit => ShownInv
  BY ShownStarts
<1>2. ShownInv /\ [PresenceNext]_presenceVars => ShownInv'
  BY ShownKept
<1>3. ShownInv => BuddiesShown
  <2> SUFFICES ASSUME ShownInv, settled, NEW v \in Users, NEW c \in Users,
                      views(v, c), active(v), active(c), agrees(c), ~isInvisible(sess[c].status)
               PROVE  /\ shows[v][c] # Offline
                      /\ sameTo(ver[v] = 2, shows[v][c]) = sameTo(ver[v] = 2, sess[c].status)
    BY DEF BuddiesShown, sameTo
  <2>1. /\ v # c /\ ThreeInv(v, c) /\ Outset /\ job[v] = <<>> /\ queue[v] = <<>> /\ job[c] = <<>>
        /\ sess[c].status \in Codes
    BY StatusesAreCodes DEF ShownInv, PresenceInv, Outset, views, settled, active
  <2>2. InStep(v, c) /\ job[v] # Adding(c)
    BY <2>1, JobsDiffer DEF ThreeInv
  <2>3. ~isInvisible(sess[c].oscar)
    BY <2>1, CodesKept DEF agrees
  <2>4. present(c) /\ ~changing(c)
    BY <2>1, <2>3, JobsDiffer DEF present, announcing, changing
  <2>5. ~latest(v, c)
    BY <2>1 DEF latest
  <2>6. QED
    BY <2>2, <2>4, <2>5 DEF InStep, upToDate
<1>4. QED
  BY <1>1, <1>2, <1>3, PTL DEF PresenceSpec
=============================================================================
