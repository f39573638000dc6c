----------------------------- MODULE Directory -----------------------------
(***************************************************************************)
(* The ICQ directory at work: requests of clients of every version, of OSCAR *)
(* clients and of the management API, which read, write, insert and delete    *)
(* rows of the users table.  The database has one connection, so statements   *)
(* are atomic and ordered; between the statements of one request those of     *)
(* others run.  Nothing else keeps requests apart: every UDP packet has a     *)
(* goroutine of its own, and a user may have clients of several kinds.        *)
(*                                                                         *)
(* A handler of the gateway answers whatever its statements return; the      *)
(* others give up at the first error.  A search is answered in one step.     *)
(***************************************************************************)
EXTENDS ICQSearches

CONSTANTS
  Uins,         \* the numbers generateNewUIN tries, in order
  Existing,     \* users there from the start
  Targets,      \* users whose clients send requests
  TLVSets,      \* what a SetICQInfo request may carry
  MaxRequests,  \* bound: requests
  MaxErrors     \* bound: errors of the store

OSCAR == 6
Mgmt == 7

ASSUME DirectoryAssumption ==
  /\ Existing \subseteq Uins /\ Targets \subseteq Uins
  /\ Uins \subseteq Nat \ {0} /\ IsFiniteSet(Uins)
  /\ TLVSets \subseteq SUBSET ICQInfo
  /\ maxResults \in Nat \ {0}

VARIABLES
  users,   \* rows: the two hashes, the request that inserted the row, the profile
  reqs,    \* requests in the order in which they began
  freed,   \* history: numbers whose row was deleted
  errors

vars == <<users, reqs, freed, errors>>

Row(owner, weak, value) ==
  [owner |-> owner, weak |-> weak, strong |-> owner, profile |-> [f \in ICQInfo |-> value]]

Init ==
  /\ users = [u \in Uins |-> IF u \in Existing THEN Row(Before, Before, Before) ELSE None]
  /\ reqs = <<>>
  /\ freed = {}
  /\ errors = 0

Exists(u) == users[u] # None

\* What a search may find, in the order of the rows.
Hits ==
  {hits \in UNION {[1..n -> {u \in Uins : Exists(u)}] : n \in 0..Cardinality(Uins)} :
     \A i, j \in DOMAIN hits : i < j => hits[i] < hits[j]}

Profiles == [ICQInfo -> Int]
Rows == [owner : Int, weak : {None} \cup Int, strong : Int, profile : Profiles]

\* None is no row, no profile and no script.
ASSUME NoneAssumption ==
  None \notin Rows /\ None \notin Profiles /\ None # <<>> /\ None # <<Say(Reply("notConnected"))>>

-----------------------------------------------------------------------------
(* Requests.  onError is None where an error is logged only, else the packets *)
(* sent instead of the rest; copy is the profile as read, stale the fields    *)
(* written since by others, overlapped those written since the request began. *)

Request(kind, handler, version, u, onError, carries, told, script) ==
  [kind |-> kind, handler |-> handler, version |-> version, uin |-> u, onError |-> onError,
   carries |-> carries, told |-> told, script |-> script, copy |-> None,
   stale |-> {}, overlapped |-> {}, failed |-> FALSE, seen |-> <<>>]

UnderWay(q) == q.script # <<>>

Begin(q) ==
  /\ Len(reqs) < MaxRequests
  /\ reqs' = Append(reqs, q)
  /\ UNCHANGED <<users, freed, errors>>

\* A handler of the gateway acknowledges the packet first and replies in the end.
gateway(handler, version, u, carries, steps, reply) ==
  Begin(Request("update", handler, version, u, None, carries, <<Ack>>, steps \o <<Say(Reply(reply))>>))

\* An OSCAR client has its reply only if everything was stored.
reqAck == <<Say(Reply("ok"))>>
service(handler, u, carries, steps) ==
  Begin(Request("update", handler, OSCAR, u, <<>>, carries, <<>>, steps \o reqAck))

-----------------------------------------------------------------------------
(* Updates by the gateway.                                                 *)

detail == {"place", "phone", "gender", "homepage"}

detailSteps(about) ==
  GetFullUserInfo \o UpdateBasicInfo("kept", {"place", "phone"}) \o UpdateMoreInfo("kept", {"gender", "homepage"})
    \o (IF about THEN SetNotes ELSE <<>>)

detailFields(about) == detail \cup (IF about THEN {"notes"} ELSE {})

\* hasAuth: the command is UpdateBasic and the packet has the byte.
handleUpdateBasicV2(u) ==
  \/ gateway("UpdateBasic", 2, u, {}, <<>>, "fail")
  \/ \E hasAuth \in BOOLEAN :
       gateway("UpdateBasic", 2, u, {"names", "email"} \cup (IF hasAuth THEN {"auth"} ELSE {}),
               GetFullUserInfo \o UpdateBasicInfo("any", {"names", "email"})
                 \o (IF hasAuth THEN SetAuthMode ELSE <<>>), "ok")

handleUpdateDetailV2(u) ==
  \/ gateway("UpdateDetail", 2, u, {}, <<>>, "fail")
  \/ \E about \in BOOLEAN : gateway("UpdateDetail", 2, u, detailFields(about), detailSteps(about), "ok")

\* Versions 3 to 5 answer a request that is too short as if it were done.
answered(handler, version, u, carries, steps) ==
  \/ gateway(handler, version, u, carries, steps, "ok")
  \/ gateway(handler, version, u, {}, <<>>, "ok")

handleSetBasicInfo(u) == answered("SetBasicInfo", 3, u, {"names", "email"}, UpdateBasicInfo("over", {"names", "email"}))
handleSetHomeInfo(u) ==
  answered("SetHomeInfo", 3, u, {"place", "phone", "home", "auth"},
           GetFullUserInfo \o UpdateBasicInfo("kept", {"place", "phone", "home"}) \o SetAuthMode)
handleSetHomeWeb(u) == answered("SetHomeWeb", 3, u, More, UpdateMoreInfo("over", More))
handleSetWorkInfo(u) ==
  answered("SetWorkInfo", 3, u, {"office"}, GetFullUserInfo \o UpdateWorkInfo("kept", {"office"}))
handleSetWorkWeb(u) ==
  answered("SetWorkWeb", 3, u, {"workWeb"}, GetFullUserInfo \o UpdateWorkInfo("kept", {"workWeb"}))
handleSetNotes(u) == answered("SetNotes", 3, u, {"notes"}, SetNotes)
handleSetPassword(u) == answered("SetPassword", 3, u, {"weak", "strong"}, SetPassword)
\* A packet without the byte asks for no authorization.
handleSetAuth(u) == gateway("SetAuth", 3, u, {"auth"}, SetAuthMode, "ok")

handleUpdateBasicV4(u) ==
  answered("UpdateBasic", 4, u, {"names", "email", "auth"}, UpdateBasicInfo("over", {"names", "email"}) \o SetAuthMode)
handleUpdateDetailV4(u) ==
  \E about \in BOOLEAN : answered("UpdateDetail", 4, u, detailFields(about), detailSteps(about))

handleMetaSetBasic(u) == answered("MetaSetBasic", 5, u, Basic, UpdateBasicInfo("over", Basic))
handleMetaSetWork(u) == answered("MetaSetWork", 5, u, Work, UpdateWorkInfo("over", Work))
handleMetaSetMore(u) == answered("MetaSetMore", 5, u, More, UpdateMoreInfo("over", More))
handleMetaSetAbout(u) == answered("MetaSetAbout", 5, u, {"notes"}, SetNotes)
handleMetaSetInterests(u) == answered("MetaSetInterests", 5, u, {"interests"}, SetInterestsOf)
handleMetaSetAffiliations(u) == answered("MetaSetAffiliations", 5, u, Affiliations, SetAffiliationsOf)
handleMetaSetSecurity(u) ==
  answered("MetaSetSecurity", 5, u, {"auth", "webAware"}, UpdatePermissions({"auth", "webAware"}))
handleMetaSetPassword(u) == answered("MetaSetPassword", 5, u, {"weak", "strong"}, SetPassword)
handleMetaSetHPCat(u) == answered("MetaSetHPCat", 5, u, {"hpcat"}, SetHomepageCategoryOf)

UpdateOldClients(u) ==
  \/ handleUpdateBasicV2(u) \/ handleUpdateDetailV2(u)
  \/ handleSetBasicInfo(u) \/ handleSetHomeInfo(u) \/ handleSetHomeWeb(u) \/ handleSetWorkInfo(u)
  \/ handleSetWorkWeb(u) \/ handleSetNotes(u) \/ handleSetPassword(u) \/ handleSetAuth(u)
  \/ handleUpdateBasicV4(u) \/ handleUpdateDetailV4(u)

UpdateV5(u) ==
  \/ handleMetaSetBasic(u) \/ handleMetaSetWork(u) \/ handleMetaSetMore(u) \/ handleMetaSetAbout(u)
  \/ handleMetaSetInterests(u) \/ handleMetaSetAffiliations(u) \/ handleMetaSetSecurity(u)
  \/ handleMetaSetPassword(u) \/ handleMetaSetHPCat(u)

-----------------------------------------------------------------------------
(* Updates by OSCAR clients and by the management API.                     *)

SetAffiliationsOSCAR(u) == service("SetAffiliations", u, Affiliations, <<SetAffiliations>>)
SetBasicInfoOSCAR(u) == service("SetBasicInfo", u, Basic, <<SetBasicInfo("over", Basic)>>)
SetInterestsOSCAR(u) == service("SetInterests", u, {"interests"}, <<SetInterests>>)
SetMoreInfoOSCAR(u) == service("SetMoreInfo", u, More, <<SetMoreInfo("over", More)>>)
SetPermissionsOSCAR(u) ==
  service("SetPermissions", u, {"auth", "webAware"}, <<SetPermissions("over", {"auth", "webAware"})>>)
SetUserNotesOSCAR(u) == service("SetUserNotes", u, {"notes"}, <<SetUserNotes>>)
SetWorkInfoOSCAR(u) == service("SetWorkInfo", u, Work, <<SetWorkInfo("over", Work)>>)
SetEmails(u) == service("SetEmails", u, {}, <<>>)
SetICQPhone(u) == service("SetICQPhone", u, {}, <<>>)
\* The fields of the TLVs are set in the copy, which is written as a whole.
allInfo(tlvs) == <<User, SetICQInfo(tlvs)>>
SetICQInfoOSCAR(u) == \E tlvs \in TLVSets : service("SetICQInfo", u, tlvs, allInfo(tlvs))

UpdateOSCAR(u) ==
  \/ SetAffiliationsOSCAR(u) \/ SetBasicInfoOSCAR(u) \/ SetInterestsOSCAR(u) \/ SetMoreInfoOSCAR(u)
  \/ SetPermissionsOSCAR(u) \/ SetUserNotesOSCAR(u) \/ SetWorkInfoOSCAR(u) \/ SetEmails(u)
  \/ SetICQPhone(u) \/ SetICQInfoOSCAR(u)

\* A request may be malformed.
management(handler, u, carries, steps) ==
  \/ Begin(Request("update", handler, Mgmt, u, <<Say(Reply("500"))>>, carries, <<>>, steps \o <<Say(Reply("ok"))>>))
  \/ Begin(Request("update", handler, Mgmt, u, None, {}, <<>>, <<Say(Reply("400"))>>))

\* The groups are written in turn.  The origin has no statement of its own: the row is read
\* again and written as a whole.
groups ==
  <<SetBasicInfo("over", Basic), SetMoreInfo("over", More), SetWorkInfo("over", Work), SetUserNotes,
    SetInterests, SetAffiliations, SetPermissions("over", Permissions)>>
origin == <<User, SetICQInfo({"origin"})>>

putICQProfileHandler(u) ==
  management("putICQProfile", u, ICQInfo \ {"hpcat"}, <<User>> \o groups \o origin)

putUserPasswordHandler(u) == management("putUserPassword", u, {"weak", "strong"}, <<SetUserPassword>>)

-----------------------------------------------------------------------------
(* Accounts.                                                               *)

account(handler, version, u, onError, told, steps, packet) ==
  Begin(Request("account", handler, version, u, onError, {}, told, steps \o <<Say(Reply(packet))>>))

handleRegNewUserV2 == account("RegNewUser", 2, 0, <<>>, <<>>, RegisterNewUser, "new")
handleRegNewUserInfo ==
  account("RegNewUserInfo", 4, 0, <<Say(Reply("notConnected"))>>, <<Ack>>, RegisterNewUser, "new")
\* A password that is wrong fails as a missing row does.
handleMetaUnregister(u) ==
  \/ account("MetaUnregister", 5, u, <<Say(Reply("fail"))>>, <<Ack>>, DeleteAccount, "ok")
  \/ account("MetaUnregister", 5, u, None, <<Ack>>, <<>>, "fail")
postUserHandler(u) == account("postUser", Mgmt, u, <<Say(Reply("409"))>>, <<>>, <<InsertAccount>>, "ok")
deleteUserHandler(u) == account("deleteUser", Mgmt, u, <<Say(Reply("404"))>>, <<>>, <<DeleteUser>>, "ok")

Accounts(u) ==
  \/ handleRegNewUserV2 \/ handleRegNewUserInfo
  \/ handleMetaUnregister(u) \/ postUserHandler(u) \/ deleteUserHandler(u)

-----------------------------------------------------------------------------
(* The steps of a request, on the row of its user.                         *)

everything == ICQInfo \cup {"weak", "strong"}

\* The request goes on as q; the others learn that fields were written.
goOn(r, q, fields) ==
  reqs' = [i \in DOMAIN reqs |->
    IF i = r THEN q
    ELSE IF reqs[i].uin = q.uin /\ UnderWay(reqs[i])
         THEN [reqs[i] EXCEPT !.stale = @ \cup fields, !.overlapped = @ \cup fields]
         ELSE reqs[i]]

next(q) == [q EXCEPT !.script = Tail(@)]

\* Mutant: an OSCAR client is answered whatever the store said.
goneWrongMild(q) == [q EXCEPT !.script = Tail(@), !.failed = TRUE]

goneWrong(q) == [q EXCEPT !.script = IF q.onError = None THEN Tail(@) ELSE q.onError, !.failed = TRUE]

atStep(r, do) == UnderWay(reqs[r]) /\ Head(reqs[r].script).do = do

ReadRow(r) ==
  LET q == reqs[r]
  IN  /\ atStep(r, "read")
      /\ goOn(r, IF Exists(q.uin) THEN [next(q) EXCEPT !.copy = users[q.uin].profile, !.stale = {}]
                                  ELSE [goneWrong(q) EXCEPT !.copy = None], {})
      /\ UNCHANGED <<users, freed, errors>>

written(r, s, copy, old) ==
  [f \in ICQInfo |-> IF f \in s.fields THEN r
                     ELSE IF f \notin s.part THEN old[f]
                     ELSE IF s.how = "over" \/ copy = None THEN Blank ELSE copy[f]]

WriteRow(r) ==
  LET q == reqs[r]
      s == Head(q.script)
      left == s.how = "kept" /\ q.copy = None
  IN  /\ atStep(r, "write")
      /\ IF left THEN goOn(r, next(q), {}) /\ UNCHANGED users
         ELSE IF ~Exists(q.uin) THEN goOn(r, goneWrong(q), {}) /\ UNCHANGED users
         ELSE /\ users' = [users EXCEPT ![q.uin].profile = written(r, s, q.copy, @)]
              /\ goOn(r, next(q), s.part)
      /\ UNCHANGED <<freed, errors>>

\* Both hashes, in one transaction.
WritePassword(r) ==
  LET q == reqs[r]
  IN  /\ atStep(r, "password")
      /\ IF ~Exists(q.uin) THEN goOn(r, goneWrong(q), {}) /\ UNCHANGED users
         ELSE /\ users' = [users EXCEPT ![q.uin].weak = r, ![q.uin].strong = r]
              /\ goOn(r, next(q), {"weak", "strong"})
      /\ UNCHANGED <<freed, errors>>

DeleteRow(r) ==
  LET q == reqs[r]
  IN  /\ atStep(r, "delete")
      /\ IF ~Exists(q.uin) THEN goOn(r, goneWrong(q), {}) /\ UNCHANGED <<users, freed>>
         ELSE /\ users' = [users EXCEPT ![q.uin] = None]
              /\ freed' = freed \cup {q.uin}
              /\ goOn(r, next(q), everything)
      /\ UNCHANGED errors

\* The first number without a row.
PickUIN(r) ==
  LET q == reqs[r]
      free == {u \in Uins : ~Exists(u)}
  IN  /\ atStep(r, "generate")
      /\ goOn(r, IF free = {} THEN goneWrong(q) ELSE [next(q) EXCEPT !.uin = Min(free)], {})
      /\ UNCHANGED <<users, freed, errors>>

newRow(r) == Row(r, IF "weak" \in Head(reqs[r].script).fields THEN r ELSE None, Blank)

\* Mutant: a row that exists is replaced.
InsertRowOver(r) ==
  LET q == reqs[r]
  IN  /\ atStep(r, "insert")
      /\ users' = [users EXCEPT ![q.uin] = newRow(r)]
      /\ goOn(r, next(q), everything)
      /\ UNCHANGED <<freed, errors>>

\* The profile and, for an account registered by a client, the weak hash are not stored.
InsertRow(r) ==
  LET q == reqs[r]
  IN  /\ atStep(r, "insert")
      /\ IF Exists(q.uin) THEN goOn(r, goneWrong(q), {}) /\ UNCHANGED users
         ELSE /\ users' = [users EXCEPT ![q.uin] = newRow(r)]
              /\ goOn(r, next(q), everything)
      /\ UNCHANGED <<freed, errors>>

SendReply(r) ==
  LET q == reqs[r]
      p == Head(q.script).packets[1]
  IN  /\ atStep(r, "say")
      /\ goOn(r, [next(q) EXCEPT !.told = Append(@, IF p.kind = "new" THEN [p EXCEPT !.uin = q.uin] ELSE p)], {})
      /\ UNCHANGED <<users, freed, errors>>

\* The statement returns an error and does nothing.
StoreFails(r) ==
  LET q == reqs[r]
  IN  /\ UnderWay(q) /\ ~atStep(r, "say")
      /\ errors < MaxErrors /\ errors' = errors + 1
      /\ goOn(r, IF atStep(r, "read") THEN [goneWrong(q) EXCEPT !.copy = None] ELSE goneWrong(q), {})
      /\ UNCHANGED <<users, freed>>

-----------------------------------------------------------------------------
(* Searches and profiles shown.                                            *)

\* What the packets show of the fields they are about.
shown(u, packets) ==
  LET infos == {packets[i] : i \in DOMAIN packets}
  IN  [f \in UNION {p.of : p \in infos} |->
         IF f \in UNION {p.shows : p \in infos} THEN users[u].profile[f] ELSE Blank]

answer(version, packets) == IF version = OSCAR THEN packets ELSE <<Ack>> \o packets

search(handler, version, packets) ==
  Begin(Request("search", handler, version, 0, None, {}, answer(version, packets), <<>>))

info(handler, version, u, packets) ==
  Begin([Request("info", handler, version, u, None, {}, answer(version, packets), <<>>)
           EXCEPT !.seen = IF Exists(u) THEN shown(u, packets) ELSE <<>>])

SearchOldClients(bad, err, u, hits) ==
  LET row == Exists(u)
  IN  \/ info("InfoReq", 2, u, handleInfoReqV2(bad, u))
      \/ (row \/ bad \/ err) /\ info("ExtInfoReq", 2, u, handleExtInfoReqV2(bad, err, u))
      \/ search("SearchUIN", 2, handleSearchUIN(bad, err, u, row))
      \/ search("SearchUser", 2, handleSearchUser(bad, err, hits))
      \/ info("GetInfo", 3, u, handleGetInfoV3(bad, u))
      \/ info("GetNotes", 3, u, handleGetNotes(bad, u))
      \/ search("SearchStart", 3, handleSearchStart(bad, err, u, row))
      \/ info("GetInfo", 4, u, handleGetInfoV4(bad, u))
      \/ info("InfoReq", 4, u, handleInfoReqV4(bad, u))
      \/ info("ExtInfoReq", 4, u, handleExtInfoReqV4(bad, u))
      \/ search("SearchByUIN", 4, handleSearchByUIN(bad, err, u, row))
      \/ search("SearchByName", 4, handleSearchByName)

SearchV5(bad, err, u, hits) ==
  LET row == Exists(u)
  IN  \/ info("MetaLoginInfo", 5, u, handleMetaLoginInfo(err, u, row))
      \/ info("MetaUserFullInfo", 5, u, handleMetaUserFullInfo(bad, err, u, row))
      \/ info("MetaUserFullInfo2", 5, u, handleMetaUserFullInfo2(bad, err, u, row))
      \/ info("MetaUserInfo", 5, u, handleMetaUserInfo(bad, u))
      \/ info("OldInfoReq", 5, u, handleOldInfoReq(bad, u))
      \/ info("OldExtInfoReq", 5, u, handleOldExtInfoReq(bad, err, u, row))
      \/ search("OldSearchUIN", 5, handleOldSearchUIN(bad, err, u, row))
      \/ search("OldSearch", 5, handleOldSearch)
      \/ search("MetaSearchName", 5, handleMetaSearchName(err, hits))
      \/ search("MetaSearchEmail", 5, handleMetaSearchEmail(err, hits))
      \/ search("MetaSearchUIN", 5, handleMetaSearchUIN(bad, u))
      \/ search("MetaSearchWhite", 5, handleMetaSearchWhite(bad, err, hits))
      \/ \E empty \in BOOLEAN : search("MetaSearchWhite2", 5, handleMetaSearchWhite2(bad, empty, err, hits))
      \/ search("DirectWhiteSearch", 5, handleDirectWhiteSearch(bad, err, hits))
      \/ search("DirectNameSearch", 5, handleDirectNameSearch(err, hits))
      \/ search("DirectEmailSearch", 5, handleDirectEmailSearch(err, hits))
      \/ search("DirectUINSearch", 5, handleDirectUINSearch(bad, err, u, row))

SearchOSCAR(bad, err, u, hits) ==
  LET row == Exists(u)
  IN  \/ search("FindByICQName", OSCAR, FindByICQName(err, hits))
      \/ search("FindByICQInterests", OSCAR, FindByICQInterests(err, hits))
      \/ search("FindByICQEmail", OSCAR, FindByICQEmail(err, u, row))
      \/ search("FindByUIN", OSCAR, FindByUIN(err, u, row))
      \/ search("FindByEmail3", OSCAR, FindByEmail3(bad, err, u, row))
      \/ search("FindByUIN2", OSCAR, FindByUIN2(bad, err, u, row))
      \/ search("FindByWhitePages2", OSCAR, FindByWhitePages2(bad, err, hits))
      \/ info("FullUserInfo", OSCAR, u, FullUserInfo(err, u, row))
      \/ info("ShortUserInfo", OSCAR, u, ShortUserInfo(err, u, row))
      \/ search("XMLReqData", OSCAR, XMLReqData)

Search ==
  /\ Len(reqs) < MaxRequests
  /\ \A r \in DOMAIN reqs : ~UnderWay(reqs[r])
  /\ \E bad, err \in BOOLEAN, u \in Uins, hits \in Hits :
       SearchOldClients(bad, err, u, hits) \/ SearchV5(bad, err, u, hits) \/ SearchOSCAR(bad, err, u, hits)

-----------------------------------------------------------------------------
Next ==
  \/ \E u \in Targets : UpdateOldClients(u) \/ UpdateV5(u) \/ UpdateOSCAR(u)
                          \/ putICQProfileHandler(u) \/ putUserPasswordHandler(u)
  \/ \E u \in Targets : Accounts(u)
  \/ \E r \in DOMAIN reqs :
       ReadRow(r) \/ WriteRow(r) \/ WritePassword(r) \/ DeleteRow(r) \/ PickUIN(r) \/ InsertRow(r)
         \/ SendReply(r) \/ StoreFails(r)
  \/ Search

Spec == Init /\ [][Next]_vars

-----------------------------------------------------------------------------
(* Properties.                                                             *)

\* The row, its two hashes among the fields.
value(row, f) == IF f = "weak" THEN row.weak ELSE IF f = "strong" THEN row.strong ELSE row.profile[f]

\* When an update is answered with success, everything it carried is stored, for as long as
\* nobody else wrote it meanwhile; a gateway's handler may have met an error, which it hides.
AcknowledgedIsStored ==
  [][\A r \in DOMAIN reqs :
       LET q == reqs[r]
       IN  /\ q.kind = "update" /\ atStep(r, "say")
           /\ Len(reqs'[r].told) > Len(q.told) /\ Last(reqs'[r].told).kind = "ok"
           /\ (q.failed => q.onError # None)
           => \A f \in q.carries \ q.overlapped : Exists(q.uin) /\ value(users[q.uin], f) = r]_vars

\* A number a client was told is its own account's, until the account is deleted
\* (service.go:600 looks for a free number and inserts the row later).
NoSharedAccount ==
  \A r \in DOMAIN reqs : \A i \in DOMAIN reqs[r].told :
    LET p == reqs[r].told[i]
    IN  p.kind = "new" /\ p.uin \notin freed => Exists(p.uin) /\ users[p.uin].owner = r

\* What a profile packet leaves blank though the version's clients can set it.
NotShown(q) ==
  CASE q.version = 2 -> {"auth", "phone"}
    [] q.version = 3 -> {"home", "office", "workWeb", "birth", "langs"}
    [] q.version = 5 /\ q.handler \in {"MetaUserInfo", "OldInfoReq"} -> {"auth"}
    [] q.version = 5 /\ q.handler \notin {"MetaUserInfo", "OldInfoReq"} ->
         Work \cup Affiliations \cup {"interests", "hpcat", "notes"}
    [] q.version = OSCAR -> {"hpcat"}
    [] OTHER -> {}

\* Who looks a user up with the client the profile was set with sees what was set.
SeenAsSet ==
  \A p, q \in DOMAIN reqs :
    LET set == reqs[p] seen == reqs[q].seen
    IN  /\ p < q /\ reqs[q].kind = "info" /\ reqs[q].version = set.version /\ reqs[q].uin = set.uin
        /\ set.kind = "update" /\ ~set.failed /\ Last(set.told).kind = "ok"
        /\ \A o \in (DOMAIN reqs) \ {p, q} : reqs[o].uin # set.uin
        => \A f \in (set.carries \cap DOMAIN seen) \ NotShown(reqs[q]) : seen[f] = p

\* Not so, as the code stands: an account registered by a client has the hash its first
\* sign-on needs (service.go:583 stores one of the two).
RegisteredCanSignOn == \A u \in Uins : Exists(u) => users[u].weak # None
=============================================================================
