---------------------------- MODULE ICQSearches ----------------------------
(***************************************************************************)
(* What the ICQ directory answers.  Every protocol has handlers of its own   *)
(* for looking a user up by number, name, email address or a list of         *)
(* criteria, and for showing a profile.  An operator gives the packets a      *)
(* handler sends: bad is a request too short or without criteria, err an     *)
(* error of the store, hits the users found, in the order of the rows; u is   *)
(* the user asked for and row tells whether the user exists.                  *)
(***************************************************************************)
EXTENDS ICQProfiles, SequencesExt

CONSTANT maxResults   \* of a white pages search

-----------------------------------------------------------------------------
(* Packets.                                                                *)

\* Nothing of a profile is shown but what of \ hidden says.
Info(kind, u, of, hidden) == Packet(kind, FALSE, u, of, of \ hidden)

Found(u) == Packet("found", FALSE, u, {}, {})
LastFound(u) == Packet("found", TRUE, u, {}, {})
MoreFound(u) == Packet("found, more", TRUE, u, {}, {})

sendSearchEndV2 == Reply("end")
sendSearchDone == Reply("end")
sendSearchEndV4 == Reply("end")
sendV5OldSearchEnd == Reply("end")
sendMetaWhiteSearchEnd(ok) == Reply(IF ok THEN "end" ELSE "fail")
sendMetaFail == Reply("fail")
reportSearchFailure == Reply("fail")
reportNoSearchResults == Reply("end")

sendSearchResultV2(u, isLast) == IF isLast THEN LastFound(u) ELSE Found(u)
sendSearchFoundV3(u) == Found(u)
sendSearchFoundV4(u) == Found(u)
sendV5OldSearchFound(u) == Found(u)
\* A failure carries no user.
BuildSearchResult(hits, i) == IF hits = <<>> THEN Reply("fail") ELSE IF i = Len(hits) THEN LastFound(hits[i]) ELSE Found(hits[i])
replySearchHit(u, isLast) == IF isLast THEN LastFound(u) ELSE Found(u)
sendMetaWhiteFound(u, isLast, more) ==
  IF ~isLast THEN Found(u) ELSE IF more THEN MoreFound(u) ELSE LastFound(u)
sendMetaWhiteSearchResult2(u, isLast, more) ==
  IF ~isLast THEN Found(u) ELSE IF more THEN MoreFound(u) ELSE LastFound(u)

plainly(hits, P(_)) == [i \in DOMAIN hits |-> P(hits[i])]

-----------------------------------------------------------------------------
(* The service.  Its functions return nobody where a user is not found; an   *)
(* error of the email lookup alone is swallowed.                             *)

SearchByUIN(u, row, err) == IF row /\ ~err THEN <<u>> ELSE <<>>
SearchByName(hits, err) == IF err THEN <<>> ELSE hits
FirstHits(hits) == SubSeq(hits, 1, IF Len(hits) < maxResults THEN Len(hits) ELSE maxResults)

-----------------------------------------------------------------------------
(* Versions 1 and 2.                                                       *)

\* A user who is not found is made up from the number.
handleInfoReqV2(bad, u) == IF bad THEN <<>> ELSE <<Info("info", u, {"names", "email", "auth"}, {"auth"})>>

\* The phone sent is the cell phone.  A user that does not exist is dereferenced (README, section 6).
handleExtInfoReqV2(bad, err, u) ==
  IF bad \/ err THEN <<>>
  ELSE <<Info("extinfo", u, {"place", "phone", "gender", "homepage", "notes", "birth"}, {"phone"})>>

handleSearchUIN(bad, err, u, row) ==
  plainly(SearchByUIN(u, row, err \/ bad), sendSearchFoundV3) \o <<sendSearchEndV2>>

handleSearchUser(bad, err, hits) ==
  IF bad \/ SearchByName(hits, err) = <<>> THEN <<sendSearchEndV2>> ELSE [i \in DOMAIN hits |-> sendSearchResultV2(hits[i], i = Len(hits))]

-----------------------------------------------------------------------------
(* Version 3.                                                              *)

BuildBasicInfo(u) == Info("basic", u, {"names", "email", "auth"}, {})
BuildHomeInfo(u) == Info("home", u, {"place", "phone", "home", "gender"}, {"home"})
BuildHomeWeb(u) == Info("homeweb", u, {"homepage", "birth", "langs"}, {"birth", "langs"})
BuildWorkInfo(u) == Info("work", u, {"office"}, {"office"})   \* company and position only
BuildWorkWeb(u) == Info("workweb", u, {"workWeb"}, {"workWeb"})

handleGetInfoV3(bad, u) ==
  IF bad THEN <<>>
  ELSE <<BuildBasicInfo(u), BuildHomeInfo(u), BuildHomeWeb(u), BuildWorkInfo(u), BuildWorkWeb(u)>>

sendNotes(u) == Info("notes", u, {"notes"}, {})
handleGetNotes(bad, u) == <<sendNotes(u)>>

\* Only the number is searched for.
handleSearchStart(bad, err, u, row) ==
  plainly(SearchByUIN(u, row, err \/ bad), sendSearchFoundV3) \o <<sendSearchDone>>

-----------------------------------------------------------------------------
(* Version 4.                                                              *)

sendBasicInfo(u) == Info("basic", u, {}, {})
sendBasicInfoResponse(u) == Info("info", u, {"names", "email"}, {})

\* Mutant: the cell phone's number where the phone's belongs, as in version 2.
sendExtInfoResponseCell(u) ==
  Info("extinfo", u, {"place", "phone", "gender", "birth", "homepage", "notes"}, {"phone"})

sendExtInfoResponse(u) ==
  Info("extinfo", u, {"place", "phone", "gender", "birth", "homepage", "notes"}, {})

handleGetInfoV4(bad, u) == IF bad THEN <<>> ELSE <<sendBasicInfo(u)>>
handleInfoReqV4(bad, u) == IF bad THEN <<>> ELSE <<sendBasicInfoResponse(u)>>
handleExtInfoReqV4(bad, u) == IF bad THEN <<>> ELSE <<sendExtInfoResponse(u)>>

handleSearchByUIN(bad, err, u, row) ==
  plainly(SearchByUIN(u, row, err \/ bad), sendSearchFoundV4) \o <<sendSearchEndV4>>

\* Not implemented: nobody is found.
handleSearchByName == <<sendSearchEndV4>>

-----------------------------------------------------------------------------
(* Version 5: packets of its own and the meta requests.  What is built from   *)
(* a search result (GetUserInfo) has blanks for all that the result lacks.    *)

sendMetaInfo3(u) == Info("basic", u, Basic \cup {"auth"}, {})
sendMetaMore(u) == Info("more", u, More, {})
sendMetaMore2(u) == Info("more", u, More, {})
sendMetaHpageCat(u) == Info("hpcat", u, {"hpcat"}, {"hpcat"})
sendMetaWork(u) == Info("work", u, Work, Work)
sendMetaWork2(u) == Info("work", u, Work, Work)
sendMetaAbout(u) == Info("about", u, {"notes"}, {"notes"})
sendMetaInterests(u) == Info("interests", u, {"interests"}, {"interests"})
sendMetaAffiliations(u) == Info("affiliations", u, Affiliations, Affiliations)
sendMetaFullUserInfo(u) == Info("basic", u, {"names", "email"}, {})
sendMetaUserInfo(u) == Packet("user", TRUE, u, {"names", "email", "gender", "auth"}, {"names", "email", "gender"})
sendV5OldStyleInfo(u) == Info("info", u, {"names", "email", "auth"}, {"auth"})
sendV5OldStyleInfoExt(u) ==
  Info("extinfo", u, {"place", "phone", "gender", "homepage", "notes", "birth"}, {})
sendV5InvalidUIN == Reply("invalid")

\* The parts that follow the first one.
rest(u) == <<sendMetaAbout(u), sendMetaInterests(u), sendMetaAffiliations(u)>>

handleMetaLoginInfo(err, u, row) ==
  IF err \/ ~row THEN <<sendMetaFail>>
  ELSE <<sendMetaInfo3(u), sendMetaMore2(u), sendMetaHpageCat(u), sendMetaWork2(u)>> \o rest(u)

handleMetaUserFullInfo(bad, err, u, row) ==
  IF bad \/ err \/ ~row THEN <<sendMetaFail>>
  ELSE <<sendMetaFullUserInfo(u), sendMetaMore(u), sendMetaHpageCat(u), sendMetaWork(u)>> \o rest(u)

handleMetaUserFullInfo2(bad, err, u, row) ==
  IF bad \/ err \/ ~row THEN <<sendMetaFail>>
  ELSE <<sendMetaInfo3(u), sendMetaMore2(u), sendMetaHpageCat(u), sendMetaWork2(u)>> \o rest(u)

handleMetaUserInfo(bad, u) == IF bad THEN <<sendMetaFail>> ELSE <<sendMetaUserInfo(u)>>

handleOldInfoReq(bad, u) == IF bad THEN <<>> ELSE <<sendV5OldStyleInfo(u)>>
handleOldExtInfoReq(bad, err, u, row) ==
  IF bad THEN <<>> ELSE IF err \/ ~row THEN <<sendV5InvalidUIN>> ELSE <<sendV5OldStyleInfoExt(u)>>

handleOldSearchUIN(bad, err, u, row) ==
  plainly(SearchByUIN(u, row, err \/ bad), sendV5OldSearchFound) \o <<sendV5OldSearchEnd>>
handleOldSearch == <<sendV5OldSearchEnd>>

metaResults(hits) ==
  IF hits = <<>> THEN <<BuildSearchResult(<<>>, 0)>> ELSE [i \in DOMAIN hits |-> BuildSearchResult(hits, i)]

handleMetaSearchName(err, hits) == metaResults(SearchByName(hits, err))
handleMetaSearchEmail(err, hits) == metaResults(SearchByName(hits, err))
\* GetUserInfoForProtocol makes a user up who does not exist.
handleMetaSearchUIN(bad, u) == metaResults(IF bad THEN <<>> ELSE <<u>>)

\* With neither a name nor an email address the search fails, whatever else was given.
handleMetaSearchWhite(bad, err, hits) ==
  IF bad \/ err \/ hits = <<>> THEN <<sendMetaWhiteSearchEnd(FALSE)>>
  ELSE LET found == FirstHits(hits)
       IN  [i \in DOMAIN found |-> sendMetaWhiteFound(found[i], i = Len(found), Len(found) >= maxResults)]

\* Without any criterion the search ends well.
handleMetaSearchWhite2(bad, empty, err, hits) ==
  IF empty THEN <<sendMetaWhiteSearchEnd(TRUE)>>
  ELSE IF bad \/ err \/ hits = <<>> THEN <<sendMetaWhiteSearchEnd(FALSE)>>
  ELSE LET found == FirstHits(hits)
       IN  [i \in DOMAIN found |-> sendMetaWhiteSearchResult2(found[i], i = Len(found), Len(found) >= maxResults)]

handleDirectWhiteSearch(bad, err, hits) == handleMetaSearchWhite(bad, err, hits)
handleDirectNameSearch(err, hits) ==
  plainly(SearchByName(hits, err), sendV5OldSearchFound) \o <<sendV5OldSearchEnd>>
handleDirectEmailSearch(err, hits) ==
  plainly(SearchByName(hits, err), sendV5OldSearchFound) \o <<sendV5OldSearchEnd>>

handleDirectUINSearch(bad, err, u, row) ==
  plainly(SearchByUIN(u, row, err \/ bad), sendV5OldSearchFound) \o <<sendV5OldSearchEnd>>

-----------------------------------------------------------------------------
(* OSCAR clients.  Each packet goes to all instances of the user.          *)

results(err, hits) ==
  IF err THEN <<reportSearchFailure>>
  ELSE IF hits = <<>> THEN <<reportNoSearchResults>>
  ELSE [i \in DOMAIN hits |-> replySearchHit(hits[i], i = Len(hits))]

FindByICQName(err, hits) == results(err, hits)
FindByICQInterests(err, hits) == results(err, hits)
FindByICQEmail(err, u, row) == results(err, SearchByUIN(u, row, err))
FindByUIN(err, u, row) == results(err, SearchByUIN(u, row, err))
\* Without the TLV that names the user there is no answer.
FindByEmail3(bad, err, u, row) == IF bad THEN <<>> ELSE results(err, SearchByUIN(u, row, err))
FindByUIN2(bad, err, u, row) == IF bad THEN <<>> ELSE results(err, SearchByUIN(u, row, err))
\* hits are those who are signed on, if the search asks for them.
FindByWhitePages2(bad, err, hits) == IF bad THEN <<>> ELSE results(err, hits)

userInfo(u) == Info("basic", u, Basic \cup {"auth", "webAware"}, {})
moreUserInfo(u) == Info("more", u, More \cup {"place"}, {})
extraEmails(u) == Info("emails", u, {}, {})
homepageCat(u) == Info("hpcat", u, {"hpcat"}, {"hpcat"})
workInfo(u) == Info("work", u, Work, {})
notes(u) == Info("notes", u, {"notes"}, {})
interests(u) == Info("interests", u, {"interests"}, {})
affiliations(u) == Packet("affiliations", TRUE, u, Affiliations, Affiliations)

\* An error of the store, or an unknown user, ends the request without an answer.
FullUserInfo(err, u, row) ==
  IF err \/ ~row THEN <<>>
  ELSE <<userInfo(u), moreUserInfo(u), extraEmails(u), homepageCat(u), workInfo(u), notes(u),
         interests(u), affiliations(u)>>

ShortUserInfo(err, u, row) ==
  IF err THEN <<>> ELSE IF ~row THEN <<Reply("fail")>>
  ELSE <<Packet("short", TRUE, u, {"names", "email", "auth"}, {"names", "email", "auth"})>>
XMLReqData == <<Packet("xml", TRUE, 0, {}, {})>>
=============================================================================
