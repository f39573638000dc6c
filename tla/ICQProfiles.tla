---------------------------- MODULE ICQProfiles ----------------------------
(***************************************************************************)
(* How the ICQ directory is written.  A profile belongs to a row of the     *)
(* users table; the services of OSCAR clients (foodgroup/icq.go), the        *)
(* handlers of the legacy gateway (server/icq_legacy) and the management API *)
(* write it, a group of columns at a time.  A request sets some fields, the  *)
(* statement writes the whole group: the other fields of the group come from *)
(* a copy of the row read before, or are blank where the handler has none.   *)
(*                                                                         *)
(* A handler is a script: a sequence of steps, each of which is one         *)
(* statement of the store or one packet.  Directory runs the scripts.       *)
(***************************************************************************)
EXTENDS Integers, Sequences, FiniteSets

CONSTANT None

-----------------------------------------------------------------------------
(* The fields, as far as handlers tell them apart.  A value is the request   *)
(* that wrote it: Before is what was there at the start.                     *)

Before == 0
Blank == -1

\* place: city, state, country; home: address, fax, cell phone, zip code, time zone
Basic == {"names", "email", "place", "phone", "home", "publish"}
More == {"gender", "homepage", "birth", "langs"}
\* role: department and occupation
Work == {"office", "workWeb", "role"}
Affiliations == {"affPast", "affCurrent"}
Permissions == {"auth", "webAware", "spam"}
ICQInfo == Basic \cup More \cup Work \cup Affiliations \cup Permissions
             \cup {"origin", "notes", "interests", "hpcat"}

-----------------------------------------------------------------------------
(* Packets: last says that nothing follows in the answer; of is what a       *)
(* packet of the profile is about, and shows the part of it that it carries. *)

Packet(kind, last, uin, of, shows) ==
  [kind |-> kind, last |-> last, uin |-> uin, of |-> of, shows |-> shows]

Ack == Packet("ack", FALSE, 0, {}, {})
Reply(kind) == Packet(kind, TRUE, 0, {}, {})

-----------------------------------------------------------------------------
(* Steps.  how says where the other fields of a group come from:            *)
(*   over   nowhere: the handler fills a new structure                      *)
(*   kept   the copy; without one the handler leaves the statement out      *)
(*   any    the copy, or a new structure if there is none                   *)

Step(do, how, part, fields, packets) ==
  [do |-> do, how |-> how, part |-> part, fields |-> fields, packets |-> packets]

Write(how, part, fields) == Step("write", how, part, fields, <<>>)
Say(packet) == Step("say", "", {}, {}, <<packet>>)

\* The statements of user_store.go.
User == Step("read", "", {}, {}, <<>>)
SetBasicInfo(how, fields) == Write(how, Basic, fields)
SetMoreInfo(how, fields) == Write(how, More, fields)
SetWorkInfo(how, fields) == Write(how, Work, fields)
SetUserNotes == Write("over", {"notes"}, {"notes"})
SetInterests == Write("over", {"interests"}, {"interests"})
SetAffiliations == Write("over", Affiliations, Affiliations)
SetPermissions(how, fields) == Write(how, Permissions, fields)
SetHomepageCategory == Write("over", {"hpcat"}, {"hpcat"})
SetICQInfo(fields) == Write("kept", ICQInfo, fields)
SetUserPassword == Step("password", "", {}, {}, <<>>)
DeleteUser == Step("delete", "", {}, {}, <<>>)
InsertUser == Step("insert", "", {}, {"strong"}, <<>>)
InsertAccount == Step("insert", "", {}, {"weak", "strong"}, <<>>)
generateNewUIN == Step("generate", "", {}, {}, <<>>)

\* ICQLegacyService, whose callers log an error and go on.
UpdateBasicInfo(how, fields) == <<SetBasicInfo(how, fields)>>
UpdateMoreInfo(how, fields) == <<SetMoreInfo(how, fields)>>
UpdateWorkInfo(how, fields) == <<SetWorkInfo(how, fields)>>
UpdatePermissions(fields) == <<SetPermissions("over", fields)>>
SetNotes == <<SetUserNotes>>
SetInterestsOf == <<SetInterests>>
SetAffiliationsOf == <<SetAffiliations>>
SetHomepageCategoryOf == <<SetHomepageCategory>>
GetFullUserInfo == <<User>>
SetAuthMode == <<User, SetPermissions("kept", {"auth"})>>
SetPassword == <<SetUserPassword>>
RegisterNewUser == <<generateNewUIN, InsertUser>>
ValidateCredentials == <<User>>
DeleteAccount == ValidateCredentials \o <<DeleteUser>>
=============================================================================
