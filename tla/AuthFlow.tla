------------------------------ MODULE AuthFlow ------------------------------
(***************************************************************************)
(* How a Discord user is linked to a character of EVE Online.              *)
(*                                                                         *)
(* A web request of the owner stores alliance, corporation and character   *)
(* and hands out a code (auth.Create); the command !auth with that code    *)
(* links the sender to the character and puts the sender into the filters  *)
(* of corporation and alliance (auth.Confirm); the hourly poller creates   *)
(* roles for stored alliances and corporations, drops the links of users   *)
(* who left the guild, and deletes characters nobody is linked to.  None   *)
(* of them uses a transaction: every SQL statement is a step.              *)
(*                                                                         *)
(* A corporation or alliance and its ticker are one value: the names of    *)
(* its role and of the role's default filter.                              *)
(***************************************************************************)
EXTENDS Integers, FiniteSets

CONSTANTS
  User, Char, Corp, Alliance,
  None,       \* no alliance
  CorpOf,     \* the corporation ESI reports of a character
  AllianceOf, \* the alliance ESI reports of a corporation, or None
  Known,      \* the corporations stored, with their roles, at the start
  Web, Bot,   \* goroutines of web requests, and of the !auth command
  Faults,     \* the failures that occur
  MaxCodes,   \* bound: codes issued for a character
  MaxFailures,\* bound: database errors and crashes in a behaviour
  MaxLeaves   \* bound: users leaving the guild in a behaviour

Ticker == Corp \cup Alliance

ASSUME AuthConstants ==
  /\ None \notin Alliance /\ Corp \cap Alliance = {}
  /\ CorpOf \in [Char -> Corp] /\ AllianceOf \in [Corp -> Alliance \cup {None}]
  /\ Known \subseteq Corp /\ Faults \subseteq {"db", "crash"}
  /\ MaxCodes \in Nat /\ MaxFailures \in Nat /\ MaxLeaves \in Nat

VARIABLES
  alliances, corps, chars,  \* rows of the tables of these names
  codes,                    \* authentication_codes
  linked,                   \* user_character_map
  roles,                    \* roles that exist, each with its default filter
  member,                   \* filter_membership
  guild,                    \* the users who are in the guild
  web, bot, poll, left,     \* the process
  failures, leaves          \* bounds

entities == <<alliances, corps, chars>>
tables   == <<entities, codes, linked, roles, member>>
process  == <<web, bot, poll, left>>
bounds   == <<failures, leaves>>
vars     == <<tables, guild, process, bounds>>

-----------------------------------------------------------------------------
(* Types.  A code that was never handed out is new, a row of the table is  *)
(* open or used, and a code is gone once its row is deleted.               *)

Code    == Char \X (1..MaxCodes)
NoReq   == [pc |-> "idle"]
WebPc   == {"alliance", "allianceRole", "corp", "corpRole", "char", "code"}
BotPc   == {"char", "burn", "link", "corp", "ally"}
WebState  == {NoReq} \cup [pc : WebPc, ch : Char]
BotState  == {NoReq} \cup [pc : BotPc, u : User, k : Code]
PollState == [pc : {"idle", "list", "next"}] \cup [pc : {"check", "codes", "row"}, ch : Char]

HasRow(k)  == codes[k] \in {"open", "used"}
Owners(ch) == {u \in User : <<u, ch>> \in linked}
HomeOf(ch) == AllianceOf[CorpOf[ch]]

TypeOK ==
  /\ alliances \subseteq Alliance /\ corps \subseteq Corp /\ chars \subseteq Char
  /\ codes \in [Code -> {"new", "open", "used", "gone"}]
  /\ linked \subseteq User \X Char
  /\ roles \subseteq Ticker /\ member \in [Ticker -> SUBSET User]
  /\ guild \subseteq User
  /\ web \in [Web -> WebState] /\ bot \in [Bot -> BotState]
  /\ poll \in PollState /\ left \subseteq Char
  /\ failures \in 0..MaxFailures /\ leaves \in 0..MaxLeaves
  \* the foreign keys
  /\ \A ch \in chars : CorpOf[ch] \in corps
  /\ \A k \in Code : HasRow(k) => k[1] \in chars
  /\ \A u \in User, ch \in Char : <<u, ch>> \in linked => ch \in chars

Init ==
  /\ corps = Known /\ alliances = {AllianceOf[c] : c \in Known} \ {None}
  /\ roles = corps \cup alliances
  /\ chars = {} /\ codes = [k \in Code |-> "new"] /\ linked = {}
  /\ member = [t \in Ticker |-> {}]
  /\ guild = User
  /\ web = [w \in Web |-> NoReq] /\ bot = [b \in Bot |-> NoReq]
  /\ poll = NoReq /\ left = {}
  /\ failures = 0 /\ leaves = 0

-----------------------------------------------------------------------------
(* The web request: doAuth asks ESI and calls auth.Create.                 *)

GoWeb(w, pc) == web' = [web EXCEPT ![w].pc = pc]
EndWeb(w)    == web' = [web EXCEPT ![w] = NoReq]
WebRest      == UNCHANGED <<linked, member, guild, bot, poll, left, bounds>>

New(ch) == {i \in 1..MaxCodes : codes[<<ch, i>>] = "new"}

\* doAuth: the state of the session matches, SSO and ESI have answered.
Login(w, ch) ==
  /\ web[w] = NoReq
  /\ Cardinality({v \in Web : web[v] # NoReq /\ web[v].ch = ch}) < Cardinality(New(ch))
  /\ web' = [web EXCEPT ![w] =
       [pc |-> IF HomeOf(ch) = None THEN "corp" ELSE "alliance", ch |-> ch]]
  /\ UNCHANGED <<entities, codes, roles>> /\ WebRest

\* The alliance is stored unless it is known.
StoreAlliance(w) ==
  /\ web[w].pc = "alliance"
  /\ alliances' = alliances \cup {HomeOf(web[w].ch)}
  /\ GoWeb(w, "allianceRole")
  /\ UNCHANGED <<corps, chars, codes, roles>> /\ WebRest

\* GetRoleByType answers with an error when there is no role, which ends the
\* request; the call of roles.Add after it only meets roles that exist.
AllianceRole(w) ==
  /\ web[w].pc = "allianceRole"
  /\ IF HomeOf(web[w].ch) \in roles THEN GoWeb(w, "corp") ELSE EndWeb(w)
  /\ UNCHANGED <<entities, codes, roles>> /\ WebRest

\* The corporation is stored unless it is known.  The alliance's id is read
\* without asking whether there is an alliance: the request panics.
StoreCorp(w) ==
  /\ web[w].pc = "corp"
  /\ LET c == CorpOf[web[w].ch]
     IN  IF c \notin corps /\ AllianceOf[c] = None
         THEN EndWeb(w) /\ UNCHANGED corps
         ELSE corps' = corps \cup {c} /\ GoWeb(w, "corpRole")
  /\ UNCHANGED <<alliances, chars, codes, roles>> /\ WebRest

CorpRole(w) ==
  /\ web[w].pc = "corpRole"
  /\ IF CorpOf[web[w].ch] \in roles THEN GoWeb(w, "char") ELSE EndWeb(w)
  /\ UNCHANGED <<entities, codes, roles>> /\ WebRest

\* UpsertCharacter drops the error of its statement, so that a foreign key
\* the corporation's row does not satisfy goes unnoticed.
StoreChar(w) ==
  /\ web[w].pc = "char"
  /\ chars' = IF CorpOf[web[w].ch] \in corps THEN chars \cup {web[w].ch} ELSE chars
  /\ GoWeb(w, "code")
  /\ UNCHANGED <<alliances, corps, codes, roles>> /\ WebRest

\* A random code is inserted and shown to the owner.
IssueCode(w) ==
  /\ web[w].pc = "code" /\ web[w].ch \in chars
  /\ \E i \in New(web[w].ch) :
       /\ \A j \in New(web[w].ch) : i <= j
       /\ codes' = [codes EXCEPT ![<<web[w].ch, i>>] = "open"]
  /\ EndWeb(w)
  /\ UNCHANGED <<entities, roles>> /\ WebRest

\* The character is not (or no longer) stored: the foreign key fails.
CodeRefused(w) ==
  /\ web[w].pc = "code" /\ web[w].ch \notin chars
  /\ EndWeb(w)
  /\ UNCHANGED <<entities, codes, roles>> /\ WebRest

-----------------------------------------------------------------------------
(* The command !auth: auth.Confirm.                                        *)

GoBot(b, pc) == bot' = [bot EXCEPT ![b].pc = pc]
EndBot(b)    == bot' = [bot EXCEPT ![b] = NoReq]
BotRest      == UNCHANGED <<entities, roles, guild, web, poll, left, bounds>>

BotUser(b) == bot[b].u
BotChar(b) == bot[b].k[1]

\* GetAuthCode: an unknown or used code ends the command at once.
Confirm(b, u, k) ==
  /\ bot[b] = NoReq /\ u \in guild /\ codes[k] = "open"
  /\ bot' = [bot EXCEPT ![b] = [pc |-> "char", u |-> u, k |-> k]]
  /\ UNCHANGED <<codes, linked, member>> /\ BotRest

\* Mutant: the link is made before the code is marked.
FindCharUnburnt(b) ==
  /\ bot[b].pc = "char"
  /\ IF BotChar(b) \in chars THEN GoBot(b, "link") ELSE EndBot(b)
  /\ UNCHANGED <<codes, linked, member>> /\ BotRest

\* GetCharacter
FindChar(b) ==
  /\ bot[b].pc = "char"
  /\ IF BotChar(b) \in chars THEN GoBot(b, "burn") ELSE EndBot(b)
  /\ UNCHANGED <<codes, linked, member>> /\ BotRest

\* UpdateAuthCode marks the code, whatever its row says by now.
Burn(b) ==
  /\ bot[b].pc = "burn"
  /\ codes' = IF HasRow(bot[b].k) THEN [codes EXCEPT ![bot[b].k] = "used"] ELSE codes
  /\ GoBot(b, "link")
  /\ UNCHANGED <<linked, member>> /\ BotRest

\* Mutant: members of alliances are put into the alliance's filter alone.
LinkAllianceOnly(b) ==
  /\ bot[b].pc = "link"
  /\ LET pair == <<BotUser(b), BotChar(b)>>
     IN  IF BotChar(b) \in chars /\ pair \notin linked
         THEN /\ linked' = linked \cup {pair}
              /\ GoBot(b, IF HomeOf(BotChar(b)) = None THEN "corp" ELSE "ally")
         ELSE EndBot(b) /\ UNCHANGED linked
  /\ UNCHANGED <<codes, member>> /\ BotRest

\* InsertUserCharacterMap: a pair that is there already, or a character
\* deleted meanwhile, ends the command.
Link(b) ==
  /\ bot[b].pc = "link"
  /\ LET pair == <<BotUser(b), BotChar(b)>>
     IN  IF BotChar(b) \in chars /\ pair \notin linked
         THEN linked' = linked \cup {pair} /\ GoBot(b, "corp")
         ELSE EndBot(b) /\ UNCHANGED linked
  /\ UNCHANGED <<codes, member>> /\ BotRest

\* filters.AddMember: without the filter it answers with an error, which
\* nobody looks at.
Joins(u, t) ==
  member' = IF t \in roles THEN [member EXCEPT ![t] = @ \cup {u}] ELSE member

JoinCorp(b) ==
  /\ bot[b].pc = "corp"
  /\ Joins(BotUser(b), CorpOf[BotChar(b)])
  /\ IF HomeOf(BotChar(b)) = None THEN EndBot(b) ELSE GoBot(b, "ally")
  /\ UNCHANGED <<codes, linked>> /\ BotRest

JoinAlliance(b) ==
  /\ bot[b].pc = "ally"
  /\ Joins(BotUser(b), HomeOf(BotChar(b)))
  /\ EndBot(b)
  /\ UNCHANGED <<codes, linked>> /\ BotRest

-----------------------------------------------------------------------------
(* The poller.                                                             *)

PollRest == UNCHANGED <<entities, member, guild, web, bot, bounds>>

\* Mutant: only corporations get roles.
PollRolesOfCorps ==
  /\ poll.pc = "idle"
  /\ roles' = roles \cup corps
  /\ poll' = [pc |-> "list"]
  /\ UNCHANGED <<codes, linked, left>> /\ PollRest

\* updateAlliances, updateCorporations: roles for stored rows without one.
PollRoles ==
  /\ poll.pc = "idle"
  /\ roles' = roles \cup alliances \cup corps
  /\ poll' = [pc |-> "list"]
  /\ UNCHANGED <<codes, linked, left>> /\ PollRest

\* updateCharacters: GetCharacters
PollList ==
  /\ poll.pc = "list"
  /\ left' = chars /\ poll' = [pc |-> "next"]
  /\ UNCHANGED <<codes, linked, roles>> /\ PollRest

\* updateCharacter: GetDiscordUser, then the member is asked for.  The user
\* of a character is any of those linked to it.
PollVisit(ch) ==
  /\ poll.pc = "next" /\ ch \in left
  /\ left' = left \ {ch}
  /\ \/ /\ Owners(ch) = {}
        /\ poll' = [pc |-> "check", ch |-> ch] /\ UNCHANGED linked
     \/ /\ Owners(ch) \cap guild # {}
        /\ UNCHANGED <<poll, linked>>
     \* 404: DeleteDiscordUser deletes the links first, finds no characters
     \* any more, and deletes nothing else.
     \/ \E u \in Owners(ch) \ guild :
          linked' = {p \in linked : p[1] # u} /\ UNCHANGED poll
  /\ UNCHANGED <<codes, roles>> /\ PollRest

\* updateCharacter has failed: is there still no user?
PollCheck ==
  /\ poll.pc = "check"
  /\ poll' = IF Owners(poll.ch) = {} THEN [poll EXCEPT !.pc = "codes"] ELSE [pc |-> "next"]
  /\ UNCHANGED <<codes, linked, roles, left>> /\ PollRest

\* Mutant: the codes stay.
PollKeepCodes ==
  /\ poll.pc = "codes"
  /\ poll' = [poll EXCEPT !.pc = "row"]
  /\ UNCHANGED <<codes, linked, roles, left>> /\ PollRest

\* DeleteCharacter: DeleteAuthCodes, then the row itself.
PollDropCodes ==
  /\ poll.pc = "codes"
  /\ codes' = [k \in Code |-> IF k[1] = poll.ch /\ HasRow(k) THEN "gone" ELSE codes[k]]
  /\ poll' = [poll EXCEPT !.pc = "row"]
  /\ UNCHANGED <<linked, roles, left>> /\ PollRest

\* Mutant: no foreign key from user_character_map to characters.
PollDropRowLinked ==
  /\ poll.pc = "row"
  /\ chars' = IF \A k \in Code : k[1] = poll.ch => ~HasRow(k) THEN chars \ {poll.ch} ELSE chars
  /\ poll' = [pc |-> "next"]
  /\ UNCHANGED <<alliances, corps, codes, linked, roles, member, guild, web, bot, left, bounds>>

PollDropRow ==
  /\ poll.pc = "row"
  /\ chars' = IF Owners(poll.ch) = {} /\ \A k \in Code : k[1] = poll.ch => ~HasRow(k)
              THEN chars \ {poll.ch} ELSE chars
  /\ poll' = [pc |-> "next"]
  /\ UNCHANGED <<alliances, corps, codes, linked, roles, member, guild, web, bot, left, bounds>>

PollEnd ==
  /\ poll.pc = "next" /\ left = {}
  /\ poll' = NoReq
  /\ UNCHANGED <<codes, linked, roles, left>> /\ PollRest

-----------------------------------------------------------------------------
(* What goes wrong.                                                        *)

Fails(kind) == kind \in Faults /\ failures < MaxFailures /\ failures' = failures + 1

\* A statement of the request fails and ends it.
WebFails(w) ==
  /\ web[w] # NoReq /\ Fails("db") /\ EndWeb(w)
  /\ UNCHANGED <<tables, guild, bot, poll, left, leaves>>

\* The errors of UpsertCorporation and UpsertCharacter end nothing.
WriteLost(w) ==
  /\ web[w].pc \in {"corp", "char"} /\ Fails("db")
  /\ web[w].pc = "corp" => HomeOf(web[w].ch) # None
  /\ GoWeb(w, IF web[w].pc = "corp" THEN "corpRole" ELSE "code")
  /\ UNCHANGED <<tables, guild, bot, poll, left, leaves>>

\* A statement of the command fails and ends it; AddMember's errors do not.
BotFails(b) ==
  /\ bot[b] # NoReq /\ Fails("db")
  /\ IF bot[b].pc = "corp" /\ HomeOf(BotChar(b)) # None
     THEN EndBot(b) \/ GoBot(b, "ally") ELSE EndBot(b)
  /\ UNCHANGED <<tables, guild, web, poll, left, leaves>>

PollFails ==
  /\ poll.pc \in {"list", "check", "codes", "row"} /\ Fails("db")
  /\ poll' = IF poll.pc = "list" THEN NoReq ELSE [pc |-> "next"]
  /\ UNCHANGED <<tables, guild, web, bot, left, leaves>>

\* The process is restarted.
Crash ==
  /\ Fails("crash")
  /\ web' = [w \in Web |-> NoReq] /\ bot' = [b \in Bot |-> NoReq]
  /\ poll' = NoReq /\ left' = {}
  /\ UNCHANGED <<tables, guild, leaves>>

Leave(u) ==
  /\ u \in guild /\ leaves < MaxLeaves
  /\ guild' = guild \ {u} /\ leaves' = leaves + 1
  /\ UNCHANGED <<tables, process, failures>>

Return(u) ==
  /\ u \notin guild
  /\ guild' = guild \cup {u}
  /\ UNCHANGED <<tables, process, bounds>>

-----------------------------------------------------------------------------
WebStep(w) ==
  \/ StoreAlliance(w) \/ AllianceRole(w) \/ StoreCorp(w) \/ CorpRole(w)
  \/ StoreChar(w) \/ IssueCode(w) \/ CodeRefused(w)

BotStep(b) == FindChar(b) \/ Burn(b) \/ Link(b) \/ JoinCorp(b) \/ JoinAlliance(b)

PollStep ==
  \/ PollRoles \/ PollList \/ PollCheck \/ PollDropCodes \/ PollDropRow \/ PollEnd
  \/ \E ch \in Char : PollVisit(ch)

Next ==
  \/ \E w \in Web : WebStep(w) \/ WebFails(w) \/ WriteLost(w) \/ \E ch \in Char : Login(w, ch)
  \/ \E b \in Bot :
       BotStep(b) \/ BotFails(b) \/ \E u \in User, k \in Code : Confirm(b, u, k)
  \/ PollStep \/ PollFails \/ Crash
  \/ \E u \in User : Leave(u) \/ Return(u)

Spec == Init /\ [][Next]_vars

\* Requests and commands run to their end and the poller's rounds come back.
\* Strong fairness of IssueCode: a round an hour cannot delete a character
\* between two statements of every request.  The owner of a character logs
\* in again as long as there is no code; strongly, for a request has a
\* goroutine of its own and does not wait for one of Web.
Fairness ==
  /\ \A w \in Web : WF_vars(WebStep(w)) /\ SF_vars(IssueCode(w))
  /\ \A b \in Bot : WF_vars(BotStep(b))
  /\ WF_vars(PollStep)
  /\ \A ch \in Char : SF_vars(\E w \in Web : Login(w, ch))

FairSpec == Spec /\ Fairness

-----------------------------------------------------------------------------
(* Properties                                                              *)

\* "User already mapped to character" is a good end of a confirmation: the
\* sender is in the filter of the corporation, or another confirmation of
\* theirs is about to put them there.
GoodDuplicate(b) ==
  \/ BotUser(b) \in member[CorpOf[BotChar(b)]]
  \/ \E o \in Bot \ {b} :
       bot[o].pc = "corp" /\ BotUser(o) = BotUser(b) /\ BotChar(o) = BotChar(b)

Duplicate(b) == Link(b) /\ <<BotUser(b), BotChar(b)>> \in linked

\* As storage.InsertUserCharacterMap says: a duplicate entry is fine.
DuplicateIsFine == [][\A b \in Bot : Duplicate(b) => GoodDuplicate(b)]_vars

\* It is, however confirmations, departures and the poller interleave, until
\* a statement or the process fails.
DuplicateIsFineUntilFailure ==
  [][failures = 0 => \A b \in Bot : Duplicate(b) => GoodDuplicate(b)]_vars

\* A first login fails for want of the role, but stores the alliance or the
\* corporation, for which the poller makes one: who keeps logging in gets a
\* code, unless the corporation is new and in no alliance.
Served(ch) == CorpOf[ch] \in Known \/ HomeOf(ch) # None

EventuallyCoded ==
  \A ch \in Char : Served(ch) => <>(\E i \in 1..MaxCodes : codes[<<ch, i>>] # "new")

\* A character nobody is linked to does not stay: the poller deletes it with
\* its codes in the order the foreign keys demand, also after the user left.
EventuallyForgotten ==
  \A ch \in Char : (ch \in chars /\ Owners(ch) = {}) ~> (ch \notin chars \/ Owners(ch) # {})
=============================================================================
