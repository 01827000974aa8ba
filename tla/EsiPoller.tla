------------------------------ MODULE EsiPoller ------------------------------
(***************************************************************************)
(* How the memberships of filters follow the characters of EVE Online.     *)
(*                                                                         *)
(* ESI answers which corporation a character is in, and which alliance and *)
(* ticker a corporation has; all of it changes.  Each round of the poller  *)
(* (updateAlliances, updateCorporations, updateCharacters) compares the    *)
(* stored rows with ESI's answers, rewrites the rows, and moves users      *)
(* between the filters named like the tickers.  One goroutine runs it,     *)
(* statement by statement and without a transaction; the commands !auth,   *)
(* logins, changes in the game, failures and restarts come in between.     *)
(*                                                                         *)
(* An alliance and its ticker are one value.  A corporation has a row      *)
(* [ticker, alliance]; Zero is the empty response of the ESI client.  The  *)
(* names of corporations and alliances do not change and are all           *)
(* different: a corporation stands for its name.                           *)
(***************************************************************************)
EXTENDS Integers, FiniteSets

CONSTANTS
  User, Char, Corp, Alliance,
  Name,        \* tickers of corporations
  None,        \* no alliance
  NoRow,       \* a corporation that is not stored
  Blank,       \* the empty ticker
  CorpAtStart, \* ESI's answers at the start
  RowAtStart,
  Known,       \* the corporations stored, with their roles, at the start
  Bot,         \* goroutines of the !auth command
  Faults, Changes,  \* what fails, and what changes in the game
  MaxFailures, MaxChanges  \* bounds

Ticker == Name \cup Alliance
Row    == [ticker : Name, alliance : Alliance \cup {None}]
Zero   == [ticker |-> Blank, alliance |-> None]

\* No table keeps the tickers of corporations and of alliances apart: each is
\* unique in its own, and one filter serves both when they are equal.
TickersApart == Name \cap Alliance = {}

ASSUME EsiConstants ==
  /\ None \notin Ticker /\ Blank \notin Ticker
  /\ NoRow \notin Row \cup {Zero}
  /\ CorpAtStart \in [Char -> Corp] /\ RowAtStart \in [Corp -> Row]
  /\ Known \subseteq Corp
  /\ \A c, d \in Known : RowAtStart[c].ticker = RowAtStart[d].ticker => c = d  \* a key
  /\ Faults \subseteq {"esi", "db", "crash"} /\ Changes \subseteq {"move", "switch", "rename"}
  /\ MaxFailures \in Nat /\ MaxChanges \in Nat

VARIABLES
  esiCorp, esi,      \* what ESI answers of characters and of corporations
  alliances, corps,  \* the tables: alliances stored, the row of each corporation
  chars, home,       \* characters stored, and the corporation in their row
  linked,            \* user_character_map
  roles, named,      \* roles: their short names, and the corporations whose
                     \* names they bear
  filters, attached, \* the default filters; role_filters
  member,            \* filter_membership
  poll, left,        \* the poller, and what is left of its list
  bot,               \* the commands
  disturbed,         \* characters moved, or stored anew, while a confirmation was
                     \* under way, or moved from no alliance into one
  changed,           \* the kinds of changes that have happened
  failures, changes  \* bounds

game   == <<esiCorp, esi>>
access == <<roles, named, filters, attached>>
tables == <<alliances, corps, chars, home, linked, access, member>>
bounds == <<changed, failures, changes>>
vars   == <<game, tables, poll, left, bot, disturbed, bounds>>

\* fmt.Sprintf("%d", member) of the loops over a corporation's members: the
\* indices of the list, which the filters take for users.
Index == 0..(Cardinality(User) - 1)

NoChar    == "none"

\* Users are finitely many and no index is one: their ids are snowflakes of Discord.
ASSUME IdsAndIndices == IsFiniteSet(User) /\ User \cap Index = {} /\ NoChar \notin Char

Idle      == [pc |-> "idle"]
CorpPc    == {"ask", "alliance", "store", "drop", "take", "role"}
MovePc    == {"moveRow", "user", "leaveCorp", "joinCorp", "leaveAlliance", "joinAlliance"}
AnyRow    == Row \cup {Zero}
PollState ==
  {Idle} \cup [pc : {"alliances", "corps", "chars"}]
  \cup [pc : {"orphan"}, ch : Char]
  \cup [pc : CorpPc, ch : Char \cup {NoChar}, c : Corp, old : AnyRow, new : AnyRow]
  \cup [pc : MovePc, ch : Char, c : Corp, old : AnyRow, new : AnyRow, u : User \cup {NoChar}]
BotState  == {Idle} \cup [pc : {"link", "corp"}, u : User, ch : Char, c : Corp]
             \cup [pc : {"ally"}, u : User, ch : Char, a : Alliance]

Owners(ch) == {u \in User : <<u, ch>> \in linked}
Stored(c)  == corps[c] # NoRow

TypeOK ==
  /\ esiCorp \in [Char -> Corp] /\ esi \in [Corp -> Row]
  /\ alliances \subseteq Alliance /\ corps \in [Corp -> AnyRow \cup {NoRow}]
  /\ chars \subseteq Char /\ home \in [Char -> Corp]
  /\ linked \subseteq User \X chars
  /\ roles \subseteq Ticker /\ named \subseteq Corp
  /\ filters \subseteq roles /\ attached \subseteq filters
  /\ member \in [Ticker -> SUBSET (User \cup Index)]
  /\ poll \in PollState /\ left \subseteq Alliance \cup Corp \cup Char
  /\ bot \in [Bot -> BotState] /\ disturbed \subseteq Char
  /\ changed \subseteq Changes
  /\ failures \in 0..MaxFailures /\ changes \in 0..MaxChanges
  \* the keys of the tables
  /\ \A ch \in chars : Stored(home[ch])
  /\ \A c \in Corp : Stored(c) => corps[c].alliance \in alliances \cup {None}
  /\ \A c, d \in Corp : Stored(c) /\ Stored(d) /\ corps[c].ticker = corps[d].ticker => c = d

Init ==
  /\ esiCorp = CorpAtStart /\ esi = RowAtStart
  /\ chars = {} /\ home = CorpAtStart /\ linked = {}
  /\ corps = [c \in Corp |-> IF c \in Known THEN esi[c] ELSE NoRow]
  /\ alliances = {esi[c].alliance : c \in Known} \ {None}
  /\ roles = alliances \cup {esi[c].ticker : c \in Known} /\ named = Known
  /\ filters = roles /\ attached = roles
  /\ member = [t \in Ticker |-> {}]
  /\ poll = Idle /\ left = {} /\ bot = [b \in Bot |-> Idle]
  /\ disturbed = {} /\ changed = {} /\ failures = 0 /\ changes = 0

\* filters.AddMember and filters.RemoveMember, and roles.GetRoleMembers:
\* without the filter they change nothing, and there are no members.
Joins(us, t)  == member' = IF t \in filters THEN [member EXCEPT ![t] = @ \cup us] ELSE member
Leaves(us, t) == member' = IF t \in filters THEN [member EXCEPT ![t] = @ \ us] ELSE member
Indices(t)    == IF t \in attached THEN 0..(Cardinality(member[t]) - 1) ELSE {}

\* roles.Add, for the tickers ts that no role has: the role, its default filter,
\* which is refused if there is one, and the link between them.
Adds(ts) ==
  /\ roles' = roles \cup ts /\ filters' = filters \cup ts
  /\ attached' = attached \cup (ts \ filters)

\* roles.Add ends early: what it has written stays, and its error is dropped.
AddsPartly(ts) ==
  /\ \/ UNCHANGED <<roles, filters>>
     \/ roles' = roles \cup ts /\ filters' \in {filters, filters \cup ts}
  /\ UNCHANGED attached

-----------------------------------------------------------------------------
(* The lists of a round.                                                   *)

Others   == UNCHANGED <<game, bot, bounds>>
To(pc)   == poll' = [poll EXCEPT !.pc = pc]
NextChar == poll' = [pc |-> "chars"]
Fallen   == poll' = [pc |-> "orphan", ch |-> poll.ch]

PollRound ==
  /\ poll = Idle
  /\ poll' = [pc |-> "alliances"] /\ left' = alliances
  /\ UNCHANGED <<tables, disturbed>> /\ Others

\* updateAlliance: name and ticker are ESI's, so only a role may be missing.
PollAlliance(a) ==
  /\ poll.pc = "alliances" /\ a \in left
  /\ Adds({a} \ roles) /\ left' = left \ {a}
  /\ UNCHANGED <<alliances, corps, chars, home, linked, named, member, poll, disturbed>> /\ Others

PollCorps ==
  /\ poll.pc = "alliances" /\ left = {}
  /\ poll' = [pc |-> "corps"] /\ left' = {c \in Corp : Stored(c)}
  /\ UNCHANGED <<tables, disturbed>> /\ Others

PollCorp(c) ==
  /\ poll.pc = "corps" /\ c \in left
  /\ left' = left \ {c}
  /\ poll' = [pc |-> "ask", ch |-> NoChar, c |-> c, old |-> corps[c], new |-> Zero]
  /\ UNCHANGED <<tables, disturbed>> /\ Others

PollChars ==
  /\ poll.pc = "corps" /\ left = {}
  /\ poll' = [pc |-> "chars"] /\ left' = chars
  /\ UNCHANGED <<tables, disturbed>> /\ Others

\* updateCharacter: a character in another corporation is moved, by way of
\* updateCorporation with nothing but the id; one nobody owns is an error.
PollChar(ch) ==
  /\ poll.pc = "chars" /\ ch \in left
  /\ left' = left \ {ch}
  /\ poll' = IF esiCorp[ch] # home[ch]
             THEN [pc |-> "ask", ch |-> ch, c |-> esiCorp[ch], old |-> Zero, new |-> Zero]
             ELSE IF Owners(ch) = {} THEN [pc |-> "orphan", ch |-> ch] ELSE poll
  /\ UNCHANGED <<tables, disturbed>> /\ Others

\* Mutant: deleted without asking for the user again.
PollOrphanAlways ==
  /\ poll.pc = "orphan"
  /\ chars' = chars \ {poll.ch}
  /\ NextChar
  /\ UNCHANGED <<alliances, corps, home, linked, access, member, left, disturbed>> /\ Others

\* After any error of updateCharacter: a character without a user is deleted.
PollOrphan ==
  /\ poll.pc = "orphan"
  /\ chars' = IF Owners(poll.ch) = {} THEN chars \ {poll.ch} ELSE chars
  /\ NextChar
  /\ UNCHANGED <<alliances, corps, home, linked, access, member, left, disturbed>> /\ Others

PollEnd ==
  /\ poll.pc = "chars" /\ left = {}
  /\ poll' = Idle
  /\ UNCHANGED <<tables, left, disturbed>> /\ Others

-----------------------------------------------------------------------------
(* updateCorporation                                                       *)

Return(ok) ==
  poll' = CASE poll.ch = NoChar -> [pc |-> "corps"]
            [] poll.ch # NoChar /\ ~ok -> [pc |-> "orphan", ch |-> poll.ch]
            [] OTHER -> [pc |-> "moveRow", ch |-> poll.ch, c |-> poll.c,
                         old |-> Zero, new |-> poll.new, u |-> NoChar]

Got(response) ==
  poll' = [poll EXCEPT !.new = response,
                       !.pc = IF response.alliance = None THEN "store" ELSE "alliance"]

Ask ==
  /\ poll.pc = "ask"
  /\ Got(esi[poll.c])
  /\ UNCHANGED <<tables, left, disturbed>> /\ Others

\* An unknown alliance is stored, and gets its role (updateAlliance).
StoreAlliance ==
  /\ poll.pc = "alliance"
  /\ alliances' = alliances \cup {poll.new.alliance}
  /\ Adds({poll.new.alliance} \ roles)
  /\ To("store")
  /\ UNCHANGED <<corps, chars, home, linked, named, member, left, disturbed>> /\ Others

AfterStore == CASE poll.old.alliance = poll.new.alliance -> "role"
                [] poll.old.alliance = None -> "take"
                [] OTHER -> "drop"

\* Mutant: only the names are compared.
StoreCorpNames ==
  /\ poll.pc = "store"
  /\ corps' = IF poll.old.ticker # poll.new.ticker /\ \A d \in Corp \ {poll.c} :
                   Stored(d) => corps[d].ticker # poll.new.ticker
              THEN [corps EXCEPT ![poll.c] = poll.new] ELSE corps
  /\ To(AfterStore)
  /\ UNCHANGED <<alliances, chars, home, linked, access, member, left, disturbed>> /\ Others

\* A row that differs is written.  UpsertCorporation drops the error when
\* another corporation's row has the ticker.
StoreCorp ==
  /\ poll.pc = "store"
  /\ corps' = IF poll.old # poll.new /\ \A d \in Corp \ {poll.c} :
                   Stored(d) => corps[d].ticker # poll.new.ticker
              THEN [corps EXCEPT ![poll.c] = poll.new] ELSE corps
  /\ To(AfterStore)
  /\ UNCHANGED <<alliances, chars, home, linked, access, member, left, disturbed>> /\ Others

AfterDrop == IF poll.new.alliance = None THEN "role" ELSE "take"

\* removeCorpMembers and addCorpMembers
DropMembers ==
  /\ poll.pc = "drop"
  /\ Leaves(Indices(poll.new.ticker), poll.old.alliance)
  /\ To(AfterDrop)
  /\ UNCHANGED <<alliances, corps, chars, home, linked, access, left, disturbed>> /\ Others

TakeMembers ==
  /\ poll.pc = "take"
  /\ Joins(Indices(poll.new.ticker), poll.new.alliance)
  /\ To("role")
  /\ UNCHANGED <<alliances, corps, chars, home, linked, access, left, disturbed>> /\ Others

\* Whether a role has the ticker is asked by its short name, but of two roles
\* of one name the table refuses the second: after a new ticker the corporation
\* has the role it had, under the old short name.  roles.Update looks for a role
\* named like the old ticker, so that no short name changes.
Missing == IF poll.c \in named THEN {} ELSE {poll.new.ticker} \ (roles \cup {Blank})
Naming  == named' = IF roles' = roles THEN named ELSE named \cup {poll.c}

AddRole ==
  /\ poll.pc = "role"
  /\ Adds(Missing) /\ Naming
  /\ Return(TRUE)
  /\ UNCHANGED <<alliances, corps, chars, home, linked, member, left, disturbed>> /\ Others

CorpStep == Ask \/ StoreAlliance \/ StoreCorp \/ DropMembers \/ TakeMembers \/ AddRole

-----------------------------------------------------------------------------
(* updateCharacter: the move of a character's user.                        *)

Disturb == disturbed' = disturbed \cup {poll.ch}
Working(b, ch) == bot[b] # Idle /\ bot[b].ch = ch

\* The row is rewritten (an unknown corporation violates a foreign key, and
\* the error is dropped), then the rows of both corporations are read.
Reread(row) ==
  /\ poll' = IF Stored(poll.c)
             THEN [poll EXCEPT !.pc = "user", !.old = corps[home[poll.ch]], !.new = corps[poll.c]]
             ELSE [pc |-> "orphan", ch |-> poll.ch]
  /\ home' = IF Stored(poll.c) THEN [home EXCEPT ![poll.ch] = row] ELSE home

MoveRow ==
  /\ poll.pc = "moveRow"
  /\ Reread(poll.c)
  /\ IF \E b \in Bot : Working(b, poll.ch) THEN Disturb ELSE UNCHANGED disturbed
  /\ UNCHANGED <<alliances, corps, chars, linked, access, member, left>> /\ Others

\* GetDiscordUser: one of the users of the character.
FindUser ==
  /\ poll.pc = "user"
  /\ IF Owners(poll.ch) = {} THEN Fallen
     ELSE \E u \in Owners(poll.ch) : poll' = [poll EXCEPT !.pc = "leaveCorp", !.u = u]
  /\ UNCHANGED <<tables, left, disturbed>> /\ Others

\* Mutant: the ticker is read after the row was rewritten.
LeaveCorpNew ==
  /\ poll.pc = "leaveCorp"
  /\ Leaves({poll.u}, poll.new.ticker)
  /\ To("joinCorp")
  /\ UNCHANGED <<alliances, corps, chars, home, linked, access, left, disturbed>> /\ Others

LeaveCorp ==
  /\ poll.pc = "leaveCorp"
  /\ Leaves({poll.u}, poll.old.ticker)
  /\ To("joinCorp")
  /\ UNCHANGED <<alliances, corps, chars, home, linked, access, left, disturbed>> /\ Others

\* The old alliance's row is read whether or not there was an alliance:
\* coming from none is an error, and the new alliance is not joined.
AfterCorps ==
  IF poll.old.alliance = poll.new.alliance THEN NextChar
  ELSE IF poll.old.alliance = None THEN Fallen ELSE To("leaveAlliance")

JoinCorp ==
  /\ poll.pc = "joinCorp"
  /\ Joins({poll.u}, poll.new.ticker)
  /\ AfterCorps
  /\ IF poll.old.alliance # poll.new.alliance /\ poll.old.alliance = None
     THEN Disturb ELSE UNCHANGED disturbed
  /\ UNCHANGED <<alliances, corps, chars, home, linked, access, left>> /\ Others

LeaveAlliance ==
  /\ poll.pc = "leaveAlliance"
  /\ Leaves({poll.u}, poll.old.alliance)
  /\ IF poll.new.alliance = None THEN Fallen ELSE To("joinAlliance")
  /\ UNCHANGED <<alliances, corps, chars, home, linked, access, left, disturbed>> /\ Others

JoinAlliance ==
  /\ poll.pc = "joinAlliance"
  /\ Joins({poll.u}, poll.new.alliance)
  /\ NextChar
  /\ UNCHANGED <<alliances, corps, chars, home, linked, access, left, disturbed>> /\ Others

MoveStep == MoveRow \/ FindUser \/ LeaveCorp \/ JoinCorp \/ LeaveAlliance \/ JoinAlliance

-----------------------------------------------------------------------------
(* Logins and confirmations, as AuthFlow has them, for rows that are known. *)

BotRest == UNCHANGED <<game, poll, left, bounds>>
EndBot(b) == bot' = [bot EXCEPT ![b] = Idle]

\* A login stores a character that is not stored.  It has ESI's answers, and
\* goes on only if there are roles with their tickers; a login that would add a
\* row or a role of its own is left out.
Welcome(c) ==
  /\ Stored(c) /\ c \in named /\ esi[c].ticker \in roles
  /\ esi[c].alliance \in (alliances \cap roles) \cup {None}

StoreChar(ch) ==
  /\ ch \notin chars /\ Welcome(esiCorp[ch])
  /\ chars' = chars \cup {ch} /\ home' = [home EXCEPT ![ch] = esiCorp[ch]]
  /\ disturbed' = IF \E b \in Bot : Working(b, ch) THEN disturbed \cup {ch} ELSE disturbed
  /\ UNCHANGED <<alliances, corps, linked, access, member, bot>> /\ BotRest

\* Confirm reads the character's row, and keeps its corporation.
Confirm(b, u, ch) ==
  /\ bot[b] = Idle /\ ch \in chars /\ u \notin Owners(ch)
  /\ bot' = [bot EXCEPT ![b] = [pc |-> "link", u |-> u, ch |-> ch, c |-> home[ch]]]
  /\ UNCHANGED <<tables, disturbed>> /\ BotRest

Link(b) ==
  /\ bot[b].pc = "link"
  /\ LET ch == bot[b].ch
     IN  IF ch \in chars /\ bot[b].u \notin Owners(ch)
         THEN linked' = linked \cup {<<bot[b].u, ch>>} /\ bot' = [bot EXCEPT ![b].pc = "corp"]
         ELSE EndBot(b) /\ UNCHANGED linked
  /\ UNCHANGED <<alliances, corps, chars, home, access, member, disturbed>> /\ BotRest

BotJoinsCorp(b) ==
  /\ bot[b].pc = "corp"
  /\ LET row == corps[bot[b].c]
     IN  /\ Joins({bot[b].u}, row.ticker)
         /\ bot' = [bot EXCEPT ![b] = IF row.alliance = None THEN Idle
                      ELSE [pc |-> "ally", u |-> bot[b].u, ch |-> bot[b].ch, a |-> row.alliance]]
  /\ UNCHANGED <<alliances, corps, chars, home, linked, access, disturbed>> /\ BotRest

BotJoinsAlliance(b) ==
  /\ bot[b].pc = "ally"
  /\ Joins({bot[b].u}, bot[b].a)
  /\ EndBot(b)
  /\ UNCHANGED <<alliances, corps, chars, home, linked, access, disturbed>> /\ BotRest

-----------------------------------------------------------------------------
(* What changes in the game, and what goes wrong.                          *)

Changing(kind) ==
  /\ kind \in Changes /\ changes < MaxChanges
  /\ changes' = changes + 1 /\ changed' = changed \cup {kind}
  /\ UNCHANGED <<tables, poll, left, bot, disturbed, failures>>

Move(ch, c) ==
  /\ Changing("move") /\ c # esiCorp[ch]
  /\ esiCorp' = [esiCorp EXCEPT ![ch] = c] /\ UNCHANGED esi

Switch(c, a) ==
  /\ Changing("switch") /\ a # esi[c].alliance
  /\ esi' = [esi EXCEPT ![c].alliance = a] /\ UNCHANGED esiCorp

Rename(c, t) ==
  /\ Changing("rename") /\ \A d \in Corp : esi[d].ticker # t
  /\ esi' = [esi EXCEPT ![c].ticker = t] /\ UNCHANGED esiCorp

Fails(kind) ==
  /\ kind \in Faults /\ failures < MaxFailures
  /\ failures' = failures + 1
  /\ UNCHANGED <<game, corps, chars, linked, member, changed, changes>>

\* Not found ends updateCorporation; after any other error it goes on with
\* the empty response.
EsiFails ==
  /\ Fails("esi")
  /\ \/ poll.pc = "ask" /\ (Return(FALSE) \/ Got(Zero)) /\ UNCHANGED left
     \/ poll.pc = "alliance" /\ Return(FALSE) /\ UNCHANGED left
     \/ \E ch \in left :
          /\ poll.pc = "chars" /\ left' = left \ {ch}
          /\ poll' = [pc |-> "orphan", ch |-> ch]
  /\ UNCHANGED <<alliances, home, access, bot, disturbed>>

\* updateAlliance fails, or ESI does not find the alliance: the loop goes on
\* to the next one.
AllianceFails ==
  /\ poll.pc = "alliances"
  /\ \E a \in left :
       /\ left' = left \ {a}
       /\ \/ Fails("esi") /\ UNCHANGED access
          \/ Fails("db") /\ AddsPartly({a} \ roles) /\ UNCHANGED named
  /\ UNCHANGED <<alliances, home, poll, bot, disturbed>>

\* The roles.Add of an alliance just stored, or of a corporation, ends early.
AddCut ==
  \/ /\ poll.pc = "alliance" /\ alliances' = alliances \cup {poll.new.alliance}
     /\ AddsPartly({poll.new.alliance} \ roles) /\ UNCHANGED named
  \/ /\ poll.pc = "role" /\ UNCHANGED alliances
     /\ AddsPartly(Missing) /\ Naming

\* One of its statements fails, whose error nobody looks at.
AddFails ==
  /\ Fails("db") /\ AddCut
  /\ IF poll.pc = "alliance" THEN To("store") ELSE Return(TRUE)
  /\ UNCHANGED <<home, left, bot, disturbed>>

\* Another statement fails: the errors of the corporation's and the character's
\* upsert, of AddMember and RemoveMember end nothing.
DbFails ==
  /\ Fails("db") /\ UNCHANGED <<access, left, bot, disturbed>>
  /\ \/ /\ poll.pc = "alliance" /\ Return(FALSE) /\ UNCHANGED home
        /\ alliances' = alliances \/ alliances' = alliances \cup {poll.new.alliance}
     \/ /\ UNCHANGED <<alliances, home>>
        /\ \/ poll.pc = "store" /\ To(AfterStore)
           \/ poll.pc = "drop"  /\ To(AfterDrop)
           \/ poll.pc = "take"  /\ To("role")
           \/ poll.pc = "role"  /\ Return(FALSE)
           \/ poll.pc \in {"moveRow", "user", "leaveAlliance"} /\ Fallen
           \/ poll.pc = "leaveCorp" /\ To("joinCorp")
           \/ poll.pc = "joinCorp"  /\ AfterCorps
           \/ poll.pc = "leaveAlliance" /\ poll.new.alliance # None /\ To("joinAlliance")
           \/ poll.pc \in {"joinAlliance", "orphan"} /\ NextChar
     \/ poll.pc = "moveRow" /\ Reread(home[poll.ch]) /\ UNCHANGED alliances
     \/ poll.pc = "moveRow" /\ Stored(poll.c) /\ Fallen
        /\ home' = [home EXCEPT ![poll.ch] = poll.c] /\ UNCHANGED alliances

\* The process is restarted, in the middle of roles.Add or elsewhere.
Crash ==
  /\ Fails("crash")
  /\ poll' = Idle /\ left' = {} /\ bot' = [b \in Bot |-> Idle]
  /\ AddCut \/ UNCHANGED <<alliances, access>>
  /\ UNCHANGED <<home, disturbed>>

-----------------------------------------------------------------------------
PollStep ==
  \/ PollRound \/ PollCorps \/ PollChars \/ PollOrphan \/ PollEnd \/ CorpStep \/ MoveStep
  \/ \E a \in Alliance : PollAlliance(a)
  \/ \E c \in Corp : PollCorp(c)
  \/ \E ch \in Char : PollChar(ch)

BotStep(b) == Link(b) \/ BotJoinsCorp(b) \/ BotJoinsAlliance(b)

GameStep ==
  \/ \E ch \in Char, c \in Corp : Move(ch, c)
  \/ \E c \in Corp : \/ \E a \in Alliance \cup {None} : Switch(c, a)
                     \/ \E t \in Name : Rename(c, t)

Next ==
  \/ PollStep \/ GameStep \/ EsiFails \/ AllianceFails \/ AddFails \/ DbFails \/ Crash
  \/ \E ch \in Char : StoreChar(ch)
  \/ \E b \in Bot : BotStep(b) \/ \E u \in User, ch \in Char : Confirm(b, u, ch)

Spec == Init /\ [][Next]_vars

\* The ticker fires every hour, a round ends, and commands run to their end.
FairSpec == Spec /\ WF_vars(PollStep) /\ \A b \in Bot : WF_vars(BotStep(b))

-----------------------------------------------------------------------------
(* Properties                                                              *)

Moving(ch) == poll.pc \in MovePc /\ poll.ch = ch

\* The one user of ch, who has no other character, while nothing is under
\* way for ch.
Settled(u, ch) ==
  /\ Owners(ch) = {u} /\ {d \in Char : u \in Owners(d)} = {ch}
  /\ ch \notin disturbed /\ ~Moving(ch)
  /\ \A b \in Bot : ~Working(b, ch)

\* As long as nothing fails and no ticker changes, a user is in the filter
\* of the stored corporation of the character and of no other; and if no
\* corporation has changed its alliance either, the same holds of alliances.
AtHome ==
  failures = 0 /\ "rename" \notin changed =>
    \A u \in User, ch \in Char : Settled(u, ch) =>
      LET ins == {t \in Ticker : u \in member[t]}
          row == corps[home[ch]]
      IN  /\ ins \cap Name = {row.ticker}
          /\ "switch" \notin changed => ins \cap Alliance = {row.alliance} \ {None}

\* Whatever fails in between, the rows of corporations and characters end
\* up, and stay, as ESI has them.
Recorded ==
  /\ \A c \in Corp : Stored(c) => corps[c] = esi[c]
  /\ \A ch \in chars : home[ch] = esiCorp[ch]

EventuallyRecorded == <>[]Recorded

\* As updateCorporation says, members of a corporation that joins or changes
\* an alliance are put into the new alliance's filter.
MembersFollow ==
  <>[](\A ch \in Char, u \in User : Settled(u, ch) =>
         LET a == esi[esiCorp[ch]].alliance IN a # None => u \in member[a])
=============================================================================
