--------------------------- MODULE EsiPoller_proofs ---------------------------
(***************************************************************************)
(* The types and the keys of the poller's tables, and the filters a user   *)
(* is in, for every number of users, characters, corporations, alliances   *)
(* and commands.                                                           *)
(***************************************************************************)
EXTENDS EsiPoller, TLAPS, FiniteSetTheorems

-----------------------------------------------------------------------------
(* The steps, and the poller's records                                     *)

\* Which steps change which part of the state: the tables, the game and the
\* commands.
LEMMA Frame ==
  ASSUME [Next]_vars
  PROVE  /\ UNCHANGED game \/ GameStep
         /\ UNCHANGED bounds \/ GameStep \/ \E kind \in Faults : Fails(kind)
         /\ UNCHANGED alliances \/ StoreAlliance \/ DbFails \/ AddFails \/ Crash
         /\ UNCHANGED corps \/ StoreCorp
         /\ UNCHANGED access \/ StoreAlliance \/ AddRole \/ AllianceFails \/ AddFails \/ Crash \/ \E a \in Alliance : PollAlliance(a)
         /\ UNCHANGED chars \/ PollOrphan \/ \E ch \in Char : StoreChar(ch)
         /\ UNCHANGED home \/ MoveRow \/ DbFails \/ \E ch \in Char : StoreChar(ch)
         /\ UNCHANGED linked \/ \E b \in Bot : Link(b)
         /\ \/ UNCHANGED member
            \/ DropMembers \/ TakeMembers \/ LeaveCorp \/ JoinCorp \/ LeaveAlliance \/ JoinAlliance
            \/ \E b \in Bot : BotJoinsCorp(b) \/ BotJoinsAlliance(b)
         /\ \/ UNCHANGED bot
            \/ Crash \/ \E b \in Bot : BotStep(b) \/ \E u \in User, ch \in Char : Confirm(b, u, ch)
         /\ \/ UNCHANGED disturbed
            \/ MoveRow \/ JoinCorp \/ \E ch \in Char : StoreChar(ch)
         /\ UNCHANGED <<poll, left>> \/ PollStep \/ EsiFails \/ AllianceFails \/ AddFails \/ DbFails \/ Crash
<1> DEFINE Goal ==
      /\ UNCHANGED game \/ GameStep
      /\ UNCHANGED bounds \/ GameStep \/ \E kind \in Faults : Fails(kind)
      /\ UNCHANGED alliances \/ StoreAlliance \/ DbFails \/ AddFails \/ Crash
      /\ UNCHANGED corps \/ StoreCorp
      /\ UNCHANGED access \/ StoreAlliance \/ AddRole \/ AllianceFails \/ AddFails \/ Crash \/ \E a \in Alliance : PollAlliance(a)
      /\ UNCHANGED chars \/ PollOrphan \/ \E ch \in Char : StoreChar(ch)
      /\ UNCHANGED home \/ MoveRow \/ DbFails \/ \E ch \in Char : StoreChar(ch)
      /\ UNCHANGED linked \/ \E b \in Bot : Link(b)
      /\ \/ UNCHANGED member
         \/ DropMembers \/ TakeMembers \/ LeaveCorp \/ JoinCorp \/ LeaveAlliance \/ JoinAlliance
         \/ \E b \in Bot : BotJoinsCorp(b) \/ BotJoinsAlliance(b)
      /\ \/ UNCHANGED bot
         \/ Crash \/ \E b \in Bot : BotStep(b) \/ \E u \in User, ch \in Char : Confirm(b, u, ch)
      /\ \/ UNCHANGED disturbed
         \/ MoveRow \/ JoinCorp \/ \E ch \in Char : StoreChar(ch)
      /\ UNCHANGED <<poll, left>> \/ PollStep \/ EsiFails \/ AllianceFails \/ AddFails \/ DbFails \/ Crash
<1>1. ASSUME PollRound PROVE Goal
  BY <1>1 DEF PollStep, PollRound, Others, tables
<1>2. ASSUME PollCorps PROVE Goal
  BY <1>2 DEF PollStep, PollCorps, Others, tables
<1>3. ASSUME PollChars PROVE Goal
  BY <1>3 DEF PollStep, PollChars, Others, tables
<1>4. ASSUME PollOrphan PROVE Goal
  BY <1>4 DEF PollStep, PollOrphan, Others, tables
<1>5. ASSUME PollEnd PROVE Goal
  BY <1>5 DEF PollStep, PollEnd, Others, tables
<1>6. ASSUME Ask PROVE Goal
  BY <1>6 DEF PollStep, CorpStep, Ask, Others, tables
<1>7. ASSUME StoreAlliance PROVE Goal
  BY <1>7 DEF PollStep, CorpStep, StoreAlliance, Others, tables
<1>8. ASSUME StoreCorp PROVE Goal
  BY <1>8 DEF PollStep, CorpStep, StoreCorp, Others, tables
<1>9. ASSUME DropMembers PROVE Goal
  BY <1>9 DEF PollStep, CorpStep, DropMembers, Others, tables
<1>10. ASSUME TakeMembers PROVE Goal
  BY <1>10 DEF PollStep, CorpStep, TakeMembers, Others, tables
<1>11. ASSUME AddRole PROVE Goal
  BY <1>11 DEF PollStep, CorpStep, AddRole, Others, tables
<1>12. ASSUME MoveRow PROVE Goal
  BY <1>12 DEF PollStep, MoveStep, MoveRow, Others, tables
<1>13. ASSUME FindUser PROVE Goal
  BY <1>13 DEF PollStep, MoveStep, FindUser, Others, tables
<1>14. ASSUME LeaveCorp PROVE Goal
  BY <1>14 DEF PollStep, MoveStep, LeaveCorp, Others, tables
<1>15. ASSUME JoinCorp PROVE Goal
  BY <1>15 DEF PollStep, MoveStep, JoinCorp, Others, tables
<1>16. ASSUME LeaveAlliance PROVE Goal
  BY <1>16 DEF PollStep, MoveStep, LeaveAlliance, Others, tables
<1>17. ASSUME JoinAlliance PROVE Goal
  BY <1>17 DEF PollStep, MoveStep, JoinAlliance, Others, tables
<1>18. ASSUME NEW a \in Alliance, PollAlliance(a) PROVE Goal
  BY <1>18 DEF PollStep, PollAlliance, Others
<1>19. ASSUME NEW c \in Corp, PollCorp(c) PROVE Goal
  BY <1>19 DEF PollStep, PollCorp, Others, tables
<1>20. ASSUME NEW ch \in Char, PollChar(ch) PROVE Goal
  BY <1>20 DEF PollStep, PollChar, Others, tables
<1>21. ASSUME GameStep PROVE Goal
  BY <1>21 DEF GameStep, Move, Switch, Rename, Changing, tables
<1>22. ASSUME EsiFails PROVE Goal
  BY <1>22 DEF EsiFails, Fails
<1>23. ASSUME AllianceFails PROVE Goal
  BY <1>23 DEF AllianceFails, Fails
<1>24. ASSUME DbFails \/ AddFails PROVE Goal
  BY <1>24 DEF DbFails, AddFails, Fails
<1>25. ASSUME Crash PROVE Goal
  BY <1>25 DEF Crash, Fails
<1>26. ASSUME NEW ch \in Char, StoreChar(ch) PROVE Goal
  BY <1>26 DEF StoreChar, BotRest
<1>27. ASSUME NEW b \in Bot, Link(b) PROVE Goal
  BY <1>27 DEF BotStep, Link, BotRest
<1>28. ASSUME NEW b \in Bot, BotJoinsCorp(b) PROVE Goal
  BY <1>28 DEF BotStep, BotJoinsCorp, BotRest
<1>29. ASSUME NEW b \in Bot, BotJoinsAlliance(b) PROVE Goal
  BY <1>29 DEF BotStep, BotJoinsAlliance, BotRest
<1>30. ASSUME NEW b \in Bot, NEW u \in User, NEW ch \in Char, Confirm(b, u, ch) PROVE Goal
  BY <1>30 DEF Confirm, BotRest, tables
<1>31. ASSUME UNCHANGED vars PROVE Goal
  BY <1>31 DEF vars, tables
<1> HIDE DEF Goal
<1>32. Goal
  BY <1>1, <1>2, <1>3, <1>4, <1>5, <1>6, <1>7, <1>8, <1>9, <1>10, <1>11, <1>12, <1>13, <1>14,
     <1>15, <1>16, <1>17, <1>18, <1>19, <1>20, <1>21, <1>22, <1>23, <1>24, <1>25, <1>26, <1>27,
     <1>28, <1>29, <1>30, <1>31 DEF Next, PollStep, CorpStep, MoveStep, BotStep
<1> QED
  BY <1>32 DEF Goal

\* The poller at a corporation, and at a character that moves.
CorpRec == [pc : CorpPc, ch : Char \cup {NoChar}, c : Corp, old : AnyRow, new : AnyRow]
MoveRec == [pc : MovePc, ch : Char, c : Corp, old : AnyRow, new : AnyRow, u : User \cup {NoChar}]

\* The poller's record at each of its steps.
LEMMA PollKinds ==
  ASSUME TypeOK
  PROVE  /\ poll.pc \in CorpPc => poll \in CorpRec
         /\ poll.pc \in MovePc => poll \in MoveRec
         /\ poll.pc = "orphan" => poll \in [pc : {"orphan"}, ch : Char]
         /\ poll.pc \in {"alliances", "corps", "chars"} => poll = [pc |-> poll.pc]
         /\ poll.pc = "idle" => poll = Idle
         /\ poll.pc \in CorpPc \cup MovePc \cup {"orphan", "alliances", "corps", "chars", "idle"}
BY DEF TypeOK, PollState, CorpRec, MoveRec, CorpPc, MovePc, Idle

\* Both kinds of records are states of the poller.
LEMMA RecsArePollStates == CorpRec \subseteq PollState /\ MoveRec \subseteq PollState
BY DEF PollState, CorpRec, MoveRec

\* Going on within updateCorporation keeps the corporation and its rows.
LEMMA CorpGoes ==
  ASSUME TypeOK, poll.pc \in CorpPc, NEW p \in CorpPc, To(p)
  PROVE  /\ poll' \in CorpRec /\ poll'.pc = p /\ poll'.ch = poll.ch /\ poll'.c = poll.c
         /\ poll'.old = poll.old /\ poll'.new = poll.new
<1>1. poll \in CorpRec
  BY PollKinds
<1> QED
  BY <1>1 DEF To, CorpRec

\* Going on within a move keeps the character, both rows and the user.
LEMMA MoveGoes ==
  ASSUME TypeOK, poll.pc \in MovePc, NEW p \in MovePc, To(p)
  PROVE  /\ poll' \in MoveRec /\ poll'.pc = p /\ poll'.ch = poll.ch /\ poll'.c = poll.c
         /\ poll'.old = poll.old /\ poll'.new = poll.new /\ poll'.u = poll.u
<1>1. poll \in MoveRec
  BY PollKinds
<1> QED
  BY <1>1 DEF To, MoveRec

\* The answer about a corporation.
LEMMA GotIs ==
  ASSUME TypeOK, poll.pc \in CorpPc, NEW r \in AnyRow, Got(r)
  PROVE  /\ poll' \in CorpRec /\ poll'.ch = poll.ch /\ poll'.c = poll.c
         /\ poll'.old = poll.old /\ poll'.new = r
         /\ poll'.pc = IF r.alliance = None THEN "store" ELSE "alliance"
<1>1. poll \in CorpRec
  BY PollKinds
<1> DEFINE p == IF r.alliance = None THEN "store" ELSE "alliance"
<1>2. p \in CorpPc
  BY DEF CorpPc
<1>3. poll' = [poll EXCEPT !.new = r, !.pc = p]
  BY DEF Got
<1> HIDE DEF p
<1>4. /\ poll' \in CorpRec /\ poll'.ch = poll.ch /\ poll'.c = poll.c
      /\ poll'.old = poll.old /\ poll'.new = r /\ poll'.pc = p
  BY <1>1, <1>2, <1>3 DEF CorpRec
<1> QED
  BY <1>4 DEF p

\* The end of updateCorporation: the next corporation, or the character for
\* whose sake it was asked for.
LEMMA ReturnIs ==
  ASSUME TypeOK, poll.pc \in CorpPc, NEW ok \in BOOLEAN, Return(ok)
  PROVE  /\ poll' \in PollState
         /\ \/ poll.ch = NoChar /\ poll' = [pc |-> "corps"]
            \/ poll.ch # NoChar /\ poll.ch \in Char /\ poll' = [pc |-> "orphan", ch |-> poll.ch]
            \/ /\ poll.ch # NoChar /\ poll.ch \in Char
               /\ poll' \in MoveRec /\ poll'.pc = "moveRow" /\ poll'.ch = poll.ch
               /\ poll'.c = poll.c /\ poll'.new = poll.new
<1>1. poll \in CorpRec
  BY PollKinds
<1>2. poll.ch \in Char \cup {NoChar} /\ poll.c \in Corp /\ poll.new \in AnyRow /\ poll.pc \in CorpPc
  BY <1>1 DEF CorpRec
<1>3. Zero \in AnyRow
  BY DEF AnyRow
<1>4. CASE poll.ch = NoChar
  BY <1>4 DEF Return, PollState
<1>5. CASE poll.ch # NoChar /\ ~ok
  BY <1>5, <1>2 DEF Return, PollState
<1>6. CASE poll.ch # NoChar /\ ok
  <2>1. poll' = [pc |-> "moveRow", ch |-> poll.ch, c |-> poll.c, old |-> Zero, new |-> poll.new, u |-> NoChar]
    BY <1>6 DEF Return
  <2>2. poll' \in MoveRec /\ poll'.pc = "moveRow" /\ poll'.ch = poll.ch /\ poll'.c = poll.c /\ poll'.new = poll.new
    BY <2>1, <1>2, <1>3, <1>6 DEF MoveRec, MovePc
  <2> QED
    BY <2>2, <1>2, <1>6, RecsArePollStates
<1> QED
  BY <1>4, <1>5, <1>6

\* A character whose update failed.
LEMMA FallenIs ==
  ASSUME TypeOK, poll.pc \in MovePc, Fallen
  PROVE  /\ poll' \in PollState /\ poll'.pc = "orphan" /\ poll'.ch = poll.ch /\ poll.ch \in Char
<1>1. poll \in MoveRec
  BY PollKinds
<1> QED
  BY <1>1 DEF Fallen, MoveRec, PollState

\* Where updateCorporation goes on.
LEMMA NextCorpPc == AfterStore \in CorpPc /\ AfterDrop \in CorpPc
BY DEF AfterStore, AfterDrop, CorpPc

\* The rows of a character's old and new corporation are read again.
LEMMA RereadIs ==
  ASSUME TypeOK, poll.pc = "moveRow", Stored(home[poll.ch]), NEW row, Reread(row)
  PROVE  /\ Stored(poll.c) => /\ poll' \in MoveRec /\ poll'.pc = "user" /\ poll'.ch = poll.ch
                              /\ poll'.c = poll.c /\ poll'.u = poll.u
                              /\ poll'.old = corps[home[poll.ch]] /\ poll'.new = corps[poll.c]
         /\ ~Stored(poll.c) => poll' = [pc |-> "orphan", ch |-> poll.ch]
         /\ poll' \in PollState /\ poll.ch \in Char /\ poll.c \in Corp
<1>1. poll \in MoveRec /\ poll.ch \in Char /\ poll.c \in Corp
  BY PollKinds DEF MovePc, MoveRec
<1>2. corps[home[poll.ch]] \in AnyRow
  BY <1>1 DEF TypeOK, Stored
<1>3. CASE ~Stored(poll.c)
  BY <1>1, <1>3 DEF Reread, PollState
<1>4. CASE Stored(poll.c)
  <2> DEFINE o == corps[home[poll.ch]]
             w == corps[poll.c]
  <2>1. w \in AnyRow
    BY <1>1, <1>4 DEF TypeOK, Stored
  <2>2. poll' = [poll EXCEPT !.pc = "user", !.old = o, !.new = w]
    BY <1>4 DEF Reread
  <2>3. o \in AnyRow
    BY <1>2
  <2> HIDE DEF o, w
  <2>4. /\ poll' \in MoveRec /\ poll'.pc = "user" /\ poll'.ch = poll.ch /\ poll'.c = poll.c
        /\ poll'.u = poll.u /\ poll'.old = o /\ poll'.new = w
    BY <1>1, <2>1, <2>2, <2>3 DEF MoveRec, MovePc
  <2> QED
    BY <1>1, <1>4, <2>4, RecsArePollStates DEF o, w
<1> QED
  BY <1>3, <1>4

\* Finding the user.
LEMMA FindUserIs ==
  ASSUME TypeOK, FindUser
  PROVE  \/ Owners(poll.ch) = {} /\ Fallen
         \/ /\ poll' \in MoveRec /\ poll'.pc = "leaveCorp" /\ poll'.ch = poll.ch /\ poll'.c = poll.c
            /\ poll'.old = poll.old /\ poll'.new = poll.new /\ poll'.u \in Owners(poll.ch)
<1>1. poll \in MoveRec
  BY PollKinds DEF FindUser, MovePc
<1>2. CASE Owners(poll.ch) = {}
  BY <1>2 DEF FindUser
<1>3. CASE Owners(poll.ch) # {}
  <2>1. PICK u \in Owners(poll.ch) : poll' = [poll EXCEPT !.pc = "leaveCorp", !.u = u]
    BY <1>3 DEF FindUser
  <2>2. u \in User
    BY DEF Owners
  <2> QED
    BY <1>1, <2>1, <2>2 DEF MoveRec, MovePc
<1> QED
  BY <1>2, <1>3

-----------------------------------------------------------------------------
(* Types, the poller's list, and the keys of the tables                    *)

\* The corporations that have a row.
StoredCorps == {c \in Corp : Stored(c)}
\* What is on the rest of the poller's list is stored, and so is the character
\* at hand, which is not on the list any more.
Lists ==
    /\ \/ poll.pc = "corps"
       \/ poll.pc \in CorpPc /\ poll.ch = NoChar
       => left \subseteq StoredCorps
    /\ poll.pc = "alliances" => left \subseteq Alliance
    /\ poll.pc = "chars" => left \subseteq chars
    /\ \/ poll.pc \in MovePc \cup {"orphan"}
       \/ poll.pc \in CorpPc /\ poll.ch # NoChar
       => poll.ch \in chars /\ poll.ch \notin left /\ left \subseteq chars

\* What is written to a row has its alliance stored before.
AllianceFirst ==
    /\ poll.pc = "store" => poll.new.alliance \in alliances \cup {None}
    /\ poll.pc = "alliance" => poll.new.alliance # None

\* A confirmation's corporation is stored.
BotCorpStored == \A b \in Bot : bot[b].pc \in {"link", "corp"} => Stored(bot[b].c)

\* From the moment its user is found, the character at hand is theirs.
Late == MovePc \ {"moveRow", "user"}
UserFound == poll.pc \in Late => <<poll.u, poll.ch>> \in linked

\* The filters of corporations have users only.
UsersInCorps == \A t \in Name : member[t] \subseteq User

\* The inductive invariant behind TypeOK: the keys hold because an alliance is
\* stored before a row refers to it, and only what is stored is on the list.
TypeInv == TickersApart /\ TypeOK /\ Lists /\ AllianceFirst /\ BotCorpStored /\ UserFound /\ UsersInCorps

\* Who is moved is stored, and so is the corporation in the row.
LEMMA MovesStored ==
  ASSUME TypeInv, poll.pc \in MovePc
  PROVE  poll.ch \in chars /\ poll.ch \in Char /\ Stored(home[poll.ch])
BY DEF TypeInv, TypeOK, Lists

\* No corporation is ever deleted.
LEMMA CorpsStay ==
  ASSUME TypeOK, [Next]_vars
  PROVE  StoredCorps \subseteq StoredCorps'
<1>1. CASE UNCHANGED corps
  BY <1>1 DEF StoredCorps, Stored
<1>2. CASE StoreCorp
  <2>1. poll.new \in AnyRow /\ poll.c \in Corp
    BY <1>2, PollKinds DEF StoreCorp, CorpPc, CorpRec
  <2>2. poll.new # NoRow
    BY <2>1, EsiConstants DEF AnyRow
  <2> QED
    BY <1>2, <2>1, <2>2 DEF StoreCorp, StoredCorps, Stored, TypeOK
<1> QED
  BY <1>1, <1>2, Frame

\* The rest of the list stays as it is while one entry is dealt with.
LEMMA SameEntry ==
  ASSUME TypeInv, StoredCorps \subseteq StoredCorps', UNCHANGED <<left, chars>>,
         poll.pc \in CorpPc \cup MovePc,
         poll'.pc \in CorpPc \cup MovePc \cup {"orphan"}, poll'.ch = poll.ch,
         poll.ch \in Char \/ poll'.pc \in CorpPc
  PROVE  Lists'
BY IdsAndIndices DEF TypeInv, TypeOK, Lists, CorpPc, MovePc

\* So do the ends of a character's update: the next one,
LEMMA NextEntry ==
  ASSUME TypeInv, StoredCorps \subseteq StoredCorps', UNCHANGED <<left, chars>>, poll.pc \in MovePc, NextChar
  PROVE  poll' \in PollState /\ Lists' /\ AllianceFirst'
BY DEF TypeInv, Lists, AllianceFirst, CorpPc, MovePc, NextChar, PollState

\* an error,
LEMMA FallenEntry ==
  ASSUME TypeInv, StoredCorps \subseteq StoredCorps', UNCHANGED <<left, chars>>, poll.pc \in MovePc, Fallen
  PROVE  poll' \in PollState /\ Lists' /\ AllianceFirst'
<1>1. poll' \in PollState /\ poll'.pc = "orphan" /\ poll'.ch = poll.ch /\ poll.ch \in Char
  BY FallenIs DEF TypeInv
<1> QED
  BY <1>1, SameEntry DEF AllianceFirst

\* the next step of updateCorporation,
LEMMA CorpEntry ==
  ASSUME TypeInv, StoredCorps \subseteq StoredCorps', UNCHANGED <<left, chars>>, poll.pc \in CorpPc,
         NEW p \in CorpPc, p # "alliance", p # "store" \/ poll.new.alliance \in alliances', To(p)
  PROVE  poll' \in PollState /\ Lists' /\ AllianceFirst'
<1>1. /\ poll' \in CorpRec /\ poll'.pc = p /\ poll'.ch = poll.ch /\ poll'.new = poll.new
  BY CorpGoes DEF TypeInv
<1> QED
  BY <1>1, SameEntry, RecsArePollStates DEF AllianceFirst

\* and of a move,
LEMMA MoveEntry ==
  ASSUME TypeInv, StoredCorps \subseteq StoredCorps', UNCHANGED <<left, chars>>,
         poll.pc \in MovePc, NEW p \in MovePc, To(p)
  PROVE  poll' \in PollState /\ Lists' /\ AllianceFirst'
<1>1. poll' \in MoveRec /\ poll'.pc = p /\ poll'.ch = poll.ch /\ poll.ch \in Char
  BY MoveGoes, MovesStored DEF TypeInv
<1> QED
  BY <1>1, SameEntry, RecsArePollStates DEF AllianceFirst, MovePc

\* the return from updateCorporation,
LEMMA ReturnEntry ==
  ASSUME TypeInv, StoredCorps \subseteq StoredCorps', UNCHANGED <<left, chars>>,
         poll.pc \in CorpPc, NEW ok \in BOOLEAN, Return(ok)
  PROVE  poll' \in PollState /\ Lists' /\ AllianceFirst'
<1>1. /\ poll' \in PollState
      /\ \/ poll.ch = NoChar /\ poll' = [pc |-> "corps"] /\ poll'.pc = "corps"
         \/ poll.ch \in Char /\ poll' = [pc |-> "orphan", ch |-> poll.ch]
         \/ poll.ch \in Char /\ poll'.pc = "moveRow" /\ poll'.ch = poll.ch
  BY ReturnIs DEF TypeInv
<1>2. CASE poll.ch = NoChar /\ poll'.pc = "corps"
  BY <1>1, <1>2 DEF TypeInv, Lists, AllianceFirst, CorpPc, MovePc
<1>3. CASE poll.ch \in Char /\ poll' = [pc |-> "orphan", ch |-> poll.ch]
  BY <1>1, <1>3, SameEntry DEF AllianceFirst
<1>4. CASE poll.ch \in Char /\ poll'.pc = "moveRow" /\ poll'.ch = poll.ch
  BY <1>1, <1>4, SameEntry DEF AllianceFirst, MovePc
<1> QED
  BY <1>1, <1>2, <1>3, <1>4

\* ESI's answer,
LEMMA GotEntry ==
  ASSUME TypeInv, StoredCorps \subseteq StoredCorps', UNCHANGED <<left, chars, alliances>>,
         poll.pc \in CorpPc, NEW r \in AnyRow, Got(r)
  PROVE  poll' \in PollState /\ Lists' /\ AllianceFirst'
<1>1. /\ poll' \in CorpRec /\ poll'.ch = poll.ch /\ poll'.new = r
      /\ poll'.pc = IF r.alliance = None THEN "store" ELSE "alliance"
  BY GotIs DEF TypeInv
<1> QED
  BY <1>1, SameEntry, RecsArePollStates DEF AllianceFirst, CorpPc

\* the rows read again,
LEMMA RereadEntry ==
  ASSUME TypeInv, StoredCorps \subseteq StoredCorps', UNCHANGED <<left, chars>>,
         poll.pc = "moveRow", NEW row, Reread(row)
  PROVE  poll' \in PollState /\ Lists' /\ AllianceFirst'
<1>1. Stored(home[poll.ch])
  BY MovesStored DEF MovePc
<1>2. poll' \in PollState /\ poll'.pc \in {"user", "orphan"} /\ poll'.ch = poll.ch /\ poll.ch \in Char
  BY <1>1, RereadIs DEF TypeInv
<1> QED
  BY <1>2, SameEntry DEF AllianceFirst, MovePc

\* and what follows the filters of corporations.
LEMMA AfterCorpsEntry ==
  ASSUME TypeInv, StoredCorps \subseteq StoredCorps', UNCHANGED <<left, chars>>,
         poll.pc = "joinCorp", AfterCorps
  PROVE  poll' \in PollState /\ Lists' /\ AllianceFirst'
<1>1. poll.pc \in MovePc
  BY DEF MovePc
<1> QED
  BY <1>1, MoveEntry, FallenEntry, NextEntry DEF AfterCorps, MovePc

\* The poller and its list, action by action.
LEMMA PollerStep ==
  ASSUME TypeInv, [Next]_vars
  PROVE  poll' \in PollState /\ left' \subseteq Alliance \cup Corp \cup Char /\ Lists' /\ AllianceFirst'
<1> DEFINE Goal == poll' \in PollState /\ left' \subseteq Alliance \cup Corp \cup Char /\ Lists' /\ AllianceFirst'
<1> USE EsiConstants, IdsAndIndices
<1>s. StoredCorps \subseteq StoredCorps'
  BY CorpsStay DEF TypeInv
<1>a. /\ poll \in PollState /\ left \subseteq Alliance \cup Corp \cup Char /\ Lists /\ AllianceFirst
      /\ chars \subseteq Char /\ alliances \subseteq Alliance
  BY DEF TypeInv, TypeOK
<1>b. Zero \in AnyRow /\ \A c \in Corp : esi[c] \in AnyRow
  BY DEF TypeInv, TypeOK, AnyRow
<1>1. ASSUME PollRound PROVE Goal
  BY <1>1, <1>a, <1>s DEF TypeInv, TypeOK, PollRound, tables, PollState, Lists, AllianceFirst, CorpPc, MovePc
<1>2. ASSUME PollCorps PROVE Goal
  BY <1>2, <1>a, <1>s DEF PollCorps, tables, StoredCorps, Stored, PollState, Lists,
     AllianceFirst, CorpPc, MovePc
<1>3. ASSUME PollChars PROVE Goal
  BY <1>3, <1>a, <1>s DEF PollChars, tables, PollState, Lists, AllianceFirst, CorpPc, MovePc
<1>4. ASSUME PollOrphan PROVE Goal
  BY <1>4, <1>a, <1>s DEF PollOrphan, NextChar, PollState, Lists, AllianceFirst, CorpPc, MovePc
<1>5. ASSUME PollEnd PROVE Goal
  BY <1>5, <1>a, <1>s DEF PollEnd, tables, PollState, Lists, AllianceFirst, CorpPc, MovePc, Idle
<1>6. ASSUME NEW a \in Alliance, PollAlliance(a) PROVE Goal
  BY <1>6, <1>a, <1>s DEF PollAlliance, Lists, AllianceFirst, CorpPc, MovePc
<1>7. ASSUME NEW c \in Corp, PollCorp(c) PROVE Goal
  <2> DEFINE q == [pc |-> "ask", ch |-> NoChar, c |-> c, old |-> corps[c], new |-> Zero]
  <2>1. corps[c] \in AnyRow
    BY <1>7, <1>a, <1>s DEF PollCorp, TypeInv, TypeOK, Lists, StoredCorps, Stored
  <2>2. q \in CorpRec /\ q.pc = "ask" /\ q.ch = NoChar
    BY <1>b, <2>1 DEF CorpRec, CorpPc
  <2>3. poll' = q /\ left' \subseteq left /\ UNCHANGED alliances
    BY <1>7 DEF PollCorp, tables
  <2>4. left \subseteq StoredCorps
    BY <1>7, <1>a DEF PollCorp, Lists
  <2> HIDE DEF q
  <2> QED
    BY <1>a, <1>s, <2>2, <2>3, <2>4, RecsArePollStates DEF Lists, AllianceFirst, MovePc
<1>8. ASSUME NEW ch \in Char, PollChar(ch) PROVE Goal
  <2> DEFINE q == [pc |-> "ask", ch |-> ch, c |-> esiCorp[ch], old |-> Zero, new |-> Zero]
             o == [pc |-> "orphan", ch |-> ch]
  <2>1. q \in CorpRec /\ q.pc = "ask" /\ q.ch = ch
    BY <1>b DEF CorpRec, CorpPc, TypeInv, TypeOK
  <2>2. o \in PollState /\ o.pc = "orphan" /\ o.ch = ch
    BY DEF PollState
  <2>3. poll' \in {q, o, poll} /\ left' = left \ {ch} /\ ch \in left /\ poll.pc = "chars" /\ chars' = chars
    BY <1>8 DEF PollChar, tables
  <2>4. ch # NoChar /\ left \subseteq chars
    BY <1>a, <2>3 DEF Lists
  <2> HIDE DEF q, o
  <2>5. CASE poll' = q
    BY <1>a, <2>1, <2>3, <2>4, <2>5, RecsArePollStates DEF Lists, AllianceFirst, CorpPc, MovePc
  <2>6. CASE poll' = o
    BY <1>a, <2>2, <2>3, <2>4, <2>6 DEF Lists, AllianceFirst, CorpPc, MovePc
  <2>7. CASE poll' = poll
    BY <1>a, <2>3, <2>4, <2>7 DEF Lists, AllianceFirst, CorpPc, MovePc
  <2> QED
    BY <2>3, <2>5, <2>6, <2>7
<1>9. ASSUME Ask PROVE Goal
  <2>1. poll.pc \in CorpPc
    BY <1>9 DEF Ask, CorpPc
  <2>2. esi[poll.c] \in AnyRow
    BY <1>b, <2>1, PollKinds DEF TypeInv, CorpRec
  <2> QED
    BY <1>9, <1>a, <1>s, <2>1, <2>2, GotEntry DEF Ask, tables
<1>10. ASSUME StoreAlliance PROVE Goal
  BY <1>10, <1>a, <1>s, CorpEntry DEF StoreAlliance, CorpPc
<1>11. ASSUME StoreCorp PROVE Goal
  BY <1>11, <1>a, <1>s, CorpEntry, NextCorpPc DEF StoreCorp, CorpPc, AfterStore
<1>12. ASSUME DropMembers PROVE Goal
  BY <1>12, <1>a, <1>s, CorpEntry, NextCorpPc DEF DropMembers, CorpPc, AfterDrop
<1>13. ASSUME TakeMembers PROVE Goal
  BY <1>13, <1>a, <1>s, CorpEntry DEF TakeMembers, CorpPc
<1>14. ASSUME AddRole PROVE Goal
  BY <1>14, <1>a, <1>s, ReturnEntry DEF AddRole, CorpPc
<1>15. ASSUME MoveRow PROVE Goal
  BY <1>15, <1>a, <1>s, RereadEntry DEF MoveRow
<1>16. ASSUME FindUser PROVE Goal
  <2>1. poll.pc \in MovePc /\ UNCHANGED <<left, chars>>
    BY <1>16 DEF FindUser, MovePc, tables
  <2>2. \/ Fallen
        \/ poll' \in MoveRec /\ poll'.pc = "leaveCorp" /\ poll'.ch = poll.ch /\ poll.ch \in Char
    BY <1>16, <2>1, FindUserIs, MovesStored DEF TypeInv
  <2>3. CASE Fallen
    BY <1>a, <1>s, <2>1, <2>3, FallenEntry
  <2>4. CASE poll' \in MoveRec /\ poll'.pc = "leaveCorp" /\ poll'.ch = poll.ch /\ poll.ch \in Char
    BY <1>a, <1>s, <2>1, <2>4, SameEntry, RecsArePollStates DEF AllianceFirst, MovePc
  <2> QED
    BY <2>2, <2>3, <2>4
<1>17. ASSUME LeaveCorp PROVE Goal
  BY <1>17, <1>a, <1>s, MoveEntry DEF LeaveCorp, MovePc
<1>18. ASSUME JoinCorp PROVE Goal
  BY <1>18, <1>a, <1>s, AfterCorpsEntry DEF JoinCorp
<1>19. ASSUME LeaveAlliance PROVE Goal
  BY <1>19, <1>a, <1>s, MoveEntry, FallenEntry DEF LeaveAlliance, MovePc
<1>20. ASSUME JoinAlliance PROVE Goal
  BY <1>20, <1>a, <1>s, NextEntry DEF JoinAlliance, MovePc
<1>21. ASSUME EsiFails PROVE Goal
  <2>1. UNCHANGED <<chars, alliances>>
    BY <1>21 DEF EsiFails, Fails
  <2>2. CASE poll.pc \in {"ask", "alliance"} /\ UNCHANGED left /\ Return(FALSE)
    BY <1>a, <1>s, <2>1, <2>2, ReturnEntry DEF CorpPc
  <2>3. CASE poll.pc = "ask" /\ UNCHANGED left /\ Got(Zero)
    BY <1>a, <1>s, <1>b, <2>1, <2>3, GotEntry DEF CorpPc
  <2>4. ASSUME NEW ch \in left, poll.pc = "chars", left' = left \ {ch}, poll' = [pc |-> "orphan", ch |-> ch]
        PROVE  Goal
    BY <1>a, <1>s, <2>1, <2>4 DEF PollState, Lists, AllianceFirst, CorpPc, MovePc
  <2> QED
    BY <1>21, <2>2, <2>3, <2>4 DEF EsiFails
<1>22. ASSUME AllianceFails PROVE Goal
  BY <1>22, <1>a, <1>s DEF AllianceFails, Fails, Lists, AllianceFirst, CorpPc, MovePc
<1>23. ASSUME DbFails PROVE Goal
  <2>1. UNCHANGED <<chars, left>>
    BY <1>23 DEF DbFails, Fails
  <2>2. CASE poll.pc \in {"alliance", "role"} /\ \E ok \in BOOLEAN : Return(ok)
    BY <1>a, <1>s, <2>1, <2>2, ReturnEntry DEF CorpPc
  <2>3. CASE poll.pc \in {"store", "drop", "take"} /\ \E p \in {AfterStore, AfterDrop, "role"} : To(p)
    BY <1>a, <1>s, <2>1, <2>3, CorpEntry, NextCorpPc DEF CorpPc, AfterStore, AfterDrop
  <2>4. CASE poll.pc \in MovePc /\ Fallen
    BY <1>a, <1>s, <2>1, <2>4, FallenEntry
  <2>5. CASE poll.pc \in MovePc /\ \E p \in MovePc : To(p)
    BY <1>a, <1>s, <2>1, <2>5, MoveEntry
  <2>6. CASE poll.pc = "joinCorp" /\ AfterCorps
    BY <1>a, <1>s, <2>1, <2>6, AfterCorpsEntry
  <2>7. CASE poll.pc = "joinAlliance" /\ NextChar
    BY <1>a, <1>s, <2>1, <2>7, NextEntry DEF MovePc
  <2>8. CASE poll.pc = "orphan" /\ NextChar
    BY <1>a, <1>s, <2>1, <2>8 DEF NextChar, PollState, Lists, AllianceFirst, CorpPc, MovePc
  <2>9. CASE poll.pc = "moveRow" /\ \E row \in Corp : Reread(row)
    BY <1>a, <1>s, <2>1, <2>9, RereadEntry
  <2>10. poll.pc = "moveRow" => home[poll.ch] \in Corp
    BY PollKinds DEF TypeInv, TypeOK, MoveRec, MovePc
  <2> HIDE DEF Goal
  <2> QED
    BY <1>23, <2>2, <2>3, <2>4, <2>5, <2>6, <2>7, <2>8, <2>9, <2>10 DEF DbFails, MovePc
<1>24. ASSUME Crash PROVE Goal
  BY <1>24, <1>a, <1>s DEF Crash, Fails, PollState, Lists, AllianceFirst, CorpPc, MovePc, Idle
<1>33. ASSUME AddFails PROVE Goal
  <2>1. UNCHANGED <<chars, left>>
    BY <1>33 DEF AddFails, Fails
  <2>2. CASE poll.pc = "alliance" /\ To("store") /\ poll.new.alliance \in alliances'
    BY <1>a, <1>s, <2>1, <2>2, CorpEntry DEF CorpPc
  <2>3. CASE poll.pc = "role" /\ Return(TRUE)
    BY <1>a, <1>s, <2>1, <2>3, ReturnEntry DEF CorpPc
  <2> HIDE DEF Goal
  <2> QED
    BY <1>33, <2>2, <2>3 DEF AddFails, AddCut
<1>25. ASSUME UNCHANGED <<poll, left, alliances>>, chars \subseteq chars' PROVE Goal
  BY <1>25, <1>a, <1>s DEF Lists, AllianceFirst
<1>26. ASSUME NEW ch \in Char, StoreChar(ch) PROVE Goal
  BY <1>s, <1>25, <1>26 DEF StoreChar, BotRest
<1>27. ASSUME NEW b \in Bot, BotStep(b) PROVE Goal
  BY <1>25, <1>27 DEF BotStep, Link, BotJoinsCorp, BotJoinsAlliance, BotRest
<1>32. ASSUME NEW b \in Bot, NEW u \in User, NEW ch \in Char, Confirm(b, u, ch) PROVE Goal
  BY <1>25, <1>32 DEF Confirm, BotRest, tables
<1>28. ASSUME GameStep PROVE Goal
  BY <1>25, <1>28 DEF GameStep, Move, Switch, Rename, Changing, tables
<1>29. ASSUME UNCHANGED vars PROVE Goal
  BY <1>25, <1>29 DEF vars, tables
<1> HIDE DEF Goal
<1>30. PollStep => Goal
  BY <1>1, <1>2, <1>3, <1>4, <1>5, <1>6, <1>7, <1>8, <1>9, <1>10, <1>11, <1>12, <1>13, <1>14,
     <1>15, <1>16, <1>17, <1>18, <1>19, <1>20 DEF PollStep, CorpStep, MoveStep
<1>31. Goal
  BY <1>21, <1>22, <1>23, <1>24, <1>26, <1>27, <1>28, <1>29, <1>30, <1>32, <1>33 DEF Next
<1> QED
  BY <1>31 DEF Goal

\* At the start the tables are consistent and nothing is under way.
LEMMA InitInv == TickersApart /\ Init => TypeInv
<1> SUFFICES ASSUME TickersApart, Init PROVE TypeInv
  OBVIOUS
<1> USE EsiConstants DEF Init
<1>1. \A c \in Corp : /\ esi[c] \in Row
                      /\ c \in Known => corps[c] = esi[c] /\ Stored(c)
                      /\ c \notin Known => ~Stored(c)
  BY DEF Stored
<1>2. \A c \in Corp : esi[c].ticker \in Name /\ esi[c].alliance \in Alliance \cup {None}
  BY <1>1 DEF Row
<1>3. corps \in [Corp -> AnyRow \cup {NoRow}]
  BY <1>1 DEF AnyRow
<1>4. /\ alliances \subseteq Alliance /\ roles \subseteq Ticker /\ named \subseteq Corp
      /\ filters \subseteq roles /\ attached \subseteq filters
  BY <1>2 DEF Ticker
<1>5. \A c \in Corp : Stored(c) => corps[c].alliance \in alliances \cup {None}
  BY <1>1, <1>2
<1>6. \A c, d \in Corp : Stored(c) /\ Stored(d) /\ corps[c].ticker = corps[d].ticker => c = d
  BY <1>1
<1>7. poll \in PollState /\ bot \in [Bot -> BotState]
  BY DEF PollState, BotState
<1>8. TypeOK
  BY <1>3, <1>4, <1>5, <1>6, <1>7 DEF TypeOK
<1>9. Lists /\ AllianceFirst /\ BotCorpStored /\ UserFound /\ UsersInCorps
  BY DEF Lists, AllianceFirst, BotCorpStored, UserFound, Late, UsersInCorps, Idle, CorpPc, MovePc, Ticker
<1> QED
  BY <1>8, <1>9 DEF TypeInv

\* What ESI answers, and the bounds.
LEMMA GameTyped ==
  ASSUME TypeOK, [Next]_vars
  PROVE  /\ esiCorp' \in [Char -> Corp] /\ esi' \in [Corp -> Row]
         /\ changed' \subseteq Changes /\ failures' \in 0..MaxFailures /\ changes' \in 0..MaxChanges
<1> USE EsiConstants
<1> DEFINE Goal == /\ esiCorp' \in [Char -> Corp] /\ esi' \in [Corp -> Row]
                   /\ changed' \subseteq Changes /\ changes' \in 0..MaxChanges
<1>1. ASSUME UNCHANGED <<game, changed, changes>> PROVE Goal
  BY <1>1 DEF TypeOK, game
<1>2. ASSUME NEW kind, Changing(kind)
      PROVE changed' \subseteq Changes /\ changes' \in 0..MaxChanges /\ failures' = failures
  BY <1>2 DEF Changing, TypeOK
<1>3. ASSUME NEW ch \in Char, NEW c \in Corp, Move(ch, c) PROVE Goal /\ failures' = failures
  BY <1>2, <1>3 DEF Move, TypeOK
<1>4. ASSUME NEW c \in Corp, NEW a \in Alliance \cup {None}, Switch(c, a) PROVE Goal /\ failures' = failures
  <2> DEFINE r == [esi[c] EXCEPT !.alliance = a]
  <2>2. esi' = [esi EXCEPT ![c] = r] /\ UNCHANGED esiCorp
    BY <1>4 DEF Switch
  <2>1. esi[c] \in Row
    BY DEF TypeOK
  <2>3. r \in Row
    BY <2>1 DEF Row
  <2> HIDE DEF r
  <2>4. esi' \in [Corp -> Row] /\ esiCorp' \in [Char -> Corp]
    BY <2>2, <2>3 DEF TypeOK
  <2>5. Changing("switch")
    BY <1>4 DEF Switch
  <2> QED
    BY <1>2, <2>4, <2>5
<1>5. ASSUME NEW c \in Corp, NEW t \in Name, Rename(c, t) PROVE Goal /\ failures' = failures
  <2> DEFINE r == [esi[c] EXCEPT !.ticker = t]
  <2>2. esi' = [esi EXCEPT ![c] = r] /\ UNCHANGED esiCorp
    BY <1>5 DEF Rename
  <2>1. esi[c] \in Row
    BY DEF TypeOK
  <2>3. r \in Row
    BY <2>1 DEF Row
  <2> HIDE DEF r
  <2>4. esi' \in [Corp -> Row] /\ esiCorp' \in [Char -> Corp]
    BY <2>2, <2>3 DEF TypeOK
  <2>5. Changing("rename")
    BY <1>5 DEF Rename
  <2> QED
    BY <1>2, <2>4, <2>5
<1>6. GameStep => Goal /\ failures' = failures
  BY <1>3, <1>4, <1>5 DEF GameStep
<1>7. ASSUME NEW kind, Fails(kind) PROVE Goal /\ failures' \in 0..MaxFailures
  BY <1>1, <1>7 DEF Fails, TypeOK
<1>8. CASE UNCHANGED bounds /\ UNCHANGED game
  BY <1>8 DEF bounds, game, TypeOK
<1>9. failures \in 0..MaxFailures
  BY DEF TypeOK
<1> HIDE DEF Goal
<1>10. (Goal /\ failures' \in 0..MaxFailures) \/ UNCHANGED <<game, bounds>>
  BY <1>6, <1>7, <1>9, Frame
<1> QED
  BY <1>8, <1>10 DEF Goal

\* A role, its filter and the link between them are written in this order, and
\* adding a role deletes none, whether or not it comes to its end.
LEMMA AddsKeep ==
  ASSUME TypeOK, NEW ts \in SUBSET Ticker, Adds(ts) \/ AddsPartly(ts)
  PROVE  /\ filters \subseteq filters' /\ filters' \subseteq roles' /\ roles' \subseteq Ticker
         /\ attached' \subseteq filters'
<1>1. roles \subseteq Ticker /\ filters \subseteq roles /\ attached \subseteq filters
  BY DEF TypeOK
<1>2. CASE Adds(ts)
  BY <1>1, <1>2 DEF Adds
<1>3. CASE AddsPartly(ts)
  BY <1>1, <1>3 DEF AddsPartly
<1> QED
  BY <1>2, <1>3

\* Alliances and filters are never deleted, and remain what they are.
LEMMA AlliancesTyped ==
  ASSUME TypeInv, [Next]_vars
  PROVE  /\ alliances \subseteq alliances' /\ alliances' \subseteq Alliance
         /\ filters \subseteq filters' /\ filters' \subseteq roles' /\ roles' \subseteq Ticker
         /\ attached' \subseteq filters' /\ named' \subseteq Corp
<1>1. /\ TypeOK /\ alliances \subseteq Alliance /\ named \subseteq Corp
      /\ roles \subseteq Ticker /\ filters \subseteq roles /\ attached \subseteq filters
  BY DEF TypeInv, TypeOK
<1>2. poll.pc \in CorpPc => poll.new \in AnyRow /\ poll.c \in Corp
  BY PollKinds DEF TypeInv, CorpRec
<1>3. ASSUME poll.pc = "alliance"
      PROVE poll.new.alliance \in Alliance /\ {poll.new.alliance} \ roles \in SUBSET Ticker
  BY <1>2, <1>3 DEF CorpPc, AnyRow, Row, Zero, TypeInv, AllianceFirst, Ticker
<1>4. ASSUME poll.pc = "role" PROVE Missing \in SUBSET Ticker /\ poll.c \in Corp
  BY <1>2, <1>4 DEF CorpPc, AnyRow, Row, Zero, Ticker, Missing
<1>5. ASSUME AddCut PROVE alliances \subseteq alliances' /\ alliances' \subseteq Alliance
  BY <1>1, <1>3, <1>5 DEF AddCut
<1>6. alliances \subseteq alliances' /\ alliances' \subseteq Alliance
  BY <1>1, <1>3, <1>5, Frame DEF StoreAlliance, DbFails, AddFails, Crash
<1>7. \/ UNCHANGED access
      \/ (\E ts \in SUBSET Ticker : Adds(ts) \/ AddsPartly(ts)) /\ (UNCHANGED named \/ (Naming /\ poll.c \in Corp))
  <2> DEFINE Goal == \/ UNCHANGED access
                     \/ /\ \E ts \in SUBSET Ticker : Adds(ts) \/ AddsPartly(ts)
                        /\ UNCHANGED named \/ (Naming /\ poll.c \in Corp)
  <2>1. ASSUME StoreAlliance PROVE Goal
    BY <1>3, <2>1 DEF StoreAlliance
  <2>2. ASSUME AddRole PROVE Goal
    BY <1>4, <2>2 DEF AddRole
  <2>3. ASSUME AddCut PROVE Goal
    BY <1>3, <1>4, <2>3 DEF AddCut
  <2>4. \A a \in Alliance : {a} \ roles \in SUBSET Ticker
    BY DEF Ticker
  <2>5. ASSUME NEW a \in Alliance, PollAlliance(a) PROVE Goal
    BY <2>4, <2>5 DEF PollAlliance
  <2>6. ASSUME AllianceFails PROVE Goal
    <3>1. left \subseteq Alliance
      BY <2>6 DEF AllianceFails, TypeInv, Lists
    <3> QED
      BY <2>4, <2>6, <3>1 DEF AllianceFails
  <2>7. AddFails => Goal
    BY <2>3 DEF AddFails
  <2>8. Crash => Goal
    BY <2>3 DEF Crash, access
  <2> HIDE DEF Goal
  <2>9. Goal
    <3>1. UNCHANGED access => Goal
      BY DEF Goal
    <3> QED
      BY <2>1, <2>2, <2>5, <2>6, <2>7, <2>8, <3>1, Frame
  <2> QED
    BY <2>9 DEF Goal
<1>8. named' \subseteq Corp
  BY <1>1, <1>7 DEF Naming, access
<1>9. /\ filters \subseteq filters' /\ filters' \subseteq roles' /\ roles' \subseteq Ticker
      /\ attached' \subseteq filters'
  BY <1>1, <1>7, AddsKeep DEF access
<1> QED
  BY <1>6, <1>8, <1>9

\* The rows of corporations keep their keys: a row is written only with an
\* alliance that is stored and a ticker no other row has.
LEMMA CorpsTyped ==
  ASSUME TypeInv, [Next]_vars
  PROVE  /\ corps' \in [Corp -> AnyRow \cup {NoRow}]
         /\ \A c \in Corp : Stored(c)' => corps'[c].alliance \in alliances' \cup {None}
         /\ \A c, d \in Corp : Stored(c)' /\ Stored(d)' /\ corps'[c].ticker = corps'[d].ticker => c = d
<1> DEFINE Goal == /\ corps' \in [Corp -> AnyRow \cup {NoRow}]
                   /\ \A c \in Corp : Stored(c)' => corps'[c].alliance \in alliances' \cup {None}
                   /\ \A c, d \in Corp : Stored(c)' /\ Stored(d)' /\ corps'[c].ticker = corps'[d].ticker => c = d
<1>1. alliances \subseteq alliances'
  BY AlliancesTyped
<1>2. ASSUME UNCHANGED corps PROVE Goal
  BY <1>1, <1>2 DEF TypeInv, TypeOK, Stored
<1>3. ASSUME StoreCorp PROVE Goal
  <2>1. poll.new \in AnyRow /\ poll.c \in Corp /\ poll.new.alliance \in alliances \cup {None}
    BY <1>3, PollKinds DEF StoreCorp, CorpPc, CorpRec, TypeInv, AllianceFirst
  <2>2. CASE UNCHANGED corps
    BY <1>2, <2>2
  <2>3. CASE /\ corps' = [corps EXCEPT ![poll.c] = poll.new]
             /\ \A d \in Corp \ {poll.c} : Stored(d) => corps[d].ticker # poll.new.ticker
    <3>1. corps' \in [Corp -> AnyRow \cup {NoRow}]
      BY <2>1, <2>3 DEF TypeInv, TypeOK
    <3>2. \A c \in Corp : corps'[c] = IF c = poll.c THEN poll.new ELSE corps[c]
      BY <2>1, <2>3 DEF TypeInv, TypeOK
    <3>3. \A c \in Corp : Stored(c)' => corps'[c].alliance \in alliances' \cup {None}
      BY <1>1, <2>1, <3>2 DEF TypeInv, TypeOK, Stored
    <3>4. \A c, d \in Corp : Stored(c)' /\ Stored(d)' /\ corps'[c].ticker = corps'[d].ticker => c = d
      BY <2>3, <3>2 DEF TypeInv, TypeOK, Stored
    <3> QED
      BY <3>1, <3>3, <3>4
  <2> QED
    BY <1>3, <2>2, <2>3 DEF StoreCorp
<1> HIDE DEF Goal
<1>4. Goal
  BY <1>2, <1>3, Frame
<1> QED
  BY <1>4 DEF Goal

\* The row of a character is only given a corporation that is stored.
LEMMA HomeTyped ==
  ASSUME TypeInv, [Next]_vars
  PROVE  /\ chars' \subseteq Char /\ home' \in [Char -> Corp]
         /\ \A ch \in chars' : Stored(home'[ch])
         /\ \A ch \in Char : home'[ch] # home[ch] => Stored(home'[ch])
<1>1. chars \subseteq Char /\ home \in [Char -> Corp] /\ \A ch \in chars : Stored(home[ch])
  BY DEF TypeInv, TypeOK
<1>2. poll.pc = "moveRow" => poll.ch \in Char /\ poll.c \in Corp
  BY PollKinds DEF TypeInv, MovePc, MoveRec
<1>3. ASSUME NEW ch \in Char, StoreChar(ch)
      PROVE  /\ chars' = chars \cup {ch} /\ home' \in [Char -> Corp] /\ Stored(home'[ch])
             /\ \A d \in Char \ {ch} : home'[d] = home[d]
  BY <1>1, <1>3 DEF StoreChar, Welcome, Stored, TypeInv, TypeOK
<1>4. ASSUME Reread(home[poll.ch]), poll.pc = "moveRow" PROVE home' = home
  <2>1. [home EXCEPT ![poll.ch] = home[poll.ch]] = home
    BY <1>1, <1>2, <1>4
  <2> QED
    BY <1>4, <2>1 DEF Reread
<1>5. MoveRow => home' = home \/ (Stored(poll.c) /\ poll.pc = "moveRow" /\ home' = [home EXCEPT ![poll.ch] = poll.c])
  BY DEF MoveRow, Reread
<1>6. DbFails => home' = home \/ (Stored(poll.c) /\ poll.pc = "moveRow" /\ home' = [home EXCEPT ![poll.ch] = poll.c])
  <2>1. DbFails => \/ home' = home
                   \/ poll.pc = "moveRow" /\ Reread(home[poll.ch])
                   \/ Stored(poll.c) /\ poll.pc = "moveRow" /\ home' = [home EXCEPT ![poll.ch] = poll.c]
    BY Zenon DEF DbFails
  <2> QED
    BY <1>4, <2>1
<1>7. CASE Stored(poll.c) /\ poll.pc = "moveRow" /\ home' = [home EXCEPT ![poll.ch] = poll.c] /\ UNCHANGED chars
  BY <1>1, <1>2, <1>7
<1>8. UNCHANGED chars \/ (PollOrphan /\ UNCHANGED home) \/ \E ch \in Char : StoreChar(ch)
  BY Frame DEF PollOrphan
<1>9. PollOrphan => chars' \subseteq chars
  BY DEF PollOrphan
<1>10. CASE \E ch \in Char : StoreChar(ch)
  BY <1>1, <1>3, <1>10
<1>11. CASE UNCHANGED home /\ chars' \subseteq chars
  BY <1>1, <1>11
<1> QED
  BY <1>5, <1>6, <1>7, <1>8, <1>9, <1>10, <1>11, Frame DEF MoveRow, DbFails, Fails

\* Links are of stored characters: one with an owner is not deleted.
LEMMA LinkedTyped ==
  ASSUME TypeInv, [Next]_vars
  PROVE  linked \subseteq linked' /\ linked' \subseteq User \X chars'
<1>1. linked \subseteq User \X chars /\ chars \subseteq Char
  BY DEF TypeInv, TypeOK
<1>2. PollOrphan => linked' = linked /\ linked \subseteq User \X chars'
  BY <1>1 DEF PollOrphan, Owners
<1>3. (\E ch \in Char : StoreChar(ch)) => linked' = linked /\ chars \subseteq chars'
  BY DEF StoreChar
<1>4. ASSUME NEW b \in Bot, Link(b)
      PROVE  chars' = chars /\ linked \subseteq linked' /\ linked' \subseteq User \X chars
  <2>1. bot[b].u \in User /\ bot[b].ch \in Char
    BY <1>4 DEF Link, TypeInv, TypeOK, BotState, Idle
  <2> QED
    BY <1>1, <1>4, <2>1 DEF Link
<1>5. CASE chars' = chars
  BY <1>1, <1>4, <1>5, Frame
<1> QED
  BY <1>1, <1>2, <1>3, <1>5, Frame

\* A command is idle or knows its user and its character.
LEMMA BotKinds ==
  ASSUME TypeOK, NEW b \in Bot
  PROVE  /\ bot[b].pc \in {"idle", "link", "corp", "ally"}
         /\ bot[b].pc = "idle" <=> bot[b] = Idle
         /\ bot[b].pc # "idle" => bot[b].u \in User /\ bot[b].ch \in Char
         /\ bot[b].pc \in {"link", "corp"} =>
              bot[b].c \in Corp /\ bot[b] \in [pc : {"link", "corp"}, u : User, ch : Char, c : Corp]
         /\ bot[b].pc = "ally" => bot[b].a \in Alliance
BY DEF TypeOK, BotState, Idle

\* What each step of a command does to it.
LEMMA BotMoves ==
  ASSUME TypeInv, [Next]_vars, NEW b \in Bot
  PROVE  \/ bot'[b] = bot[b]
         \/ bot'[b] = Idle
         \/ \E u \in User, ch \in chars : /\ bot[b] = Idle /\ Confirm(b, u, ch)
                                         /\ bot'[b] = [pc |-> "link", u |-> u, ch |-> ch, c |-> home[ch]]
         \/ /\ bot[b].pc = "link" /\ Link(b) /\ bot'[b].pc = "corp"
            /\ bot'[b] \in [pc : {"corp"}, u : User, ch : Char, c : Corp]
            /\ bot'[b].u = bot[b].u /\ bot'[b].ch = bot[b].ch /\ bot'[b].c = bot[b].c
            /\ linked' = linked \cup {<<bot[b].u, bot[b].ch>>}
         \/ /\ bot[b].pc = "corp" /\ BotJoinsCorp(b) /\ corps[bot[b].c].alliance # None
            /\ bot'[b] = [pc |-> "ally", u |-> bot[b].u, ch |-> bot[b].ch, a |-> corps[bot[b].c].alliance]
<1> DEFINE Goal ==
         \/ bot'[b] = bot[b]
         \/ bot'[b] = Idle
         \/ \E u \in User, ch \in chars : /\ bot[b] = Idle /\ Confirm(b, u, ch)
                                         /\ bot'[b] = [pc |-> "link", u |-> u, ch |-> ch, c |-> home[ch]]
         \/ /\ bot[b].pc = "link" /\ Link(b) /\ bot'[b].pc = "corp"
            /\ bot'[b] \in [pc : {"corp"}, u : User, ch : Char, c : Corp]
            /\ bot'[b].u = bot[b].u /\ bot'[b].ch = bot[b].ch /\ bot'[b].c = bot[b].c
            /\ linked' = linked \cup {<<bot[b].u, bot[b].ch>>}
         \/ /\ bot[b].pc = "corp" /\ BotJoinsCorp(b) /\ corps[bot[b].c].alliance # None
            /\ bot'[b] = [pc |-> "ally", u |-> bot[b].u, ch |-> bot[b].ch, a |-> corps[bot[b].c].alliance]
<1>0. bot \in [Bot -> BotState]
  BY DEF TypeInv, TypeOK
<1>1. ASSUME Crash PROVE Goal
  BY <1>0, <1>1 DEF Crash
<1>2. ASSUME NEW d \in Bot, NEW u \in User, NEW ch \in Char, Confirm(d, u, ch) PROVE Goal
  BY <1>0, <1>2 DEF Confirm
<1>3. ASSUME NEW d \in Bot, Link(d) PROVE Goal
  <2>1. CASE d # b
    BY <1>0, <1>3, <2>1 DEF Link, EndBot
  <2>2. CASE bot' = [bot EXCEPT ![b] = Idle]
    BY <1>0, <2>2
  <2>3. CASE d = b /\ linked' = linked \cup {<<bot[b].u, bot[b].ch>>} /\ bot' = [bot EXCEPT ![b].pc = "corp"]
    <3>1. bot[b] \in [pc : {"link", "corp"}, u : User, ch : Char, c : Corp] /\ bot[b].pc = "link" /\ Link(b)
      BY <1>3, <2>3, BotKinds DEF Link, TypeInv
    <3>2. bot'[b] = [bot[b] EXCEPT !.pc = "corp"]
      BY <1>0, <2>3
    <3>3. /\ bot'[b] \in [pc : {"corp"}, u : User, ch : Char, c : Corp] /\ bot'[b].pc = "corp"
          /\ bot'[b].u = bot[b].u /\ bot'[b].ch = bot[b].ch /\ bot'[b].c = bot[b].c
      BY <3>1, <3>2
    <3> QED
      BY <2>3, <3>1, <3>3
  <2> HIDE DEF Goal
  <2> QED
    BY <1>3, <2>1, <2>2, <2>3 DEF Link, EndBot
<1>4. ASSUME NEW d \in Bot, BotJoinsCorp(d) PROVE Goal
  BY <1>0, <1>4 DEF BotJoinsCorp
<1>5. ASSUME NEW d \in Bot, BotJoinsAlliance(d) PROVE Goal
  BY <1>0, <1>5 DEF BotJoinsAlliance, EndBot
<1>6. UNCHANGED bot => Goal
  OBVIOUS
<1> HIDE DEF Goal
<1>7. Goal
  BY <1>1, <1>2, <1>3, <1>4, <1>5, <1>6, Frame DEF BotStep
<1> QED
  BY <1>7 DEF Goal

\* How the poller gets on within updateCorporation.
LEMMA CorpMoves ==
  ASSUME TypeInv, [Next]_vars, poll'.pc \in CorpPc
  PROVE  \/ poll' = poll
         \/ poll'.pc = "ask"
         \/ /\ poll.pc = "ask" /\ poll'.pc \in {"alliance", "store"}
            /\ poll'.ch = poll.ch /\ poll'.c = poll.c /\ poll'.old = poll.old
            /\ \/ Ask /\ poll'.new = esi[poll.c]
               \/ EsiFails
         \/ /\ poll.pc \in CorpPc \ {"ask"} /\ poll'.pc \in CorpPc \ {"ask", "alliance"}
            /\ poll'.ch = poll.ch /\ poll'.c = poll.c /\ poll'.old = poll.old /\ poll'.new = poll.new
<1> DEFINE Goal ==
         \/ poll' = poll
         \/ poll'.pc = "ask"
         \/ /\ poll.pc = "ask" /\ poll'.pc \in {"alliance", "store"}
            /\ poll'.ch = poll.ch /\ poll'.c = poll.c /\ poll'.old = poll.old
            /\ \/ Ask /\ poll'.new = esi[poll.c]
               \/ EsiFails
         \/ /\ poll.pc \in CorpPc \ {"ask"} /\ poll'.pc \in CorpPc \ {"ask", "alliance"}
            /\ poll'.ch = poll.ch /\ poll'.c = poll.c /\ poll'.old = poll.old /\ poll'.new = poll.new
<1>0. poll' # poll => PollStep \/ EsiFails \/ AllianceFails \/ AddFails \/ DbFails \/ Crash
  BY Frame
<1>a. TypeOK
  BY DEF TypeInv
<1>1. ASSUME NEW p \in {"store", "drop", "take", "role"}, poll.pc \in CorpPc \ {"ask"}, To(p) PROVE Goal
  <2>1. p \in CorpPc \ {"ask", "alliance"} /\ poll.pc \in CorpPc
    BY <1>1 DEF CorpPc
  <2> QED
    BY <1>1, <1>a, <2>1, CorpGoes
<1>2. ASSUME NEW ok \in BOOLEAN, Return(ok), poll.pc \in CorpPc PROVE FALSE
  BY <1>2, <1>a, ReturnIs DEF CorpPc
<1>3. ASSUME poll'.pc \in MovePc \cup {"idle", "alliances", "corps", "chars", "orphan"} PROVE FALSE
  BY <1>3 DEF CorpPc, MovePc
<1>4. ASSUME NEW x \in AnyRow, poll.pc = "ask", Got(x)
      PROVE  /\ poll'.pc \in {"alliance", "store"} /\ poll'.ch = poll.ch /\ poll'.c = poll.c
             /\ poll'.old = poll.old /\ poll'.new = x
  BY <1>4, <1>a, GotIs DEF CorpPc
<1>5. ASSUME Ask PROVE Goal
  <2>1. esi[poll.c] \in AnyRow
    BY <1>5, <1>a, PollKinds DEF Ask, CorpPc, CorpRec, TypeOK, AnyRow
  <2> QED
    BY <1>4, <1>5, <2>1 DEF Ask
<1>6. ASSUME EsiFails PROVE Goal
  <2>1. Zero \in AnyRow
    BY DEF AnyRow
  <2>2. \/ poll.pc \in CorpPc /\ Return(FALSE)
        \/ poll.pc = "ask" /\ Got(Zero)
        \/ \E ch : poll' = [pc |-> "orphan", ch |-> ch]
    BY <1>6, Zenon DEF EsiFails, CorpPc
  <2>3. ~(poll.pc \in CorpPc /\ Return(FALSE))
    BY <1>2
  <2>4. ~(\E ch : poll' = [pc |-> "orphan", ch |-> ch])
    BY <1>3
  <2>5. ASSUME poll.pc = "ask", Got(Zero) PROVE Goal
    BY <1>4, <1>6, <2>1, <2>5
  <2> HIDE DEF Goal
  <2> QED
    BY <2>2, <2>3, <2>4, <2>5
<1>7. ASSUME StoreAlliance \/ StoreCorp \/ DropMembers \/ TakeMembers \/ AddRole PROVE Goal
  BY <1>1, <1>2, <1>7 DEF StoreAlliance, StoreCorp, DropMembers, TakeMembers, AddRole,
     AfterStore, AfterDrop, CorpPc
<1>8. ASSUME MoveStep PROVE Goal
  <2>1. poll.pc \in MovePc
    BY <1>8 DEF MoveStep, MoveRow, FindUser, LeaveCorp, JoinCorp, LeaveAlliance, JoinAlliance, MovePc
  <2>2. ASSUME NEW p \in MovePc, To(p) PROVE FALSE
    BY <1>3, <1>a, <2>1, <2>2, MoveGoes
  <2>3. ~Fallen /\ ~NextChar
    BY <1>3, <1>a, <2>1, FallenIs DEF NextChar
  <2>4. ~MoveRow
    BY <1>3, <1>a, <2>1, RereadIs, MovesStored DEF MoveRow, MovePc
  <2>5. ~FindUser
    BY <1>3, <1>a, <2>3, FindUserIs DEF MovePc
  <2> QED
    BY <1>8, <2>2, <2>3, <2>4, <2>5 DEF MoveStep, LeaveCorp, JoinCorp, AfterCorps, LeaveAlliance,
       JoinAlliance, MovePc
<1>9. ASSUME PollRound \/ PollCorps \/ PollChars \/ PollOrphan \/ PollEnd \/ AllianceFails \/ Crash PROVE Goal
  BY <1>3, <1>9 DEF PollRound, PollCorps, PollChars, PollOrphan, NextChar, PollEnd, AllianceFails, Crash, Idle
<1>10. ASSUME NEW a \in Alliance, PollAlliance(a) PROVE Goal
  BY <1>10 DEF PollAlliance
<1>11. ASSUME NEW c \in Corp, PollCorp(c) PROVE Goal
  BY <1>11 DEF PollCorp
<1>12. ASSUME NEW ch \in Char, PollChar(ch) PROVE Goal
  BY <1>3, <1>12 DEF PollChar
<1>13. ASSUME DbFails PROVE Goal
  <2>1. CASE poll.pc \in CorpPc
    BY <1>1, <1>2, <1>13, <2>1 DEF DbFails, AfterStore, AfterDrop, CorpPc
  <2>2. CASE poll.pc \in MovePc
    <3>1. ASSUME NEW p \in MovePc, To(p) PROVE FALSE
      BY <1>3, <1>a, <2>2, <3>1, MoveGoes
    <3>2. ~Fallen /\ ~NextChar
      BY <1>3, <1>a, <2>2, FallenIs DEF NextChar
    <3>3. ASSUME NEW row, poll.pc = "moveRow", Reread(row) PROVE FALSE
      BY <1>3, <1>a, <2>2, <3>3, RereadIs, MovesStored DEF MovePc
    <3>4. ~AfterCorps
      BY <3>1, <3>2 DEF AfterCorps, MovePc
    <3> HIDE DEF Goal
    <3> QED
      BY <1>13, <2>2, <3>1, <3>2, <3>3, <3>4 DEF DbFails, MovePc
  <2>3. CASE poll.pc = "orphan"
    BY <1>3, <1>13, <2>3 DEF DbFails, NextChar
  <2> HIDE DEF Goal
  <2> QED
    BY <1>13, <2>1, <2>2, <2>3 DEF DbFails, CorpPc, MovePc
<1>17. ASSUME AddFails PROVE Goal
  BY <1>1, <1>2, <1>17 DEF AddFails, AddCut, CorpPc
<1> HIDE DEF Goal
<1>14. PollStep => Goal
  BY <1>5, <1>7, <1>8, <1>9, <1>10, <1>11, <1>12 DEF PollStep, CorpStep
<1>15. poll' = poll => Goal
  BY DEF Goal
<1>16. Goal
  BY <1>0, <1>6, <1>9, <1>13, <1>14, <1>15, <1>17
<1> QED
  BY <1>16 DEF Goal

\* How it gets on with a character that moves.
LEMMA MoveMoves ==
  ASSUME TypeInv, [Next]_vars, poll'.pc \in MovePc
  PROVE  \/ poll' = poll
         \/ /\ poll.pc = "role" /\ (AddRole \/ AddFails)
            /\ poll'.pc = "moveRow" /\ poll'.ch = poll.ch /\ poll'.c = poll.c /\ poll'.new = poll.new
         \/ /\ poll.pc = "moveRow" /\ (MoveRow \/ DbFails)
            /\ Stored(poll.c) /\ poll'.pc = "user" /\ poll'.ch = poll.ch /\ poll'.c = poll.c
            /\ poll'.old = corps[home[poll.ch]] /\ poll'.new = corps[poll.c]
         \/ /\ poll.pc = "user" /\ FindUser
            /\ poll'.pc = "leaveCorp" /\ poll'.ch = poll.ch /\ poll'.c = poll.c
            /\ poll'.old = poll.old /\ poll'.new = poll.new /\ poll'.u \in Owners(poll.ch)
         \/ /\ poll.pc \in Late /\ poll'.pc \in Late /\ poll'.ch = poll.ch /\ poll'.c = poll.c
            /\ poll'.old = poll.old /\ poll'.new = poll.new /\ poll'.u = poll.u
            /\ \/ LeaveCorp /\ poll'.pc = "joinCorp"
               \/ JoinCorp /\ poll'.pc = "leaveAlliance"
               \/ LeaveAlliance /\ poll'.pc = "joinAlliance"
               \/ DbFails
<1> DEFINE Goal ==
         \/ poll' = poll
         \/ /\ poll.pc = "role" /\ (AddRole \/ AddFails)
            /\ poll'.pc = "moveRow" /\ poll'.ch = poll.ch /\ poll'.c = poll.c /\ poll'.new = poll.new
         \/ /\ poll.pc = "moveRow" /\ (MoveRow \/ DbFails)
            /\ Stored(poll.c) /\ poll'.pc = "user" /\ poll'.ch = poll.ch /\ poll'.c = poll.c
            /\ poll'.old = corps[home[poll.ch]] /\ poll'.new = corps[poll.c]
         \/ /\ poll.pc = "user" /\ FindUser
            /\ poll'.pc = "leaveCorp" /\ poll'.ch = poll.ch /\ poll'.c = poll.c
            /\ poll'.old = poll.old /\ poll'.new = poll.new /\ poll'.u \in Owners(poll.ch)
         \/ /\ poll.pc \in Late /\ poll'.pc \in Late /\ poll'.ch = poll.ch /\ poll'.c = poll.c
            /\ poll'.old = poll.old /\ poll'.new = poll.new /\ poll'.u = poll.u
            /\ \/ LeaveCorp /\ poll'.pc = "joinCorp"
               \/ JoinCorp /\ poll'.pc = "leaveAlliance"
               \/ LeaveAlliance /\ poll'.pc = "joinAlliance"
               \/ DbFails
<1>0. poll' # poll => PollStep \/ EsiFails \/ AllianceFails \/ AddFails \/ DbFails \/ Crash
  BY Frame
<1>a. TypeOK
  BY DEF TypeInv
<1>1. poll'.pc \notin CorpPc \cup {"idle", "alliances", "corps", "chars", "orphan"}
  BY DEF CorpPc, MovePc
<1>2. ASSUME NEW p \in CorpPc, poll.pc \in CorpPc, To(p) PROVE FALSE
  BY <1>1, <1>2, <1>a, CorpGoes
<1>3. ASSUME NEW x \in AnyRow, poll.pc \in CorpPc, Got(x) PROVE FALSE
  BY <1>1, <1>3, <1>a, GotIs DEF CorpPc
<1>4. ASSUME Return(FALSE), poll.pc \in CorpPc PROVE FALSE
  <2>1. poll' = [pc |-> "corps"] \/ poll' = [pc |-> "orphan", ch |-> poll.ch]
    BY <1>4 DEF Return
  <2> QED
    BY <1>1, <2>1
<1>5. ASSUME NEW ok \in BOOLEAN, Return(ok), poll.pc = "role"
      PROVE  poll'.pc = "moveRow" /\ poll'.ch = poll.ch /\ poll'.c = poll.c /\ poll'.new = poll.new
  BY <1>1, <1>5, <1>a, ReturnIs DEF CorpPc
<1>6. Zero \in AnyRow /\ (poll.pc = "ask" => esi[poll.c] \in AnyRow)
  BY <1>a, PollKinds DEF CorpPc, CorpRec, TypeOK, AnyRow
<1>7. ASSUME CorpStep PROVE Goal
  <2>1. ~Ask
    BY <1>3, <1>6 DEF Ask, CorpPc
  <2>2. ~StoreAlliance /\ ~StoreCorp /\ ~DropMembers /\ ~TakeMembers
    BY <1>2, NextCorpPc DEF StoreAlliance, StoreCorp, DropMembers, TakeMembers, CorpPc
  <2>3. AddRole => Goal
    BY <1>5 DEF AddRole
  <2> QED
    BY <1>7, <2>1, <2>2, <2>3 DEF CorpStep
<1>8. poll.pc = "moveRow" => Stored(home[poll.ch])
  BY MovesStored DEF MovePc
<1>9. ASSUME NEW row, poll.pc = "moveRow", Reread(row)
      PROVE  /\ Stored(poll.c) /\ poll'.pc = "user" /\ poll'.ch = poll.ch /\ poll'.c = poll.c
             /\ poll'.old = corps[home[poll.ch]] /\ poll'.new = corps[poll.c]
  BY <1>1, <1>8, <1>9, <1>a, RereadIs
<1>10. ~Fallen /\ ~NextChar
  BY <1>1 DEF Fallen, NextChar
<1>11. ASSUME NEW p \in Late, poll.pc \in Late, To(p)
       PROVE  /\ poll'.pc = p /\ poll'.ch = poll.ch /\ poll'.c = poll.c
              /\ poll'.old = poll.old /\ poll'.new = poll.new /\ poll'.u = poll.u
  BY <1>11, <1>a, MoveGoes DEF Late
<1>12. ASSUME MoveRow PROVE Goal
  BY <1>9, <1>12 DEF MoveRow
<1>13. ASSUME FindUser PROVE Goal
  BY <1>10, <1>13, <1>a, FindUserIs DEF FindUser
<1>14. ASSUME LeaveCorp PROVE Goal
  BY <1>11, <1>14 DEF LeaveCorp, Late, MovePc
<1>15. ASSUME JoinCorp PROVE Goal
  BY <1>10, <1>11, <1>15 DEF JoinCorp, AfterCorps, Late, MovePc
<1>16. ASSUME LeaveAlliance PROVE Goal
  BY <1>10, <1>11, <1>16 DEF LeaveAlliance, Late, MovePc
<1>17. ASSUME JoinAlliance PROVE Goal
  BY <1>10, <1>17 DEF JoinAlliance
<1>18. ASSUME EsiFails PROVE Goal
  <2>1. \/ poll.pc \in CorpPc /\ Return(FALSE)
        \/ poll.pc \in CorpPc /\ Got(Zero)
        \/ \E ch : poll' = [pc |-> "orphan", ch |-> ch]
    BY <1>18, Zenon DEF EsiFails, CorpPc
  <2>2. ~(poll.pc \in CorpPc /\ Return(FALSE))
    BY <1>4
  <2>3. ~(poll.pc \in CorpPc /\ Got(Zero))
    BY <1>3, <1>6
  <2>4. ~(\E ch : poll' = [pc |-> "orphan", ch |-> ch])
    BY <1>1
  <2> QED
    BY <2>1, <2>2, <2>3, <2>4
<1>19. ASSUME PollRound \/ PollCorps \/ PollChars \/ PollOrphan \/ PollEnd \/ AllianceFails \/ Crash PROVE Goal
  BY <1>1, <1>19 DEF PollRound, PollCorps, PollChars, PollOrphan, NextChar, PollEnd,
     AllianceFails, Crash, Idle
<1>20. ASSUME NEW a \in Alliance, PollAlliance(a) PROVE Goal
  BY <1>20 DEF PollAlliance
<1>21. ASSUME NEW c \in Corp, PollCorp(c) PROVE Goal
  BY <1>1, <1>21 DEF PollCorp, CorpPc
<1>22. ASSUME NEW ch \in Char, PollChar(ch) PROVE Goal
  BY <1>1, <1>22 DEF PollChar, CorpPc
<1>23. ASSUME DbFails PROVE Goal
  <2>1. CASE poll.pc \in CorpPc
    BY <1>2, <1>4, <1>23, <2>1, NextCorpPc DEF DbFails, CorpPc
  <2>2. CASE poll.pc \in MovePc
    <3>1. ASSUME NEW p \in Late, poll.pc \in Late, To(p) PROVE Goal
      BY <1>11, <1>23, <3>1
    <3>2. ASSUME NEW row, poll.pc = "moveRow", Reread(row) PROVE Goal
      BY <1>9, <1>23, <3>2
    <3>3. poll.pc = "joinCorp" /\ AfterCorps => Goal
      BY <1>10, <3>1 DEF AfterCorps, Late, MovePc
    <3> HIDE DEF Goal
    <3> QED
      BY <1>10, <1>23, <2>2, <3>1, <3>2, <3>3 DEF DbFails, Late, MovePc
  <2>3. CASE poll.pc = "orphan"
    BY <1>10, <1>23, <2>3 DEF DbFails
  <2> HIDE DEF Goal
  <2> QED
    BY <1>23, <2>1, <2>2, <2>3 DEF DbFails, CorpPc, MovePc
<1>27. ASSUME AddFails PROVE Goal
  BY <1>2, <1>5, <1>27 DEF AddFails, AddCut, CorpPc
<1> HIDE DEF Goal
<1>24. PollStep => Goal
  BY <1>7, <1>12, <1>13, <1>14, <1>15, <1>16, <1>17, <1>19, <1>20, <1>21, <1>22 DEF PollStep, MoveStep
<1>25. poll' = poll => Goal
  BY DEF Goal
<1>26. Goal
  BY <1>0, <1>18, <1>19, <1>23, <1>24, <1>25, <1>27
<1> QED
  BY <1>26 DEF Goal

\* A link is never deleted: the user found stays the character's.
LEMMA UserFoundStep ==
  ASSUME TypeInv, [Next]_vars
  PROVE  UserFound'
<1> SUFFICES ASSUME poll'.pc \in Late PROVE <<poll'.u, poll'.ch>> \in linked'
  BY DEF UserFound
<1>1. linked \subseteq linked'
  BY LinkedTyped
<1>2. poll'.pc \in MovePc /\ poll'.pc \notin {"moveRow", "user"}
  BY DEF Late
<1>3. \/ poll.pc \in Late /\ poll'.u = poll.u /\ poll'.ch = poll.ch
      \/ poll'.u \in Owners(poll.ch) /\ poll'.ch = poll.ch
  BY <1>2, MoveMoves
<1> QED
  BY <1>1, <1>3 DEF TypeInv, UserFound, Owners

\* Commands keep their types, and their corporations are stored.
LEMMA BotTyped ==
  ASSUME TypeInv, [Next]_vars
  PROVE  bot' \in [Bot -> BotState] /\ BotCorpStored'
<1>1. bot \in [Bot -> BotState] /\ BotCorpStored
  BY DEF TypeInv, TypeOK
<1>2. ASSUME NEW b \in Bot
      PROVE  bot'[b] \in BotState /\ (bot'[b].pc \in {"link", "corp"} => bot'[b].c \in StoredCorps)
  <2>1. CASE bot'[b] = bot[b]
    BY <1>1, <2>1, BotKinds DEF TypeInv, BotCorpStored, StoredCorps
  <2>2. CASE bot'[b] = Idle
    BY <2>2 DEF BotState, Idle
  <2>3. CASE \E u \in User, ch \in chars : bot'[b] = [pc |-> "link", u |-> u, ch |-> ch, c |-> home[ch]]
    BY <2>3 DEF BotState, TypeInv, TypeOK, StoredCorps
  <2>4. CASE /\ bot[b].pc = "link" /\ bot'[b] \in [pc : {"corp"}, u : User, ch : Char, c : Corp]
             /\ bot'[b].c = bot[b].c
    BY <1>1, <2>4, BotKinds DEF BotState, TypeInv, BotCorpStored, StoredCorps
  <2>5. CASE /\ bot[b].pc = "corp" /\ corps[bot[b].c].alliance # None
             /\ bot'[b] = [pc |-> "ally", u |-> bot[b].u, ch |-> bot[b].ch, a |-> corps[bot[b].c].alliance]
    <3>1. bot[b].u \in User /\ bot[b].ch \in Char /\ bot[b].c \in Corp /\ Stored(bot[b].c)
      BY <1>1, <2>5, BotKinds DEF TypeInv, BotCorpStored
    <3>2. corps[bot[b].c].alliance \in Alliance
      BY <2>5, <3>1 DEF TypeInv, TypeOK
    <3> DEFINE x == corps[bot[b].c].alliance
    <3> HIDE DEF x
    <3>3. bot'[b] = [pc |-> "ally", u |-> bot[b].u, ch |-> bot[b].ch, a |-> x] /\ x \in Alliance
      BY <2>5, <3>2 DEF x
    <3> QED
      BY <3>1, <3>3 DEF BotState
  <2> QED
    BY <2>1, <2>2, <2>3, <2>4, <2>5, BotMoves
<1>3. bot' = [b \in Bot |-> bot'[b]]
  <2>1. CASE \E b \in Bot : Link(b) \/ BotJoinsCorp(b) \/ BotJoinsAlliance(b)
    BY <1>1, <2>1 DEF Link, EndBot, BotJoinsCorp, BotJoinsAlliance
  <2>2. CASE \E b \in Bot, u \in User, ch \in Char : Confirm(b, u, ch)
    BY <1>1, <2>2 DEF Confirm
  <2>3. CASE Crash
    BY <2>3 DEF Crash
  <2>4. CASE UNCHANGED bot
    BY <1>1, <2>4
  <2> QED
    BY <2>1, <2>2, <2>3, <2>4, Frame DEF BotStep
<1>4. StoredCorps \subseteq StoredCorps'
  BY CorpsStay DEF TypeInv
<1>5. bot' \in [Bot -> BotState]
  BY <1>2, <1>3
<1>6. BotCorpStored'
  BY <1>2, <1>4 DEF BotCorpStored, StoredCorps
<1> QED
  BY <1>5, <1>6

\* The memberships.
Filters == [Ticker -> SUBSET (User \cup Index)]

\* AddMember puts users into one filter, if it exists.
LEMMA JoinsIs ==
  ASSUME member \in Filters, NEW us \in SUBSET (User \cup Index), NEW t, Joins(us, t)
  PROVE  /\ member' \in Filters
         /\ \A s \in Ticker : /\ s # t => member'[s] = member[s]
                              /\ member[s] \subseteq member'[s] /\ member'[s] \subseteq member[s] \cup us
                              /\ s \notin filters => member'[s] = member[s]
         /\ t \in filters \cap Ticker => us \subseteq member'[t]
BY DEF Joins, Filters

\* RemoveMember takes them out of one filter, if it exists.
LEMMA LeavesIs ==
  ASSUME member \in Filters, NEW us, NEW t, Leaves(us, t)
  PROVE  /\ member' \in Filters
         /\ \A s \in Ticker : /\ s # t => member'[s] = member[s]
                              /\ member'[s] \subseteq member[s] /\ member[s] \ us \subseteq member'[s]
         /\ t \in filters \cap Ticker => member'[t] = member[t] \ us
BY DEF Leaves, Filters

\* A corporation has no more members than there are users.
LEMMA IndicesTyped ==
  ASSUME TypeInv, NEW t \in Name
  PROVE  Indices(t) \subseteq Index
<1>1. t \in Ticker /\ member[t] \subseteq User
  BY DEF Ticker, TypeInv, UsersInCorps
<1>2. IsFiniteSet(User)
  BY IdsAndIndices
<1>3. /\ Cardinality(member[t]) \in Nat /\ Cardinality(User) \in Nat
      /\ Cardinality(member[t]) =< Cardinality(User)
  BY <1>1, <1>2, FS_Subset, FS_CardinalityType
<1> QED
  BY <1>3 DEF Indices, Index

\* The empty response has no members.
LEMMA NoIndicesOfBlank ==
  ASSUME TypeInv
  PROVE  Indices(Blank) = {}
BY EsiConstants DEF TypeInv, TypeOK, Indices

\* Who is put where: members come and go by the steps of a character that
\* moves and of a command, and corporations only put indices into alliances.
LEMMA MemberMoves ==
  ASSUME TypeInv, [Next]_vars
  PROVE  /\ member' \in Filters
         /\ \A t \in Ticker : t \notin filters => member'[t] \subseteq member[t]
         /\ \/ UNCHANGED member
            \/ \E us \in SUBSET Index : \/ Leaves(us, poll.old.alliance) /\ DropMembers
                                        \/ Joins(us, poll.new.alliance) /\ TakeMembers
            \/ LeaveCorp \/ JoinCorp \/ LeaveAlliance \/ JoinAlliance
            \/ \E b \in Bot : BotJoinsCorp(b) \/ BotJoinsAlliance(b)
<1>1. member \in Filters
  BY DEF TypeInv, TypeOK, Filters
<1>2. ASSUME poll.pc \in CorpPc PROVE Indices(poll.new.ticker) \subseteq Index
  <2>1. poll.new.ticker \in Name \cup {Blank}
    BY <1>2, PollKinds DEF TypeInv, CorpRec, AnyRow, Row, Zero
  <2> QED
    BY <2>1, IndicesTyped, NoIndicesOfBlank
<1>3. DropMembers => \E us \in SUBSET Index : Leaves(us, poll.old.alliance)
  BY <1>2 DEF DropMembers, CorpPc
<1>4. TakeMembers => \E us \in SUBSET Index : Joins(us, poll.new.alliance)
  BY <1>2 DEF TakeMembers, CorpPc
<1>5. ASSUME \E us, t : Leaves(us, t)
      PROVE  member' \in Filters /\ \A t \in Ticker : t \notin filters => member'[t] \subseteq member[t]
  BY <1>1, <1>5, LeavesIs
<1>6. ASSUME \E us \in SUBSET (User \cup Index) : \E t : Joins(us, t)
      PROVE  member' \in Filters /\ \A t \in Ticker : t \notin filters => member'[t] \subseteq member[t]
  BY <1>1, <1>6, JoinsIs
<1>7. poll.pc \in Late => poll.u \in User
  BY DEF TypeInv, UserFound, TypeOK
<1>8. ASSUME JoinCorp \/ JoinAlliance PROVE \E us \in SUBSET (User \cup Index) : \E t : Joins(us, t)
  <2>1. {poll.u} \subseteq User \cup Index
    BY <1>7, <1>8 DEF JoinCorp, JoinAlliance, Late, MovePc
  <2> QED
    BY <1>8, <2>1 DEF JoinCorp, JoinAlliance
<1>9. ASSUME NEW b \in Bot, BotJoinsCorp(b) \/ BotJoinsAlliance(b)
      PROVE  \E us \in SUBSET (User \cup Index) : \E t : Joins(us, t)
  <2>1. {bot[b].u} \subseteq User \cup Index
    BY <1>9, BotKinds DEF BotJoinsCorp, BotJoinsAlliance, TypeInv
  <2> QED
    BY <1>9, <2>1 DEF BotJoinsCorp, BotJoinsAlliance
<1>10. LeaveCorp \/ LeaveAlliance => \E us, t : Leaves(us, t)
  BY DEF LeaveCorp, LeaveAlliance
<1>11. CASE UNCHANGED member
  BY <1>1, <1>11
<1>12. CASE DropMembers
  BY <1>3, <1>5, <1>12
<1>13. CASE TakeMembers
  BY <1>4, <1>6, <1>13
<1>14. CASE LeaveCorp \/ LeaveAlliance
  BY <1>5, <1>10, <1>14
<1>15. CASE JoinCorp \/ JoinAlliance
  BY <1>6, <1>8, <1>15
<1>16. CASE \E b \in Bot : BotJoinsCorp(b) \/ BotJoinsAlliance(b)
  BY <1>6, <1>9, <1>16
<1> QED
  BY <1>11, <1>12, <1>13, <1>14, <1>15, <1>16, Frame

\* The filters of corporations get users only, and all filters and the
\* disturbed characters keep their types.
LEMMA MembersTyped ==
  ASSUME TypeInv, [Next]_vars
  PROVE  /\ member' \in [Ticker -> SUBSET (User \cup Index)] /\ UsersInCorps'
         /\ disturbed' \subseteq Char
<1>1. member \in Filters /\ \A t \in Name : t \in Ticker /\ member[t] \subseteq User
  BY DEF TypeInv, TypeOK, Filters, UsersInCorps, Ticker
<1>2. member' \in Filters
  BY MemberMoves
<1>3. ASSUME NEW us, NEW t, Leaves(us, t) PROVE UsersInCorps'
  BY <1>1, <1>3, LeavesIs DEF UsersInCorps
<1>4. ASSUME NEW us \in SUBSET User, NEW t, Joins(us, t) PROVE UsersInCorps'
  BY <1>1, <1>4, JoinsIs DEF UsersInCorps
<1>5. ASSUME NEW us \in SUBSET Index, Joins(us, poll.new.alliance), TakeMembers PROVE UsersInCorps'
  <2>1. poll.new.alliance \notin Name
    BY <1>5, PollKinds, EsiConstants DEF TakeMembers, CorpPc, CorpRec, AnyRow, Row, Zero, Ticker, TypeInv, TickersApart
  <2>2. us \in SUBSET (User \cup Index)
    OBVIOUS
  <2> DEFINE a == poll.new.alliance
  <2> HIDE DEF a
  <2>3. Joins(us, a)
    BY <1>5 DEF a
  <2>4. \A s \in Ticker : s # a => member'[s] = member[s]
    BY <1>1, <2>2, <2>3, JoinsIs
  <2> QED
    BY <1>1, <2>1, <2>4 DEF UsersInCorps, a
<1>6. poll.pc \in Late => poll.u \in User
  BY DEF TypeInv, UserFound, TypeOK
<1>7. ASSUME JoinCorp \/ JoinAlliance PROVE UsersInCorps'
  <2>1. {poll.u} \subseteq User
    BY <1>6, <1>7 DEF JoinCorp, JoinAlliance, Late, MovePc
  <2> QED
    BY <1>4, <1>7, <2>1 DEF JoinCorp, JoinAlliance
<1>8. ASSUME NEW b \in Bot, BotJoinsCorp(b) \/ BotJoinsAlliance(b) PROVE UsersInCorps'
  <2>1. {bot[b].u} \subseteq User
    BY <1>8, BotKinds DEF BotJoinsCorp, BotJoinsAlliance, TypeInv
  <2> QED
    BY <1>4, <1>8, <2>1 DEF BotJoinsCorp, BotJoinsAlliance
<1>9. UNCHANGED member => UsersInCorps'
  BY <1>1 DEF UsersInCorps
<1>10. UsersInCorps'
  BY <1>3, <1>5, <1>7, <1>8, <1>9, MemberMoves DEF LeaveCorp, LeaveAlliance
<1>11. disturbed' \subseteq Char
  <2>1. disturbed \subseteq Char
    BY DEF TypeInv, TypeOK
  <2>2. MoveRow \/ JoinCorp => poll.ch \in Char
    BY MovesStored DEF MoveRow, JoinCorp, MovePc
  <2>3. MoveRow \/ JoinCorp => disturbed' \subseteq disturbed \cup {poll.ch}
    BY DEF MoveRow, JoinCorp, Disturb
  <2>4. ASSUME NEW ch \in Char, StoreChar(ch) PROVE disturbed' \subseteq disturbed \cup {ch}
    BY <2>4 DEF StoreChar
  <2> QED
    BY <2>1, <2>2, <2>3, <2>4, Frame
<1> QED
  BY <1>2, <1>10, <1>11 DEF Filters

\* Every step keeps all of it.
LEMMA TypeStep == TypeInv /\ [Next]_vars => TypeInv'
<1> SUFFICES ASSUME TypeInv, [Next]_vars PROVE TypeInv'
  OBVIOUS
<1>1. TypeOK
  BY DEF TypeInv
<1>2. \A ch \in chars' : Stored(home[ch])'
  <2>1. \A ch \in chars' : home'[ch] \in StoredCorps
    BY HomeTyped DEF StoredCorps
  <2> QED
    BY <2>1, <1>1, CorpsStay DEF StoredCorps
<1>3. TypeOK'
  BY <1>1, <1>2, GameTyped, AlliancesTyped, CorpsTyped, HomeTyped, LinkedTyped, PollerStep,
     BotTyped, MembersTyped DEF TypeOK
<1> QED
  BY <1>3, PollerStep, BotTyped, UserFoundStep, MembersTyped DEF TypeInv, TickersApart

\* So it always holds.
LEMMA TypeInvariant == TickersApart => (Spec => []TypeInv)
<1> SUFFICES ASSUME TickersApart PROVE Spec => []TypeInv
  OBVIOUS
<1>1. Init => TypeInv
  BY InitInv
<1> QED
  BY <1>1, TypeStep, PTL DEF Spec

\* In every reachable state every variable has its type, links are of stored
\* characters, characters of stored corporations and corporations of stored
\* alliances, and no two rows have one ticker, whatever fails in between.  It is
\* supposed that no corporation has the ticker of an alliance, which neither the
\* code nor the tables ensure: the members of the one's filter would be the other's.
THEOREM TypeCorrect == TickersApart => (Spec => []TypeOK)
<1> SUFFICES ASSUME TickersApart PROVE Spec => []TypeOK
  OBVIOUS
<1>1. TypeInv => TypeOK
  BY DEF TypeInv
<1>2. Spec => []TypeInv
  BY TypeInvariant
<1> QED
  BY <1>1, <1>2, PTL

-----------------------------------------------------------------------------
(* Who is in a filter                                                      *)

\* Who is in a filter owns a character, and so does who is about to be put there.
OwnersOnly ==
    /\ \A u \in User, t \in Ticker : u \in member[t] => \E d \in Char : <<u, d>> \in linked
    /\ \A b \in Bot : bot[b].pc \in {"corp", "ally"} => <<bot[b].u, bot[b].ch>> \in linked

\* Filters have members only while they exist.
Filled == \A t \in Ticker : member[t] # {} => t \in filters

\* How a user gets into a filter, and out of it.
LEMMA UserMoves ==
  ASSUME TypeInv, [Next]_vars, NEW u \in User, NEW t \in Ticker
  PROVE  /\ u \in member'[t] => \/ u \in member[t]
                                \/ JoinCorp /\ u = poll.u /\ t = poll.new.ticker
                                \/ JoinAlliance /\ u = poll.u /\ t = poll.new.alliance
                                \/ \E b \in Bot : /\ u = bot[b].u
                                                  /\ \/ BotJoinsCorp(b) /\ t = corps[bot[b].c].ticker
                                                     \/ BotJoinsAlliance(b) /\ t = bot[b].a
         /\ u \in member[t] => \/ u \in member'[t]
                               \/ LeaveCorp /\ u = poll.u /\ t = poll.old.ticker
                               \/ LeaveAlliance /\ u = poll.u /\ t = poll.old.alliance
<1> DEFINE
      In  == u \in member'[t] =>
               \/ u \in member[t]
               \/ JoinCorp /\ u = poll.u /\ t = poll.new.ticker
               \/ JoinAlliance /\ u = poll.u /\ t = poll.new.alliance
               \/ \E b \in Bot : /\ u = bot[b].u
                                 /\ \/ BotJoinsCorp(b) /\ t = corps[bot[b].c].ticker
                                    \/ BotJoinsAlliance(b) /\ t = bot[b].a
      Out == u \in member[t] =>
               \/ u \in member'[t]
               \/ LeaveCorp /\ u = poll.u /\ t = poll.old.ticker
               \/ LeaveAlliance /\ u = poll.u /\ t = poll.old.alliance
<1>1. member \in Filters /\ u \notin Index
  BY IdsAndIndices DEF TypeInv, TypeOK, Filters
<1>2. ASSUME NEW us, NEW s, Leaves(us, s), u \in us => s # t PROVE u \in member'[t] <=> u \in member[t]
  BY <1>1, <1>2, LeavesIs
<1>3. ASSUME NEW us, NEW s, Leaves(us, s) PROVE u \in member'[t] => u \in member[t]
  BY <1>1, <1>3, LeavesIs
<1>4. ASSUME NEW us \in SUBSET (User \cup Index), NEW s, Joins(us, s), u \in us => s # t
      PROVE  u \in member'[t] <=> u \in member[t]
  BY <1>1, <1>4, JoinsIs
<1>5. ASSUME NEW us \in SUBSET (User \cup Index), NEW s, Joins(us, s)
      PROVE u \in member[t] => u \in member'[t]
  BY <1>1, <1>5, JoinsIs
<1>6. ASSUME UNCHANGED member PROVE In /\ Out
  BY <1>6
<1>7. ASSUME NEW us \in SUBSET Index, NEW s, Leaves(us, s) \/ Joins(us, s) PROVE In /\ Out
  <2>1. us \in SUBSET (User \cup Index) /\ u \notin us
    BY <1>1
  <2> QED
    BY <1>2, <1>4, <1>7, <2>1
<1>8. ASSUME LeaveCorp PROVE In /\ Out
  <2>1. Leaves({poll.u}, poll.old.ticker)
    BY <1>8 DEF LeaveCorp
  <2>2. (u = poll.u /\ t = poll.old.ticker) \/ (u \in member'[t] <=> u \in member[t])
    BY <1>2, <2>1
  <2> QED
    BY <1>3, <1>8, <2>1, <2>2
<1>9. ASSUME LeaveAlliance PROVE In /\ Out
  <2>1. Leaves({poll.u}, poll.old.alliance)
    BY <1>9 DEF LeaveAlliance
  <2>2. (u = poll.u /\ t = poll.old.alliance) \/ (u \in member'[t] <=> u \in member[t])
    BY <1>2, <2>1
  <2> QED
    BY <1>3, <1>9, <2>1, <2>2
<1>10. poll.pc \in Late => {poll.u} \in SUBSET (User \cup Index)
  BY DEF TypeInv, UserFound, TypeOK
<1>11. ASSUME JoinCorp PROVE In /\ Out
  <2>1. Joins({poll.u}, poll.new.ticker) /\ {poll.u} \in SUBSET (User \cup Index)
    BY <1>10, <1>11 DEF JoinCorp, Late, MovePc
  <2>2. (u = poll.u /\ t = poll.new.ticker) \/ (u \in member'[t] <=> u \in member[t])
    BY <1>4, <2>1
  <2> QED
    BY <1>5, <1>11, <2>1, <2>2
<1>12. ASSUME JoinAlliance PROVE In /\ Out
  <2>1. Joins({poll.u}, poll.new.alliance) /\ {poll.u} \in SUBSET (User \cup Index)
    BY <1>10, <1>12 DEF JoinAlliance, Late, MovePc
  <2>2. (u = poll.u /\ t = poll.new.alliance) \/ (u \in member'[t] <=> u \in member[t])
    BY <1>4, <2>1
  <2> QED
    BY <1>5, <1>12, <2>1, <2>2
<1>13. ASSUME NEW b \in Bot, BotJoinsCorp(b) PROVE In /\ Out
  <2>1. Joins({bot[b].u}, corps[bot[b].c].ticker) /\ {bot[b].u} \in SUBSET (User \cup Index)
    BY <1>13, BotKinds DEF BotJoinsCorp, TypeInv
  <2>2. (u = bot[b].u /\ t = corps[bot[b].c].ticker) \/ (u \in member'[t] <=> u \in member[t])
    BY <1>4, <2>1
  <2> QED
    BY <1>5, <1>13, <2>1, <2>2
<1>14. ASSUME NEW b \in Bot, BotJoinsAlliance(b) PROVE In /\ Out
  <2>1. Joins({bot[b].u}, bot[b].a) /\ {bot[b].u} \in SUBSET (User \cup Index)
    BY <1>14, BotKinds DEF BotJoinsAlliance, TypeInv
  <2>2. (u = bot[b].u /\ t = bot[b].a) \/ (u \in member'[t] <=> u \in member[t])
    BY <1>4, <2>1
  <2> QED
    BY <1>5, <1>14, <2>1, <2>2
<1> HIDE DEF In, Out
<1>15. In /\ Out
  BY <1>6, <1>7, <1>8, <1>9, <1>11, <1>12, <1>13, <1>14, MemberMoves
<1> QED
  BY <1>15 DEF In, Out

\* A filter that does not exist, or had nobody, only fills by somebody joining.
LEMMA FilledStep ==
  ASSUME TypeInv, Filled, [Next]_vars
  PROVE  Filled'
<1>1. \A t \in Ticker : t \notin filters => member'[t] \subseteq member[t]
  BY MemberMoves
<1>2. filters \subseteq filters'
  BY AlliancesTyped
<1> QED
  BY <1>1, <1>2 DEF Filled

\* Who has no character is in no filter.
LEMMA OwnersOnlyStep ==
  ASSUME TypeInv, OwnersOnly, [Next]_vars
  PROVE  OwnersOnly'
<1>1. linked \subseteq linked'
  BY LinkedTyped
<1>2. linked \subseteq User \X Char
  BY DEF TypeInv, TypeOK
<1>3. ASSUME NEW u \in User, NEW t \in Ticker, u \in member'[t]
      PROVE  \E d \in Char : <<u, d>> \in linked
  <2>1. CASE u \in member[t]
    BY <2>1 DEF OwnersOnly
  <2>2. CASE (JoinCorp \/ JoinAlliance) /\ u = poll.u
    <3>1. <<u, poll.ch>> \in linked
      BY <2>2 DEF JoinCorp, JoinAlliance, Late, MovePc, TypeInv, UserFound
    <3> QED
      BY <1>2, <3>1
  <2>3. CASE \E b \in Bot : (BotJoinsCorp(b) \/ BotJoinsAlliance(b)) /\ u = bot[b].u
    <3>1. PICK b \in Bot : (BotJoinsCorp(b) \/ BotJoinsAlliance(b)) /\ u = bot[b].u
      BY <2>3
    <3>2. <<u, bot[b].ch>> \in linked
      BY <3>1 DEF BotJoinsCorp, BotJoinsAlliance, OwnersOnly
    <3> QED
      BY <1>2, <3>2
  <2> QED
    BY <1>3, <2>1, <2>2, <2>3, UserMoves
<1>4. ASSUME NEW b \in Bot, bot'[b].pc \in {"corp", "ally"}
      PROVE  <<bot'[b].u, bot'[b].ch>> \in linked'
  <2>1. CASE bot'[b] = bot[b]
    BY <1>1, <1>4, <2>1 DEF OwnersOnly
  <2>2. bot'[b] # Idle
    BY <1>4 DEF Idle
  <2>5. ~ \E u \in User, ch \in chars : bot'[b] = [pc |-> "link", u |-> u, ch |-> ch, c |-> home[ch]]
    <3> SUFFICES ASSUME NEW u \in User, NEW ch \in chars,
                        bot'[b] = [pc |-> "link", u |-> u, ch |-> ch, c |-> home[ch]]
                 PROVE  FALSE
      OBVIOUS
    <3>1. bot'[b].pc = "link"
      OBVIOUS
    <3> QED
      BY <1>4, <3>1
  <2>3. CASE /\ bot'[b].u = bot[b].u /\ bot'[b].ch = bot[b].ch
             /\ linked' = linked \cup {<<bot[b].u, bot[b].ch>>}
    BY <2>3
  <2>4. CASE /\ bot[b].pc = "corp"
             /\ bot'[b] = [pc |-> "ally", u |-> bot[b].u, ch |-> bot[b].ch, a |-> corps[bot[b].c].alliance]
    BY <1>1, <2>4 DEF OwnersOnly
  <2> QED
    BY <2>1, <2>2, <2>3, <2>4, <2>5, BotMoves
<1> QED
  BY <1>1, <1>3, <1>4 DEF OwnersOnly

-----------------------------------------------------------------------------
(* Rounds and confirmations in which nothing fails and no ticker changes   *)

\* Nothing has failed and no ticker has changed; nor has an alliance.
Quiet == failures = 0 /\ "rename" \notin changed
Still == Quiet /\ "switch" \notin changed
\* ESI's ticker and alliance of a corporation.
Tk(c) == esi[c].ticker
Al(c) == esi[c].alliance
\* The steps of a move once the row is rewritten.
Moved == MovePc \ {"moveRow"}

\* Rows, and what is about to be written, have ESI's tickers; the role of a
\* corporation exists before a character is moved to it, stored or confirmed.
Tickers == Quiet =>
    /\ \A c \in Corp : Stored(c) => corps[c].ticker = Tk(c)
    /\ poll.pc \in (CorpPc \ {"ask"}) \cup Moved => poll.new.ticker = Tk(poll.c)
    /\ poll.pc \in MovePc => Tk(poll.c) \in filters
    /\ poll.pc \in Moved => home[poll.ch] = poll.c
    /\ \A ch \in chars : Tk(home[ch]) \in filters
    /\ \A b \in Bot : bot[b].pc \in {"link", "corp"} => Tk(bot[b].c) \in filters
    /\ alliances \subseteq filters
    /\ roles \subseteq filters /\ \A c \in named : Tk(c) \in roles

\* Rows, and what is about to be written, have ESI's alliances.
Alliances == Still =>
    /\ \A c \in Corp : Stored(c) => corps[c].alliance = Al(c)
    /\ poll.pc \in (CorpPc \ {"ask"}) \cup Moved => poll.new.alliance = Al(poll.c)

\* An alliance is only left for another one, or none.
Differ == poll.pc \in {"leaveAlliance", "joinAlliance"} => poll.old.alliance # poll.new.alliance

\* A confirmation works with the corporation, and then with the alliance, of the
\* character's row, unless the character was disturbed.
Confirmations == Quiet => \A b \in Bot :
    bot[b].pc # "idle" /\ bot[b].ch \notin disturbed =>
      /\ bot[b].pc \in {"link", "corp"} => bot[b].c = home[bot[b].ch]
      /\ bot[b].pc = "ally" /\ Still => bot[b].a = Al(home[bot[b].ch])

\* What has failed or changed stays so; without a failure or a new ticker no
\* step fails, and tickers, and without a new alliance alliances, are the same.
LEMMA QuietStep ==
  ASSUME TypeInv, [Next]_vars, Quiet'
  PROVE  /\ Quiet /\ ~EsiFails /\ ~AllianceFails /\ ~AddFails /\ ~DbFails /\ ~Crash
         /\ \A c \in Corp : Tk(c)' = Tk(c) /\ Tk(c) \in Name
         /\ Still' => Still /\ \A c \in Corp : Al(c)' = Al(c)
<1>0. failures \in Nat /\ esi \in [Corp -> Row] /\ MaxFailures \in Nat
  BY EsiConstants DEF TypeInv, TypeOK
<1>1. ASSUME NEW kind, Fails(kind) PROVE FALSE
  <2>1. failures' = failures + 1 /\ failures' = 0
    BY <1>1 DEF Fails, Quiet
  <2> QED
    BY <1>0, <2>1
<1>2. ~EsiFails /\ ~AllianceFails /\ ~AddFails /\ ~DbFails /\ ~Crash
  BY <1>1 DEF EsiFails, AllianceFails, AddFails, DbFails, Crash
<1>3. \A c \in Corp : Tk(c) \in Name
  BY <1>0 DEF Tk, Row
<1>4. CASE UNCHANGED <<bounds, game>>
  BY <1>2, <1>3, <1>4 DEF bounds, game, Quiet, Still, Tk, Al
<1>5. ASSUME NEW ch \in Char, NEW d \in Corp, Move(ch, d)
      PROVE  esi' = esi /\ failures' = failures /\ changed \subseteq changed'
  BY <1>5 DEF Move, Changing
<1>6. ASSUME NEW d \in Corp, NEW a \in Alliance \cup {None}, Switch(d, a)
      PROVE  /\ failures' = failures /\ changed \subseteq changed' /\ "switch" \in changed'
             /\ \A c \in Corp : esi'[c].ticker = esi[c].ticker
  <2>1. failures' = failures /\ changed \subseteq changed' /\ "switch" \in changed'
    BY <1>6 DEF Switch, Changing
  <2>2. esi' = [esi EXCEPT ![d] = [esi[d] EXCEPT !.alliance = a]]
    BY <1>6 DEF Switch
  <2>3. esi[d] \in Row
    BY <1>0
  <2>4. [esi[d] EXCEPT !.alliance = a].ticker = esi[d].ticker
    BY <2>3 DEF Row
  <2> QED
    BY <1>0, <2>1, <2>2, <2>4
<1>7. ASSUME NEW d \in Corp, NEW t \in Name, Rename(d, t) PROVE FALSE
  BY <1>7 DEF Rename, Changing, Quiet
<1>8. CASE \E d \in Corp, a \in Alliance \cup {None} : Switch(d, a)
  BY <1>2, <1>3, <1>6, <1>8 DEF Quiet, Still, Tk
<1>9. CASE \E ch \in Char, d \in Corp : Move(ch, d)
  BY <1>2, <1>3, <1>5, <1>9 DEF Quiet, Still, Tk, Al
<1>10. GameStep \/ UNCHANGED <<bounds, game>>
  BY <1>1, Frame
<1> QED
  BY <1>4, <1>7, <1>8, <1>9, <1>10 DEF GameStep

\* A character that is stored keeps its corporation until it is moved.
LEMMA HomeStays ==
  ASSUME TypeInv, [Next]_vars, Quiet', NEW ch \in chars
  PROVE  \/ home'[ch] = home[ch]
         \/ /\ MoveRow /\ poll.ch = ch /\ Stored(poll.c) /\ home'[ch] = poll.c
            /\ (\E b \in Bot : Working(b, ch)) => ch \in disturbed'
<1>0. home \in [Char -> Corp] /\ chars \subseteq Char
  BY DEF TypeInv, TypeOK
<1>1. ASSUME NEW d \in Char, StoreChar(d) PROVE home'[ch] = home[ch]
  BY <1>0, <1>1 DEF StoreChar
<1>2. CASE MoveRow
  <2>1. poll.ch \in Char /\ poll.c \in Corp
    BY <1>2, PollKinds DEF MoveRow, MovePc, MoveRec, TypeInv
  <2>2. CASE ~Stored(poll.c)
    BY <1>2, <2>2 DEF MoveRow, Reread
  <2>3. CASE Stored(poll.c)
    BY <1>0, <1>2, <2>1, <2>3 DEF MoveRow, Reread, Disturb
  <2> QED
    BY <2>2, <2>3
<1>3. ~DbFails
  BY QuietStep
<1> QED
  BY <1>1, <1>2, <1>3, Frame

\* Rows have ESI's tickers, the role of a corporation that a character is
\* moved to exists, and so do those of stored characters' corporations.
LEMMA TickersStep ==
  ASSUME TypeInv, Tickers, [Next]_vars
  PROVE  Tickers'
<1> SUFFICES ASSUME Quiet' PROVE Tickers'
  BY DEF Tickers
<1> USE DEF Tk
<1>1. /\ Quiet /\ ~EsiFails /\ ~AllianceFails /\ ~AddFails /\ ~DbFails /\ ~Crash
      /\ \A c \in Corp : Tk(c)' = Tk(c) /\ Tk(c) \in Name
  BY QuietStep
<1>2. /\ \A c \in Corp : Stored(c) => corps[c].ticker = Tk(c)
      /\ poll.pc \in (CorpPc \ {"ask"}) \cup Moved => poll.new.ticker = Tk(poll.c)
      /\ poll.pc \in MovePc => Tk(poll.c) \in filters
      /\ poll.pc \in Moved => home[poll.ch] = poll.c
      /\ \A ch \in chars : Tk(home[ch]) \in filters
      /\ \A b \in Bot : bot[b].pc \in {"link", "corp"} => Tk(bot[b].c) \in filters
      /\ alliances \subseteq filters
      /\ roles \subseteq filters /\ \A c \in named : Tk(c) \in roles
  BY <1>1 DEF Tickers
<1>3. filters \subseteq filters'
  BY AlliancesTyped
<1>4. /\ poll.pc \in CorpPc \cup MovePc => poll.c \in Corp
      /\ poll'.pc \in CorpPc \cup MovePc => poll'.c \in Corp
  <2>1. TypeOK /\ TypeOK'
    BY TypeStep DEF TypeInv
  <2>2. poll'.pc \in CorpPc \cup MovePc => poll'.c \in Corp
    BY <2>1 DEF TypeOK, PollState, CorpPc, MovePc, Idle
  <2> QED
    BY <2>1, <2>2, PollKinds DEF CorpRec, MoveRec
<1>5. \A c \in Corp : Stored(c)' => corps'[c].ticker = Tk(c)'
  <2>1. CASE UNCHANGED corps
    BY <1>1, <1>2, <2>1 DEF Stored
  <2>2. CASE StoreCorp
    <3>1. poll.c \in Corp /\ poll.new.ticker = Tk(poll.c)
      BY <1>2, <1>4, <2>2 DEF StoreCorp, CorpPc
    <3>2. corps \in [Corp -> AnyRow \cup {NoRow}]
      BY DEF TypeInv, TypeOK
    <3>3. CASE corps' = [corps EXCEPT ![poll.c] = poll.new]
      BY <1>1, <1>2, <3>1, <3>2, <3>3 DEF Stored
    <3> QED
      BY <2>1, <2>2, <3>3 DEF StoreCorp
  <2> QED
    BY <2>1, <2>2, Frame
<1>6. ASSUME poll'.pc \in CorpPc \ {"ask"} PROVE poll'.new.ticker = Tk(poll.c)'
  <2>1. \/ poll' = poll
        \/ poll.pc = "ask" /\ poll'.c = poll.c /\ poll'.new = esi[poll.c]
        \/ poll.pc \in CorpPc \ {"ask"} /\ poll'.c = poll.c /\ poll'.new = poll.new
    BY <1>1, <1>6, CorpMoves
  <2>2. poll.pc \in CorpPc
    BY <1>6, <2>1 DEF CorpPc
  <2> QED
    BY <1>1, <1>2, <1>4, <1>6, <2>1, <2>2 DEF Tk
<1>7. ASSUME poll'.pc \in Moved PROVE poll'.new.ticker = Tk(poll.c)'
  <2>1. \/ poll' = poll
        \/ poll.pc = "moveRow" /\ Stored(poll.c) /\ poll'.c = poll.c /\ poll'.new = corps[poll.c]
        \/ poll.pc \in Moved /\ poll'.c = poll.c /\ poll'.new = poll.new
    BY <1>7, MoveMoves DEF Moved, Late, MovePc
  <2>2. poll.pc \in MovePc
    BY <1>7, <2>1 DEF Moved, MovePc
  <2> QED
    BY <1>1, <1>2, <1>4, <1>7, <2>1, <2>2
<1>8. ASSUME poll'.pc \in MovePc PROVE Tk(poll.c)' \in filters'
  <2>1. \/ poll.pc \in MovePc /\ poll'.c = poll.c
        \/ poll.pc = "role" /\ AddRole /\ poll'.c = poll.c
    BY <1>1, <1>8, MoveMoves DEF Late, MovePc
  <2>2. CASE poll.pc \in MovePc /\ poll'.c = poll.c
    BY <1>1, <1>2, <1>3, <1>4, <2>2
  <2>3. CASE poll.pc = "role" /\ AddRole /\ poll'.c = poll.c
    <3>1. poll.c \in Corp /\ poll.new.ticker = Tk(poll.c)
      BY <1>2, <1>4, <2>3 DEF CorpPc
    <3>2. poll.new.ticker \in Name /\ poll.new.ticker # Blank
      BY <1>1, <3>1, EsiConstants DEF Ticker
    <3>3. poll.new.ticker \in filters'
      <4>1. CASE poll.c \in named
        BY <1>2, <1>3, <3>1, <4>1
      <4>2. CASE poll.c \notin named
        <5>1. poll.new.ticker \in roles \/ poll.new.ticker \in Missing
          BY <3>2, <4>2 DEF Missing
        <5>2. Missing \subseteq filters'
          BY <2>3 DEF AddRole, Adds
        <5> QED
          BY <1>2, <1>3, <5>1, <5>2
      <4> QED
        BY <4>1, <4>2
    <3> QED
      BY <1>1, <2>3, <3>1, <3>3
  <2> QED
    BY <2>1, <2>2, <2>3
<1>9. ASSUME poll'.pc \in Moved PROVE home'[poll'.ch] = poll'.c
  <2>1. \/ poll.pc = "moveRow" /\ MoveRow /\ Stored(poll.c) /\ poll'.ch = poll.ch /\ poll'.c = poll.c
        \/ poll.pc \in Moved /\ poll'.ch = poll.ch /\ poll'.c = poll.c
    BY <1>1, <1>9, MoveMoves DEF Moved, Late, MovePc
  <2>2. poll.pc \in MovePc
    BY <2>1 DEF Moved, MovePc
  <2>3. poll.ch \in chars /\ poll.ch \in Char
    BY <2>2, MovesStored
  <2>4. CASE poll.pc = "moveRow" /\ MoveRow /\ Stored(poll.c) /\ poll'.ch = poll.ch /\ poll'.c = poll.c
    BY <2>3, <2>4 DEF MoveRow, Reread, TypeInv, TypeOK
  <2>5. CASE poll.pc \in Moved /\ poll'.ch = poll.ch /\ poll'.c = poll.c
    BY <1>2, <2>3, <2>5, HomeStays
  <2> QED
    BY <2>1, <2>4, <2>5
<1>10. ASSUME NEW ch \in chars' PROVE Tk(home[ch])' \in filters'
  <2>1. home'[ch] \in Corp
    BY HomeTyped
  <2>2. CASE ch \in chars
    <3>1. home'[ch] = home[ch] \/ (poll.pc = "moveRow" /\ home'[ch] = poll.c)
      BY <2>2, HomeStays DEF MoveRow
    <3> QED
      BY <1>1, <1>2, <1>3, <2>1, <2>2, <3>1 DEF MovePc
  <2>3. CASE ch \notin chars
    <3>1. StoreChar(ch) /\ ch \in Char
      BY <2>3, HomeTyped, Frame DEF PollOrphan, StoreChar
    <3>2. home'[ch] = esiCorp[ch] /\ Tk(esiCorp[ch]) \in filters
      BY <1>2, <3>1 DEF StoreChar, Welcome, TypeInv, TypeOK
    <3> QED
      BY <1>1, <1>2, <1>3, <2>1, <3>2
  <2> QED
    BY <2>2, <2>3
<1>11. ASSUME NEW b \in Bot, bot'[b].pc \in {"link", "corp"} PROVE Tk(bot[b].c)' \in filters'
  <2>1. bot'[b] # Idle
    BY <1>11 DEF Idle
  <2>2. bot'[b].c \in Corp /\ (bot[b].pc \in {"link", "corp"} => bot[b].c \in Corp)
    <3>1. TypeOK /\ TypeOK'
      BY TypeStep DEF TypeInv
    <3>2. bot'[b].c \in Corp
      BY <1>11, <3>1 DEF TypeOK, BotState, Idle
    <3> QED
      BY <3>1, <3>2, BotKinds
  <2>3. CASE bot'[b].c \in {home[ch] : ch \in chars}
    BY <1>1, <1>2, <1>3, <2>2, <2>3
  <2>4. CASE bot[b].pc \in {"link", "corp"} /\ bot'[b].c = bot[b].c
    BY <1>1, <1>2, <1>3, <2>2, <2>4
  <2>5. CASE \E u \in User, ch \in chars : bot'[b] = [pc |-> "link", u |-> u, ch |-> ch, c |-> home[ch]]
    <3>1. bot'[b].c \in {home[ch] : ch \in chars}
      BY <2>5
    <3> QED
      BY <2>3, <3>1
  <2>6. ~ (bot'[b] = [pc |-> "ally", u |-> bot[b].u, ch |-> bot[b].ch, a |-> corps[bot[b].c].alliance])
    BY <1>11
  <2> QED
    BY <1>11, <2>1, <2>4, <2>5, <2>6, BotMoves
<1>12. alliances' \subseteq filters'
  <2>1. ASSUME StoreAlliance PROVE alliances' \subseteq filters'
    <3>1. alliances' = alliances \cup {poll.new.alliance} /\ filters' = filters \cup ({poll.new.alliance} \ roles)
      BY <2>1 DEF StoreAlliance, Adds
    <3> QED
      BY <1>2, <3>1
  <2> QED
    BY <1>1, <1>2, <1>3, <2>1, Frame
<1>13. UNCHANGED access \/ \E ts : Adds(ts)
  BY <1>1, Frame DEF StoreAlliance, AddRole, PollAlliance
<1>14. roles \subseteq roles' /\ roles' \subseteq filters'
  BY <1>2, <1>13 DEF Adds, access
<1>15. ASSUME NEW c \in named' PROVE Tk(c)' \in roles'
  <2>1. c \in Corp /\ named \subseteq Corp
    BY <1>15, AlliancesTyped DEF TypeInv, TypeOK
  <2>2. CASE c \in named
    BY <1>1, <1>2, <1>14, <2>1, <2>2
  <2>3. CASE c \notin named
    <3>1. AddRole
      BY <1>1, <1>15, <2>3, Frame DEF access, StoreAlliance, PollAlliance
    <3>2. poll.pc = "role" /\ roles' = roles \cup Missing /\ roles' # roles /\ c = poll.c
      BY <1>15, <2>3, <3>1 DEF AddRole, Adds, Naming
    <3>3. poll.new.ticker \in roles'
      BY <3>2 DEF Missing
    <3> QED
      BY <1>1, <1>2, <2>1, <3>2, <3>3 DEF CorpPc
  <2> QED
    BY <2>2, <2>3
<1> QED
  BY <1>5, <1>6, <1>7, <1>8, <1>9, <1>10, <1>11, <1>12, <1>14, <1>15 DEF Tickers

\* Rows have ESI's alliances as long as no corporation changes its own.
LEMMA AlliancesStep ==
  ASSUME TypeInv, Alliances, [Next]_vars
  PROVE  Alliances'
<1> SUFFICES ASSUME Still' PROVE Alliances'
  BY DEF Alliances
<1> USE DEF Al
<1>1. Still /\ ~EsiFails /\ ~AllianceFails /\ ~AddFails /\ ~DbFails /\ ~Crash /\ \A c \in Corp : Al(c)' = Al(c)
  BY QuietStep DEF Still
<1>2. /\ \A c \in Corp : Stored(c) => corps[c].alliance = Al(c)
      /\ poll.pc \in (CorpPc \ {"ask"}) \cup Moved => poll.new.alliance = Al(poll.c)
  BY <1>1 DEF Alliances
<1>3. poll.pc \in CorpPc \cup MovePc => poll.c \in Corp
  BY PollKinds DEF TypeInv, CorpRec, MoveRec
<1>4. \A c \in Corp : Stored(c)' => corps'[c].alliance = Al(c)'
  <2>1. CASE UNCHANGED corps
    BY <1>1, <1>2, <2>1 DEF Stored
  <2>2. CASE StoreCorp
    <3>1. poll.c \in Corp /\ poll.new.alliance = Al(poll.c)
      BY <1>2, <1>3, <2>2 DEF StoreCorp, CorpPc
    <3>2. corps \in [Corp -> AnyRow \cup {NoRow}]
      BY DEF TypeInv, TypeOK
    <3>3. CASE corps' = [corps EXCEPT ![poll.c] = poll.new]
      BY <1>1, <1>2, <3>1, <3>2, <3>3 DEF Stored
    <3> QED
      BY <2>1, <2>2, <3>3 DEF StoreCorp
  <2> QED
    BY <2>1, <2>2, Frame
<1>5. ASSUME poll'.pc \in CorpPc \ {"ask"} PROVE poll'.new.alliance = Al(poll.c)'
  <2>1. \/ poll' = poll
        \/ poll.pc = "ask" /\ poll'.c = poll.c /\ poll'.new = esi[poll.c]
        \/ poll.pc \in CorpPc \ {"ask"} /\ poll'.c = poll.c /\ poll'.new = poll.new
    BY <1>1, <1>5, CorpMoves
  <2>2. poll.pc \in CorpPc
    BY <1>5, <2>1 DEF CorpPc
  <2> QED
    BY <1>1, <1>2, <1>3, <1>5, <2>1, <2>2 DEF Al
<1>6. ASSUME poll'.pc \in Moved PROVE poll'.new.alliance = Al(poll.c)'
  <2>1. \/ poll' = poll
        \/ poll.pc = "moveRow" /\ Stored(poll.c) /\ poll'.c = poll.c /\ poll'.new = corps[poll.c]
        \/ poll.pc \in Moved /\ poll'.c = poll.c /\ poll'.new = poll.new
    BY <1>6, MoveMoves DEF Moved, Late, MovePc
  <2>2. poll.pc \in MovePc
    BY <1>6, <2>1 DEF Moved, MovePc
  <2> QED
    BY <1>1, <1>2, <1>3, <1>6, <2>1, <2>2
<1> QED
  BY <1>4, <1>5, <1>6 DEF Alliances

\* Who was disturbed stays so.
LEMMA DisturbedGrows ==
  ASSUME [Next]_vars
  PROVE  disturbed \subseteq disturbed'
<1>1. MoveRow \/ JoinCorp => disturbed \subseteq disturbed'
  BY DEF MoveRow, JoinCorp, Disturb
<1>2. ASSUME NEW ch \in Char, StoreChar(ch) PROVE disturbed \subseteq disturbed'
  BY <1>2 DEF StoreChar
<1> QED
  BY <1>1, <1>2, Frame

\* Where the poller goes on from a step of a move, when nothing fails.
LEMMA MovesFrom ==
  ASSUME [Next]_vars, ~EsiFails, ~AllianceFails, ~AddFails, ~DbFails, ~Crash, poll.pc \in MovePc, poll' # poll
  PROVE  MoveStep
<1>1. PollStep
  BY Frame
<1>2. poll.pc \notin CorpPc \cup {"idle", "alliances", "corps", "chars", "orphan"}
  BY DEF MovePc, CorpPc
<1>3. ~PollRound /\ ~PollCorps /\ ~PollChars /\ ~PollOrphan /\ ~PollEnd
  BY <1>2 DEF PollRound, PollCorps, PollChars, PollOrphan, PollEnd, Idle
<1>4. ~CorpStep
  BY <1>2 DEF CorpStep, Ask, StoreAlliance, StoreCorp, DropMembers, TakeMembers, AddRole, CorpPc
<1>5. /\ \A a \in Alliance : ~PollAlliance(a)
      /\ \A c \in Corp : ~PollCorp(c)
      /\ \A ch \in Char : ~PollChar(ch)
  BY <1>2 DEF PollAlliance, PollCorp, PollChar
<1> QED
  BY <1>1, <1>3, <1>4, <1>5 DEF PollStep

\* A confirmation past its link ends, or goes on, by joining.
LEMMA BotFrom ==
  ASSUME TypeInv, [Next]_vars, ~Crash, NEW b \in Bot, bot[b].pc \in {"corp", "ally"}, bot'[b] # bot[b]
  PROVE  \/ bot[b].pc = "corp" /\ BotJoinsCorp(b)
         \/ bot[b].pc = "ally" /\ BotJoinsAlliance(b)
<1>0. bot \in [Bot -> BotState] /\ bot[b] # Idle
  BY DEF TypeInv, TypeOK, Idle
<1>1. ASSUME NEW d \in Bot, NEW u \in User, NEW ch \in Char, Confirm(d, u, ch) PROVE FALSE
  BY <1>0, <1>1 DEF Confirm
<1>2. ASSUME NEW d \in Bot, Link(d) PROVE FALSE
  BY <1>0, <1>2 DEF Link, EndBot
<1>3. ASSUME NEW d \in Bot, BotJoinsCorp(d) \/ BotJoinsAlliance(d) PROVE d = b
  BY <1>0, <1>3 DEF BotJoinsCorp, BotJoinsAlliance, EndBot
<1>4. \E d \in Bot : BotJoinsCorp(d) \/ BotJoinsAlliance(d)
  BY <1>1, <1>2, Frame DEF BotStep
<1>5. BotJoinsCorp(b) \/ BotJoinsAlliance(b)
  BY <1>3, <1>4
<1> QED
  BY <1>5 DEF BotJoinsCorp, BotJoinsAlliance

\* Only another alliance, or none, is gone for.
LEMMA DifferStep ==
  ASSUME TypeInv, Differ, [Next]_vars
  PROVE  Differ'
<1> SUFFICES ASSUME poll'.pc \in {"leaveAlliance", "joinAlliance"}
             PROVE  poll'.old.alliance # poll'.new.alliance
  BY DEF Differ
<1>1. poll'.pc \in MovePc
  BY DEF MovePc
<1>2. \/ poll' = poll
      \/ poll.pc \in {"leaveCorp", "joinCorp", "leaveAlliance", "joinAlliance"} /\ poll'.old = poll.old /\ poll'.new = poll.new
  BY <1>1, MoveMoves DEF Late, MovePc
<1>3. CASE poll.pc \in {"leaveAlliance", "joinAlliance"}
  BY <1>2, <1>3 DEF Differ
<1>4. CASE poll.pc \in {"leaveCorp", "joinCorp"} /\ poll'.old = poll.old /\ poll'.new = poll.new
  <2>1. poll.pc \in MovePc /\ poll' # poll /\ poll.pc \notin {"leaveAlliance", "joinAlliance"}
    BY <1>4 DEF MovePc
  <2>2. AfterCorps
    <3>1. ~To("joinCorp") /\ ~Fallen
      <4>1. TypeOK
        BY DEF TypeInv
      <4>2. To("joinCorp") => poll'.pc = "joinCorp"
        BY <2>1, <4>1, MoveGoes DEF MovePc
      <4> QED
        BY <4>2 DEF Fallen
    <3>2. poll' # poll => LeaveCorp \/ JoinCorp \/ DbFails \/ Crash \/ AllianceFails \/ AddFails \/ EsiFails
      BY <1>4, <2>1, MovesFrom DEF MoveStep, MoveRow, FindUser, LeaveAlliance, JoinAlliance
    <3>3. ~LeaveCorp
      BY <3>1 DEF LeaveCorp
    <3>4. ~Crash /\ ~AllianceFails /\ ~AddFails /\ ~EsiFails
      <4>1. EsiFails => poll.pc = "ask" \/ poll.pc = "alliance" \/ poll.pc = "chars"
        BY Zenon DEF EsiFails
      <4>2. ~Crash /\ ~AllianceFails /\ ~AddFails
        <5>1. poll.pc \notin {"alliances", "alliance", "role"} /\ poll' # Idle
          BY <1>4 DEF Idle
        <5> QED
          BY <5>1 DEF Crash, AllianceFails, AddFails, AddCut
      <4> QED
        BY <1>4, <4>1, <4>2
    <3>5. JoinCorp => AfterCorps
      BY DEF JoinCorp
    <3>6. DbFails => AfterCorps
      BY <1>4, <3>1 DEF DbFails
    <3> QED
      BY <2>1, <3>2, <3>3, <3>4, <3>5, <3>6
  <2>3. poll.old.alliance # poll.new.alliance
    BY <2>2 DEF AfterCorps, NextChar
  <2> QED
    BY <1>4, <2>3
<1> QED
  BY <1>2, <1>3, <1>4

\* Who is being confirmed, and not disturbed, keeps the corporation.
LEMMA HomeOfConfirmed ==
  ASSUME TypeInv, [Next]_vars, Quiet', NEW b \in Bot, bot[b] # Idle, bot[b].ch \notin disturbed'
  PROVE  home'[bot[b].ch] = home[bot[b].ch]
<1> DEFINE ch == bot[b].ch
<1>0. home \in [Char -> Corp] /\ ch \in Char /\ Working(b, ch) /\ ch \notin disturbed'
  BY BotKinds DEF TypeInv, TypeOK, Working
<1>1. CASE ch \in chars
  BY <1>0, <1>1, HomeStays
<1>2. CASE ch \notin chars
  <2>1. ASSUME NEW d \in Char, StoreChar(d) PROVE home'[ch] = home[ch]
    <3>1. d # ch
      BY <1>0, <2>1 DEF StoreChar
    <3> QED
      BY <1>0, <2>1, <3>1 DEF StoreChar
  <2>2. ASSUME MoveRow PROVE home'[ch] = home[ch]
    <3>1. poll.ch \in chars
      BY <2>2, MovesStored DEF MoveRow, MovePc
    <3> QED
      BY <1>0, <1>2, <2>2, <3>1 DEF MoveRow, Reread
  <2> QED
    BY <2>1, <2>2, Frame, QuietStep
<1> QED
  BY <1>1, <1>2

\* The corporation and the alliance a confirmation works with are those of the
\* character's row, unless the character was disturbed.
LEMMA ConfirmationsStep ==
  ASSUME TypeInv, Alliances, Confirmations, [Next]_vars
  PROVE  Confirmations'
<1> SUFFICES ASSUME Quiet', NEW b \in Bot, bot'[b].pc # "idle", bot'[b].ch \notin disturbed'
             PROVE  /\ bot'[b].pc \in {"link", "corp"} => bot'[b].c = home'[bot'[b].ch]
                    /\ bot'[b].pc = "ally" /\ Still' => bot'[b].a = esi'[home'[bot'[b].ch]].alliance
  BY DEF Confirmations, Al
<1> USE DEF Al
<1>1. /\ Quiet
      /\ Still' => Still /\ \A c \in Corp : esi'[c].alliance = esi[c].alliance
  BY QuietStep DEF Al
<1>2. bot'[b].ch \notin disturbed
  BY DisturbedGrows
<1>3. bot[b].pc # "idle" /\ bot[b].ch \notin disturbed =>
        /\ bot[b].pc \in {"link", "corp"} => bot[b].c = home[bot[b].ch]
        /\ bot[b].pc = "ally" /\ Still => bot[b].a = Al(home[bot[b].ch])
  BY <1>1 DEF Confirmations
<1>4. ASSUME bot[b].pc # "idle", bot'[b].ch = bot[b].ch
      PROVE  home'[bot[b].ch] = home[bot[b].ch] /\ home[bot[b].ch] \in Corp
  BY <1>4, HomeOfConfirmed, BotKinds DEF Idle, TypeInv, TypeOK
<1>5. CASE bot'[b] = bot[b]
  BY <1>1, <1>2, <1>3, <1>4, <1>5
<1>6. bot'[b] # Idle
  BY DEF Idle
<1>7. CASE \E u \in User, ch \in chars : /\ Confirm(b, u, ch)
                                        /\ bot'[b] = [pc |-> "link", u |-> u, ch |-> ch, c |-> home[ch]]
  <2>1. PICK u \in User, ch \in chars : /\ Confirm(b, u, ch)
                                        /\ bot'[b] = [pc |-> "link", u |-> u, ch |-> ch, c |-> home[ch]]
    BY <1>7
  <2>2. home' = home
    BY <2>1 DEF Confirm, tables
  <2>3. bot'[b].pc = "link" /\ bot'[b].ch = ch /\ bot'[b].c = home[ch]
    BY <2>1
  <2> QED
    BY <2>2, <2>3
<1>8. CASE /\ bot[b].pc = "link" /\ bot'[b].pc = "corp" /\ bot'[b].ch = bot[b].ch /\ bot'[b].c = bot[b].c
  BY <1>2, <1>3, <1>4, <1>8
<1>9. CASE /\ bot[b].pc = "corp"
           /\ bot'[b] = [pc |-> "ally", u |-> bot[b].u, ch |-> bot[b].ch, a |-> corps[bot[b].c].alliance]
  <2>1. bot'[b].pc = "ally" /\ bot'[b].ch = bot[b].ch /\ bot'[b].a = corps[bot[b].c].alliance
    BY <1>9
  <2>2. bot[b].c \in Corp /\ Stored(bot[b].c)
    BY <1>9, BotKinds DEF TypeInv, BotCorpStored
  <2>3. Still' => bot'[b].a = Al(bot[b].c)
    BY <1>1, <2>1, <2>2 DEF Alliances
  <2> QED
    BY <1>1, <1>2, <1>3, <1>4, <1>9, <2>1, <2>2, <2>3
<1> QED
  BY <1>5, <1>6, <1>7, <1>8, <1>9, BotMoves

-----------------------------------------------------------------------------
(* The filters a user is in                                                *)

\* ch is the only character of u, and u its only user.
Only(u, ch) == Owners(ch) = {u} /\ \A d \in Char : u \in Owners(d) => d = ch
\* The poller is at ch, in one of these steps.
At(pcs, ch) == poll.pc \in pcs /\ poll.ch = ch
\* A confirmation is about to put u into the filters of ch.
Joining(pcs, u, ch) == \E b \in Bot : bot[b].pc \in pcs /\ bot[b].u = u /\ bot[b].ch = ch

\* AtHome for corporations, with what is under way: until the user is out of
\* the old filter, the poller still has the old row, and whoever is not in the new
\* one yet is about to be put there, by the poller or by a confirmation.
InCorp == Quiet => \A u \in User, ch \in Char : Only(u, ch) /\ ch \notin disturbed =>
    /\ \A t \in Name : u \in member[t] =>
         t = Tk(home[ch]) \/ (At({"user", "leaveCorp"}, ch) /\ t = poll.old.ticker)
    /\ \/ u \in member[Tk(home[ch])]
       \/ At({"user", "leaveCorp", "joinCorp"}, ch) \/ Joining({"corp"}, u, ch)

\* The same for alliances: the old one is left only if it differs, and the new
\* one is joined after it.
InAlliance == Still => \A u \in User, ch \in Char : Only(u, ch) /\ ch \notin disturbed =>
    /\ \A t \in Alliance : u \in member[t] =>
         t = Al(home[ch]) \/ (At(Moved \ {"joinAlliance"}, ch) /\ t = poll.old.alliance)
    /\ Al(home[ch]) # None =>
         \/ u \in member[Al(home[ch])]
         \/ At(Moved, ch) /\ poll.old.alliance # poll.new.alliance
         \/ Joining({"corp", "ally"}, u, ch)

\* The inductive invariant behind AtHome.
AtInv == /\ TypeInv /\ OwnersOnly /\ Filled /\ Differ /\ Tickers /\ Alliances /\ Confirmations
         /\ InCorp /\ InAlliance

\* The user of a character that has one, who has no other: whoever works for
\* either works for both.
LEMMA OnlyOne ==
  ASSUME TypeInv, OwnersOnly, NEW u \in User, NEW ch \in Char, Only(u, ch)
  PROVE  /\ ch \in chars /\ <<u, ch>> \in linked
         /\ poll.pc \in Late => (poll.u = u <=> poll.ch = ch)
         /\ \A b \in Bot : bot[b].pc \in {"corp", "ally"} => (bot[b].u = u <=> bot[b].ch = ch)
<1>1. linked \subseteq User \X chars /\ chars \subseteq Char
  BY DEF TypeInv, TypeOK
<1>2. ASSUME NEW v, NEW d, <<v, d>> \in linked PROVE v = u <=> d = ch
  <2>1. v \in User /\ d \in Char
    BY <1>1, <1>2
  <2>2. v \in Owners(d)
    BY <1>2, <2>1 DEF Owners
  <2> QED
    BY <2>1, <2>2 DEF Only
<1>3. <<u, ch>> \in linked
  BY DEF Only, Owners
<1> QED
  BY <1>1, <1>2, <1>3 DEF TypeInv, UserFound, OwnersOnly

\* Whoever becomes the only user of their only character has just been linked,
\* was in no filter, and is about to join.
LEMMA NewlyOnly ==
  ASSUME TypeInv, OwnersOnly, [Next]_vars, NEW u \in User, NEW ch \in Char, Only(u, ch)', ~Only(u, ch)
  PROVE  /\ \A t \in Ticker : u \notin member'[t]
         /\ Joining({"corp"}, u, ch)'
<1>1. linked' # linked /\ linked \subseteq linked'
  BY LinkedTyped DEF Only, Owners
<1>2. PICK b \in Bot : Link(b)
  BY <1>1, Frame
<1>3. linked' = linked \cup {<<bot[b].u, bot[b].ch>>} /\ bot' = [bot EXCEPT ![b].pc = "corp"] /\ member' = member
  BY <1>1, <1>2 DEF Link
<1>4. bot[b].u \in User /\ bot[b].ch \in Char
  BY <1>2, BotKinds DEF Link, TypeInv
<1>5. <<u, ch>> \in linked'
  BY DEF Only, Owners
<1>6. <<u, ch>> \notin linked
  <2> SUFFICES ASSUME <<u, ch>> \in linked PROVE FALSE
    OBVIOUS
  <2>1. \A v \in User : <<v, ch>> \in linked => v = u
    BY <1>1 DEF Only, Owners
  <2>2. \A d \in Char : <<u, d>> \in linked => d = ch
    BY <1>1 DEF Only, Owners
  <2> QED
    BY <2>1, <2>2 DEF Only, Owners
<1>7. bot[b].u = u /\ bot[b].ch = ch
  BY <1>3, <1>5, <1>6
<1>8. \A d \in Char : <<u, d>> \notin linked
  BY <1>1, <1>6 DEF Only, Owners
<1>9. \A t \in Ticker : u \notin member'[t]
  BY <1>3, <1>8 DEF OwnersOnly
<1>10. bot'[b].pc = "corp" /\ bot'[b].u = u /\ bot'[b].ch = ch
  <2>1. bot[b] \in [pc : {"link", "corp"}, u : User, ch : Char, c : Corp]
    BY <1>2, BotKinds DEF Link, TypeInv
  <2>2. bot'[b] = [bot[b] EXCEPT !.pc = "corp"]
    BY <1>3 DEF TypeInv, TypeOK
  <2> QED
    BY <1>7, <2>1, <2>2
<1> QED
  BY <1>9, <1>10 DEF Joining

\* Of a stored character's corporation, the row is ESI's and the role exists.
LEMMA HomeFacts ==
  ASSUME AtInv, Quiet, NEW ch \in chars
  PROVE  /\ ch \in Char /\ home[ch] \in Corp /\ Stored(home[ch])
         /\ corps[home[ch]].ticker = Tk(home[ch])
         /\ Tk(home[ch]) \in Name /\ Tk(home[ch]) \in Ticker /\ Tk(home[ch]) \in filters
         /\ Still => /\ corps[home[ch]].alliance = Al(home[ch])
                     /\ Al(home[ch]) # None => Al(home[ch]) \in Alliance /\ Al(home[ch]) \in filters
<1>1. ch \in Char /\ home[ch] \in Corp /\ Stored(home[ch]) /\ esi \in [Corp -> Row]
  BY DEF AtInv, TypeInv, TypeOK
<1>2. corps[home[ch]].ticker = Tk(home[ch]) /\ Tk(home[ch]) \in filters /\ alliances \subseteq filters
  BY <1>1 DEF AtInv, Tickers
<1>3. Tk(home[ch]) \in Name
  BY <1>1 DEF Tk, Row
<1>4. Still => corps[home[ch]].alliance = Al(home[ch])
  BY <1>1 DEF AtInv, Alliances
<1>5. corps[home[ch]].alliance \in alliances \cup {None} /\ alliances \subseteq Alliance
  BY <1>1 DEF AtInv, TypeInv, TypeOK
<1> QED
  BY <1>1, <1>2, <1>3, <1>4, <1>5 DEF Ticker

\* What the poller holds of a character that moves.
LEMMA MoverFacts ==
  ASSUME AtInv, Quiet, poll.pc \in MovePc
  PROVE  /\ poll.ch \in chars /\ poll.c \in Corp
         /\ poll.old.alliance \notin Name /\ poll.new.alliance \notin Name
         /\ poll.old.ticker \notin Alliance /\ poll.new.ticker \notin Alliance
         /\ poll.pc # "moveRow" => /\ home[poll.ch] = poll.c
                                   /\ poll.new.ticker = Tk(home[poll.ch])
                                   /\ Still => poll.new.alliance = Al(home[poll.ch])
<1>1. poll.ch \in chars
  BY MovesStored DEF AtInv
<1>2. poll.c \in Corp /\ poll.old \in AnyRow /\ poll.new \in AnyRow
  BY PollKinds DEF AtInv, TypeInv, MoveRec
<1>3. \A r \in AnyRow : r.alliance \notin Name /\ r.ticker \notin Alliance
  BY EsiConstants DEF AnyRow, Row, Zero, Ticker, AtInv, TypeInv, TickersApart
<1>4. poll.pc # "moveRow" => home[poll.ch] = poll.c /\ poll.new.ticker = Tk(poll.c)
  BY DEF AtInv, Tickers, Moved
<1>5. poll.pc # "moveRow" /\ Still => poll.new.alliance = Al(poll.c)
  BY DEF AtInv, Alliances, Moved
<1> QED
  BY <1>1, <1>2, <1>3, <1>4, <1>5

\* Who leaves a filter is out of it, whether or not it exists.
LEMMA LeftIsOut ==
  ASSUME AtInv, NEW u, NEW t \in Ticker, Leaves({u}, t)
  PROVE  u \notin member'[t]
<1>1. member \in Filters
  BY DEF AtInv, TypeInv, TypeOK, Filters
<1>2. CASE t \in filters
  BY <1>1, <1>2, LeavesIs
<1>3. CASE t \notin filters
  <2>1. member[t] = {}
    BY <1>3 DEF AtInv, Filled
  <2>2. member'[t] \subseteq member[t]
    BY <1>1, LeavesIs
  <2> QED
    BY <2>1, <2>2
<1> QED
  BY <1>2, <1>3

\* Who joins one that exists is in it.
LEMMA JoinedIsIn ==
  ASSUME AtInv, NEW u \in User, NEW t \in Ticker, t \in filters, Joins({u}, t)
  PROVE  u \in member'[t]
<1>1. member \in Filters /\ {u} \in SUBSET (User \cup Index)
  BY DEF AtInv, TypeInv, TypeOK, Filters
<1> QED
  BY <1>1, JoinsIs

\* What a confirmation joins is named by the row of its character.
LEMMA ConfirmedFacts ==
  ASSUME AtInv, Quiet, NEW b \in Bot, bot[b].ch \in chars, bot[b].ch \notin disturbed
  PROVE  /\ bot[b].pc = "corp" => /\ bot[b].c = home[bot[b].ch]
                                  /\ corps[bot[b].c].ticker = Tk(home[bot[b].ch])
                                  /\ Still => corps[bot[b].c].alliance = Al(home[bot[b].ch])
         /\ bot[b].pc = "ally" => /\ bot[b].a \in Alliance
                                  /\ Still => bot[b].a = Al(home[bot[b].ch])
<1>1. bot[b].pc # "idle" =>
        /\ bot[b].pc \in {"link", "corp"} => bot[b].c = home[bot[b].ch]
        /\ bot[b].pc = "ally" /\ Still => bot[b].a = Al(home[bot[b].ch])
  BY DEF AtInv, Confirmations
<1>2. bot[b].pc = "ally" => bot[b].a \in Alliance
  BY BotKinds DEF AtInv, TypeInv
<1> QED
  BY <1>1, <1>2, HomeFacts

\* The corporation's half: one step keeps the user in the filter of the stored
\* corporation and in no other, or is on the way to it.
LEMMA InCorpStep ==
  ASSUME AtInv, [Next]_vars
  PROVE  InCorp'
<1> SUFFICES ASSUME Quiet', NEW u \in User, NEW ch \in Char, Only(u, ch)', ch \notin disturbed'
             PROVE  /\ \A t \in Name : u \in member'[t] =>
                         \/ t = esi'[home'[ch]].ticker
                         \/ At({"user", "leaveCorp"}, ch)' /\ t = poll'.old.ticker
                    /\ \/ u \in member'[esi'[home'[ch]].ticker]
                       \/ At({"user", "leaveCorp", "joinCorp"}, ch)'
                       \/ Joining({"corp"}, u, ch)'
  BY DEF InCorp, Tk
<1>a. /\ TypeInv /\ OwnersOnly
      /\ Quiet /\ ~EsiFails /\ ~AllianceFails /\ ~AddFails /\ ~DbFails /\ ~Crash
      /\ \A c \in Corp : esi'[c].ticker = Tk(c)
      /\ ch \notin disturbed
  BY QuietStep, DisturbedGrows DEF AtInv, Tk
<1>b. \A t \in Name : t \in Ticker /\ t \notin Alliance
  BY DEF Ticker, AtInv, TypeInv, TickersApart
<1>1. CASE ~Only(u, ch)
  <2>1. \A t \in Ticker : u \notin member'[t]
    BY <1>1, <1>a, NewlyOnly
  <2>2. Joining({"corp"}, u, ch)'
    BY <1>1, <1>a, NewlyOnly
  <2> QED
    BY <1>b, <2>1, <2>2
<1>2. CASE Only(u, ch)
  <2>1. /\ ch \in chars /\ <<u, ch>> \in linked
        /\ poll.pc \in Late => (poll.u = u <=> poll.ch = ch)
        /\ \A b \in Bot : bot[b].pc \in {"corp", "ally"} => (bot[b].u = u <=> bot[b].ch = ch)
    BY <1>2, <1>a, OnlyOne
  <2>2. /\ home[ch] \in Corp /\ corps[home[ch]].ticker = Tk(home[ch])
        /\ Tk(home[ch]) \in Name /\ Tk(home[ch]) \in Ticker /\ Tk(home[ch]) \in filters
    BY <1>a, <2>1, HomeFacts
  <2>3. \A t \in Name : u \in member[t] =>
          t = Tk(home[ch]) \/ (At({"user", "leaveCorp"}, ch) /\ t = poll.old.ticker)
    BY <1>2, <1>a DEF AtInv, InCorp
  <2>4. \/ u \in member[Tk(home[ch])]
        \/ At({"user", "leaveCorp", "joinCorp"}, ch) \/ Joining({"corp"}, u, ch)
    BY <1>2, <1>a DEF AtInv, InCorp
  <2>5. \/ home'[ch] = home[ch] /\ esi'[home'[ch]].ticker = Tk(home[ch])
        \/ /\ MoveRow /\ poll.ch = ch /\ At({"user", "leaveCorp"}, ch)' /\ poll'.old.ticker = Tk(home[ch])
           /\ At({"user", "leaveCorp", "joinCorp"}, ch)'
    <3>1. home'[ch] = home[ch] \/ (MoveRow /\ poll.ch = ch /\ Stored(poll.c))
      BY <1>a, <2>1, HomeStays
    <3>2. ASSUME MoveRow, poll.ch = ch, Stored(poll.c)
          PROVE  poll'.pc = "user" /\ poll'.ch = ch /\ poll'.old = corps[home[ch]]
      BY <1>a, <3>2, RereadIs, MovesStored DEF MoveRow, MovePc, TypeInv
    <3> QED
      BY <1>a, <2>2, <3>1, <3>2 DEF At
  <2>6. ASSUME At({"user", "leaveCorp", "joinCorp"}, ch), poll' # poll
        PROVE  /\ home'[ch] = home[ch]
               /\ \/ poll.pc = "user" /\ At({"user", "leaveCorp"}, ch)' /\ At({"user", "leaveCorp", "joinCorp"}, ch)'
                     /\ poll'.old.ticker = poll.old.ticker
                  \/ LeaveCorp /\ poll.u = u /\ At({"user", "leaveCorp", "joinCorp"}, ch)'
                  \/ JoinCorp /\ poll.u = u
    <3>1. poll.pc \in MovePc /\ poll.ch = ch /\ poll.pc \in {"user", "leaveCorp", "joinCorp"}
      BY <2>6 DEF At, MovePc
    <3>2. FindUser \/ LeaveCorp \/ JoinCorp
      BY <1>a, <2>6, <3>1, MovesFrom DEF MoveStep, MoveRow, LeaveAlliance, JoinAlliance
    <3>3. home'[ch] = home[ch]
      BY <3>2 DEF FindUser, LeaveCorp, JoinCorp, tables
    <3>4. LeaveCorp \/ JoinCorp => poll.u = u
      BY <2>1, <3>1 DEF LeaveCorp, JoinCorp, Late, MovePc
    <3>5. CASE FindUser
      <4>1. u \in Owners(poll.ch)
        BY <2>1, <3>1 DEF Owners
      <4>2. poll'.pc = "leaveCorp" /\ poll'.ch = poll.ch /\ poll'.old = poll.old
        BY <1>a, <3>5, <4>1, FindUserIs DEF TypeInv
      <4> QED
        BY <3>1, <3>3, <3>5, <4>2 DEF At, FindUser
    <3>6. CASE LeaveCorp
      <4>1. poll'.pc = "joinCorp" /\ poll'.ch = poll.ch
        BY <1>a, <3>1, <3>6, MoveGoes DEF LeaveCorp, TypeInv, MovePc
      <4> QED
        BY <3>1, <3>3, <3>4, <3>6, <4>1 DEF At
    <3> QED
      BY <3>2, <3>3, <3>4, <3>5, <3>6
  <2>7. ASSUME JoinCorp, poll.u = u
        PROVE  /\ poll.ch = ch /\ home'[ch] = home[ch] /\ poll.new.ticker = Tk(home[ch])
               /\ u \in member'[Tk(home[ch])]
    <3>1. poll.pc = "joinCorp" /\ poll.pc \in MovePc /\ poll.pc \in Late
      BY <2>7 DEF JoinCorp, MovePc, Late
    <3>2. poll.ch = ch /\ poll.new.ticker = Tk(home[ch])
      BY <1>a, <2>1, <2>7, <3>1, MoverFacts
    <3>3. Joins({u}, Tk(home[ch])) /\ home' = home
      BY <2>7, <3>2 DEF JoinCorp
    <3> QED
      BY <2>2, <3>2, <3>3, JoinedIsIn
  <2>8. ASSUME NEW b \in Bot, BotJoinsCorp(b), bot[b].u = u
        PROVE  /\ home'[ch] = home[ch] /\ corps[bot[b].c].ticker = Tk(home[ch])
               /\ u \in member'[Tk(home[ch])]
    <3>1. bot[b].pc = "corp" /\ bot[b].ch = ch
      BY <2>1, <2>8 DEF BotJoinsCorp
    <3>2. corps[bot[b].c].ticker = Tk(home[ch])
      BY <1>a, <2>1, <3>1, ConfirmedFacts
    <3>3. Joins({u}, Tk(home[ch])) /\ home' = home
      BY <2>8, <3>2 DEF BotJoinsCorp
    <3> QED
      BY <2>2, <3>2, <3>3, JoinedIsIn
  <2>9. ASSUME NEW t \in Name, u \in member'[t]
        PROVE  \/ t = esi'[home'[ch]].ticker
               \/ At({"user", "leaveCorp"}, ch)' /\ t = poll'.old.ticker
    <3>1. CASE u \in member[t] /\ t = Tk(home[ch])
      BY <2>5, <3>1
    <3>2. CASE u \in member[t] /\ At({"user", "leaveCorp"}, ch) /\ t = poll.old.ticker
      <4>1. At({"user", "leaveCorp", "joinCorp"}, ch) /\ poll.pc # "joinCorp"
        BY <3>2 DEF At
      <4>2. CASE LeaveCorp /\ poll.u = u
        <5>1. Leaves({u}, t)
          BY <3>2, <4>2 DEF LeaveCorp
        <5> QED
          BY <1>b, <2>9, <5>1, LeftIsOut
      <4>3. CASE poll' = poll
        BY <3>2, <4>3 DEF At
      <4> QED
        BY <2>6, <3>2, <4>1, <4>2, <4>3 DEF JoinCorp
    <3>3. CASE JoinCorp /\ u = poll.u /\ t = poll.new.ticker
      BY <2>5, <2>7, <3>3 DEF JoinCorp, MoveRow
    <3>4. CASE JoinAlliance /\ u = poll.u /\ t = poll.new.alliance
      BY <1>a, <3>4, MoverFacts DEF JoinAlliance, MovePc
    <3>5. ASSUME NEW b \in Bot, BotJoinsCorp(b), bot[b].u = u, t = corps[bot[b].c].ticker
          PROVE  t = Tk(home[ch])
      BY <2>8, <3>5
    <3>6. ASSUME NEW b \in Bot, BotJoinsAlliance(b), t = bot[b].a PROVE FALSE
      BY <1>a, <1>b, <3>6, BotKinds DEF BotJoinsAlliance, TypeInv
    <3> QED
      BY <1>a, <1>b, <2>3, <2>5, <2>9, <3>1, <3>2, <3>3, <3>4, <3>5, <3>6, UserMoves
  <2>10. \/ u \in member'[esi'[home'[ch]].ticker]
         \/ At({"user", "leaveCorp", "joinCorp"}, ch)'
         \/ Joining({"corp"}, u, ch)'
    <3>1. CASE home'[ch] # home[ch]
      BY <2>5, <3>1
    <3>2. CASE home'[ch] = home[ch]
      <4>0. esi'[home'[ch]].ticker = Tk(home[ch])
        BY <1>a, <2>2, <3>2
      <4>1. CASE u \in member[Tk(home[ch])]
        <5>1. ASSUME LeaveCorp, u = poll.u PROVE At({"user", "leaveCorp", "joinCorp"}, ch)'
          <6>1. poll.pc = "leaveCorp" /\ poll.pc \in MovePc /\ poll.pc \in Late
            BY <5>1 DEF LeaveCorp, MovePc, Late
          <6>2. poll'.pc = "joinCorp" /\ poll'.ch = poll.ch
            BY <1>a, <5>1, <6>1, MoveGoes DEF LeaveCorp, TypeInv, MovePc
          <6> QED
            BY <2>1, <5>1, <6>1, <6>2 DEF At
        <5>2. ~(LeaveAlliance /\ Tk(home[ch]) = poll.old.alliance)
          BY <1>a, <2>2, MoverFacts DEF LeaveAlliance, MovePc
        <5> QED
          BY <1>a, <2>2, <4>0, <4>1, <5>1, <5>2, UserMoves
      <4>2. CASE At({"user", "leaveCorp", "joinCorp"}, ch)
        <5>1. CASE poll' = poll
          BY <4>2, <5>1 DEF At
        <5> QED
          BY <2>6, <2>7, <4>0, <4>2, <5>1
      <4>3. CASE Joining({"corp"}, u, ch)
        <5>1. PICK b \in Bot : bot[b].pc = "corp" /\ bot[b].u = u /\ bot[b].ch = ch
          BY <4>3 DEF Joining
        <5>2. CASE bot'[b] = bot[b]
          BY <5>1, <5>2 DEF Joining
        <5>3. CASE BotJoinsCorp(b)
          BY <2>8, <4>0, <5>1, <5>3
        <5> QED
          BY <1>a, <5>1, <5>2, <5>3, BotFrom
      <4> QED
        BY <2>4, <4>1, <4>2, <4>3
    <3> QED
      BY <3>1, <3>2
  <2> QED
    BY <2>9, <2>10
<1> QED
  BY <1>1, <1>2

\* The alliance's half, as long as no corporation changes its alliance.
LEMMA InAllianceStep ==
  ASSUME AtInv, [Next]_vars
  PROVE  InAlliance'
<1> SUFFICES ASSUME Still', NEW u \in User, NEW ch \in Char, Only(u, ch)', ch \notin disturbed'
             PROVE  /\ \A t \in Alliance : u \in member'[t] =>
                         \/ t = esi'[home'[ch]].alliance
                         \/ At(Moved \ {"joinAlliance"}, ch)' /\ t = poll'.old.alliance
                    /\ esi'[home'[ch]].alliance # None =>
                         \/ u \in member'[esi'[home'[ch]].alliance]
                         \/ At(Moved, ch)' /\ poll'.old.alliance # poll'.new.alliance
                         \/ Joining({"corp", "ally"}, u, ch)'
  BY DEF InAlliance, Al
<1>a. /\ TypeInv /\ OwnersOnly
      /\ Quiet' /\ Quiet /\ Still /\ ~EsiFails /\ ~AllianceFails /\ ~AddFails /\ ~DbFails /\ ~Crash
      /\ \A c \in Corp : esi'[c].alliance = Al(c)
      /\ ch \notin disturbed
  BY QuietStep, DisturbedGrows DEF AtInv, Al, Still
<1>b. \A t \in Alliance : t \in Ticker /\ t \notin Name /\ t # None
  BY EsiConstants DEF Ticker, AtInv, TypeInv, TickersApart
<1>1. CASE ~Only(u, ch)
  <2>1. \A t \in Ticker : u \notin member'[t]
    BY <1>1, <1>a, NewlyOnly
  <2>2. Joining({"corp"}, u, ch)'
    BY <1>1, <1>a, NewlyOnly
  <2> QED
    BY <1>b, <2>1, <2>2 DEF Joining
<1>2. CASE Only(u, ch)
  <2> DEFINE a == Al(home[ch])
  <2>1. /\ ch \in chars /\ <<u, ch>> \in linked
        /\ poll.pc \in Late => (poll.u = u <=> poll.ch = ch)
        /\ \A b \in Bot : bot[b].pc \in {"corp", "ally"} => (bot[b].u = u <=> bot[b].ch = ch)
    BY <1>2, <1>a, OnlyOne
  <2>2. /\ home[ch] \in Corp /\ corps[home[ch]].alliance = a
        /\ a # None => a \in Alliance /\ a \in Ticker /\ a \in filters
    BY <1>a, <1>b, <2>1, HomeFacts
  <2>3. \A t \in Alliance : u \in member[t] =>
          t = a \/ (At(Moved \ {"joinAlliance"}, ch) /\ t = poll.old.alliance)
    BY <1>2, <1>a DEF AtInv, InAlliance
  <2>4. a # None => \/ u \in member[a]
                    \/ At(Moved, ch) /\ poll.old.alliance # poll.new.alliance
                    \/ Joining({"corp", "ally"}, u, ch)
    BY <1>2, <1>a DEF AtInv, InAlliance
  \* The move of the row: the old alliance is the one the user is in.
  <2>5. \/ home'[ch] = home[ch] /\ esi'[home'[ch]].alliance = a
        \/ /\ MoveRow /\ poll.ch = ch /\ poll.pc = "moveRow" /\ At(Moved \ {"joinAlliance"}, ch)' /\ At(Moved, ch)'
           /\ poll'.old.alliance = a /\ poll'.new.alliance = esi'[home'[ch]].alliance
           /\ \A b \in Bot : ~Working(b, ch)
    <3>1. \/ home'[ch] = home[ch]
          \/ /\ MoveRow /\ poll.ch = ch /\ Stored(poll.c) /\ home'[ch] = poll.c
             /\ \A b \in Bot : ~Working(b, ch)
      BY <1>a, <2>1, HomeStays
    <3>2. ASSUME MoveRow, poll.ch = ch, Stored(poll.c)
          PROVE  /\ poll'.pc = "user" /\ poll'.ch = ch /\ poll'.old = corps[home[ch]] /\ poll'.new = corps[poll.c]
                 /\ poll.c \in Corp
      BY <1>a, <3>2, RereadIs, MovesStored DEF MoveRow, MovePc, TypeInv
    <3>3. ASSUME MoveRow, poll.ch = ch, Stored(poll.c), home'[ch] = poll.c
          PROVE  poll'.new.alliance = esi'[home'[ch]].alliance
      BY <1>a, <3>2, <3>3 DEF AtInv, Alliances
    <3> QED
      BY <1>a, <2>2, <3>1, <3>2, <3>3 DEF At, Moved, MovePc, MoveRow
  \* The steps of the user's own move.
  <2>6. ASSUME At(Moved, ch), poll' # poll
        PROVE  /\ home'[ch] = home[ch] /\ ~(poll.old.alliance # poll.new.alliance /\ poll.old.alliance = None /\ JoinCorp)
               /\ \/ /\ poll.pc \in {"user", "leaveCorp"} /\ At(Moved, ch)' /\ At(Moved \ {"joinAlliance"}, ch)'
                     /\ poll'.old = poll.old /\ poll'.new = poll.new
                  \/ JoinCorp /\ poll.u = u
                  \/ LeaveAlliance /\ poll.u = u
                  \/ JoinAlliance /\ poll.u = u
    <3>1. poll.pc \in MovePc /\ poll.ch = ch /\ poll.pc # "moveRow"
      BY <2>6 DEF At, Moved
    <3>2. FindUser \/ LeaveCorp \/ JoinCorp \/ LeaveAlliance \/ JoinAlliance
      BY <1>a, <2>6, <3>1, MovesFrom DEF MoveStep, MoveRow
    <3>3. home'[ch] = home[ch]
      BY <3>2 DEF FindUser, LeaveCorp, JoinCorp, LeaveAlliance, JoinAlliance, tables
    <3>4. JoinCorp \/ LeaveAlliance \/ JoinAlliance => poll.u = u
      BY <2>1, <3>1 DEF JoinCorp, LeaveAlliance, JoinAlliance, Late, MovePc
    <3>5. CASE FindUser
      <4>1. u \in Owners(poll.ch)
        BY <2>1, <3>1 DEF Owners
      <4>2. poll'.pc = "leaveCorp" /\ poll'.ch = poll.ch /\ poll'.old = poll.old /\ poll'.new = poll.new
        BY <1>a, <3>5, <4>1, FindUserIs DEF TypeInv
      <4> QED
        BY <3>1, <3>3, <3>5, <4>2 DEF At, FindUser, Moved, MovePc, JoinCorp
    <3>6. CASE LeaveCorp
      <4>1. poll'.pc = "joinCorp" /\ poll'.ch = poll.ch /\ poll'.old = poll.old /\ poll'.new = poll.new
        BY <1>a, <3>1, <3>6, MoveGoes DEF LeaveCorp, TypeInv, MovePc
      <4> QED
        BY <3>1, <3>3, <3>6, <4>1 DEF At, LeaveCorp, Moved, MovePc, JoinCorp
    <3>7. ~(poll.old.alliance # poll.new.alliance /\ poll.old.alliance = None /\ JoinCorp)
      BY <3>1 DEF JoinCorp, Disturb
    <3> QED
      BY <3>2, <3>3, <3>4, <3>5, <3>6, <3>7
  <2>7. ASSUME At(Moved, ch)
        PROVE poll.new.alliance = a /\ poll.new.ticker \notin Alliance /\ poll.old.ticker \notin Alliance
    BY <1>a, <2>7, MoverFacts DEF At, Moved
  \* Joining the corporation is followed by leaving the old alliance, if it differs.
  <2>8. ASSUME JoinCorp, At(Moved, ch), poll' # poll, poll.old.alliance # poll.new.alliance
        PROVE  /\ At(Moved, ch)' /\ At(Moved \ {"joinAlliance"}, ch)'
               /\ poll'.old = poll.old /\ poll'.new = poll.new
    <3>1. poll.pc \in MovePc /\ poll.ch = ch
      BY <2>8 DEF At, Moved
    <3>2. To("leaveAlliance")
      BY <2>6, <2>8 DEF JoinCorp, AfterCorps
    <3>3. poll'.pc = "leaveAlliance" /\ poll'.ch = poll.ch /\ poll'.old = poll.old /\ poll'.new = poll.new
      BY <1>a, <3>1, <3>2, MoveGoes DEF TypeInv, MovePc
    <3> QED
      BY <3>1, <3>3 DEF At, Moved, MovePc
  <2>9. ASSUME LeaveAlliance, At(Moved, ch), a # None
        PROVE  At(Moved, ch)' /\ poll'.old.alliance # poll'.new.alliance
    <3>1. poll.pc \in MovePc /\ poll.ch = ch /\ poll.pc = "leaveAlliance"
      BY <2>9 DEF At, Moved, LeaveAlliance
    <3>2. To("joinAlliance") /\ poll.old.alliance # poll.new.alliance
      BY <2>7, <2>9, <3>1 DEF LeaveAlliance, AtInv, Differ
    <3>3. poll'.pc = "joinAlliance" /\ poll'.ch = poll.ch /\ poll'.old = poll.old /\ poll'.new = poll.new
      BY <1>a, <3>1, <3>2, MoveGoes DEF TypeInv, MovePc
    <3> QED
      BY <3>1, <3>2, <3>3 DEF At, Moved, MovePc
  <2>10. ASSUME JoinAlliance, poll.u = u
         PROVE  /\ poll.new.alliance = a /\ home' = home
                /\ a # None => u \in member'[a]
    <3>1. poll.pc \in MovePc /\ poll.pc \in Late /\ poll.pc # "moveRow"
      BY <2>10 DEF JoinAlliance, MovePc, Late
    <3>2. poll.ch = ch /\ poll.new.alliance = a
      BY <1>a, <2>1, <2>10, <3>1, MoverFacts
    <3>3. Joins({u}, a) /\ home' = home
      BY <2>10, <3>2 DEF JoinAlliance
    <3> HIDE DEF a
    <3> QED
      BY <2>2, <3>2, <3>3, JoinedIsIn
  <2>11. ASSUME NEW b \in Bot, BotJoinsAlliance(b), bot[b].u = u
         PROVE  bot[b].a = a /\ home' = home /\ (a # None => u \in member'[a])
    <3>1. bot[b].pc = "ally" /\ bot[b].ch = ch
      BY <2>1, <2>11 DEF BotJoinsAlliance
    <3>2. bot[b].a = a
      BY <1>a, <2>1, <3>1, ConfirmedFacts
    <3>3. Joins({u}, a) /\ home' = home
      BY <2>11, <3>2 DEF BotJoinsAlliance
    <3> HIDE DEF a
    <3> QED
      BY <2>2, <3>2, <3>3, JoinedIsIn
  <2>12. ASSUME NEW t \in Alliance, u \in member'[t]
         PROVE  \/ t = esi'[home'[ch]].alliance
                \/ At(Moved \ {"joinAlliance"}, ch)' /\ t = poll'.old.alliance
    <3>1. CASE u \in member[t] /\ t = a
      BY <2>5, <3>1
    <3>2. CASE u \in member[t] /\ At(Moved \ {"joinAlliance"}, ch) /\ t = poll.old.alliance
      <4>1. At(Moved, ch) /\ poll.pc # "joinAlliance"
        BY <3>2 DEF At
      <4>2. CASE LeaveAlliance /\ poll.u = u
        <5>1. Leaves({u}, t)
          BY <3>2, <4>2 DEF LeaveAlliance
        <5> QED
          BY <1>b, <2>12, <5>1, LeftIsOut
      <4>3. CASE JoinCorp /\ poll' # poll
        <5>1. CASE poll.old.alliance = poll.new.alliance
          BY <2>5, <2>6, <2>7, <3>2, <4>1, <4>3, <5>1
        <5>2. CASE poll.old.alliance # poll.new.alliance
          BY <2>8, <3>2, <4>1, <4>3, <5>2
        <5> QED
          BY <5>1, <5>2
      <4>4. CASE poll' = poll
        BY <3>2, <4>4 DEF At
      <4> QED
        BY <2>6, <3>2, <4>1, <4>2, <4>3, <4>4 DEF JoinAlliance
    <3>3. CASE JoinAlliance /\ u = poll.u /\ t = poll.new.alliance
      BY <2>5, <2>10, <3>3 DEF JoinAlliance, MoveRow
    <3>4. CASE JoinCorp /\ u = poll.u /\ t = poll.new.ticker
      BY <1>a, <3>4, MoverFacts DEF JoinCorp, MovePc
    <3>5. ASSUME NEW b \in Bot, BotJoinsAlliance(b), bot[b].u = u, t = bot[b].a
          PROVE  t = a
      BY <2>11, <3>5
    <3>6. ASSUME NEW b \in Bot, BotJoinsCorp(b), bot[b].u = u, t = corps[bot[b].c].ticker PROVE FALSE
      <4>1. bot[b].pc = "corp" /\ bot[b].ch = ch
        BY <2>1, <3>6 DEF BotJoinsCorp
      <4>2. corps[bot[b].c].ticker = Tk(home[ch]) /\ Tk(home[ch]) \in Name
        BY <1>a, <2>1, <4>1, ConfirmedFacts, HomeFacts
      <4> QED
        BY <1>b, <3>6, <4>2
    <3> QED
      BY <1>a, <1>b, <2>3, <2>5, <2>12, <3>1, <3>2, <3>3, <3>4, <3>5, <3>6, UserMoves
  <2>13. ASSUME esi'[home'[ch]].alliance # None
         PROVE  \/ u \in member'[esi'[home'[ch]].alliance]
                \/ At(Moved, ch)' /\ poll'.old.alliance # poll'.new.alliance
                \/ Joining({"corp", "ally"}, u, ch)'
    <3>1. CASE home'[ch] = home[ch]
      <4>0. esi'[home'[ch]].alliance = a /\ a # None /\ a \in Ticker /\ a \in Alliance
        BY <1>a, <2>2, <2>13, <3>1
      <4>1. CASE u \in member[a]
        <5>1. ~(LeaveCorp /\ u = poll.u /\ a = poll.old.ticker)
          BY <1>a, <4>0, MoverFacts DEF LeaveCorp, MovePc
        <5>2. ~(LeaveAlliance /\ u = poll.u /\ a = poll.old.alliance)
          <6> SUFFICES ASSUME LeaveAlliance, u = poll.u, a = poll.old.alliance PROVE FALSE
            OBVIOUS
          <6>1. poll.pc = "leaveAlliance" /\ poll.pc \in Late
            BY DEF LeaveAlliance, MovePc, Late
          <6>2. poll.ch = ch /\ At(Moved, ch)
            BY <2>1, <6>1 DEF At, Moved, MovePc
          <6>3. poll.old.alliance # poll.new.alliance
            BY <6>1 DEF AtInv, Differ
          <6> QED
            BY <2>7, <6>2, <6>3
        <5> HIDE DEF a
        <5> QED
          BY <1>a, <4>0, <4>1, <5>1, <5>2, UserMoves
      <4>2. CASE At(Moved, ch) /\ poll.old.alliance # poll.new.alliance
        <5>1. CASE poll' = poll
          BY <4>2, <5>1 DEF At
        <5>2. CASE JoinCorp /\ poll' # poll
          BY <2>8, <4>2, <5>2
        <5>3. CASE LeaveAlliance
          BY <2>9, <4>0, <4>2, <5>3
        <5>4. CASE JoinAlliance /\ poll.u = u
          BY <2>10, <4>0, <5>4
        <5> QED
          BY <2>6, <4>2, <5>1, <5>2, <5>3, <5>4
      <4>3. CASE Joining({"corp", "ally"}, u, ch)
        <5>1. PICK b \in Bot : bot[b].pc \in {"corp", "ally"} /\ bot[b].u = u /\ bot[b].ch = ch
          BY <4>3 DEF Joining
        <5>2. CASE bot'[b] = bot[b]
          BY <5>1, <5>2 DEF Joining
        <5>3. CASE BotJoinsCorp(b)
          <6>1. corps[bot[b].c].alliance = a
            BY <1>a, <2>1, <5>1, <5>3, ConfirmedFacts DEF BotJoinsCorp
          <6>2. bot'[b] = [pc |-> "ally", u |-> bot[b].u, ch |-> bot[b].ch, a |-> corps[bot[b].c].alliance]
            BY <1>a, <4>0, <5>3, <6>1 DEF BotJoinsCorp, TypeInv, TypeOK
          <6>3. bot'[b].pc = "ally" /\ bot'[b].u = u /\ bot'[b].ch = ch
            BY <5>1, <6>2
          <6> QED
            BY <6>3 DEF Joining
        <5>4. CASE BotJoinsAlliance(b)
          BY <2>11, <4>0, <5>1, <5>4
        <5> QED
          BY <1>a, <5>1, <5>2, <5>3, <5>4, BotFrom
      <4> QED
        BY <2>4, <4>0, <4>1, <4>2, <4>3
    <3>2. CASE home'[ch] # home[ch]
      <4>1. /\ MoveRow /\ poll.ch = ch /\ poll.pc = "moveRow" /\ At(Moved, ch)'
            /\ poll'.old.alliance = a /\ poll'.new.alliance = esi'[home'[ch]].alliance
            /\ \A b \in Bot : ~Working(b, ch)
        BY <2>5, <3>2
      <4>2. CASE a = esi'[home'[ch]].alliance
        <5>1. ~At(Moved, ch)
          BY <4>1 DEF At, Moved
        <5>2. ~Joining({"corp", "ally"}, u, ch)
          BY <4>1 DEF Joining, Working, Idle
        <5>3. u \in member[a] /\ member' = member
          BY <2>4, <2>13, <4>1, <4>2, <5>1, <5>2 DEF MoveRow
        <5> QED
          BY <4>2, <5>3
      <4>3. CASE a # esi'[home'[ch]].alliance
        BY <4>1, <4>3
      <4> QED
        BY <4>2, <4>3
    <3> QED
      BY <3>1, <3>2
  <2> QED
    BY <2>12, <2>13
<1> QED
  BY <1>1, <1>2

\* Every step keeps all of it.
LEMMA AtStep == AtInv /\ [Next]_vars => AtInv'
BY TypeStep, OwnersOnlyStep, FilledStep, DifferStep, TickersStep, AlliancesStep,
   ConfirmationsStep, InCorpStep, InAllianceStep DEF AtInv

\* At the start nobody is in a filter, or linked.
LEMMA AtInit == TickersApart /\ Init => AtInv
<1> SUFFICES ASSUME TickersApart, Init PROVE AtInv
  OBVIOUS
<1>1. TypeInv
  BY InitInv
<1>2. poll.pc = "idle" /\ \A b \in Bot : bot[b].pc = "idle"
  BY DEF Init, Idle
<1>3. /\ \A c \in Corp : Stored(c) => corps[c] = esi[c]
      /\ chars = {} /\ linked = {} /\ alliances \subseteq filters
      /\ roles \subseteq filters /\ \A c \in named : esi[c].ticker \in roles
      /\ \A t \in Ticker : member[t] = {}
  BY DEF Init, Stored
<1>4. OwnersOnly /\ Filled /\ Differ
  BY <1>2, <1>3 DEF OwnersOnly, Filled, Differ
<1>5. Tickers /\ Alliances /\ Confirmations
  BY <1>2, <1>3 DEF Tickers, Alliances, Confirmations, CorpPc, MovePc, Moved, Tk, Al
<1>6. \A u \in User, ch \in Char : ~Only(u, ch)
  BY <1>3 DEF Only, Owners
<1> QED
  BY <1>1, <1>4, <1>5, <1>6 DEF AtInv, InCorp, InAlliance

\* As long as nothing fails and no ticker changes, a user with one character is
\* in the filter of the stored corporation and of no other, and without changes of
\* alliances in that of its alliance and of no other, however rounds, commands,
\* logins and changes in the game interleave.  It is supposed that no corporation
\* has the ticker of an alliance: neither the code nor the tables (tickers are
\* unique in each of the two) ensure it, and both would have one filter.
THEOREM AlwaysAtHome == TickersApart => (Spec => []AtHome)
<1> SUFFICES ASSUME TickersApart PROVE Spec => []AtHome
  OBVIOUS
<1>1. AtInv => AtHome
  <2> SUFFICES ASSUME AtInv, Quiet, NEW u \in User, NEW ch \in Char, Settled(u, ch)
               PROVE  /\ {t \in Ticker : u \in member[t]} \cap Name = {corps[home[ch]].ticker}
                      /\ Still => {t \in Ticker : u \in member[t]} \cap Alliance = {corps[home[ch]].alliance} \ {None}
    BY DEF AtHome, Quiet, Still
  <2>1. Only(u, ch) /\ ch \notin disturbed /\ ~Moving(ch) /\ \A b \in Bot : ~Working(b, ch)
    BY DEF Settled, Only
  <2>2. ch \in chars
    BY <2>1, OnlyOne DEF AtInv
  <2>3. /\ corps[home[ch]].ticker = Tk(home[ch]) /\ Tk(home[ch]) \in Name /\ Tk(home[ch]) \in Ticker
        /\ Still => /\ corps[home[ch]].alliance = Al(home[ch])
                    /\ Al(home[ch]) # None => Al(home[ch]) \in Alliance
    BY <2>2, HomeFacts
  <2>4. \A pcs \in SUBSET MovePc : ~At(pcs, ch)
    BY <2>1 DEF At, Moving
  <2>5. \A pcs \in SUBSET {"corp", "ally"} : ~Joining(pcs, u, ch)
    BY <2>1 DEF Joining, Working, Idle
  <2>6. /\ \A t \in Name : u \in member[t] => t = Tk(home[ch])
        /\ u \in member[Tk(home[ch])]
    <3>1. ~At({"user", "leaveCorp"}, ch) /\ ~At({"user", "leaveCorp", "joinCorp"}, ch) /\ ~Joining({"corp"}, u, ch)
      BY <2>4, <2>5 DEF MovePc
    <3> QED
      BY <2>1, <3>1 DEF AtInv, InCorp
  <2>7. Still => /\ \A t \in Alliance : u \in member[t] => t = Al(home[ch])
                 /\ Al(home[ch]) # None => u \in member[Al(home[ch])]
    <3>1. ~At(Moved \ {"joinAlliance"}, ch) /\ ~At(Moved, ch) /\ ~Joining({"corp", "ally"}, u, ch)
      BY <2>4, <2>5 DEF Moved
    <3> QED
      BY <2>1, <3>1 DEF AtInv, InAlliance
  <2> QED
    BY <2>3, <2>6, <2>7, EsiConstants DEF Ticker
<1>2. Spec => []AtInv
  <2>1. Init => AtInv
    BY AtInit
  <2> QED
    BY <2>1, AtStep, PTL DEF Spec
<1> QED
  BY <1>1, <1>2, PTL

==============================================================================
