--------------------------- MODULE AuthFlow_proofs ---------------------------
(***************************************************************************)
(* Types and keys, when a code is spent, and when a duplicate is fine, for *)
(* every number of users, characters, requests and commands.               *)
(***************************************************************************)
EXTENDS AuthHistory, TLAPS

\* Whoever stores an alliance has one.
InAlliance == \A w \in Web : web[w].pc = "alliance" => HomeOf(web[w].ch) # None

\* Every request, command and poll keeps the types and the foreign keys: one
\* step for each action.
LEMMA TypeStep ==
  ASSUME TypeOK, InAlliance, [Next]_vars
  PROVE  TypeOK'
<1> USE AuthConstants DEF TypeOK
<1>1. ASSUME NEW w \in Web, StoreAlliance(w) PROVE TypeOK'
  BY <1>1 DEF StoreAlliance, InAlliance, GoWeb, EndWeb, WebRest, tables, entities, process, bounds, NoReq, WebState, WebPc, Code, HasRow, New, HomeOf, Ticker
<1>2. ASSUME NEW w \in Web, AllianceRole(w) PROVE TypeOK'
  BY <1>2 DEF AllianceRole, GoWeb, EndWeb, WebRest, tables, entities, process, bounds, NoReq, WebState, WebPc, Code, HasRow, New, HomeOf, Ticker
<1>3. ASSUME NEW w \in Web, StoreCorp(w) PROVE TypeOK'
  BY <1>3 DEF StoreCorp, GoWeb, EndWeb, WebRest, tables, entities, process, bounds, NoReq, WebState, WebPc, Code, HasRow, New, HomeOf, Ticker
<1>4. ASSUME NEW w \in Web, CorpRole(w) PROVE TypeOK'
  BY <1>4 DEF CorpRole, GoWeb, EndWeb, WebRest, tables, entities, process, bounds, NoReq, WebState, WebPc, Code, HasRow, New, HomeOf, Ticker
<1>5. ASSUME NEW w \in Web, StoreChar(w) PROVE TypeOK'
  BY <1>5 DEF StoreChar, GoWeb, EndWeb, WebRest, tables, entities, process, bounds, NoReq, WebState, WebPc, Code, HasRow, New, HomeOf, Ticker
<1>6. ASSUME NEW w \in Web, IssueCode(w) PROVE TypeOK'
  BY <1>6 DEF IssueCode, GoWeb, EndWeb, WebRest, tables, entities, process, bounds, NoReq, WebState, WebPc, Code, HasRow, New, HomeOf, Ticker
<1>7. ASSUME NEW w \in Web, CodeRefused(w) PROVE TypeOK'
  BY <1>7 DEF CodeRefused, GoWeb, EndWeb, WebRest, tables, entities, process, bounds, NoReq, WebState, WebPc, Code, HasRow, New, HomeOf, Ticker
<1>8. ASSUME NEW w \in Web, NEW ch \in Char, Login(w, ch) PROVE TypeOK'
  BY <1>8 DEF Login, WebRest, tables, entities, process, bounds, WebState, WebPc, HasRow
<1>9. ASSUME NEW b \in Bot, FindChar(b) PROVE TypeOK'
  BY <1>9 DEF FindChar, GoBot, EndBot, BotRest, BotUser, BotChar, Joins, HomeOf, tables, entities, process, bounds, NoReq, BotState, BotPc, Code, HasRow, Ticker
<1>10. ASSUME NEW b \in Bot, Burn(b) PROVE TypeOK'
  BY <1>10 DEF Burn, GoBot, EndBot, BotRest, BotUser, BotChar, Joins, HomeOf, tables, entities, process, bounds, NoReq, BotState, BotPc, Code, HasRow, Ticker
<1>11. ASSUME NEW b \in Bot, Link(b) PROVE TypeOK'
  BY <1>11 DEF Link, GoBot, EndBot, BotRest, BotUser, BotChar, Joins, HomeOf, tables, entities, process, bounds, NoReq, BotState, BotPc, Code, HasRow, Ticker
<1>12. ASSUME NEW b \in Bot, JoinCorp(b) PROVE TypeOK'
  BY <1>12 DEF JoinCorp, GoBot, EndBot, BotRest, BotUser, BotChar, Joins, HomeOf, tables, entities, process, bounds, NoReq, BotState, BotPc, Code, HasRow, Ticker
<1>13. ASSUME NEW b \in Bot, JoinAlliance(b) PROVE TypeOK'
  <2>1. bot' \in [Bot -> BotState]
    BY <1>13 DEF JoinAlliance, EndBot, BotState
  <2>2. bot[b].u \in User
    BY <1>13 DEF JoinAlliance, BotState, BotPc, NoReq
  <2>3. member' \in [Ticker -> SUBSET User]
    BY <1>13, <2>2 DEF JoinAlliance, Joins, BotUser
  <2> QED
    BY <1>13, <2>1, <2>3 DEF JoinAlliance, BotRest, entities, bounds, HasRow
<1>14. ASSUME NEW b \in Bot, NEW u \in User, NEW k \in Code, Confirm(b, u, k) PROVE TypeOK'
  BY <1>14 DEF Confirm, BotRest, tables, entities, process, bounds, BotState, BotPc, HasRow
<1>15. ASSUME PollRoles PROVE TypeOK'
  BY <1>15 DEF PollRoles, PollRest, tables, entities, process, bounds, NoReq, PollState, Code, HasRow, Owners, Ticker
<1>16. ASSUME PollList PROVE TypeOK'
  BY <1>16 DEF PollList, PollRest, tables, entities, process, bounds, NoReq, PollState, Code, HasRow, Owners, Ticker
<1>17. ASSUME PollCheck PROVE TypeOK'
  BY <1>17 DEF PollCheck, PollRest, tables, entities, process, bounds, NoReq, PollState, Code, HasRow, Owners, Ticker
<1>18. ASSUME PollDropCodes PROVE TypeOK'
  BY <1>18 DEF PollDropCodes, PollRest, tables, entities, process, bounds, NoReq, PollState, Code, HasRow, Owners, Ticker
<1>19. ASSUME PollDropRow PROVE TypeOK'
  BY <1>19 DEF PollDropRow, PollRest, tables, entities, process, bounds, NoReq, PollState, Code, HasRow, Owners, Ticker
<1>20. ASSUME PollEnd PROVE TypeOK'
  BY <1>20 DEF PollEnd, PollRest, tables, entities, process, bounds, NoReq, PollState, Code, HasRow, Owners, Ticker
<1>21. ASSUME NEW ch \in Char, PollVisit(ch) PROVE TypeOK'
  <2>1. poll' \in PollState
    BY <1>21 DEF PollVisit, PollState
  <2>2. linked' \subseteq linked /\ left' \subseteq left
    BY <1>21 DEF PollVisit
  <2> QED
    BY <1>21, <2>1, <2>2 DEF PollVisit, PollRest, tables, entities, process, bounds, HasRow
<1>22. ASSUME NEW w \in Web, WebFails(w) PROVE TypeOK'
  BY <1>22 DEF WebFails, Fails, GoWeb, EndWeb, tables, entities, process, bounds, NoReq, WebState, WebPc, HasRow
<1>23. ASSUME NEW w \in Web, WriteLost(w) PROVE TypeOK'
  BY <1>23 DEF WriteLost, Fails, GoWeb, EndWeb, tables, entities, process, bounds, NoReq, WebState, WebPc, HasRow
<1>24. ASSUME NEW b \in Bot, BotFails(b) PROVE TypeOK'
  BY <1>24 DEF BotFails, Fails, GoBot, EndBot, tables, entities, process, bounds, NoReq, BotState, BotPc, HasRow
<1>25. ASSUME PollFails PROVE TypeOK'
  BY <1>25 DEF PollFails, Fails, tables, entities, process, bounds, NoReq, PollState, HasRow
<1>26. ASSUME Crash PROVE TypeOK'
  BY <1>26 DEF Crash, Fails, tables, entities, process, bounds, NoReq, WebState, BotState, PollState, HasRow
<1>27. ASSUME NEW u \in User, Leave(u) PROVE TypeOK'
  BY <1>27 DEF Leave, tables, entities, process, bounds, HasRow
<1>28. ASSUME NEW u \in User, Return(u) PROVE TypeOK'
  BY <1>28 DEF Return, tables, entities, process, bounds, HasRow
<1>29. CASE UNCHANGED vars
  BY <1>29 DEF vars, tables, entities, process, bounds, HasRow
<1> QED
  BY <1>1, <1>2, <1>3, <1>4, <1>5, <1>6, <1>7, <1>8, <1>9, <1>10, <1>11, <1>12, <1>13, <1>14, <1>15, <1>16, <1>17, <1>18, <1>19, <1>20, <1>21, <1>22, <1>23, <1>24, <1>25, <1>26, <1>27, <1>28, <1>29 DEF Next, WebStep, BotStep, PollStep

\* A request that is about to store an alliance was opened for a character
\* that has one, and its character does not change.
LEMMA InAllianceStep ==
  ASSUME TypeOK, InAlliance, [Next]_vars
  PROVE  InAlliance'
<1> USE AuthConstants DEF InAlliance, HomeOf
<1>1. ASSUME NEW w \in Web, WebStep(w) \/ WebFails(w) \/ WriteLost(w) PROVE InAlliance'
  BY <1>1 DEF WebStep, StoreAlliance, AllianceRole, StoreCorp, CorpRole, StoreChar, IssueCode, CodeRefused, WebFails, WriteLost, GoWeb, EndWeb, TypeOK, WebState, WebPc, NoReq
<1>2. ASSUME NEW w \in Web, NEW ch \in Char, Login(w, ch) PROVE InAlliance'
  BY <1>2 DEF Login, TypeOK
<1>3. ASSUME Crash PROVE InAlliance'
  BY <1>3 DEF Crash, NoReq
<1>4. CASE web' = web
  BY <1>4
<1>5. ASSUME NEW b \in Bot, NEW u \in User, NEW k \in Code, BotStep(b) \/ BotFails(b) \/ Confirm(b, u, k)
      PROVE  web' = web
  BY <1>5 DEF BotStep, FindChar, Burn, Link, JoinCorp, JoinAlliance, BotFails, Confirm, BotRest
<1>6. ASSUME PollStep \/ PollFails PROVE web' = web
  BY <1>6 DEF PollStep, PollRoles, PollList, PollCheck, PollDropCodes, PollDropRow, PollEnd, PollVisit, PollFails, PollRest
<1>7. ASSUME NEW u \in User, Leave(u) \/ Return(u) PROVE web' = web
  BY <1>7 DEF Leave, Return, process
<1>8. ASSUME NEW b \in Bot, BotStep(b) \/ BotFails(b) PROVE web' = web
  BY <1>8 DEF BotStep, FindChar, Burn, Link, JoinCorp, JoinAlliance, BotFails, BotRest
<1>9. CASE UNCHANGED vars
  BY <1>4, <1>9 DEF vars, process
<1> QED
  BY <1>1, <1>2, <1>3, <1>4, <1>5, <1>6, <1>7, <1>8, <1>9 DEF Next

LEMMA TypeInit == Init => TypeOK /\ InAlliance
BY AuthConstants DEF Init, TypeOK, InAlliance, Ticker, NoReq, WebState, BotState, PollState, Code, HasRow

\* The tables keep their keys and the goroutines their states, whatever
\* interleaves, fails or restarts.
THEOREM TypeCorrect == Spec => []TypeOK
<1>1. Init => TypeOK /\ InAlliance
  BY TypeInit
<1>2. TypeOK /\ InAlliance /\ [Next]_vars => (TypeOK /\ InAlliance)'
  BY TypeStep, InAllianceStep
<1> QED
  BY <1>1, <1>2, PTL DEF Spec

-----------------------------------------------------------------------------
(* When a code is spent.                                                   *)

\* A confirmation holds a code that was handed out.
HandedOut == \A b \in Bot : bot[b] # NoReq => codes[bot[b].k] # "new"

\* A confirmation marks its code before it may link.
BurntBeforeLinked ==
  \A b \in Bot : bot[b].pc \in {"link", "corp", "ally"} => codes[bot[b].k] # "open"

\* No step opens a code that was handed out before.
LEMMA NeverReopened ==
  ASSUME TypeOK, [Next]_vars, NEW k \in Code, codes[k] # "new"
  PROVE  codes'[k] # "new" /\ (codes[k] # "open" => codes'[k] # "open")
<1> USE DEF TypeOK
<1>1. ASSUME NEW w \in Web, IssueCode(w) PROVE codes'[k] = codes[k]
  <2>1. PICK i \in New(web[w].ch) : codes' = [codes EXCEPT ![<<web[w].ch, i>>] = "open"]
    BY <1>1 DEF IssueCode
  <2>2. codes[<<web[w].ch, i>>] = "new"
    BY DEF New
  <2> QED
    BY <2>1, <2>2
<1>2. ASSUME NEW b \in Bot, Burn(b) PROVE codes'[k] \in {codes[k], "used"}
  BY <1>2 DEF Burn
<1>3. ASSUME PollDropCodes PROVE codes'[k] \in {codes[k], "gone"}
  BY <1>3 DEF PollDropCodes
<1>4. \/ \E w \in Web : IssueCode(w)
      \/ \E b \in Bot : Burn(b)
      \/ PollDropCodes
      \/ codes' = codes
  <2>1. ASSUME NEW w \in Web, WebStep(w), ~ IssueCode(w) PROVE codes' = codes
    BY <2>1 DEF WebStep, StoreAlliance, AllianceRole, StoreCorp, CorpRole, StoreChar, CodeRefused
  <2>2. ASSUME NEW w \in Web, NEW ch \in Char, WebFails(w) \/ WriteLost(w) \/ Login(w, ch) PROVE codes' = codes
    BY <2>2 DEF WebFails, WriteLost, Login, tables
  <2>3. ASSUME NEW w \in Web, WebFails(w) \/ WriteLost(w) PROVE codes' = codes
    BY <2>3 DEF WebFails, WriteLost, tables
  <2>4. ASSUME NEW b \in Bot, BotStep(b), ~ Burn(b) PROVE codes' = codes
    BY <2>4 DEF BotStep, FindChar, Link, JoinCorp, JoinAlliance
  <2>5. ASSUME NEW b \in Bot, BotFails(b) PROVE codes' = codes
    BY <2>5 DEF BotFails, tables
  <2>6. ASSUME NEW b \in Bot, NEW u \in User, NEW c \in Code, Confirm(b, u, c) PROVE codes' = codes
    BY <2>6 DEF Confirm
  <2>7. ASSUME PollStep, ~ PollDropCodes PROVE codes' = codes
    BY <2>7 DEF PollStep, PollRoles, PollList, PollCheck, PollDropRow, PollEnd, PollVisit
  <2>8. ASSUME PollFails \/ Crash PROVE codes' = codes
    BY <2>8 DEF PollFails, Crash, tables
  <2>9. ASSUME NEW u \in User, Leave(u) \/ Return(u) PROVE codes' = codes
    BY <2>9 DEF Leave, Return, tables
  <2>10. CASE UNCHANGED vars
    BY <2>10 DEF vars, tables
  <2> QED
    BY <2>1, <2>2, <2>3, <2>4, <2>5, <2>6, <2>7, <2>8, <2>9, <2>10 DEF Next
<1> QED
  BY <1>1, <1>2, <1>3, <1>4

\* What a step does to one goroutine of the command: it ends it or leaves it
\* alone, advances it with the code it holds, or starts it with an open code.
LEMMA BotMoves ==
  ASSUME TypeOK, [Next]_vars, NEW b \in Bot
  PROVE  \/ bot'[b] = NoReq \/ bot'[b] = bot[b]
         \/ BotStep(b) \/ BotFails(b)
         \/ \E u \in User, k \in Code : Confirm(b, u, k)
<1> USE DEF TypeOK
<1>1. ASSUME NEW w \in Web, NEW ch \in Char, Login(w, ch) PROVE bot'[b] = bot[b]
  BY <1>1 DEF Login, WebRest
<1>2. ASSUME NEW w \in Web, WebStep(w) \/ WebFails(w) \/ WriteLost(w) PROVE bot'[b] = bot[b]
  BY <1>2 DEF WebStep, StoreAlliance, AllianceRole, StoreCorp, CorpRole, StoreChar, IssueCode, CodeRefused, WebFails, WriteLost, WebRest
<1>3. ASSUME NEW o \in Bot, BotStep(o) \/ BotFails(o), o # b PROVE bot'[b] = bot[b]
  BY <1>3 DEF BotStep, FindChar, Burn, Link, JoinCorp, JoinAlliance, BotFails, GoBot, EndBot
<1>4. ASSUME NEW o \in Bot, NEW u \in User, NEW k \in Code, Confirm(o, u, k), o # b PROVE bot'[b] = bot[b]
  BY <1>4 DEF Confirm
<1>5. ASSUME PollStep \/ PollFails PROVE bot'[b] = bot[b]
  BY <1>5 DEF PollStep, PollRoles, PollList, PollCheck, PollDropCodes, PollDropRow, PollEnd, PollVisit, PollFails, PollRest
<1>6. ASSUME Crash PROVE bot'[b] = NoReq
  BY <1>6 DEF Crash
<1>7. ASSUME NEW u \in User, Leave(u) \/ Return(u) PROVE bot'[b] = bot[b]
  BY <1>7 DEF Leave, Return, process
<1>8. CASE UNCHANGED vars
  BY <1>8 DEF vars, process
<1> QED
  BY <1>1, <1>2, <1>3, <1>4, <1>5, <1>6, <1>7, <1>8 DEF Next

\* The code a confirmation holds was handed out, and is not open any more
\* once it may link.
LEMMA BurntStep ==
  ASSUME TypeOK, HandedOut, BurntBeforeLinked, [Next]_vars
  PROVE  HandedOut' /\ BurntBeforeLinked'
<1> SUFFICES ASSUME NEW b \in Bot
             PROVE  /\ bot'[b] # NoReq => codes'[bot'[b].k] # "new"
                    /\ bot'[b].pc \in {"link", "corp", "ally"} => codes'[bot'[b].k] # "open"
  BY DEF HandedOut, BurntBeforeLinked
<1>1. CASE bot'[b] = NoReq
  BY <1>1 DEF NoReq
<1>2. bot[b] # NoReq => bot[b].k \in Code
  BY DEF TypeOK, BotState
<1>3. CASE bot'[b] = bot[b]
  BY <1>2, <1>3, NeverReopened DEF HandedOut, BurntBeforeLinked, NoReq
<1>4. ASSUME NEW u \in User, NEW k \in Code, Confirm(b, u, k)
      PROVE  bot'[b].pc = "char" /\ bot'[b].k = k /\ codes'[k] = "open"
  BY <1>4 DEF Confirm, TypeOK
<1>5. CASE bot[b] # NoReq /\ (BotStep(b) \/ BotFails(b))
  <2>1. bot'[b] = NoReq \/ bot'[b].k = bot[b].k
    BY <1>5 DEF BotStep, FindChar, Burn, Link, JoinCorp, JoinAlliance, BotFails, GoBot, EndBot, TypeOK, BotState
  <2>2. codes[bot[b].k] # "new"
    BY <1>5 DEF HandedOut
  <2>3. ASSUME Burn(b) PROVE codes'[bot[b].k] # "open"
    BY <2>3, <1>2, <1>5 DEF Burn, HasRow, TypeOK
  <2>4. ASSUME ~ Burn(b), bot'[b].pc \in {"link", "corp", "ally"}
        PROVE  bot[b].pc \in {"link", "corp", "ally"}
    BY <2>4, <1>5 DEF BotStep, FindChar, Link, JoinCorp, JoinAlliance, BotFails, GoBot, EndBot, TypeOK, BotState, NoReq
  <2> QED
    BY <1>1, <1>2, <1>5, <2>1, <2>2, <2>3, <2>4, NeverReopened DEF BurntBeforeLinked
<1>6. bot[b] = NoReq => ~ BotStep(b) /\ ~ BotFails(b)
  BY DEF BotStep, FindChar, Burn, Link, JoinCorp, JoinAlliance, BotFails, NoReq
<1> QED
  BY <1>1, <1>3, <1>4, <1>5, <1>6, BotMoves

\* What a step of HSpec does to the histories: whoever is new in one was linked
\* by a confirmation that had marked the code.
LEMMA SpentStep ==
  ASSUME TypeOK, InAlliance, HandedOut, BurntBeforeLinked, SpentOnceLinked, [Next /\ Record]_hvars
  PROVE  SpentOnceLinked'
<1>0. [Next]_vars
  BY DEF hvars
<1> SUFFICES ASSUME NEW k \in Code, linkedBy'[k] # {}
             PROVE  codes'[k] \in {"used", "gone"}
  BY DEF SpentOnceLinked, Code
<1>1. codes[k] \in {"used", "gone"}
  <2>1. CASE linkedBy[k] # {}
    BY <2>1 DEF SpentOnceLinked
  <2>2. CASE linkedBy[k] = {}
    <3>1. Record
      BY <2>2 DEF hvars
    <3>2. PICK b \in Bot : bot[b].pc = "link" /\ bot[b].k = k
      BY <2>2, <3>1 DEF Record
    <3>3. codes[k] # "new" /\ codes[k] # "open"
      BY <3>2 DEF HandedOut, BurntBeforeLinked, NoReq
    <3> QED
      BY <3>3 DEF TypeOK
  <2> QED
    BY <2>1, <2>2
<1>2. codes'[k] # "new" /\ codes'[k] # "open"
  BY <1>0, <1>1, NeverReopened
<1>3. TypeOK'
  BY <1>0, TypeStep
<1> QED
  BY <1>2, <1>3 DEF TypeOK

\* A code that has linked somebody gets no further confirmation past GetAuthCode,
\* with any number of confirmations and codes, and whatever fails, restarts or
\* is deleted in between: two users are linked by one code only if both had
\* read it as unused before either marked it.
THEOREM CodeSpentOnceLinked == HSpec => []SpentOnceLinked
<1> DEFINE IInv == TypeOK /\ InAlliance /\ HandedOut /\ BurntBeforeLinked /\ SpentOnceLinked
<1>1. HInit => HandedOut /\ BurntBeforeLinked /\ SpentOnceLinked
  BY DEF HInit, Init, HandedOut, BurntBeforeLinked, SpentOnceLinked, NoReq
<1>2. HInit => TypeOK /\ InAlliance
  BY TypeInit DEF HInit
<1>3. IInv /\ [Next /\ Record]_hvars => IInv'
  <2>1. [Next /\ Record]_hvars => [Next]_vars
    BY DEF hvars
  <2> QED
    BY <2>1, TypeStep, InAllianceStep, BurntStep, SpentStep
<1> QED
  BY <1>1, <1>2, <1>3, PTL DEF HSpec

-----------------------------------------------------------------------------
(* Duplicates.  The filter of a character's corporation exists as long as  *)
(* the character is stored, hence whoever is linked is in it or has a      *)
(* confirmation about to put them there.                                   *)

RolesKnown ==
  /\ \A ch \in chars : CorpOf[ch] \in roles
  /\ \A w \in Web : web[w].pc = "char" => CorpOf[web[w].ch] \in roles
  /\ \A b \in Bot : bot[b].pc = "corp" => CorpOf[BotChar(b)] \in roles

Joining(u, ch) == \E b \in Bot : bot[b].pc = "corp" /\ BotUser(b) = u /\ BotChar(b) = ch

Placed ==
  failures = 0 =>
    \A u \in User, ch \in Char :
      <<u, ch>> \in linked => u \in member[CorpOf[ch]] \/ Joining(u, ch)

\* Roles are never taken away by the steps modelled here.
LEMMA RolesGrow ==
  ASSUME [Next]_vars
  PROVE  roles \subseteq roles'
<1>1. ASSUME NEW w \in Web, NEW ch \in Char, Login(w, ch) PROVE roles' = roles
  BY <1>1 DEF Login
<1>2. ASSUME NEW w \in Web, WebStep(w) \/ WebFails(w) \/ WriteLost(w) PROVE roles' = roles
  BY <1>2 DEF WebStep, StoreAlliance, AllianceRole, StoreCorp, CorpRole, StoreChar, IssueCode, CodeRefused, WebFails, WriteLost, tables
<1>3. ASSUME NEW b \in Bot, BotStep(b) \/ BotFails(b) PROVE roles' = roles
  BY <1>3 DEF BotStep, FindChar, Burn, Link, JoinCorp, JoinAlliance, BotFails, BotRest, tables
<1>4. ASSUME NEW b \in Bot, NEW u \in User, NEW k \in Code, Confirm(b, u, k) PROVE roles' = roles
  BY <1>4 DEF Confirm, BotRest
<1>5. ASSUME PollStep \/ PollFails \/ Crash PROVE roles \subseteq roles'
  BY <1>5 DEF PollStep, PollRoles, PollList, PollCheck, PollDropCodes, PollDropRow, PollEnd, PollVisit, PollFails, Crash, PollRest, tables
<1>6. ASSUME NEW u \in User, Leave(u) \/ Return(u) PROVE roles' = roles
  BY <1>6 DEF Leave, Return, tables
<1>7. CASE UNCHANGED vars
  BY <1>7 DEF vars, tables
<1> QED
  BY <1>1, <1>2, <1>3, <1>4, <1>5, <1>6, <1>7 DEF Next

\* A character is stored only by StoreChar.
LEMMA CharsFrom ==
  ASSUME [Next]_vars
  PROVE  chars' \subseteq chars \/ \E w \in Web : StoreChar(w)
<1>1. ASSUME NEW w \in Web, NEW ch \in Char, Login(w, ch) PROVE chars' = chars
  BY <1>1 DEF Login, entities
<1>2. ASSUME NEW w \in Web, WebStep(w) \/ WebFails(w) \/ WriteLost(w), ~ StoreChar(w) PROVE chars' = chars
  BY <1>2 DEF WebStep, StoreAlliance, AllianceRole, StoreCorp, CorpRole, IssueCode, CodeRefused, WebFails, WriteLost, tables, entities
<1>3. ASSUME NEW b \in Bot, BotStep(b) \/ BotFails(b) PROVE chars' = chars
  BY <1>3 DEF BotStep, FindChar, Burn, Link, JoinCorp, JoinAlliance, BotFails, BotRest, tables, entities
<1>4. ASSUME NEW b \in Bot, NEW u \in User, NEW k \in Code, Confirm(b, u, k) PROVE chars' = chars
  BY <1>4 DEF Confirm, BotRest, entities
<1>5. ASSUME PollStep \/ PollFails \/ Crash PROVE chars' \subseteq chars
  BY <1>5 DEF PollStep, PollRoles, PollList, PollCheck, PollDropCodes, PollDropRow, PollEnd, PollVisit, PollFails, Crash, PollRest, tables, entities
<1>6. ASSUME NEW u \in User, Leave(u) \/ Return(u) PROVE chars' = chars
  BY <1>6 DEF Leave, Return, tables, entities
<1>7. CASE UNCHANGED vars
  BY <1>7 DEF vars, tables, entities
<1> QED
  BY <1>1, <1>2, <1>3, <1>4, <1>5, <1>6, <1>7 DEF Next

\* What a step does to one request: the counterpart of BotMoves.
LEMMA WebMoves ==
  ASSUME TypeOK, [Next]_vars, NEW w \in Web
  PROVE  \/ web'[w] = NoReq \/ web'[w] = web[w]
         \/ WebStep(w) \/ WriteLost(w)
         \/ \E ch \in Char : Login(w, ch)
<1> USE DEF TypeOK
<1>1. ASSUME NEW v \in Web, NEW ch \in Char, Login(v, ch), v # w PROVE web'[w] = web[w]
  BY <1>1 DEF Login
<1>2. ASSUME NEW v \in Web, WebStep(v) \/ WriteLost(v), v # w PROVE web'[w] = web[w]
  BY <1>2 DEF WebStep, StoreAlliance, AllianceRole, StoreCorp, CorpRole, StoreChar, IssueCode, CodeRefused, WriteLost, GoWeb, EndWeb
<1>3. ASSUME NEW v \in Web, WebFails(v) PROVE web'[w] \in {web[w], NoReq}
  BY <1>3 DEF WebFails, EndWeb
<1>4. ASSUME NEW b \in Bot, BotStep(b) \/ BotFails(b) PROVE web' = web
  BY <1>4 DEF BotStep, FindChar, Burn, Link, JoinCorp, JoinAlliance, BotFails, BotRest
<1>5. ASSUME NEW b \in Bot, NEW u \in User, NEW k \in Code, Confirm(b, u, k) PROVE web' = web
  BY <1>5 DEF Confirm, BotRest
<1>6. ASSUME PollStep \/ PollFails PROVE web' = web
  BY <1>6 DEF PollStep, PollRoles, PollList, PollCheck, PollDropCodes, PollDropRow, PollEnd, PollVisit, PollFails, PollRest
<1>7. ASSUME Crash PROVE web'[w] = NoReq
  BY <1>7 DEF Crash
<1>8. ASSUME NEW u \in User, Leave(u) \/ Return(u) PROVE web' = web
  BY <1>8 DEF Leave, Return, process
<1>9. CASE UNCHANGED vars
  BY <1>9 DEF vars, process
<1> QED
  BY <1>1, <1>2, <1>3, <1>4, <1>5, <1>6, <1>7, <1>8, <1>9 DEF Next

\* A request stores a character only after it met the corporation's role, and
\* a confirmation links only a stored character.
LEMMA RolesKnownStep ==
  ASSUME TypeOK, RolesKnown, [Next]_vars
  PROVE  RolesKnown'
<1> USE RolesGrow, AuthConstants
<1>1. ASSUME NEW ch \in chars' PROVE CorpOf[ch] \in roles'
  <2>1. ASSUME NEW w \in Web, StoreChar(w) PROVE CorpOf[ch] \in roles
    BY <1>1, <2>1 DEF StoreChar, RolesKnown
  <2> QED
    BY <1>1, <2>1, CharsFrom DEF RolesKnown
<1>2. ASSUME NEW w \in Web, web'[w].pc = "char" PROVE CorpOf[web'[w].ch] \in roles'
  <2>1. CASE WebStep(w) \/ WriteLost(w)
    BY <1>2, <2>1 DEF WebStep, StoreAlliance, AllianceRole, StoreCorp, CorpRole, StoreChar, IssueCode, CodeRefused, WriteLost, GoWeb, EndWeb, TypeOK, WebState, NoReq
  <2>2. ASSUME NEW ch \in Char, Login(w, ch) PROVE FALSE
    BY <1>2, <2>2 DEF Login, TypeOK
  <2> QED
    BY <1>2, <2>1, <2>2, WebMoves DEF RolesKnown, NoReq
<1>3. ASSUME NEW b \in Bot, bot'[b].pc = "corp" PROVE CorpOf[BotChar(b)'] \in roles'
  <2>1. CASE BotStep(b) \/ BotFails(b)
    BY <1>3, <2>1 DEF BotStep, FindChar, Burn, Link, JoinCorp, JoinAlliance, BotFails, GoBot, EndBot, BotChar, TypeOK, BotState, NoReq, RolesKnown
  <2>2. ASSUME NEW u \in User, NEW k \in Code, Confirm(b, u, k) PROVE FALSE
    BY <1>3, <2>2 DEF Confirm, TypeOK
  <2> QED
    BY <1>3, <2>1, <2>2, BotMoves DEF RolesKnown, NoReq, BotChar
<1> QED
  BY <1>1, <1>2, <1>3 DEF RolesKnown

\* Links are only made by Link, no filter loses a member, and a failure stays
\* counted.
LEMMA LinksFrom ==
  ASSUME TypeOK, [Next]_vars
  PROVE  /\ linked' \subseteq linked \/ \E b \in Bot : Link(b)
         /\ \A t \in Ticker : member[t] \subseteq member'[t]
         /\ failures' = 0 => failures = 0
<1> USE DEF TypeOK
<1>1. ASSUME NEW w \in Web, NEW ch \in Char, Login(w, ch)
      PROVE  linked' = linked /\ member' = member /\ failures' = failures
  BY <1>1 DEF Login, WebRest, bounds
<1>2. ASSUME NEW w \in Web, WebStep(w)
      PROVE  linked' = linked /\ member' = member /\ failures' = failures
  BY <1>2 DEF WebStep, StoreAlliance, AllianceRole, StoreCorp, CorpRole, StoreChar, IssueCode, CodeRefused, WebRest, bounds
<1>3. ASSUME NEW w \in Web, WebFails(w) \/ WriteLost(w)
      PROVE  linked' = linked /\ member' = member /\ failures' = failures + 1
  BY <1>3 DEF WebFails, WriteLost, Fails, tables
<1>4. ASSUME NEW b \in Bot, BotStep(b)
      PROVE  /\ linked' = linked \/ Link(b)
             /\ \A t \in Ticker : member[t] \subseteq member'[t]
             /\ failures' = failures
  BY <1>4 DEF BotStep, FindChar, Burn, Link, JoinCorp, JoinAlliance, Joins, BotRest, bounds
<1>5. ASSUME NEW b \in Bot, BotFails(b)
      PROVE  linked' = linked /\ member' = member /\ failures' = failures + 1
  BY <1>5 DEF BotFails, Fails, tables
<1>6. ASSUME NEW b \in Bot, NEW u \in User, NEW k \in Code, Confirm(b, u, k)
      PROVE  linked' = linked /\ member' = member /\ failures' = failures
  BY <1>6 DEF Confirm, BotRest, bounds
<1>7. ASSUME PollStep
      PROVE  linked' \subseteq linked /\ member' = member /\ failures' = failures
  BY <1>7 DEF PollStep, PollRoles, PollList, PollCheck, PollDropCodes, PollDropRow, PollEnd, PollVisit, PollRest, bounds
<1>8. ASSUME PollFails \/ Crash
      PROVE  linked' = linked /\ member' = member /\ failures' = failures + 1
  BY <1>8 DEF PollFails, Crash, Fails, tables
<1>9. ASSUME NEW u \in User, Leave(u) \/ Return(u)
      PROVE  linked' = linked /\ member' = member /\ failures' = failures
  BY <1>9 DEF Leave, Return, tables, bounds
<1>10. CASE UNCHANGED vars
  BY <1>10 DEF vars, tables, bounds
<1> QED
  BY <1>1, <1>2, <1>3, <1>4, <1>5, <1>6, <1>7, <1>8, <1>9, <1>10 DEF Next

\* A confirmation leaves "corp" by a failure or with its sender in the filter.
LEMMA CorpDone ==
  ASSUME TypeOK, RolesKnown, [Next]_vars, failures' = 0,
         NEW b \in Bot, bot[b].pc = "corp"
  PROVE  bot'[b] = bot[b] \/ BotUser(b) \in member'[CorpOf[BotChar(b)]]
<1>1. bot[b] # NoReq /\ BotUser(b) \in User /\ BotChar(b) \in Char
  BY DEF TypeOK, BotState, NoReq, Code, BotUser, BotChar
<1>2. failures \in Nat
  BY AuthConstants DEF TypeOK
<1>3. ASSUME JoinCorp(b) PROVE BotUser(b) \in member'[CorpOf[BotChar(b)]]
  BY <1>1, <1>3, AuthConstants DEF JoinCorp, Joins, TypeOK, RolesKnown, Ticker
<1>4. ~ BotFails(b) /\ ~ Crash /\ ~ \E w \in Web : WebFails(w) \/ WriteLost(w)
  BY <1>2 DEF BotFails, Crash, WebFails, WriteLost, Fails
<1>5. CASE BotStep(b)
  BY <1>3, <1>5 DEF BotStep, FindChar, Burn, Link, JoinAlliance
<1>6. ASSUME NEW o \in Bot, BotStep(o) \/ BotFails(o), o # b PROVE bot'[b] = bot[b]
  BY <1>6 DEF BotStep, FindChar, Burn, Link, JoinCorp, JoinAlliance, BotFails, GoBot, EndBot, TypeOK
<1>7. ASSUME NEW o \in Bot, NEW u \in User, NEW k \in Code, Confirm(o, u, k) PROVE bot'[b] = bot[b]
  BY <1>1, <1>7 DEF Confirm, TypeOK
<1>8. ASSUME NEW w \in Web, WebStep(w) \/ \E ch \in Char : Login(w, ch) PROVE bot' = bot
  BY <1>8 DEF WebStep, StoreAlliance, AllianceRole, StoreCorp, CorpRole, StoreChar, IssueCode, CodeRefused, Login, WebRest
<1>9. ASSUME PollStep \/ PollFails PROVE bot' = bot
  BY <1>9 DEF PollStep, PollRoles, PollList, PollCheck, PollDropCodes, PollDropRow, PollEnd, PollVisit, PollFails, PollRest
<1>10. ASSUME NEW u \in User, Leave(u) \/ Return(u) PROVE bot' = bot
  BY <1>10 DEF Leave, Return, process
<1>11. CASE UNCHANGED vars
  BY <1>11 DEF vars, process
<1> QED
  BY <1>4, <1>5, <1>6, <1>7, <1>8, <1>9, <1>10, <1>11 DEF Next

\* Until something fails, whoever is linked is in the corporation's filter or
\* on the way into it.
LEMMA PlacedStep ==
  ASSUME TypeOK, RolesKnown, Placed, [Next]_vars
  PROVE  Placed'
<1> SUFFICES ASSUME failures' = 0, NEW u \in User, NEW ch \in Char, <<u, ch>> \in linked'
             PROVE  u \in member'[CorpOf[ch]] \/ Joining(u, ch)'
  BY DEF Placed
<1>1. CASE <<u, ch>> \in linked
  <2>1. u \in member[CorpOf[ch]] \/ Joining(u, ch)
    BY <1>1, LinksFrom DEF Placed
  <2>2. CorpOf[ch] \in Ticker
    BY AuthConstants DEF Ticker
  <2>3. CASE Joining(u, ch)
    <3>1. PICK b \in Bot : bot[b].pc = "corp" /\ BotUser(b) = u /\ BotChar(b) = ch
      BY <2>3 DEF Joining
    <3> QED
      BY <3>1, CorpDone DEF Joining, BotUser, BotChar
  <2> QED
    BY <2>1, <2>2, <2>3, LinksFrom
<1>2. CASE <<u, ch>> \notin linked
  <2>1. PICK b \in Bot : Link(b)
    BY <1>2, LinksFrom
  <2>2. u = BotUser(b) /\ ch = BotChar(b) /\ bot'[b] = [bot[b] EXCEPT !.pc = "corp"]
    BY <1>2, <2>1 DEF Link, GoBot, TypeOK
  <2>3. bot[b] \in [pc : BotPc, u : User, k : Code]
    BY <2>1 DEF Link, TypeOK, BotState, NoReq
  <2>4. bot'[b].pc = "corp" /\ bot'[b].u = u /\ bot'[b].k[1] = ch
    BY <2>2, <2>3 DEF BotUser, BotChar
  <2> QED
    BY <2>4 DEF Joining, BotUser, BotChar
<1> QED
  BY <1>1, <1>2

\* Without failures a duplicate link is fine: its sender is in the filter of
\* the corporation, or another confirmation of theirs is about to see to it.
THEOREM DuplicatesFine == Spec => DuplicateIsFineUntilFailure
<1>1. Init => RolesKnown /\ Placed
  BY DEF Init, RolesKnown, Placed, NoReq
<1>2. TypeOK /\ RolesKnown /\ Placed /\ [Next]_vars => (RolesKnown /\ Placed)'
  BY RolesKnownStep, PlacedStep
<1>3. TypeOK /\ Placed => (failures = 0 => \A b \in Bot : Duplicate(b) => GoodDuplicate(b))
  <2> SUFFICES ASSUME TypeOK, Placed, failures = 0, NEW b \in Bot, Duplicate(b)
               PROVE  GoodDuplicate(b)
    OBVIOUS
  <2>1. bot[b].pc = "link" /\ <<BotUser(b), BotChar(b)>> \in linked
    BY DEF Duplicate, Link
  <2>2. BotUser(b) \in User /\ BotChar(b) \in Char
    BY <2>1 DEF TypeOK
  <2>3. BotUser(b) \in member[CorpOf[BotChar(b)]] \/ Joining(BotUser(b), BotChar(b))
    BY <2>1, <2>2 DEF Placed
  <2> QED
    BY <2>1, <2>3 DEF GoodDuplicate, Joining
<1> QED
  BY <1>1, <1>2, <1>3, TypeCorrect, PTL DEF Spec, DuplicateIsFineUntilFailure
=============================================================================
