-------------------------- MODULE MemberSync_proofs --------------------------
(* The membership, type correctness and the Session lock, for every value  *)
(* of the constants.                                                       *)
EXTENDS MemberSync, FiniteSetTheorems, TLAPS

\* Comparing the counts is being in every filter, as long as there is one: the
\* HAVING clause of getMemberRoles and of GetRoleMembers means "all".
THEOREM CountIsAll ==
  ASSUME NEW of, NEW F, NEW u, IsFiniteSet(F)
  PROVE  HasRole(of, F, u) <=> F # {} /\ \A f \in F : u \in of[f]
<1> DEFINE R == RowsOf(of, F, u)
<1>1. R \subseteq F /\ (R = F <=> \A f \in F : u \in of[f])
  BY DEF RowsOf
<1>2. Cardinality(R) = Cardinality(F) <=> R = F
  BY <1>1, FS_Subset
<1> HIDE DEF R
<1>3. HasRole(of, F, u) <=> R # {} /\ Cardinality(R) = Cardinality(F)
  BY DEF HasRole, R
<1> QED
  BY <1>1, <1>2, <1>3

-----------------------------------------------------------------------------

\* GetMembership returns chat ids, those of roles with a row.
LEMMA MembershipType ==
  ASSUME TypeOK, NEW u \in User
  PROVE  GetMembership(u) \in SUBSET ChatId
BY DEF GetMembership, ChatIds, MemberRoles, TypeOK, ChatId, Managed

\* A busy handler holds a message.
LEMMA HeldMessage ==
  ASSUME TypeOK, NEW t \in Thread, thr[t].pc # "idle" \/ thr[t] # NoMsg
  PROVE  thr[t].m \in Msg
BY DEF TypeOK, ThrState, NoMsg

\* The type of a command that compares or publishes.
LEMMA BusyCommand ==
  ASSUME TypeOK, NEW c \in Cmd, cmd[c].pc \in {"write", "after", "publish"}
  PROVE  /\ cmd[c] \in [pc : {"lookup", "write", "after", "publish"}, op : {"add", "remove"},
                         u : User, f : Filter, before : SUBSET ChatId, todo : SUBSET Role]
BY DEF TypeOK, CmdState, NoCmd

\* A publish keeps the type of the queue.
LEMMA PublishType ==
  ASSUME TypeOK, NEW act \in {"upsert", "delete"}, NEW u \in User, NEW r \in Role,
         Publish(act, u, r)
  PROVE  queue' \in [Msg -> Nat]
<1> DEFINE m == [act |-> act, u |-> u, r |-> r]
<1>1. m \in Msg
  BY DEF Msg
<1>2. queue' = IF connected THEN [queue EXCEPT ![m] = queue[m] + 1] ELSE queue
  BY DEF Publish
<1> HIDE DEF m
<1> QED
  BY <1>1, <1>2 DEF TypeOK


\* Every step keeps the types: one proof step for each action.
LEMMA TypeStep ==
  ASSUME TypeOK, [Next]_vars
  PROVE  TypeOK'
<1> USE ConstantsAssumption
<1>1. ASSUME NEW c \in Cmd, NEW op \in {"add", "remove"}, NEW u \in User, NEW f \in Filter, Begin(c, op, u, f) PROVE TypeOK'
  <2>1. GetMembership(u) \in SUBSET ChatId
    BY MembershipType
  <2>2. cmd' \in [Cmd -> CmdState]
    BY <1>1, <2>1 DEF Begin, TypeOK, CmdState
  <2> QED
    BY <1>1, <2>2 DEF Begin, TypeOK, tables, discord, broker, process, bounds, Managed
<1>2. ASSUME NEW c \in Cmd, NEW f \in Filter, BeginDelete(c, f) PROVE TypeOK'
  BY <1>2 DEF BeginDelete, TypeOK, tables, discord, broker, process, bounds, CmdState, ThrState, PollState, NoCmd, NoMsg, NoPoll, Msg, Managed
<1>3. ASSUME NEW c \in Cmd, Lookup(c) PROVE TypeOK'
  BY <1>3, SMTT(60) DEF Lookup, TypeOK, tables, discord, broker, process, bounds, CmdState, ThrState, PollState, NoCmd, NoMsg, NoPoll, Msg, Managed
<1>4. ASSUME NEW c \in Cmd, AddRow(c) PROVE TypeOK'
  BY <1>4, SMTT(90) DEF AddRow, TypeOK, tables, discord, broker, process, bounds, CmdState, ThrState, PollState, NoCmd, NoMsg, NoPoll, Msg, Managed
<1>5. ASSUME NEW c \in Cmd, RemoveRow(c) PROVE TypeOK'
  BY <1>5 DEF RemoveRow, TypeOK, tables, discord, broker, process, bounds, CmdState, ThrState, PollState, NoCmd, NoMsg, NoPoll, Msg, Managed
<1>6. ASSUME NEW c \in Cmd, Compare(c) PROVE TypeOK'
  <2> DEFINE after == GetMembership(cmd[c].u)
              diff  == IF cmd[c].op = "add" THEN after \ cmd[c].before ELSE cmd[c].before \ after
              todo  == diff \ {NoChat}
  <2>1. cmd[c] \in [pc : {"lookup", "write", "after", "publish"}, op : {"add", "remove"},
                    u : User, f : Filter, before : SUBSET ChatId, todo : SUBSET Role]
    BY <1>6, BusyCommand DEF Compare
  <2>2. todo \in SUBSET Role
    BY <2>1, MembershipType DEF ChatId
  <2>3. cmd' = [cmd EXCEPT ![c] = IF todo = {} THEN NoCmd
                                  ELSE [cmd[c] EXCEPT !.pc = "publish", !.todo = todo]]
    BY <1>6 DEF Compare
  <2> HIDE DEF todo
  <2>4. cmd' \in [Cmd -> CmdState]
    BY <2>1, <2>2, <2>3 DEF TypeOK, CmdState
  <2> QED
    BY <1>6, <2>4 DEF Compare, TypeOK, tables, discord, broker, process, bounds, Managed
<1>7. ASSUME NEW c \in Cmd, PublishDiff(c) PROVE TypeOK'
  <2>1. cmd[c] \in [pc : {"lookup", "write", "after", "publish"}, op : {"add", "remove"},
                    u : User, f : Filter, before : SUBSET ChatId, todo : SUBSET Role]
    BY <1>7, BusyCommand DEF PublishDiff
  <2>2. PICK r \in cmd[c].todo :
          /\ Publish(IF cmd[c].op = "add" THEN "upsert" ELSE "delete", cmd[c].u, r)
          /\ cmd' = [cmd EXCEPT ![c] =
                       IF cmd[c].todo = {r} THEN NoCmd
                       ELSE [cmd[c] EXCEPT !.todo = cmd[c].todo \ {r}]]
    BY <1>7 DEF PublishDiff
  <2>3. queue' \in [Msg -> Nat]
    BY <2>1, <2>2, PublishType
  <2> DEFINE k == IF cmd[c].todo = {r} THEN NoCmd
                  ELSE [cmd[c] EXCEPT !.todo = cmd[c].todo \ {r}]
  <2>5. k \in CmdState
    BY <2>1 DEF CmdState
  <2>6. cmd' = [cmd EXCEPT ![c] = k]
    BY <2>2
  <2> HIDE DEF k
  <2>4. cmd' \in [Cmd -> CmdState]
    BY <2>5, <2>6 DEF TypeOK
  <2> QED
    BY <1>7, <2>3, <2>4 DEF PublishDiff, TypeOK, tables, discord, broker, process, bounds, Managed
<1>8. ASSUME NEW c \in Cmd, DeleteMembers(c) PROVE TypeOK'
  BY <1>8 DEF DeleteMembers, TypeOK, tables, discord, broker, process, bounds, CmdState, ThrState, PollState, NoCmd, NoMsg, NoPoll, Msg, Managed
<1>9. ASSUME NEW c \in Cmd, DeleteLinks(c) PROVE TypeOK'
  BY <1>9 DEF DeleteLinks, TypeOK, tables, discord, broker, process, bounds, CmdState, ThrState, PollState, NoCmd, NoMsg, NoPoll, Msg, Managed
<1>10. ASSUME NEW c \in Cmd, DeleteFilterRow(c) PROVE TypeOK'
  BY <1>10 DEF DeleteFilterRow, TypeOK, tables, discord, broker, process, bounds, CmdState, ThrState, PollState, NoCmd, NoMsg, NoPoll, Msg, Managed
<1>11. ASSUME NEW r \in Managed, CreateRole(r) PROVE TypeOK'
  BY <1>11 DEF CreateRole, Creation, TypeOK, tables, discord, broker, process, bounds, CmdState, ThrState, PollState, NoCmd, NoMsg, NoPoll, Msg, Managed
<1>12. ASSUME NEW r \in Managed, DestroyRole(r) PROVE TypeOK'
  BY <1>12 DEF DestroyRole, TypeOK, tables, discord, broker, process, bounds, CmdState, ThrState, PollState, NoCmd, NoMsg, NoPoll, Msg, Managed
<1>13. ASSUME NEW r \in Managed, SetSync(r) PROVE TypeOK'
  BY <1>13 DEF SetSync, TypeOK, tables, discord, broker, process, bounds, CmdState, ThrState, PollState, NoCmd, NoMsg, NoPoll, Msg, Managed
<1>14. ASSUME NEW r \in Managed, DeleteRole(r) PROVE TypeOK'
  BY <1>14 DEF DeleteRole, TypeOK, tables, discord, broker, process, bounds, CmdState, ThrState, PollState, NoCmd, NoMsg, NoPoll, Msg, Managed
<1>15. ASSUME NEW r \in Managed, DeleteGuildRole(r) PROVE TypeOK'
  BY <1>15 DEF DeleteGuildRole, TypeOK, tables, discord, broker, process, bounds, CmdState, ThrState, PollState, NoCmd, NoMsg, NoPoll, Msg, Managed
<1>16. ASSUME NEW t \in Thread, NEW m \in Msg, Deliver(t, m) PROVE TypeOK'
  <2>1. queue' \in [Msg -> Nat]
    BY <1>16 DEF Deliver, TypeOK
  <2>2. thr' \in [Thread -> ThrState]
    BY <1>16 DEF Deliver, TypeOK, ThrState
  <2> QED
    BY <1>16, <2>1, <2>2 DEF Deliver, TypeOK, tables, discord, broker, process, bounds, Managed
<1>17. ASSUME NEW t \in Thread, Acquire(t) PROVE TypeOK'
  BY <1>17 DEF Acquire, TypeOK, tables, discord, broker, process, bounds, CmdState, ThrState, PollState, NoCmd, NoMsg, NoPoll, Msg, Managed
<1>18. ASSUME NEW t \in Thread, AcquireFails(t) PROVE TypeOK'
  <2>1. thr[t].m \in Msg
    BY <1>18, HeldMessage DEF AcquireFails
  <2>2. unacked' \in [Msg -> Nat]
    BY <1>18, <2>1 DEF AcquireFails, TypeOK
  <2>3. thr' \in [Thread -> ThrState]
    BY <1>18 DEF AcquireFails, TypeOK, ThrState
  <2> QED
    BY <1>18, <2>2, <2>3 DEF AcquireFails, TypeOK, tables, discord, broker, process, bounds, Managed
<1>19. ASSUME NEW t \in Thread, Check(t) PROVE TypeOK'
  BY <1>19 DEF Check, TypeOK, tables, discord, broker, process, bounds, CmdState, ThrState, PollState, NoCmd, NoMsg, NoPoll, Msg, Managed
<1>20. ASSUME NEW t \in Thread, Apply(t) PROVE TypeOK'
  BY <1>20 DEF Apply, TypeOK, tables, discord, broker, process, bounds, CmdState, ThrState, PollState, NoCmd, NoMsg, NoPoll, Msg, Managed
<1>21. ASSUME NEW t \in Thread, ApplyNotFound(t) PROVE TypeOK'
  <2>1. thr[t].m \in Msg
    BY <1>21, HeldMessage DEF ApplyNotFound
  <2>2. unacked' \in [Msg -> Nat]
    BY <1>21, <2>1 DEF ApplyNotFound, TypeOK
  <2>3. thr' \in [Thread -> ThrState]
    BY <1>21 DEF ApplyNotFound, TypeOK, ThrState
  <2> QED
    BY <1>21, <2>2, <2>3 DEF ApplyNotFound, TypeOK, tables, discord, broker, process, bounds, Managed
<1>22. ASSUME NEW t \in Thread, ApplyFails(t) PROVE TypeOK'
  <2>1. thr[t].m \in Msg
    BY <1>22, HeldMessage DEF ApplyFails
  <2>2. queue' \in [Msg -> Nat]
    BY <1>22, <2>1 DEF ApplyFails, TypeOK
  <2>3. thr' \in [Thread -> ThrState]
    BY <1>22 DEF ApplyFails, TypeOK, ThrState
  <2> QED
    BY <1>22, <2>2, <2>3 DEF ApplyFails, TypeOK, tables, discord, broker, process, bounds, Managed
<1>23. ASSUME NEW t \in Thread, Ack(t) PROVE TypeOK'
  BY <1>23 DEF Ack, TypeOK, tables, discord, broker, process, bounds, CmdState, ThrState, PollState, NoCmd, NoMsg, NoPoll, Msg, Managed
<1>24. ASSUME PollGuild PROVE TypeOK'
  BY <1>24 DEF PollGuild, TypeOK, tables, discord, broker, process, bounds, CmdState, ThrState, PollState, NoCmd, NoMsg, NoPoll, Msg, Managed
<1>25. ASSUME NEW u \in User, PollUser(u) PROVE TypeOK'
  BY <1>25 DEF PollUser, TypeOK, tables, discord, broker, process, bounds, CmdState, ThrState, PollState, NoCmd, NoMsg, NoPoll, Msg, Managed
<1>26. ASSUME PollCompare PROVE TypeOK'
  <2> DEFINE want == GetMembership(poll.u)
              add  == (want \ poll.has) \ {NoChat}
              del  == poll.has \ want
  <2>1. poll.u \in User /\ poll.has \in SUBSET Role
    BY <1>26 DEF PollCompare, TypeOK, PollState, NoPoll
  <2>2. add \in SUBSET Role /\ del \in SUBSET Role
    BY <2>1, MembershipType DEF ChatId
  <2>3. poll' = IF add \cup del = {} THEN NoPoll
                ELSE [pc |-> "publish", u |-> poll.u, add |-> add, del |-> del]
    BY <1>26 DEF PollCompare
  <2> HIDE DEF add, del
  <2>4. poll' \in PollState
    BY <2>1, <2>2, <2>3 DEF PollState
  <2> QED
    BY <1>26, <2>4 DEF PollCompare, TypeOK, tables, discord, broker, process, bounds, Managed
<1>27. ASSUME PollPublish PROVE TypeOK'
  <2>1. poll \in [pc : {"publish"}, u : User, add : SUBSET Role, del : SUBSET Role]
    BY <1>27 DEF PollPublish, TypeOK, PollState, NoPoll
  <2>2. PICK r \in poll.add \cup poll.del :
          /\ IF r \in poll.add THEN Publish("upsert", poll.u, r)
                                 ELSE poll.add = {} /\ Publish("delete", poll.u, r)
          /\ poll' = IF poll.add \cup poll.del = {r} THEN NoPoll
                      ELSE [poll EXCEPT !.add = @ \ {r}, !.del = @ \ {r}]
    BY <1>27 DEF PollPublish
  <2>3. queue' \in [Msg -> Nat]
    BY <2>1, <2>2, PublishType
  <2>4. poll' \in PollState
    BY <2>1, <2>2 DEF PollState
  <2> QED
    BY <1>27, <2>3, <2>4 DEF PollPublish, TypeOK, tables, discord, broker, process, bounds, Managed
<1>28. ASSUME Crash PROVE TypeOK'
  <2>1. ASSUME NEW m \in Msg
        PROVE  Cardinality({t \in Thread : thr[t] # NoMsg /\ thr[t].m = m}) \in Nat
    BY FS_Subset, FS_CardinalityType DEF ConstantsAssumption
  <2>2. queue' \in [Msg -> Nat]
    BY <1>28, <2>1 DEF Crash, TypeOK
  <2> QED
    BY <1>28, <2>2 DEF Crash, TypeOK, tables, discord, CmdState, ThrState, PollState
<1>29. ASSUME BrokerRestart PROVE TypeOK'
  <2>1. queue' \in [Msg -> Nat] /\ unacked' \in [Msg -> Nat]
    BY <1>29 DEF BrokerRestart
  <2>2. faults' \in 0..MaxFaults
    BY <1>29 DEF BrokerRestart, TypeOK, ConstantsAssumption
  <2> QED
    BY <1>29, <2>1, <2>2 DEF BrokerRestart, TypeOK, tables, discord, process
<1>30. ASSUME NEW u \in User, LeaveGuild(u) PROVE TypeOK'
  BY <1>30 DEF LeaveGuild, TypeOK, tables, discord, broker, process, bounds, CmdState, ThrState, PollState, NoCmd, NoMsg, NoPoll, Msg, Managed
<1>32. ASSUME PollRows PROVE TypeOK'
  BY <1>32 DEF PollRows, TypeOK, tables, discord, broker, process, bounds, CmdState, ThrState, PollState, NoCmd, NoMsg, NoPoll, Msg, Managed
<1>33. ASSUME PollFails PROVE TypeOK'
  BY <1>33 DEF PollFails, TypeOK, tables, discord, broker, process, bounds, CmdState, ThrState, PollState, NoCmd, NoMsg, NoPoll, Msg, Managed
<1>34. ASSUME NEW r \in Managed, StoreRole(r) PROVE TypeOK'
  BY <1>34 DEF StoreRole, Creation, TypeOK, tables, discord, broker, process, bounds, CmdState, ThrState, PollState, NoCmd, NoMsg, NoPoll, Msg, Managed
<1>35. ASSUME NEW r \in Managed, NameRole(r) PROVE TypeOK'
  BY <1>35 DEF NameRole, Creation, TypeOK, tables, discord, broker, process, bounds, CmdState, ThrState, PollState, NoCmd, NoMsg, NoPoll, Msg, Managed
<1>36. ASSUME NEW r \in Managed, CreationFails(r) PROVE TypeOK'
  BY <1>36 DEF CreationFails, Creation, TypeOK, tables, discord, broker, process, bounds, CmdState, ThrState, PollState, NoCmd, NoMsg, NoPoll, Msg, Managed
<1>37. ASSUME NEW c \in Cmd, CmdFails(c) PROVE TypeOK'
  BY <1>37 DEF CmdFails, TypeOK, tables, discord, broker, process, bounds, CmdState, ThrState, PollState, NoCmd, NoMsg, NoPoll, Msg, Managed
<1>38. ASSUME NEW t \in Thread, CheckFails(t) PROVE TypeOK'
  BY <1>38 DEF CheckFails, TypeOK, tables, discord, broker, process, bounds, CmdState, ThrState, PollState, NoCmd, NoMsg, NoPoll, Msg, Managed
<1>31. CASE UNCHANGED vars
  BY <1>31 DEF TypeOK, vars, tables, discord, broker, process, bounds
<1> QED
  BY <1>1, <1>2, <1>3, <1>4, <1>5, <1>6, <1>7, <1>8, <1>9, <1>10, <1>11, <1>12, <1>13, <1>14, <1>15, <1>16, <1>17, <1>18, <1>19, <1>20, <1>21, <1>22, <1>23, <1>24, <1>25, <1>26, <1>27, <1>28, <1>29, <1>30, <1>31, <1>32, <1>33, <1>34, <1>35, <1>36, <1>37, <1>38 DEF Next, CmdStep, CreationStep, HandlerStep, PollStep

\* The types hold at the start.
LEMMA TypeInit == Init => TypeOK
BY ConstantsAssumption
DEF Init, TypeOK, Managed, CmdState, ThrState, PollState, NoCmd, NoMsg, NoPoll

\* Every variable of MemberSync keeps its type, for any number of users,
\* roles, filters, commands, handler goroutines and failures.
THEOREM TypeCorrect == Spec => []TypeOK
BY TypeInit, TypeStep, PTL DEF Spec

\* While a role is created no members handler has the lock.
LEMMA CreationLocks ==
  ASSUME NEW r \in Managed, CreateRole(r) \/ CreationStep(r) \/ CreationFails(r)
  PROVE  UNCHANGED thr /\ lock \notin Thread /\ lock' \notin Thread
<1>1. [pc |-> "store", r |-> r] \notin Thread /\ [pc |-> "name", r |-> r] \notin Thread
  BY ConstantsAssumption DEF Creation
<1>2. Free \notin Thread
  BY ConstantsAssumption
<1> QED
  BY <1>1, <1>2 DEF CreateRole, CreationStep, StoreRole, NameRole, CreationFails

\* What a step may do to the lock and the goroutines it guards.
LEMMA LockSteps ==
  ASSUME [Next]_vars
  PROVE  \/ UNCHANGED <<thr, lock>>
         \/ UNCHANGED thr /\ lock \notin Thread /\ lock' \notin Thread
         \/ thr' = [t \in Thread |-> NoMsg] /\ lock' = Free
         \/ \E t \in Thread :
              \/ \E m \in Msg : /\ thr[t] = NoMsg /\ UNCHANGED lock
                               /\ thr' = [thr EXCEPT ![t] = [pc |-> "wait", m |-> m]]
              \/ thr[t].pc = "wait" /\ thr' = [thr EXCEPT ![t] = NoMsg] /\ UNCHANGED lock
              \/ thr[t].pc \in {"check", "call", "ack"} /\ thr' = [thr EXCEPT ![t] = NoMsg] /\ lock' = Free
              \/ Acquire(t) \/ Check(t) \/ Apply(t)
BY CreationLocks DEF Next, CmdStep, HandlerStep, PollStep, vars, process,
  Begin, BeginDelete, Lookup, AddRow, RemoveRow, Compare, PublishDiff, CmdFails, DeleteMembers,
  DeleteLinks, DeleteFilterRow, DestroyRole, SetSync, DeleteRole,
  DeleteGuildRole, Deliver, AcquireFails, CheckFails, ApplyNotFound,
  ApplyFails, Ack, PollGuild, PollRows, PollFails, PollUser, PollCompare, PollPublish, Crash,
  BrokerRestart, LeaveGuild

\* Mutual exclusion is inductive.
LEMMA OneWriterStep ==
  ASSUME TypeOK, OneWriter, [Next]_vars
  PROVE  OneWriter'
<1> USE ConstantsAssumption
<1>1. CASE UNCHANGED <<thr, lock>>
  BY <1>1 DEF OneWriter
<1>2. CASE thr' = [t \in Thread |-> NoMsg] /\ lock' = Free
  BY <1>2 DEF OneWriter, NoMsg
<1>9. CASE UNCHANGED thr /\ lock \notin Thread /\ lock' \notin Thread
  BY <1>9 DEF OneWriter
<1>3. ASSUME NEW t \in Thread, NEW m \in Msg, thr[t] = NoMsg, UNCHANGED lock,
             thr' = [thr EXCEPT ![t] = [pc |-> "wait", m |-> m]]
      PROVE  OneWriter'
  BY <1>3 DEF OneWriter, TypeOK, NoMsg
<1>4. ASSUME NEW t \in Thread, thr[t].pc = "wait", thr' = [thr EXCEPT ![t] = NoMsg],
             UNCHANGED lock
      PROVE  OneWriter'
  BY <1>4 DEF OneWriter, TypeOK, NoMsg
<1>5. ASSUME NEW t \in Thread, thr[t].pc \in {"check", "call", "ack"},
             thr' = [thr EXCEPT ![t] = NoMsg], lock' = Free
      PROVE  OneWriter'
  BY <1>5 DEF OneWriter, TypeOK, NoMsg
<1>6. ASSUME NEW t \in Thread, Acquire(t) PROVE OneWriter'
  <2>1. CASE thr[t].m.r \in Ignored
    BY <1>4, <1>6, <2>1 DEF Acquire
  <2>2. CASE thr[t].m.r \notin Ignored
    <3> DEFINE p == IF thr[t].m.act = "upsert" THEN "check" ELSE "call"
    <3>1. lock = Free /\ lock' = t /\ thr' = [thr EXCEPT ![t].pc = p]
      BY <1>6, <2>2 DEF Acquire
    <3>2. p \in {"check", "call"}
      OBVIOUS
    <3> HIDE DEF p
    <3>3. thr'[t].pc = p /\ \A s \in Thread \ {t} : thr'[s] = thr[s]
      BY <1>6, <3>1, HeldMessage DEF TypeOK, ThrState, NoMsg, Acquire
    <3> QED
      BY <3>1, <3>2, <3>3 DEF OneWriter
  <2> QED
    BY <2>1, <2>2
<1>7. ASSUME NEW t \in Thread, Check(t) PROVE OneWriter'
  <2>1. CASE thr[t].m.r \in linked \cap synced
    <3>1. UNCHANGED lock /\ thr' = [thr EXCEPT ![t].pc = "call"]
      BY <1>7, <2>1 DEF Check
    <3> QED
      BY <1>7, <3>1 DEF Check, OneWriter, TypeOK
  <2>2. CASE thr[t].m.r \notin linked \cap synced
    BY <1>5, <1>7, <2>2 DEF Check
  <2> QED
    BY <2>1, <2>2
<1>8. ASSUME NEW t \in Thread, Apply(t) PROVE OneWriter'
  BY <1>8 DEF Apply, OneWriter, TypeOK
<1> QED
  BY <1>1, <1>2, <1>3, <1>4, <1>5, <1>6, <1>7, <1>8, <1>9, LockSteps

LEMMA OneWriterInit == Init => OneWriter
BY ConstantsAssumption DEF Init, OneWriter, NoMsg

\* Whatever the number of handlers, and through errors, unacknowledged
\* messages and crashes, only the holder of the Session lock writes.
THEOREM MutualExclusion == Spec => []OneWriter
<1>1. TypeOK /\ OneWriter /\ [Next]_vars => OneWriter'
  BY OneWriterStep
<1> QED
  BY <1>1, OneWriterInit, TypeCorrect, PTL DEF Spec

-----------------------------------------------------------------------------

\* The roles there were at the start have their names; as long as their row
\* stays they are linked and there, and nobody is going to delete them.
Settled ==
  /\ Created \cap rows \subseteq guildRoles
  /\ Created \cap rows \subseteq linked
  /\ Created \cap rows \cap doomed = {}
  /\ Created \cap unnamed = {}
  /\ poll.pc = "rows" => Created \cap poll.new = {}
  /\ synced = Managed

LEMMA SettledStep ==
  ASSUME "sync" \notin Ops, "manual" \notin Faults, TypeOK, Settled, [Next]_vars
  PROVE  /\ Settled'
         /\ guildRoles' # guildRoles => UNCHANGED thr /\ lock = Free
<1> USE ConstantsAssumption DEF Settled
<1> DEFINE Kept == /\ Created \cap rows' \subseteq guildRoles'
                   /\ Created \cap rows' \subseteq linked'
                   /\ Created \cap rows' \cap doomed' = {}
                   /\ Created \cap unnamed' = {}
                   /\ poll'.pc = "rows" => Created \cap poll'.new = {}
                   /\ synced' = Managed
                   /\ guildRoles' # guildRoles => UNCHANGED thr /\ lock = Free
<1>1. Kept
  <2> DEFINE Same == UNCHANGED <<rows, linked, synced, guildRoles, unnamed, doomed, poll>>
  <2>0. linked \subseteq rows /\ rows \subseteq Managed
    BY DEF TypeOK
  <2>1. ASSUME NEW r \in Managed, CreateRole(r) PROVE r \notin Created /\ lock = Free
    BY <2>1, <2>0 DEF CreateRole
  <2>2. ASSUME NEW r \in Managed, CreateRole(r) PROVE Kept
    BY <2>1, <2>2 DEF CreateRole, tables, broker
  <2>3. ASSUME NEW r \in Managed, CreationStep(r) \/ CreationFails(r) PROVE Kept
    BY <2>3 DEF CreationStep, StoreRole, NameRole, CreationFails, tables, discord, broker
  <2>4. ASSUME NEW r \in Managed, DestroyRole(r) PROVE Kept
    BY <2>4 DEF DestroyRole, discord, process
  <2>5. ASSUME NEW r \in Managed, DeleteRole(r) PROVE Kept
    BY <2>5 DEF DeleteRole, tables, process
  <2>6. CASE PollGuild
    BY <2>6 DEF PollGuild, tables, discord, broker
  <2>7. CASE PollRows
    BY <2>0, <2>7 DEF PollRows, discord, NoPoll
  <2>8. CASE PollFails
    BY <2>8 DEF PollFails, tables, discord, broker, NoPoll
  <2>9. CASE Crash
    BY <2>9 DEF Crash, tables, discord, NoPoll
  <2>10. CASE BrokerRestart
    BY <2>10 DEF BrokerRestart, tables, discord, process
  <2>11. ASSUME NEW u \in User, PollUser(u) PROVE Kept
    BY <2>11 DEF PollUser, discord, broker
  <2>12. CASE PollCompare
    BY <2>12 DEF PollCompare, tables, discord, broker, NoPoll
  <2>13. CASE PollPublish
    BY <2>13 DEF PollPublish, tables, discord, NoPoll
  <2>14. CASE Same
    BY <2>14
  <2>15. \/ Same \/ PollStep \/ PollFails \/ Crash \/ BrokerRestart
         \/ \E r \in Managed : CreateRole(r) \/ CreationStep(r) \/ CreationFails(r) \/ DestroyRole(r) \/ DeleteRole(r)
    <3>1. ASSUME NEW c \in Cmd, CmdStep(c) \/ CmdFails(c) PROVE Same
      BY <3>1 DEF CmdStep, tables, discord, broker, Lookup, AddRow, RemoveRow, Compare, PublishDiff,
        CmdFails, DeleteMembers, DeleteLinks, DeleteFilterRow
    <3>2. ASSUME NEW t \in Thread, HandlerStep(t) \/ Acquire(t) \/ AcquireFails(t) \/ CheckFails(t) \/ ApplyFails(t)
          PROVE  Same
      BY <3>2 DEF HandlerStep, tables, discord, broker, Acquire, AcquireFails, Check, CheckFails,
        Apply, ApplyNotFound, ApplyFails, Ack
    <3>3. ASSUME NEW c \in Cmd, NEW op \in {"add", "remove"}, NEW u \in User, NEW f \in Filter, Begin(c, op, u, f)
          PROVE  Same
      BY <3>3 DEF Begin, tables, discord, broker
    <3>4. ASSUME NEW c \in Cmd, NEW f \in Filter, BeginDelete(c, f) PROVE Same
      BY <3>4 DEF BeginDelete, tables, discord, broker
    <3>5. ASSUME NEW u \in User, LeaveGuild(u) PROVE Same
      BY <3>5 DEF LeaveGuild, tables, broker, process
    <3>6. ASSUME NEW t \in Thread, NEW m \in Msg, Deliver(t, m) PROVE Same
      BY <3>6 DEF Deliver, tables, discord
    <3>7. ASSUME NEW r \in Managed, SetSync(r) \/ DeleteGuildRole(r) PROVE FALSE
      BY <3>7 DEF SetSync, DeleteGuildRole
    <3>8. CASE UNCHANGED vars
      BY <3>8 DEF vars, tables, discord, broker, process
    <3> HIDE DEF Same
    <3> QED
      BY <3>1, <3>2, <3>3, <3>4, <3>5, <3>6, <3>7, <3>8 DEF Next
  <2> HIDE DEF Same
  <2> QED
    BY <2>2, <2>3, <2>4, <2>5, <2>6, <2>7, <2>8, <2>9, <2>10, <2>11, <2>12, <2>13, <2>14, <2>15 DEF PollStep
<1> QED
  BY <1>1

\* Why a checked role exists: deletion waits for the lock, and a role that is
\* linked when it is checked is there.
RolesSafe == Settled /\ CheckedRoleExists

LEMMA RolesSafeStep ==
  ASSUME "sync" \notin Ops, "manual" \notin Faults, TypeOK, OneWriter, RolesSafe, [Next]_vars
  PROVE  RolesSafe'
<1> USE ConstantsAssumption DEF RolesSafe, CheckedRoleExists
<1>1. Settled' /\ (guildRoles' # guildRoles => UNCHANGED thr /\ lock = Free)
  BY SettledStep
<1>2. ASSUME NEW s \in Thread, thr'[s].pc = "call", thr'[s].m.act = "upsert", thr'[s].m.r \in Created
      PROVE  thr'[s].m.r \in guildRoles'
  <2>1. CASE guildRoles' # guildRoles
    <3>1. lock # Free
      BY <1>1, <1>2, <2>1 DEF OneWriter
    <3> QED
      BY <1>1, <1>2, <2>1, <3>1
  <2>2. CASE guildRoles' = guildRoles
    <3>1. CASE UNCHANGED thr
      BY <1>2, <2>2, <3>1
    <3>2. ASSUME NEW t \in Thread, Check(t) PROVE thr'[s].m.r \in guildRoles
      <4>1. CASE thr[t].m.r \in linked \cap synced
        <5>2. linked \subseteq rows
          BY DEF TypeOK
        <5>1. thr' = [thr EXCEPT ![t].pc = "call"]
          BY <3>2, <4>1 DEF Check
        <5> QED
          BY <1>2, <4>1, <5>1, <5>2 DEF TypeOK, Settled
      <4>2. CASE thr[t].m.r \notin linked \cap synced
        BY <1>2, <3>2, <4>2 DEF Check, TypeOK, NoMsg
      <4> QED
        BY <4>1, <4>2
    <3>3. ASSUME NEW t \in Thread, Acquire(t) PROVE thr'[s].m.r \in guildRoles
      <4>1. CASE thr[t].m.r \in Ignored
        BY <1>2, <3>3, <4>1 DEF Acquire, TypeOK, NoMsg
      <4>2. CASE thr[t].m.r \notin Ignored
        <5> DEFINE p == IF thr[t].m.act = "upsert" THEN "check" ELSE "call"
        <5>1. thr' = [thr EXCEPT ![t].pc = p]
          BY <3>3, <4>2 DEF Acquire
        <5> QED
          BY <1>2, <5>1 DEF TypeOK
      <4> QED
        BY <4>1, <4>2
    <3>4. ASSUME NEW t \in Thread, Apply(t) PROVE thr'[s].m.r \in guildRoles
      BY <1>2, <3>4 DEF Apply, TypeOK
    <3>5. ASSUME NEW t \in Thread, thr' = [thr EXCEPT ![t] = NoMsg] PROVE thr'[s].m.r \in guildRoles
      BY <1>2, <3>5 DEF TypeOK, NoMsg
    <3>6. ASSUME NEW t \in Thread, NEW m \in Msg, thr' = [thr EXCEPT ![t] = [pc |-> "wait", m |-> m]]
          PROVE  thr'[s].m.r \in guildRoles
      BY <1>2, <3>6 DEF TypeOK
    <3>7. CASE thr' = [t \in Thread |-> NoMsg]
      BY <1>2, <3>7 DEF NoMsg
    <3> QED
      BY <2>2, <3>1, <3>2, <3>3, <3>4, <3>5, <3>6, <3>7, LockSteps
  <2> QED
    BY <2>1, <2>2
<1> QED
  BY <1>1, <1>2

\* The lock covers the check and the call of an addition: while no sync flag
\* changes and nobody deletes roles by hand, a role there was at the start is
\* still there when the call is made, for any number of commands, handlers,
\* crashes and errors, and although a round compares two snapshots of different
\* times.  Of a role created later it does not hold: a round may have seen it
\* while it was called "new role".
THEOREM CheckedRoleStays ==
  ASSUME "sync" \notin Ops, "manual" \notin Faults
  PROVE  Spec => []CheckedRoleExists
<1>1. Init => RolesSafe
  BY ConstantsAssumption DEF Init, RolesSafe, Settled, CheckedRoleExists, NoMsg, NoPoll
<1>2. TypeOK /\ OneWriter /\ RolesSafe /\ [Next]_vars => RolesSafe'
  BY RolesSafeStep
<1>3. RolesSafe => CheckedRoleExists
  BY DEF RolesSafe
<1> QED
  BY <1>1, <1>2, <1>3, TypeCorrect, MutualExclusion, PTL DEF Spec

-----------------------------------------------------------------------------
(* When a mapping is dropped                                               *)

\* No command destroys a role or changes its sync flag, and nobody deletes one
\* by hand.  Roles may be created, and everything else may happen and fail.
NoRoleDestroyed == Ops \cap {"destroy", "sync"} = {} /\ "manual" \notin Faults

\* Then the roles there were at the start, and the ignored ones, stay.
Standing == Settled /\ rows = Managed /\ Ignored \subseteq guildRoles

LEMMA StandingStep ==
  ASSUME NoRoleDestroyed, TypeOK, Standing, [Next]_vars
  PROVE  Standing'
<1>1. Settled'
  BY SettledStep DEF NoRoleDestroyed, Standing
<1>2. rows' = rows /\ (guildRoles \cap Ignored) \subseteq guildRoles'
  <2> DEFINE Goal == rows' = rows /\ (guildRoles \cap Ignored) \subseteq guildRoles'
  <2>1. ASSUME UNCHANGED <<rows, guildRoles>> PROVE Goal
    BY <2>1
  <2>2. ASSUME NEW r \in Managed, CreateRole(r) PROVE Goal
    BY <2>2 DEF CreateRole, tables
  <2>3. ASSUME NEW r \in Managed, DeleteRole(r) PROVE Goal
    BY <2>3 DEF DeleteRole, tables, Managed
  <2>4. ASSUME NEW r \in Managed, DestroyRole(r) \/ SetSync(r) \/ DeleteGuildRole(r) PROVE FALSE
    BY <2>4 DEF NoRoleDestroyed, DestroyRole, SetSync, DeleteGuildRole
  <2>5. \/ UNCHANGED <<rows, guildRoles>>
        \/ \E r \in Managed : \/ CreateRole(r) \/ DeleteRole(r)
                            \/ DestroyRole(r) \/ SetSync(r) \/ DeleteGuildRole(r)
    BY ZenonT(90) DEF Next, CmdStep, CreationStep, HandlerStep, PollStep, vars, tables, discord,
      Begin, BeginDelete, Lookup, AddRow, RemoveRow, Compare, PublishDiff, CmdFails, DeleteMembers,
      DeleteLinks, DeleteFilterRow, StoreRole, NameRole, CreationFails, Deliver, Acquire, AcquireFails,
      Check, CheckFails, Apply, ApplyNotFound, ApplyFails, Ack, PollGuild, PollRows, PollFails,
      PollUser, PollCompare, PollPublish, Crash, BrokerRestart, LeaveGuild
  <2> HIDE DEF Goal
  <2>6. Goal
    BY <2>1, <2>2, <2>3, <2>4, <2>5
  <2> QED
    BY <2>6 DEF Goal
<1> QED
  BY <1>1, <1>2 DEF Standing

\* "Failed to update user in discord, user not found" (common/discord.go:83):
\* while no role is destroyed, taken out of sync or deleted by hand, a step drops
\* the mapping of a user who is in the guild only when a handler was about to
\* call Discord for a role created since the start, which a round may have
\* deleted again; of the other roles no message, late, repeated or reordered,
\* can cost a user the mapping.
THEOREM OnlyTheGoneAreDropped ==
  ASSUME NoRoleDestroyed
  PROVE  Spec => [][\A u \in mapped \ mapped' :
                      \/ u \notin guild
                      \/ \E t \in Thread : /\ thr[t].pc = "call" /\ thr[t].m.u = u
                                          /\ thr[t].m.r \in Managed \ Created]_vars
<1> DEFINE Dropped == \A u \in mapped \ mapped' :
                        \/ u \notin guild
                        \/ \E t \in Thread : /\ thr[t].pc = "call" /\ thr[t].m.u = u
                                            /\ thr[t].m.r \in Managed \ Created
<1>1. Init => Standing
  BY ConstantsAssumption DEF Init, Standing, Settled, NoPoll
<1>2. TypeOK /\ Standing /\ [Next]_vars => (TypeOK /\ Standing)'
  BY TypeStep, StandingStep
<1>3. TypeOK /\ Standing /\ [Next]_vars => [Dropped]_vars
  <2> SUFFICES ASSUME TypeOK, Standing, Next, NEW u \in mapped, u \notin mapped', u \in guild
               PROVE  \E t \in Thread : /\ thr[t].pc = "call" /\ thr[t].m.u = u
                                       /\ thr[t].m.r \in Managed \ Created
    OBVIOUS
  <2>1. PICK t \in Thread : ApplyNotFound(t)
    <3>1. ASSUME NEW v \in User, PollUser(v) PROVE FALSE
      BY <3>1 DEF PollUser
    <3> QED
      BY <3>1 DEF Next, CmdStep, CreationStep, HandlerStep, PollStep, tables,
        Begin, BeginDelete, Lookup, AddRow, RemoveRow, Compare, PublishDiff, CmdFails, DeleteMembers,
        DeleteLinks, DeleteFilterRow, CreateRole, StoreRole, NameRole, CreationFails, DestroyRole, SetSync,
        DeleteRole, DeleteGuildRole, Deliver, Acquire, AcquireFails, Check, CheckFails, Apply,
        ApplyFails, Ack, PollGuild, PollRows, PollFails, PollCompare, PollPublish, Crash, BrokerRestart, LeaveGuild
  <2>2. thr[t].pc = "call" /\ thr[t].m.u = u /\ thr[t].m.r \notin guildRoles
    BY <2>1 DEF ApplyNotFound, Reachable
  <2>3. thr[t].m.r \in Role
    BY <2>2 DEF TypeOK, ThrState, NoMsg, Msg
  <2>4. Created \subseteq guildRoles /\ Ignored \subseteq guildRoles
    BY ConstantsAssumption DEF Standing, Settled, Managed
  <2> QED
    BY <2>2, <2>3, <2>4 DEF Managed
<1> QED
  BY <1>1, <1>2, <1>3, TypeInit, PTL DEF Spec

\* With every role created beforehand that is the property the log line claims,
\* and that destroying a role breaks.
COROLLARY OnlyTheGoneWithAllRoles ==
  ASSUME NoRoleDestroyed, Created = Managed
  PROVE  Spec => DropsOnlyTheGone
<1>1. [\A u \in mapped \ mapped' :
         \/ u \notin guild
         \/ \E t \in Thread : /\ thr[t].pc = "call" /\ thr[t].m.u = u
                             /\ thr[t].m.r \in Managed \ Created]_vars
      => [\A u \in mapped \ mapped' : u \notin guild]_vars
  OBVIOUS
<1> QED
  BY <1>1, OnlyTheGoneAreDropped, PTL DEF DropsOnlyTheGone
=============================================================================
