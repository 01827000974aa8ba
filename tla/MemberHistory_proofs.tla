------------------------ MODULE MemberHistory_proofs ------------------------
(***************************************************************************)
(* MemberSync implements RoleGrants.  The inductive invariant is Justified *)
(* (with the types): its preservation rests on one fact about the steps of *)
(* MemberSync, that an announcement is born only where a command or the    *)
(* poller has just compared with the membership (lemma Births).            *)
(***************************************************************************)
EXTENDS MemberHistory, MemberSync_proofs

\* A role somebody has seen: it is in the membership, or in what a command or the
\* poller has read.
Seen(u, r) ==
  \/ r \in GetMembership(u)
  \/ \E c \in Cmd : cmd[c].pc = "after" /\ r \in cmd[c].before
  \/ poll.pc = "read" /\ r \in poll.has

\* A step that leaves the queue, the unacknowledged messages, the handlers,
\* the commands and the poller alone announces nothing new.
LEMMA Births ==
  ASSUME TypeOK, [Next]_vars,
         NEW act \in {"upsert", "delete"}, NEW u \in User, NEW r \in Role,
         Announced(act, u, r)'
  PROVE  \/ Announced(act, u, r)
         \/ Seen(u, r) /\ (act = "upsert" <=> r \in GetMembership(u))
<1> USE ConstantsAssumption
<1> DEFINE m == [act |-> act, u |-> u, r |-> r]
           P == queue[m] > 0 \/ unacked[m] > 0
                \/ \E t \in Thread : thr[t] # NoMsg /\ thr[t].m = m
           C == \E c \in Cmd : /\ cmd[c].pc = "publish" /\ cmd[c].u = u /\ r \in cmd[c].todo
                               /\ act = IF cmd[c].op = "add" THEN "upsert" ELSE "delete"
           L == /\ poll.pc = "publish" /\ poll.u = u
                /\ r \in IF act = "upsert" THEN poll.add ELSE poll.del
           G == Seen(u, r) /\ (act = "upsert" <=> r \in GetMembership(u))
<1>m. m \in Msg
  BY DEF Msg
<1>a. Announced(act, u, r) <=> P \/ C \/ L
  BY DEF Announced, InTransit, Prepared
<1>b. P' \/ C' \/ L'
  BY DEF Announced, InTransit, Prepared
<1> SUFFICES P \/ C \/ L \/ G
  BY <1>a
<1> HIDE DEF m
\* What an unchanged variable cannot give birth to.
<1>p. ASSUME UNCHANGED <<queue, unacked, thr>> PROVE P' => P
  BY <1>p
<1>c. ASSUME UNCHANGED cmd PROVE C' => C
  BY <1>c
<1>l. ASSUME UNCHANGED poll PROVE L' => L
  BY <1>l
\* A command that goes to a state in which it publishes nothing.
<1>q. ASSUME NEW c \in Cmd, NEW k, k.pc # "publish", cmd' = [cmd EXCEPT ![c] = k]
      PROVE  C' => C
  BY <1>q DEF TypeOK
\* A handler that moves on with its message, or lets go of it.
<1>t. ASSUME NEW t \in Thread, NEW k, k = NoMsg \/ (thr[t] # NoMsg /\ k.m = thr[t].m),
             thr' = [thr EXCEPT ![t] = k], UNCHANGED <<queue, unacked>>
      PROVE  P' => P
  BY <1>t DEF TypeOK
<1>1. ASSUME NEW c \in Cmd, NEW op \in {"add", "remove"}, NEW v \in User, NEW f \in Filter, Begin(c, op, v, f) PROVE P \/ C \/ L \/ G
  <2> DEFINE k == [pc |-> "lookup", op |-> op, u |-> v, f |-> f,
                  before |-> GetMembership(v), todo |-> {}]
  <2>1. cmd' = [cmd EXCEPT ![c] = k] /\ k.pc # "publish"
    BY <1>1 DEF Begin, NoCmd, TypeOK
  <2> HIDE DEF k
  <2> QED
    BY <2>1, <1>1, <1>b, <1>p, <1>q, <1>l DEF Begin, broker
<1>2. ASSUME NEW c \in Cmd, NEW f \in Filter, BeginDelete(c, f) PROVE P \/ C \/ L \/ G
  <2> DEFINE k == [pc |-> "lookup", op |-> "delete", f |-> f]
  <2>1. cmd' = [cmd EXCEPT ![c] = k] /\ k.pc # "publish"
    BY <1>2 DEF BeginDelete, NoCmd, TypeOK
  <2> HIDE DEF k
  <2> QED
    BY <2>1, <1>2, <1>b, <1>p, <1>q, <1>l DEF BeginDelete, broker
<1>3. ASSUME NEW c \in Cmd, Lookup(c) PROVE P \/ C \/ L \/ G
  <2> DEFINE k == cmd'[c]
  <2>1. cmd' = [cmd EXCEPT ![c] = k] /\ k.pc # "publish"
    BY <1>3 DEF Lookup, NoCmd, TypeOK
  <2> HIDE DEF k
  <2> QED
    BY <2>1, <1>3, <1>b, <1>p, <1>q, <1>l DEF Lookup, broker
<1>4. ASSUME NEW c \in Cmd, AddRow(c) PROVE P \/ C \/ L \/ G
  <2> DEFINE k == cmd'[c]
  <2>1. cmd' = [cmd EXCEPT ![c] = k] /\ k.pc # "publish"
    <3>1. CASE cmd[c].f \in filters /\ cmd[c].u \notin member[cmd[c].f]
      <4>1. cmd' = [cmd EXCEPT ![c].pc = "after"]
        BY <1>4, <3>1 DEF AddRow
      <4> QED
        BY <4>1, BusyCommand, <1>4 DEF AddRow, TypeOK
    <3>2. CASE ~(cmd[c].f \in filters /\ cmd[c].u \notin member[cmd[c].f])
      BY <1>4, <3>2 DEF AddRow, NoCmd, TypeOK
    <3> QED
      BY <3>1, <3>2
  <2> HIDE DEF k
  <2> QED
    BY <2>1, <1>4, <1>b, <1>p, <1>q, <1>l DEF AddRow, broker
<1>5. ASSUME NEW c \in Cmd, RemoveRow(c) PROVE P \/ C \/ L \/ G
  <2> DEFINE k == cmd'[c]
  <2>1. cmd' = [cmd EXCEPT ![c] = k] /\ k.pc # "publish"
    BY <1>5 DEF RemoveRow, NoCmd, TypeOK
  <2> HIDE DEF k
  <2> QED
    BY <2>1, <1>5, <1>b, <1>p, <1>q, <1>l DEF RemoveRow, broker
<1>6. ASSUME NEW c \in Cmd, DeleteMembers(c) PROVE P \/ C \/ L \/ G
  <2> DEFINE k == cmd'[c]
  <2>1. cmd' = [cmd EXCEPT ![c] = k] /\ k.pc # "publish"
    BY <1>6 DEF DeleteMembers, NoCmd, TypeOK
  <2> HIDE DEF k
  <2> QED
    BY <2>1, <1>6, <1>b, <1>p, <1>q, <1>l DEF DeleteMembers, broker
<1>7. ASSUME NEW c \in Cmd, DeleteLinks(c) PROVE P \/ C \/ L \/ G
  <2> DEFINE k == cmd'[c]
  <2>1. cmd' = [cmd EXCEPT ![c] = k] /\ k.pc # "publish"
    BY <1>7 DEF DeleteLinks, NoCmd, TypeOK
  <2> HIDE DEF k
  <2> QED
    BY <2>1, <1>7, <1>b, <1>p, <1>q, <1>l DEF DeleteLinks, broker
<1>8. ASSUME NEW c \in Cmd, DeleteFilterRow(c) PROVE P \/ C \/ L \/ G
  <2> DEFINE k == cmd'[c]
  <2>1. cmd' = [cmd EXCEPT ![c] = k] /\ k.pc # "publish"
    BY <1>8 DEF DeleteFilterRow, NoCmd, TypeOK
  <2> HIDE DEF k
  <2> QED
    BY <2>1, <1>8, <1>b, <1>p, <1>q, <1>l DEF DeleteFilterRow, broker
<1>9. ASSUME NEW c \in Cmd, Compare(c) PROVE P \/ C \/ L \/ G
  <2>1. C' => C \/ G
    BY <1>9, BusyCommand, SMTT(120) DEF Compare, TypeOK, NoCmd, Seen
  <2> QED
    BY <2>1, <1>9, <1>b, <1>p, <1>l DEF Compare, broker
<1>10. ASSUME NEW c \in Cmd, PublishDiff(c) PROVE P \/ C \/ L \/ G
  <2>1. C' => C
    BY <1>10, BusyCommand DEF PublishDiff, TypeOK, NoCmd
  <2>2. P' => P \/ C
    BY <1>10, <1>m DEF PublishDiff, Publish, TypeOK, m
  <2> QED
    BY <2>1, <2>2, <1>10, <1>b, <1>l DEF PublishDiff
<1>11. ASSUME NEW s \in Managed, CreateRole(s) PROVE P \/ C \/ L \/ G
  BY <1>11, <1>b, <1>p, <1>c, <1>l DEF CreateRole, broker
<1>12. ASSUME NEW s \in Managed, DestroyRole(s) PROVE P \/ C \/ L \/ G
  BY <1>12, <1>b, <1>p, <1>c, <1>l DEF DestroyRole, broker, process
<1>13. ASSUME NEW s \in Managed, SetSync(s) PROVE P \/ C \/ L \/ G
  BY <1>13, <1>b, <1>p, <1>c, <1>l DEF SetSync, broker, process
<1>14. ASSUME NEW s \in Managed, DeleteRole(s) PROVE P \/ C \/ L \/ G
  BY <1>14, <1>b, <1>p, <1>c, <1>l DEF DeleteRole, broker, process
<1>15. ASSUME NEW s \in Managed, DeleteGuildRole(s) PROVE P \/ C \/ L \/ G
  BY <1>15, <1>b, <1>p, <1>c, <1>l DEF DeleteGuildRole, broker, process
<1>16. ASSUME NEW t \in Thread, NEW n \in Msg, Deliver(t, n) PROVE P \/ C \/ L \/ G
  <2>1. P' => P
    BY <1>16, <1>m DEF Deliver, TypeOK, NoMsg
  <2> QED
    BY <2>1, <1>16, <1>b, <1>c, <1>l DEF Deliver
<1>17. ASSUME NEW t \in Thread, Acquire(t) PROVE P \/ C \/ L \/ G
  <2> DEFINE k == thr'[t]
  <2>1. thr' = [thr EXCEPT ![t] = k]
    BY <1>17 DEF Acquire, TypeOK
  <2>2. k = NoMsg \/ (thr[t] # NoMsg /\ k.m = thr[t].m)
    BY <1>17 DEF Acquire, TypeOK, ThrState, NoMsg
  <2> HIDE DEF k
  <2> QED
    BY <2>1, <2>2, <1>17, <1>b, <1>t, <1>c, <1>l DEF Acquire, broker
<1>18. ASSUME NEW t \in Thread, Check(t) PROVE P \/ C \/ L \/ G
  <2> DEFINE k == thr'[t]
  <2>1. thr' = [thr EXCEPT ![t] = k]
    BY <1>18 DEF Check, TypeOK
  <2>2. k = NoMsg \/ (thr[t] # NoMsg /\ k.m = thr[t].m)
    BY <1>18 DEF Check, TypeOK, ThrState, NoMsg
  <2> HIDE DEF k
  <2> QED
    BY <2>1, <2>2, <1>18, <1>b, <1>t, <1>c, <1>l DEF Check, broker
<1>19. ASSUME NEW t \in Thread, Apply(t) PROVE P \/ C \/ L \/ G
  <2> DEFINE k == thr'[t]
  <2>1. thr' = [thr EXCEPT ![t] = k]
    BY <1>19 DEF Apply, TypeOK
  <2>2. k = NoMsg \/ (thr[t] # NoMsg /\ k.m = thr[t].m)
    BY <1>19 DEF Apply, TypeOK, ThrState, NoMsg
  <2> HIDE DEF k
  <2> QED
    BY <2>1, <2>2, <1>19, <1>b, <1>t, <1>c, <1>l DEF Apply, broker
<1>20. ASSUME NEW t \in Thread, Ack(t) PROVE P \/ C \/ L \/ G
  <2> DEFINE k == thr'[t]
  <2>1. thr' = [thr EXCEPT ![t] = k]
    BY <1>20 DEF Ack, TypeOK
  <2>2. k = NoMsg \/ (thr[t] # NoMsg /\ k.m = thr[t].m)
    BY <1>20 DEF Ack, TypeOK, ThrState, NoMsg
  <2> HIDE DEF k
  <2> QED
    BY <2>1, <2>2, <1>20, <1>b, <1>t, <1>c, <1>l DEF Ack, broker
<1>21. ASSUME NEW t \in Thread, AcquireFails(t) PROVE P \/ C \/ L \/ G
  <2>1. P' => P
    BY <1>21, <1>m, HeldMessage DEF AcquireFails, TypeOK, NoMsg
  <2> QED
    BY <2>1, <1>21, <1>b, <1>c, <1>l DEF AcquireFails
<1>22. ASSUME NEW t \in Thread, ApplyNotFound(t) PROVE P \/ C \/ L \/ G
  <2>1. P' => P
    BY <1>22, <1>m, HeldMessage DEF ApplyNotFound, TypeOK, NoMsg
  <2> QED
    BY <2>1, <1>22, <1>b, <1>c, <1>l DEF ApplyNotFound
<1>23. ASSUME NEW t \in Thread, ApplyFails(t) PROVE P \/ C \/ L \/ G
  <2>1. P' => P
    BY <1>23, <1>m, HeldMessage DEF ApplyFails, TypeOK, NoMsg
  <2> QED
    BY <2>1, <1>23, <1>b, <1>c, <1>l DEF ApplyFails
<1>24. ASSUME PollGuild \/ PollRows \/ PollFails PROVE P \/ C \/ L \/ G
  <2>1. L' => L
    BY <1>24 DEF PollGuild, PollRows, PollFails, NoPoll
  <2> QED
    BY <2>1, <1>24, <1>b, <1>p, <1>c DEF PollGuild, PollRows, PollFails, broker
<1>25. ASSUME NEW v \in User, PollUser(v) PROVE P \/ C \/ L \/ G
  <2>1. L' => L
    BY <1>25 DEF PollUser
  <2> QED
    BY <2>1, <1>25, <1>b, <1>p, <1>c DEF PollUser, broker
<1>26. ASSUME PollCompare PROVE P \/ C \/ L \/ G
  <2>1. L' => L \/ G
    BY <1>26 DEF PollCompare, NoPoll, Seen
  <2> QED
    BY <2>1, <1>26, <1>b, <1>p, <1>c DEF PollCompare, broker
<1>27. ASSUME PollPublish PROVE P \/ C \/ L \/ G
  <2>1. L' => L
    BY <1>27 DEF PollPublish, NoPoll, TypeOK, PollState
  <2>2. P' => P \/ L
    BY <1>27, <1>m DEF PollPublish, Publish, TypeOK, m
  <2> QED
    BY <2>1, <2>2, <1>27, <1>b, <1>c DEF PollPublish
<1>28. ASSUME Crash PROVE P \/ C \/ L \/ G
  <2>1. C' => C
    BY <1>28 DEF Crash, NoCmd
  <2>2. L' => L
    BY <1>28 DEF Crash, NoPoll
  <2>3. P' => P
    <3> DEFINE H == {t \in Thread : thr[t] # NoMsg /\ thr[t].m = m}
    <3>1. IsFiniteSet(H) /\ Cardinality(H) \in Nat
      BY FS_Subset, FS_CardinalityType DEF ConstantsAssumption
    <3>2. H = {} => Cardinality(H) = 0
      BY FS_EmptySet
    <3>3. unacked'[m] = 0 /\ ~\E t \in Thread : thr'[t] # NoMsg
      BY <1>28, <1>m DEF Crash
    <3>4. queue'[m] = queue[m] + unacked[m] + Cardinality(H) \/ queue'[m] = queue[m]
      BY <1>28, <1>m DEF Crash
    <3>5. queue[m] \in Nat /\ unacked[m] \in Nat
      BY <1>m DEF TypeOK
    <3> HIDE DEF H
    <3>6. P' => queue[m] > 0 \/ unacked[m] > 0 \/ H # {}
      BY <3>1, <3>2, <3>3, <3>4, <3>5
    <3> QED
      BY <3>6 DEF H
  <2> QED
    BY <2>1, <2>2, <2>3, <1>b
<1>29. ASSUME BrokerRestart PROVE P \/ C \/ L \/ G
  <2>1. P' => P
    BY <1>29, <1>m DEF BrokerRestart, process
  <2> QED
    BY <2>1, <1>29, <1>b, <1>c, <1>l DEF BrokerRestart, process
<1>30. ASSUME NEW v \in User, LeaveGuild(v) PROVE P \/ C \/ L \/ G
  BY <1>30, <1>b, <1>p, <1>c, <1>l DEF LeaveGuild, broker, process
<1>32. ASSUME NEW s \in Managed, CreationStep(s) \/ CreationFails(s) PROVE P \/ C \/ L \/ G
  BY <1>32, <1>b, <1>p, <1>c, <1>l DEF CreationStep, StoreRole, NameRole, CreationFails, broker
<1>33. ASSUME NEW c \in Cmd, CmdFails(c) PROVE P \/ C \/ L \/ G
  <2>1. cmd' = [cmd EXCEPT ![c] = NoCmd] /\ NoCmd.pc # "publish"
    BY <1>33 DEF CmdFails, NoCmd
  <2> QED
    BY <2>1, <1>33, <1>b, <1>p, <1>q, <1>l DEF CmdFails, broker
<1>34. ASSUME NEW t \in Thread, CheckFails(t) PROVE P \/ C \/ L \/ G
  BY <1>34, <1>b, <1>t, <1>c, <1>l DEF CheckFails, broker
<1>31. CASE UNCHANGED vars
  BY <1>31, <1>b, <1>p, <1>c, <1>l DEF vars, broker, process
<1> QED
  BY <1>1, <1>2, <1>3, <1>4, <1>5, <1>6, <1>7, <1>8, <1>9, <1>10, <1>11, <1>12, <1>13, <1>14, <1>15, <1>16, <1>17, <1>18, <1>19, <1>20, <1>21, <1>22, <1>23, <1>24, <1>25, <1>26, <1>27, <1>28, <1>29, <1>30, <1>31, <1>32, <1>33, <1>34 DEF Next, CmdStep, HandlerStep, PollStep

\* The types of the histories.
HistoryType == everIn \in [User -> SUBSET Role] /\ everOut \in [User -> SUBSET Role]

\* Ignored roles never reach the locked part of the handler.
SkipsIgnored ==
  \A t \in Thread : thr[t].pc \in {"check", "call", "ack"} => thr[t].m.r \notin Ignored

\* What a step may do to the guild; when it changes somebody's roles it leaves
\* the tables, and so every membership, alone.
LEMMA GuildSteps ==
  ASSUME [Next]_vars
  PROVE  \/ UNCHANGED holds
         \/ /\ UNCHANGED <<rows, linked, filtersOf, member>>
            /\ \/ \E t \in Thread : Apply(t)
               \/ \E v \in User : holds' = [holds EXCEPT ![v] = {}]
               \/ \E s \in Managed : holds' = [v \in User |-> holds[v] \ {s}]
BY ZenonT(60) DEF Next, CmdStep, HandlerStep, PollStep, vars, tables, discord,
  Begin, BeginDelete, Lookup, AddRow, RemoveRow, Compare, PublishDiff, DeleteMembers,
  DeleteLinks, DeleteFilterRow, CmdFails, CreateRole, CreationStep, StoreRole, NameRole, CreationFails, DestroyRole, SetSync, DeleteRole,
  DeleteGuildRole, Deliver, Acquire, AcquireFails, Check, CheckFails, Apply, ApplyNotFound,
  ApplyFails, Ack, PollGuild, PollRows, PollFails, PollUser, PollCompare, PollPublish, Crash,
  BrokerRestart, LeaveGuild

\* With the tables, every membership is unchanged.
LEMMA SameTablesSameMembership ==
  ASSUME UNCHANGED <<rows, linked, filtersOf, member>>, NEW u \in User
  PROVE  GetMembership(u)' = GetMembership(u)
BY DEF GetMembership, ChatIds, MemberRoles, HasRole, RowsOf

\* What a step may do to a handler goroutine.
LEMMA HandlerSteps ==
  ASSUME [Next]_vars
  PROVE  \/ UNCHANGED thr
         \/ thr' = [t \in Thread |-> NoMsg]
         \/ \E t \in Thread : thr' = [thr EXCEPT ![t] = NoMsg]
         \/ \E t \in Thread, m \in Msg : thr' = [thr EXCEPT ![t] = [pc |-> "wait", m |-> m]]
         \/ \E t \in Thread : Acquire(t) \/ Check(t) \/ Apply(t)
BY DEF Next, CmdStep, HandlerStep, PollStep, vars, process,
  Begin, BeginDelete, Lookup, AddRow, RemoveRow, Compare, PublishDiff, DeleteMembers,
  DeleteLinks, DeleteFilterRow, CmdFails, CreateRole, CreationStep, StoreRole, NameRole, CreationFails, DestroyRole, SetSync, DeleteRole,
  DeleteGuildRole, Deliver, AcquireFails, CheckFails, ApplyNotFound,
  ApplyFails, Ack, PollGuild, PollRows, PollFails, PollUser, PollCompare, PollPublish, Crash,
  BrokerRestart, LeaveGuild

\* An ignored role is turned away with the lock not taken.
LEMMA HandlersSkipIgnored ==
  ASSUME TypeOK, [Next]_vars, SkipsIgnored
  PROVE  SkipsIgnored'
<1>1. CASE UNCHANGED thr
  BY <1>1 DEF SkipsIgnored
<1>2. CASE thr' = [t \in Thread |-> NoMsg]
  BY <1>2 DEF SkipsIgnored, NoMsg
<1>3. ASSUME NEW t \in Thread, thr' = [thr EXCEPT ![t] = NoMsg] PROVE SkipsIgnored'
  BY <1>3 DEF SkipsIgnored, NoMsg, TypeOK
<1>4. ASSUME NEW t \in Thread, NEW m \in Msg, thr' = [thr EXCEPT ![t] = [pc |-> "wait", m |-> m]]
      PROVE  SkipsIgnored'
  BY <1>4 DEF SkipsIgnored, TypeOK
<1>5. ASSUME NEW t \in Thread, Acquire(t) PROVE SkipsIgnored'
  BY <1>5 DEF Acquire, SkipsIgnored, TypeOK, NoMsg, ThrState
<1>6. ASSUME NEW t \in Thread, Check(t) PROVE SkipsIgnored'
  BY <1>6 DEF Check, SkipsIgnored, TypeOK, NoMsg, ThrState
<1>7. ASSUME NEW t \in Thread, Apply(t) PROVE SkipsIgnored'
  BY <1>7 DEF Apply, SkipsIgnored, TypeOK, NoMsg, ThrState
<1> QED
  BY <1>1, <1>2, <1>3, <1>4, <1>5, <1>6, <1>7, HandlerSteps

\* The message of a goroutine about to call Discord is in transit.
LEMMA CallInTransit ==
  ASSUME TypeOK, NEW t \in Thread, thr[t].pc = "call"
  PROVE  /\ thr[t].m \in Msg
         /\ \A act : act = thr[t].m.act => Announced(act, thr[t].m.u, thr[t].m.r)
<1>1. thr[t] # NoMsg /\ thr[t].m \in Msg
  BY DEF TypeOK, ThrState, NoMsg
<1>2. thr[t].m = [act |-> thr[t].m.act, u |-> thr[t].m.u, r |-> thr[t].m.r]
  BY <1>1 DEF Msg
<1> QED
  BY <1>1, <1>2 DEF Announced, InTransit

\* What Justified says of one user and one role.
LEMMA JustifiedUse ==
  ASSUME Justified, NEW u \in User, NEW r \in Role
  PROVE  /\ Announced("upsert", u, r) => r \in everIn[u]
         /\ Announced("delete", u, r) => r \in everOut[u]
BY Zenon DEF Justified

\* A step that changes somebody's roles in the guild teaches nothing new.
LEMMA NothingLearnt ==
  ASSUME HistoryType, Justified, Record,
         UNCHANGED <<rows, linked, filtersOf, member>>
  PROVE  UNCHANGED <<everIn, everOut>>
<1>1. ASSUME NEW u \in User
      PROVE  /\ everIn[u] \cup (GetMembership(u)' \cap Role) = everIn[u]
             /\ everOut[u] \cup (Role \ GetMembership(u)') = everOut[u]
  BY SameTablesSameMembership DEF Justified
<1> QED
  BY <1>1 DEF Record, HistoryType

\* Justified is inductive (relative to the types).
LEMMA JustifiedStep ==
  ASSUME TypeOK, HistoryType, Justified, [Next /\ Record]_hvars
  PROVE  HistoryType' /\ Justified'
<1> USE ConstantsAssumption
<1>1. CASE UNCHANGED hvars
  <2>1. UNCHANGED <<rows, linked, filtersOf, member, holds, thr, everIn, everOut>>
    BY <1>1 DEF hvars, vars, tables, discord, process
  <2>2. ASSUME NEW act, NEW u \in User, NEW r
        PROVE  Announced(act, u, r)' <=> Announced(act, u, r)
    BY <1>1 DEF hvars, vars, broker, process, Announced, InTransit, Prepared
  <2>3. \A u \in User : GetMembership(u)' = GetMembership(u)
    BY <2>1, SameTablesSameMembership
  <2> QED
    BY <2>1, <2>2, <2>3 DEF HistoryType, Justified
<1>2. CASE Next /\ Record
  <2>1. HistoryType'
    BY <1>2 DEF Record, HistoryType
  <2>2. ASSUME NEW u \in User
        PROVE  /\ everIn[u] \subseteq everIn'[u] /\ everOut[u] \subseteq everOut'[u]
               /\ GetMembership(u)' \cap Role \subseteq everIn'[u]
               /\ Role \ GetMembership(u)' \subseteq everOut'[u]
    BY <1>2 DEF Record
  <2>3. ASSUME NEW u \in User PROVE holds'[u] \subseteq everIn'[u]
    <3>1. CASE UNCHANGED holds
      BY <3>1, <2>2, <2>3 DEF Justified
    <3>2. ASSUME NEW t \in Thread, Apply(t) PROVE holds'[u] \subseteq everIn'[u]
      <4> DEFINE m == thr[t].m
      <4>3. m \in Msg /\ (m.act = "upsert" => Announced("upsert", m.u, m.r))
        BY <3>2, CallInTransit DEF Apply
      <4>1. m \in Msg /\ (m.act = "upsert" => m.r \in everIn[m.u])
        BY <4>3, JustifiedUse DEF Msg
      <4>2. holds'[u] \subseteq holds[u] \cup (IF m.u = u /\ m.act = "upsert" THEN {m.r} ELSE {})
        BY <3>2 DEF Apply, TypeOK
      <4> HIDE DEF m
      <4> QED
        BY <4>1, <4>2, <2>2, <2>3 DEF Justified
    <3>3. ASSUME NEW v \in User, holds' = [holds EXCEPT ![v] = {}]
          PROVE  holds'[u] \subseteq everIn'[u]
      BY <3>3, <2>2, <2>3 DEF Justified, TypeOK
    <3>4. ASSUME NEW s \in Managed, holds' = [v \in User |-> holds[v] \ {s}]
          PROVE  holds'[u] \subseteq everIn'[u]
      BY <3>4, <2>2, <2>3 DEF Justified
    <3> QED
      BY <1>2, <3>1, <3>2, <3>3, <3>4, GuildSteps
  <2>4. ASSUME NEW u \in User, NEW r \in Role
        PROVE  /\ Announced("upsert", u, r)' => r \in everIn'[u]
               /\ Announced("delete", u, r)' => r \in everOut'[u]
    <3>1. Announced("upsert", u, r)' => Announced("upsert", u, r) \/ r \in GetMembership(u)
      BY <1>2, Births
    <3>2. Announced("delete", u, r)' => Announced("delete", u, r) \/ r \notin GetMembership(u)
      BY <1>2, Births
    <3>3. /\ Announced("upsert", u, r) => r \in everIn[u]
          /\ Announced("delete", u, r) => r \in everOut[u]
      BY JustifiedUse
    <3>4. r \in everIn[u] \/ r \notin GetMembership(u)
      BY DEF Justified
    <3>5. r \in everOut[u] \/ r \in GetMembership(u)
      BY DEF Justified
    <3> QED
      BY <3>1, <3>2, <3>3, <3>4, <3>5, <2>2
  <2>5. SkipsIgnored'
    BY <1>2, HandlersSkipIgnored DEF Justified, SkipsIgnored
  <2> QED
    BY <2>1, <2>2, <2>3, <2>4, <2>5 DEF Justified, SkipsIgnored
<1> QED
  BY <1>1, <1>2

\* The histories start from the guild, which agrees with the tables.
LEMMA HistoryInit ==
  ASSUME HInit
  PROVE  TypeOK /\ HistoryType /\ Justified
<1> USE ConstantsAssumption
<1>1. TypeOK
  BY DEF HInit, Init, TypeOK, Managed, CmdState, ThrState, PollState, NoCmd, NoMsg, NoPoll
<1>2. HistoryType
  BY <1>1 DEF HInit, HistoryType, TypeOK
<1>3. ASSUME NEW u \in User PROVE GetMembership(u) \cap Role \subseteq holds[u]
  BY DEF HInit, Init
<1>4. ASSUME NEW act, NEW u \in User, NEW r \in Role, act \in {"upsert", "delete"}
      PROVE  ~Announced(act, u, r)
  <2>1. [act |-> act, u |-> u, r |-> r] \in Msg
    BY <1>4 DEF Msg
  <2> QED
    BY <2>1 DEF HInit, Init, Announced, InTransit, Prepared, NoCmd, NoPoll
<1> QED
  BY <1>1, <1>2, <1>3, <1>4 DEF HInit, Init, Justified, NoMsg

\* Every message, in transit or about to be published, of every interleaving
\* of commands, handlers, poller and failures names a role its user has
\* qualified for (additions) or has been without (removals).
THEOREM JustifiedAlways == HSpec => []Justified
<1> DEFINE IInv == TypeOK /\ HistoryType /\ Justified
<1>1. HInit => IInv
  BY HistoryInit
<1>2. IInv /\ [Next /\ Record]_hvars => IInv'
  <2>1. [Next /\ Record]_hvars => [Next]_vars
    BY DEF hvars
  <2> QED
    BY <2>1, TypeStep, JustifiedStep
<1> QED
  BY <1>1, <1>2, PTL DEF HSpec

\* A step of MemberSync is a step of RoleGrants or leaves it unchanged.
LEMMA GrantsStep ==
  ASSUME TypeOK, HistoryType, Justified, [Next /\ Record]_hvars
  PROVE  [Grants!Next]_(Grants!vars)
<1> USE ConstantsAssumption
<1>1. CASE UNCHANGED hvars
  BY <1>1 DEF hvars, vars, discord, Grants!vars
<1>2. CASE Next /\ Record
  <2>1. CASE UNCHANGED holds
    BY <1>2, <2>1 DEF Record, HistoryType, Grants!Next, Grants!Learn
  <2>2. CASE UNCHANGED <<rows, linked, filtersOf, member>>
    <3>1. UNCHANGED <<everIn, everOut>>
      BY <1>2, <2>2, NothingLearnt
    <3>2. ASSUME NEW t \in Thread, Apply(t) PROVE Grants!Next
      <4> DEFINE m == thr[t].m
      <4>1. /\ m \in Msg /\ m.r \notin Ignored
            /\ m.act = "upsert" => m.r \in everIn[m.u]
            /\ m.act = "delete" => m.r \in everOut[m.u]
        <5>1. /\ m \in Msg
              /\ m.act = "upsert" => Announced("upsert", m.u, m.r)
              /\ m.act = "delete" => Announced("delete", m.u, m.r)
          BY <3>2, CallInTransit DEF Apply
        <5>2. m.r \notin Ignored
          BY <3>2 DEF Apply, Justified
        <5> QED
          BY <5>1, <5>2, JustifiedUse DEF Msg
      <4>2. holds' = [holds EXCEPT ![m.u] = IF m.act = "upsert" THEN @ \cup {m.r} ELSE @ \ {m.r}]
        BY <3>2 DEF Apply
      <4> HIDE DEF m
      <4>3. m.act \in {"upsert", "delete"} /\ m.u \in User /\ m.r \in Role
        BY <4>1 DEF Msg
      <4>4. CASE m.act = "upsert"
        <5>1. holds' = [holds EXCEPT ![m.u] = @ \cup {m.r}]
          BY <4>2, <4>4
        <5>2. Grants!Grant(m.u, m.r)
          BY <3>1, <4>1, <4>3, <4>4, <5>1 DEF Grants!Grant
        <5> QED
          BY <4>3, <5>2 DEF Grants!Next
      <4>5. CASE m.act = "delete"
        <5>1. holds' = [holds EXCEPT ![m.u] = @ \ {m.r}]
          BY <4>2, <4>5
        <5>2. Grants!Revoke(m.u, m.r)
          BY <3>1, <4>1, <4>3, <4>5, <5>1 DEF Grants!Revoke
        <5> QED
          BY <4>3, <5>2 DEF Grants!Next
      <4> QED
        BY <4>3, <4>4, <4>5
    <3>3. ASSUME NEW v \in User, holds' = [holds EXCEPT ![v] = {}] PROVE Grants!Next
      BY <3>1, <3>3 DEF Grants!Next, Grants!UserLeaves
    <3>4. ASSUME NEW s \in Managed, holds' = [v \in User |-> holds[v] \ {s}] PROVE Grants!Next
      <4>1. s \in Role /\ Grants!RoleVanishes(s)
        BY <3>1, <3>4 DEF Managed, Grants!RoleVanishes
      <4> QED
        BY <4>1 DEF Grants!Next
    <3> QED
      BY <1>2, <2>1, <3>2, <3>3, <3>4, GuildSteps
  <2> QED
    BY <1>2, <2>1, <2>2, GuildSteps
<1> QED
  BY <1>1, <1>2

\* MemberSync, with its histories, implements RoleGrants: for every number of
\* users, roles, handlers and failures the bot gives no role its user never
\* qualified for and takes none its user was never without.
THEOREM Implementation == HSpec => ImplementsGrants
<1> DEFINE IInv == TypeOK /\ HistoryType /\ Justified
<1>1. HInit => IInv
  BY HistoryInit
<1>2. IInv /\ [Next /\ Record]_hvars => IInv'
  <2>1. [Next /\ Record]_hvars => [Next]_vars
    BY DEF hvars
  <2> QED
    BY <2>1, TypeStep, JustifiedStep
<1>3. HInit => Grants!Init
  <2> SUFFICES ASSUME HInit PROVE Grants!Init
    OBVIOUS
  <2> QED
    BY HistoryInit DEF HInit, TypeOK, HistoryType, Grants!Init
<1>4. IInv /\ [Next /\ Record]_hvars => [Grants!Next]_(Grants!vars)
  BY GrantsStep
<1> QED
  BY <1>1, <1>2, <1>3, <1>4, PTL DEF HSpec, ImplementsGrants, Grants!Spec
=============================================================================
