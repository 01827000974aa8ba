--------------------------- MODULE RoleSync_proofs ---------------------------
(***************************************************************************)
(* The roles' types, the lock, the ignored roles, the default filters and  *)
(* one role for a name, for every number of names, ids, commands and       *)
(* handlers.                                                               *)
(***************************************************************************)
EXTENDS RoleSync, TLAPS, SequenceTheorems, FiniteSetTheorems, WellFoundedInduction

-----------------------------------------------------------------------------
(* Messages, handlers and ids                                              *)

\* The steps of upsert, and what a handler that has a message is.
Upserting == {"row", "exists", "create", "store", "edit"}
Working == [pc : {"wait", "row", "exists", "create", "store", "edit", "delete", "ack", "requeue"},
                m : Msg, id : RowId \cup {Blank}]

\* What a handler knows at each of its steps: an upsert is of a name that is
\* not ignored, and the id it works with is the message's until a role is created.
ThrShape(h) ==
    /\ h.pc \in Upserting => h.m.act = "upsert" /\ h.m.n \notin Ignored
    /\ h.pc = "delete" => h.m.act = "delete"
    /\ h.pc \in {"wait", "row", "exists", "create", "delete"} => h.id = h.m.id
    /\ h.pc = "store" => h.id \in Id

Shape == \A t \in Thread : ThrShape(thr[t])

\* A command that is about to link the filter has written the filter's row.
FilterThere == \A c \in Cmd : cmd[c].pc = "attach" => cmd[c].n \in filters

\* A handler that is not idle is a record of the one kind.
LEMMA ThrWorks ==
  ASSUME TypeOK, NEW t \in Thread, thr[t].pc # "idle"
  PROVE  thr[t] \in Working
BY DEF TypeOK, ThrState, NoMsg, Working

\* A handler that is given a state of the right type and shape keeps both.
LEMMA ThrIsSet ==
  ASSUME TypeOK, Shape, NEW t \in Thread, NEW h \in ThrState, ThrShape(h),
         thr' = [thr EXCEPT ![t] = h]
  PROVE  thr' \in [Thread -> ThrState] /\ Shape'
BY DEF TypeOK, Shape, ThrShape

\* The same when it only goes on to the next step.
LEMMA ThrGoes ==
  ASSUME TypeOK, Shape, NEW t \in Thread, thr[t].pc # "idle",
         NEW p \in {"wait", "row", "exists", "create", "store", "edit", "delete", "ack", "requeue"},
         p \in Upserting => thr[t].m.act = "upsert" /\ thr[t].m.n \notin Ignored,
         p = "delete" => thr[t].m.act = "delete",
         p \in {"wait", "row", "exists", "create", "delete"} => thr[t].id = thr[t].m.id,
         p = "store" => thr[t].id \in Id,
         thr' = [thr EXCEPT ![t].pc = p]
  PROVE  thr' \in [Thread -> ThrState] /\ Shape'
<1>1. thr[t] \in Working
  BY ThrWorks
<1> DEFINE h == [thr[t] EXCEPT !.pc = p]
<1>2. h \in Working /\ h.pc = p /\ h.m = thr[t].m /\ h.id = thr[t].id
  BY <1>1 DEF Working
<1>3. h \in ThrState
  BY <1>2 DEF Working, ThrState
<1>4. thr' = [thr EXCEPT ![t] = h]
  OBVIOUS
<1>5. ThrShape(h)
  BY <1>2 DEF ThrShape
<1> HIDE DEF h
<1> QED
  BY <1>3, <1>4, <1>5, ThrIsSet

\* A message is an upsert with its fields, or a deletion with its id.
LEMMA MsgIsOfAKind ==
  ASSUME NEW m \in Msg
  PROVE  \/ m.act = "upsert" /\ m.n \in Name /\ m.id \in RowId \cup {Blank} /\ m.attr \in BOOLEAN
         \/ m.act = "delete" /\ m.id \in RowId
BY DEF Msg, Upsert, Delete

\* A set of numbers that is not empty has a smallest one.
LEMMA MinOfIds ==
  ASSUME NEW S \in SUBSET Nat, S # {}
  PROVE  Min(S) \in S
<1>1. \E x \in S : \A y \in S : ~ (<<y, x>> \in OpToRel(<, Nat))
  BY NatLessThanWellFounded, WFMin, Zenon
<1>2. PICK x \in S : \A y \in S : ~ (<<y, x>> \in OpToRel(<, Nat))
  BY <1>1
<1>3. \A y \in S : ~ (y < x)
  BY <1>2 DEF OpToRel
<1>4. \A y \in S : x =< y
  BY <1>3
<1> QED
  BY <1>4 DEF Min

\* The id of a new role: there is one as long as they are not all in use, and
\* nothing refers to it.
LEMMA NewId ==
  ASSUME InUse # Id
  PROVE  Min(Id \ InUse) \in Id \ InUse
BY MinOfIds, ConstantsAssumption DEF InUse

\* The ids of a handler's message and of its work are in use.
LEMMA HandlerUsesIds ==
  ASSUME NEW t \in Thread, thr[t].pc # "idle", NEW i \in Id, i \in {thr[t].m.id, thr[t].id}
  PROVE  i \in InUse
<1>1. thr[t] # NoMsg
  BY DEF NoMsg
<1> QED
  BY <1>1 DEF InUse

\* A message that is on its way: in the queue, with a handler, a command or the
\* poller.
Carried(m) ==
  \/ \E j \in DOMAIN queue : m = queue[j]
  \/ \E t \in Thread : thr[t].pc # "idle" /\ m = thr[t].m
  \/ \E c \in Cmd : cmd[c].pc = "publish" /\ m = cmd[c].m
  \/ poll.pc = "publish" /\ m \in poll.todo

\* Publishing adds the message to the queue, or loses it.
LEMMA Published ==
  ASSUME queue \in Seq(Msg), NEW m \in Msg, Publish(m)
  PROVE  /\ queue' \in Seq(Msg)
         /\ \A k \in DOMAIN queue' : queue'[k] = m \/ \E j \in DOMAIN queue : queue'[k] = queue[j]
<1>1. CASE connected
  BY <1>1, AppendProperties DEF Publish
<1>2. CASE ~connected
  BY <1>2 DEF Publish
<1> QED
  BY <1>1, <1>2

\* A finite set can be put in order.
LEMMA SetInOrder ==
  ASSUME NEW S, IsFiniteSet(S)
  PROVE  SetToSeq(S) \in Seq(S)
<1> DEFINE D == 1..Cardinality(S)
<1>1. Cardinality(S) \in Nat
  BY FS_CardinalityType
<1>2. IsFiniteSet(D) /\ Cardinality(D) = Cardinality(S)
  BY <1>1, FS_Interval
<1>3. ExistsBijection(D, S)
  BY <1>2, FS_SameCardinalityBij
<1>4. \E f \in [D -> S] : IsInjective(f)
  BY <1>3, Zenon DEF ExistsBijection, Bijection, Injection, IsInjective
<1>5. SetToSeq(S) \in [D -> S]
  BY <1>4 DEF SetToSeq
<1> QED
  BY <1>1, <1>5

\* What is in the queue after a crash was there, or with a handler.
LEMMA Redelivered ==
  ASSUME TypeOK, Crash
  PROVE  /\ queue' \in Seq(Msg)
         /\ \A k \in DOMAIN queue' : Carried(queue'[k])
<1> DEFINE S    == {t \in Thread : thr[t] # NoMsg}
           held == SetToSeq(S)
           mine == [i \in DOMAIN held |-> thr[held[i]].m]
           all  == mine \o queue
<1>1. CASE ~connected
  BY <1>1 DEF Crash, TypeOK, Carried
<1>2. CASE connected
  <2>1. held \in Seq(S)
    BY SetInOrder, FS_Subset, ConstantsAssumption
  <2>2. \A t \in S : thr[t].pc # "idle" /\ thr[t].m \in Msg
    BY DEF TypeOK, ThrState, NoMsg
  <2> HIDE DEF S, held
  <2>3. mine \in Seq(Msg) /\ \A i \in DOMAIN mine : \E t \in S : mine[i] = thr[t].m
    BY <2>1, <2>2
  <2> HIDE DEF mine
  <2>4. queue \in Seq(Msg)
    BY DEF TypeOK
  <2>5. all \in Seq(Msg) /\ \A i \in DOMAIN all : (\E k \in DOMAIN mine : all[i] = mine[k]) \/ (\E j \in DOMAIN queue : all[i] = queue[j])
    <3>1. /\ all \in Seq(Msg) /\ Len(all) = Len(mine) + Len(queue)
          /\ \A i \in 1..Len(all) : all[i] = IF i <= Len(mine) THEN mine[i] ELSE queue[i - Len(mine)]
      BY <2>3, <2>4, ConcatProperties
    <3> HIDE DEF all
    <3>2. DOMAIN all = 1..Len(all) /\ DOMAIN mine = 1..Len(mine) /\ DOMAIN queue = 1..Len(queue)
      BY <2>3, <2>4, <3>1
    <3>3. Len(mine) \in Nat /\ Len(queue) \in Nat
      BY <2>3, <2>4
    <3>4. ASSUME NEW i \in DOMAIN all
          PROVE  (\E k \in DOMAIN mine : all[i] = mine[k]) \/ (\E j \in DOMAIN queue : all[i] = queue[j])
      <4>1. CASE i <= Len(mine)
        BY <3>1, <3>2, <3>3, <4>1
      <4>2. CASE ~(i <= Len(mine))
        BY <3>1, <3>2, <3>3, <4>2
      <4> QED
        BY <4>1, <4>2
    <3> QED
      BY <3>1, <3>4
  <2>6. \A i \in DOMAIN all : Carried(all[i])
    BY <2>2, <2>3, <2>5 DEF Carried, S
  <2>7. PICK p \in SetToSeqs(DOMAIN all) : queue' = [i \in DOMAIN all |-> all[p[i]]]
    BY <1>2, Zenon DEF Crash, all, mine, held, S
  <2> HIDE DEF all
  <2>8. DOMAIN all = 1..Len(all) /\ Len(all) \in Nat
    BY <2>5
  <2>9. Cardinality(1..Len(all)) = Len(all)
    <3> DEFINE n == Len(all)
    <3>1. n \in Nat
      BY <2>8
    <3> HIDE DEF n
    <3>2. Cardinality(1..n) = n
      BY <3>1, FS_Interval
    <3> QED
      BY <3>2 DEF n
  <2>10. p \in [DOMAIN all -> DOMAIN all]
    BY <2>7, <2>8, <2>9 DEF SetToSeqs
  <2>11. queue' \in [1..Len(all) -> Msg] /\ \A i \in DOMAIN queue' : \E k \in DOMAIN all : queue'[i] = all[k]
    BY <2>5, <2>7, <2>8, <2>10
  <2>12. queue' \in Seq(Msg)
    BY <2>8, <2>11
  <2>13. \A k \in DOMAIN queue' : Carried(queue'[k])
    BY <2>6, <2>11
  <2> QED
    BY <2>12, <2>13
<1> QED
  BY <1>1, <1>2

-----------------------------------------------------------------------------
(* Types                                                                   *)

\* The fields of a command at the steps that have them.
LEMMA CmdOfAKind ==
  ASSUME NEW k \in CmdState
  PROVE  /\ k.pc \in {"filter", "attach"} => k.n \in Name /\ k.row \in Nat /\ k = [pc |-> k.pc, n |-> k.n, row |-> k.row]
         /\ k.pc = "delete" => k.n \in Name /\ k.id \in RowId
         /\ k.pc = "store" => k.n \in Name /\ k.seen \in Id
         /\ k.pc = "publish" => k.m \in Msg
<1>1. CASE k \in [pc : {"filter", "attach"}, n : Name, row : Nat]
  BY <1>1
<1>2. CASE k \notin [pc : {"filter", "attach"}, n : Name, row : Nat]
  BY <1>2 DEF CmdState, NoCmd
<1> QED
  BY <1>1, <1>2

\* Every step: what is in the queue was on its way before.  Nobody makes up a
\* message out of nothing.
LEMMA MessagesOnlyMove ==
  ASSUME TypeOK, [Next]_vars
  PROVE  /\ queue' \in Seq(Msg)
         /\ \A k \in DOMAIN queue' : Carried(queue'[k])
<1> DEFINE Goal == queue' \in Seq(Msg) /\ \A k \in DOMAIN queue' : Carried(queue'[k])
<1>1. queue \in Seq(Msg)
  BY DEF TypeOK
<1>2. ASSUME UNCHANGED queue PROVE Goal
  BY <1>1, <1>2 DEF Carried
<1>3. ASSUME NEW m \in Msg, Carried(m), Publish(m) PROVE Goal
  <2>1. queue' \in Seq(Msg) /\ \A k \in DOMAIN queue' : queue'[k] = m \/ \E j \in DOMAIN queue : queue'[k] = queue[j]
    BY <1>1, <1>3, Published
  <2> QED
    BY <1>3, <2>1 DEF Carried
<1>4. ASSUME NEW c \in Cmd, CmdPublish(c) PROVE Goal
  <2>1. cmd[c].pc = "publish" /\ cmd[c].m \in Msg /\ Publish(cmd[c].m)
    BY <1>4, CmdOfAKind DEF CmdPublish, TypeOK
  <2> QED
    BY <1>3, <2>1 DEF Carried
<1>5. ASSUME NEW t \in Thread, Deliver(t) PROVE Goal
  <2>1. queue # <<>> /\ queue' = Tail(queue)
    BY <1>5 DEF Deliver
  <2>2. /\ queue' \in Seq(Msg) /\ Len(queue') = Len(queue) - 1 /\ Len(queue) \in Nat
        /\ \A k \in 1..Len(queue') : queue'[k] = queue[k + 1]
    BY <1>1, <2>1, HeadTailProperties
  <2>3. \A k \in DOMAIN queue' : k + 1 \in DOMAIN queue /\ queue'[k] = queue[k + 1]
    BY <1>1, <2>2
  <2> QED
    BY <2>2, <2>3 DEF Carried
<1>6. ASSUME NEW t \in Thread, Finish(t) PROVE Goal
  <2>1. CASE thr[t].pc = "requeue"
    <3>1. thr[t].m \in Msg /\ Publish(thr[t].m)
      BY <1>6, <2>1 DEF Finish, TypeOK, ThrState, NoMsg
    <3> QED
      BY <1>3, <2>1, <3>1 DEF Carried
  <2>2. CASE thr[t].pc # "requeue"
    BY <1>2, <1>6, <2>2 DEF Finish
  <2> QED
    BY <2>1, <2>2
<1>7. ASSUME PollPublish PROVE Goal
  <2>1. PICK m \in poll.todo : IF Copies(m) < MaxCopies /\ Len(queue) < MaxQueue THEN Publish(m) ELSE UNCHANGED queue
    BY <1>7 DEF PollPublish
  <2>2. m \in Msg /\ Carried(m)
    BY <1>7 DEF PollPublish, TypeOK, PollState, NoPoll, Carried
  <2> QED
    BY <1>2, <1>3, <2>1, <2>2
<1>8. ASSUME BrokerRestart PROVE Goal
  <2>1. queue' = <<>>
    BY <1>8 DEF BrokerRestart
  <2> QED
    BY <2>1, EmptySeq
<1>9. ASSUME Crash PROVE Goal
  BY <1>9, Redelivered
<1> HIDE DEF Goal
<1>10. ASSUME NEW c \in Cmd, NEW n \in Name,
              \/ \E sig \in BOOLEAN : AddBegin(c, n, sig)
              \/ DestroyBegin(c, n)
              \/ \E key \in {"sync", "attr"}, val \in BOOLEAN : UpdateBegin(c, n, key, val)
       PROVE  Goal
  BY <1>2, <1>10 DEF AddBegin, DestroyBegin, UpdateBegin, broker
<1>11. ASSUME NEW c \in Cmd, CmdStep(c) \/ CmdFails(c) PROVE Goal
  BY <1>2, <1>4, <1>11 DEF CmdStep, AddFilterRow, AttachFilter, DeleteRow, UpdateWrite, UpdateRead, UpdateLook, UpdateStore, CmdFails, broker
<1>12. ASSUME NEW t \in Thread, Deliver(t) \/ Acquire(t) \/ HandlerStep(t) \/ ListFails(t) \/ CallFails(t) \/ DbFails(t)
       PROVE  Goal
  BY <1>2, <1>5, <1>6, <1>12 DEF HandlerStep, IgnoreMsg, Acquire, CheckRow, CheckExists, Create, StoreId, Edit, DeleteRole, ListFails, CallFails, DbFails, broker
<1>13. ASSUME PollGuild \/ PollStep \/ PollFails PROVE Goal
  BY <1>2, <1>7, <1>13 DEF PollGuild, PollStep, PollRows, PollFix, PollDiff, PollFails, broker
<1>14. ASSUME (\E i \in Id : ManualDelete(i)) \/ (\E n \in Name \ Ignored : ManualCreate(n)) PROVE Goal
  BY <1>2, <1>14 DEF ManualDelete, ManualCreate, broker
<1>15. ASSUME UNCHANGED vars PROVE Goal
  BY <1>2, <1>15 DEF vars, broker
<1> QED
  <2>1. Goal
    BY <1>8, <1>9, <1>10, <1>11, <1>12, <1>13, <1>14, <1>15 DEF Next
  <2> QED
    BY <2>1 DEF Goal

\* A handler that is done with its message keeps types and shape.
LEMMA ThrRests ==
  ASSUME TypeOK, Shape, NEW t \in Thread, thr' = [thr EXCEPT ![t] = NoMsg]
  PROVE  thr' \in [Thread -> ThrState] /\ Shape'
<1>1. NoMsg \in ThrState /\ ThrShape(NoMsg)
  BY DEF NoMsg, ThrState, ThrShape, Upserting
<1> QED
  BY <1>1, ThrIsSet

\* A command of roles.Update at each of its steps.
LEMMA UpdateOfAKind ==
  ASSUME NEW k \in CmdState
  PROVE  /\ k.pc \in {"write", "read"} =>
              k \in [pc : {"write", "read"}, n : Name, on : BOOLEAN, key : {"sync", "attr"}, val : BOOLEAN]
         /\ k.pc = "look" => k \in [pc : {"look"}, n : Name, on : BOOLEAN, attr : BOOLEAN]
         /\ k.pc = "store" =>
              k \in [pc : {"store"}, n : Name, on : BOOLEAN, attr : BOOLEAN, seen : Id, differ : BOOLEAN]
BY DEF CmdState, NoCmd

\* A snapshot with the id of one name put right is a snapshot.
LEMMA IdPutRight ==
  ASSUME NEW D, NEW d \in [D -> [id : RowId, attr : BOOLEAN]], NEW n \in D, NEW i \in RowId
  PROVE  [d EXCEPT ![n].id = i] \in [D -> [id : RowId, attr : BOOLEAN]]
<1> DEFINE r == [d[n] EXCEPT !.id = i]
<1>1. r \in [id : RowId, attr : BOOLEAN]
  OBVIOUS
<1>2. [d EXCEPT ![n].id = i] = [d EXCEPT ![n] = r]
  OBVIOUS
<1> HIDE DEF r
<1> QED
  BY <1>1, <1>2

\* Every command, handler, round and failure keeps the types and the shape of the
\* handlers: one step for each action.
LEMMA TypeStep ==
  ASSUME TypeOK, Shape, FilterThere, [Next]_vars
  PROVE  TypeOK' /\ Shape'
<1> DEFINE Goal == TypeOK' /\ Shape'
<1> USE ConstantsAssumption DEF TypeOK
<1>q. queue' \in Seq(Msg)
  BY MessagesOnlyMove
<1>1. ASSUME NEW c \in Cmd, NEW n \in Name, NEW sig \in BOOLEAN, AddBegin(c, n, sig) PROVE Goal
  BY <1>1, <1>q DEF AddBegin, Shape, CmdState, NoCmd, Upsert, Delete, Msg, RowId, roles, links, broker, process, bounds
<1>2. ASSUME NEW c \in Cmd, NEW n \in Name, DestroyBegin(c, n) PROVE Goal
  BY <1>2, <1>q DEF DestroyBegin, Shape, CmdState, NoCmd, Upsert, Delete, Msg, RowId, roles, links, broker, process, bounds
<1>3. ASSUME NEW c \in Cmd, NEW n \in Name, NEW key \in {"sync", "attr"}, NEW val \in BOOLEAN, UpdateBegin(c, n, key, val) PROVE Goal
  BY <1>3, <1>q DEF UpdateBegin, Shape, CmdState, NoCmd, Upsert, Delete, Msg, RowId, roles, links, broker, process, bounds
<1>4. ASSUME NEW c \in Cmd, AddFilterRow(c) PROVE Goal
  <2>1. cmd[c] = [pc |-> "filter", n |-> cmd[c].n, row |-> cmd[c].row] /\ cmd[c].n \in Name /\ cmd[c].row \in Nat
    BY <1>4, CmdOfAKind DEF AddFilterRow
  <2>2. [cmd[c] EXCEPT !.pc = "attach"] \in CmdState /\ NoCmd \in CmdState
    BY <2>1 DEF CmdState
  <2>3. cmd' \in [Cmd -> CmdState]
    BY <1>4, <2>2 DEF AddFilterRow
  <2>4. filters' \subseteq Name /\ filters \subseteq filters'
    BY <1>4, <2>1 DEF AddFilterRow
  <2> QED
    BY <1>4, <1>q, <2>3, <2>4 DEF AddFilterRow, Shape, roles, links, broker, process, bounds
<1>5. ASSUME NEW c \in Cmd, AttachFilter(c) PROVE Goal
  <2>1. cmd[c].n \in Name /\ cmd[c].n \in filters
    BY <1>5, CmdOfAKind DEF AttachFilter, FilterThere
  <2>2. NoCmd \in CmdState /\ [pc |-> "publish", m |-> [act |-> "upsert", n |-> cmd[c].n, id |-> Blank, attr |-> FALSE]] \in CmdState
    BY <2>1 DEF CmdState, NoCmd, Msg, Upsert
  <2>3. cmd' \in [Cmd -> CmdState]
    BY <1>5, <2>2 DEF AttachFilter
  <2>4. rows' = rows /\ filters' = filters /\ attached' \subseteq attached \cup {cmd[c].n} /\ attached' \subseteq attached \cup rows
    BY <1>5 DEF AttachFilter, roles
  <2>5. attached' \subseteq filters'
    BY <2>1, <2>4
  <2>6. attached' \subseteq rows'
    BY <2>4
  <2> QED
    BY <1>5, <1>q, <2>3, <2>4, <2>5, <2>6 DEF AttachFilter, Shape, roles, broker, process, bounds
<1>6. ASSUME NEW c \in Cmd, CmdPublish(c) PROVE Goal
  BY <1>6, <1>q DEF CmdPublish, Shape, CmdState, NoCmd, Upsert, Delete, Msg, RowId, roles, links, broker, process, bounds
<1>7. ASSUME NEW c \in Cmd, DeleteRow(c) PROVE Goal
  <2>1. cmd[c].n \in Name /\ cmd[c].id \in RowId
    BY <1>7, CmdOfAKind DEF DeleteRow
  <2>2. [pc |-> "publish", m |-> [act |-> "delete", id |-> cmd[c].id]] \in CmdState
    BY <2>1 DEF CmdState, Msg, Delete
  <2>3. cmd' \in [Cmd -> CmdState]
    BY <1>7, <2>2 DEF DeleteRow
  <2>4. chatId' \in [Name -> RowId] /\ attr' \in [Name -> BOOLEAN]
    BY <1>7, <2>1 DEF DeleteRow, RowId
  <2>5. /\ rows' \subseteq Name /\ synced' \subseteq rows'
        /\ attached' \subseteq rows' /\ attached' \subseteq filters
    BY <1>7 DEF DeleteRow
  <2> QED
    BY <1>7, <1>q, <2>3, <2>4, <2>5 DEF DeleteRow, Shape, broker, bounds
<1>8. ASSUME NEW c \in Cmd, UpdateWrite(c) PROVE Goal
  <2>1. cmd[c] \in [pc : {"write", "read"}, n : Name, on : BOOLEAN, key : {"sync", "attr"}, val : BOOLEAN]
    BY <1>8, UpdateOfAKind DEF UpdateWrite
  <2>2. cmd' \in [Cmd -> CmdState]
    BY <1>8, <2>1 DEF UpdateWrite, CmdState
  <2>3. synced' \subseteq rows' /\ attr' \in [Name -> BOOLEAN]
    BY <1>8, <2>1 DEF UpdateWrite
  <2> QED
    BY <1>8, <1>q, <2>2, <2>3 DEF UpdateWrite, Shape, roles, links, broker, process, bounds
<1>9. ASSUME NEW c \in Cmd, UpdateRead(c) PROVE Goal
  <2>1. cmd[c].n \in Name /\ cmd[c].on \in BOOLEAN
    BY <1>9, UpdateOfAKind DEF UpdateRead
  <2>2. [pc |-> "look", n |-> cmd[c].n, on |-> cmd[c].on, attr |-> attr[cmd[c].n]] \in CmdState /\ NoCmd \in CmdState
    BY <2>1 DEF CmdState
  <2>3. cmd' \in [Cmd -> CmdState]
    BY <1>9, <2>2 DEF UpdateRead
  <2> QED
    BY <1>9, <1>q, <2>3 DEF UpdateRead, Shape, roles, links, broker, process, bounds
<1>10. ASSUME NEW c \in Cmd, UpdateLook(c) PROVE Goal
  <2>1. cmd[c] \in [pc : {"look"}, n : Name, on : BOOLEAN, attr : BOOLEAN]
    BY <1>10, UpdateOfAKind DEF UpdateLook
  <2>2. \A j \in Named(cmd[c].n) : j \in Id /\ guild[j].attr \in BOOLEAN
    BY <2>1 DEF Named, Shown, NoRole
  <2>3. ASSUME NEW j \in Named(cmd[c].n)
        PROVE  [pc |-> "store", n |-> cmd[c].n, on |-> cmd[c].on, attr |-> cmd[c].attr,
                seen |-> j, differ |-> guild[j].attr # cmd[c].attr] \in CmdState
    BY <2>1, <2>2 DEF CmdState
  <2>4. [pc |-> "publish", m |-> BlankUpsert(cmd[c].n, cmd[c].attr)] \in CmdState
    BY <2>1 DEF CmdState, BlankUpsert, Msg, Upsert
  <2>5. cmd' \in [Cmd -> CmdState]
    <3>1. \E k \in CmdState : cmd' = [cmd EXCEPT ![c] = k]
      BY <1>10, <2>3, <2>4 DEF UpdateLook
    <3>2. cmd \in [Cmd -> CmdState]
      OBVIOUS
    <3> QED
      BY <3>1, <3>2
  <2> QED
    BY <1>10, <1>q, <2>5 DEF UpdateLook, Shape, roles, links, broker, process, bounds
<1>11. ASSUME NEW c \in Cmd, UpdateStore(c) PROVE Goal
  <2>1. cmd[c] \in [pc : {"store"}, n : Name, on : BOOLEAN, attr : BOOLEAN, seen : Id, differ : BOOLEAN]
    BY <1>11, UpdateOfAKind DEF UpdateStore
  <2>2. [pc |-> "publish", m |-> BlankUpsert(cmd[c].n, cmd[c].attr)] \in CmdState
    BY <2>1 DEF CmdState, BlankUpsert, Msg, Upsert
  <2>3. cmd' \in [Cmd -> CmdState]
    BY <1>11, <2>2 DEF UpdateStore, CmdState
  <2>4. chatId' \in [Name -> RowId]
    BY <1>11, <2>1 DEF UpdateStore, RowId
  <2> QED
    BY <1>11, <1>q, <2>3, <2>4 DEF UpdateStore, Shape, roles, links, broker, process, bounds
<1>12. ASSUME NEW c \in Cmd, CmdFails(c) PROVE Goal
  BY <1>12, <1>q DEF CmdFails, Shape, CmdState, NoCmd, Upsert, Delete, Msg, RowId, Fault, roles, links, broker, process, bounds
<1>13. ASSUME NEW t \in Thread, Deliver(t) PROVE Goal
  <2>1. Head(queue) \in Msg
    BY <1>13 DEF Deliver
  <2> DEFINE h == [pc |-> "wait", m |-> Head(queue), id |-> Head(queue).id]
  <2>2. h \in ThrState /\ ThrShape(h)
    BY <2>1 DEF ThrState, ThrShape, Upserting, Msg, Upsert, Delete, RowId
  <2>3. thr' = [thr EXCEPT ![t] = h]
    BY <1>13 DEF Deliver
  <2>4. thr' \in [Thread -> ThrState] /\ Shape'
    BY <2>2, <2>3, ThrIsSet
  <2> QED
    BY <1>13, <1>q, <2>4 DEF Deliver, roles, links, broker, process, bounds
<1>14. ASSUME NEW t \in Thread, IgnoreMsg(t) PROVE Goal
  <2>1. thr' \in [Thread -> ThrState] /\ Shape'
    BY <1>14, ThrRests DEF IgnoreMsg
  <2> QED
    BY <1>14, <1>q, <2>1 DEF IgnoreMsg, roles, links, broker, process, bounds
<1>15. ASSUME NEW t \in Thread, Acquire(t) PROVE Goal
  <2>1. thr' \in [Thread -> ThrState] /\ Shape'
    <3>1. thr[t] \in Working /\ ThrShape(thr[t])
      BY <1>15, ThrWorks DEF Acquire, Shape
    <3> QED
      BY <1>15, <3>1, ThrGoes, MsgIsOfAKind DEF Acquire, ThrShape, Working, Upserting, Return, GoOn
  <2> QED
    BY <1>15, <1>q, <2>1 DEF Acquire, roles, links, broker, process, bounds, Return, GoOn
<1>16. ASSUME NEW t \in Thread, CheckRow(t) PROVE Goal
  <2>1. thr' \in [Thread -> ThrState] /\ Shape'
    <3>1. thr[t] \in Working /\ ThrShape(thr[t])
      BY <1>16, ThrWorks DEF CheckRow, Shape
    <3> QED
      BY <1>16, <3>1, ThrGoes, MsgIsOfAKind DEF CheckRow, ThrShape, Working, Upserting, Return, GoOn
  <2> QED
    BY <1>16, <1>q, <2>1 DEF CheckRow, roles, links, broker, process, bounds, Return, GoOn
<1>17. ASSUME NEW t \in Thread, CheckExists(t) PROVE Goal
  <2>1. thr' \in [Thread -> ThrState] /\ Shape'
    <3>1. thr[t] \in Working /\ ThrShape(thr[t])
      BY <1>17, ThrWorks DEF CheckExists, Shape
    <3> QED
      BY <1>17, <3>1, ThrGoes, MsgIsOfAKind DEF CheckExists, ThrShape, Working, Upserting, Return, GoOn
  <2> QED
    BY <1>17, <1>q, <2>1 DEF CheckExists, roles, links, broker, process, bounds, Return, GoOn
<1>18. ASSUME NEW t \in Thread, Create(t) PROVE Goal
  <2> DEFINE j == Min(Id \ InUse)
             h == [thr[t] EXCEPT !.pc = "store", !.id = j]
  <2>1. j \in Id
    BY <1>18, NewId DEF Create
  <2>2. thr[t] \in Working /\ ThrShape(thr[t])
    BY <1>18, ThrWorks DEF Create, Shape
  <2>3. thr' = [thr EXCEPT ![t] = h] /\ guild' = [guild EXCEPT ![j] = [n |-> Fresh, attr |-> FALSE]]
    BY <1>18 DEF Create
  <2> HIDE DEF j
  <2>4. h \in Working /\ h.pc = "store" /\ h.m = thr[t].m /\ h.id = j
    BY <2>1, <2>2 DEF Working, RowId
  <2>5. h \in ThrState /\ ThrShape(h)
    <3>1. thr[t].m.act = "upsert" /\ thr[t].m.n \notin Ignored
      BY <1>18, <2>2 DEF Create, ThrShape, Upserting
    <3> HIDE DEF h
    <3> QED
      BY <2>1, <2>4, <3>1 DEF Working, ThrState, ThrShape
  <2> HIDE DEF h
  <2>6. thr' \in [Thread -> ThrState] /\ Shape'
    BY <2>3, <2>5, ThrIsSet
  <2>7. guild' \in [Id -> Shown \cup {NoRole}]
    BY <2>1, <2>3 DEF Shown
  <2> QED
    BY <1>18, <1>q, <2>6, <2>7 DEF Create, roles, links, broker, process, bounds
<1>19. ASSUME NEW t \in Thread, StoreId(t) PROVE Goal
  <2>1. thr[t] \in Working /\ ThrShape(thr[t])
    BY <1>19, ThrWorks DEF StoreId, Shape
  <2>2. thr[t].m.act = "upsert" /\ thr[t].m.n \notin Ignored /\ thr[t].id \in Id
    BY <1>19, <2>1 DEF StoreId, ThrShape, Upserting
  <2>3. thr' \in [Thread -> ThrState] /\ Shape'
    BY <1>19, <2>2, ThrGoes DEF StoreId, GoOn
  <2>4. chatId' \in [Name -> RowId]
    BY <1>19, <2>2 DEF StoreId, RowId
  <2> QED
    BY <1>19, <1>q, <2>3, <2>4 DEF StoreId, GoOn, roles, links, broker, process, bounds
<1>20. ASSUME NEW t \in Thread, Edit(t) PROVE Goal
  <2>1. thr[t] \in Working /\ ThrShape(thr[t])
    BY <1>20, ThrWorks DEF Edit, Shape
  <2>2. thr[t].m.n \in Name /\ thr[t].m.attr \in BOOLEAN
    BY <1>20, <2>1, MsgIsOfAKind DEF Edit, ThrShape, Upserting, Working
  <2>3. thr' \in [Thread -> ThrState] /\ Shape'
    BY <1>20, ThrGoes DEF Edit, Return, Upserting
  <2>4. guild' \in [Id -> Shown \cup {NoRole}]
    BY <1>20, <2>2 DEF Edit, Shown
  <2> QED
    BY <1>20, <1>q, <2>3, <2>4 DEF Edit, Return, roles, links, broker, process, bounds
<1>21. ASSUME NEW t \in Thread, DeleteRole(t) PROVE Goal
  <2>1. thr' \in [Thread -> ThrState] /\ Shape'
    BY <1>21, ThrGoes DEF DeleteRole, Return, Upserting
  <2>2. guild' \in [Id -> Shown \cup {NoRole}]
    BY <1>21 DEF DeleteRole
  <2> QED
    BY <1>21, <1>q, <2>1, <2>2 DEF DeleteRole, Return, roles, links, broker, process, bounds
<1>22. ASSUME NEW t \in Thread, Finish(t) PROVE Goal
  <2>1. thr' \in [Thread -> ThrState] /\ Shape'
    BY <1>22, ThrRests DEF Finish
  <2> QED
    BY <1>22, <1>q, <2>1 DEF Finish, roles, links, broker, process, bounds
<1>23. ASSUME NEW t \in Thread, ListFails(t) PROVE Goal
  <2>1. thr' \in [Thread -> ThrState] /\ Shape'
    <3>1. thr[t] \in Working /\ ThrShape(thr[t])
      BY <1>23, ThrWorks DEF ListFails, Shape
    <3> QED
      BY <1>23, <3>1, ThrGoes, MsgIsOfAKind DEF ListFails, ThrShape, Working, Upserting, Return, GoOn
  <2> QED
    BY <1>23, <1>q, <2>1 DEF ListFails, roles, links, broker, process, bounds, Fault, Return, GoOn
<1>24. ASSUME NEW t \in Thread, CallFails(t) PROVE Goal
  <2>1. thr' \in [Thread -> ThrState] /\ Shape'
    <3>1. thr[t] \in Working /\ ThrShape(thr[t])
      BY <1>24, ThrWorks DEF CallFails, Shape
    <3> QED
      BY <1>24, <3>1, ThrGoes, MsgIsOfAKind DEF CallFails, ThrShape, Working, Upserting, Return, GoOn
  <2> QED
    BY <1>24, <1>q, <2>1 DEF CallFails, roles, links, broker, process, bounds, Fault, Return, GoOn
<1>25. ASSUME NEW t \in Thread, DbFails(t) PROVE Goal
  <2>1. thr' \in [Thread -> ThrState] /\ Shape'
    <3>1. thr[t] \in Working /\ ThrShape(thr[t])
      BY <1>25, ThrWorks DEF DbFails, Shape
    <3> QED
      BY <1>25, <3>1, ThrGoes, MsgIsOfAKind DEF DbFails, ThrShape, Working, Upserting, Return, GoOn
  <2> QED
    BY <1>25, <1>q, <2>1 DEF DbFails, roles, links, broker, process, bounds, Fault, Return, GoOn
<1>26. ASSUME PollGuild PROVE Goal
  <2>1. PICK pick \in [SeenNames -> Id] :
          /\ \A n \in SeenNames : pick[n] \in Named(n)
          /\ poll' = [pc |-> "rows",
                      seen |-> [n \in SeenNames |-> [id |-> pick[n], attr |-> guild[pick[n]].attr]]]
    BY <1>26 DEF PollGuild
  <2>2. SeenNames \subseteq Name \cup {Fresh}
    BY DEF SeenNames, Shown, NoRole
  <2>3. \A n \in SeenNames : pick[n] \in RowId /\ guild[pick[n]].attr \in BOOLEAN
    <3> TAKE n \in SeenNames
    <3>1. pick[n] \in Id /\ guild[pick[n]].n = n /\ n # "none"
      BY <2>1, <2>2 DEF Named
    <3>2. guild[pick[n]] \in Shown
      <4>1. guild[pick[n]] \in Shown \cup {NoRole}
        BY <3>1
      <4>2. NoRole.n = "none"
        BY DEF NoRole
      <4> QED
        BY <3>1, <4>1, <4>2
    <3> QED
      BY <3>1, <3>2 DEF Shown, RowId
  <2>4. poll'.seen \in [SeenNames -> [id : RowId, attr : BOOLEAN]]
    BY <2>1, <2>3
  <2>5. poll'.seen \in Snapshot(Name \cup {Fresh})
    BY <2>2, <2>4 DEF Snapshot
  <2>6. poll' \in PollState
    BY <2>1, <2>5 DEF PollState
  <2>7. faults' \in 0..MaxFaults
    BY <1>26 DEF PollGuild, Fault
  <2> QED
    BY <1>26, <1>q, <2>6, <2>7 DEF PollGuild, Shape, roles, links, broker, process, bounds
<1>27. ASSUME PollRows PROVE Goal
  BY <1>27, <1>q DEF PollRows, Shape, PollState, NoPoll, Snapshot, Upsert, Delete, Msg, RowId, roles, links, broker, process, bounds
<1>28. ASSUME NEW n \in Name, PollFix(n) PROVE Goal
  <2>1. poll \in [pc : {"fix"}, seen : Snapshot(Name \cup {Fresh}), db : Snapshot(Name)]
    BY <1>28 DEF PollFix, PollState, NoPoll
  <2>2. PICK S \in SUBSET (Name \cup {Fresh}), D \in SUBSET Name :
          poll.seen \in [S -> [id : RowId, attr : BOOLEAN]] /\ poll.db \in [D -> [id : RowId, attr : BOOLEAN]]
    BY <2>1 DEF Snapshot
  <2>3. n \in S /\ n \in D /\ poll.seen[n].id \in RowId
    BY <1>28, <2>2 DEF PollFix, Wrong
  <2> DEFINE i == poll.seen[n].id
             d == [poll.db EXCEPT ![n].id = i]
  <2>4. d \in [D -> [id : RowId, attr : BOOLEAN]]
    <3>1. poll.db \in [D -> [id : RowId, attr : BOOLEAN]] /\ n \in D /\ i \in RowId
      BY <2>2, <2>3
    <3> HIDE DEF i, TypeOK
    <3> QED
      BY <3>1, IdPutRight
  <2>6. poll' = [poll EXCEPT !.db = d]
    BY <1>28 DEF PollFix
  <2> HIDE DEF d
  <2>5. d \in Snapshot(Name)
    BY <2>2, <2>4 DEF Snapshot
  <2>7. poll' \in PollState
    BY <2>1, <2>5, <2>6 DEF PollState
  <2>8. chatId' \in [Name -> RowId]
    BY <1>28, <2>3 DEF PollFix
  <2> QED
    BY <1>28, <1>q, <2>7, <2>8 DEF PollFix, Shape, roles, links, broker, process, bounds
<1>29. ASSUME PollDiff PROVE Goal
  <2>1. poll \in [pc : {"fix"}, seen : Snapshot(Name \cup {Fresh}), db : Snapshot(Name)]
    BY <1>29 DEF PollDiff, PollState, NoPoll
  <2>2. PICK S \in SUBSET (Name \cup {Fresh}), D \in SUBSET Name :
          poll.seen \in [S -> [id : RowId, attr : BOOLEAN]] /\ poll.db \in [D -> [id : RowId, attr : BOOLEAN]]
    BY <2>1 DEF Snapshot
  <2>3. Deletions \subseteq Msg
    BY <2>2 DEF Deletions, Msg, Delete
  <2>4. \A n \in D : UpsertOf(n) \in Msg
    BY <2>2 DEF UpsertOf, Msg, Upsert
  <2>5. Additions \cup Updates \subseteq Msg
    BY <2>2, <2>4 DEF Additions, Updates
  <2>6. poll' \in PollState
    BY <1>29, <2>3, <2>5 DEF PollDiff, PollState, NoPoll
  <2> QED
    BY <1>29, <1>q, <2>6 DEF PollDiff, Shape, roles, links, broker, process, bounds
<1>30. ASSUME PollPublish PROVE Goal
  <2>1. poll \in [pc : {"publish"}, todo : SUBSET Msg]
    BY <1>30 DEF PollPublish, PollState, NoPoll
  <2>2. poll' \in PollState
    BY <1>30, <2>1 DEF PollPublish, PollState
  <2> QED
    BY <1>30, <1>q, <2>2 DEF PollPublish, Shape, roles, links, broker, process, bounds
<1>31. ASSUME PollFails PROVE Goal
  BY <1>31, <1>q DEF PollFails, Shape, PollState, NoPoll, Snapshot, Upsert, Delete, Msg, RowId, Fault, roles, links, broker, process, bounds
<1>32. ASSUME Crash PROVE Goal
  <2>1. thr' \in [Thread -> ThrState] /\ Shape'
    BY <1>32 DEF Crash, NoMsg, ThrState, Shape, ThrShape, Upserting
  <2>2. cmd' \in [Cmd -> CmdState] /\ poll' \in PollState
    BY <1>32 DEF Crash, NoCmd, CmdState, NoPoll, PollState
  <2>3. connected' \in BOOLEAN /\ lock' \in Thread \cup {Free} /\ faults' \in 0..MaxFaults
    <3>1. connected' = TRUE /\ lock' = Free
      BY <1>32, Zenon DEF Crash
    <3>2. faults < MaxFaults /\ faults' = faults + 1
      BY <1>32, Zenon DEF Crash, Fault
    <3> QED
      BY <3>1, <3>2
  <2>4. UNCHANGED <<roles, links, guild, cmds>>
    BY <1>32 DEF Crash
  <2> QED
    BY <1>q, <2>1, <2>2, <2>3, <2>4 DEF roles, links
<1>33. ASSUME BrokerRestart PROVE Goal
  <2>1. connected' \in BOOLEAN
    BY <1>33, Zenon DEF BrokerRestart
  <2>3. faults < MaxFaults /\ faults' = faults + 1
    BY <1>33, Zenon DEF BrokerRestart, Fault
  <2>2. UNCHANGED <<roles, links, guild, process, cmds>>
    BY <1>33 DEF BrokerRestart
  <2> QED
    BY <1>q, <2>1, <2>2, <2>3 DEF Shape, roles, links, process
<1>34. ASSUME NEW i \in Id, ManualDelete(i) PROVE Goal
  BY <1>34, <1>q DEF ManualDelete, Shape, Fault, Shown, NoRole, roles, links, broker, process, bounds
<1>35. ASSUME NEW n \in Name, ManualCreate(n) PROVE Goal
  <2>1. Min(Id \ InUse) \in Id
    BY <1>35, NewId DEF ManualCreate
  <2>2. guild' \in [Id -> Shown \cup {NoRole}] /\ faults' \in 0..MaxFaults
    BY <1>35, <2>1 DEF ManualCreate, Fault, Shown
  <2> QED
    BY <1>35, <1>q, <2>2 DEF ManualCreate, Shape, roles, links, broker, process, bounds
<1>36. ASSUME UNCHANGED vars PROVE Goal
  BY <1>36, <1>q DEF vars, Shape, roles, links, broker, process, bounds
<1> HIDE DEF Goal
<1>x. Goal
  BY <1>1, <1>2, <1>3, <1>4, <1>5, <1>6, <1>7, <1>8, <1>9, <1>10, <1>11, <1>12, <1>13, <1>14, <1>15, <1>16, <1>17, <1>18, <1>19, <1>20, <1>21, <1>22, <1>23, <1>24, <1>25, <1>26, <1>27, <1>28, <1>29, <1>30, <1>31, <1>32, <1>33, <1>34, <1>35, <1>36 DEF Next, CmdStep, HandlerStep, PollStep
<1> QED
  BY <1>x DEF Goal

-----------------------------------------------------------------------------
(* The lock                                                                *)

\* Whoever is between Session.Lock() and the return of upsert or delete, and
\* nobody else, has the lock.
Locking == {"row", "exists", "create", "store", "edit", "delete"}
LockHeld == \A t \in Thread : thr[t].pc \in Locking <=> lock = t

\* Every step keeps it, crashes included.
LEMMA LockStep ==
  ASSUME TypeOK, LockHeld, [Next]_vars
  PROVE  LockHeld'
<1> DEFINE Goal == LockHeld'
<1>0. Free \notin Thread /\ thr \in [Thread -> ThrState]
  BY ConstantsAssumption DEF TypeOK
<1>1. ASSUME NEW t \in Thread, thr[t].pc # "idle", NEW p, thr' = [thr EXCEPT ![t].pc = p],
             \/ p \in Locking /\ thr[t].pc \in Locking /\ lock' = lock
             \/ p \notin Locking /\ thr[t].pc \in Locking /\ lock' = Free
             \/ p \in Locking /\ lock = Free /\ lock' = t
      PROVE  Goal
  <2>1. thr'[t].pc = p /\ \A u \in Thread \ {t} : thr'[u] = thr[u]
    BY <1>0, <1>1, ThrWorks DEF Working
  <2>2. \A u \in Thread \ {t} : thr'[u].pc \in Locking <=> lock' = u
    BY <1>0, <1>1, <2>1 DEF LockHeld
  <2>3. thr'[t].pc \in Locking <=> lock' = t
    BY <1>0, <1>1, <2>1 DEF LockHeld
  <2> QED
    BY <2>2, <2>3 DEF LockHeld
<1>2. ASSUME UNCHANGED <<thr, lock>> PROVE Goal
  BY <1>2 DEF LockHeld
<1>3. ASSUME NEW t \in Thread, NEW h, h.pc \notin Locking, thr[t].pc \notin Locking,
             thr' = [thr EXCEPT ![t] = h], lock' = lock
      PROVE  Goal
  BY <1>0, <1>3 DEF LockHeld
<1>4. ASSUME NEW t \in Thread, Deliver(t) PROVE Goal
  <2> DEFINE h == [pc |-> "wait", m |-> Head(queue), id |-> Head(queue).id]
  <2>1. thr' = [thr EXCEPT ![t] = h] /\ lock' = lock /\ thr[t].pc = "idle" /\ h.pc = "wait"
    BY <1>4 DEF Deliver, NoMsg
  <2> QED
    BY <1>3, <2>1 DEF Locking
<1>5. ASSUME NEW t \in Thread, IgnoreMsg(t) \/ Finish(t) PROVE Goal
  BY <1>3, <1>5 DEF IgnoreMsg, Finish, NoMsg, Locking
<1>6. ASSUME NEW t \in Thread, Acquire(t) PROVE Goal
  BY <1>1, <1>6 DEF Acquire, Locking
<1>7. ASSUME NEW t \in Thread, CheckRow(t) \/ CheckExists(t) \/ StoreId(t) \/ DeleteRole(t) PROVE Goal
  BY <1>1, <1>7 DEF CheckRow, CheckExists, StoreId, DeleteRole, Return, GoOn, Locking
<1>8. ASSUME NEW t \in Thread, Edit(t) PROVE Goal
  <2>1. \E p \in {"ack", "requeue"} : thr' = [thr EXCEPT ![t].pc = p] /\ lock' = Free
    BY <1>8 DEF Edit, Return
  <2>2. thr[t].pc = "edit"
    BY <1>8 DEF Edit
  <2> QED
    BY <1>1, <2>1, <2>2 DEF Locking
<1>9. ASSUME NEW t \in Thread, ListFails(t) \/ CallFails(t) \/ DbFails(t) PROVE Goal
  BY <1>1, <1>9 DEF ListFails, CallFails, DbFails, Return, GoOn, Locking
<1>10. ASSUME NEW t \in Thread, Create(t) PROVE Goal
  <2> DEFINE h == [thr[t] EXCEPT !.pc = "store", !.id = Min(Id \ InUse)]
  <2>1. thr' = [thr EXCEPT ![t] = h] /\ lock' = lock /\ thr[t].pc = "create"
    BY <1>10 DEF Create
  <2>2. h.pc = "store"
    BY <2>1, ThrWorks DEF Working
  <2> HIDE DEF h
  <2> QED
    BY <1>0, <2>1, <2>2 DEF LockHeld, Locking
<1>11. ASSUME Crash PROVE Goal
  BY <1>0, <1>11 DEF Crash, LockHeld, NoMsg, Locking
<1>12. ASSUME NEW c \in Cmd, NEW n \in Name,
              \/ \E sig \in BOOLEAN : AddBegin(c, n, sig)
              \/ DestroyBegin(c, n)
              \/ \E key \in {"sync", "attr"}, val \in BOOLEAN : UpdateBegin(c, n, key, val)
       PROVE  Goal
  BY <1>2, <1>12 DEF AddBegin, DestroyBegin, UpdateBegin
<1>13. ASSUME NEW c \in Cmd, CmdStep(c) \/ CmdFails(c) PROVE Goal
  BY <1>2, <1>13 DEF CmdStep, AddFilterRow, AttachFilter, CmdPublish, DeleteRow, UpdateWrite, UpdateRead, UpdateLook, UpdateStore, CmdFails
<1>14. ASSUME PollGuild \/ PollStep \/ PollFails \/ BrokerRestart PROVE Goal
  BY <1>2, <1>14 DEF PollGuild, PollStep, PollRows, PollFix, PollDiff, PollPublish, PollFails, BrokerRestart, process
<1>15. ASSUME (\E i \in Id : ManualDelete(i)) \/ (\E n \in Name \ Ignored : ManualCreate(n)) PROVE Goal
  BY <1>2, <1>15 DEF ManualDelete, ManualCreate, process
<1>16. ASSUME UNCHANGED vars PROVE Goal
  BY <1>2, <1>16 DEF vars, process
<1> HIDE DEF Goal
<1>17. Goal
  BY <1>4, <1>5, <1>6, <1>7, <1>8, <1>9, <1>10, <1>11, <1>12, <1>13, <1>14, <1>15, <1>16 DEF Next, HandlerStep
<1> QED
  BY <1>17 DEF Goal

-----------------------------------------------------------------------------
(* What one step does to each place that holds an id                       *)

\* A command is issued.
CmdBegins(c, n) ==
  \/ \E sig \in BOOLEAN : AddBegin(c, n, sig)
  \/ DestroyBegin(c, n)
  \/ \E key \in {"sync", "attr"}, val \in BOOLEAN : UpdateBegin(c, n, key, val)

\* Every step: an id in the table is the old one, none (a row that is new or
\* gone), that of a role a command or a round has seen under that name, or that of
\* a role just created for it.
LEMMA StoredIds ==
  ASSUME TypeOK, [Next]_vars, NEW n \in Name
  PROVE  \/ chatId'[n] \in {chatId[n], Zero}
         \/ \E c \in Cmd : cmd[c].pc = "store" /\ cmd[c].n = n /\ chatId'[n] = cmd[c].seen
         \/ \E t \in Thread : thr[t].pc = "store" /\ thr[t].m.n = n /\ chatId'[n] = thr[t].id
         \/ poll.pc = "fix" /\ n \in DOMAIN poll.seen /\ chatId'[n] = poll.seen[n].id
<1> DEFINE Goal ==
         \/ chatId'[n] \in {chatId[n], Zero}
         \/ \E c \in Cmd : cmd[c].pc = "store" /\ cmd[c].n = n /\ chatId'[n] = cmd[c].seen
         \/ \E t \in Thread : thr[t].pc = "store" /\ thr[t].m.n = n /\ chatId'[n] = thr[t].id
         \/ poll.pc = "fix" /\ n \in DOMAIN poll.seen /\ chatId'[n] = poll.seen[n].id
<1>0. chatId \in [Name -> RowId]
  BY DEF TypeOK
<1>1. ASSUME UNCHANGED chatId PROVE Goal
  BY <1>1
<1>2. ASSUME NEW c \in Cmd, NEW k \in Name, CmdBegins(c, k) PROVE Goal
  BY <1>0, <1>2 DEF CmdBegins, AddBegin, DestroyBegin, UpdateBegin, roles
<1>3. ASSUME NEW c \in Cmd, CmdStep(c) \/ CmdFails(c) PROVE Goal
  BY <1>0, <1>3 DEF CmdStep, AddFilterRow, AttachFilter, CmdPublish, DeleteRow, UpdateWrite, UpdateRead, UpdateLook, UpdateStore, CmdFails, roles
<1>4. ASSUME NEW t \in Thread, StoreId(t) PROVE Goal
  BY <1>0, <1>4 DEF StoreId
<1>5. ASSUME NEW t \in Thread, Deliver(t) \/ Acquire(t) \/ HandlerStep(t) \/ ListFails(t) \/ CallFails(t) \/ DbFails(t)
      PROVE  Goal
  BY <1>1, <1>4, <1>5 DEF HandlerStep, Deliver, Acquire, IgnoreMsg, CheckRow, CheckExists, Create, Edit, DeleteRole, Finish, ListFails, CallFails, DbFails, roles
<1>6. ASSUME NEW k \in Name, PollFix(k) PROVE Goal
  BY <1>0, <1>6 DEF PollFix, Wrong
<1>7. ASSUME PollGuild \/ PollStep \/ PollFails PROVE Goal
  BY <1>1, <1>6, <1>7 DEF PollGuild, PollStep, PollRows, PollDiff, PollPublish, PollFails, roles
<1>8. ASSUME Crash \/ BrokerRestart PROVE Goal
  <2>1. chatId' = chatId
    BY <1>8, Zenon DEF Crash, BrokerRestart, roles
  <2> QED
    BY <1>1, <2>1
<1>9. ASSUME (\E i \in Id : ManualDelete(i)) \/ (\E k \in Name \ Ignored : ManualCreate(k)) PROVE Goal
  BY <1>1, <1>9 DEF ManualDelete, ManualCreate, roles
<1>10. ASSUME UNCHANGED vars PROVE Goal
  BY <1>1, <1>10 DEF vars, roles
<1> HIDE DEF Goal
<1>11. Goal
  BY <1>2, <1>3, <1>5, <1>7, <1>8, <1>9, <1>10 DEF Next, CmdBegins
<1> QED
  BY <1>11 DEF Goal

\* Every step: a handler keeps its message and its id, except that it takes a
\* message from the queue, or has the id of the role it has just created.
LEMMA HandlerMoves ==
  ASSUME TypeOK, Shape, [Next]_vars, NEW t \in Thread, thr'[t].pc # "idle"
  PROVE  \/ thr[t].pc # "idle" /\ thr'[t].m = thr[t].m /\ thr'[t].id = thr[t].id
         \/ thr[t].pc # "idle" /\ thr'[t].m = thr[t].m /\ Create(t) /\ thr'[t].id = Min(Id \ InUse) /\ thr'[t].pc = "store"
         \/ thr'[t].pc = "wait" /\ \E k \in DOMAIN queue : thr'[t].m = queue[k] /\ thr'[t].id = queue[k].id
<1> DEFINE Goal ==
         \/ thr[t].pc # "idle" /\ thr'[t].m = thr[t].m /\ thr'[t].id = thr[t].id
         \/ thr[t].pc # "idle" /\ thr'[t].m = thr[t].m /\ Create(t) /\ thr'[t].id = Min(Id \ InUse) /\ thr'[t].pc = "store"
         \/ thr'[t].pc = "wait" /\ \E k \in DOMAIN queue : thr'[t].m = queue[k] /\ thr'[t].id = queue[k].id
<1>0. thr \in [Thread -> ThrState] /\ queue \in Seq(Msg)
  BY DEF TypeOK
<1>1. ASSUME thr'[t] = thr[t] PROVE Goal
  BY <1>1
<1>2. ASSUME NEW u \in Thread, thr[u].pc # "idle", NEW p, thr' = [thr EXCEPT ![u].pc = p] PROVE Goal
  <2>1. thr[u] \in Working
    BY <1>2, ThrWorks
  <2>2. thr'[t].m = thr[t].m /\ thr'[t].id = thr[t].id /\ (u # t => thr'[t] = thr[t])
    BY <1>0, <1>2, <2>1 DEF Working
  <2> QED
    BY <1>2, <2>2
<1>3. ASSUME NEW u \in Thread, thr' = [thr EXCEPT ![u] = NoMsg] PROVE Goal
  <2>1. u # t
    BY <1>0, <1>3 DEF NoMsg
  <2> QED
    BY <1>0, <1>1, <1>3, <2>1
<1>4. ASSUME NEW u \in Thread, Deliver(u) PROVE Goal
  <2> DEFINE h == [pc |-> "wait", m |-> Head(queue), id |-> Head(queue).id]
  <2>1. thr' = [thr EXCEPT ![u] = h] /\ queue # <<>>
    BY <1>4 DEF Deliver
  <2>2. 1 \in DOMAIN queue /\ Head(queue) = queue[1]
    BY <1>0, <2>1
  <2>3. CASE u = t
    BY <1>0, <2>1, <2>2, <2>3
  <2>4. CASE u # t
    BY <1>0, <1>1, <2>1, <2>4
  <2> QED
    BY <2>3, <2>4
<1>5. ASSUME NEW u \in Thread, Create(u) PROVE Goal
  <2> DEFINE h == [thr[u] EXCEPT !.pc = "store", !.id = Min(Id \ InUse)]
  <2>1. thr' = [thr EXCEPT ![u] = h] /\ thr[u].pc = "create"
    BY <1>5 DEF Create
  <2>2. h.pc = "store" /\ h.m = thr[u].m /\ h.id = Min(Id \ InUse)
    BY <2>1, ThrWorks DEF Working
  <2> HIDE DEF h
  <2>3. CASE u = t
    BY <1>0, <1>5, <2>1, <2>2, <2>3
  <2>4. CASE u # t
    BY <1>0, <1>1, <2>1, <2>4
  <2> QED
    BY <2>3, <2>4
<1>6. ASSUME NEW u \in Thread, Edit(u) PROVE Goal
  <2>1. \E p \in {"ack", "requeue"} : thr' = [thr EXCEPT ![u].pc = p]
    BY <1>6 DEF Edit, Return
  <2>2. thr[u].pc # "idle"
    BY <1>6 DEF Edit
  <2> QED
    BY <1>2, <2>1, <2>2
<1>7. ASSUME NEW u \in Thread, Acquire(u) \/ CheckRow(u) \/ CheckExists(u) \/ StoreId(u) \/ DeleteRole(u) PROVE Goal
  BY <1>2, <1>7 DEF Acquire, CheckRow, CheckExists, StoreId, DeleteRole, Return, GoOn
<1>8. ASSUME NEW u \in Thread, ListFails(u) \/ CallFails(u) \/ DbFails(u) PROVE Goal
  BY <1>2, <1>8 DEF ListFails, CallFails, DbFails, Return, GoOn
<1>9. ASSUME NEW u \in Thread, IgnoreMsg(u) \/ Finish(u) PROVE Goal
  BY <1>3, <1>9 DEF IgnoreMsg, Finish
<1>10. ASSUME Crash PROVE Goal
  BY <1>10 DEF Crash, NoMsg
<1>11. ASSUME UNCHANGED thr PROVE Goal
  BY <1>1, <1>11
<1>12. ASSUME NEW c \in Cmd, NEW n \in Name, CmdBegins(c, n) PROVE Goal
  BY <1>11, <1>12 DEF CmdBegins, AddBegin, DestroyBegin, UpdateBegin
<1>13. ASSUME NEW c \in Cmd, CmdStep(c) \/ CmdFails(c) PROVE Goal
  BY <1>11, <1>13 DEF CmdStep, AddFilterRow, AttachFilter, CmdPublish, DeleteRow, UpdateWrite, UpdateRead, UpdateLook, UpdateStore, CmdFails
<1>14. ASSUME PollGuild \/ PollStep \/ PollFails \/ BrokerRestart PROVE Goal
  BY <1>11, <1>14 DEF PollGuild, PollStep, PollRows, PollFix, PollDiff, PollPublish, PollFails, BrokerRestart, process
<1>15. ASSUME (\E i \in Id : ManualDelete(i)) \/ (\E n \in Name \ Ignored : ManualCreate(n)) PROVE Goal
  BY <1>11, <1>15 DEF ManualDelete, ManualCreate, process
<1>16. ASSUME UNCHANGED vars PROVE Goal
  BY <1>11, <1>16 DEF vars, process
<1> HIDE DEF Goal
<1>17. Goal
  BY <1>4, <1>5, <1>6, <1>7, <1>8, <1>9, <1>10, <1>12, <1>13, <1>14, <1>15, <1>16 DEF Next, CmdBegins, HandlerStep
<1> QED
  BY <1>17 DEF Goal

\* What a step can do to the ids a command carries.
CmdMoved(c) ==
  \/ cmd'[c] = cmd[c]
  \/ cmd'[c].pc \notin {"attach", "delete", "store", "publish", "write", "read", "look"}
  \/ cmd'[c].pc = "attach" /\ cmd'[c].n \in filters'
  \/ cmd'[c].pc = "delete" /\ cmd'[c].n \in Name /\ cmd'[c].id = chatId[cmd'[c].n]
  \/ cmd'[c].pc = "publish" /\ cmd[c].pc = "delete" /\ cmd'[c].m.act = "delete" /\ cmd'[c].m.id = cmd[c].id
  \/ cmd'[c].pc = "publish" /\ cmd'[c].m.act = "upsert" /\ cmd'[c].m.id = Blank
  \/ cmd'[c].pc = "write" /\ "update" \in Ops
  \/ cmd'[c].pc = "read" /\ cmd[c].pc = "write"
  \/ cmd'[c].pc = "look" /\ cmd[c].pc = "read"
  \/ cmd'[c].pc = "store" /\ cmd[c].pc = "look" /\ cmd'[c].seen \in Named(cmd'[c].n)

\* Every step does one of these to each command.
LEMMA CommandMoves ==
  ASSUME TypeOK, [Next]_vars, NEW c \in Cmd
  PROVE  CmdMoved(c)
<1> DEFINE Goal == CmdMoved(c)
<1>0. cmd \in [Cmd -> CmdState]
  BY DEF TypeOK
<1>1. ASSUME cmd'[c] = cmd[c] PROVE Goal
  BY <1>1 DEF CmdMoved
<1>2. ASSUME NEW b \in Cmd, NEW k, cmd' = [cmd EXCEPT ![b] = k], cmd'[b] = k => CmdMoved(b) PROVE Goal
  BY <1>0, <1>1, <1>2
<1>3. ASSUME NEW b \in Cmd, NEW n \in Name, NEW sig \in BOOLEAN, AddBegin(b, n, sig) PROVE Goal
  BY <1>2, <1>3 DEF AddBegin, CmdMoved
<1>4. ASSUME NEW b \in Cmd, NEW n \in Name, DestroyBegin(b, n) PROVE Goal
  BY <1>2, <1>4 DEF DestroyBegin, CmdMoved
<1>5. ASSUME NEW b \in Cmd, NEW n \in Name, NEW key \in {"sync", "attr"}, NEW val \in BOOLEAN, UpdateBegin(b, n, key, val) PROVE Goal
  BY <1>2, <1>5 DEF UpdateBegin, CmdMoved
<1>6. ASSUME NEW b \in Cmd, AddFilterRow(b) PROVE Goal
  <2>1. cmd[b] = [pc |-> "filter", n |-> cmd[b].n, row |-> cmd[b].row]
    BY <1>0, <1>6, CmdOfAKind DEF AddFilterRow
  <2> DEFINE k == IF cmd[b].n \in filters THEN NoCmd ELSE [cmd[b] EXCEPT !.pc = "attach"]
  <2>2. cmd' = [cmd EXCEPT ![b] = k]
    BY <1>6 DEF AddFilterRow
  <2>3. k.pc = "idle" \/ (k.pc = "attach" /\ k.n \in filters')
    <3>1. CASE cmd[b].n \in filters
      BY <3>1 DEF NoCmd
    <3>2. CASE cmd[b].n \notin filters
      <4>1. k.pc = "attach" /\ k.n = cmd[b].n
        BY <2>1, <3>2
      <4>2. cmd[b].n \in filters'
        BY <1>6 DEF AddFilterRow
      <4> QED
        BY <4>1, <4>2
    <3> QED
      BY <3>1, <3>2
  <2> HIDE DEF k
  <2> QED
    BY <1>2, <2>2, <2>3 DEF CmdMoved
<1>7. ASSUME NEW b \in Cmd, AttachFilter(b) PROVE Goal
  <2> DEFINE k == IF ~(cmd[b].n \in rows /\ cmd[b].row = serial[cmd[b].n]) THEN NoCmd
                  ELSE [pc |-> "publish", m |-> [act |-> "upsert", n |-> cmd[b].n, id |-> Blank, attr |-> FALSE]]
  <2>1. cmd' = [cmd EXCEPT ![b] = k]
    BY <1>7 DEF AttachFilter
  <2>2. k = NoCmd \/ (k.pc = "publish" /\ k.m.act = "upsert" /\ k.m.id = Blank)
    OBVIOUS
  <2> HIDE DEF k
  <2> QED
    BY <1>2, <2>1, <2>2 DEF CmdMoved, NoCmd
<1>8. ASSUME NEW b \in Cmd, CmdPublish(b) \/ CmdFails(b) PROVE Goal
  BY <1>2, <1>8 DEF CmdPublish, CmdFails, CmdMoved, NoCmd
<1>9. ASSUME NEW b \in Cmd, DeleteRow(b) PROVE Goal
  <2> DEFINE k == [pc |-> "publish", m |-> [act |-> "delete", id |-> cmd[b].id]]
  <2>1. cmd' = [cmd EXCEPT ![b] = k] /\ cmd[b].pc = "delete"
    BY <1>9 DEF DeleteRow
  <2>2. k.pc = "publish" /\ k.m.act = "delete" /\ k.m.id = cmd[b].id
    OBVIOUS
  <2> HIDE DEF k
  <2> QED
    BY <1>2, <2>1, <2>2 DEF CmdMoved
<1>10. ASSUME NEW b \in Cmd, UpdateWrite(b) PROVE Goal
  <2>1. cmd[b] \in [pc : {"write", "read"}, n : Name, on : BOOLEAN, key : {"sync", "attr"}, val : BOOLEAN]
    BY <1>0, <1>10, UpdateOfAKind DEF UpdateWrite
  <2> DEFINE k == [cmd[b] EXCEPT !.pc = "read"]
  <2>2. cmd' = [cmd EXCEPT ![b] = k] /\ cmd[b].pc = "write"
    BY <1>10 DEF UpdateWrite
  <2>3. k.pc = "read"
    BY <2>1
  <2> HIDE DEF k
  <2> QED
    BY <1>2, <2>2, <2>3 DEF CmdMoved
<1>11. ASSUME NEW b \in Cmd, UpdateRead(b) PROVE Goal
  <2> DEFINE k == IF cmd[b].n \notin rows THEN NoCmd
                  ELSE [pc |-> "look", n |-> cmd[b].n, on |-> cmd[b].on, attr |-> attr[cmd[b].n]]
  <2>1. cmd' = [cmd EXCEPT ![b] = k] /\ cmd[b].pc = "read"
    BY <1>11 DEF UpdateRead
  <2>2. k = NoCmd \/ k.pc = "look"
    OBVIOUS
  <2> HIDE DEF k
  <2> QED
    BY <1>2, <2>1, <2>2 DEF CmdMoved, NoCmd
<1>12. ASSUME NEW b \in Cmd, UpdateLook(b) PROVE Goal
  BY <1>2, <1>12 DEF UpdateLook, CmdMoved, BlankUpsert
<1>13. ASSUME NEW b \in Cmd, UpdateStore(b) PROVE Goal
  <2> DEFINE k == IF cmd[b].on /\ cmd[b].differ THEN [pc |-> "publish", m |-> BlankUpsert(cmd[b].n, cmd[b].attr)]
                  ELSE NoCmd
  <2>1. cmd' = [cmd EXCEPT ![b] = k]
    BY <1>13 DEF UpdateStore
  <2>2. k = NoCmd \/ (k.pc = "publish" /\ k.m.act = "upsert" /\ k.m.id = Blank)
    BY DEF BlankUpsert
  <2> HIDE DEF k
  <2> QED
    BY <1>2, <2>1, <2>2 DEF CmdMoved, NoCmd
<1>14. ASSUME Crash PROVE Goal
  BY <1>14 DEF Crash, NoCmd, CmdMoved
<1>15. ASSUME UNCHANGED cmd PROVE Goal
  BY <1>1, <1>15
<1>16. ASSUME NEW t \in Thread, Deliver(t) \/ Acquire(t) \/ HandlerStep(t) \/ ListFails(t) \/ CallFails(t) \/ DbFails(t)
      PROVE  Goal
  BY <1>15, <1>16 DEF HandlerStep, Deliver, Acquire, IgnoreMsg, CheckRow, CheckExists, Create, StoreId, Edit, DeleteRole, Finish, ListFails, CallFails, DbFails
<1>17. ASSUME PollGuild \/ PollStep \/ PollFails \/ BrokerRestart PROVE Goal
  BY <1>15, <1>17 DEF PollGuild, PollStep, PollRows, PollFix, PollDiff, PollPublish, PollFails, BrokerRestart, process
<1>18. ASSUME (\E i \in Id : ManualDelete(i)) \/ (\E n \in Name \ Ignored : ManualCreate(n)) PROVE Goal
  BY <1>15, <1>18 DEF ManualDelete, ManualCreate, process
<1>19. ASSUME UNCHANGED vars PROVE Goal
  BY <1>15, <1>19 DEF vars, process
<1> HIDE DEF Goal
<1>20. Goal
  BY <1>3, <1>4, <1>5, <1>6, <1>7, <1>8, <1>9, <1>10, <1>11, <1>12, <1>13, <1>14, <1>16, <1>17, <1>18, <1>19 DEF Next, CmdStep
<1> QED
  BY <1>20 DEF Goal

\* No filter is ever removed, and a command goes on to link one only when it has
\* written it.
LEMMA FilterThereStep ==
  ASSUME TypeOK, FilterThere, [Next]_vars
  PROVE  FilterThere'
<1> DEFINE Grow == filters \subseteq filters'
<1>1. ASSUME UNCHANGED filters PROVE Grow
  BY <1>1
<1>2. ASSUME NEW c \in Cmd, AddFilterRow(c) PROVE Grow
  BY <1>2 DEF AddFilterRow
<1>3. ASSUME NEW c \in Cmd, NEW n \in Name, CmdBegins(c, n) PROVE Grow
  BY <1>1, <1>3 DEF CmdBegins, AddBegin, DestroyBegin, UpdateBegin, links
<1>4. ASSUME NEW c \in Cmd, CmdStep(c) \/ CmdFails(c) PROVE Grow
  BY <1>1, <1>2, <1>4 DEF CmdStep, AttachFilter, CmdPublish, DeleteRow, UpdateWrite, UpdateRead, UpdateLook, UpdateStore, CmdFails, links
<1>5. ASSUME NEW t \in Thread, Deliver(t) \/ Acquire(t) \/ HandlerStep(t) \/ ListFails(t) \/ CallFails(t) \/ DbFails(t)
      PROVE  Grow
  BY <1>1, <1>5 DEF HandlerStep, Deliver, Acquire, IgnoreMsg, CheckRow, CheckExists, Create, StoreId, Edit, DeleteRole, Finish, ListFails, CallFails, DbFails, links
<1>6. ASSUME PollGuild \/ PollStep \/ PollFails PROVE Grow
  BY <1>1, <1>6 DEF PollGuild, PollStep, PollRows, PollFix, PollDiff, PollPublish, PollFails, links
<1>7. ASSUME Crash \/ BrokerRestart \/ (\E i \in Id : ManualDelete(i)) \/ (\E n \in Name \ Ignored : ManualCreate(n)) PROVE Grow
  BY <1>1, <1>7 DEF Crash, BrokerRestart, ManualDelete, ManualCreate, links, process
<1>8. ASSUME UNCHANGED vars PROVE Grow
  BY <1>1, <1>8 DEF vars, links
<1> HIDE DEF Grow
<1>9. Grow
  BY <1>3, <1>4, <1>5, <1>6, <1>7, <1>8 DEF Next, CmdBegins
<1>10. ASSUME NEW c \in Cmd, cmd'[c].pc = "attach" PROVE cmd'[c].n \in filters'
  <2>1. CmdMoved(c)
    BY CommandMoves
  <2>2. CASE cmd'[c] = cmd[c]
    BY <1>9, <1>10, <2>2 DEF FilterThere, Grow
  <2> QED
    BY <1>10, <2>1, <2>2 DEF CmdMoved
<1> QED
  BY <1>10 DEF FilterThere

\* What a step can do to the ids a round carries.
PollMoved ==
  \/ poll' = poll
  \/ poll'.pc = "idle"
  \/ poll'.pc = "rows" /\ \A n \in DOMAIN poll'.seen : n \notin Ignored /\ poll'.seen[n].id \in Named(n)
  \/ /\ poll'.pc = "fix" /\ poll.pc \in {"rows", "fix"} /\ poll'.seen = poll.seen
     /\ \A n \in DOMAIN poll'.db :
          \/ n \in Name /\ poll'.db[n].id = chatId[n]
          \/ poll.pc = "fix" /\ n \in DOMAIN poll.db /\ poll'.db[n].id = poll.db[n].id
          \/ n \in DOMAIN poll.seen /\ poll'.db[n].id = poll.seen[n].id
  \/ poll'.pc = "publish" /\ poll.pc = "publish" /\ poll'.todo \subseteq poll.todo
  \/ /\ poll'.pc = "publish" /\ poll.pc = "fix"
     /\ \A m \in poll'.todo :
          \/ m.act = "delete" /\ \E n \in DOMAIN poll.seen : m.id = poll.seen[n].id
          \/ m.act = "upsert" /\ m.n \in DOMAIN poll.db /\ m.id = poll.db[m.n].id

\* Every step does one of these to the round.
LEMMA PollMoves ==
  ASSUME TypeOK, [Next]_vars
  PROVE  PollMoved
<1> DEFINE Goal == PollMoved
<1>0. poll \in PollState
  BY DEF TypeOK
<1>1. ASSUME UNCHANGED poll PROVE Goal
  BY <1>1 DEF PollMoved
<1>2. ASSUME PollGuild PROVE Goal
  <2>1. PICK pick \in [SeenNames -> Id] :
          /\ \A n \in SeenNames : pick[n] \in Named(n)
          /\ poll' = [pc |-> "rows",
                      seen |-> [n \in SeenNames |-> [id |-> pick[n], attr |-> guild[pick[n]].attr]]]
    BY <1>2 DEF PollGuild
  <2> QED
    BY <2>1 DEF PollMoved, SeenNames
<1>3. ASSUME PollRows PROVE Goal
  <2>1. synced \subseteq Name
    BY DEF TypeOK
  <2>2. poll.pc = "rows" /\ poll' = [pc |-> "fix", seen |-> poll.seen, db |-> [n \in synced |-> [id |-> chatId[n], attr |-> attr[n]]]]
    BY <1>3 DEF PollRows
  <2> QED
    BY <2>1, <2>2 DEF PollMoved
<1>4. ASSUME NEW n \in Name, PollFix(n) PROVE Goal
  <2>1. poll \in [pc : {"fix"}, seen : Snapshot(Name \cup {Fresh}), db : Snapshot(Name)]
    BY <1>0, <1>4 DEF PollFix, PollState, NoPoll
  <2>2. PICK D \in SUBSET Name : poll.db \in [D -> [id : RowId, attr : BOOLEAN]]
    BY <2>1 DEF Snapshot
  <2> DEFINE d == [poll.db EXCEPT ![n].id = poll.seen[n].id]
  <2>3. poll' = [poll EXCEPT !.db = d] /\ n \in DOMAIN poll.db /\ n \in DOMAIN poll.seen /\ poll.pc = "fix"
    BY <1>4 DEF PollFix, Wrong
  <2>4. DOMAIN d = D /\ d[n].id = poll.seen[n].id /\ \A k \in D \ {n} : d[k] = poll.db[k]
    BY <2>2, <2>3
  <2> HIDE DEF d
  <2>5. poll'.pc = "fix" /\ poll'.seen = poll.seen /\ poll'.db = d
    BY <2>1, <2>3
  <2> QED
    BY <2>2, <2>3, <2>4, <2>5 DEF PollMoved
<1>5. ASSUME PollDiff PROVE Goal
  <2> DEFINE todo == Deletions \cup Additions \cup Updates
  <2>1. \A m \in todo : \/ m.act = "delete" /\ \E n \in DOMAIN poll.seen : m.id = poll.seen[n].id
                        \/ m.act = "upsert" /\ m.n \in DOMAIN poll.db /\ m.id = poll.db[m.n].id
    BY DEF Deletions, Additions, Updates, UpsertOf
  <2>2. poll.pc = "fix" /\ (poll' = NoPoll \/ poll' = [pc |-> "publish", todo |-> todo])
    BY <1>5 DEF PollDiff
  <2> HIDE DEF todo
  <2> QED
    BY <2>1, <2>2 DEF PollMoved, NoPoll
<1>6. ASSUME PollPublish PROVE Goal
  <2>1. poll \in [pc : {"publish"}, todo : SUBSET Msg]
    BY <1>0, <1>6 DEF PollPublish, PollState, NoPoll
  <2>2. PICK m : poll' = NoPoll \/ poll' = [poll EXCEPT !.todo = poll.todo \ {m}]
    BY <1>6 DEF PollPublish
  <2> QED
    BY <2>1, <2>2 DEF PollMoved, NoPoll
<1>7. ASSUME PollFails \/ Crash PROVE Goal
  <2>1. poll' = NoPoll
    BY <1>7, Zenon DEF PollFails, Crash
  <2> QED
    BY <2>1 DEF NoPoll, PollMoved
<1>8. ASSUME NEW c \in Cmd, NEW n \in Name, CmdBegins(c, n) PROVE Goal
  BY <1>1, <1>8 DEF CmdBegins, AddBegin, DestroyBegin, UpdateBegin
<1>9. ASSUME NEW c \in Cmd, CmdStep(c) \/ CmdFails(c) PROVE Goal
  BY <1>1, <1>9 DEF CmdStep, AddFilterRow, AttachFilter, CmdPublish, DeleteRow, UpdateWrite, UpdateRead, UpdateLook, UpdateStore, CmdFails
<1>10. ASSUME NEW t \in Thread, Deliver(t) \/ Acquire(t) \/ HandlerStep(t) \/ ListFails(t) \/ CallFails(t) \/ DbFails(t)
      PROVE  Goal
  BY <1>1, <1>10 DEF HandlerStep, Deliver, Acquire, IgnoreMsg, CheckRow, CheckExists, Create, StoreId, Edit, DeleteRole, Finish, ListFails, CallFails, DbFails
<1>11. ASSUME BrokerRestart \/ (\E i \in Id : ManualDelete(i)) \/ (\E n \in Name \ Ignored : ManualCreate(n)) PROVE Goal
  BY <1>1, <1>11 DEF BrokerRestart, ManualDelete, ManualCreate, process
<1>12. ASSUME UNCHANGED vars PROVE Goal
  BY <1>1, <1>12 DEF vars, process
<1> HIDE DEF Goal
<1>13. Goal
  BY <1>2, <1>3, <1>4, <1>5, <1>6, <1>7, <1>8, <1>9, <1>10, <1>11, <1>12 DEF Next, CmdBegins, PollStep
<1> QED
  BY <1>13 DEF Goal

\* What a step can do to one role of the guild.
GuildMoved(i) ==
  \/ guild'[i] = guild[i]
  \/ \E t \in Thread : Create(t) /\ i = Min(Id \ InUse) /\ guild'[i].n = Fresh
  \/ \E t \in Thread : Edit(t) /\ i = thr[t].id /\ guild[i] # NoRole /\ guild'[i].n = thr[t].m.n
  \/ \E t \in Thread : DeleteRole(t) /\ i = thr[t].m.id /\ guild'[i] = NoRole
  \/ "manual" \in Faults /\ guild[i].n \notin Ignored /\ guild'[i] = NoRole
  \/ "manual" \in Faults /\ i \notin InUse /\ guild'[i].n \in Name \ Ignored

\* Every step does one of these to each role.
LEMMA GuildMoves ==
  ASSUME TypeOK, [Next]_vars, NEW i \in Id
  PROVE  GuildMoved(i)
<1> DEFINE Goal == GuildMoved(i)
<1>0. guild \in [Id -> Shown \cup {NoRole}]
  BY DEF TypeOK
<1>1. ASSUME UNCHANGED guild PROVE Goal
  BY <1>1 DEF GuildMoved
<1>2. ASSUME NEW t \in Thread, Create(t) PROVE Goal
  <2>1. guild' = [guild EXCEPT ![Min(Id \ InUse)] = [n |-> Fresh, attr |-> FALSE]]
    BY <1>2 DEF Create
  <2> QED
    BY <1>0, <1>2, <2>1 DEF GuildMoved
<1>3. ASSUME NEW t \in Thread, Edit(t) PROVE Goal
  BY <1>0, <1>3 DEF Edit, GuildMoved
<1>4. ASSUME NEW t \in Thread, DeleteRole(t) PROVE Goal
  BY <1>0, <1>4 DEF DeleteRole, GuildMoved
<1>5. ASSUME NEW j \in Id, ManualDelete(j) PROVE Goal
  BY <1>0, <1>5 DEF ManualDelete, Fault, GuildMoved
<1>6. ASSUME NEW n \in Name \ Ignored, ManualCreate(n) PROVE Goal
  <2>1. Min(Id \ InUse) \in Id \ InUse /\ "manual" \in Faults
    BY <1>6, NewId DEF ManualCreate, Fault
  <2>2. guild' = [guild EXCEPT ![Min(Id \ InUse)] = [n |-> n, attr |-> FALSE]]
    BY <1>6 DEF ManualCreate
  <2> QED
    BY <1>0, <2>1, <2>2 DEF GuildMoved
<1>7. ASSUME NEW c \in Cmd, NEW n \in Name, CmdBegins(c, n) PROVE Goal
  BY <1>1, <1>7 DEF CmdBegins, AddBegin, DestroyBegin, UpdateBegin
<1>8. ASSUME NEW c \in Cmd, CmdStep(c) \/ CmdFails(c) PROVE Goal
  BY <1>1, <1>8 DEF CmdStep, AddFilterRow, AttachFilter, CmdPublish, DeleteRow, UpdateWrite, UpdateRead, UpdateLook, UpdateStore, CmdFails
<1>9. ASSUME NEW t \in Thread, Deliver(t) \/ Acquire(t) \/ HandlerStep(t) \/ ListFails(t) \/ CallFails(t) \/ DbFails(t)
      PROVE  Goal
  BY <1>1, <1>2, <1>3, <1>4, <1>9 DEF HandlerStep, Deliver, Acquire, IgnoreMsg, CheckRow, CheckExists, StoreId, Finish, ListFails, CallFails, DbFails
<1>10. ASSUME PollGuild \/ PollStep \/ PollFails PROVE Goal
  BY <1>1, <1>10 DEF PollGuild, PollStep, PollRows, PollFix, PollDiff, PollPublish, PollFails
<1>11. ASSUME Crash \/ BrokerRestart PROVE Goal
  <2>1. guild' = guild
    BY <1>11, Zenon DEF Crash, BrokerRestart
  <2> QED
    BY <1>1, <2>1
<1>12. ASSUME UNCHANGED vars PROVE Goal
  BY <1>1, <1>12 DEF vars
<1> HIDE DEF Goal
<1>13. Goal
  BY <1>5, <1>6, <1>7, <1>8, <1>9, <1>10, <1>11, <1>12 DEF Next, CmdBegins
<1> QED
  BY <1>13 DEF Goal

-----------------------------------------------------------------------------
(* Ignored roles                                                           *)

\* The id is of no role with an ignored name.
Unignored(i) == i \in Id => guild[i].n \notin Ignored

\* Nothing that is stored or on its way refers to a role with an ignored name,
\* and no roles.Update is under way.
IgnoredUnreached ==
  /\ \A n \in Name : Unignored(chatId[n])
  /\ \A k \in DOMAIN queue : Unignored(queue[k].id)
  /\ \A t \in Thread : thr[t].pc # "idle" => Unignored(thr[t].m.id) /\ Unignored(thr[t].id)
  /\ \A c \in Cmd : /\ cmd[c].pc \notin {"write", "read", "look", "store"}
                    /\ cmd[c].pc = "delete" => Unignored(cmd[c].id)
                    /\ cmd[c].pc = "publish" => Unignored(cmd[c].m.id)
  /\ poll.pc \in {"rows", "fix"} => \A n \in DOMAIN poll.seen : Unignored(poll.seen[n].id)
  /\ poll.pc = "fix" => \A n \in DOMAIN poll.db : Unignored(poll.db[n].id)
  /\ poll.pc = "publish" => \A m \in poll.todo : Unignored(m.id)

\* No step gives a role an ignored name: upsert has looked at the list.
LEMMA StaysUnignored ==
  ASSUME TypeOK, Shape, [Next]_vars, NEW i, Unignored(i)
  PROVE  Unignored(i)'
<1> SUFFICES ASSUME i \in Id PROVE guild'[i].n \notin Ignored
  BY DEF Unignored
<1>1. "none" \notin Ignored /\ Fresh \notin Ignored /\ NoRole.n = "none"
  BY ConstantsAssumption DEF NoRole
<1>2. guild[i].n \notin Ignored /\ GuildMoved(i)
  BY GuildMoves DEF Unignored
<1>3. ASSUME NEW t \in Thread, Edit(t) PROVE thr[t].m.n \notin Ignored
  BY <1>3 DEF Edit, Shape, ThrShape, Upserting
<1> QED
  BY <1>1, <1>2, <1>3 DEF GuildMoved

\* Nor is a role created with one.
LEMMA NewIdUnignored ==
  ASSUME TypeOK, NEW t \in Thread, Create(t), NEW i, i = Min(Id \ InUse)
  PROVE  Unignored(i)'
<1>1. guild \in [Id -> Shown \cup {NoRole}] /\ Fresh \notin Ignored
  BY ConstantsAssumption DEF TypeOK
<1>2. guild' = [guild EXCEPT ![i] = [n |-> Fresh, attr |-> FALSE]]
  BY DEF Create
<1> QED
  BY <1>1, <1>2 DEF Unignored

\* Without roles.Update, which looks roles up by name and not on the list, every
\* step keeps the ids of ignored roles out of the table and of the messages.
LEMMA IgnoredUnreachedStep ==
  ASSUME TypeOK, Shape, IgnoredUnreached, [Next]_vars, "update" \notin Ops
  PROVE  IgnoredUnreached'
<1>1. \A i : Unignored(i) => Unignored(i)'
  BY StaysUnignored
<1>2. \A i \in {Zero, Blank} : Unignored(i)'
  BY ConstantsAssumption DEF Unignored
<1>3. ASSUME NEW n \in Name PROVE Unignored(chatId[n])'
  <2> SUFFICES ASSUME NEW i, i = chatId'[n] PROVE Unignored(i)'
    BY DEF Unignored
  <2>1. Unignored(i) \/ i = Zero
    BY StoredIds DEF IgnoredUnreached
  <2> QED
    BY <1>1, <1>2, <2>1
<1>4. ASSUME NEW k \in DOMAIN queue' PROVE Unignored(queue[k].id)'
  <2>1. Carried(queue'[k])
    BY MessagesOnlyMove
  <2>2. Unignored(queue'[k].id)
    BY <2>1 DEF Carried, IgnoredUnreached
  <2> QED
    BY <1>1, <2>2 DEF Unignored
<1>5. ASSUME NEW t \in Thread, thr'[t].pc # "idle" PROVE Unignored(thr[t].m.id)' /\ Unignored(thr[t].id)'
  <2>1. CASE thr[t].pc # "idle" /\ thr'[t].m = thr[t].m /\ thr'[t].id = thr[t].id
    BY <1>1, <2>1 DEF IgnoredUnreached, Unignored
  <2>2. CASE thr[t].pc # "idle" /\ thr'[t].m = thr[t].m /\ Create(t) /\ thr'[t].id = Min(Id \ InUse)
    <3>1. Unignored(thr[t].m.id)
      BY <2>2 DEF IgnoredUnreached
    <3>2. ASSUME NEW i, i = thr'[t].id PROVE Unignored(i)'
      BY <2>2, <3>2, NewIdUnignored
    <3>3. ASSUME NEW i, i = thr'[t].m.id PROVE Unignored(i)'
      BY <1>1, <2>2, <3>1, <3>3
    <3> QED
      BY <3>2, <3>3 DEF Unignored
  <2>3. CASE thr'[t].pc = "wait" /\ \E k \in DOMAIN queue : thr'[t].m = queue[k] /\ thr'[t].id = queue[k].id
    BY <1>1, <2>3 DEF IgnoredUnreached, Unignored
  <2> QED
    BY <1>5, <2>1, <2>2, <2>3, HandlerMoves
<1>6. ASSUME NEW c \in Cmd
      PROVE  /\ cmd'[c].pc \notin {"write", "read", "look", "store"}
             /\ cmd'[c].pc = "delete" => Unignored(cmd[c].id)'
             /\ cmd'[c].pc = "publish" => Unignored(cmd[c].m.id)'
  <2>1. CmdMoved(c)
    BY CommandMoves
  <2>2. cmd[c].pc \notin {"write", "read", "look", "store"}
    BY DEF IgnoredUnreached
  <2>3. cmd'[c].pc \notin {"write", "read", "look", "store"}
    BY <2>1, <2>2 DEF CmdMoved
  <2>4. ASSUME cmd'[c].pc = "delete" PROVE Unignored(cmd'[c].id) \/ cmd'[c].id \in {Zero, Blank}
    BY <2>1, <2>3, <2>4 DEF CmdMoved, IgnoredUnreached
  <2>5. ASSUME cmd'[c].pc = "publish" PROVE Unignored(cmd'[c].m.id) \/ cmd'[c].m.id \in {Zero, Blank}
    BY <2>1, <2>3, <2>5 DEF CmdMoved, IgnoredUnreached
  <2> QED
    BY <1>1, <1>2, <2>3, <2>4, <2>5 DEF Unignored
<1>7. PollMoved
  BY PollMoves
<1>8. ASSUME poll'.pc \in {"rows", "fix"}, NEW n \in DOMAIN poll'.seen PROVE Unignored(poll.seen[n].id)'
  <2>1. \/ n \notin Ignored /\ poll'.seen[n].id \in Named(n)
        \/ n \in DOMAIN poll.seen /\ poll.pc \in {"rows", "fix"} /\ poll'.seen = poll.seen
    BY <1>7, <1>8 DEF PollMoved
  <2>2. Unignored(poll'.seen[n].id)
    BY <2>1 DEF IgnoredUnreached, Unignored, Named
  <2> QED
    BY <1>1, <2>2 DEF Unignored
<1>9. ASSUME poll'.pc = "fix", NEW n \in DOMAIN poll'.db PROVE Unignored(poll.db[n].id)'
  <2>1. Unignored(poll'.db[n].id)
    BY <1>7, <1>9 DEF PollMoved, IgnoredUnreached
  <2> QED
    BY <1>1, <2>1 DEF Unignored
<1>10. ASSUME poll'.pc = "publish", NEW m \in poll'.todo PROVE Unignored(m.id)'
  <2>1. Unignored(m.id)
    BY <1>7, <1>10 DEF PollMoved, IgnoredUnreached
  <2> QED
    BY <1>1, <2>1 DEF Unignored
<1> QED
  BY <1>3, <1>4, <1>5, <1>6, <1>8, <1>9, <1>10 DEF IgnoredUnreached

-----------------------------------------------------------------------------
(* The start, and the theorems that hold with every failure                *)

\* The start has the right types, idle handlers and a free lock.
LEMMA InitTypes ==
  ASSUME Init
  PROVE  TypeOK /\ Shape /\ FilterThere /\ LockHeld
<1> USE ConstantsAssumption, StartAssumption
<1>1. /\ chatId = [n \in Name |-> IF n \in rows THEN IdAtStart[n] ELSE Zero]
      /\ guild = [i \in Id |->
           IF \E n \in rows \cup Ignored : IdAtStart[n] = i
           THEN [n |-> CHOOSE n \in rows \cup Ignored : IdAtStart[n] = i, attr |-> TRUE]
           ELSE NoRole]
  BY DEF Init
<1>2. rows \subseteq Name /\ synced = rows /\ filters = rows /\ attached = rows
  BY DEF Init
<1>3. chatId \in [Name -> RowId]
  BY <1>1, <1>2 DEF RowId
<1>4. ASSUME NEW i \in Id PROVE guild[i] \in Shown \cup {NoRole}
  <2>1. CASE \E n \in rows \cup Ignored : IdAtStart[n] = i
    <3>1. (CHOOSE n \in rows \cup Ignored : IdAtStart[n] = i) \in Name
      BY <1>2, <2>1
    <3> QED
      BY <1>1, <2>1, <3>1 DEF Shown
  <2>2. CASE ~ \E n \in rows \cup Ignored : IdAtStart[n] = i
    BY <1>1, <2>2
  <2> QED
    BY <2>1, <2>2
<1>5. guild \in [Id -> Shown \cup {NoRole}]
  BY <1>1, <1>4
<1>6. serial \in [Name -> Nat] /\ attr \in [Name -> BOOLEAN] /\ connected \in BOOLEAN /\ lock \in Thread \cup {Free} /\ cmds \in 0..MaxCmds /\ faults \in 0..MaxFaults
  BY DEF Init
<1>7. cmd \in [Cmd -> CmdState] /\ thr \in [Thread -> ThrState] /\ poll \in PollState
  BY DEF Init, CmdState, ThrState, PollState
<1>8. queue \in Seq(Msg)
  BY EmptySeq DEF Init
<1>9. TypeOK
  BY <1>2, <1>3, <1>5, <1>6, <1>7, <1>8 DEF TypeOK
<1>10. \A t \in Thread : thr[t] = NoMsg /\ lock = Free
  BY DEF Init
<1>11. Shape /\ LockHeld
  BY <1>10 DEF Shape, ThrShape, LockHeld, NoMsg, Locking, Upserting
<1>12. FilterThere
  BY DEF Init, FilterThere, NoCmd
<1> QED
  BY <1>9, <1>11, <1>12

\* At the start an id of the table is of the role with the row's name.
LEMMA InitIds ==
  ASSUME Init, NEW n \in Name
  PROVE  chatId[n] \in Id => n \in rows /\ guild[chatId[n]].n = n
<1> USE ConstantsAssumption, StartAssumption
<1>1. /\ rows \cup Ignored \subseteq Name
      /\ chatId = [m \in Name |-> IF m \in rows THEN IdAtStart[m] ELSE Zero]
      /\ guild = [i \in Id |->
           IF \E m \in rows \cup Ignored : IdAtStart[m] = i
           THEN [n |-> CHOOSE m \in rows \cup Ignored : IdAtStart[m] = i, attr |-> TRUE]
           ELSE NoRole]
  BY DEF Init
<1>2. CASE n \in rows
  <2>1. chatId[n] = IdAtStart[n] /\ IdAtStart[n] \in Id
    BY <1>1, <1>2
  <2>2. (CHOOSE m \in rows \cup Ignored : IdAtStart[m] = IdAtStart[n]) = n
    BY <1>1, <1>2
  <2> QED
    BY <1>1, <1>2, <2>1, <2>2
<1>3. CASE n \notin rows
  BY <1>1, <1>3
<1> QED
  BY <1>2, <1>3

\* In every reachable state every variable has its type, a synced row exists, and
\* the links of role_filters are between a filter and a row that exist.
THEOREM TypeCorrect == Spec => []TypeOK
<1>1. Init => TypeOK /\ Shape /\ FilterThere
  BY InitTypes
<1>2. TypeOK /\ Shape /\ FilterThere /\ [Next]_vars => (TypeOK /\ Shape /\ FilterThere)'
  BY TypeStep, FilterThereStep
<1> QED
  BY <1>1, <1>2, PTL DEF Spec

\* Session.Lock() of discord/roles: at most one handler at a time is inside upsert
\* or delete, and after a crash nobody holds the lock for ever.
THEOREM OneAtATime == Spec => []LockHeld
<1>1. Init => TypeOK /\ Shape /\ FilterThere /\ LockHeld
  BY InitTypes
<1>2. TypeOK /\ Shape /\ FilterThere /\ LockHeld /\ [Next]_vars => (TypeOK /\ Shape /\ FilterThere /\ LockHeld)'
  BY TypeStep, FilterThereStep, LockStep
<1> QED
  BY <1>1, <1>2, PTL DEF Spec

\* The inductive invariant behind IgnoredStay.
IgnoredInv == TypeOK /\ Shape /\ FilterThere /\ IgnoredUnreached

\* Ignored roles are never changed, whatever fails, crashes or is reordered, as
\* long as no roles.Update is issued.
THEOREM IgnoredAreLeftAlone ==
  ASSUME "update" \notin Ops
  PROVE  Spec => IgnoredStay
<1>1. Init => IgnoredInv
  <2> SUFFICES ASSUME Init PROVE IgnoredInv
    OBVIOUS
  <2>1. TypeOK /\ Shape /\ FilterThere
    BY InitTypes
  <2>2. \A n \in Name : Unignored(chatId[n])
    <3>1. \A n \in Name : chatId[n] \in Id => n \in rows /\ guild[chatId[n]].n = n
      BY InitIds
    <3>2. rows \cap Ignored = {}
      BY DEF Init
    <3> QED
      BY <3>1, <3>2 DEF Unignored
  <2>3. IgnoredUnreached
    BY <2>2, EmptySeq DEF Init, IgnoredUnreached, NoMsg, NoCmd, NoPoll
  <2> QED
    BY <2>1, <2>3 DEF IgnoredInv
<1>2. IgnoredInv /\ [Next]_vars => IgnoredInv'
  BY TypeStep, FilterThereStep, IgnoredUnreachedStep DEF IgnoredInv
<1>3. IgnoredInv /\ [Next]_vars => \A i \in Id : guild[i].n \in Ignored => guild'[i] = guild[i]
  <2> SUFFICES ASSUME IgnoredInv, [Next]_vars, NEW i \in Id, guild[i].n \in Ignored PROVE guild'[i] = guild[i]
    OBVIOUS
  <2>1. GuildMoved(i)
    BY GuildMoves DEF IgnoredInv
  <2>2. i \in InUse
    BY ConstantsAssumption DEF InUse, NoRole
  <2>3. \A t \in Thread : ~Create(t) \/ i # Min(Id \ InUse)
    BY <2>2, NewId DEF Create
  <2>4. \A t \in Thread : thr[t].pc # "idle" => i # thr[t].id /\ i # thr[t].m.id
    BY DEF IgnoredInv, IgnoredUnreached, Unignored
  <2>5. \A t \in Thread : Edit(t) \/ DeleteRole(t) => thr[t].pc # "idle"
    BY DEF Edit, DeleteRole
  <2> QED
    BY <2>1, <2>2, <2>3, <2>4, <2>5 DEF GuildMoved
<1>4. IgnoredInv /\ [Next]_vars => [\A i \in Id : guild[i].n \in Ignored => guild'[i] = guild[i]]_vars
  BY <1>3
<1> QED
  BY <1>1, <1>2, <1>4, PTL DEF Spec, IgnoredStay

\* No command ends in the middle: the process does not die and no statement fails.
NoCommandCut == Faults \cap {"crash", "db"} = {}

\* A command that is going to attach a filter to the row of n there is now.
Attaching(c, n) == cmd[c].pc \in {"filter", "attach"} /\ cmd[c].n = n /\ cmd[c].row = serial[n]

\* Every other step leaves each row attached or with a command that will see to
\* it, unless that command finds the filter's name taken.
LEMMA BareStep ==
  ASSUME NoCommandCut, TypeOK, [Next]_vars, NEW n \in Name, n \notin filters, ~Bare(n)
  PROVE  ~Bare(n)'
<1> DEFINE Goal == ~Bare(n)'
<1>0. cmd \in [Cmd -> CmdState] /\ NoCmd.pc = "idle"
  BY DEF TypeOK, NoCmd
\* The row, its link and the commands that see to it are as before.
<1>1. ASSUME n \in rows' => n \in rows, n \in attached => n \in attached' \/ n \notin rows',
             serial' = serial, \A c \in Cmd : Attaching(c, n) => cmd'[c] = cmd[c]
      PROVE  Goal
  BY <1>1 DEF Bare, Attaching
<1>2. ASSUME UNCHANGED <<rows, serial, attached, cmd>> PROVE Goal
  BY <1>1, <1>2
\* A step of a command that was not going to attach a filter.
<1>3. ASSUME NEW b \in Cmd, NEW k, cmd' = [cmd EXCEPT ![b] = k], cmd[b].pc \notin {"filter", "attach"},
             rows' \subseteq rows, n \in attached => n \in attached' \/ n \notin rows', serial' = serial
      PROVE  Goal
  <2>1. \A c \in Cmd : Attaching(c, n) => cmd'[c] = cmd[c]
    BY <1>0, <1>3 DEF Attaching
  <2> QED
    BY <1>1, <1>3, <2>1
<1>4. ASSUME NEW c \in Cmd, NEW m \in Name, NEW sig \in BOOLEAN, AddBegin(c, m, sig) PROVE Goal
  <2>1. serial' = [serial EXCEPT ![m] = @ + 1] /\ rows' = rows \cup {m} /\ attached' = attached
        /\ cmd' = [cmd EXCEPT ![c] = [pc |-> "filter", n |-> m, row |-> serial[m] + 1]]
        /\ cmd[c].pc = "idle" /\ serial \in [Name -> Nat]
    BY <1>0, <1>4 DEF AddBegin, links, TypeOK
  <2>2. CASE n = m
    <3>1. cmd'[c].pc = "filter" /\ cmd'[c].n = n /\ cmd'[c].row = serial'[n]
      BY <1>0, <2>1, <2>2
    <3> QED
      BY <3>1 DEF Bare
  <2>3. CASE n # m
    <3>1. serial'[n] = serial[n] /\ \A d \in Cmd : d # c => cmd'[d] = cmd[d]
      BY <1>0, <2>1, <2>3
    <3> QED
      BY <2>1, <2>3, <3>1 DEF Bare
  <2> QED
    BY <2>2, <2>3
<1>5. ASSUME NEW c \in Cmd, AddFilterRow(c) PROVE Goal
  <2>1. UNCHANGED <<rows, serial, attached>> /\ cmd[c].pc = "filter"
    BY <1>5 DEF AddFilterRow, roles
  <2>2. CASE cmd[c].n = n
    <3>1. cmd' = [cmd EXCEPT ![c] = [cmd[c] EXCEPT !.pc = "attach"]]
      BY <1>5, <2>2 DEF AddFilterRow
    <3>2. cmd[c] \in [pc : {"filter", "attach"}, n : Name, row : Nat]
      BY <1>0, <2>1 DEF CmdState
    <3>3. cmd'[c].pc = "attach" /\ cmd'[c].n = cmd[c].n /\ cmd'[c].row = cmd[c].row
      BY <1>0, <3>1, <3>2
    <3>4. \A d \in Cmd : d # c => cmd'[d] = cmd[d]
      BY <1>0, <3>1
    <3> QED
      BY <2>1, <3>3, <3>4 DEF Bare
  <2>3. CASE cmd[c].n # n
    <3>1. \A d \in Cmd : d # c => cmd'[d] = cmd[d]
      BY <1>0, <1>5 DEF AddFilterRow
    <3> QED
      BY <2>1, <2>3, <3>1 DEF Bare
  <2> QED
    BY <2>2, <2>3
<1>6. ASSUME NEW c \in Cmd, AttachFilter(c) PROVE Goal
  <2>1. UNCHANGED <<rows, serial>>
    BY <1>6 DEF AttachFilter, roles
  <2>2. attached \subseteq attached'
    BY <1>6 DEF AttachFilter
  <2>3. \E k : cmd' = [cmd EXCEPT ![c] = k]
    BY <1>6 DEF AttachFilter
  <2>4. \A d \in Cmd : d # c => cmd'[d] = cmd[d]
    BY <1>0, <2>3
  <2>5. CASE Attaching(c, n)
    <3>1. cmd[c].n = n /\ cmd[c].row = serial[n]
      BY <2>5 DEF Attaching
    <3>2. attached' = IF n \in rows THEN attached \cup {n} ELSE attached
      BY <1>6, <3>1 DEF AttachFilter
    <3> QED
      BY <2>1, <3>2 DEF Bare
  <2>6. CASE ~Attaching(c, n)
    <3>1. \A d \in Cmd : Attaching(d, n) => cmd'[d] = cmd[d]
      BY <2>4, <2>6
    <3> QED
      BY <1>1, <2>1, <2>2, <3>1
  <2> QED
    BY <2>5, <2>6
<1>7. ASSUME NEW c \in Cmd, NEW m \in Name,
             DestroyBegin(c, m) \/ \E key \in {"sync", "attr"}, val \in BOOLEAN : UpdateBegin(c, m, key, val)
      PROVE  Goal
  BY <1>0, <1>3, <1>7 DEF DestroyBegin, UpdateBegin, roles, links
<1>8. ASSUME NEW c \in Cmd, CmdPublish(c) \/ DeleteRow(c) PROVE Goal
  BY <1>3, <1>8 DEF CmdPublish, DeleteRow, roles, links
<1>9. ASSUME NEW c \in Cmd, UpdateWrite(c) PROVE Goal
  BY <1>3, <1>9 DEF UpdateWrite, links
<1>10. ASSUME NEW c \in Cmd, UpdateRead(c) \/ UpdateLook(c) \/ UpdateStore(c) PROVE Goal
  BY <1>3, <1>10 DEF UpdateRead, UpdateLook, UpdateStore, roles, links
<1>11. ~Crash /\ \A c \in Cmd : ~CmdFails(c)
  BY DEF NoCommandCut, CmdFails, Crash, Fault
<1>12. ASSUME NEW t \in Thread, Deliver(t) \/ Acquire(t) \/ HandlerStep(t) \/ ListFails(t) \/ CallFails(t) \/ DbFails(t)
      PROVE  Goal
  BY <1>2, <1>12 DEF HandlerStep, Deliver, Acquire, IgnoreMsg, CheckRow, CheckExists, Create, StoreId, Edit, DeleteRole, Finish, ListFails, CallFails, DbFails, roles, links
<1>13. ASSUME PollGuild \/ PollStep \/ PollFails PROVE Goal
  BY <1>2, <1>13 DEF PollGuild, PollStep, PollRows, PollFix, PollDiff, PollPublish, PollFails, roles, links
<1>14. ASSUME BrokerRestart \/ (\E i \in Id : ManualDelete(i)) \/ (\E m \in Name \ Ignored : ManualCreate(m)) PROVE Goal
  BY <1>2, <1>14 DEF BrokerRestart, ManualDelete, ManualCreate, roles, links, process
<1>15. ASSUME UNCHANGED vars PROVE Goal
  BY <1>2, <1>15 DEF vars, roles, links, process
<1> HIDE DEF Goal
<1>16. ASSUME NEW c \in Cmd, NEW m \in Name, CmdBegins(c, m) PROVE Goal
  BY <1>4, <1>7, <1>16 DEF CmdBegins
<1>17. ASSUME NEW c \in Cmd, CmdStep(c) \/ CmdFails(c) PROVE Goal
  BY <1>5, <1>6, <1>8, <1>9, <1>10, <1>11, <1>17 DEF CmdStep
<1>18. Goal
  BY <1>11, <1>12, <1>13, <1>14, <1>15, <1>16, <1>17 DEF Next, CmdBegins
<1> QED
  BY <1>18 DEF Goal

\* A role is left without its default filter, with no command about to attach it,
\* only by a step that finds the name of the filter taken, with any number of
\* commands for the same name and whatever the handlers, the poller and the
\* broker do; provided that no command is cut short.
THEOREM RolesGetTheirFilter ==
  ASSUME NoCommandCut
  PROVE  Spec => BareOnlyWhenTaken
<1>1. TypeOK /\ [Next]_vars => [\A n \in Name : Bare(n)' /\ ~Bare(n) => n \in filters]_vars
  BY BareStep
<1> QED
  BY <1>1, TypeCorrect, PTL DEF Spec, BareOnlyWhenTaken

-----------------------------------------------------------------------------
(* One role for a name                                                     *)

\* Nothing comes between the creation of a role and the edit that names it (no
\* crash, no REST error), and nobody creates roles by hand.
NoHalfCreation == Faults \cap {"crash", "rest", "manual"} = {}

\* A handler has created the role i for n, which is not named yet.
Naming(n, i) ==
  \E t \in Thread : thr[t].pc \in {"store", "edit"} /\ thr[t].id = i /\ thr[t].m.n = n /\ guild[i].n = Fresh

\* Somebody takes i for the id of n: it is, or is going to be, or the role is gone.
Fits(n, i) == i \in Id => guild[i].n \in {n, "none"} \/ Naming(n, i)

MsgFits(m) == m.act = "upsert" => Fits(m.n, m.id)

\* Wherever a name and an id are stored or travel together, they fit: table,
\* queue, handlers, commands, and the snapshots and messages of a round.
RefsFit ==
  /\ \A n \in Name : Fits(n, chatId[n])
  /\ \A k \in DOMAIN queue : MsgFits(queue[k])
  /\ \A t \in Thread : thr[t].pc # "idle" /\ thr[t].m.act = "upsert" =>
       Fits(thr[t].m.n, thr[t].m.id) /\ Fits(thr[t].m.n, thr[t].id)
  /\ \A c \in Cmd : /\ cmd[c].pc = "publish" => MsgFits(cmd[c].m)
                    /\ cmd[c].pc = "store" => Fits(cmd[c].n, cmd[c].seen)
  /\ poll.pc \in {"rows", "fix"} => \A n \in DOMAIN poll.seen \ {Fresh} : Fits(n, poll.seen[n].id)
  /\ poll.pc = "fix" => \A n \in DOMAIN poll.db : Fits(n, poll.db[n].id)
  /\ poll.pc = "publish" => \A m \in poll.todo : MsgFits(m)

\* From the look at the guild to the naming of the new role there is no role of
\* that name.
NewIsOnly ==
  \A t \in Thread :
    /\ thr[t].pc = "create" => ~Exists(thr[t].m.n)
    /\ thr[t].pc = "store" => guild[thr[t].id].n = Fresh
    /\ thr[t].pc \in {"store", "edit"} /\ thr[t].id \in Id /\ guild[thr[t].id].n = Fresh => ~Exists(thr[t].m.n)

\* OneRolePerName without counting.
UniqueNames == \A n \in Name : \A i, j \in Named(n) : i = j

\* The inductive invariant behind OneRolePerName.  The ids matter because an edit
\* names the role with the id it has, whatever that role's name is.
OneRoleInv == TypeOK /\ Shape /\ FilterThere /\ LockHeld /\ RefsFit /\ NewIsOnly /\ UniqueNames

\* Only the holder of the lock changes the guild, and then it goes on to its next
\* step: while it stays where it is, so does the guild.
LEMMA HolderRests ==
  ASSUME NoHalfCreation, TypeOK, LockHeld, [Next]_vars,
         NEW t \in Thread, thr[t].pc \in Locking, thr'[t].pc = thr[t].pc
  PROVE  \A i \in Id : guild'[i] = guild[i]
<1> SUFFICES ASSUME NEW i \in Id PROVE guild'[i] = guild[i]
  OBVIOUS
<1>0. thr \in [Thread -> ThrState] /\ lock = t /\ "manual" \notin Faults
  BY DEF TypeOK, LockHeld, NoHalfCreation
<1>1. ASSUME NEW u \in Thread, Create(u) PROVE FALSE
  <2> DEFINE h == [thr[u] EXCEPT !.pc = "store", !.id = Min(Id \ InUse)]
  <2>1. thr' = [thr EXCEPT ![u] = h] /\ thr[u].pc = "create"
    BY <1>1 DEF Create
  <2>2. h.pc = "store"
    BY <2>1, ThrWorks DEF Working
  <2> HIDE DEF h
  <2>3. u = t
    BY <1>0, <2>1 DEF LockHeld, Locking
  <2> QED
    BY <1>0, <2>1, <2>2, <2>3
<1>2. ASSUME NEW u \in Thread, Edit(u) PROVE FALSE
  <2>1. PICK p \in {"ack", "requeue"} : thr' = [thr EXCEPT ![u].pc = p]
    BY <1>2 DEF Edit, Return
  <2>2. thr[u].pc = "edit"
    BY <1>2 DEF Edit
  <2>3. u = t
    BY <1>0, <2>2 DEF LockHeld, Locking
  <2>4. thr'[u].pc = p
    BY <1>0, <2>1, <2>2, ThrWorks DEF Working
  <2> QED
    BY <2>2, <2>3, <2>4
<1>3. ASSUME NEW u \in Thread, DeleteRole(u) PROVE FALSE
  <2>1. thr' = [thr EXCEPT ![u].pc = "ack"] /\ thr[u].pc = "delete"
    BY <1>3 DEF DeleteRole, Return
  <2>2. u = t
    BY <1>0, <2>1 DEF LockHeld, Locking
  <2>3. thr'[u].pc = "ack"
    BY <1>0, <2>1, ThrWorks DEF Working
  <2> QED
    BY <2>1, <2>2, <2>3
<1> QED
  BY <1>0, <1>1, <1>2, <1>3, GuildMoves DEF GuildMoved

\* How a handler comes to the steps between the look at the guild and the naming.
LEMMA HandlerArrives ==
  ASSUME NoHalfCreation, TypeOK, [Next]_vars, NEW t \in Thread
  PROVE  \/ thr'[t] = thr[t]
         \/ thr'[t].pc \notin {"create", "store", "edit"} /\ (Edit(t) \/ thr[t].pc \notin {"store", "edit"})
         \/ CheckExists(t) \/ Create(t) \/ StoreId(t)
         \/ DbFails(t) /\ thr[t].pc = "store" /\ thr' = [thr EXCEPT ![t].pc = "edit"]
<1> DEFINE Goal ==
         \/ thr'[t] = thr[t]
         \/ thr'[t].pc \notin {"create", "store", "edit"} /\ (Edit(t) \/ thr[t].pc \notin {"store", "edit"})
         \/ CheckExists(t) \/ Create(t) \/ StoreId(t)
         \/ DbFails(t) /\ thr[t].pc = "store" /\ thr' = [thr EXCEPT ![t].pc = "edit"]
<1>0. thr \in [Thread -> ThrState] /\ "crash" \notin Faults /\ "rest" \notin Faults
  BY DEF TypeOK, NoHalfCreation
<1>1. ASSUME NEW u \in Thread, NEW h, thr' = [thr EXCEPT ![u] = h], u = t => Goal PROVE Goal
  BY <1>0, <1>1
<1>2. ASSUME NEW u \in Thread, thr[u].pc # "idle", thr[u].pc \notin {"store", "edit"},
             NEW p, p \notin {"create", "store", "edit"}, thr' = [thr EXCEPT ![u].pc = p]
      PROVE  Goal
  <2>1. u = t => thr'[t].pc = p
    BY <1>0, <1>2, ThrWorks DEF Working
  <2> QED
    BY <1>0, <1>2, <2>1
<1>3. ASSUME NEW u \in Thread, Deliver(u) PROVE Goal
  BY <1>0, <1>3 DEF Deliver, NoMsg
<1>4. ASSUME NEW u \in Thread, IgnoreMsg(u) \/ Finish(u) PROVE Goal
  BY <1>0, <1>4 DEF IgnoreMsg, Finish, NoMsg
<1>5. ASSUME NEW u \in Thread, Acquire(u) \/ DeleteRole(u) PROVE Goal
  BY <1>2, <1>5 DEF Acquire, DeleteRole, Return
<1>6. ASSUME NEW u \in Thread, CheckRow(u) PROVE Goal
  BY <1>2, <1>6 DEF CheckRow, Return, GoOn
<1>7. ASSUME NEW u \in Thread, CheckExists(u) \/ StoreId(u) PROVE Goal
  BY <1>0, <1>7 DEF CheckExists, StoreId, Return, GoOn
<1>8. ASSUME NEW u \in Thread, Create(u) PROVE Goal
  <2>1. PICK h : thr' = [thr EXCEPT ![u] = h]
    BY <1>8 DEF Create
  <2> QED
    BY <1>0, <1>8, <2>1
<1>9. ASSUME NEW u \in Thread, Edit(u) PROVE Goal
  <2>1. PICK p \in {"ack", "requeue"} : thr' = [thr EXCEPT ![u].pc = p]
    BY <1>9 DEF Edit, Return
  <2>2. thr[u].pc # "idle"
    BY <1>9 DEF Edit
  <2>3. u = t => thr'[t].pc = p
    BY <1>0, <2>1, <2>2, ThrWorks DEF Working
  <2> QED
    BY <1>0, <1>9, <2>1, <2>3
<1>10. ASSUME NEW u \in Thread, DbFails(u) PROVE Goal
  <2>1. CASE thr[u].pc = "row"
    BY <1>2, <1>10, <2>1 DEF DbFails, Return
  <2>2. CASE thr[u].pc = "store"
    BY <1>0, <1>10, <2>2 DEF DbFails, GoOn
  <2> QED
    BY <1>10, <2>1, <2>2 DEF DbFails
<1>11. ~Crash /\ \A u \in Thread : ~ListFails(u) /\ ~CallFails(u)
  BY <1>0 DEF Crash, ListFails, CallFails, Fault
<1>12. ASSUME UNCHANGED thr PROVE Goal
  BY <1>12
<1>13. ASSUME NEW c \in Cmd, NEW n \in Name, CmdBegins(c, n) PROVE Goal
  BY <1>12, <1>13 DEF CmdBegins, AddBegin, DestroyBegin, UpdateBegin
<1>14. ASSUME NEW c \in Cmd, CmdStep(c) \/ CmdFails(c) PROVE Goal
  BY <1>12, <1>14 DEF CmdStep, AddFilterRow, AttachFilter, CmdPublish, DeleteRow, UpdateWrite, UpdateRead, UpdateLook, UpdateStore, CmdFails
<1>15. ASSUME PollGuild \/ PollStep \/ PollFails \/ BrokerRestart PROVE Goal
  BY <1>12, <1>15 DEF PollGuild, PollStep, PollRows, PollFix, PollDiff, PollPublish, PollFails, BrokerRestart, process
<1>16. ASSUME (\E i \in Id : ManualDelete(i)) \/ (\E n \in Name \ Ignored : ManualCreate(n)) PROVE Goal
  BY <1>12, <1>16 DEF ManualDelete, ManualCreate, process
<1>17. ASSUME UNCHANGED vars PROVE Goal
  BY <1>12, <1>17 DEF vars, process
<1> HIDE DEF Goal
<1>18. ASSUME NEW u \in Thread, Deliver(u) \/ Acquire(u) \/ HandlerStep(u) \/ ListFails(u) \/ CallFails(u) \/ DbFails(u)
       PROVE  Goal
  BY <1>3, <1>4, <1>5, <1>6, <1>7, <1>8, <1>9, <1>10, <1>11, <1>18 DEF HandlerStep
<1>19. Goal
  BY <1>11, <1>13, <1>14, <1>15, <1>16, <1>17, <1>18 DEF Next, CmdBegins
<1> QED
  BY <1>19 DEF Goal

\* Every step: a role stays, is gone, is created under a free id, or is named by
\* a handler's edit.
LEMMA NamesGrow ==
  ASSUME NoHalfCreation, TypeOK, Shape, [Next]_vars, NEW i \in Id
  PROVE  \/ guild'[i] = guild[i] \/ guild'[i] = NoRole
         \/ \E t \in Thread : Create(t) /\ i \notin InUse /\ i = Min(Id \ InUse) /\ guild'[i].n = Fresh
         \/ \E t \in Thread : Edit(t) /\ i = thr[t].id /\ guild[i] # NoRole /\ thr[t].m.n \in Name /\ guild'[i].n = thr[t].m.n
<1>1. GuildMoved(i)
  BY GuildMoves
<1>2. ASSUME NEW t \in Thread, Edit(t) PROVE thr[t].m.n \in Name
  BY <1>2, ThrWorks, MsgIsOfAKind DEF Edit, Shape, ThrShape, Upserting, Working
<1>3. \A t \in Thread : Create(t) => Min(Id \ InUse) \notin InUse
  BY NewId DEF Create
<1>4. "manual" \notin Faults
  BY DEF NoHalfCreation
<1> QED
  BY <1>1, <1>2, <1>3, <1>4 DEF GuildMoved

\* Every step: an id somebody takes for that of n still fits, because ids in use
\* are not given out and the only edit there can be names the role as expected.
LEMMA StillFits ==
  ASSUME NoHalfCreation, TypeOK, Shape, LockHeld, RefsFit, [Next]_vars,
         NEW n, n # Fresh, NEW i, Fits(n, i), i \in Id => i \in InUse
  PROVE  Fits(n, i)'
<1> SUFFICES ASSUME i \in Id PROVE guild'[i].n \in {n, "none"} \/ Naming(n, i)'
  BY DEF Fits
<1>0. guild \in [Id -> Shown \cup {NoRole}] /\ NoRole.n = "none" /\ Fresh # "none" /\ Fresh \notin Name /\ "none" \notin Name
  BY ConstantsAssumption DEF TypeOK, NoRole
<1>1. ASSUME NEW t \in Thread, Edit(t), i = thr[t].id, guild[i] # NoRole, thr[t].m.n \in Name, guild'[i].n = thr[t].m.n
      PROVE  guild'[i].n = n
  <2>1. lock = t /\ thr[t].m.act = "upsert" /\ thr[t].pc = "edit"
    BY <1>1 DEF Edit, LockHeld, Locking, Shape, ThrShape, Upserting
  <2>2. Fits(thr[t].m.n, i)
    BY <1>1, <2>1 DEF RefsFit
  <2>3. guild[i].n # "none"
    BY <1>0, <1>1 DEF Shown
  <2>4. \A u \in Thread : thr[u].pc \in {"store", "edit"} => u = t
    BY <2>1 DEF LockHeld, Locking
  <2>5. guild[i].n = n \/ (guild[i].n = Fresh /\ thr[t].m.n = n)
    BY <2>3, <2>4 DEF Fits, Naming
  <2>6. guild[i].n \in {thr[t].m.n, Fresh}
    BY <2>2, <2>3 DEF Fits, Naming
  <2> QED
    BY <1>0, <1>1, <2>5, <2>6
<1>2. ASSUME guild'[i] = guild[i], NEW t \in Thread,
             thr[t].pc \in {"store", "edit"}, thr[t].id = i, thr[t].m.n = n, guild[i].n = Fresh
      PROVE  Naming(n, i)'
  <2>1. ASSUME Edit(t) PROVE FALSE
    <3>1. guild[i] # NoRole
      BY <1>0, <1>2
    <3>2. guild'[i].n = thr[t].m.n
      BY <1>0, <1>2, <2>1, <3>1 DEF Edit
    <3>3. thr[t].m.n \in Name
      BY <2>1, ThrWorks, MsgIsOfAKind DEF Edit, Shape, ThrShape, Upserting, Working
    <3> QED
      BY <1>0, <1>2, <3>2, <3>3
  <2>2. thr[t] \in Working /\ thr \in [Thread -> ThrState]
    BY <1>2, ThrWorks DEF TypeOK
  <2>3. thr'[t].pc \in {"store", "edit"} /\ thr'[t].id = i /\ thr'[t].m.n = n
    <3>1. CASE thr'[t] = thr[t]
      BY <1>2, <3>1
    <3>2. CASE StoreId(t) \/ (DbFails(t) /\ thr[t].pc = "store" /\ thr' = [thr EXCEPT ![t].pc = "edit"])
      <4>1. thr' = [thr EXCEPT ![t].pc = "edit"]
        BY <3>2 DEF StoreId, GoOn
      <4> QED
        BY <1>2, <2>2, <4>1 DEF Working
    <3>3. ~CheckExists(t) /\ ~Create(t)
      BY <1>2 DEF CheckExists, Create
    <3> QED
      BY <1>2, <2>1, <3>1, <3>2, <3>3, HandlerArrives
  <2> QED
    BY <1>2, <2>3 DEF Naming
<1>3. guild[i].n \in {n, "none"} \/ Naming(n, i)
  BY DEF Fits
<1>4. CASE guild'[i] = guild[i]
  <2>1. CASE Naming(n, i)
    BY <1>2, <1>4, <2>1 DEF Naming
  <2> QED
    BY <1>3, <1>4, <2>1
<1> QED
  BY <1>0, <1>1, <1>4, NamesGrow

\* So every step keeps every reference fitting: what is stored or sent anew was
\* a reference before, is blank, or was just seen in the guild.
LEMMA RefsFitStep ==
  ASSUME NoHalfCreation, TypeOK, Shape, FilterThere, LockHeld, RefsFit, [Next]_vars
  PROVE  RefsFit'
<1>0. Fresh \notin Name /\ Zero \notin Id /\ Blank \notin Id /\ NoRole.n = "none" /\ "none" \notin Name
  BY ConstantsAssumption DEF NoRole
<1>1. ASSUME NEW n \in Name, NEW i, Fits(n, i), i \in Id => i \in InUse PROVE Fits(n, i)'
  BY <1>0, <1>1, StillFits
<1>2. \A n, i : i \in {Zero, Blank} => Fits(n, i)'
  BY <1>0 DEF Fits
<1>3. \A n \in Name : Fits(n, chatId[n]) /\ (chatId[n] \in Id => chatId[n] \in InUse)
  BY DEF RefsFit, InUse
<1>4. \A n \in Name : \A i \in Named(n) : Fits(n, i) /\ i \in InUse
  BY <1>0 DEF Fits, InUse, Named
<1>5. poll.pc \in {"rows", "fix"} => \A n \in DOMAIN poll.seen :
        LET i == poll.seen[n].id IN (n \in Name => Fits(n, i)) /\ (i \in Id => i \in InUse)
  BY <1>0 DEF RefsFit, InUse
<1>6. poll.pc = "fix" => \A n \in DOMAIN poll.db :
        LET i == poll.db[n].id IN n \in Name /\ Fits(n, i) /\ (i \in Id => i \in InUse)
  <2>1. poll.pc = "fix" => DOMAIN poll.db \subseteq Name
    BY DEF TypeOK, PollState, NoPoll, Snapshot
  <2> QED
    BY <2>1 DEF RefsFit, InUse
<1>7. ASSUME NEW n \in Name PROVE Fits(n, chatId[n])'
  <2> SUFFICES ASSUME NEW i, i = chatId'[n] PROVE Fits(n, i)'
    BY DEF Fits, Naming
  <2>1. ASSUME NEW c \in Cmd, cmd[c].pc = "store", cmd[c].n = n PROVE Fits(n, cmd[c].seen) /\ (cmd[c].seen \in Id => cmd[c].seen \in InUse)
    BY <2>1 DEF RefsFit, InUse
  <2>2. ASSUME NEW t \in Thread, thr[t].pc = "store", thr[t].m.n = n PROVE Fits(n, thr[t].id) /\ (thr[t].id \in Id => thr[t].id \in InUse)
    BY <2>2 DEF RefsFit, InUse, NoMsg, Shape, ThrShape, Upserting
  <2>3. i = Zero \/ (Fits(n, i) /\ (i \in Id => i \in InUse))
    BY <1>3, <1>5, <2>1, <2>2, StoredIds
  <2> QED
    BY <1>1, <1>2, <2>3
<1>8. ASSUME NEW m \in Msg, Carried(m) PROVE MsgFits(m)'
  <2>1. MsgFits(m)
    BY <1>8 DEF Carried, RefsFit, MsgFits
  <2>2. m.id \in Id => m.id \in InUse
    BY <1>8 DEF Carried, InUse, Range, NoMsg
  <2>3. m.act = "upsert" => m.n \in Name
    BY MsgIsOfAKind
  <2> QED
    BY <1>1, <2>1, <2>2, <2>3 DEF MsgFits
<1>9. ASSUME NEW k \in DOMAIN queue' PROVE MsgFits(queue[k])'
  <2>1. queue'[k] \in Msg /\ Carried(queue'[k])
    BY MessagesOnlyMove
  <2> QED
    BY <1>8, <2>1 DEF MsgFits, Fits, Naming
<1>10. ASSUME NEW t \in Thread, thr'[t].pc # "idle", thr'[t].m.act = "upsert"
       PROVE  Fits(thr[t].m.n, thr[t].m.id)' /\ Fits(thr[t].m.n, thr[t].id)'
  <2> SUFFICES ASSUME NEW n, n = thr'[t].m.n, NEW i, i = thr'[t].m.id, NEW j, j = thr'[t].id PROVE Fits(n, i)' /\ Fits(n, j)'
    BY DEF Fits, Naming
  <2>1. CASE thr[t].pc # "idle" /\ thr'[t].m = thr[t].m /\ thr'[t].id = thr[t].id
    <3>1. n \in Name
      BY <1>10, <2>1, ThrWorks, MsgIsOfAKind DEF Working
    <3>2. Fits(n, i) /\ Fits(n, j)
      BY <1>10, <2>1 DEF RefsFit
    <3>3. (i \in Id => i \in InUse) /\ (j \in Id => j \in InUse)
      BY <2>1, HandlerUsesIds
    <3> QED
      BY <1>1, <3>1, <3>2, <3>3
  <2>2. CASE thr[t].pc # "idle" /\ thr'[t].m = thr[t].m /\ Create(t) /\ thr'[t].id = Min(Id \ InUse) /\ thr'[t].pc = "store"
    <3>1. n \in Name
      BY <1>10, <2>2, ThrWorks, MsgIsOfAKind DEF Working
    <3>2. Fits(n, i)
      BY <1>10, <2>2 DEF RefsFit
    <3>5. i \in Id => i \in InUse
      BY <2>2, HandlerUsesIds
    <3>3. guild' = [guild EXCEPT ![j] = [n |-> Fresh, attr |-> FALSE]] /\ guild \in [Id -> Shown \cup {NoRole}]
      BY <2>2 DEF Create, TypeOK
    <3>4. Fits(n, j)'
      BY <2>2, <3>3 DEF Fits, Naming
    <3> QED
      BY <1>1, <3>1, <3>2, <3>4, <3>5
  <2>3. CASE thr'[t].pc = "wait" /\ \E k \in DOMAIN queue : thr'[t].m = queue[k] /\ thr'[t].id = queue[k].id
    <3>1. PICK k \in DOMAIN queue : thr'[t].m = queue[k] /\ thr'[t].id = queue[k].id
      BY <2>3
    <3>2. queue[k] \in Msg /\ Carried(queue[k])
      BY <3>1 DEF TypeOK, Carried
    <3>3. MsgFits(queue[k]) /\ (i \in Id => i \in InUse) /\ n \in Name /\ queue[k].act = "upsert" /\ j = i
      BY <1>10, <3>1, <3>2, MsgIsOfAKind DEF RefsFit, InUse, Range
    <3>4. Fits(n, i)
      BY <1>10, <3>1, <3>3 DEF MsgFits
    <3> QED
      BY <1>1, <3>3, <3>4
  <2> QED
    BY <1>10, <2>1, <2>2, <2>3, HandlerMoves
<1>11. ASSUME NEW c \in Cmd PROVE (cmd'[c].pc = "publish" => MsgFits(cmd[c].m)') /\ (cmd'[c].pc = "store" => Fits(cmd[c].n, cmd[c].seen)')
  <2>1. CmdMoved(c) /\ cmd \in [Cmd -> CmdState]
    BY CommandMoves DEF TypeOK
  <2>2. ASSUME NEW m, m = cmd'[c].m, cmd'[c].pc = "publish" PROVE MsgFits(m)'
    <3>1. CASE cmd'[c] = cmd[c]
      <4>1. m \in Msg /\ Carried(m)
        BY <2>1, <2>2, <3>1, CmdOfAKind DEF Carried
      <4> QED
        BY <1>8, <4>1
    <3>2. CASE m.act = "delete"
      BY <3>2 DEF MsgFits
    <3>3. CASE m.id = Blank
      BY <1>2, <3>3 DEF MsgFits
    <3> QED
      BY <2>1, <2>2, <3>1, <3>2, <3>3 DEF CmdMoved
  <2>3. ASSUME NEW n, n = cmd'[c].n, NEW i, i = cmd'[c].seen, cmd'[c].pc = "store" PROVE Fits(n, i)'
    <3>1. n \in Name
      <4>1. cmd'[c] \in CmdState
        BY TypeStep DEF TypeOK
      <4> QED
        BY <2>3, <4>1, CmdOfAKind
    <3>2. CASE cmd'[c] = cmd[c]
      <4>1. Fits(n, i) /\ (i \in Id => i \in InUse)
        BY <2>3, <3>2 DEF RefsFit, InUse
      <4> QED
        BY <1>1, <3>1, <4>1
    <3>3. CASE i \in Named(n)
      BY <1>1, <1>4, <3>1, <3>3
    <3> QED
      BY <2>1, <2>3, <3>2, <3>3 DEF CmdMoved
  <2> QED
    BY <2>2, <2>3 DEF MsgFits, Fits, Naming
<1>12. PollMoved /\ poll' \in PollState
  BY PollMoves, TypeStep DEF TypeOK
<1>13. ASSUME poll'.pc \in {"rows", "fix"}, NEW n \in DOMAIN poll'.seen \ {Fresh} PROVE Fits(n, poll.seen[n].id)'
  <2> SUFFICES ASSUME NEW i, i = poll'.seen[n].id PROVE Fits(n, i)'
    BY DEF Fits, Naming
  <2>1. n \in Name
    BY <1>12, <1>13 DEF PollState, NoPoll, Snapshot
  <2>2. Fits(n, i) /\ (i \in Id => i \in InUse)
    BY <1>4, <1>5, <1>12, <1>13, <2>1 DEF PollMoved
  <2> QED
    BY <1>1, <2>1, <2>2
<1>14. ASSUME poll'.pc = "fix", NEW n \in DOMAIN poll'.db PROVE Fits(n, poll.db[n].id)'
  <2> SUFFICES ASSUME NEW i, i = poll'.db[n].id PROVE Fits(n, i)'
    BY DEF Fits, Naming
  <2>1. n \in Name
    BY <1>12, <1>14 DEF PollState, NoPoll, Snapshot
  <2>2. Fits(n, i) /\ (i \in Id => i \in InUse)
    BY <1>3, <1>5, <1>6, <1>12, <1>14, <2>1 DEF PollMoved
  <2> QED
    BY <1>1, <2>1, <2>2
<1>15. ASSUME poll'.pc = "publish", NEW m \in poll'.todo PROVE MsgFits(m)'
  <2>1. m \in Msg
    BY <1>12, <1>15 DEF PollState, NoPoll
  <2>2. CASE poll.pc = "publish" /\ m \in poll.todo
    BY <1>8, <2>1, <2>2 DEF Carried
  <2>3. CASE m.act = "delete"
    BY <2>3 DEF MsgFits
  <2>4. CASE poll.pc = "fix" /\ m.n \in DOMAIN poll.db /\ m.id = poll.db[m.n].id
    BY <1>1, <1>6, <2>4 DEF MsgFits
  <2> QED
    BY <1>12, <1>15, <2>2, <2>3, <2>4 DEF PollMoved
<1> QED
  BY <1>7, <1>9, <1>10, <1>11, <1>13, <1>14, <1>15 DEF RefsFit

\* Every step keeps the name of the role being created unused: the lock keeps
\* other handlers out, and an edit of an old id is of a role that has its name.
LEMMA NewIsOnlyStep ==
  ASSUME NoHalfCreation, TypeOK, Shape, LockHeld, RefsFit, NewIsOnly, [Next]_vars
  PROVE  NewIsOnly'
<1> DEFINE Only(h) ==
         /\ h.pc = "create" => ~Exists(h.m.n)
         /\ h.pc = "store" => guild[h.id].n = Fresh
         /\ h.pc \in {"store", "edit"} /\ h.id \in Id /\ guild[h.id].n = Fresh => ~Exists(h.m.n)
<1>0. thr \in [Thread -> ThrState] /\ guild \in [Id -> Shown \cup {NoRole}] /\ Fresh \notin Name
  BY ConstantsAssumption DEF TypeOK
<1> SUFFICES ASSUME NEW t \in Thread, NEW h, h = thr'[t] PROVE Only(h)'
  BY DEF NewIsOnly
<1>1. ASSUME \A i \in Id : guild'[i] = guild[i], Only(h), h.pc = "store" => h.id \in Id PROVE Only(h)'
  <2>1. ASSUME NEW n PROVE Exists(n)' <=> Exists(n)
    BY <1>1 DEF Exists, Named
  <2> QED
    BY <1>1, <2>1
<1>2. CASE h = thr[t]
  <2>1. CASE h.pc \in Locking
    <3>1. Only(h) /\ (h.pc = "store" => h.id \in Id)
      BY <1>2 DEF NewIsOnly, Shape, ThrShape
    <3>2. \A i \in Id : guild'[i] = guild[i]
      BY <1>2, <2>1, HolderRests
    <3> QED
      BY <1>1, <3>1, <3>2
  <2>2. CASE h.pc \notin Locking
    BY <2>2 DEF Locking
  <2> QED
    BY <2>1, <2>2
<1>3. CASE h.pc \notin {"create", "store", "edit"}
  BY <1>3
<1>4. CASE CheckExists(t)
  <2>1. thr[t] \in Working /\ thr[t].pc = "exists" /\ guild' = guild
    BY <1>4, ThrWorks DEF CheckExists
  <2>2. thr[t].m.act = "upsert" /\ thr[t].id = thr[t].m.id /\ lock = t /\ thr[t].m.n \in Name
    BY <2>1, MsgIsOfAKind DEF Shape, ThrShape, Upserting, LockHeld, Locking, Working
  <2>3. h.m = thr[t].m /\ h.id = thr[t].id /\ h.pc \in {"create", "ack", "edit"} /\ (h.pc = "create" => ~Exists(thr[t].m.n))
    BY <1>0, <1>4, <2>1 DEF CheckExists, Return, GoOn, Working
  <2>4. thr[t].id \in Id => guild[thr[t].id].n # Fresh
    <3>1. Fits(thr[t].m.n, thr[t].id)
      BY <2>1, <2>2 DEF RefsFit
    <3>2. ~Naming(thr[t].m.n, thr[t].id)
      BY <2>1, <2>2 DEF Naming, LockHeld, Locking
    <3> QED
      BY <1>0, <2>2, <3>1, <3>2, ConstantsAssumption DEF Fits
  <2> QED
    BY <1>1, <2>1, <2>3, <2>4
<1>5. CASE Create(t)
  <2> DEFINE g == [thr[t] EXCEPT !.pc = "store", !.id = Min(Id \ InUse)]
  <2>1. thr' = [thr EXCEPT ![t] = g] /\ thr[t].pc = "create" /\ guild' = [guild EXCEPT ![Min(Id \ InUse)] = [n |-> Fresh, attr |-> FALSE]]
    BY <1>5 DEF Create
  <2>2. thr[t] \in Working /\ Min(Id \ InUse) \in Id
    BY <1>5, <2>1, ThrWorks, NewId DEF Create
  <2>3. g.pc = "store" /\ g.m = thr[t].m /\ g.id = Min(Id \ InUse)
    BY <2>2 DEF Working
  <2> HIDE DEF g
  <2>4. h.pc = "store" /\ h.m = thr[t].m /\ h.id = Min(Id \ InUse)
    BY <1>0, <2>1, <2>3
  <2>5. guild'[h.id].n = Fresh
    BY <1>0, <2>1, <2>2, <2>4
  <2>6. ~Exists(h.m.n) /\ h.m.n \in Name
    BY <2>1, <2>2, <2>4, MsgIsOfAKind DEF NewIsOnly, Shape, ThrShape, Upserting, Working
  <2>7. ~Exists(h.m.n)'
    BY <1>0, <2>1, <2>2, <2>6 DEF Exists, Named
  <2> QED
    BY <2>4, <2>5, <2>7
<1>6. CASE StoreId(t) \/ (DbFails(t) /\ thr[t].pc = "store" /\ thr' = [thr EXCEPT ![t].pc = "edit"])
  <2>1. thr' = [thr EXCEPT ![t].pc = "edit"] /\ thr[t].pc = "store" /\ guild' = guild
    BY <1>6 DEF StoreId, GoOn, DbFails
  <2>2. h.pc = "edit" /\ h.m = thr[t].m /\ h.id = thr[t].id
    BY <1>0, <2>1, ThrWorks DEF Working
  <2>3. Only(h)
    BY <2>1, <2>2 DEF NewIsOnly
  <2> QED
    BY <1>1, <2>1, <2>2, <2>3
<1> QED
  BY <1>2, <1>3, <1>4, <1>5, <1>6, HandlerArrives

\* Every step keeps names unique: a role that is given a name has it already, or
\* is the new one.
LEMMA UniqueNamesStep ==
  ASSUME NoHalfCreation, TypeOK, Shape, LockHeld, RefsFit, NewIsOnly, UniqueNames, [Next]_vars
  PROVE  UniqueNames'
<1>0. guild \in [Id -> Shown \cup {NoRole}] /\ NoRole.n = "none" /\ Fresh \notin Name /\ "none" \notin Name /\ "none" # Fresh
  BY ConstantsAssumption DEF TypeOK, NoRole
<1> SUFFICES ASSUME NEW n \in Name, NEW i \in Id, NEW j \in Id, guild'[i].n = n, guild'[j].n = n
             PROVE  i = j
  BY DEF UniqueNames, Named
<1>1. ASSUME NEW t \in Thread, Edit(t), guild[thr[t].id].n # n, thr[t].id \in Id, guild[thr[t].id] # NoRole, thr[t].m.n = n
      PROVE  \A k \in Id : guild[k].n # n
  <2>1. thr[t].m.act = "upsert" /\ thr[t].pc = "edit"
    BY <1>1 DEF Edit, Shape, ThrShape, Upserting
  <2>2. Fits(n, thr[t].id) /\ guild[thr[t].id].n # "none"
    BY <1>0, <1>1, <2>1 DEF RefsFit, Shown
  <2>3. guild[thr[t].id].n = Fresh
    BY <1>1, <2>2 DEF Fits, Naming
  <2> QED
    BY <1>1, <2>1, <2>3 DEF NewIsOnly, Exists, Named
<1>2. ASSUME NEW k \in Id, guild'[k].n = n
      PROVE  guild[k].n = n \/ \E t \in Thread : Edit(t) /\ k = thr[t].id /\ guild[k] # NoRole /\ thr[t].m.n = n
  BY <1>0, <1>2, NamesGrow
<1>3. ASSUME NEW t \in Thread, NEW u \in Thread, Edit(t), Edit(u) PROVE t = u
  BY <1>3 DEF Edit, LockHeld, Locking
<1>4. CASE guild[i].n = n /\ guild[j].n = n
  BY <1>4 DEF UniqueNames, Named
<1>5. CASE guild[i].n = n /\ guild[j].n # n
  BY <1>1, <1>2, <1>5
<1>6. CASE guild[i].n # n /\ guild[j].n = n
  BY <1>1, <1>2, <1>6
<1>7. CASE guild[i].n # n /\ guild[j].n # n
  BY <1>2, <1>3, <1>7
<1> QED
  BY <1>4, <1>5, <1>6, <1>7

\* A set whose members are all equal has at most one.
LEMMA AtMostOne ==
  ASSUME NEW S, \A i, j \in S : i = j
  PROVE  Cardinality(S) <= 1
<1>1. CASE S = {}
  BY <1>1, FS_EmptySet
<1>2. CASE S # {}
  <2>1. PICK i \in S : S = {i}
    BY <1>2
  <2>2. Cardinality({i}) = 1
    BY FS_Singleton
  <2> QED
    BY <2>1, <2>2
<1> QED
  BY <1>1, <1>2

\* One name never has two roles in the guild, however commands, handlers and
\* rounds interleave and whatever statement fails, messages are lost or round meets
\* a creation, as long as no creation is cut in half.
THEOREM NoTwinRoles ==
  ASSUME NoHalfCreation
  PROVE  Spec => []OneRolePerName
<1>1. Init => OneRoleInv
  <2> SUFFICES ASSUME Init PROVE OneRoleInv
    OBVIOUS
  <2>1. TypeOK /\ Shape /\ FilterThere /\ LockHeld
    BY InitTypes
  <2>2. \A n \in Name : Fits(n, chatId[n])
    BY InitIds DEF Fits
  <2>3. RefsFit
    BY <2>2, EmptySeq DEF Init, RefsFit, NoMsg, NoCmd, NoPoll
  <2>4. NewIsOnly
    BY DEF Init, NewIsOnly, NoMsg
  <2>5. guild = [i \in Id |->
          IF \E n \in rows \cup Ignored : IdAtStart[n] = i
          THEN [n |-> CHOOSE n \in rows \cup Ignored : IdAtStart[n] = i, attr |-> TRUE]
          ELSE NoRole]
    BY DEF Init
  <2>6. ASSUME NEW n \in Name, NEW i \in Named(n) PROVE i = IdAtStart[n]
    <3>1. i \in Id /\ guild[i].n = n /\ n # "none"
      BY <2>6, ConstantsAssumption DEF Named
    <3>2. \E m \in rows \cup Ignored : IdAtStart[m] = i
      BY <2>5, <3>1 DEF NoRole
    <3> QED
      BY <2>5, <3>1, <3>2
  <2> QED
    BY <2>1, <2>3, <2>4, <2>6 DEF OneRoleInv, UniqueNames
<1>2. OneRoleInv /\ [Next]_vars => OneRoleInv'
  BY TypeStep, FilterThereStep, LockStep, RefsFitStep, NewIsOnlyStep, UniqueNamesStep DEF OneRoleInv
<1>3. OneRoleInv => OneRolePerName
  BY AtMostOne DEF OneRoleInv, UniqueNames, OneRolePerName
<1> QED
  BY <1>1, <1>2, <1>3, PTL DEF Spec

=============================================================================
