------------------------ MODULE MemberOneKind_proofs ------------------------
(***************************************************************************)
(* No addition and no removal is lost, for every number of users, roles,   *)
(* filters, overlapping commands and handler goroutines, while the         *)
(* commands are of one kind and nothing fails.                             *)
(*                                                                         *)
(* One argument serves both kinds.  A membership (u, r) is turned when the *)
(* tables have it the way this kind of command makes it, and no step turns *)
(* it back.  Onward says that whatever speaks for a turned membership (the *)
(* guild, a message, a read of a command or of the poller) implies that it *)
(* is turned, and that no message speaks for the opposite.  Hence whoever  *)
(* turns it finds it unturned in what its command read, and will publish.  *)
(***************************************************************************)
EXTENDS MemberOneKind, MemberSync_proofs

\* The state of a membership that this kind of command brings about, in the
\* tables and in the guild, and the message that goes with it.
Turned(u, r) == kind = "add" <=> r \in GetMembership(u)
Shown(u, r)  == kind = "add" <=> r \in holds[u]
Act(op)      == IF op = "add" THEN "upsert" ELSE "delete"

\* A message is on its way or about to be published.
Underway(op, u, r) ==
  \/ Coming(Act(op), u, r)
  \/ \E c \in Cmd : cmd[c].pc = "publish" /\ cmd[c].op = op /\ cmd[c].u = u /\ r \in cmd[c].todo
  \/ poll.pc = "publish" /\ poll.u = u /\ r \in IF op = "add" THEN poll.add ELSE poll.del

\* A turned membership is shown, or a message for it is on its way or promised.
Covered(u, r) == Turned(u, r) => Shown(u, r) \/ Coming(Act(kind), u, r) \/ Promised(kind, u, r)

\* Nothing fails, nothing is set to no sync, and nobody deletes filters.
Calm ==
  /\ kind \in {"add", "remove"}
  /\ connected /\ guild = User /\ Settled
  /\ \A r \in Managed : IsFiniteSet(filtersOf[r])
  /\ \A c \in Cmd : cmd[c] # NoCmd => cmd[c].op = kind
  /\ kind = "remove" => rows = Managed

\* Nobody has a reason to go back: what the guild shows, a message says, a
\* command read before its statement, or the poller read before it compares, is
\* not ahead of the tables, and no message says the opposite.
Onward(u, r) ==
  /\ Shown(u, r) => Turned(u, r)
  /\ Underway(kind, u, r) => Turned(u, r)
  /\ \A op \in {"add", "remove"} \ {kind} : ~Underway(op, u, r)
  /\ poll.pc = "read" /\ poll.u = u /\ (kind = "add" <=> r \in poll.has) => Turned(u, r)
  /\ \A c \in Cmd : cmd[c] # NoCmd /\ cmd[c].u = u /\ (kind = "add" <=> r \in cmd[c].before) => Turned(u, r)

\* The inductive invariant, for the roles created beforehand that have a row.
KindInv == Calm /\ \A u \in User : \A r \in Created \cap rows : Onward(u, r) /\ Covered(u, r)

\* What is assumed of the theorems below: nothing fails, and the roles change
\* only by being destroyed.
OneKindOnly == Faults = {} /\ Ops \subseteq {"add", "remove", "destroy"}

-----------------------------------------------------------------------------
(* The tables                                                              *)

\* A role with an id belongs to whoever is in all of its filters.
LEMMA InMembership ==
  ASSUME TypeOK, NEW u \in User, NEW r \in Managed, IsFiniteSet(filtersOf[r])
  PROVE  r \in GetMembership(u) <=>
           /\ r \in rows /\ r \in linked
           /\ filtersOf[r] # {} /\ \A f \in filtersOf[r] : u \in member[f]
<1>1. r # NoChat
  BY ConstantsAssumption DEF Managed
<1>2. HasRole(member, filtersOf[r], u) <=> filtersOf[r] # {} /\ \A f \in filtersOf[r] : u \in member[f]
  BY CountIsAll
<1> QED
  BY <1>1, <1>2 DEF GetMembership, ChatIds, MemberRoles

\* The disjuncts of Next that are left.
LEMMA Steps ==
  ASSUME OneKindOnly, TypeOK, Calm, [KindNext]_<<vars, kind>>
  PROVE  /\ kind' = kind /\ (rows' = rows \/ kind = "add") /\ [Next]_vars
         /\ \A c \in Cmd : cmd'[c] # NoCmd => cmd'[c].op = kind
         /\ \/ UNCHANGED vars
            \/ \E c \in Cmd, u \in User, f \in Filter : Begin(c, kind, u, f)
            \/ \E c \in Cmd : Lookup(c) \/ AddRow(c) \/ RemoveRow(c) \/ Compare(c) \/ PublishDiff(c)
            \/ \E r \in Managed : CreateRole(r) \/ CreationStep(r) \/ DestroyRole(r) \/ DeleteRole(r)
            \/ \E t \in Thread, m \in Msg : Deliver(t, m)
            \/ \E t \in Thread : Acquire(t) \/ HandlerStep(t)
            \/ PollStep
<1>1. CASE UNCHANGED <<vars, kind>>
  BY <1>1 DEF Calm, vars, tables, process
<1>2. CASE KindNext
  <2>1. Next /\ OfKind /\ kind' = kind
    BY <1>2 DEF KindNext
  <2>2. \A c \in Cmd : cmd'[c] # NoCmd => cmd'[c].op = kind
    BY <2>1 DEF OfKind
  <2>3. rows' = rows \/ kind = "add"
    BY <2>1 DEF OfKind, Calm
  <2>4. ASSUME NEW c \in Cmd, NEW op \in {"add", "remove"}, NEW u \in User, NEW f \in Filter, Begin(c, op, u, f)
        PROVE  op = kind
    <3> DEFINE k == [pc |-> "lookup", op |-> op, u |-> u, f |-> f, before |-> GetMembership(u), todo |-> {}]
    <3>1. cmd'[c] = k
      BY <2>4 DEF Begin, TypeOK
    <3>2. k # NoCmd /\ k.op = op
      <4>1. k.op = op /\ k.pc = "lookup" /\ NoCmd.pc = "idle"
        BY DEF NoCmd
      <4> QED
        BY <4>1
    <3> HIDE DEF k
    <3> QED
      BY <2>2, <3>1, <3>2
  <2>5. ASSUME NEW c \in Cmd, DeleteMembers(c) \/ DeleteLinks(c) \/ DeleteFilterRow(c) PROVE FALSE
    <3>1. cmd[c] # NoCmd /\ cmd[c].pc \in {"members", "links", "row"}
      BY <2>5 DEF DeleteMembers, DeleteLinks, DeleteFilterRow, NoCmd
    <3>2. cmd[c].op = "delete"
      BY <3>1 DEF TypeOK, CmdState, NoCmd
    <3> QED
      BY <3>1, <3>2 DEF Calm
  <2>6. "delete" \notin Ops /\ "sync" \notin Ops /\ Faults = {}
    BY DEF OneKindOnly
  <2> QED
    BY <2>1, <2>2, <2>3, <2>4, <2>5, <2>6 DEF Next, CmdStep, BeginDelete, SetSync, DeleteGuildRole,
       AcquireFails, CheckFails, ApplyFails, CmdFails, CreationFails, PollFails, Crash, BrokerRestart, LeaveGuild
<1> QED
  BY <1>1, <1>2

LEMMA CalmStep ==
  ASSUME OneKindOnly, TypeOK, Calm, [KindNext]_<<vars, kind>>
  PROVE  Calm'
<1> USE ConstantsAssumption
<1>1. /\ kind' = kind /\ (rows' = rows \/ kind = "add")
      /\ \A c \in Cmd : cmd'[c] # NoCmd => cmd'[c].op = kind
  BY Steps
<1>2. UNCHANGED <<connected, guild>> /\ (UNCHANGED filtersOf \/ \E r \in Managed : DestroyRole(r))
  BY Steps DEF vars, tables, discord, broker, process, Begin, Lookup, AddRow, RemoveRow, Compare, PublishDiff,
     CreateRole, CreationStep, StoreRole, NameRole, DestroyRole, DeleteRole, Deliver, Acquire, HandlerStep,
     Check, Apply, ApplyNotFound, Ack, PollStep, PollGuild, PollRows, PollUser, PollCompare, PollPublish
<1>3. \A q \in Managed : IsFiniteSet(filtersOf'[q])
  <2>1. ASSUME NEW r \in Managed, DestroyRole(r), NEW q \in Managed PROVE IsFiniteSet(filtersOf'[q])
    <3>1. filtersOf'[q] = IF q = r THEN {} ELSE filtersOf[q]
      BY <2>1 DEF DestroyRole, TypeOK
    <3> QED
      BY <3>1, FS_EmptySet DEF Calm
  <2> QED
    BY <1>2, <2>1 DEF Calm
<1>4. Settled'
  BY SettledStep, Steps DEF OneKindOnly, Calm
<1> QED
  BY <1>1, <1>2, <1>3, <1>4 DEF Calm

\* A step brings a membership into the state its kind asks for, and never back;
\* it does so only as the statement of a command for that user.
LEMMA TurnedSteps ==
  ASSUME OneKindOnly, TypeOK, Calm, [KindNext]_<<vars, kind>>,
         NEW u \in User, NEW r \in Created \cap rows'
  PROVE  /\ r \in rows /\ r \in Managed /\ (Turned(u, r) => Turned(u, r)')
         /\ Turned(u, r)' => \/ Turned(u, r)
                             \/ \E c \in Cmd : /\ cmd[c].pc = "write" /\ cmd[c].u = u /\ (AddRow(c) \/ RemoveRow(c))
                                               /\ cmd' = [cmd EXCEPT ![c].pc = "after"]
<1> USE ConstantsAssumption
<1>0. TypeOK' /\ Calm' /\ kind' = kind /\ kind \in {"add", "remove"}
  BY TypeStep, CalmStep, Steps DEF Calm
<1>1. r \in Managed /\ r \in rows /\ r \in linked /\ r \in linked'
  <2>1. r \in Managed /\ (r \in rows => r \in linked) /\ r \in linked'
    BY <1>0 DEF Calm, Settled, Managed
  <2>2. rows' \subseteq rows
    BY Steps DEF vars, tables, discord, broker, process, Begin, Lookup, AddRow, RemoveRow, Compare, PublishDiff,
      CreateRole, CreationStep, StoreRole, NameRole, DestroyRole, DeleteRole, Deliver, Acquire, HandlerStep, Check, Apply, ApplyNotFound, Ack,
      PollStep, PollGuild, PollRows, PollUser, PollCompare, PollPublish
  <2> QED
    BY <2>1, <2>2
<1>2. filtersOf'[r] = filtersOf[r]
  <2>1. ASSUME NEW q \in Managed, DestroyRole(q) PROVE filtersOf'[r] = filtersOf[r]
    <3>1. q # r
      BY <2>1 DEF DestroyRole
    <3> QED
      BY <1>1, <2>1, <3>1 DEF DestroyRole, TypeOK
  <2> QED
    BY <2>1, Steps DEF vars, tables, discord, broker, process, Begin, Lookup, AddRow, RemoveRow, Compare, PublishDiff,
      CreateRole, CreationStep, StoreRole, NameRole, DeleteRole, Deliver, Acquire, HandlerStep, Check, Apply, ApplyNotFound, Ack,
      PollStep, PollGuild, PollRows, PollUser, PollCompare, PollPublish
<1>3. /\ r \in GetMembership(u) <=> filtersOf[r] # {} /\ \A f \in filtersOf[r] : u \in member[f]
      /\ r \in GetMembership(u)' <=> filtersOf[r] # {} /\ \A f \in filtersOf[r] : u \in member'[f]
  <2>1. r \in GetMembership(u) <=> filtersOf[r] # {} /\ \A f \in filtersOf[r] : u \in member[f]
    BY <1>1, InMembership DEF Calm
  <2>2. r \in GetMembership(u)' <=> filtersOf'[r] # {} /\ \A f \in filtersOf'[r] : u \in member'[f]
    <3>1. r # NoChat
      BY <1>1 DEF Managed
    <3>2. HasRole(member', filtersOf'[r], u) <=> filtersOf'[r] # {} /\ \A f \in filtersOf'[r] : u \in member'[f]
      BY <1>0, <1>1, CountIsAll DEF Calm
    <3> QED
      BY <1>1, <3>1, <3>2 DEF GetMembership, ChatIds, MemberRoles
  <2> QED
    BY <1>2, <2>1, <2>2
<1>4. filtersOf[r] \subseteq Filter /\ member \in [Filter -> SUBSET User]
  BY <1>1 DEF TypeOK
<1>5. \/ UNCHANGED member
      \/ \E c \in Cmd : /\ cmd[c].pc = "write" /\ (AddRow(c) \/ RemoveRow(c))
                        /\ cmd' = [cmd EXCEPT ![c].pc = "after"]
  BY Steps DEF vars, tables, discord, broker, process, Begin, Lookup, AddRow, RemoveRow, Compare, PublishDiff,
    CreateRole, CreationStep, StoreRole, NameRole, DestroyRole, DeleteRole, Deliver, Acquire, HandlerStep, Check, Apply, ApplyNotFound, Ack,
    PollStep, PollGuild, PollRows, PollUser, PollCompare, PollPublish
<1>6. CASE UNCHANGED member
  BY <1>0, <1>1, <1>3, <1>6 DEF Turned
<1>7. ASSUME NEW c \in Cmd, cmd[c].pc = "write", AddRow(c) \/ RemoveRow(c), cmd' = [cmd EXCEPT ![c].pc = "after"]
      PROVE  /\ Turned(u, r) => Turned(u, r)'
             /\ Turned(u, r)' => Turned(u, r) \/ cmd[c].u = u
  <2>1. cmd[c].op = kind
    BY <1>7 DEF Calm, NoCmd
  <2>2. CASE kind = "add"
    <3>1. AddRow(c)
      BY <1>7, <2>1, <2>2 DEF RemoveRow
    <3>2. /\ \A f \in Filter : member[f] \subseteq member'[f]
          /\ \A f \in Filter : u \in member'[f] => u \in member[f] \/ cmd[c].u = u
      BY <1>4, <3>1 DEF AddRow
    <3> QED
      BY <1>0, <1>3, <1>4, <2>2, <3>2 DEF Turned
  <2>3. CASE kind = "remove"
    <3>1. RemoveRow(c)
      BY <1>7, <2>1, <2>3 DEF AddRow
    <3>2. /\ \A f \in Filter : member'[f] \subseteq member[f]
          /\ \A f \in Filter : u \in member[f] => u \in member'[f] \/ cmd[c].u = u
      BY <1>4, <3>1 DEF RemoveRow
    <3> QED
      BY <1>0, <1>3, <1>4, <2>3, <3>2 DEF Turned
  <2> QED
    BY <1>0, <2>2, <2>3
<1> QED
  BY <1>1, <1>5, <1>6, <1>7

-----------------------------------------------------------------------------
(* The commands and the poller                                             *)

\* The statements of an added or removed membership.
LEMMA CommandFields ==
  ASSUME TypeOK, Calm, NEW c \in Cmd, cmd[c] # NoCmd
  PROVE  /\ cmd[c] \in [pc : {"lookup", "write", "after", "publish"}, op : {"add", "remove"},
                         u : User, f : Filter, before : SUBSET ChatId, todo : SUBSET Role]
         /\ cmd[c].op = kind
<1>1. cmd[c].op = kind /\ kind \in {"add", "remove"}
  BY DEF Calm
<1> QED
  BY <1>1 DEF TypeOK, CmdState

\* What a command has read and will publish changes only in its own steps.
LEMMA CmdMoves ==
  ASSUME OneKindOnly, TypeOK, Calm, [KindNext]_<<vars, kind>>, NEW c \in Cmd
  PROVE  \/ cmd'[c] = cmd[c]
         \/ cmd'[c] = NoCmd /\ cmd[c].pc \in {"lookup", "write"}
         \/ cmd[c] = NoCmd /\ cmd'[c].pc = "lookup" /\ cmd'[c].u \in User
              /\ cmd'[c].before = GetMembership(cmd'[c].u)
         \/ /\ cmd[c] # NoCmd /\ cmd[c].pc \in {"lookup", "write"} /\ cmd'[c].pc \in {"write", "after"}
            /\ cmd'[c].u = cmd[c].u /\ cmd'[c].before = cmd[c].before
         \/ Compare(c) \/ PublishDiff(c)
<1> DEFINE Goal == \/ cmd'[c] = cmd[c]
                   \/ cmd'[c] = NoCmd /\ cmd[c].pc \in {"lookup", "write"}
                   \/ /\ cmd[c] = NoCmd /\ cmd'[c].pc = "lookup" /\ cmd'[c].u \in User
                      /\ cmd'[c].before = GetMembership(cmd'[c].u)
                   \/ /\ cmd[c] # NoCmd /\ cmd[c].pc \in {"lookup", "write"} /\ cmd'[c].pc \in {"write", "after"}
                      /\ cmd'[c].u = cmd[c].u /\ cmd'[c].before = cmd[c].before
                   \/ Compare(c) \/ PublishDiff(c)
<1>1. ASSUME NEW d \in Cmd, NEW u \in User, NEW f \in Filter, Begin(d, kind, u, f) PROVE Goal
  <2> DEFINE k == [pc |-> "lookup", op |-> kind, u |-> u, f |-> f, before |-> GetMembership(u), todo |-> {}]
  <2>1. cmd'[c] = IF c = d THEN k ELSE cmd[c]
    BY <1>1 DEF Begin, TypeOK
  <2>2. k.pc = "lookup" /\ k.u = u /\ k.before = GetMembership(u)
    OBVIOUS
  <2>3. cmd[d] = NoCmd
    BY <1>1 DEF Begin
  <2> HIDE DEF k
  <2> QED
    BY <2>1, <2>2, <2>3
<1>2. ASSUME NEW d \in Cmd, Lookup(d) PROVE Goal
  <2>1. CASE c # d
    <3>1. cmd'[c] = cmd[c]
      BY <1>2, <2>1 DEF Lookup, TypeOK
    <3> QED
      BY <3>1
  <2>2. CASE c = d
    <3>1. cmd[c].pc = "lookup" /\ cmd[c] # NoCmd
      BY <1>2, <2>2 DEF Lookup, NoCmd
    <3>2. /\ cmd[c] \in [pc : {"lookup", "write", "after", "publish"}, op : {"add", "remove"},
                         u : User, f : Filter, before : SUBSET ChatId, todo : SUBSET Role]
          /\ cmd[c].op # "delete"
      BY <3>1, CommandFields
    <3>3. cmd'[c] = NoCmd \/ cmd'[c] = [cmd[c] EXCEPT !.pc = "write"]
      BY <1>2, <2>2, <3>2 DEF Lookup, TypeOK
    <3>4. cmd'[c] = NoCmd \/ (cmd'[c].pc = "write" /\ cmd'[c].u = cmd[c].u /\ cmd'[c].before = cmd[c].before)
      BY <3>2, <3>3
    <3> QED
      BY <3>1, <3>4
  <2> QED
    BY <2>1, <2>2
<1>3. ASSUME NEW d \in Cmd, AddRow(d) \/ RemoveRow(d) PROVE Goal
  <2>1. CASE c # d
    <3>1. cmd'[c] = cmd[c]
      BY <1>3, <2>1 DEF AddRow, RemoveRow, TypeOK
    <3> QED
      BY <3>1
  <2>2. CASE c = d
    <3>1. cmd[c].pc = "write" /\ cmd[c] # NoCmd
      BY <1>3, <2>2 DEF AddRow, RemoveRow, NoCmd
    <3>2. cmd[c] \in [pc : {"lookup", "write", "after", "publish"}, op : {"add", "remove"},
                      u : User, f : Filter, before : SUBSET ChatId, todo : SUBSET Role]
      BY <3>1, CommandFields
    <3>3. cmd'[c] = NoCmd \/ cmd'[c] = [cmd[c] EXCEPT !.pc = "after"]
      BY <1>3, <2>2 DEF AddRow, RemoveRow, TypeOK
    <3>4. cmd'[c] = NoCmd \/ (cmd'[c].pc = "after" /\ cmd'[c].u = cmd[c].u /\ cmd'[c].before = cmd[c].before)
      BY <3>2, <3>3
    <3> QED
      BY <3>1, <3>4
  <2> QED
    BY <2>1, <2>2
<1>4. ASSUME NEW d \in Cmd, Compare(d) \/ PublishDiff(d) PROVE Goal
  <2>1. ASSUME c # d PROVE cmd'[c] = cmd[c]
    BY <1>4, <2>1 DEF Compare, PublishDiff, TypeOK
  <2> QED
    BY <1>4, <2>1
<1>5. ASSUME cmd' = cmd PROVE Goal
  BY <1>5
<1> HIDE DEF Goal
<1>6. Goal
  BY <1>1, <1>2, <1>3, <1>4, <1>5, Steps DEF vars, process, CreateRole, CreationStep, StoreRole, NameRole, DestroyRole, DeleteRole, Deliver, Acquire,
     HandlerStep, Check, Apply, ApplyNotFound, Ack, PollStep, PollGuild, PollRows, PollUser, PollCompare, PollPublish
<1> QED
  BY <1>6 DEF Goal

\* The comparison: a command will publish what its statement brought about.
LEMMA CompareMoves ==
  ASSUME TypeOK, Calm, NEW c \in Cmd, Compare(c), NEW r \in Role
  PROVE  /\ cmd[c].pc = "after" /\ cmd[c].u \in User /\ cmd[c].op = kind /\ cmd[c] # NoCmd
         /\ queue' = queue
         /\ \/ cmd'[c] = NoCmd
            \/ cmd'[c].pc = "publish" /\ cmd'[c].u = cmd[c].u /\ cmd'[c].op = kind /\ cmd'[c].before = cmd[c].before
         /\ (cmd'[c] # NoCmd /\ r \in cmd'[c].todo) <=>
              ((kind = "add" <=> r \in GetMembership(cmd[c].u)) /\ (kind = "add" <=> r \notin cmd[c].before))
<1> USE ConstantsAssumption
<1>1. cmd[c].pc = "after" /\ cmd[c] # NoCmd
  BY DEF Compare, NoCmd
<1>2. /\ cmd[c] \in [pc : {"lookup", "write", "after", "publish"}, op : {"add", "remove"},
                      u : User, f : Filter, before : SUBSET ChatId, todo : SUBSET Role]
      /\ cmd[c].op = kind
  BY <1>1, CommandFields
<1> DEFINE after == GetMembership(cmd[c].u)
           diff  == IF cmd[c].op = "add" THEN after \ cmd[c].before ELSE cmd[c].before \ after
           todo  == diff \ {NoChat}
           next  == [cmd[c] EXCEPT !.pc = "publish", !.todo = todo]
<1>3. cmd'[c] = IF todo = {} THEN NoCmd ELSE next
  BY DEF Compare, TypeOK
<1>4. /\ next.pc = "publish" /\ next.u = cmd[c].u /\ next.op = cmd[c].op /\ next.before = cmd[c].before
      /\ next.todo = todo
  BY <1>2
<1>5. next # NoCmd
  <2>1. NoCmd.pc = "idle"
    BY DEF NoCmd
  <2> QED
    BY <1>4, <2>1
<1>6. r \in todo <=> ((kind = "add" <=> r \in after) /\ (kind = "add" <=> r \notin cmd[c].before))
  BY <1>2
<1>7. queue' = queue
  BY DEF Compare, broker
<1> HIDE DEF todo, next
<1> QED
  BY <1>1, <1>2, <1>3, <1>4, <1>5, <1>6, <1>7

\* The publishing: one role at a time.
LEMMA PublishMoves ==
  ASSUME TypeOK, Calm, NEW c \in Cmd, PublishDiff(c)
  PROVE  /\ cmd[c].pc = "publish" /\ cmd[c].u \in User /\ cmd[c].op = kind /\ cmd[c] # NoCmd
         /\ thr' = thr
         /\ \E q \in cmd[c].todo \cap Role :
              /\ queue' = [queue EXCEPT ![[act |-> Act(kind), u |-> cmd[c].u, r |-> q]] = @ + 1]
              /\ \/ cmd'[c] = NoCmd /\ cmd[c].todo = {q}
                 \/ /\ cmd'[c] # NoCmd /\ cmd'[c].pc = "publish" /\ cmd'[c].u = cmd[c].u /\ cmd'[c].op = kind
                    /\ cmd'[c].before = cmd[c].before /\ cmd'[c].todo = cmd[c].todo \ {q}
<1>1. cmd[c].pc = "publish" /\ cmd[c] # NoCmd
  BY DEF PublishDiff, NoCmd
<1>2. /\ cmd[c] \in [pc : {"lookup", "write", "after", "publish"}, op : {"add", "remove"},
                      u : User, f : Filter, before : SUBSET ChatId, todo : SUBSET Role]
      /\ cmd[c].op = kind
  BY <1>1, CommandFields
<1>3. PICK q \in cmd[c].todo :
        /\ Publish(IF cmd[c].op = "add" THEN "upsert" ELSE "delete", cmd[c].u, q)
        /\ cmd' = [cmd EXCEPT ![c] = IF cmd[c].todo = {q} THEN NoCmd ELSE [cmd[c] EXCEPT !.todo = cmd[c].todo \ {q}]]
  BY DEF PublishDiff
<1> DEFINE next == [cmd[c] EXCEPT !.todo = cmd[c].todo \ {q}]
<1>4. cmd'[c] = IF cmd[c].todo = {q} THEN NoCmd ELSE next
  BY <1>3 DEF TypeOK
<1>5. /\ next.pc = "publish" /\ next.u = cmd[c].u /\ next.op = cmd[c].op /\ next.before = cmd[c].before
      /\ next.todo = cmd[c].todo \ {q}
  BY <1>1, <1>2
<1>6. next # NoCmd
  <2>1. NoCmd.pc = "idle"
    BY DEF NoCmd
  <2> QED
    BY <1>5, <2>1
<1>7. queue' = [queue EXCEPT ![[act |-> Act(kind), u |-> cmd[c].u, r |-> q]] = @ + 1]
  BY <1>2, <1>3 DEF Publish, Act, Calm
<1>8. thr' = thr
  BY DEF PublishDiff
<1> HIDE DEF next
<1>9. q \in cmd[c].todo \cap Role
  BY <1>2
<1> QED
  BY <1>1, <1>2, <1>4, <1>5, <1>6, <1>7, <1>8, <1>9

\* The poller: it reads what the guild shows, compares, and publishes.
LEMMA PollMoves ==
  ASSUME OneKindOnly, TypeOK, Calm, [KindNext]_<<vars, kind>>
  PROVE  \/ poll' = poll \/ poll' = NoPoll \/ poll'.pc = "rows"
         \/ poll'.pc = "read" /\ poll'.u \in User /\ poll'.has = holds[poll'.u]
         \/ /\ poll.pc = "read" /\ poll'.pc = "publish" /\ poll'.u = poll.u /\ poll.u \in User
            /\ poll'.add = (GetMembership(poll.u) \ poll.has) \ {NoChat}
            /\ poll'.del = poll.has \ GetMembership(poll.u)
         \/ /\ poll.pc = "publish" /\ poll'.pc = "publish" /\ poll'.u = poll.u
            /\ poll'.add \subseteq poll.add /\ poll'.del \subseteq poll.del
<1> DEFINE Goal == \/ poll' = poll \/ poll' = NoPoll \/ poll'.pc = "rows"
                   \/ poll'.pc = "read" /\ poll'.u \in User /\ poll'.has = holds[poll'.u]
                   \/ /\ poll.pc = "read" /\ poll'.pc = "publish" /\ poll'.u = poll.u /\ poll.u \in User
                      /\ poll'.add = (GetMembership(poll.u) \ poll.has) \ {NoChat}
                      /\ poll'.del = poll.has \ GetMembership(poll.u)
                   \/ /\ poll.pc = "publish" /\ poll'.pc = "publish" /\ poll'.u = poll.u
                      /\ poll'.add \subseteq poll.add /\ poll'.del \subseteq poll.del
<1>1. ASSUME NEW u \in User, PollUser(u) PROVE Goal
  <2> DEFINE k == [pc |-> "read", u |-> u, has |-> holds[u]]
  <2>1. poll' = k \/ poll' = poll
    BY <1>1 DEF PollUser
  <2>2. k.pc = "read" /\ k.u = u /\ k.has = holds[u]
    OBVIOUS
  <2> HIDE DEF k
  <2> QED
    BY <2>1, <2>2
<1>2. ASSUME PollCompare PROVE Goal
  <2> DEFINE add == (GetMembership(poll.u) \ poll.has) \ {NoChat}
             del == poll.has \ GetMembership(poll.u)
             k == [pc |-> "publish", u |-> poll.u, add |-> add, del |-> del]
  <2>1. poll' = NoPoll \/ poll' = k
    BY <1>2 DEF PollCompare
  <2>2. k.pc = "publish" /\ k.u = poll.u /\ k.add = add /\ k.del = del
    OBVIOUS
  <2>3. poll.pc = "read" /\ poll.u \in User
    BY <1>2 DEF PollCompare, TypeOK, PollState, NoPoll
  <2> HIDE DEF k
  <2> QED
    BY <2>1, <2>2, <2>3
<1>3. ASSUME PollPublish PROVE Goal
  <2>1. poll \in [pc : {"publish"}, u : User, add : SUBSET Role, del : SUBSET Role]
    BY <1>3 DEF PollPublish, TypeOK, PollState, NoPoll
  <2>2. PICK r : poll' = NoPoll \/ poll' = [poll EXCEPT !.add = @ \ {r}, !.del = @ \ {r}]
    BY <1>3 DEF PollPublish
  <2> QED
    BY <2>1, <2>2
<1>4. ASSUME poll' = poll \/ PollGuild \/ PollRows PROVE Goal
  BY <1>4 DEF PollGuild, PollRows
<1> HIDE DEF Goal
<1>5. Goal
  BY <1>1, <1>2, <1>3, <1>4, Steps DEF vars, process, Begin, Lookup, AddRow, RemoveRow, Compare, PublishDiff,
     CreateRole, CreationStep, StoreRole, NameRole, DestroyRole, DeleteRole, Deliver, Acquire, HandlerStep, Check, Apply, ApplyNotFound, Ack,
     PollStep
<1> QED
  BY <1>5 DEF Goal

\* A message that the poller sends is one that it was about to publish.
LEMMA PollPublishes ==
  ASSUME TypeOK, Calm, PollPublish
  PROVE  /\ poll.pc = "publish" /\ poll.u \in User /\ thr' = thr
         /\ \E q \in Role, op \in {"add", "remove"} :
              /\ q \in IF op = "add" THEN poll.add ELSE poll.del
              /\ queue' = [queue EXCEPT ![[act |-> Act(op), u |-> poll.u, r |-> q]] = @ + 1]
<1>1. poll \in [pc : {"publish"}, u : User, add : SUBSET Role, del : SUBSET Role]
  BY DEF PollPublish, TypeOK, PollState, NoPoll
<1>2. PICK q \in poll.add \cup poll.del :
        IF q \in poll.add THEN Publish("upsert", poll.u, q) ELSE poll.add = {} /\ Publish("delete", poll.u, q)
  BY DEF PollPublish
<1>3. CASE q \in poll.add
  <2>1. queue' = [queue EXCEPT ![[act |-> Act("add"), u |-> poll.u, r |-> q]] = @ + 1]
    BY <1>2, <1>3 DEF Publish, Act, Calm
  <2> QED
    BY <1>1, <1>3, <2>1 DEF PollPublish
<1>4. CASE q \notin poll.add
  <2>1. queue' = [queue EXCEPT ![[act |-> Act("remove"), u |-> poll.u, r |-> q]] = @ + 1]
    BY <1>2, <1>4 DEF Publish, Act, Calm
  <2> QED
    BY <1>1, <1>2, <1>4, <2>1 DEF PollPublish
<1> QED
  BY <1>3, <1>4

-----------------------------------------------------------------------------
(* The messages and the guild                                              *)

\* The moves of a message: published, delivered, applied or dropped.
LEMMA MsgMoves ==
  ASSUME OneKindOnly, TypeOK, Calm, [KindNext]_<<vars, kind>>
  PROVE  \/ UNCHANGED <<queue, thr>>
         \/ \E c \in Cmd : PublishDiff(c)
         \/ PollPublish
         \/ \E t \in Thread, m \in Msg : Deliver(t, m)
         \/ \E t \in Thread : Acquire(t) \/ HandlerStep(t)
BY Steps DEF vars, broker, process, Begin, Lookup, AddRow, RemoveRow, Compare,
     CreateRole, CreationStep, StoreRole, NameRole, DestroyRole, DeleteRole, PollStep, PollGuild, PollRows, PollUser, PollCompare

\* The steps of one handler: it goes on with its message, or lets go of it.
LEMMA HandlerMoves ==
  ASSUME TypeOK, NEW t \in Thread, Acquire(t) \/ HandlerStep(t)
  PROVE  /\ queue' = queue /\ \A s \in Thread \ {t} : thr'[s] = thr[s]
         /\ thr[t] # NoMsg /\ thr[t].m \in Msg
         /\ \/ thr'[t] = NoMsg
            \/ thr'[t].m = thr[t].m
         /\ \/ thr[t].pc = "wait" /\ (thr[t].m.r \in Ignored \/ thr'[t].pc \in {"check", "call"})
            \/ thr[t].pc = "check" /\ (thr[t].m.r \notin linked \cap synced \/ thr'[t].pc = "call")
            \/ thr[t].pc = "call" /\ (~Reachable(thr[t].m) \/ (Apply(t) /\ thr'[t].pc = "ack"))
            \/ thr[t].pc = "ack" /\ thr'[t] = NoMsg
         /\ thr'[t].pc \in {"check", "call", "ack"} => thr'[t].m = thr[t].m
<1>1. thr[t].pc \in {"wait", "check", "call", "ack"} /\ thr[t] # NoMsg
  BY DEF Acquire, HandlerStep, Check, Apply, ApplyNotFound, Ack, NoMsg
<1>2. thr[t] \in [pc : {"wait", "check", "call", "ack"}, m : Msg]
  BY <1>1 DEF TypeOK, ThrState
<1>3. NoMsg.pc = "idle"
  BY DEF NoMsg
<1>4. queue' = queue /\ \A s \in Thread \ {t} : thr'[s] = thr[s]
  BY DEF Acquire, HandlerStep, Check, Apply, ApplyNotFound, Ack, broker, TypeOK
<1>5. ASSUME Acquire(t)
      PROVE  /\ thr[t].pc = "wait"
             /\ \/ thr[t].m.r \in Ignored /\ thr'[t] = NoMsg
                \/ thr'[t].pc \in {"check", "call"} /\ thr'[t].m = thr[t].m
  BY <1>2, <1>5 DEF Acquire, TypeOK
<1>6. ASSUME Check(t)
      PROVE  /\ thr[t].pc = "check"
             /\ \/ thr[t].m.r \notin linked \cap synced /\ thr'[t] = NoMsg
                \/ thr'[t].pc = "call" /\ thr'[t].m = thr[t].m
  BY <1>2, <1>6 DEF Check, TypeOK
<1>7. ASSUME Apply(t)
      PROVE  thr[t].pc = "call" /\ thr'[t].pc = "ack" /\ thr'[t].m = thr[t].m
  BY <1>2, <1>7 DEF Apply, TypeOK
<1>8. ASSUME ApplyNotFound(t)
      PROVE  thr[t].pc = "call" /\ ~Reachable(thr[t].m) /\ thr'[t] = NoMsg
  BY <1>2, <1>8 DEF ApplyNotFound, TypeOK
<1>9. ASSUME Ack(t) PROVE thr[t].pc = "ack" /\ thr'[t] = NoMsg
  BY <1>2, <1>9 DEF Ack, TypeOK
<1> QED
  BY <1>1, <1>2, <1>3, <1>4, <1>5, <1>6, <1>7, <1>8, <1>9 DEF HandlerStep

\* A message on its way was on its way or about to be published.
LEMMA Arrives ==
  ASSUME OneKindOnly, TypeOK, Calm, [KindNext]_<<vars, kind>>,
         NEW op \in {"add", "remove"}, NEW u \in User, NEW r \in Role, Coming(Act(op), u, r)'
  PROVE  Underway(op, u, r)
<1> DEFINE m == [act |-> Act(op), u |-> u, r |-> r]
           Before == queue[m] > 0 \/ \E t \in Thread : thr[t].pc \in {"wait", "check", "call"} /\ thr[t].m = m
           After == queue'[m] > 0 \/ \E t \in Thread : thr'[t].pc \in {"wait", "check", "call"} /\ thr'[t].m = m
<1>1. m \in Msg /\ queue \in [Msg -> Nat] /\ m.r = r
  BY DEF Msg, Act, TypeOK
<1>2. After
  BY DEF Coming
<1>3. Before => Underway(op, u, r)
  BY DEF Coming, Underway
<1>4. ASSUME NEW n \in Msg, queue' = [queue EXCEPT ![n] = @ + 1], thr' = thr
      PROVE  n = m \/ Before
  <2> HIDE DEF m
  <2> QED
    BY <1>1, <1>2, <1>4
<1>5. ASSUME NEW c \in Cmd, PublishDiff(c) PROVE Underway(op, u, r)
  <2>1. PICK q \in cmd[c].todo \cap Role :
          queue' = [queue EXCEPT ![[act |-> Act(kind), u |-> cmd[c].u, r |-> q]] = @ + 1]
    BY <1>5, PublishMoves
  <2>2. /\ cmd[c].pc = "publish" /\ cmd[c].u \in User /\ cmd[c].op = kind /\ thr' = thr
        /\ kind \in {"add", "remove"}
    BY <1>5, PublishMoves DEF Calm
  <2> DEFINE n == [act |-> Act(kind), u |-> cmd[c].u, r |-> q]
  <2>3. n \in Msg
    BY <2>2 DEF Msg, Act
  <2>4. n = m => kind = op /\ cmd[c].u = u /\ q = r
    BY <2>2 DEF Act
  <2> HIDE DEF n, m, Before
  <2>5. n = m \/ Before
    BY <1>4, <2>1, <2>2, <2>3 DEF n
  <2> QED
    BY <1>3, <2>1, <2>2, <2>4, <2>5 DEF Underway
<1>6. ASSUME PollPublish PROVE Underway(op, u, r)
  <2>1. PICK q \in Role, o \in {"add", "remove"} :
          /\ q \in IF o = "add" THEN poll.add ELSE poll.del
          /\ queue' = [queue EXCEPT ![[act |-> Act(o), u |-> poll.u, r |-> q]] = @ + 1]
    BY <1>6, PollPublishes
  <2>2. poll.pc = "publish" /\ poll.u \in User /\ thr' = thr
    BY <1>6, PollPublishes
  <2> DEFINE n == [act |-> Act(o), u |-> poll.u, r |-> q]
  <2>3. n \in Msg
    BY <2>2 DEF Msg, Act
  <2>4. n = m => o = op /\ poll.u = u /\ q = r
    BY <2>2 DEF Act
  <2> HIDE DEF n, m, Before
  <2>5. n = m \/ Before
    BY <1>4, <2>1, <2>2, <2>3 DEF n
  <2> QED
    BY <1>3, <2>1, <2>2, <2>4, <2>5 DEF Underway
<1>7. ASSUME NEW t \in Thread, NEW n \in Msg, Deliver(t, n) PROVE Before
  <2> DEFINE k == [pc |-> "wait", m |-> n]
  <2>1. queue[n] > 0 /\ queue' = [queue EXCEPT ![n] = @ - 1] /\ thr' = [thr EXCEPT ![t] = k]
    BY <1>7 DEF Deliver
  <2>2. k.m = n
    OBVIOUS
  <2> HIDE DEF m, k
  <2> QED
    BY <1>1, <1>2, <2>1, <2>2 DEF TypeOK
<1>8. ASSUME NEW t \in Thread, Acquire(t) \/ HandlerStep(t) PROVE Before
  <2>1. /\ queue' = queue /\ \A s \in Thread \ {t} : thr'[s] = thr[s]
        /\ \/ thr'[t] = NoMsg
           \/ thr'[t].m = thr[t].m
        /\ \/ thr[t].pc \in {"wait", "check"}
           \/ thr[t].pc = "call"
           \/ thr[t].pc = "ack" /\ thr'[t] = NoMsg
    BY <1>8, HandlerMoves
  <2>2. NoMsg.pc = "idle"
    BY DEF NoMsg
  <2> HIDE DEF m
  <2> QED
    BY <1>2, <2>1, <2>2
<1>9. ASSUME UNCHANGED <<queue, thr>> PROVE Before
  BY <1>2, <1>9
<1> HIDE DEF m, Before, After
<1> QED
  BY MsgMoves, <1>3, <1>5, <1>6, <1>7, <1>8, <1>9

\* A message about a role that keeps its row stays on its way until a handler
\* applies it.
LEMMA Leaves ==
  ASSUME OneKindOnly, TypeOK, Calm, [KindNext]_<<vars, kind>>,
         NEW op \in {"add", "remove"}, NEW u \in User, NEW r \in Created \cap rows, Coming(Act(op), u, r)
  PROVE  \/ Coming(Act(op), u, r)'
         \/ \E t \in Thread : Apply(t) /\ thr[t].m = [act |-> Act(op), u |-> u, r |-> r]
<1> USE ConstantsAssumption
<1> DEFINE m == [act |-> Act(op), u |-> u, r |-> r]
           Applied == \E t \in Thread : Apply(t) /\ thr[t].m = m
           Before == queue[m] > 0 \/ \E t \in Thread : thr[t].pc \in {"wait", "check", "call"} /\ thr[t].m = m
           After == queue'[m] > 0 \/ \E t \in Thread : thr'[t].pc \in {"wait", "check", "call"} /\ thr'[t].m = m
<1>1. m \in Msg /\ queue \in [Msg -> Nat] /\ m.r = r
  BY DEF Msg, Act, TypeOK
<1>2. Before
  BY DEF Coming
<1>3. After => Coming(Act(op), u, r)'
  BY DEF Coming
<1>4. ASSUME NEW n \in Msg, queue' = [queue EXCEPT ![n] = @ + 1], thr' = thr
      PROVE  After
  <2> HIDE DEF m
  <2> QED
    BY <1>1, <1>2, <1>4
<1>5. ASSUME NEW c \in Cmd, PublishDiff(c) PROVE After
  <2>1. PICK q \in cmd[c].todo \cap Role :
          queue' = [queue EXCEPT ![[act |-> Act(kind), u |-> cmd[c].u, r |-> q]] = @ + 1]
    BY <1>5, PublishMoves
  <2>2. cmd[c].u \in User /\ thr' = thr /\ [act |-> Act(kind), u |-> cmd[c].u, r |-> q] \in Msg
    BY <1>5, PublishMoves DEF Msg, Act
  <2> HIDE DEF m, After
  <2> QED
    BY <1>4, <2>1, <2>2
<1>6. ASSUME PollPublish PROVE After
  <2>1. PICK q \in Role, o \in {"add", "remove"} :
          queue' = [queue EXCEPT ![[act |-> Act(o), u |-> poll.u, r |-> q]] = @ + 1]
    BY <1>6, PollPublishes
  <2>2. poll.u \in User /\ thr' = thr /\ [act |-> Act(o), u |-> poll.u, r |-> q] \in Msg
    BY <1>6, PollPublishes DEF Msg, Act
  <2> HIDE DEF m, After
  <2> QED
    BY <1>4, <2>1, <2>2
<1>7. ASSUME NEW t \in Thread, NEW n \in Msg, Deliver(t, n) PROVE After
  <2> DEFINE k == [pc |-> "wait", m |-> n]
  <2>1. queue[n] > 0 /\ queue' = [queue EXCEPT ![n] = @ - 1] /\ thr' = [thr EXCEPT ![t] = k] /\ thr[t] = NoMsg
    BY <1>7 DEF Deliver
  <2>2. k.m = n /\ k.pc = "wait" /\ NoMsg.pc = "idle"
    BY DEF NoMsg
  <2> HIDE DEF m, k
  <2> QED
    BY <1>1, <1>2, <2>1, <2>2 DEF TypeOK
<1>8. ASSUME NEW t \in Thread, Acquire(t) \/ HandlerStep(t) PROVE After \/ Applied
  <2>1. /\ queue' = queue /\ \A s \in Thread \ {t} : thr'[s] = thr[s]
        /\ \/ thr[t].pc = "wait" /\ (thr[t].m.r \in Ignored \/ thr'[t].pc \in {"check", "call"})
           \/ thr[t].pc = "check" /\ (thr[t].m.r \notin linked \cap synced \/ thr'[t].pc = "call")
           \/ thr[t].pc = "call" /\ (~Reachable(thr[t].m) \/ (Apply(t) /\ thr'[t].pc = "ack"))
           \/ thr[t].pc = "ack" /\ thr'[t] = NoMsg
        /\ thr'[t].pc \in {"check", "call", "ack"} => thr'[t].m = thr[t].m
    BY <1>8, HandlerMoves
  <2>2. thr[t].m = m => thr[t].m.r \notin Ignored /\ thr[t].m.r \in linked \cap synced /\ Reachable(thr[t].m)
    BY DEF Reachable, Calm, Settled, Managed
  <2> HIDE DEF m
  <2> QED
    BY <1>2, <2>1, <2>2
<1>9. ASSUME UNCHANGED <<queue, thr>> PROVE After
  BY <1>2, <1>9
<1>10. After \/ Applied
  <2> HIDE DEF m, Before, After, Applied
  <2> QED
    BY MsgMoves, <1>5, <1>6, <1>7, <1>8, <1>9
<1> QED
  BY <1>3, <1>10

\* What the guild shows of such a role changes only by a handler that applies a
\* message about it.
LEMMA HoldsMoves ==
  ASSUME OneKindOnly, TypeOK, Calm, [KindNext]_<<vars, kind>>,
         NEW u \in User, NEW r \in Created \cap rows
  PROVE  /\ \A t \in Thread, op \in {"add", "remove"} :
              Apply(t) /\ thr[t].m = [act |-> Act(op), u |-> u, r |-> r] => (r \in holds'[u] <=> op = "add")
         /\ \/ r \in holds'[u] <=> r \in holds[u]
            \/ \E op \in {"add", "remove"} : Coming(Act(op), u, r) /\ (r \in holds'[u] <=> op = "add")
<1> USE ConstantsAssumption
<1> DEFINE m(op) == [act |-> Act(op), u |-> u, r |-> r]
           Same == r \in holds'[u] <=> r \in holds[u]
<1>1. ASSUME NEW t \in Thread, Apply(t)
      PROVE  \/ Same
             \/ \E op \in {"add", "remove"} : Coming(Act(op), u, r) /\ (r \in holds'[u] <=> op = "add")
  <2>1. thr[t].pc = "call" /\ thr[t].m \in Msg
    BY <1>1, HeldMessage DEF Apply, NoMsg
  <2>2. holds' = [holds EXCEPT ![thr[t].m.u] = IF thr[t].m.act = "upsert" THEN @ \cup {thr[t].m.r}
                                                                        ELSE @ \ {thr[t].m.r}]
    BY <1>1 DEF Apply
  <2>3. PICK op \in {"add", "remove"} : thr[t].m.act = Act(op)
    BY <2>1 DEF Msg, Act
  <2>4. CASE thr[t].m.u = u /\ thr[t].m.r = r
    <3>1. thr[t].m = [act |-> Act(op), u |-> u, r |-> r]
      BY <2>1, <2>3, <2>4 DEF Msg
    <3>2. Coming(Act(op), u, r)
      BY <2>1, <3>1 DEF Coming
    <3>3. r \in holds'[u] <=> op = "add"
      BY <2>2, <2>3, <2>4 DEF TypeOK, Act
    <3> QED
      BY <3>2, <3>3
  <2>5. CASE ~(thr[t].m.u = u /\ thr[t].m.r = r)
    <3>1. Same
      BY <2>2, <2>5 DEF TypeOK
    <3> QED
      BY <3>1
  <2> QED
    BY <2>4, <2>5
<1>2. ASSUME NEW t \in Thread, NEW op \in {"add", "remove"}, Apply(t), thr[t].m = m(op)
      PROVE  r \in holds'[u] <=> op = "add"
  <2>1. thr[t].m.act = Act(op) /\ thr[t].m.u = u /\ thr[t].m.r = r
    BY <1>2
  <2> QED
    BY <1>2, <2>1 DEF Apply, TypeOK, Act
<1>3. ASSUME NEW q \in Managed, DeleteRole(q) PROVE Same
  <2>1. q # r
    BY <1>3 DEF DeleteRole, Calm, Settled
  <2> QED
    BY <1>3, <2>1 DEF DeleteRole, TypeOK
<1>4. ASSUME holds' = holds PROVE Same
  BY <1>4
<1> HIDE DEF Same, m
<1>5. \/ holds' = holds
      \/ \E q \in Managed : DeleteRole(q)
      \/ \E t \in Thread : Apply(t)
  BY Steps DEF vars, discord, broker, process, Begin, Lookup, AddRow, RemoveRow, Compare, PublishDiff,
     CreateRole, CreationStep, StoreRole, NameRole, DestroyRole, Deliver, Acquire, HandlerStep, Check, ApplyNotFound, Ack,
     PollStep, PollGuild, PollRows, PollUser, PollCompare, PollPublish
<1>6. \/ Same
      \/ \E op \in {"add", "remove"} : Coming(Act(op), u, r) /\ (r \in holds'[u] <=> op = "add")
  BY <1>1, <1>3, <1>4, <1>5
<1> QED
  BY <1>2, <1>6 DEF Same, m

-----------------------------------------------------------------------------
(* The invariant                                                           *)

\* Nobody gets a reason to go back.
LEMMA OnwardStep ==
  ASSUME OneKindOnly, TypeOK, Calm, [KindNext]_<<vars, kind>>,
         NEW u \in User, NEW r \in Created \cap rows', Onward(u, r)
  PROVE  Onward(u, r)'
<1> USE ConstantsAssumption
<1>1. /\ kind' = kind /\ kind \in {"add", "remove"} /\ TypeOK' /\ Calm'
      /\ r \in rows /\ r \in Managed /\ r \in Role /\ r # NoChat
      /\ (Turned(u, r) => Turned(u, r)')
  BY TypeStep, Steps, CalmStep, TurnedSteps DEF Calm, Managed
<1>2. Shown(u, r)' => Turned(u, r)'
  <2>1. \/ r \in holds'[u] <=> r \in holds[u]
        \/ \E op \in {"add", "remove"} : Coming(Act(op), u, r) /\ (r \in holds'[u] <=> op = "add")
    BY <1>1, HoldsMoves
  <2>2. CASE r \in holds'[u] <=> r \in holds[u]
    BY <1>1, <2>2 DEF Shown, Onward
  <2>3. ASSUME NEW op \in {"add", "remove"}, Coming(Act(op), u, r), r \in holds'[u] <=> op = "add"
        PROVE  Turned(u, r)
    <3>1. op = kind
      BY <2>3 DEF Onward, Underway
    <3> QED
      BY <2>3, <3>1 DEF Onward, Underway
  <2> QED
    BY <1>1, <2>1, <2>2, <2>3
<1>3. ASSUME NEW op \in {"add", "remove"}
      PROVE  /\ Coming(Act(op), u, r)' => Underway(op, u, r)
             /\ \A c \in Cmd : cmd'[c].pc = "publish" /\ cmd'[c].op = op /\ cmd'[c].u = u /\ r \in cmd'[c].todo
                                 => op = kind /\ (Underway(op, u, r) \/ Turned(u, r))
             /\ poll'.pc = "publish" /\ poll'.u = u /\ r \in (IF op = "add" THEN poll'.add ELSE poll'.del)
                  => Underway(op, u, r) \/ (op = kind /\ Turned(u, r))
  <2>1. Coming(Act(op), u, r)' => Underway(op, u, r)
    BY <1>1, Arrives
  <2>2. ASSUME NEW c \in Cmd, cmd'[c].pc = "publish", cmd'[c].op = op, cmd'[c].u = u, r \in cmd'[c].todo
        PROVE  op = kind /\ (Underway(op, u, r) \/ Turned(u, r))
    <3>1. cmd'[c] # NoCmd /\ op = kind
      <4>1. cmd'[c] # NoCmd
        BY <2>2 DEF NoCmd
      <4>2. \A d \in Cmd : cmd'[d] # NoCmd => cmd'[d].op = kind
        BY Steps
      <4> QED
        BY <2>2, <4>1, <4>2
    <3>2. CASE Compare(c)
      BY <1>1, <2>2, <3>1, <3>2, CompareMoves DEF Turned
    <3>3. CASE PublishDiff(c)
      <4>1. PICK q : /\ cmd[c].pc = "publish" /\ cmd[c].op = kind
                     /\ \/ cmd'[c] = NoCmd
                        \/ cmd'[c].u = cmd[c].u /\ cmd'[c].todo = cmd[c].todo \ {q}
        BY <3>3, PublishMoves, Zenon
      <4> QED
        BY <2>2, <3>1, <4>1 DEF Underway
    <3>4. CASE cmd'[c] = cmd[c]
      BY <2>2, <3>1, <3>4 DEF Underway
    <3> QED
      BY <2>2, <3>1, <3>2, <3>3, <3>4, CmdMoves
  <2>3. ASSUME poll'.pc = "publish", poll'.u = u, r \in IF op = "add" THEN poll'.add ELSE poll'.del
        PROVE  Underway(op, u, r) \/ (op = kind /\ Turned(u, r))
    <3>1. poll' # NoPoll
      BY <2>3 DEF NoPoll
    <3>2. CASE /\ poll.pc = "read" /\ poll'.u = poll.u
               /\ poll'.add = (GetMembership(poll.u) \ poll.has) \ {NoChat}
               /\ poll'.del = poll.has \ GetMembership(poll.u)
      BY <1>1, <2>3, <3>2 DEF Onward, Turned
    <3>3. CASE /\ poll.pc = "publish" /\ poll'.u = poll.u
               /\ poll'.add \subseteq poll.add /\ poll'.del \subseteq poll.del
      BY <2>3, <3>3 DEF Underway
    <3>4. CASE poll' = poll
      BY <2>3, <3>4 DEF Underway
    <3> QED
      BY <2>3, <3>1, <3>2, <3>3, <3>4, PollMoves
  <2> QED
    BY <2>1, <2>2, <2>3
<1>4. Underway(kind, u, r)' => Turned(u, r)'
  <2>1. Underway(kind, u, r) => Turned(u, r)
    BY DEF Onward
  <2>2. PICK op \in {"add", "remove"} : op = kind /\ op = kind'
    BY <1>1
  <2>3. Underway(kind, u, r)' => Underway(op, u, r)'
    BY <2>2 DEF Underway, Coming, Act
  <2>4. Underway(op, u, r)' => Underway(op, u, r) \/ Turned(u, r)
    BY <1>3 DEF Underway
  <2> QED
    BY <1>1, <2>1, <2>2, <2>3, <2>4
<1>5. ASSUME NEW op \in {"add", "remove"} \ {kind'} PROVE ~Underway(op, u, r)'
  <2>1. ~Underway(op, u, r) /\ op # kind /\ op \in {"add", "remove"}
    BY <1>1 DEF Onward
  <2> QED
    BY <1>3, <2>1 DEF Underway
<1>6. poll'.pc = "read" /\ poll'.u = u /\ (kind = "add" <=> r \in poll'.has) => Turned(u, r)'
  <2>1. NoPoll.pc = "idle"
    BY DEF NoPoll
  <2> QED
    BY <1>1, <2>1, PollMoves DEF Onward, Shown
<1>7. ASSUME NEW c \in Cmd, cmd'[c] # NoCmd, cmd'[c].u = u, kind = "add" <=> r \in cmd'[c].before
      PROVE  Turned(u, r)'
  <2>1. CASE Compare(c)
    BY <1>1, <1>7, <2>1, CompareMoves DEF Onward
  <2>2. CASE PublishDiff(c)
    BY <1>1, <1>7, <2>2, PublishMoves DEF Onward
  <2>3. CASE cmd'[c].before = GetMembership(u)
    BY <1>1, <1>7, <2>3 DEF Turned
  <2>4. CASE cmd[c] # NoCmd /\ cmd'[c].u = cmd[c].u /\ cmd'[c].before = cmd[c].before
    BY <1>1, <1>7, <2>4 DEF Onward
  <2> QED
    BY <1>7, <2>1, <2>2, <2>3, <2>4, CmdMoves
<1> QED
  BY <1>1, <1>2, <1>4, <1>5, <1>6, <1>7 DEF Onward

\* What is promised is kept: a command that will publish a role publishes it.
LEMMA PromiseKept ==
  ASSUME OneKindOnly, TypeOK, Calm, [KindNext]_<<vars, kind>>,
         NEW u \in User, NEW r \in Created \cap rows', Turned(u, r), Promised(kind, u, r)
  PROVE  Promised(kind, u, r)' \/ Coming(Act(kind), u, r)'
<1> USE ConstantsAssumption
<1>1. /\ kind' = kind /\ kind \in {"add", "remove"} /\ r \in Role
  BY Steps DEF Calm, Managed
<1>2. PICK c \in Cmd :
        /\ cmd[c].pc \in {"after", "publish"} /\ cmd[c].op = kind /\ cmd[c].u = u
        /\ \/ cmd[c].pc = "after" /\ (kind = "add" <=> r \notin cmd[c].before)
           \/ cmd[c].pc = "publish" /\ r \in cmd[c].todo
  BY DEF Promised
<1>3. CASE cmd'[c] = cmd[c]
  BY <1>1, <1>2, <1>3 DEF Promised
<1>4. CASE Compare(c)
  <2>1. cmd'[c] # NoCmd /\ r \in cmd'[c].todo
    BY <1>1, <1>2, <1>4, CompareMoves DEF Turned
  <2>2. cmd'[c].pc = "publish" /\ cmd'[c].u = cmd[c].u /\ cmd'[c].op = kind
    BY <1>1, <1>4, <2>1, CompareMoves
  <2> QED
    BY <1>1, <1>2, <2>1, <2>2 DEF Promised
<1>5. CASE PublishDiff(c)
  <2>1. PICK q \in cmd[c].todo \cap Role :
          /\ queue' = [queue EXCEPT ![[act |-> Act(kind), u |-> cmd[c].u, r |-> q]] = @ + 1]
          /\ \/ cmd'[c] = NoCmd /\ cmd[c].todo = {q}
             \/ /\ cmd'[c] # NoCmd /\ cmd'[c].pc = "publish" /\ cmd'[c].u = cmd[c].u /\ cmd'[c].op = kind
                /\ cmd'[c].before = cmd[c].before /\ cmd'[c].todo = cmd[c].todo \ {q}
    BY <1>5, PublishMoves
  <2>2. cmd[c].pc = "publish" /\ r \in cmd[c].todo
    BY <1>2, <1>5, PublishMoves
  <2>3. CASE q = r
    <3> DEFINE m == [act |-> Act(kind), u |-> u, r |-> r]
    <3>1. m \in Msg
      BY <1>1 DEF Msg, Act
    <3>2. queue' = [queue EXCEPT ![m] = @ + 1]
      BY <1>2, <2>1, <2>3
    <3>3. queue'[m] > 0
      <4> HIDE DEF m
      <4> QED
        BY <3>1, <3>2 DEF TypeOK
    <3> QED
      BY <1>1, <3>3 DEF Coming, Act
  <2>4. CASE q # r
    <3>1. cmd'[c].pc = "publish" /\ cmd'[c].u = u /\ cmd'[c].op = kind /\ r \in cmd'[c].todo
      BY <1>2, <2>1, <2>2, <2>4
    <3> QED
      BY <1>1, <3>1 DEF Promised
  <2> QED
    BY <2>3, <2>4
<1>6. cmd[c] # NoCmd /\ cmd[c].pc \notin {"lookup", "write"}
  BY <1>2 DEF NoCmd
<1> QED
  BY <1>3, <1>4, <1>5, <1>6, CmdMoves

\* A membership that a statement brings about is shown, on its way or promised
\* from then on.
LEMMA CoveredStep ==
  ASSUME OneKindOnly, TypeOK, Calm, [KindNext]_<<vars, kind>>,
         NEW u \in User, NEW r \in Created \cap rows', Onward(u, r), Covered(u, r)
  PROVE  Covered(u, r)'
<1> USE ConstantsAssumption
<1>1. /\ kind' = kind /\ kind \in {"add", "remove"}
      /\ r \in rows /\ r \in Managed /\ r \in Role
  BY Steps, TurnedSteps DEF Calm
<1> SUFFICES ASSUME Turned(u, r)'
             PROVE  Shown(u, r)' \/ Coming(Act(kind), u, r)' \/ Promised(kind, u, r)'
  <2>1. Act(kind)' = Act(kind)
    BY <1>1 DEF Act
  <2> QED
    BY <1>1, <2>1 DEF Covered, Coming, Promised
<1>2. CASE Turned(u, r) /\ Shown(u, r)
  <2>1. \/ r \in holds'[u] <=> r \in holds[u]
        \/ \E op \in {"add", "remove"} : Coming(Act(op), u, r) /\ (r \in holds'[u] <=> op = "add")
    BY <1>1, HoldsMoves
  <2>2. ASSUME NEW op \in {"add", "remove"}, Coming(Act(op), u, r) PROVE op = kind
    BY <2>2 DEF Onward, Underway
  <2> QED
    BY <1>1, <1>2, <2>1, <2>2 DEF Shown
<1>3. CASE Turned(u, r) /\ Coming(Act(kind), u, r)
  <2>1. \/ Coming(Act(kind), u, r)'
        \/ \E t \in Thread : Apply(t) /\ thr[t].m = [act |-> Act(kind), u |-> u, r |-> r]
    BY <1>1, <1>3, Leaves
  <2>2. \A t \in Thread : Apply(t) /\ thr[t].m = [act |-> Act(kind), u |-> u, r |-> r] =>
          (r \in holds'[u] <=> kind = "add")
    BY <1>1, HoldsMoves
  <2> QED
    BY <1>1, <2>1, <2>2 DEF Shown
<1>4. CASE Turned(u, r) /\ Promised(kind, u, r)
  BY <1>4, PromiseKept
<1>5. CASE ~Turned(u, r)
  <2>1. PICK c \in Cmd : /\ cmd[c].pc = "write" /\ cmd[c].u = u
                         /\ cmd' = [cmd EXCEPT ![c].pc = "after"]
    BY <1>5, TurnedSteps
  <2>2. cmd[c] # NoCmd
    BY <2>1 DEF NoCmd
  <2>3. /\ cmd[c] \in [pc : {"lookup", "write", "after", "publish"}, op : {"add", "remove"},
                         u : User, f : Filter, before : SUBSET ChatId, todo : SUBSET Role]
        /\ cmd[c].op = kind
    BY <2>2, CommandFields
  <2>4. kind = "add" <=> r \notin cmd[c].before
    BY <1>1, <1>5, <2>1, <2>2 DEF Onward
  <2>5. /\ cmd'[c].pc = "after" /\ cmd'[c].u = u /\ cmd'[c].op = kind /\ cmd'[c].before = cmd[c].before
    BY <2>1, <2>3 DEF TypeOK
  <2> QED
    BY <1>1, <2>4, <2>5 DEF Promised
<1> QED
  BY <1>2, <1>3, <1>4, <1>5 DEF Covered

\* The guild and the tables agree at the start.
LEMMA KindInitial == KindInit => KindInv
<1> USE ConstantsAssumption
<1> SUFFICES ASSUME KindInit PROVE KindInv
  OBVIOUS
<1>1. Calm
  BY DEF KindInit, Init, Calm, Settled, NoPoll, Managed, NoCmd
<1>2. ASSUME NEW u \in User, NEW r \in Created \cap rows PROVE Onward(u, r) /\ Covered(u, r)
  <2>1. r \in holds[u] <=> r \in GetMembership(u)
    <3>1. PICK keep \in SUBSET Ignored : holds = [v \in User |-> (GetMembership(v) \cap Role) \cup keep]
      BY DEF KindInit, Init
    <3> QED
      BY <3>1
  <2>2. Shown(u, r) <=> Turned(u, r)
    BY <2>1 DEF Shown, Turned
  <2>3. ASSUME NEW op \in {"add", "remove"} PROVE ~Underway(op, u, r)
    <3>1. ~Coming(Act(op), u, r)
      <4> DEFINE m == [act |-> Act(op), u |-> u, r |-> r]
      <4>1. m \in Msg
        BY DEF Msg, Act
      <4>2. queue[m] = 0 /\ \A t \in Thread : thr[t].pc = "idle"
        BY <4>1 DEF KindInit, Init, NoMsg
      <4> HIDE DEF m
      <4> QED
        BY <4>2 DEF Coming, m
    <3> QED
      BY <3>1 DEF Underway, KindInit, Init, NoCmd, NoPoll
  <2>4. poll.pc = "idle" /\ \A c \in Cmd : cmd[c] = NoCmd
    BY DEF KindInit, Init, NoPoll
  <2> QED
    BY <1>1, <2>2, <2>3, <2>4 DEF Onward, Covered, Calm
<1> QED
  BY <1>1, <1>2 DEF KindInv

\* Every step keeps the invariant.
LEMMA KindStep ==
  ASSUME OneKindOnly, TypeOK, KindInv, [KindNext]_<<vars, kind>>
  PROVE  KindInv'
<1>1. Calm /\ Calm'
  BY CalmStep DEF KindInv
<1>2. ASSUME NEW u \in User, NEW r \in Created \cap rows' PROVE Onward(u, r)' /\ Covered(u, r)'
  <2>1. r \in Created \cap rows
    BY <1>1, TurnedSteps
  <2>2. Onward(u, r) /\ Covered(u, r)
    BY <2>1 DEF KindInv
  <2> QED
    BY <1>1, <2>2, OnwardStep, CoveredStep
<1> QED
  BY <1>1, <1>2 DEF KindInv

\* The invariant and the types hold throughout.
LEMMA KindAlways == ASSUME OneKindOnly PROVE KindSpec => [](TypeOK /\ KindInv)
<1>1. KindInit => TypeOK /\ KindInv
  BY TypeInit, KindInitial DEF KindInit
<1>2. TypeOK /\ KindInv /\ [KindNext]_<<vars, kind>> => (TypeOK /\ KindInv)'
  <2> SUFFICES ASSUME TypeOK, KindInv, [KindNext]_<<vars, kind>> PROVE (TypeOK /\ KindInv)'
    OBVIOUS
  <2>1. [Next]_vars
    BY Steps DEF KindInv
  <2> QED
    BY <2>1, TypeStep, KindStep
<1> QED
  BY <1>1, <1>2, PTL DEF KindSpec

\* While users are only added to filters, no addition is lost: the handlers,
\* the poller and any number of overlapping commands, each of which publishes
\* the difference of two unlocked reads, leave no role created beforehand that a
\* user qualifies for and does not have, without a message or a promise of one.
THEOREM NoAdditionLost == ASSUME OneKindOnly PROVE KindSpec => []AddsCovered
<1>1. TypeOK /\ KindInv => AddsCovered
  <2> SUFFICES ASSUME TypeOK, KindInv, kind = "add", NEW u \in User, NEW r \in Created \cap GetMembership(u)
               PROVE  r \in holds[u] \/ Coming("upsert", u, r) \/ Promised("add", u, r)
    BY DEF AddsCovered, AdditionsCovered
  <2>1. r \in rows
    BY ConstantsAssumption DEF GetMembership, ChatIds, MemberRoles, TypeOK
  <2>2. Covered(u, r)
    BY <2>1 DEF KindInv
  <2> QED
    BY <2>2 DEF Covered, Turned, Shown, Act
<1> QED
  BY <1>1, KindAlways, PTL

\* While users are only removed from filters, no removal is lost.
THEOREM NoRemovalLost == ASSUME OneKindOnly PROVE KindSpec => []RemovesCovered
<1>1. TypeOK /\ KindInv => RemovesCovered
  <2> SUFFICES ASSUME TypeOK, KindInv, kind = "remove", NEW u \in User,
                      NEW r \in (holds[u] \cap Created) \ GetMembership(u)
               PROVE  Coming("delete", u, r) \/ Promised("remove", u, r)
    BY DEF RemovesCovered, RemovalsCovered
  <2>1. r \in rows
    BY ConstantsAssumption DEF KindInv, Calm, Managed
  <2>2. Covered(u, r)
    BY <2>1 DEF KindInv
  <2> QED
    BY <2>2 DEF Covered, Turned, Shown, Act
<1> QED
  BY <1>1, KindAlways, PTL
=============================================================================
