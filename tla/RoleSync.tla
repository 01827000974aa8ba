------------------------------ MODULE RoleSync ------------------------------
(***************************************************************************)
(* The path of a role from the database to the guild.                      *)
(*                                                                         *)
(* Commands change the roles table one statement at a time and publish to  *)
(* the "roles" queue; its handlers create, edit and delete the roles of    *)
(* the guild while they hold the Session lock; the poller compares two     *)
(* snapshots, of the guild and of the table, and publishes what differs.   *)
(* Rows and guild roles are matched by name, messages carry Discord ids.   *)
(*                                                                         *)
(* A role's name and its short name are one value here, of either kind     *)
(* (role or sig); the fields an edit sends are one boolean, `attr`         *)
(* (mentionable).  Discord ids are small numbers; an id that nothing       *)
(* refers to any more is given out again, which nobody can tell from a     *)
(* new one.                                                                *)
(***************************************************************************)
EXTENDS Integers, FiniteSets, SequencesExt

CONSTANTS
  Name,       \* role names
  Ignored,    \* those on the ignore list
  Fresh,      \* the name Discord gives to a role it has just created
  Id,         \* Discord ids, numbers
  IdAtStart,  \* the id of a name whose role is there at the start
  Blank,      \* the id in a message of roles.Add and roles.Update: ""
  Cmd, Thread, Free,
  Ops,        \* the commands that are issued
  Faults,     \* the failures that occur
  MaxCmds, MaxFaults,
  MaxCopies,  \* bounds: the poller adds no copy to as many of one message in
  MaxQueue    \* the queue, and nothing to a queue of that length

Zero == 0     \* chat_id of a role that was never created

ASSUME ConstantsAssumption ==
  /\ Ignored \subseteq Name /\ Fresh \notin Name /\ "none" \notin Name \cup {Fresh}
  /\ Id \subseteq Nat \ {Zero} /\ IsFiniteSet(Id) /\ Blank \notin Id \cup {Zero}
  /\ Free \notin Thread /\ IsFiniteSet(Thread)
  /\ Ops \subseteq {"add", "destroy", "update"}
  /\ Faults \subseteq {"crash", "broker", "rest", "db", "manual", "overlap"}
  /\ MaxCmds \in Nat /\ MaxFaults \in Nat /\ MaxCopies \in Nat
  /\ MaxQueue \in Nat

ASSUME StartAssumption ==
  IdAtStart \in [Name -> Id] /\ \A m, n \in Name : m # n => IdAtStart[m] # IdAtStart[n]

VARIABLES
  rows, serial, synced, chatId, attr, \* table roles
  filters, attached,                \* the default filters; role_filters
  guild,                            \* Discord
  queue, connected,                 \* RabbitMQ
  cmd, thr, lock, poll,             \* the process
  cmds, faults                      \* bounds

roles   == <<rows, serial, synced, chatId, attr>>
links   == <<filters, attached>>
broker  == <<queue, connected>>
process == <<cmd, thr, lock, poll>>
bounds  == <<cmds, faults>>
vars    == <<roles, links, guild, broker, process, bounds>>

-----------------------------------------------------------------------------
(* Types                                                                   *)

RowId   == Id \cup {Zero}
Upsert  == [act : {"upsert"}, n : Name, id : RowId \cup {Blank}, attr : BOOLEAN]
Delete  == [act : {"delete"}, id : RowId]
Msg     == Upsert \cup Delete

NoRole  == [n |-> "none"]
Shown   == [n : Name \cup {Fresh}, attr : BOOLEAN]

NoCmd   == [pc |-> "idle"]
CmdState ==
  {NoCmd} \cup [pc : {"filter", "attach"}, n : Name, row : Nat]
          \cup [pc : {"delete"}, n : Name, id : RowId]
          \cup [pc : {"write", "read"}, n : Name, on : BOOLEAN, key : {"sync", "attr"}, val : BOOLEAN]
          \cup [pc : {"look"}, n : Name, on : BOOLEAN, attr : BOOLEAN]
          \cup [pc : {"store"}, n : Name, on : BOOLEAN, attr : BOOLEAN, seen : Id, differ : BOOLEAN]
          \cup [pc : {"publish"}, m : Msg]

NoMsg   == [pc |-> "idle"]
ThrState ==
  {NoMsg} \cup [pc : {"wait", "row", "exists", "create", "store", "edit", "delete", "ack", "requeue"},
                m : Msg, id : RowId \cup {Blank}]

NoPoll  == [pc |-> "idle"]
Snapshot(N) == UNION {[S -> [id : RowId, attr : BOOLEAN]] : S \in SUBSET N}
PollState ==
  {NoPoll} \cup [pc : {"rows"}, seen : Snapshot(Name \cup {Fresh})]
           \cup [pc : {"fix"}, seen : Snapshot(Name \cup {Fresh}), db : Snapshot(Name)]
           \cup [pc : {"publish"}, todo : SUBSET Msg]

TypeOK ==
  /\ rows \subseteq Name /\ serial \in [Name -> Nat] /\ synced \subseteq rows
  /\ chatId \in [Name -> RowId] /\ attr \in [Name -> BOOLEAN]
  /\ filters \subseteq Name /\ attached \subseteq filters /\ attached \subseteq rows
  /\ guild \in [Id -> Shown \cup {NoRole}]
  /\ queue \in Seq(Msg) /\ connected \in BOOLEAN
  /\ cmd \in [Cmd -> CmdState] /\ thr \in [Thread -> ThrState]
  /\ lock \in Thread \cup {Free} /\ poll \in PollState
  /\ cmds \in 0..MaxCmds /\ faults \in 0..MaxFaults

-----------------------------------------------------------------------------
(* State functions                                                         *)

\* The ids of the guild's roles named n.
Named(n) == {i \in Id : guild[i].n = n}
Exists(n) == Named(n) # {}

\* Ids that something still refers to.
InUse ==
  {i \in Id :
     \/ guild[i] # NoRole \/ \E n \in Name : chatId[n] = i
     \/ \E m \in Range(queue) : m.id = i
     \/ \E t \in Thread : thr[t] # NoMsg /\ i \in {thr[t].m.id, thr[t].id}
     \/ \E c \in Cmd : \/ cmd[c].pc = "delete" /\ cmd[c].id = i
                       \/ cmd[c].pc = "publish" /\ cmd[c].m.id = i
                       \/ cmd[c].pc = "store" /\ cmd[c].seen = i
     \/ poll.pc = "publish" /\ \E m \in poll.todo : m.id = i
     \/ poll.pc \in {"rows", "fix"} /\ \E n \in DOMAIN poll.seen : poll.seen[n].id = i
     \/ poll.pc = "fix" /\ \E n \in DOMAIN poll.db : poll.db[n].id = i}

Publish(m) == queue' = IF connected THEN Append(queue, m) ELSE queue

-----------------------------------------------------------------------------
(* At the start every row of Name is there or not; a synced row has its    *)
(* role, an ignored name has a role of the guild and no row.               *)

Init ==
  /\ rows \in SUBSET (Name \ Ignored) /\ serial = [n \in Name |-> 0] /\ synced = rows
  /\ attr = [n \in Name |-> TRUE]
  /\ filters = rows /\ attached = rows
  /\ chatId = [n \in Name |-> IF n \in rows THEN IdAtStart[n] ELSE Zero]
  /\ guild = [i \in Id |->
       IF \E n \in rows \cup Ignored : IdAtStart[n] = i
       THEN [n |-> CHOOSE n \in rows \cup Ignored : IdAtStart[n] = i, attr |-> TRUE]
       ELSE NoRole]
  /\ queue = <<>> /\ connected = TRUE
  /\ cmd = [c \in Cmd |-> NoCmd] /\ thr = [t \in Thread |-> NoMsg]
  /\ lock = Free /\ poll = NoPoll
  /\ cmds = 0 /\ faults = 0

-----------------------------------------------------------------------------
(* roles.Add                                                               *)

\* InsertRole; a sig is synced from the start, a role is not.  The row has an id
\* of its own, `serial`, by which the command attaches the filter.
AddBegin(c, n, sig) ==
  /\ "add" \in Ops /\ cmd[c] = NoCmd /\ cmds < MaxCmds /\ n \notin rows
  /\ rows' = rows \cup {n} /\ serial' = [serial EXCEPT ![n] = @ + 1]
  /\ synced' = IF sig THEN synced \cup {n} ELSE synced
  /\ chatId' = [chatId EXCEPT ![n] = Zero] /\ attr' = [attr EXCEPT ![n] = TRUE]
  /\ cmd' = [cmd EXCEPT ![c] = [pc |-> "filter", n |-> n, row |-> serial[n] + 1]]
  /\ cmds' = cmds + 1
  /\ UNCHANGED <<links, guild, broker, thr, lock, poll, faults>>

\* Mutant: the command ends before the filter's row is written.
AddFilterRowSkipped(c) ==
  /\ cmd[c].pc = "filter"
  /\ cmd' = [cmd EXCEPT ![c] = NoCmd]
  /\ UNCHANGED <<roles, links, guild, broker, thr, lock, poll, bounds>>

\* filters.Add: an existing name gives filter -1, which no foreign key
\* accepts: the command ends with its row in the table.
AddFilterRow(c) ==
  /\ cmd[c].pc = "filter"
  /\ filters' = filters \cup {cmd[c].n}
  /\ cmd' = [cmd EXCEPT ![c] = IF cmd[c].n \in filters THEN NoCmd
                               ELSE [cmd[c] EXCEPT !.pc = "attach"]]
  /\ UNCHANGED <<roles, attached, guild, broker, thr, lock, poll, bounds>>

\* InsertRoleFilter, which fails if the command's row is gone, also when there
\* is another of that name by now.
AttachFilter(c) ==
  /\ cmd[c].pc = "attach"
  /\ LET n     == cmd[c].n
         there == n \in rows /\ cmd[c].row = serial[n]
     IN  /\ attached' = IF there THEN attached \cup {n} ELSE attached
         /\ cmd' = [cmd EXCEPT ![c] =
              IF ~there THEN NoCmd
              ELSE [pc |-> "publish", m |-> [act |-> "upsert", n |-> n, id |-> Blank, attr |-> FALSE]]]
  /\ UNCHANGED <<roles, filters, guild, broker, thr, lock, poll, bounds>>

\* queueUpdate, the last step of Add, Destroy and Update.
CmdPublish(c) ==
  /\ cmd[c].pc = "publish"
  /\ Publish(cmd[c].m)
  /\ cmd' = [cmd EXCEPT ![c] = NoCmd]
  /\ UNCHANGED <<roles, links, guild, connected, thr, lock, poll, bounds>>

-----------------------------------------------------------------------------
(* roles.Destroy                                                           *)

\* GetRole, for the id.
DestroyBegin(c, n) ==
  /\ "destroy" \in Ops /\ cmd[c] = NoCmd /\ cmds < MaxCmds /\ n \in rows
  /\ cmd' = [cmd EXCEPT ![c] = [pc |-> "delete", n |-> n, id |-> chatId[n]]]
  /\ cmds' = cmds + 1
  /\ UNCHANGED <<roles, links, guild, broker, thr, lock, poll, faults>>

\* Mutant: no ON DELETE CASCADE.
DeleteRowKeepsLink(c) ==
  /\ cmd[c].pc = "delete"
  /\ LET n == cmd[c].n IN
       /\ rows' = rows \ {n} /\ synced' = synced \ {n}
       /\ chatId' = [chatId EXCEPT ![n] = Zero] /\ attr' = [attr EXCEPT ![n] = TRUE]
  /\ cmd' = [cmd EXCEPT ![c] = [pc |-> "publish", m |-> [act |-> "delete", id |-> cmd[c].id]]]
  /\ UNCHANGED <<serial, links, guild, broker, thr, lock, poll, bounds>>

\* storage.DeleteRole.  The deletions of its loop use the id of the
\* role_filters row, which GetRoleFilters does not select, so they delete
\* what has id 0: nothing.  The link goes with the row.
DeleteRow(c) ==
  /\ cmd[c].pc = "delete"
  /\ LET n == cmd[c].n IN
       /\ rows' = rows \ {n} /\ synced' = synced \ {n} /\ attached' = attached \ {n}
       /\ chatId' = [chatId EXCEPT ![n] = Zero] /\ attr' = [attr EXCEPT ![n] = TRUE]
  /\ cmd' = [cmd EXCEPT ![c] = [pc |-> "publish", m |-> [act |-> "delete", id |-> cmd[c].id]]]
  /\ UNCHANGED <<serial, filters, guild, broker, thr, lock, poll, bounds>>

-----------------------------------------------------------------------------
(* roles.Update, of the sync flag or of another field                      *)

\* GetRoleByType; its error is overwritten, and the zero role is not synced.
UpdateBegin(c, n, key, val) ==
  /\ "update" \in Ops /\ cmd[c] = NoCmd /\ cmds < MaxCmds
  /\ cmd' = [cmd EXCEPT ![c] =
       [pc |-> "write", n |-> n, on |-> n \in synced, key |-> key, val |-> val]]
  /\ cmds' = cmds + 1
  /\ UNCHANGED <<roles, links, guild, broker, thr, lock, poll, faults>>

\* UpdateRoleValues
UpdateWrite(c) ==
  /\ cmd[c].pc = "write"
  /\ LET k == cmd[c] IN
       /\ synced' = IF k.key # "sync" \/ k.n \notin rows THEN synced
                    ELSE IF k.val THEN synced \cup {k.n} ELSE synced \ {k.n}
       /\ attr' = IF k.key = "attr" /\ k.n \in rows THEN [attr EXCEPT ![k.n] = k.val] ELSE attr
  /\ cmd' = [cmd EXCEPT ![c].pc = "read"]
  /\ UNCHANGED <<rows, serial, chatId, links, guild, broker, thr, lock, poll, bounds>>

\* GetChremoasRole
UpdateRead(c) ==
  /\ cmd[c].pc = "read"
  /\ LET k == cmd[c] IN
       cmd' = [cmd EXCEPT ![c] =
         IF k.n \notin rows THEN NoCmd
         ELSE [pc |-> "look", n |-> k.n, on |-> k.on, attr |-> attr[k.n]]]
  /\ UNCHANGED <<roles, links, guild, broker, thr, lock, poll, bounds>>

BlankUpsert(n, a) == [act |-> "upsert", n |-> n, id |-> Blank, attr |-> a]

\* GetDiscordRole
UpdateLook(c) ==
  /\ cmd[c].pc = "look"
  /\ LET k == cmd[c] IN
       IF Exists(k.n)
       THEN \E i \in Named(k.n) :
              cmd' = [cmd EXCEPT ![c] =
                [pc |-> "store", n |-> k.n, on |-> k.on, attr |-> k.attr,
                 seen |-> i, differ |-> guild[i].attr # k.attr]]
       ELSE cmd' = [cmd EXCEPT ![c] = [pc |-> "publish", m |-> BlankUpsert(k.n, k.attr)]]
  /\ UNCHANGED <<roles, links, guild, broker, thr, lock, poll, bounds>>

\* UpdateRole: GetChremoasRole selects no id, so it always seems to differ.
UpdateStore(c) ==
  /\ cmd[c].pc = "store"
  /\ LET k == cmd[c] IN
       /\ chatId' = IF k.n \in rows THEN [chatId EXCEPT ![k.n] = k.seen] ELSE chatId
       /\ cmd' = [cmd EXCEPT ![c] =
            IF k.on /\ k.differ THEN [pc |-> "publish", m |-> BlankUpsert(k.n, k.attr)]
                                ELSE NoCmd]
  /\ UNCHANGED <<rows, serial, synced, attr, links, guild, broker, thr, lock, poll, bounds>>

-----------------------------------------------------------------------------
(* The roles handler (discord/roles HandleMessage, upsert, delete)         *)

\* The consumer sets no prefetch limit, so that the broker pushes everything
\* it has; the goroutines take it from one channel, in its order.
Deliver(t) ==
  /\ connected /\ thr[t] = NoMsg /\ queue # <<>>
  /\ queue' = Tail(queue)
  /\ thr' = [thr EXCEPT ![t] = [pc |-> "wait", m |-> Head(queue), id |-> Head(queue).id]]
  /\ UNCHANGED <<roles, links, guild, connected, cmd, lock, poll, bounds>>

\* IgnoreRole, on the name in the message: reject for good.
IgnoreMsg(t) ==
  /\ thr[t].pc = "wait" /\ thr[t].m.act = "upsert" /\ thr[t].m.n \in Ignored
  /\ thr' = [thr EXCEPT ![t] = NoMsg]
  /\ UNCHANGED <<roles, links, guild, broker, cmd, lock, poll, bounds>>

\* Mutant: no Session.Lock().
AcquireUnlocked(t) ==
  /\ thr[t].pc = "wait"
  /\ thr[t].m.act = "upsert" => thr[t].m.n \notin Ignored
  /\ thr' = [thr EXCEPT ![t].pc = IF thr[t].m.act = "upsert" THEN "row" ELSE "delete"]
  /\ lock' = t
  /\ UNCHANGED <<roles, links, guild, broker, cmd, poll, bounds>>

\* Session.Lock()
Acquire(t) ==
  /\ thr[t].pc = "wait" /\ lock = Free
  /\ thr[t].m.act = "upsert" => thr[t].m.n \notin Ignored
  /\ thr' = [thr EXCEPT ![t].pc = IF thr[t].m.act = "upsert" THEN "row" ELSE "delete"]
  /\ lock' = t
  /\ UNCHANGED <<roles, links, guild, broker, cmd, poll, bounds>>

\* The return of upsert or delete: the lock is released before the
\* message is acknowledged, or rejected to be queued again.
Return(t, how) ==
  /\ thr' = [thr EXCEPT ![t].pc = how]
  /\ lock' = Free

GoOn(t, pc) ==
  /\ thr' = [thr EXCEPT ![t].pc = pc]
  /\ UNCHANGED lock

\* GetRole, and the sync flag.
CheckRow(t) ==
  /\ thr[t].pc = "row"
  /\ LET n == thr[t].m.n IN
       \/ n \notin rows /\ Return(t, "requeue")
       \/ n \in rows \ synced /\ Return(t, "ack")
       \/ n \in synced /\ GoOn(t, "exists")
  /\ UNCHANGED <<roles, links, guild, broker, cmd, poll, bounds>>

\* exists, and the check of the message's id.
CheckExists(t) ==
  /\ thr[t].pc = "exists"
  /\ \/ ~Exists(thr[t].m.n) /\ GoOn(t, "create")
     \/ Exists(thr[t].m.n) /\ thr[t].m.id = Blank /\ Return(t, "ack")
     \/ Exists(thr[t].m.n) /\ thr[t].m.id # Blank /\ GoOn(t, "edit")
  /\ UNCHANGED <<roles, links, guild, broker, cmd, poll, bounds>>

\* GuildRoleCreate
Create(t) ==
  /\ thr[t].pc = "create" /\ InUse # Id
  /\ LET i == Min(Id \ InUse) IN
       /\ guild' = [guild EXCEPT ![i] = [n |-> Fresh, attr |-> FALSE]]
       /\ thr' = [thr EXCEPT ![t].pc = "store", ![t].id = i]
  /\ UNCHANGED <<roles, links, broker, cmd, lock, poll, bounds>>

\* UpdateRole: every row of that name.
StoreId(t) ==
  /\ thr[t].pc = "store"
  /\ LET n == thr[t].m.n
     IN  chatId' = IF n \in rows THEN [chatId EXCEPT ![n] = thr[t].id] ELSE chatId
  /\ GoOn(t, "edit")
  /\ UNCHANGED <<rows, serial, synced, attr, links, guild, broker, cmd, poll, bounds>>

\* GuildRoleEdit.  The role edited is the one with the id, whatever its
\* name; the edit of an id the guild does not have is an error.
Edit(t) ==
  /\ thr[t].pc = "edit"
  /\ LET i == thr[t].id
         there == i \in Id /\ guild[i] # NoRole
     IN  /\ guild' = IF there
                     THEN [guild EXCEPT ![i] = [n |-> thr[t].m.n, attr |-> thr[t].m.attr]]
                     ELSE guild
         /\ Return(t, IF there THEN "ack" ELSE "requeue")
  /\ UNCHANGED <<roles, links, broker, cmd, poll, bounds>>

\* GuildRoleDelete; a role that is not there is no error.
DeleteRole(t) ==
  /\ thr[t].pc = "delete"
  /\ guild' = [i \in Id |-> IF i = thr[t].m.id THEN NoRole ELSE guild[i]]
  /\ Return(t, "ack")
  /\ UNCHANGED <<roles, links, broker, cmd, poll, bounds>>

\* Ack, or Reject(true): pushed again, behind what was already pushed.
Finish(t) ==
  /\ thr[t].pc \in {"ack", "requeue"}
  /\ IF thr[t].pc = "requeue" THEN Publish(thr[t].m) ELSE UNCHANGED queue
  /\ thr' = [thr EXCEPT ![t] = NoMsg]
  /\ UNCHANGED <<roles, links, guild, connected, cmd, lock, poll, bounds>>

-----------------------------------------------------------------------------
(* The poller (esi-poller syncRoles)                                       *)

Fault(f) == f \in Faults /\ faults < MaxFaults /\ faults' = faults + 1

\* Some handler is between the creation of a role and the edit that names it.
Creating == \E t \in Thread : thr[t].pc \in {"store", "edit"} /\ thr[t].id \in Named(Fresh)

\* Mutant: the ignore list is not looked at.
AllNames == {guild[i].n : i \in {j \in Id : guild[j] # NoRole}}

\* The names of the guild's roles that are not ignored.
SeenNames == {guild[i].n : i \in {j \in Id : guild[j] # NoRole}} \ Ignored

\* GuildRoles.  The map is keyed by name: of two roles of one name it keeps
\* one.  A round, of which there is one an hour, that meets a creation counts
\* as a fault.
PollGuild ==
  /\ poll = NoPoll
  /\ IF Creating THEN Fault("overlap") ELSE UNCHANGED faults
  /\ \E pick \in [SeenNames -> Id] :
       /\ \A n \in SeenNames : pick[n] \in Named(n)
       /\ poll' = [pc |-> "rows",
                   seen |-> [n \in SeenNames |-> [id |-> pick[n], attr |-> guild[pick[n]].attr]]]
  /\ UNCHANGED <<roles, links, guild, broker, cmd, thr, lock, cmds>>

\* GetRolesBySync
PollRows ==
  /\ poll.pc = "rows"
  /\ poll' = [pc |-> "fix", seen |-> poll.seen,
              db |-> [n \in synced |-> [id |-> chatId[n], attr |-> attr[n]]]]
  /\ UNCHANGED <<roles, links, guild, broker, cmd, thr, lock, bounds>>

Wrong == {n \in DOMAIN poll.db \cap DOMAIN poll.seen : poll.db[n].id # poll.seen[n].id}

\* Mutant: the id is put right in the snapshot and not in the table.
PollFixLocal(n) ==
  /\ poll.pc = "fix" /\ n \in Wrong
  /\ poll' = [poll EXCEPT !.db[n].id = poll.seen[n].id]
  /\ UNCHANGED <<roles, links, guild, broker, cmd, thr, lock, bounds>>

\* UpdateRole, for a role whose id is not the one in the table.
PollFix(n) ==
  /\ poll.pc = "fix" /\ n \in Wrong
  /\ chatId' = IF n \in rows THEN [chatId EXCEPT ![n] = poll.seen[n].id] ELSE chatId
  /\ poll' = [poll EXCEPT !.db[n].id = poll.seen[n].id]
  /\ UNCHANGED <<rows, serial, synced, attr, links, guild, broker, cmd, thr, lock, bounds>>

UpsertOf(n) == [act |-> "upsert", n |-> n, id |-> poll.db[n].id, attr |-> poll.db[n].attr]

\* difference and interDiff: what the two snapshots make of each name.
Deletions == {[act |-> "delete", id |-> poll.seen[n].id] : n \in DOMAIN poll.seen \ DOMAIN poll.db}
Additions == {UpsertOf(n) : n \in DOMAIN poll.db \ DOMAIN poll.seen}
Updates   == {UpsertOf(n) : n \in {k \in DOMAIN poll.db \cap DOMAIN poll.seen :
                                     poll.db[k].attr # poll.seen[k].attr}}

PollDiff ==
  /\ poll.pc = "fix" /\ Wrong = {}
  /\ LET todo == Deletions \cup Additions \cup Updates
     IN  poll' = IF todo = {} THEN NoPoll ELSE [pc |-> "publish", todo |-> todo]
  /\ UNCHANGED <<roles, links, guild, broker, cmd, thr, lock, bounds>>

Copies(m) == Cardinality({i \in DOMAIN queue : queue[i] = m})

\* Deletions first.
PollPublish ==
  /\ poll.pc = "publish"
  /\ \E m \in poll.todo :
       /\ m.act = "upsert" => \A k \in poll.todo : k.act = "upsert"
       /\ IF Copies(m) < MaxCopies /\ Len(queue) < MaxQueue THEN Publish(m) ELSE UNCHANGED queue
       /\ poll' = IF poll.todo = {m} THEN NoPoll ELSE [poll EXCEPT !.todo = poll.todo \ {m}]
  /\ UNCHANGED <<roles, links, guild, connected, cmd, thr, lock, bounds>>

-----------------------------------------------------------------------------
(* Failures                                                                *)

\* GuildRoles fails inside exists, which then answers true.
ListFails(t) ==
  /\ Fault("rest") /\ thr[t].pc = "exists"
  /\ \/ thr[t].m.id = Blank /\ Return(t, "ack")
     \/ thr[t].m.id # Blank /\ GoOn(t, "edit")
  /\ UNCHANGED <<roles, links, guild, broker, cmd, poll, cmds>>

\* GuildRoleCreate, GuildRoleEdit or GuildRoleDelete fails.
CallFails(t) ==
  /\ Fault("rest") /\ thr[t].pc \in {"create", "edit", "delete"}
  /\ Return(t, "requeue")
  /\ UNCHANGED <<roles, links, guild, broker, cmd, poll, cmds>>

\* GetRole fails: the message is tried again.  UpdateRole fails: only logged.
DbFails(t) ==
  /\ Fault("db")
  /\ \/ thr[t].pc = "row" /\ Return(t, "requeue")
     \/ thr[t].pc = "store" /\ GoOn(t, "edit")
  /\ UNCHANGED <<roles, links, guild, broker, cmd, poll, cmds>>

\* A statement of a command fails, which ends the command where it is; the
\* failure of UpdateStore is only logged.
CmdFails(c) ==
  /\ Fault("db") /\ cmd[c].pc \in {"filter", "attach", "delete", "write", "read"}
  /\ cmd' = [cmd EXCEPT ![c] = NoCmd]
  /\ UNCHANGED <<roles, links, guild, broker, thr, lock, poll, cmds>>

\* GetRolesBySync or UpdateRole fails, which ends the round.
PollFails ==
  /\ Fault("db") /\ poll.pc \in {"rows", "fix"}
  /\ poll' = NoPoll
  /\ UNCHANGED <<roles, links, guild, broker, cmd, thr, lock, cmds>>

\* The process dies: by itself, or because the error of a deletion is no
\* RESTError and the type assertion on it panics.  It is started again and
\* is sent what it has not acknowledged, in an order unlike the present one:
\* that of the first publications.
Crash ==
  /\ Fault("crash")
  /\ LET held == SetToSeq({t \in Thread : thr[t] # NoMsg})
         all  == [i \in DOMAIN held |-> thr[held[i]].m] \o queue
     IN  IF connected
         THEN \E p \in SetToSeqs(DOMAIN all) : queue' = [i \in DOMAIN all |-> all[p[i]]]
         ELSE UNCHANGED queue
  /\ connected' = TRUE
  /\ cmd' = [c \in Cmd |-> NoCmd] /\ thr' = [t \in Thread |-> NoMsg]
  /\ lock' = Free /\ poll' = NoPoll
  /\ UNCHANGED <<roles, links, guild, cmds>>

BrokerRestart ==
  /\ Fault("broker") /\ connected
  /\ queue' = <<>> /\ connected' = FALSE
  /\ UNCHANGED <<roles, links, guild, process, cmds>>

\* An administrator deletes a role of the guild, or creates one.
ManualDelete(i) ==
  /\ Fault("manual") /\ guild[i] # NoRole /\ guild[i].n \notin Ignored
  /\ guild' = [guild EXCEPT ![i] = NoRole]
  /\ UNCHANGED <<roles, links, broker, process, cmds>>

ManualCreate(n) ==
  /\ Fault("manual") /\ InUse # Id
  /\ guild' = [guild EXCEPT ![Min(Id \ InUse)] = [n |-> n, attr |-> FALSE]]
  /\ UNCHANGED <<roles, links, broker, process, cmds>>

-----------------------------------------------------------------------------

CmdStep(c) ==
  \/ AddFilterRow(c) \/ AttachFilter(c) \/ CmdPublish(c) \/ DeleteRow(c)
  \/ UpdateWrite(c) \/ UpdateRead(c) \/ UpdateLook(c) \/ UpdateStore(c)

HandlerStep(t) ==
  \/ IgnoreMsg(t) \/ CheckRow(t) \/ CheckExists(t) \/ Create(t) \/ StoreId(t)
  \/ Edit(t) \/ DeleteRole(t) \/ Finish(t)

PollStep == PollRows \/ (\E n \in Name : PollFix(n)) \/ PollDiff \/ PollPublish

Next ==
  \/ \E c \in Cmd, n \in Name :
       \/ \E sig \in BOOLEAN : AddBegin(c, n, sig)
       \/ DestroyBegin(c, n)
       \/ \E key \in {"sync", "attr"}, val \in BOOLEAN : UpdateBegin(c, n, key, val)
  \/ \E c \in Cmd : CmdStep(c) \/ CmdFails(c)
  \/ \E t \in Thread : Deliver(t) \/ Acquire(t) \/ HandlerStep(t) \/ ListFails(t) \/ CallFails(t) \/ DbFails(t)
  \/ PollGuild \/ PollStep \/ PollFails
  \/ Crash \/ BrokerRestart
  \/ \E i \in Id : ManualDelete(i)
  \/ \E n \in Name \ Ignored : ManualCreate(n)

Spec == Init /\ [][Next]_vars

(* Fairness: goroutines run; whoever waits for the lock gets it; a handler  *)
(* that is free takes a message.  A round begins again and again, creations *)
(* that it would meet notwithstanding.                                      *)
Fairness ==
  /\ \A c \in Cmd : WF_vars(CmdStep(c))
  /\ \A t \in Thread : WF_vars(Deliver(t)) /\ SF_vars(Acquire(t)) /\ WF_vars(HandlerStep(t))
  /\ SF_vars(PollGuild) /\ WF_vars(PollStep)

FairSpec == Spec /\ Fairness

-----------------------------------------------------------------------------
(* Properties                                                              *)

\* "Check and see if this role has been created in discord or not"
\* (internal/discord/roles/roles.go:150): however handlers, commands and rounds
\* interleave, no second role of one name is created.  It depends on the lock,
\* which covers the look at the guild and the naming of the new role, and on
\* no failure between the creation and the naming.
OneRolePerName == \A n \in Name : Cardinality(Named(n)) <= 1

\* The guild's roles are the synced rows and the ignored ones, with the right
\* fields, and the table knows their ids.
InSync ==
  /\ \A n \in synced \ Ignored : /\ chatId[n] \in Id
                       /\ guild[chatId[n]] = [n |-> n, attr |-> attr[n]]
  /\ \A i \in Id : guild[i] # NoRole => guild[i].n \in synced \cup Ignored

\* "Make sure the roles we have in the db match what's in discord"
\* (internal/esi-poller/roles.go:14): if the connection survives, they end up
\* the same for good, whatever failed, was reordered or is requeued for ever.
EventuallyInSync == <>[]connected => <>[]InSync

\* Ignored roles are never changed, whatever ids stale messages carry.
IgnoredStay ==
  [][\A i \in Id : guild[i].n \in Ignored => guild'[i] = guild[i]]_vars

\* A role without its default filter, which no command is going to attach.
Bare(n) ==
  /\ n \in rows \ attached
  /\ \A c \in Cmd : cmd[c].pc \in {"filter", "attach"} /\ cmd[c].n = n => cmd[c].row # serial[n]

\* "We now need to create the default filter for this role"
\* (internal/roles/roles.go:308), which does not always succeed.  While no
\* statement fails there is one reason only: when the command came to it the
\* filter's name was taken, by what roles.Destroy leaves behind or by another
\* command for a row of that name.  Commands that add, destroy and add again
\* under one name never attach to each other's rows instead.
BareOnlyWhenTaken == [][\A n \in Name : Bare(n)' /\ ~Bare(n) => n \in filters]_vars

=============================================================================
