----------------------------- MODULE MemberSync -----------------------------
(***************************************************************************)
(* The path of a membership from the database to Discord.                  *)
(*                                                                         *)
(* Commands (goroutines of the Discord session and of the poller) change   *)
(* the filter tables one SQL statement at a time and publish one message   *)
(* per role a user gained or lost; the "members" queue hands the messages  *)
(* to eight handler goroutines, which apply them to the guild while they   *)
(* hold the Session lock; the poller compares the guild with the database  *)
(* for every mapped user and publishes what is missing or in excess.       *)
(*                                                                         *)
(* A role and its Discord id are one value of Role: `linked` holds the     *)
(* roles whose row carries that id, any other row carries the column's     *)
(* default, NoChat.                                                        *)
(***************************************************************************)
EXTENDS Membership, Integers

CONSTANTS
  User, Filter,
  Role,       \* the roles of the guild, by Discord id
  Ignored,    \* those on the ignore list (bot.ignoredRoles, @everyone)
  NoChat,     \* chat_id 0
  RoleFilters,\* the role_filters rows at the start
  Created,    \* the roles that exist in Discord at the start
  Cmd,        \* goroutines running a filter command
  Thread,     \* goroutines running the members handler
  Free,       \* nobody holds the Session lock
  Ops,        \* the commands that are issued
  Faults,     \* the failures that occur
  MaxCmds,    \* bound: commands begun in a behaviour
  MaxFaults,  \* bound: failures in a behaviour
  MaxCopies   \* bound: copies of a message in the queue, for a poll to begin

Managed  == Role \ Ignored

\* The roles handler creates a role in three calls, under the Session lock.
Creation == [pc : {"store", "name"}, r : Managed]

ASSUME ConstantsAssumption ==
  /\ Ignored \subseteq Role /\ Created \subseteq Role \ Ignored
  /\ RoleFilters \in [Role \ Ignored -> SUBSET Filter]
  /\ \A r \in Role \ Ignored : IsFiniteSet(RoleFilters[r])
  /\ NoChat \notin Role
  /\ Free \notin Thread /\ IsFiniteSet(Thread)
  /\ Thread \cap Creation = {} /\ Free \notin Creation
  /\ Ops \subseteq {"add", "remove", "delete", "destroy", "sync"}
  /\ Faults \subseteq {"crash", "broker", "rest", "db", "leave", "manual"}
  /\ MaxCmds \in Nat /\ MaxFaults \in Nat /\ MaxCopies \in Nat

VARIABLES
  filters, member, filtersOf, rows, linked, synced, mapped,  \* PostgreSQL
  guild, guildRoles, unnamed, holds,                         \* Discord
  doomed, queue, unacked, connected,                         \* RabbitMQ
  cmd, thr, lock, poll, left,                                \* the process
  cmds, faults                                               \* bounds

tables   == <<filters, member, filtersOf, rows, linked, synced, mapped>>
discord  == <<guild, guildRoles, unnamed, holds>>
broker   == <<doomed, queue, unacked, connected>>
process  == <<cmd, thr, lock, poll, left>>
bounds   == <<cmds, faults>>
vars     == <<tables, discord, broker, process, bounds>>

-----------------------------------------------------------------------------
(* Types                                                                   *)

Msg     == [act : {"upsert", "delete"}, u : User, r : Role]
ChatId  == Role \cup {NoChat}

NoCmd   == [pc |-> "idle"]
CmdState ==
  {NoCmd}
    \cup [pc : {"lookup", "write", "after", "publish"}, op : {"add", "remove"},
          u : User, f : Filter, before : SUBSET ChatId, todo : SUBSET Role]
    \cup [pc : {"lookup", "members", "links", "row"}, op : {"delete"}, f : Filter]

NoMsg    == [pc |-> "idle"]
ThrState == {NoMsg} \cup [pc : {"wait", "check", "call", "ack"}, m : Msg]

NoPoll    == [pc |-> "idle"]
PollState ==
  {NoPoll} \cup [pc : {"rows"}, seen : SUBSET Managed, new : SUBSET Managed]
           \cup [pc : {"read"}, u : User, has : SUBSET Role]
           \cup [pc : {"publish"}, u : User, add : SUBSET Role, del : SUBSET Role]

TypeOK ==
  /\ filters \subseteq Filter /\ member \in [Filter -> SUBSET User]
  /\ filtersOf \in [Managed -> SUBSET Filter]
  /\ rows \subseteq Managed /\ linked \subseteq rows /\ synced \subseteq Managed
  /\ mapped \subseteq User /\ guild \subseteq User /\ guildRoles \subseteq Role /\ doomed \subseteq Managed
  /\ unnamed \subseteq guildRoles \ Ignored
  /\ holds \in [User -> SUBSET Role]
  /\ queue \in [Msg -> Nat] /\ unacked \in [Msg -> Nat] /\ connected \in BOOLEAN
  /\ cmd \in [Cmd -> CmdState] /\ thr \in [Thread -> ThrState]
  /\ lock \in Thread \cup {Free} \cup Creation
  /\ poll \in PollState /\ left \subseteq User
  /\ cmds \in 0..MaxCmds /\ faults \in 0..MaxFaults

-----------------------------------------------------------------------------
(* State functions                                                         *)

\* common.GetMembership(u)
GetMembership(u) == ChatIds(rows, linked, filtersOf, member, NoChat, u)

-----------------------------------------------------------------------------
(* The guild and the tables agree at the start: roles with a row are       *)
(* linked or not yet created, and users hold what their filters give them. *)

Init ==
  /\ filters = Filter
  /\ member \in [Filter -> SUBSET User]
  /\ filtersOf = RoleFilters
  /\ rows = Managed /\ linked = Created /\ synced = Managed
  /\ mapped = User /\ guild = User
  /\ guildRoles = linked \cup Ignored /\ unnamed = {} /\ doomed = {}
  /\ \E keep \in SUBSET Ignored :
       holds = [u \in User |-> (GetMembership(u) \cap Role) \cup keep]
  /\ queue = [m \in Msg |-> 0] /\ unacked = [m \in Msg |-> 0] /\ connected = TRUE
  /\ cmd = [c \in Cmd |-> NoCmd] /\ thr = [t \in Thread |-> NoMsg]
  /\ lock = Free /\ poll = NoPoll /\ left = {}
  /\ cmds = 0 /\ faults = 0

-----------------------------------------------------------------------------
(* Publishing (filters.QueueUpdate).  Id 0 was dropped before; a publish   *)
(* on a closed connection fails, which is only logged.                     *)

Publish(act, u, r) ==
  queue' = IF connected THEN [queue EXCEPT ![[act |-> act, u |-> u, r |-> r]] = @ + 1]
                        ELSE queue

-----------------------------------------------------------------------------
(* filters.AddMember and filters.RemoveMember.  Every statement is a step. *)

\* before := GetMembership(user)
Begin(c, op, u, f) ==
  /\ cmd[c] = NoCmd /\ op \in Ops /\ cmds < MaxCmds
  /\ cmd' = [cmd EXCEPT ![c] =
       [pc |-> "lookup", op |-> op, u |-> u, f |-> f,
        before |-> GetMembership(u), todo |-> {}]]
  /\ cmds' = cmds + 1
  /\ UNCHANGED <<tables, discord, broker, thr, lock, poll, left, faults>>

\* GetFilter(name)
Lookup(c) ==
  /\ cmd[c].pc = "lookup"
  /\ cmd' = [cmd EXCEPT ![c] =
       IF cmd[c].f \notin filters THEN NoCmd
       ELSE IF cmd[c].op = "delete" THEN [@ EXCEPT !.pc = "members"]
       ELSE [@ EXCEPT !.pc = "write"]]
  /\ UNCHANGED <<tables, discord, broker, thr, lock, poll, left, bounds>>

\* AddFilterMembership: a duplicate row, or a filter deleted since the
\* lookup (foreign key), is an error that ends the command.
AddRow(c) ==
  /\ cmd[c].pc = "write" /\ cmd[c].op = "add"
  /\ IF cmd[c].f \in filters /\ cmd[c].u \notin member[cmd[c].f]
     THEN /\ member' = [member EXCEPT ![cmd[c].f] = @ \cup {cmd[c].u}]
          /\ cmd' = [cmd EXCEPT ![c].pc = "after"]
     ELSE /\ cmd' = [cmd EXCEPT ![c] = NoCmd]
          /\ UNCHANGED member
  /\ UNCHANGED <<filters, filtersOf, rows, linked, synced, mapped,
                 discord, broker, thr, lock, poll, left, bounds>>

\* DeleteFilterMembership(filter, user): deleting no row is no error.
RemoveRow(c) ==
  /\ cmd[c].pc = "write" /\ cmd[c].op = "remove"
  /\ member' = [member EXCEPT ![cmd[c].f] = @ \ {cmd[c].u}]
  /\ cmd' = [cmd EXCEPT ![c].pc = "after"]
  /\ UNCHANGED <<filters, filtersOf, rows, linked, synced, mapped,
                 discord, broker, thr, lock, poll, left, bounds>>

\* Mutant: a removal computes the difference the way an addition does.
CompareSwapped(c) ==
  /\ cmd[c].pc = "after"
  /\ LET k    == cmd[c]
         todo == (GetMembership(k.u) \ k.before) \ {NoChat}
     IN  cmd' = [cmd EXCEPT ![c] = IF todo = {} THEN NoCmd
                                   ELSE [k EXCEPT !.pc = "publish", !.todo = todo]]
  /\ UNCHANGED <<tables, discord, broker, thr, lock, poll, left, bounds>>

\* after := GetMembership(user); the difference is what will be published.
Compare(c) ==
  /\ cmd[c].pc = "after"
  /\ LET k     == cmd[c]
         after == GetMembership(k.u)
         diff  == IF k.op = "add" THEN after \ k.before ELSE k.before \ after
         todo  == diff \ {NoChat}
     IN  cmd' = [cmd EXCEPT ![c] = IF todo = {} THEN NoCmd
                                   ELSE [k EXCEPT !.pc = "publish", !.todo = todo]]
  /\ UNCHANGED <<tables, discord, broker, thr, lock, poll, left, bounds>>

\* Mutant: the loop ends after the first role.
PublishDiffFirst(c) ==
  /\ cmd[c].pc = "publish"
  /\ \E r \in cmd[c].todo :
       Publish(IF cmd[c].op = "add" THEN "upsert" ELSE "delete", cmd[c].u, r)
  /\ cmd' = [cmd EXCEPT ![c] = NoCmd]
  /\ UNCHANGED <<tables, discord, doomed, unacked, connected, thr, lock, poll, left, bounds>>

PublishDiff(c) ==
  /\ cmd[c].pc = "publish"
  /\ \E r \in cmd[c].todo :
       /\ Publish(IF cmd[c].op = "add" THEN "upsert" ELSE "delete", cmd[c].u, r)
       /\ cmd' = [cmd EXCEPT ![c] =
            IF cmd[c].todo = {r} THEN NoCmd
            ELSE [cmd[c] EXCEPT !.todo = cmd[c].todo \ {r}]]
  /\ UNCHANGED <<tables, discord, doomed, unacked, connected, thr, lock, poll, left, bounds>>

\* A statement of a command fails, which ends it; what it has written stays.
\* (A failing publish is only logged.)
CmdFails(c) ==
  /\ "db" \in Faults /\ faults < MaxFaults
  /\ cmd[c].pc \notin {"idle", "publish"}
  /\ cmd' = [cmd EXCEPT ![c] = NoCmd]
  /\ faults' = faults + 1
  /\ UNCHANGED <<tables, discord, broker, thr, lock, poll, left, cmds>>

-----------------------------------------------------------------------------
(* storage.DeleteFilter (commands filters.Delete and roles.RemoveFilter)   *)
(* publishes nothing.  Filter is the set of the filter rows there were at  *)
(* the start: a filter created later has an id of its own, and no role is  *)
(* attached to it.                                                         *)

BeginDelete(c, f) ==
  /\ cmd[c] = NoCmd /\ "delete" \in Ops /\ cmds < MaxCmds
  /\ cmd' = [cmd EXCEPT ![c] = [pc |-> "lookup", op |-> "delete", f |-> f]]
  /\ cmds' = cmds + 1
  /\ UNCHANGED <<tables, discord, broker, thr, lock, poll, left, faults>>

\* DeleteFilterMembership(filter, "")
DeleteMembers(c) ==
  /\ cmd[c].pc = "members"
  /\ member' = [member EXCEPT ![cmd[c].f] = {}]
  /\ cmd' = [cmd EXCEPT ![c].pc = "links"]
  /\ UNCHANGED <<filters, filtersOf, rows, linked, synced, mapped,
                 discord, broker, thr, lock, poll, left, bounds>>

\* DeleteRoleFilter(filter)
DeleteLinks(c) ==
  /\ cmd[c].pc = "links"
  /\ filtersOf' = [r \in Managed |-> filtersOf[r] \ {cmd[c].f}]
  /\ cmd' = [cmd EXCEPT ![c].pc = "row"]
  /\ UNCHANGED <<filters, member, rows, linked, synced, mapped,
                 discord, broker, thr, lock, poll, left, bounds>>

\* The row itself; memberships and links added since the first statements
\* go with it.
DeleteFilterRow(c) ==
  /\ cmd[c].pc = "row"
  /\ filters' = filters \ {cmd[c].f}
  /\ member' = [member EXCEPT ![cmd[c].f] = {}]
  /\ filtersOf' = [r \in Managed |-> filtersOf[r] \ {cmd[c].f}]
  /\ cmd' = [cmd EXCEPT ![c] = NoCmd]
  /\ UNCHANGED <<rows, linked, synced, mapped,
                 discord, broker, thr, lock, poll, left, bounds>>

-----------------------------------------------------------------------------
(* The roles side, reduced to its effect on memberships; RoleSync models   *)
(* it in full.  Its handlers hold the same Session lock.                   *)

\* discord/roles upsert: GuildRoleCreate makes a role called "new role".  A
\* role value stands for one id at a time: it is used again only when nothing
\* refers to the id it had.
CreateRole(r) ==
  /\ lock = Free /\ r \in (rows \cap synced) \ (linked \cup guildRoles \cup doomed)
  /\ poll.pc = "rows" => r \notin poll.seen
  /\ guildRoles' = guildRoles \cup {r} /\ unnamed' = unnamed \cup {r}
  /\ lock' = [pc |-> "store", r |-> r]
  /\ UNCHANGED <<tables, guild, holds, broker, cmd, thr, poll, left, bounds>>

\* UpdateRole stores the id, if the row is still there.
StoreRole(r) ==
  /\ lock = [pc |-> "store", r |-> r]
  /\ linked' = linked \cup ({r} \cap rows)
  /\ lock' = [pc |-> "name", r |-> r]
  /\ UNCHANGED <<filters, member, filtersOf, rows, synced, mapped,
                 discord, broker, cmd, thr, poll, left, bounds>>

\* GuildRoleEdit gives the role its name; the deferred Unlock.
NameRole(r) ==
  /\ lock = [pc |-> "name", r |-> r]
  /\ unnamed' = unnamed \ {r}
  /\ lock' = Free
  /\ UNCHANGED <<tables, guild, guildRoles, holds, broker, cmd, thr, poll, left, bounds>>

\* An error of UpdateRole is only logged; one of GuildRoleEdit ends the
\* handler (the second role that follows is RoleSync's subject).
CreationFails(r) ==
  /\ faults < MaxFaults
  /\ \/ /\ "db" \in Faults /\ lock = [pc |-> "store", r |-> r]
        /\ lock' = [pc |-> "name", r |-> r]
     \/ /\ "rest" \in Faults /\ lock = [pc |-> "name", r |-> r]
        /\ lock' = Free
  /\ faults' = faults + 1
  /\ UNCHANGED <<tables, discord, broker, cmd, thr, poll, left, cmds>>

\* storage.DeleteRole: the row goes, its role_filters rows cascade; the
\* command then publishes the deletion of the role's id.
DestroyRole(r) ==
  /\ "destroy" \in Ops /\ cmds < MaxCmds /\ r \in rows
  /\ rows' = rows \ {r} /\ linked' = linked \ {r}
  /\ filtersOf' = [filtersOf EXCEPT ![r] = {}]
  /\ doomed' = IF connected THEN doomed \cup (linked \cap {r}) ELSE doomed
  /\ cmds' = cmds + 1
  /\ UNCHANGED <<filters, member, synced, mapped, discord,
                 queue, unacked, connected, process, faults>>

\* UpdateRoleValues(sync)
SetSync(r) ==
  /\ "sync" \in Ops /\ cmds < MaxCmds /\ r \in rows
  /\ synced' = IF r \in synced THEN synced \ {r} ELSE synced \cup {r}
  /\ cmds' = cmds + 1
  /\ UNCHANGED <<filters, member, filtersOf, rows, linked, mapped,
                 discord, broker, process, faults>>

\* Mutant: the roles handler does not take the Session lock.
DeleteRoleUnlocked(r) ==
  /\ r \in doomed
  /\ doomed' = doomed \ {r}
  /\ guildRoles' = guildRoles \ {r} /\ unnamed' = unnamed \ {r}
  /\ holds' = [u \in User |-> holds[u] \ {r}]
  /\ UNCHANGED <<tables, guild, queue, unacked, connected, process, bounds>>

\* discord/roles delete, for the id of an earlier message.
DeleteRole(r) ==
  /\ lock = Free /\ r \in doomed
  /\ doomed' = doomed \ {r}
  /\ guildRoles' = guildRoles \ {r} /\ unnamed' = unnamed \ {r}
  /\ holds' = [u \in User |-> holds[u] \ {r}]
  /\ UNCHANGED <<tables, guild, queue, unacked, connected, process, bounds>>

\* A role disappears from the guild although its row is still there: an
\* administrator of the guild deletes it.
DeleteGuildRole(r) ==
  /\ "manual" \in Faults /\ faults < MaxFaults /\ r \in guildRoles \ Ignored
  /\ guildRoles' = guildRoles \ {r} /\ unnamed' = unnamed \ {r}
  /\ holds' = [u \in User |-> holds[u] \ {r}]
  /\ faults' = faults + 1
  /\ UNCHANGED <<tables, guild, broker, process, cmds>>

-----------------------------------------------------------------------------
(* The members handler (discord/members HandleMessage).                    *)

\* Mutant: the handler is given a message it already has.
DeliverAgain(t, m) ==
  /\ connected /\ thr[t] = NoMsg
  /\ queue' = [queue EXCEPT ![m] = @ - 1]
  /\ thr' = [thr EXCEPT ![t] = [pc |-> "wait", m |-> m]]
  /\ UNCHANGED <<tables, discord, doomed, unacked, connected, cmd, lock, poll, left, bounds>>

\* A delivery reaches a goroutine.  Eight goroutines wait for one lock, so
\* up to eight waiting messages are handled in any order.
Deliver(t, m) ==
  /\ connected /\ thr[t] = NoMsg /\ queue[m] > 0
  /\ queue' = [queue EXCEPT ![m] = @ - 1]
  /\ thr' = [thr EXCEPT ![t] = [pc |-> "wait", m |-> m]]
  /\ UNCHANGED <<tables, discord, doomed, unacked, connected, cmd, lock, poll, left, bounds>>

\* Mutants: without Session.Lock(); without IgnoreRole.
AcquireUnlocked(t) ==
  /\ thr[t].pc = "wait" /\ thr[t].m.r \notin Ignored
  /\ thr' = [thr EXCEPT ![t].pc = IF thr[t].m.act = "upsert" THEN "check" ELSE "call"]
  /\ lock' = t
  /\ UNCHANGED <<tables, discord, broker, cmd, poll, left, bounds>>

AcquireAnyRole(t) ==
  /\ thr[t].pc = "wait" /\ lock = Free
  /\ thr' = [thr EXCEPT ![t].pc = IF thr[t].m.act = "upsert" THEN "check" ELSE "call"]
  /\ lock' = t
  /\ UNCHANGED <<tables, discord, broker, cmd, poll, left, bounds>>

\* Session.Lock(), GuildRoles, IgnoreRole.  An ignored role is rejected for
\* good; only additions look at the database.
Acquire(t) ==
  /\ thr[t].pc = "wait" /\ lock = Free
  /\ LET m == thr[t].m IN
       IF m.r \in Ignored
       THEN /\ thr' = [thr EXCEPT ![t] = NoMsg]
            /\ UNCHANGED lock
       ELSE /\ thr' = [thr EXCEPT ![t].pc = IF m.act = "upsert" THEN "check" ELSE "call"]
            /\ lock' = t
  /\ UNCHANGED <<tables, discord, broker, cmd, poll, left, bounds>>

\* Mutant: the early return does not unlock.
AcquireFailsLocked(t) ==
  /\ "rest" \in Faults /\ faults < MaxFaults
  /\ thr[t].pc = "wait" /\ lock = Free
  /\ thr' = [thr EXCEPT ![t] = NoMsg]
  /\ unacked' = IF connected THEN [unacked EXCEPT ![thr[t].m] = @ + 1] ELSE unacked
  /\ lock' = t
  /\ faults' = faults + 1
  /\ UNCHANGED <<tables, discord, doomed, queue, connected, cmd, poll, left, cmds>>

\* GuildRoles fails: the handler returns with the message neither
\* acknowledged nor rejected.
AcquireFails(t) ==
  /\ "rest" \in Faults /\ faults < MaxFaults
  /\ thr[t].pc = "wait" /\ lock = Free
  /\ thr' = [thr EXCEPT ![t] = NoMsg]
  /\ unacked' = IF connected THEN [unacked EXCEPT ![thr[t].m] = @ + 1] ELSE unacked
  /\ faults' = faults + 1
  /\ UNCHANGED <<tables, discord, doomed, queue, connected, cmd, lock, poll, left, cmds>>

\* GetRoleByChatID and the sync flag, for an addition.
Check(t) ==
  /\ thr[t].pc = "check"
  /\ IF thr[t].m.r \in linked \cap synced
     THEN /\ thr' = [thr EXCEPT ![t].pc = "call"]
          /\ UNCHANGED lock
     ELSE /\ thr' = [thr EXCEPT ![t] = NoMsg]
          /\ lock' = Free
  /\ UNCHANGED <<tables, discord, broker, cmd, poll, left, bounds>>

\* An error of that query: Reject(false), the message is gone.
CheckFails(t) ==
  /\ "db" \in Faults /\ faults < MaxFaults
  /\ thr[t].pc = "check"
  /\ thr' = [thr EXCEPT ![t] = NoMsg]
  /\ lock' = Free
  /\ faults' = faults + 1
  /\ UNCHANGED <<tables, discord, broker, cmd, poll, left, cmds>>

Reachable(m) == m.u \in guild /\ m.r \in guildRoles

\* GuildMemberRoleAdd or GuildMemberRoleRemove succeeds.
Apply(t) ==
  /\ thr[t].pc = "call" /\ Reachable(thr[t].m)
  /\ LET m == thr[t].m IN
       holds' = [holds EXCEPT ![m.u] = IF m.act = "upsert" THEN @ \cup {m.r}
                                                           ELSE @ \ {m.r}]
  /\ thr' = [thr EXCEPT ![t].pc = "ack"]
  /\ UNCHANGED <<tables, guild, guildRoles, unnamed, broker, cmd, lock, poll, left, bounds>>

\* 404: CheckAndDelete drops the user's mapping and the handler returns
\* without acknowledging.  Discord answers 404 for a missing role too.
ApplyNotFound(t) ==
  /\ thr[t].pc = "call" /\ ~Reachable(thr[t].m)
  /\ mapped' = mapped \ {thr[t].m.u}
  /\ unacked' = IF connected THEN [unacked EXCEPT ![thr[t].m] = @ + 1] ELSE unacked
  /\ thr' = [thr EXCEPT ![t] = NoMsg]
  /\ lock' = Free
  /\ UNCHANGED <<filters, member, filtersOf, rows, linked, synced,
                 discord, doomed, queue, connected, cmd, poll, left, bounds>>

\* Any other error: Reject(true), the broker queues the message again.
ApplyFails(t) ==
  /\ "rest" \in Faults /\ faults < MaxFaults
  /\ thr[t].pc = "call"
  /\ queue' = IF connected THEN [queue EXCEPT ![thr[t].m] = @ + 1] ELSE queue
  /\ thr' = [thr EXCEPT ![t] = NoMsg]
  /\ lock' = Free
  /\ faults' = faults + 1
  /\ UNCHANGED <<tables, discord, doomed, unacked, connected, cmd, poll, left, cmds>>

\* Ack, and the deferred Unlock.
Ack(t) ==
  /\ thr[t].pc = "ack"
  /\ thr' = [thr EXCEPT ![t] = NoMsg]
  /\ lock' = Free
  /\ UNCHANGED <<tables, discord, broker, cmd, poll, left, bounds>>

-----------------------------------------------------------------------------
(* The poller (updateCharacters, end of updateCharacter): one goroutine,   *)
(* the mapped users one after the other.                                   *)

\* syncRoles reads the roles of the guild, and which are called "new role".
PollGuild ==
  /\ poll = NoPoll /\ left = {}
  /\ poll' = [pc |-> "rows", seen |-> guildRoles \ Ignored, new |-> unnamed]
  /\ UNCHANGED <<tables, discord, broker, cmd, thr, lock, left, bounds>>

\* It reads the rows set to sync afterwards, compares by name, stores the ids
\* of the names it finds, and publishes the deletion of every other role it
\* saw: of one created or named since, too.  Then GetCharacters.
PollRows ==
  /\ poll.pc = "rows"
  /\ LET known == (poll.seen \ poll.new) \cap rows \cap synced
     IN  /\ linked' = linked \cup known
         /\ doomed' = IF connected THEN doomed \cup (poll.seen \ known) ELSE doomed
  /\ poll' = NoPoll /\ left' = mapped
  /\ UNCHANGED <<filters, member, filtersOf, rows, synced, mapped, discord,
                 queue, unacked, connected, cmd, thr, lock, bounds>>

\* GetDiscordUser, then GuildMember.  A user who left the guild is dropped.
PollUser(u) ==
  /\ poll = NoPoll /\ u \in left /\ \A m \in Msg : queue[m] < MaxCopies
  /\ left' = left \ {u}
  /\ IF u \in mapped /\ u \in guild
     THEN /\ poll' = [pc |-> "read", u |-> u, has |-> holds[u]]
          /\ UNCHANGED mapped
     ELSE /\ mapped' = mapped \ {u}
          /\ UNCHANGED poll
  /\ UNCHANGED <<filters, member, filtersOf, rows, linked, synced,
                 discord, broker, cmd, thr, lock, bounds>>

\* Mutant: the operands of Difference exchanged.
PollCompareSwapped ==
  /\ poll.pc = "read"
  /\ LET want == GetMembership(poll.u)
         add  == poll.has \ want
         del  == (want \ poll.has) \ {NoChat}
     IN  poll' = IF add \cup del = {} THEN NoPoll
                 ELSE [pc |-> "publish", u |-> poll.u, add |-> add, del |-> del]
  /\ UNCHANGED <<tables, discord, broker, cmd, thr, lock, left, bounds>>

\* GetMembership, and the two differences.
PollCompare ==
  /\ poll.pc = "read"
  /\ LET want == GetMembership(poll.u)
         add  == (want \ poll.has) \ {NoChat}
         del  == poll.has \ want
     IN  poll' = IF add \cup del = {} THEN NoPoll
                 ELSE [pc |-> "publish", u |-> poll.u, add |-> add, del |-> del]
  /\ UNCHANGED <<tables, discord, broker, cmd, thr, lock, left, bounds>>

\* A query fails: the round goes on without the roles, or with the next user.
PollFails ==
  /\ "db" \in Faults /\ faults < MaxFaults
  /\ poll.pc \in {"rows", "read"}
  /\ poll' = NoPoll
  /\ left' = IF poll.pc = "rows" THEN mapped ELSE left
  /\ faults' = faults + 1
  /\ UNCHANGED <<tables, discord, broker, cmd, thr, lock, cmds>>

\* The additions are published before the removals.
PollPublish ==
  /\ poll.pc = "publish"
  /\ \E r \in poll.add \cup poll.del :
       /\ IF r \in poll.add THEN Publish("upsert", poll.u, r)
                             ELSE poll.add = {} /\ Publish("delete", poll.u, r)
       /\ poll' = IF poll.add \cup poll.del = {r} THEN NoPoll
                  ELSE [poll EXCEPT !.add = @ \ {r}, !.del = @ \ {r}]
  /\ UNCHANGED <<tables, discord, doomed, unacked, connected, cmd, thr, lock, left, bounds>>

-----------------------------------------------------------------------------
(* Failures                                                                *)

\* The process dies and is started again: what it held unacknowledged is
\* delivered again, what it had not published is lost.  Once the connection is
\* gone somebody has to restart the process, which is no failure more.
Crash ==
  /\ "crash" \in Faults
  /\ IF connected THEN faults < MaxFaults /\ faults' = faults + 1 ELSE UNCHANGED faults
  /\ queue' = IF connected
              THEN [m \in Msg |->
                     queue[m] + unacked[m]
                       + Cardinality({t \in Thread : thr[t] # NoMsg /\ thr[t].m = m})]
              ELSE queue
  /\ unacked' = [m \in Msg |-> 0]
  /\ connected' = TRUE
  /\ cmd' = [c \in Cmd |-> NoCmd] /\ thr' = [t \in Thread |-> NoMsg]
  /\ lock' = Free /\ poll' = NoPoll /\ left' = {}
  /\ UNCHANGED <<tables, discord, doomed, cmds>>

\* The broker restarts: messages are published as transient and are gone,
\* and nothing in the process reconnects.
BrokerRestart ==
  /\ "broker" \in Faults /\ faults < MaxFaults /\ connected
  /\ queue' = [m \in Msg |-> 0] /\ unacked' = [m \in Msg |-> 0] /\ doomed' = {}
  /\ connected' = FALSE
  /\ faults' = faults + 1
  /\ UNCHANGED <<tables, discord, process, cmds>>

\* A user leaves the guild, and with it all roles; the tables keep the user.
LeaveGuild(u) ==
  /\ "leave" \in Faults /\ faults < MaxFaults /\ u \in guild
  /\ guild' = guild \ {u}
  /\ holds' = [holds EXCEPT ![u] = {}]
  /\ faults' = faults + 1
  /\ UNCHANGED <<tables, guildRoles, unnamed, broker, process, cmds>>

-----------------------------------------------------------------------------

CmdStep(c) ==
  \/ Lookup(c) \/ AddRow(c) \/ RemoveRow(c) \/ Compare(c) \/ PublishDiff(c)
  \/ DeleteMembers(c) \/ DeleteLinks(c) \/ DeleteFilterRow(c)

CreationStep(r) == StoreRole(r) \/ NameRole(r)

HandlerStep(t) == Check(t) \/ Apply(t) \/ ApplyNotFound(t) \/ Ack(t)

PollStep == PollGuild \/ PollRows \/ (\E u \in User : PollUser(u)) \/ PollCompare \/ PollPublish

Next ==
  \/ \E c \in Cmd, op \in {"add", "remove"}, u \in User, f \in Filter : Begin(c, op, u, f)
  \/ \E c \in Cmd, f \in Filter : BeginDelete(c, f)
  \/ \E c \in Cmd : CmdStep(c) \/ CmdFails(c)
  \/ \E r \in Managed : CreateRole(r) \/ CreationStep(r) \/ CreationFails(r)
                          \/ DestroyRole(r) \/ SetSync(r) \/ DeleteRole(r) \/ DeleteGuildRole(r)
  \/ \E t \in Thread, m \in Msg : Deliver(t, m)
  \/ \E t \in Thread : Acquire(t) \/ AcquireFails(t) \/ HandlerStep(t) \/ CheckFails(t) \/ ApplyFails(t)
  \/ PollStep \/ PollFails
  \/ Crash \/ BrokerRestart
  \/ \E u \in User : LeaveGuild(u)

Spec == Init /\ [][Next]_vars

(* Fairness.  A goroutine that can run runs; the lock is a Go mutex, whose *)
(* starvation mode lets every waiter in; the poller's ticker fires for     *)
(* ever.  Nothing is assumed of the commands' start or of the failures.    *)
Fairness ==
  /\ \A c \in Cmd : WF_vars(CmdStep(c))
  /\ \A t \in Thread : /\ WF_vars(\E m \in Msg : Deliver(t, m))
                       /\ SF_vars(Acquire(t))
                       /\ WF_vars(HandlerStep(t))
  /\ \A r \in Managed : WF_vars(CreationStep(r))
  /\ WF_vars(PollStep)

FairSpec == Spec /\ Fairness

-----------------------------------------------------------------------------
(* Properties                                                              *)

\* "Only one thing should write to discord at a time" (internal/discord/roles/roles.go:131):
\* only the goroutine that holds the Session lock is between the lock and the unlock.
OneWriter ==
  \A t \in Thread : thr[t].pc \in {"check", "call", "ack"} <=> lock = t

\* The handler of an addition looks the role up in the database and then
\* calls Discord; the lock keeps the roles handlers from deleting the role in
\* between, even when the row is destroyed meanwhile.  (While no sync flag is
\* changed and nobody deletes roles by hand, and of roles whose creation was
\* over at the start: a round that saw a role as "new role" deletes it later,
\* although its row is there and linked.)
CheckedRoleExists ==
  \A t \in Thread :
    thr[t].pc = "call" /\ thr[t].m.act = "upsert" /\ thr[t].m.r \in Created
      => thr[t].m.r \in guildRoles

\* An addition that will still reach the guild: it waits in the queue or is
\* held by a handler that has not applied it.
Coming(act, u, r) ==
  LET m == [act |-> act, u |-> u, r |-> r]
  IN  \/ queue[m] > 0
      \/ \E t \in Thread : thr[t].pc \in {"wait", "check", "call"} /\ thr[t].m = m

\* A command past its SQL statement that will publish r for u.
Promised(op, u, r) ==
  \E c \in Cmd :
    /\ cmd[c].pc \in {"after", "publish"} /\ cmd[c].op = op /\ cmd[c].u = u
    /\ \/ cmd[c].pc = "after" /\ (op = "add" <=> r \notin cmd[c].before)
       \/ cmd[c].pc = "publish" /\ r \in cmd[c].todo

\* While users are only added to filters and nothing fails, no addition is
\* lost whatever the interleaving: a role created beforehand that a user
\* qualifies for and does not have in the guild is on its way, although each
\* command publishes only the difference of two unlocked reads.
AdditionsCovered ==
  \A u \in User : \A r \in Created \cap GetMembership(u) :
    r \in holds[u] \/ Coming("upsert", u, r) \/ Promised("add", u, r)

\* The same for removals: while users are only removed from filters and
\* nothing fails, a role a user no longer qualifies for is on its way out.
RemovalsCovered ==
  \A u \in User : \A r \in (holds[u] \cap Created) \ GetMembership(u) :
    Coming("delete", u, r) \/ Promised("remove", u, r)

\* The guild shows of u what the database says, for the roles the bot owns.
\* A role that is not set to sync is never given, only taken away.
Agrees(u) ==
  \A r \in guildRoles \ Ignored :
    /\ r \in holds[u] => r \in GetMembership(u)
    /\ r \in GetMembership(u) \cap synced => r \in holds[u]

\* The poller repairs what races, lost publishes, crashes, and roles created
\* late leave behind: if the broker connection survives, every user that
\* stays mapped and in the guild ends up, for good, with the roles the
\* database gives.
EventuallyAgrees ==
  <>[]connected => <>[](\A u \in mapped \cap guild : Agrees(u))

\* "Failed to update user in discord, user not found" (internal/common/discord.go:83):
\* a user's mapping is dropped only when the user is not in the guild.
DropsOnlyTheGone == [][\A u \in mapped \ mapped' : u \notin guild]_vars
=============================================================================
