------------------------------- MODULE Perms -------------------------------
(***************************************************************************)
(* The command !perms: permissions, their members, and how they are        *)
(* listed.  Every command runs in a goroutine of its own, a statement at a *)
(* time; the listing is posted in chunks.                                  *)
(*                                                                         *)
(* A permission is a line, the way it is listed.  Deleted and created      *)
(* again it has another id.                                                *)
(***************************************************************************)
EXTENDS Chunks, FiniteSets

CONSTANTS
  User,
  IdAtStart,      \* the permissions the operator inserted, with their ids
  Founder,        \* and the members the operator gave each of them
  ServerAdmins,   \* the permission the commands leave alone
  Cmd,            \* goroutines of commands
  MaxId           \* bound: the serial of the table

ASSUME PermsConstants ==
  /\ IsFiniteSet(Line) /\ MaxId \in Nat \ {0} /\ IdAtStart \in [Line -> 0..MaxId]
  /\ \A p, q \in Line : IdAtStart[p] # 0 /\ IdAtStart[p] = IdAtStart[q] => p = q
  /\ ServerAdmins \in Line /\ IdAtStart[ServerAdmins] # 0 /\ Founder \subseteq User

VARIABLES
  id,      \* the table permissions: the id of each name, or 0 for no row
  serial,  \* the next id
  holds,   \* permission_membership: pairs of an id and a user
  cmd      \* the commands

vars == <<id, serial, holds, cmd, chunkVars>>

Idle     == [pc |-> "idle"]
CmdState == {Idle} \cup [pc : {"add", "remove"}, u : User, found : 1..MaxId]

Exists(p) == id[p] # 0
Rows      == {p \in Line : Exists(p)}

TypeOK ==
  /\ ChunksTypeOK
  /\ id \in [Line -> 0..MaxId] /\ serial \in 1..(MaxId + 1)
  /\ holds \subseteq (1..MaxId) \X User
  /\ cmd \in [Cmd -> CmdState]
  \* the keys of the tables
  /\ \A p, q \in Line : Exists(p) /\ id[p] = id[q] => p = q
  /\ \A h \in holds : \E p \in Line : id[p] = h[1]

Init ==
  /\ ChunksInit
  /\ id = IdAtStart /\ serial \in {n \in 1..(MaxId + 1) : \A p \in Line : id[p] < n}
  /\ holds = {IdAtStart[p] : p \in Rows} \X Founder
  /\ cmd = [c \in Cmd |-> Idle]

-----------------------------------------------------------------------------
\* The author's rows are counted, but a count of 0 is answered with the error
\* of the query, which is nil: only a missing permission is an error.
CanPerform(permission) == Exists(permission)

MayChange(p) == p # ServerAdmins /\ CanPerform(ServerAdmins)

\* Add and InsertPermission; a name that is taken is refused.
Add(p) ==
  /\ MayChange(p) /\ ~Exists(p) /\ serial <= MaxId
  /\ id' = [id EXCEPT ![p] = serial] /\ serial' = serial + 1
  /\ UNCHANGED <<holds, cmd, chunkVars>>

Memberless(p) == \A u \in User : <<id[p], u>> \notin holds

\* Mutant: the members' foreign key is missing.
DeleteAny(p) ==
  /\ MayChange(p) /\ Exists(p)
  /\ id' = [id EXCEPT ![p] = 0]
  /\ UNCHANGED <<serial, holds, cmd, chunkVars>>

\* Delete and DeletePermission: the foreign key refuses one with members.
Delete(p) ==
  /\ MayChange(p) /\ Exists(p) /\ Memberless(p)
  /\ id' = [id EXCEPT ![p] = 0]
  /\ UNCHANGED <<serial, holds, cmd, chunkVars>>

\* AddMember and RemoveMember read the permission (GetPermission) first.
Find(c, op, p, u) ==
  /\ cmd[c] = Idle /\ MayChange(p) /\ Exists(p)
  /\ cmd' = [cmd EXCEPT ![c] = [pc |-> op, u |-> u, found |-> id[p]]]
  /\ UNCHANGED <<id, serial, holds, chunkVars>>

Insert(permissionID, u) ==
  holds' = IF \E p \in Rows : id[p] = permissionID THEN holds \cup {<<permissionID, u>>} ELSE holds

\* The id inserted is a variable AddMember never assigns: 0, which no
\* permission has, and the foreign key refuses.
AddMember(c) ==
  /\ cmd[c].pc = "add"
  /\ Insert(0, cmd[c].u)
  /\ cmd' = [cmd EXCEPT ![c] = Idle]
  /\ UNCHANGED <<id, serial, chunkVars>>

RemoveMember(c) ==
  /\ cmd[c].pc = "remove"
  /\ holds' = holds \ {<<cmd[c].found, cmd[c].u>>}
  /\ cmd' = [cmd EXCEPT ![c] = Idle]
  /\ UNCHANGED <<id, serial, chunkVars>>

\* List: the rows come in any order.
Listings == {l \in [1..Cardinality(Rows) -> Rows] : \A p \in Rows : \E i \in DOMAIN l : l[i] = p}

List ==
  /\ Rows # {}
  /\ \E lines \in Listings : Post(lines)
  /\ UNCHANGED <<id, serial, holds, cmd>>

Next ==
  \/ \E p \in Line : Add(p) \/ Delete(p)
  \/ \E c \in Cmd : \/ AddMember(c) \/ RemoveMember(c)
                    \/ \E op \in {"add", "remove"}, p \in Line, u \in User : Find(c, op, p, u)
  \/ List
  \/ ChunksStep /\ UNCHANGED <<id, serial, holds, cmd>>

Spec == Init /\ [][Next]_vars
=============================================================================
