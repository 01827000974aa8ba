----------------------------- MODULE RoleGrants -----------------------------
(***************************************************************************)
(* What the member side of the bot promises about the guild, without the   *)
(* tables, the queue and the handlers: a role is given to a user only if   *)
(* the user has qualified for it, is taken away only if the user has been  *)
(* without it, one role of one user at a time, and the roles of the ignore *)
(* list are left to the humans.  Users and roles may also disappear.       *)
(***************************************************************************)
CONSTANTS User, Role, Ignored

VARIABLES holds,    \* the roles of every user in the guild
          everIn,   \* the roles every user has qualified for so far
          everOut   \* the roles every user has not qualified for so far

vars == <<holds, everIn, everOut>>

Init ==
  /\ holds \in [User -> SUBSET Role]
  /\ everIn \in [User -> SUBSET Role] /\ everOut \in [User -> SUBSET Role]
  /\ \A u \in User : holds[u] \subseteq everIn[u]

\* The database changes: the histories grow.
Learn ==
  /\ everIn' \in [User -> SUBSET Role] /\ everOut' \in [User -> SUBSET Role]
  /\ \A u \in User : everIn[u] \subseteq everIn'[u] /\ everOut[u] \subseteq everOut'[u]
  /\ UNCHANGED holds

Grant(u, r) ==
  /\ r \in everIn[u] \ Ignored
  /\ holds' = [holds EXCEPT ![u] = @ \cup {r}]
  /\ UNCHANGED <<everIn, everOut>>

Revoke(u, r) ==
  /\ r \in everOut[u] \ Ignored
  /\ holds' = [holds EXCEPT ![u] = @ \ {r}]
  /\ UNCHANGED <<everIn, everOut>>

UserLeaves(u) ==
  /\ holds' = [holds EXCEPT ![u] = {}]
  /\ UNCHANGED <<everIn, everOut>>

RoleVanishes(r) ==
  /\ r \notin Ignored
  /\ holds' = [u \in User |-> holds[u] \ {r}]
  /\ UNCHANGED <<everIn, everOut>>

Next ==
  \/ Learn
  \/ \E u \in User, r \in Role : Grant(u, r) \/ Revoke(u, r)
  \/ \E u \in User : UserLeaves(u)
  \/ \E r \in Role : RoleVanishes(r)

Spec == Init /\ [][Next]_vars
=============================================================================
