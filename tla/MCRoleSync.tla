----------------------------- MODULE MCRoleSync -----------------------------
(* Values of RoleSync's constants for TLC. *)
EXTENDS RoleSync, TLC

CONSTANTS n1, ign

\* Discord ids: as many as can be in use at once, and one to create a role.
Ids3 == 1..3

\* Which id a role has at the start makes no difference.
First == [n \in Name |-> IF n = n1 THEN 1 ELSE 2]

Symmetry == Permutations(Cmd) \cup Permutations(Thread)
=============================================================================
