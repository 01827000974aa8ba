---------------------------- MODULE MCMemberSync ----------------------------
(* Values of MemberSync's constants for TLC. *)
EXTENDS MemberSync, TLC

CONSTANTS u1, u2, f1, f2, r1, r2, ign

\* r1 asks for both filters, r2 for the second one only.
TwoRoleFilters == [r \in {r1, r2} |-> IF r = r1 THEN {f1, f2} ELSE {f2}]

\* One role that asks for both filters.
OneRoleFilters == [r \in {r1} |-> {f1, f2}]

\* One role, one filter.
OneFilterRole == [r \in {r1} |-> {f1}]

Symmetry == Permutations(Cmd) \cup Permutations(Thread)
=============================================================================
