-------------------------- MODULE MCMemberHistory --------------------------
(* Values of MemberHistory's constants for TLC. *)
EXTENDS MemberHistory, TLC

CONSTANTS f1, r1

\* One role, one filter.
OneFilterRole == [r \in {r1} |-> {f1}]

Symmetry == Permutations(Cmd) \cup Permutations(Thread)
=============================================================================
