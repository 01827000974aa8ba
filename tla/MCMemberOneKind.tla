-------------------------- MODULE MCMemberOneKind --------------------------
(* Values of MemberOneKind's constants for TLC. *)
EXTENDS MemberOneKind, MCMemberSync
=============================================================================
