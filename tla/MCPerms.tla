------------------------------ MODULE MCPerms ------------------------------
(* Values of Perms' constants for TLC. *)
EXTENDS Perms, TLC

CONSTANTS sa, p1, p2, p3

\* With a limit of 8: sa and p1 share an embed, p2 does not fit even an empty
\* one, and p3 is longer than a description may be.
Lengths == [l \in Line |-> CASE l = sa -> 2 [] l = p1 -> 3 [] l = p2 -> 7 [] OTHER -> 9]
\* server_admins and one more were inserted by the operator.
Seeds == [l \in Line |-> CASE l = sa -> 1 [] l = p1 -> 2 [] OTHER -> 0]
=============================================================================
