----------------------------- MODULE Membership -----------------------------
(***************************************************************************)
(* Who holds which role, as the database decides it.                       *)
(*                                                                         *)
(* A role is attached to filters (table role_filters), a filter has users  *)
(* (table filter_membership).  The stored function getMemberRoles gives a  *)
(* user every role all of whose filters it is in, and it decides "all" by  *)
(* comparing two counts.  The unique index on filter_membership makes the  *)
(* rows of one user in a set of filters a set of filters, which is why the *)
(* tables are functions to sets here.                                      *)
(*                                                                         *)
(*   member     [Filter -> SUBSET User]   filter_membership                *)
(*   filtersOf  [Role -> SUBSET Filter]   role_filters                     *)
(***************************************************************************)
EXTENDS Naturals, FiniteSets

\* The filter_membership rows of user u in the filters F.
RowsOf(member, F, u) == {f \in F : u \in member[f]}

\* One turn of the loop of getMemberRoles: the HAVING clause compares the
\* counts, and the GROUP BY yields no group at all when no row matches.
HasRole(member, F, u) ==
  LET rows == RowsOf(member, F, u)
  IN  rows # {} /\ Cardinality(rows) = Cardinality(F)

\* getMemberRoles over the roles table `rows`.
MemberRoles(rows, filtersOf, member, u) ==
  {r \in rows : HasRole(member, filtersOf[r], u)}

\* GetMembership: the chat ids of the roles of both kinds, as a string set.
\* Every role whose chat_id is still the column's default gives `noChat`.
ChatIds(rows, linked, filtersOf, member, noChat, u) ==
  {IF r \in linked THEN r ELSE noChat :
     r \in MemberRoles(rows, filtersOf, member, u)}
=============================================================================
