--------------------------- MODULE MemberOneKind ---------------------------
(* MemberSync while users are only added to filters, or only removed.      *)
EXTENDS MemberSync

VARIABLE kind  \* the kind of the commands of this behaviour

KindInit == Init /\ kind \in {"add", "remove"}

\* Roles are destroyed among the additions.
OfKind ==
  /\ \A c \in Cmd : cmd'[c] # NoCmd => cmd'[c].op = kind
  /\ kind = "remove" => rows' = rows

KindNext == Next /\ OfKind /\ UNCHANGED kind
KindSpec == KindInit /\ [][KindNext]_<<vars, kind>>

\* While users are only added to filters and nothing fails, no addition is
\* lost whatever the interleaving (AdditionsCovered of MemberSync).
AddsCovered == kind = "add" => AdditionsCovered

\* The same for removals (RemovalsCovered of MemberSync).
RemovesCovered == kind = "remove" => RemovalsCovered
=============================================================================
