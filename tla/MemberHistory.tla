--------------------------- MODULE MemberHistory ---------------------------
(***************************************************************************)
(* MemberSync with two history variables: the roles every user has         *)
(* qualified for, and has not qualified for, in some state so far.  With   *)
(* them MemberSync implements RoleGrants.                                  *)
(***************************************************************************)
EXTENDS MemberSync

VARIABLES everIn, everOut

hvars == <<vars, everIn, everOut>>

HInit ==
  /\ Init
  /\ everIn  = [u \in User |-> holds[u]]
  /\ everOut = [u \in User |-> Role \ GetMembership(u)]

Record ==
  /\ everIn'  = [u \in User |-> everIn[u] \cup (GetMembership(u)' \cap Role)]
  /\ everOut' = [u \in User |-> everOut[u] \cup (Role \ GetMembership(u)')]

HSpec == HInit /\ [][Next /\ Record]_hvars

-----------------------------------------------------------------------------
(* Why it holds: what is on its way is justified already.                  *)

InTransit(act, u, r) ==
  LET m == [act |-> act, u |-> u, r |-> r]
  IN  queue[m] > 0 \/ unacked[m] > 0 \/ \E t \in Thread : thr[t] # NoMsg /\ thr[t].m = m

\* A command or the poller is about to publish.
Prepared(act, u, r) ==
  \/ \E c \in Cmd : /\ cmd[c].pc = "publish" /\ cmd[c].u = u /\ r \in cmd[c].todo
                    /\ act = IF cmd[c].op = "add" THEN "upsert" ELSE "delete"
  \/ /\ poll.pc = "publish" /\ poll.u = u
     /\ r \in IF act = "upsert" THEN poll.add ELSE poll.del

Announced(act, u, r) == InTransit(act, u, r) \/ Prepared(act, u, r)

\* Messages, and differences about to be published, name only roles the user
\* has qualified for (additions) or has been without (removals), and so does
\* the guild; ignored roles never reach the locked part of the handler.
Justified ==
  /\ \A u \in User :
       /\ holds[u] \subseteq everIn[u]
       /\ GetMembership(u) \cap Role \subseteq everIn[u]
       /\ Role \ GetMembership(u) \subseteq everOut[u]
       /\ \A r \in Role :
            /\ Announced("upsert", u, r) => r \in everIn[u]
            /\ Announced("delete", u, r) => r \in everOut[u]
  /\ \A t \in Thread : thr[t].pc \in {"check", "call", "ack"} => thr[t].m.r \notin Ignored

\* The guild changes only as RoleGrants allows: nobody is given a role they
\* never qualified for, nobody loses one they never were without, ignored
\* roles are untouched, under every interleaving, crash and redelivery.
Grants == INSTANCE RoleGrants
  WITH User <- User, Role <- Role, Ignored <- Ignored,
       holds <- holds, everIn <- everIn, everOut <- everOut
ImplementsGrants == Grants!Spec
=============================================================================
