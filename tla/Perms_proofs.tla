----------------------------- MODULE Perms_proofs -----------------------------
(***************************************************************************)
(* Types, keys and the listing of permissions, for every number of         *)
(* permissions, users and commands, every length of a line and every limit *)
(* of a description.                                                       *)
(***************************************************************************)
EXTENDS Perms, Chunks_proofs, FiniteSetTheorems

\* The tables and the commands.  No id is used twice, for the serial is past
\* all of them.
Tables ==
  /\ id \in [Line -> 0..MaxId] /\ serial \in 1..(MaxId + 1)
  /\ holds \subseteq (1..MaxId) \X User
  /\ cmd \in [Cmd -> CmdState]
  /\ \A p, q \in Line : Exists(p) /\ id[p] = id[q] => p = q
  /\ \A h \in holds : \E p \in Line : id[p] = h[1]
  /\ \A p \in Line : id[p] < serial

IInv == Tables /\ ChunksInv

\* A listing is a message.
LEMMA ListingsAreMessages == Listings \subseteq Seq(Line)
<1>1. Cardinality(Rows) \in Nat
  BY PermsConstants, FS_Subset, FS_CardinalityType DEF Rows
<1>2. ASSUME NEW n \in Nat, NEW l \in [1..n -> Rows] PROVE l \in Seq(Line)
  BY DEF Rows
<1> QED
  BY <1>1, <1>2 DEF Listings

LEMMA Start == ASSUME Init PROVE IInv
<1>1. Tables
  BY PermsConstants DEF Init, Tables, CmdState, Idle, Rows, Exists
<1> QED
  BY <1>1, ChunksStart DEF Init, IInv

LEMMA TablesStep ==
  ASSUME Tables, Next
  PROVE  Tables'
<1> USE PermsConstants
<1>1. ASSUME NEW p \in Line, Add(p) PROVE Tables'
  BY <1>1 DEF Add, Tables, Exists
<1>2. ASSUME NEW p \in Line, Delete(p) PROVE Tables'
  <2>1. \A h \in holds : \E q \in Line : id'[q] = h[1]
    <3> SUFFICES ASSUME NEW h \in holds PROVE \E q \in Line : id'[q] = h[1]
      OBVIOUS
    <3>1. PICK q \in Line : id[q] = h[1]
      BY DEF Tables
    <3>2. h = <<h[1], h[2]>> /\ h[2] \in User
      BY DEF Tables
    <3>3. q # p
      BY <1>2, <3>1, <3>2 DEF Delete, Memberless
    <3> QED
      BY <1>2, <3>1, <3>3 DEF Delete, Tables
  <2> QED
    BY <1>2, <2>1 DEF Delete, Tables, Exists
<1>3. ASSUME NEW c \in Cmd, NEW op \in {"add", "remove"}, NEW p \in Line, NEW u \in User, Find(c, op, p, u)
      PROVE  Tables'
  <2>1. id[p] \in 1..MaxId
    BY <1>3 DEF Find, Tables, Exists
  <2>2. [pc |-> op, u |-> u, found |-> id[p]] \in CmdState
    BY <2>1 DEF CmdState
  <2> QED
    BY <1>3, <2>2 DEF Find, Tables, Exists
\* Nobody has the id 0.
<1>4. ASSUME NEW c \in Cmd, AddMember(c) PROVE Tables'
  <2>1. UNCHANGED holds
    BY <1>4 DEF AddMember, Insert, Rows, Exists
  <2> QED
    BY <1>4, <2>1 DEF AddMember, Tables, CmdState, Exists
<1>5. ASSUME NEW c \in Cmd, RemoveMember(c) PROVE Tables'
  BY <1>5 DEF RemoveMember, Tables, CmdState, Exists
<1>6. ASSUME UNCHANGED <<id, serial, holds, cmd>> PROVE Tables'
  BY <1>6 DEF Tables, Exists
<1> QED
  BY <1>1, <1>2, <1>3, <1>4, <1>5, <1>6 DEF Next, List

LEMMA ListingStep ==
  ASSUME ChunksInv, Next
  PROVE  ChunksInv'
<1>1. CASE UNCHANGED chunkVars
  BY <1>1, ChunksStutter
<1>2. ASSUME List PROVE ChunksInv'
  BY <1>2, PostStep, ListingsAreMessages DEF List
<1>3. ASSUME ChunksStep PROVE ChunksInv'
  BY <1>3, ChunksSteps
<1> QED
  BY <1>1, <1>2, <1>3 DEF Next, Add, Delete, Find, AddMember, RemoveMember

LEMMA Step ==
  ASSUME IInv, [Next]_vars
  PROVE  IInv'
<1>1. CASE UNCHANGED vars
  BY <1>1, ChunksStutter DEF vars, IInv, Tables, Exists
<1> QED
  BY <1>1, TablesStep, ListingStep DEF IInv

LEMMA Invariance == Spec => []IInv
BY Start, Step, PTL DEF Spec

\* Every variable of Perms keeps its type, and the tables their keys: an id is
\* never used again, and no member outlives the permission.
THEOREM TypeCorrect == Spec => []TypeOK
<1>1. IInv => TypeOK
  BY DEF IInv, Tables, ChunksInv, TypeOK
<1> QED
  BY <1>1, Invariance, PTL

\* Whatever the commands do meanwhile: when the posting of a listing succeeds,
\* every line of it has been posted, in order and once, the leftover included; when
\* Discord refuses an embed, the lines up to it.  Only a line of Limit bytes or more
\* is cut, which has an embed to itself; and at most one embed, the first, is
\* without a line, before a first line of Limit - 1 bytes or more.
THEOREM ListingsArrive == Spec => []NothingLost
<1>1. IInv => NothingLost
  BY DEF IInv, ChunksInv
<1> QED
  BY <1>1, Invariance, PTL
=============================================================================
