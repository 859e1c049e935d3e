----------------------------- MODULE MCLibrary -----------------------------
(***************************************************************************)
(* Instances of Library for TLC.  The cfg chooses the clerks, the routes   *)
(* and the pools; the places and the policy are fixed here.                *)
(***************************************************************************)
EXTENDS Library, TLC

CONSTANTS k1, k2, t1, b1, b2, MCMaxBooks, MCMaxFine, MCOutstanding, MCAway

\* Every copy is one of title t1 and at branch b1; other titles have no copies.
MCTitleOf == [k \in Copies |-> t1]
MCBranchOf == [k \in Copies |-> b1]
\* MCAway members have another home branch.
MCHomeBranch == [m \in Members |-> IF m \in MCAway THEN b2 ELSE b1]
MCScope == [c \in Clerks |-> Branches]
MCPolicy == [m \in Members |->
  [maxBooks |-> MCMaxBooks, issueDays |-> 1, renewLimit |-> 1, renewDays |-> 1,
   finePerDay |-> 1, graceDays |-> 0, maxFine |-> MCMaxFine, maxReservations |-> 1,
   reservedShelfDays |-> 1, maxOutstandingFine |-> MCOutstanding]]
ClerkSymmetry == Permutations(Clerks)
\* For runs whose constants tell no two members and no two copies apart.
DeskSymmetry == Permutations(Clerks) \cup Permutations(Members) \cup Permutations(Copies)
============================================================================
