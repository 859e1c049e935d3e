------------------------------- MODULE Fines -------------------------------
(***************************************************************************)
(* The fines counter of library-api: pay and waive one fine.               *)
(***************************************************************************)
EXTENDS LibraryDB

FinesTx ==
  [op : {"pay"}, fine : FineIds, paid : Int]
  \cup [op : {"waive"}, fine : FineIds, waived : Int]

\* A fine whose issue is gone or was never there has no branch to check.
MayHandle(c, f) == fine[f].issue # NULL => InScope(c, issue[fine[f].issue].copy)

\* pay computes the new paidAmount from the row it read ...
PayRead(c, f) ==
  /\ fine[f].st # "NONE"
  /\ MayHandle(c, f)
  /\ fine[f].amount - fine[f].paid - fine[f].waived > 0
  /\ Begin(c, "pay", [op |-> "pay", fine |-> f, paid |-> fine[f].amount - fine[f].waived])

\* ... and writes it only if the fine is still open (updateMany on the status);
\* the mutant updates by id.
PaidByWhoever(f) == TRUE
StillOpen(f) == fine[f].st = "OPEN"

PayCommit(c) ==
  /\ Running(c, "pay")
  /\ LET f == tx[c].fine
     IN /\ StillOpen(f)
        /\ fine' = [fine EXCEPT ![f].st = "PAID", ![f].paid = tx[c].paid,
                                ![f].taken = @ + 1]
  /\ Finish(c)
  /\ UNCHANGED <<copy, issue, resv, lost, present>>

\* What a waiver lets off; the mutant forgets what was already paid.
WholeAmount(f) == fine[f].amount
Unpaid(f) == fine[f].amount - fine[f].paid

WaiveRead(c, f) ==
  /\ fine[f].st \notin {"NONE", "WAIVED"}
  /\ MayHandle(c, f)
  /\ Unpaid(f) > 0
  /\ Begin(c, "waive", [op |-> "waive", fine |-> f, waived |-> Unpaid(f)])

\* waive updates by id: the status is not looked at again.
WaiveCommit(c) ==
  /\ Running(c, "waive")
  /\ fine' = [fine EXCEPT ![tx[c].fine].st = "WAIVED",
                          ![tx[c].fine].waived = tx[c].waived]
  /\ Finish(c)
  /\ UNCHANGED <<copy, issue, resv, lost, present>>

----------------------------------------------------------------------------
FinesStart(c) == \E f \in FineIds : PayRead(c, f) \/ WaiveRead(c, f)

FinesStep(c) == PayCommit(c) \/ WaiveCommit(c)
============================================================================
