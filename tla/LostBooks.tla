----------------------------- MODULE LostBooks -----------------------------
(***************************************************************************)
(* The life of a lost-book report: reported at the desk or by the holder,  *)
(* confirmed or rejected, settled once, and the copy that turns up later.  *)
(***************************************************************************)
EXTENDS LibraryDB

SettleOps == {"payLost", "writeOffLost", "replaceInKind", "foundLost"}

LostTx ==
  [op : {"reportLost", "selfReportLost"}, copy : Copies, issue : IssueIds, late : Nat]
  \cup [op : {"confirmLost"}, report : LostIds, late : Nat]
  \cup [op : {"rejectLost"}, report : LostIds]
  \cup [op : SettleOps, report : LostIds, open : SUBSET FineIds, owed : [FineIds -> Int]]
  \cup [op : {"reportMissing"}, copy : Copies]
  \cup [op : {"turnedUp"}, report : LostIds, outcome : {"REFUND_OWED", "FAMILY_KEEPS"},
        refund : SUBSET FineIds]
  \cup [op : {"markRefunded"}, report : LostIds]

ReportInScope(c, r) == InScope(c, lost[r].copy)

\* A replacement price of NULL is UNPRICED; no charge is raised for it.
AddReplacementFine(tbl, i, price) ==
  IF price = NULL \/ issue[i].member \in FineFree THEN tbl
  ELSE Insert(tbl, FineFor("LOST", i, price))

\* Both charges of a loss, if the pool of fine ids has room for them.
ChargeLoss(i, late, price) ==
  LET withLate == AddLateFine(fine, i, late)
  IN /\ late > 0 => Room(fine)
     /\ price # NULL => Room(withLate)
     /\ fine' = AddReplacementFine(withLate, i, price)

----------------------------------------------------------------------------
(* Reporting.                                                               *)

\* At the desk, and by the holder: whoever holds the book is the caller.
ReportLostRead(c, k) ==
  /\ InScope(c, k)
  /\ \E i \in ActiveIssues(k) :
       Begin(c, "reportLost", [op |-> "reportLost", copy |-> k, issue |-> i,
                               late |-> LateCharge(i, now)])

SelfReportLostRead(c, k) ==
  \E i \in ActiveIssues(k) :
    Begin(c, "selfReportLost", [op |-> "selfReportLost", copy |-> k, issue |-> i,
                                late |-> LateCharge(i, now)])

\* Retire the copy; the mutant leaves it as it was.
LeaveCopy(k) == copy' = copy
RetireCopy(k) == copy' = [copy EXCEPT ![k] = "LOST"]

\* Closing the issue and retiring the copy, common to both.
LoseIssue(i, k, report) ==
  /\ issue[i].st # "DELETED"
  /\ Room(lost)
  /\ ~HasOpenReport(k)
  /\ issue' = [issue EXCEPT ![i].st = "LOST"]
  /\ RetireCopy(k)
  /\ lost' = Insert(lost, report)

ReportLostCommit(c) ==
  /\ Running(c, "reportLost")
  /\ LoseIssue(tx[c].issue, tx[c].copy,
               [NoLost EXCEPT !.st = "CONFIRMED", !.copy = tx[c].copy,
                              !.issue = tx[c].issue, !.frozen = tx[c].late])
  /\ \E price \in Prices \cup {NULL} : ChargeLoss(tx[c].issue, tx[c].late, price)
  /\ Finish(c)
  /\ UNCHANGED <<resv, present>>

\* A tap by the holder freezes the late charge and creates no money.
SelfReportLostCommit(c) ==
  /\ Running(c, "selfReportLost")
  /\ LoseIssue(tx[c].issue, tx[c].copy,
               [NoLost EXCEPT !.st = "REPORTED", !.copy = tx[c].copy, !.self = TRUE,
                              !.issue = tx[c].issue, !.frozen = tx[c].late])
  /\ Finish(c)
  /\ UNCHANGED <<resv, fine, present>>

\* A copy missing at stock verification: nobody has it.
ReportMissingRead(c, k) ==
  /\ copy[k] # "UNREGISTERED"
  /\ InScope(c, k)
  /\ ~CopyIsIssued(k)
  /\ Begin(c, "reportMissing", [op |-> "reportMissing", copy |-> k])

ReportMissingCommit(c) ==
  /\ Running(c, "reportMissing")
  /\ Room(lost)
  /\ LET k == tx[c].copy
     IN /\ ~HasOpenReport(k)
        /\ RetireCopy(k)
        /\ lost' = Insert(lost, [NoLost EXCEPT !.st = "CONFIRMED", !.copy = k])
  /\ Finish(c)
  /\ UNCHANGED <<issue, resv, fine, present>>

----------------------------------------------------------------------------
(* Confirming and rejecting a report by the holder.                         *)

\* Only a report nobody has acted on; the mutant takes a confirmed one as well.
NotSettled(r) == lost[r].st \in {"REPORTED", "CONFIRMED"}
AwaitsLibrarian(r) == lost[r].st = "REPORTED"

\* The charge is the one stored when it was reported; the mutant computes it anew.
LateToday(r) == LateCharge(lost[r].issue, now)
LateWhenReported(r) == lost[r].frozen

ConfirmLostRead(c, r) ==
  /\ AwaitsLibrarian(r)
  /\ ReportInScope(c, r)
  /\ Begin(c, "confirmLost", [op |-> "confirmLost", report |-> r, late |-> LateWhenReported(r)])

\* Both fines come from the frozen figures; the report is updated by id, and
\* must still find its place in the index of open reports.
ConfirmLostCommit(c) ==
  /\ Running(c, "confirmLost")
  /\ LET r == tx[c].report
         others == {x \in LostIds \ {r} : lost[x].copy = lost[r].copy}
     IN /\ \A x \in others : lost[x].st \notin {"REPORTED", "CONFIRMED"}
        /\ \E price \in Prices \cup {NULL} : ChargeLoss(lost[r].issue, tx[c].late, price)
        /\ lost' = [lost EXCEPT ![r].st = "CONFIRMED"]
  /\ Finish(c)
  /\ UNCHANGED <<copy, issue, resv, present>>

RejectLostRead(c, r) ==
  /\ AwaitsLibrarian(r)
  /\ ReportInScope(c, r)
  /\ Begin(c, "rejectLost", [op |-> "rejectLost", report |-> r])

\* The issue reopens, unless the copy has another active issue by now.
RejectLostCommit(c) ==
  /\ Running(c, "rejectLost")
  /\ LET r == tx[c].report
         i == lost[r].issue
     IN /\ ActiveIssues(lost[r].copy) \subseteq {i}
        /\ issue' = [issue EXCEPT ![i].st = "ACTIVE"]
        /\ copy' = [copy EXCEPT ![lost[r].copy] = "ISSUED"]
        /\ lost' = [lost EXCEPT ![r].st = "REJECTED"]
  /\ Finish(c)
  /\ UNCHANGED <<resv, fine, present>>

----------------------------------------------------------------------------
(* Settling a confirmed loss.                                               *)

\* loadSettleable: the open fines and what is owed on them, read up front.
SettleRead(c, r, op) ==
  /\ lost[r].st = "CONFIRMED"
  /\ ReportInScope(c, r)
  /\ lost[r].issue # NULL
  /\ LET open == OpenFinesOn(lost[r].issue)
     IN Begin(c, op, [op |-> op, report |-> r, open |-> open,
                      owed |-> [f \in FineIds |-> IF f \in open
                                  THEN fine[f].amount - fine[f].paid ELSE 0]])

\* claimSettlement: the compare-and-swap out of CONFIRMED; the mutant updates by id.
ClaimBlindly(r, next) == lost' = [lost EXCEPT ![r].st = next]
Claim(r, next) ==
  /\ lost[r].st = "CONFIRMED"
  /\ lost' = [lost EXCEPT ![r].st = next]

\* The fines that were read as open are written by id.
PayFines(open) ==
  fine' = [f \in FineIds |-> IF f \notin open THEN fine[f]
             ELSE [fine[f] EXCEPT !.st = "PAID", !.paid = fine[f].amount, !.taken = @ + 1]]
WaiveFines(open, owed, kinds) ==
  fine' = [f \in FineIds |-> IF f \notin open \/ fine[f].kind \notin kinds THEN fine[f]
             ELSE [fine[f] EXCEPT !.st = "WAIVED", !.waived = owed[f]]]

PayLostCommit(c) ==
  /\ Running(c, "payLost")
  /\ Claim(tx[c].report, "SETTLED_PAID")
  /\ PayFines(tx[c].open)
  /\ Finish(c)
  /\ UNCHANGED <<copy, issue, resv, present>>

WriteOffLostCommit(c) ==
  /\ Running(c, "writeOffLost")
  /\ Claim(tx[c].report, "WRITTEN_OFF")
  /\ WaiveFines(tx[c].open, tx[c].owed, {"OVERDUE", "LOST"})
  /\ Finish(c)
  /\ UNCHANGED <<copy, issue, resv, present>>

\* A new copy of the same title joins the register; the late charge stands.
ReplaceInKindCommit(c) ==
  /\ Running(c, "replaceInKind")
  /\ Claim(tx[c].report, "SETTLED_IN_KIND")
  /\ \E k \in Copies :
       /\ copy[k] = "UNREGISTERED"
       /\ TitleOf[k] = TitleOf[lost[tx[c].report].copy]
       /\ BranchOf[k] = BranchOf[lost[tx[c].report].copy]
       /\ copy' = [copy EXCEPT ![k] = "AVAILABLE"]
  /\ WaiveFines(tx[c].open, tx[c].owed, {"LOST"})
  /\ Finish(c)
  /\ UNCHANGED <<issue, resv, present>>

FoundLostCommit(c) ==
  /\ Running(c, "foundLost")
  /\ Claim(tx[c].report, "FOUND")
  /\ copy' = [copy EXCEPT ![lost[tx[c].report].copy] = "AVAILABLE"]
  /\ WaiveFines(tx[c].open, tx[c].owed, {"LOST"})
  /\ Finish(c)
  /\ UNCHANGED <<issue, resv, present>>

----------------------------------------------------------------------------
(* The copy turns up after the loss was paid for.                           *)

\* Decided once; the mutant only refuses to owe the refund again.
NoRefundYet(r) == lost[r].turnedUp # "REFUND_OWED"
Undecided(r) == lost[r].turnedUp = NULL

TurnedUpRead(c, r, outcome) ==
  /\ lost[r].st = "SETTLED_PAID"
  /\ Undecided(r)
  /\ ReportInScope(c, r)
  /\ Begin(c, "turnedUp",
           [op |-> "turnedUp", report |-> r, outcome |-> outcome,
            refund |-> {f \in FineIds : /\ outcome = "REFUND_OWED"
                                        /\ fine[f].issue = lost[r].issue
                                        /\ fine[f].kind = "LOST"
                                        /\ fine[f].st = "PAID"}])

\* LostReport_refund_matches_outcome: a refund already owed forbids FAMILY_KEEPS.
TurnedUpCommit(c) ==
  /\ Running(c, "turnedUp")
  /\ LET r == tx[c].report
     IN \/ /\ tx[c].outcome = "FAMILY_KEEPS"
           /\ lost[r].turnedUp # "REFUND_OWED"
           /\ lost' = [lost EXCEPT ![r].turnedUp = "FAMILY_KEEPS"]
           /\ UNCHANGED copy
        \/ /\ tx[c].outcome = "REFUND_OWED"
           /\ lost' = [lost EXCEPT ![r].turnedUp = "REFUND_OWED",
                                   ![r].refund = tx[c].refund]
           /\ copy' = [copy EXCEPT ![lost[r].copy] = "AVAILABLE"]
  /\ Finish(c)
  /\ UNCHANGED <<issue, resv, fine, present>>

\* refundOwedAmount is not null exactly when the outcome is REFUND_OWED.
MarkRefundedRead(c, r) ==
  /\ lost[r].turnedUp = "REFUND_OWED"
  /\ ~lost[r].refunded
  /\ ReportInScope(c, r)
  /\ Begin(c, "markRefunded", [op |-> "markRefunded", report |-> r])

MarkRefundedCommit(c) ==
  /\ Running(c, "markRefunded")
  /\ lost' = [lost EXCEPT ![tx[c].report].refunded = TRUE]
  /\ Finish(c)
  /\ UNCHANGED <<copy, issue, resv, fine, present>>

----------------------------------------------------------------------------
LostStart(c) ==
  \/ \E k \in Copies : ReportLostRead(c, k)
  \/ \E k \in Copies : SelfReportLostRead(c, k)
  \/ \E k \in Copies : ReportMissingRead(c, k)
  \/ \E r \in LostIds : ConfirmLostRead(c, r)
  \/ \E r \in LostIds : RejectLostRead(c, r)
  \/ \E r \in LostIds, op \in SettleOps : SettleRead(c, r, op)
  \/ \E r \in LostIds, o \in {"REFUND_OWED", "FAMILY_KEEPS"} : TurnedUpRead(c, r, o)
  \/ \E r \in LostIds : MarkRefundedRead(c, r)

LostStep(c) ==
  \/ ReportLostCommit(c) \/ SelfReportLostCommit(c) \/ ReportMissingCommit(c)
  \/ ConfirmLostCommit(c) \/ RejectLostCommit(c)
  \/ PayLostCommit(c) \/ WriteOffLostCommit(c)
  \/ ReplaceInKindCommit(c) \/ FoundLostCommit(c)
  \/ TurnedUpCommit(c) \/ MarkRefundedCommit(c)
============================================================================
