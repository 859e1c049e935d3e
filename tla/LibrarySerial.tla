--------------------------- MODULE LibrarySerial ---------------------------
(***************************************************************************)
(* What the library service guarantees while one request is served at a    *)
(* time, with requests that roll back: the checks its handlers make are    *)
(* right, and only an interleaving can get past them.                      *)
(*                                                                         *)
(* The argument: tables change in commits alone, so with one clerk         *)
(* whatever a request has read still holds when it commits (Fresh).  With  *)
(* that, the tables are related to each other by four invariants: fines to *)
(* their payments, charges to the losses and issues they are for, marks to *)
(* issues, and copies to issues, holds and reports.                        *)
(***************************************************************************)
EXTENDS LibraryTypes

OneClerk == \A c, d \in Clerks : c = d

\* What a request has read is what the tables say.
Fresh(p) ==
  /\ p.op = "issueRead" => p.read = copy[p.copy]
  /\ p.op = "issueGranted" =>
       IF p.hold = NULL THEN copy[p.copy] = "AVAILABLE"
       ELSE copy[p.copy] = "RESERVED_SHELF" /\ p.hold \in ReadyOn(p.copy)
  /\ p.op \in {"return", "reportLost", "selfReportLost"} => p.issue \in ActiveIssues(p.copy)
  /\ p.op = "void" =>
       /\ p.issue \in ActiveIssues(p.copy) /\ issue[p.issue].member = p.member
       /\ \A f \in FineIds : fine[f].issue # p.issue
       /\ \A r \in LostIds : lost[r].issue # p.issue
       /\ p.hold # NULL => p.hold \in LastCollected(p.copy)
       /\ p.alone <=> LoansOf(p.member) \subseteq {p.issue}
  /\ p.op = "cancel" =>
       /\ resv[p.hold].st \in {"PENDING", "READY"}
       /\ p.copy = IF resv[p.hold].st = "READY" THEN resv[p.hold].copy ELSE NULL
  /\ p.op = "pay" => p.paid = fine[p.fine].amount - fine[p.fine].waived
  /\ p.op = "waive" =>
       fine[p.fine].st # "NONE" /\ p.waived = fine[p.fine].amount - fine[p.fine].paid
  /\ p.op \in {"confirmLost", "rejectLost"} => lost[p.report].st = "REPORTED"
  /\ p.op = "confirmLost" => p.late = lost[p.report].frozen
  /\ p.op \in SettleOps =>
       /\ lost[p.report].st = "CONFIRMED" /\ lost[p.report].issue # NULL
       /\ p.open = OpenFinesOn(lost[p.report].issue)
       /\ \A f \in p.open : p.owed[f] = fine[f].amount - fine[f].paid
  /\ p.op = "turnedUp" => lost[p.report].st = "SETTLED_PAID" /\ lost[p.report].turnedUp = NULL
  /\ p.op = "markRefunded" => lost[p.report].turnedUp = "REFUND_OWED"
  /\ p.op = "reportMissing" => "reportMissing" \in Routes /\ ActiveIssues(p.copy) = {}
AllFresh == \A c \in Clerks : Fresh(tx[c])

----------------------------------------------------------------------------
(* Nothing that was read changes before the commit.                         *)

LEMMA FreshWhenIdle == Fresh(Idle)
BY DEF Fresh, Idle, SettleOps

\* The one clerk goes on with a plan that is fresh, and no table changes.
LEMMA OnlyPlanMoves ==
  ASSUME OneClerk, WellFormed, NEW c \in Clerks, NEW plan, Fresh(plan),
         tx' = [tx EXCEPT ![c] = plan], UNCHANGED db
  PROVE  AllFresh'
<1> SUFFICES ASSUME NEW d \in Clerks PROVE Fresh(tx[d])'
  BY DEF AllFresh
<1>1. tx'[d] = plan
  BY DEF OneClerk, WellFormed, TypeOK
<1>2. UNCHANGED <<copy, issue, resv, fine, lost>>
  BY DEF db
<1>3. QED BY <1>1, <1>2 DEF Fresh, ReadyOn, ActiveIssues, LoansOf, LastCollected, OpenFinesOn

LEMMA CommitEnds ==
  ASSUME OneClerk, WellFormed, NEW c \in Clerks, Finish(c)
  PROVE  AllFresh'
<1> SUFFICES ASSUME NEW d \in Clerks PROVE Fresh(tx[d])'
  BY DEF AllFresh
<1>1. tx'[d] = Idle
  BY DEF OneClerk, WellFormed, TypeOK, Finish
<1>2. QED BY <1>1 DEF Fresh, Idle, SettleOps

LEMMA StartsFresh ==
  ASSUME OneClerk, WellFormed, NEW c \in Clerks, DeskStart(c) \/ FinesStart(c) \/ LostStart(c)
  PROVE  AllFresh'
<1>0. ASSUME NEW route, NEW plan, Begin(c, route, plan), Fresh(plan) PROVE AllFresh'
  BY <1>0, OnlyPlanMoves DEF Begin
<1>1. ASSUME NEW k \in Copies, NEW m \in Members, IssueRead(c, k, m) PROVE AllFresh'
  <2> DEFINE p == [op |-> "issueRead", copy |-> k, member |-> m, read |-> copy[k], at |-> now]
  <2>1. Fresh(p)
    BY DEF Fresh, SettleOps
  <2>2. QED BY <1>0, <1>1, <2>1 DEF IssueRead
<1>2. ASSUME NEW k \in Copies, ReturnRead(c, k) PROVE AllFresh'
  <2>1. PICK i \in ActiveIssues(k) :
          Begin(c, "return", [op |-> "return", copy |-> k, issue |-> i,
                              late |-> LateCharge(i, now), at |-> now])
    BY <1>2 DEF ReturnRead
  <2>2. Fresh([op |-> "return", copy |-> k, issue |-> i, late |-> LateCharge(i, now), at |-> now])
    BY DEF Fresh, SettleOps
  <2>3. QED BY <1>0, <2>1, <2>2
<1>3. ASSUME NEW k \in Copies, RenewRead(c, k) PROVE AllFresh'
  <2>1. PICK i \in ActiveIssues(k) : Begin(c, "renew", [op |-> "renew", issue |-> i,
                                                  due |-> now + Policy[issue[i].member].renewDays])
    BY <1>3 DEF RenewRead
  <2>2. Fresh([op |-> "renew", issue |-> i, due |-> now + Policy[issue[i].member].renewDays])
    BY DEF Fresh, SettleOps
  <2>3. QED BY <1>0, <2>1, <2>2
<1>4. ASSUME NEW i \in IssueIds, VoidRead(c, i) PROVE AllFresh'
  <2> DEFINE k == issue[i].copy
             m == issue[i].member
  <2>1. PICK h \in IF LastCollected(k) = {} THEN {NULL} ELSE LastCollected(k) :
          Begin(c, "void", [op |-> "void", copy |-> k, member |-> m, issue |-> i,
                            hold |-> h, alone |-> NoOtherIssue(m, i)])
    BY <1>4 DEF VoidRead
  <2> DEFINE p == [op |-> "void", copy |-> k, member |-> m, issue |-> i,
                   hold |-> h, alone |-> NoOtherIssue(m, i)]
  <2>2. /\ p.op = "void" /\ p.copy = k /\ p.member = m /\ p.issue = i /\ p.hold = h
        /\ p.alone = NoOtherIssue(m, i)
    OBVIOUS
  <2>3. i \in ActiveIssues(k)
    BY <1>4 DEF VoidRead, ActiveIssues
  <2>4. h # NULL => h \in LastCollected(k)
    BY <2>1
  <2>5. p.alone <=> LoansOf(m) \subseteq {i}
    BY <2>2 DEF NoOtherIssue
  <2> HIDE DEF p
  <2>6. Fresh(p)
    BY <1>4, <2>2, <2>3, <2>4, <2>5 DEF Fresh, VoidRead, SettleOps
  <2>7. QED BY <1>0, <2>1, <2>6 DEF p
<1>5. ASSUME NEW m \in Members, NEW t \in Titles, ReserveRead(c, m, t) PROVE AllFresh'
  <2>1. Fresh([op |-> "reserveQuota", title |-> t, member |-> m])
    BY DEF Fresh, SettleOps
  <2>2. QED BY <1>0, <1>5, <2>1 DEF ReserveRead
<1>6. ASSUME NEW h \in ResvIds, CancelRead(c, h) PROVE AllFresh'
  <2>1. Fresh([op |-> "cancel", hold |-> h,
               copy |-> IF resv[h].st = "READY" THEN resv[h].copy ELSE NULL])
    BY <1>6 DEF Fresh, SettleOps, CancelRead
  <2>2. QED BY <1>0, <1>6, <2>1 DEF CancelRead
<1>7. ASSUME NEW f \in FineIds, PayRead(c, f) PROVE AllFresh'
  <2>1. Fresh([op |-> "pay", fine |-> f, paid |-> fine[f].amount - fine[f].waived])
    BY DEF Fresh, SettleOps
  <2>2. QED BY <1>0, <1>7, <2>1 DEF PayRead
<1>8. ASSUME NEW f \in FineIds, WaiveRead(c, f) PROVE AllFresh'
  <2>1. Fresh([op |-> "waive", fine |-> f, waived |-> Unpaid(f)])
    BY <1>8 DEF Fresh, SettleOps, WaiveRead, Unpaid
  <2>2. QED BY <1>0, <1>8, <2>1 DEF WaiveRead
<1>9. CASE LostStart(c)
  <2>1. ASSUME NEW k \in Copies, ReportLostRead(c, k) PROVE AllFresh'
    <3>1. PICK i \in ActiveIssues(k) :
            Begin(c, "reportLost", [op |-> "reportLost", copy |-> k, issue |-> i,
                                    late |-> LateCharge(i, now)])
      BY <2>1 DEF ReportLostRead
    <3>2. Fresh([op |-> "reportLost", copy |-> k, issue |-> i, late |-> LateCharge(i, now)])
      BY DEF Fresh, SettleOps
    <3>3. QED BY <1>0, <3>1, <3>2
  <2>2. ASSUME NEW k \in Copies, SelfReportLostRead(c, k) PROVE AllFresh'
    <3>1. PICK i \in ActiveIssues(k) :
            Begin(c, "selfReportLost", [op |-> "selfReportLost", copy |-> k, issue |-> i,
                                        late |-> LateCharge(i, now)])
      BY <2>2 DEF SelfReportLostRead
    <3>2. Fresh([op |-> "selfReportLost", copy |-> k, issue |-> i, late |-> LateCharge(i, now)])
      BY DEF Fresh, SettleOps
    <3>3. QED BY <1>0, <3>1, <3>2
  <2>3. ASSUME NEW k \in Copies, ReportMissingRead(c, k) PROVE AllFresh'
    <3>1. Fresh([op |-> "reportMissing", copy |-> k])
      BY <2>3 DEF Fresh, SettleOps, ReportMissingRead, Begin, CopyIsIssued
    <3>2. QED BY <1>0, <2>3, <3>1 DEF ReportMissingRead
  <2>4. ASSUME NEW r \in LostIds, ConfirmLostRead(c, r) PROVE AllFresh'
    <3>1. Fresh([op |-> "confirmLost", report |-> r, late |-> LateWhenReported(r)])
      BY <2>4 DEF Fresh, SettleOps, ConfirmLostRead, AwaitsLibrarian, LateWhenReported
    <3>2. QED BY <1>0, <2>4, <3>1 DEF ConfirmLostRead
  <2>5. ASSUME NEW r \in LostIds, RejectLostRead(c, r) PROVE AllFresh'
    <3>1. Fresh([op |-> "rejectLost", report |-> r])
      BY <2>5 DEF Fresh, SettleOps, RejectLostRead, AwaitsLibrarian
    <3>2. QED BY <1>0, <2>5, <3>1 DEF RejectLostRead
  <2>6. ASSUME NEW r \in LostIds, NEW op \in SettleOps, SettleRead(c, r, op) PROVE AllFresh'
    <3> DEFINE open == OpenFinesOn(lost[r].issue)
               owed == [f \in FineIds |-> IF f \in open THEN fine[f].amount - fine[f].paid ELSE 0]
    <3>1. open \subseteq FineIds /\ \A f \in open : owed[f] = fine[f].amount - fine[f].paid
      BY DEF OpenFinesOn
    <3>2. Begin(c, op, [op |-> op, report |-> r, open |-> open, owed |-> owed])
      BY <2>6 DEF SettleRead
    <3> HIDE DEF owed
    <3>3. Fresh([op |-> op, report |-> r, open |-> open, owed |-> owed])
      BY <2>6, <3>1 DEF Fresh, SettleOps, SettleRead
    <3>4. QED BY <1>0, <3>2, <3>3
  <2>7. ASSUME NEW r \in LostIds, NEW o \in {"REFUND_OWED", "FAMILY_KEEPS"}, TurnedUpRead(c, r, o)
        PROVE  AllFresh'
    <3>1. PICK refund : Begin(c, "turnedUp", [op |-> "turnedUp", report |-> r, outcome |-> o,
                                              refund |-> refund])
      BY <2>7 DEF TurnedUpRead
    <3>2. Fresh([op |-> "turnedUp", report |-> r, outcome |-> o, refund |-> refund])
      BY <2>7 DEF Fresh, SettleOps, TurnedUpRead, Undecided
    <3>3. QED BY <1>0, <3>1, <3>2
  <2>8. ASSUME NEW r \in LostIds, MarkRefundedRead(c, r) PROVE AllFresh'
    <3>1. Fresh([op |-> "markRefunded", report |-> r])
      BY <2>8 DEF Fresh, SettleOps, MarkRefundedRead
    <3>2. QED BY <1>0, <2>8, <3>1 DEF MarkRefundedRead
  <2>9. QED BY <1>9, <2>1, <2>2, <2>3, <2>4, <2>5, <2>6, <2>7, <2>8 DEF LostStart
<1>10. QED BY <1>1, <1>2, <1>3, <1>4, <1>5, <1>6, <1>7, <1>8, <1>9 DEF DeskStart, FinesStart

LEMMA FreshKept ==
  ASSUME OneClerk, WellFormed, AllFresh, [Next]_vars
  PROVE  AllFresh'
<1>1. ASSUME NEW c \in Clerks, IssueEvaluate(c) PROVE AllFresh'
  <2> DEFINE k == tx[c].copy
             m == tx[c].member
  <2>1. tx[c].read = copy[k]
    BY <1>1 DEF AllFresh, Fresh, IssueEvaluate, Running
  <2>2. PICK h \in HoldToCollect(k, m, tx[c].read) :
          tx' = [tx EXCEPT ![c] = [op |-> "issueGranted", copy |-> k, member |-> m,
                                   hold |-> h, due |-> tx[c].at + Policy[m].issueDays]]
    BY <1>1 DEF IssueEvaluate
  <2>3. IF h = NULL THEN copy[k] = "AVAILABLE" ELSE copy[k] = "RESERVED_SHELF" /\ h \in ReadyOn(k)
    BY <2>1, <2>2, NullAssumption DEF HoldToCollect, ReadyOn
  <2>4. Fresh([op |-> "issueGranted", copy |-> k, member |-> m,
               hold |-> h, due |-> tx[c].at + Policy[m].issueDays])
    BY <2>3 DEF Fresh, SettleOps
  <2>5. QED BY <1>1, <2>2, <2>4, OnlyPlanMoves DEF IssueEvaluate
<1>2. ASSUME NEW c \in Clerks, ReserveQuota(c) \/ ReserveQueue(c) PROVE AllFresh'
  <2>1. \A d \in Clerks : tx'[d].op \in {"reserveAllowed", "reserveQueued"}
    BY <1>2, ReservePlans DEF OneClerk
  <2>2. QED BY <2>1 DEF AllFresh, Fresh, SettleOps
<1>3. CASE UNCHANGED <<db, tx>>
  BY <1>3 DEF AllFresh, Fresh, db, ReadyOn, ActiveIssues, LoansOf, LastCollected, OpenFinesOn
<1>4. ASSUME NEW c \in Clerks, DeskStep(c) PROVE AllFresh'
  BY <1>1, <1>2, <1>4, CommitEnds
     DEF DeskStep, IssueCommit, ReturnCommit, RenewCommit, VoidCommit, ReserveCommit, CancelCommit
<1>5. ASSUME NEW c \in Clerks, FinesStep(c) \/ LostStep(c) \/ Abort(c) PROVE AllFresh'
  BY <1>5, CommitEnds, FinesLeave, LostLeaves DEF Abort
<1>6. QED BY <1>3, <1>4, <1>5, StartsFresh DEF Next, Tick, vars, db

----------------------------------------------------------------------------
(* Fines and their payments.                                                *)

\* A fine that is open was neither paid nor waived; no payment is taken twice.
FinesSettled ==
  \A f \in FineIds :
    /\ fine[f].st \in {"NONE", "OPEN"} =>
         fine[f].paid = 0 /\ fine[f].waived = 0 /\ fine[f].taken = 0
    /\ fine[f].taken <= 1
NoPaymentTwice == \A f \in FineIds : fine[f].taken <= 1

\* What a charge for issue i adds to the fines: one late fee at most.
Raises(i, late, kinds) ==
  /\ \A f \in FineIds : fine'[f] # fine[f] =>
       /\ fine[f].st = "NONE"
       /\ \E kind \in kinds, n \in Nat :
            fine'[f] = FineFor(kind, i, n) /\ (kind = "OVERDUE" => n = late)
  /\ \A f, g \in FineIds :
       (/\ fine'[f] # fine[f] /\ fine'[f].kind = "OVERDUE"
        /\ fine'[g] # fine[g] /\ fine'[g].kind = "OVERDUE") => f = g

\* The row of a charge that was raised.
LEMMA RaisedRow ==
  ASSUME NEW i, NEW late, NEW kinds, Raises(i, late, kinds), NEW f \in FineIds, fine'[f] # fine[f]
  PROVE  /\ fine[f].st = "NONE" /\ fine'[f].st = "OPEN" /\ fine'[f].issue = i
         /\ fine'[f].kind \in kinds /\ fine'[f].amount \in Nat
         /\ fine'[f].kind = "OVERDUE" => fine'[f].amount = late
         /\ fine'[f].paid = 0 /\ fine'[f].waived = 0 /\ fine'[f].taken = 0
<1>1. PICK kind \in kinds, n \in Nat :
        fine'[f] = FineFor(kind, i, n) /\ (kind = "OVERDUE" => n = late)
  BY DEF Raises
<1>2. QED BY <1>1 DEF Raises, FineFor

LEMMA LateFineRaises ==
  ASSUME WellFormed, NEW i \in IssueIds, NEW late \in Nat, late > 0 => Room(fine),
         fine' = AddLateFine(fine, i, late)
  PROVE  Raises(i, late, {"OVERDUE"})
<1>1. CASE late = 0
  BY <1>1 DEF AddLateFine, Raises
<1>2. CASE late # 0
  <2>1. PICK n \in FineIds : /\ fine[n].st = "NONE"
                             /\ fine' = [fine EXCEPT ![n] = FineFor("OVERDUE", i, late)]
    BY <1>2, InsertFillsOne DEF AddLateFine, WellFormed, TypeOK, TablesOK
  <2>2. QED BY <2>1 DEF Raises, WellFormed, TypeOK, TablesOK
<1>3. QED BY <1>1, <1>2

LEMMA LossRaises ==
  ASSUME WellFormed, NEW i \in IssueIds, NEW late \in Nat, NEW price \in Prices \cup {NULL},
         ChargeLoss(i, late, price)
  PROVE  Raises(i, late, {"OVERDUE", "LOST"})
<1> DEFINE tbl == AddLateFine(fine, i, late)
           row == FineFor("OVERDUE", i, late)
<1>0. fine \in [FineIds -> FineRow]
  BY DEF WellFormed, TypeOK, TablesOK
<1>1. row.st = "OPEN" /\ row.kind = "OVERDUE"
  BY DEF FineFor
<1>2. \/ tbl = fine
      \/ \E n \in FineIds : fine[n].st = "NONE" /\ tbl = [fine EXCEPT ![n] = row]
  BY <1>0, InsertFillsOne DEF ChargeLoss, AddLateFine
<1>3. DOMAIN tbl = FineIds
  BY <1>0, <1>2
<1>4. fine' = AddReplacementFine(tbl, i, price) /\ (price # NULL => Room(tbl))
  BY DEF ChargeLoss
<1>5. \/ fine' = tbl
      \/ /\ price \in Nat
         /\ \E x \in FineIds : tbl[x].st = "NONE" /\ fine' = [tbl EXCEPT ![x] = FineFor("LOST", i, price)]
  <2> HIDE DEF tbl
  <2>1. QED BY <1>3, <1>4, InsertFillsOne, NumbersAssumption DEF AddReplacementFine
<1> HIDE DEF tbl, row
<1>6. CASE fine' = tbl
  <2>1. CASE tbl = fine
    BY <1>6, <2>1 DEF Raises
  <2>2. ASSUME NEW n \in FineIds, fine[n].st = "NONE", tbl = [fine EXCEPT ![n] = row]
        PROVE  Raises(i, late, {"OVERDUE", "LOST"})
    BY <1>0, <1>6, <2>2 DEF Raises, row
  <2>3. QED BY <1>2, <2>1, <2>2
<1>7. ASSUME price \in Nat, NEW x \in FineIds, tbl[x].st = "NONE",
             fine' = [tbl EXCEPT ![x] = FineFor("LOST", i, price)]
      PROVE  Raises(i, late, {"OVERDUE", "LOST"})
  <2>0. FineFor("LOST", i, price).kind = "LOST"
    BY DEF FineFor
  <2>1. CASE tbl = fine
    BY <1>0, <1>7, <2>0, <2>1 DEF Raises
  <2>2. ASSUME NEW n \in FineIds, fine[n].st = "NONE", tbl = [fine EXCEPT ![n] = row]
        PROVE  Raises(i, late, {"OVERDUE", "LOST"})
    <3>1. n # x
      BY <1>0, <1>1, <1>7, <2>2
    <3>2. \A f \in FineIds : fine'[f] = IF f = n THEN row
                                        ELSE IF f = x THEN FineFor("LOST", i, price) ELSE fine[f]
      BY <1>0, <1>7, <2>2, <3>1
    <3>3. fine[x].st = "NONE"
      BY <1>0, <1>7, <2>2, <3>1
    <3>4. QED BY <1>7, <2>0, <2>2, <3>2, <3>3 DEF Raises, row
  <2>3. QED BY <1>2, <2>1, <2>2
<1>8. QED BY <1>5, <1>6, <1>7

\* The one who reads, and what the row of a fine in it looks like.
LEMMA FreshPlan ==
  ASSUME WellFormed, AllFresh, NEW c \in Clerks
  PROVE  tx[c] \in Tx /\ Fresh(tx[c])
BY DEF WellFormed, TypeOK, AllFresh

\* Payments and waivers move no charge.
ChargesStay ==
  \A f \in FineIds : /\ fine'[f].kind = fine[f].kind /\ fine'[f].issue = fine[f].issue
                     /\ fine'[f].amount = fine[f].amount
                     /\ fine'[f].st = "NONE" <=> fine[f].st = "NONE"

\* A step raises charges for the issue it closes, or moves none.
Charging ==
  \/ ChargesStay
  \/ \E c \in Clerks : /\ ReturnCommit(c)
                       /\ Raises(tx[c].issue, tx[c].late, {"OVERDUE"})
  \/ \E c \in Clerks : /\ ReportLostCommit(c)
                       /\ Raises(tx[c].issue, tx[c].late, {"OVERDUE", "LOST"})
  \/ \E c \in Clerks : /\ ConfirmLostCommit(c)
                       /\ Raises(lost[tx[c].report].issue, tx[c].late, {"OVERDUE", "LOST"})

MoneyInv == FinesSettled /\ PaidOrWaivedNotBoth

LEMMA MoneyStep ==
  ASSUME WellFormed, AllFresh, MoneyInv, [Next]_vars
  PROVE  MoneyInv' /\ Charging
<1> USE DEF MoneyInv
<1>0. fine \in [FineIds -> FineRow]
  BY DEF WellFormed, TypeOK, TablesOK
<1>a. \A f \in FineIds : /\ fine[f].amount \in Nat /\ fine[f].paid \in Int
                         /\ fine[f].waived \in Int /\ fine[f].taken \in Nat
  BY <1>0 DEF FineRow
<1>1. ASSUME NEW i \in IssueIds, NEW late, NEW kinds, Raises(i, late, kinds)
      PROVE  MoneyInv'
  <2>1. ASSUME NEW f \in FineIds, fine'[f] # fine[f]
        PROVE  /\ fine'[f].paid = 0 /\ fine'[f].waived = 0 /\ fine'[f].taken = 0
               /\ fine'[f].amount \in Nat
    BY <1>1, <2>1, RaisedRow
  <2>2. FinesSettled'
    BY <2>1 DEF FinesSettled
  <2>3. ASSUME NEW f \in FineIds PROVE fine'[f].paid + fine'[f].waived <= fine'[f].amount
    BY <1>a, <2>1 DEF PaidOrWaivedNotBoth
  <2>4. QED BY <2>2, <2>3 DEF PaidOrWaivedNotBoth
<1>2. ASSUME NEW f \in FineIds, NEW row,
             fine' = [fine EXCEPT ![f] = row],
             /\ row.kind = fine[f].kind /\ row.issue = fine[f].issue /\ row.amount = fine[f].amount
             /\ row.st \in {"PAID", "WAIVED"} /\ row.taken \in Nat /\ row.taken <= 1
             /\ row.paid \in Int /\ row.waived \in Int /\ row.paid + row.waived = fine[f].amount,
             fine[f].st # "NONE"
      PROVE  MoneyInv' /\ ChargesStay
  <2>1. \A g \in FineIds : fine'[g] = IF g = f THEN row ELSE fine[g]
    BY <1>0, <1>2
  <2>2. \A g \in FineIds : /\ fine'[g].st \in {"NONE", "OPEN"} => g # f
                           /\ g = f => fine'[g].paid + fine'[g].waived = fine'[g].amount
    BY <1>2, <2>1
  <2>3. FinesSettled'
    BY <1>2, <2>1, <2>2 DEF FinesSettled
  <2>4. ASSUME NEW g \in FineIds PROVE fine'[g].paid + fine'[g].waived <= fine'[g].amount
    BY <1>a, <1>2, <2>1, <2>2 DEF PaidOrWaivedNotBoth
  <2>5. ChargesStay
    BY <1>2, <2>1 DEF ChargesStay
  <2>6. QED BY <2>3, <2>4, <2>5 DEF PaidOrWaivedNotBoth
<1>3. CASE UNCHANGED fine
  BY <1>3 DEF FinesSettled, PaidOrWaivedNotBoth, Charging, ChargesStay
<1>4. ASSUME NEW c \in Clerks, ReturnCommit(c) PROVE MoneyInv' /\ Charging
  <2>1. tx[c].issue \in IssueIds /\ tx[c].late \in Nat
    BY <1>4, FreshPlan, PlanFields DEF ReturnCommit, Running
  <2>2. Raises(tx[c].issue, tx[c].late, {"OVERDUE"})
    BY <1>4, <2>1, LateFineRaises DEF ReturnCommit
  <2>3. QED BY <1>1, <1>4, <2>1, <2>2 DEF Charging
<1>5. ASSUME NEW c \in Clerks, VoidCommit(c) PROVE UNCHANGED fine
  <2>1. \A f \in FineIds : fine[f].issue # tx[c].issue
    BY <1>5, FreshPlan DEF Fresh, VoidCommit, Running
  <2>2. QED BY <1>0, <1>5, <2>1 DEF VoidCommit
<1>6. ASSUME NEW c \in Clerks, PayCommit(c) PROVE MoneyInv' /\ ChargesStay
  <2> DEFINE f == tx[c].fine
             row == [fine[f] EXCEPT !.st = "PAID", !.paid = tx[c].paid, !.taken = @ + 1]
  <2>1. f \in FineIds /\ tx[c].paid = fine[f].amount - fine[f].waived
    BY <1>6, FreshPlan, PlanFields DEF Fresh, PayCommit, Running
  <2>2. fine[f].st = "OPEN" /\ fine' = [fine EXCEPT ![f] = row]
    BY <1>0, <1>6 DEF PayCommit, StillOpen
  <2>3. fine[f].waived = 0 /\ fine[f].taken = 0
    BY <2>1, <2>2 DEF FinesSettled
  <2>4. /\ row.kind = fine[f].kind /\ row.issue = fine[f].issue /\ row.amount = fine[f].amount
        /\ row.st = "PAID" /\ row.taken = fine[f].taken + 1
        /\ row.paid = tx[c].paid /\ row.waived = fine[f].waived
    BY <1>0, <2>1 DEF FineRow
  <2> HIDE DEF row
  <2>5. row.paid + row.waived = fine[f].amount /\ row.paid \in Int /\ row.waived \in Int
    BY <1>a, <2>1, <2>3, <2>4
  <2>6. row.taken \in Nat /\ row.taken <= 1 /\ row.st \in {"PAID", "WAIVED"} /\ fine[f].st # "NONE"
    BY <2>2, <2>3, <2>4
  <2>7. QED BY <1>2, <2>1, <2>2, <2>4, <2>5, <2>6
<1>7. ASSUME NEW c \in Clerks, WaiveCommit(c) PROVE MoneyInv' /\ ChargesStay
  <2> DEFINE f == tx[c].fine
             row == [fine[f] EXCEPT !.st = "WAIVED", !.waived = tx[c].waived]
  <2>1. f \in FineIds /\ fine[f].st # "NONE" /\ tx[c].waived = fine[f].amount - fine[f].paid
    BY <1>7, FreshPlan, PlanFields DEF Fresh, WaiveCommit, Running
  <2>2. fine' = [fine EXCEPT ![f] = row]
    BY <1>0, <1>7 DEF WaiveCommit
  <2>3. /\ row.kind = fine[f].kind /\ row.issue = fine[f].issue /\ row.amount = fine[f].amount
        /\ row.st = "WAIVED" /\ row.taken = fine[f].taken
        /\ row.paid = fine[f].paid /\ row.waived = tx[c].waived
    BY <1>0, <2>1 DEF FineRow
  <2> HIDE DEF row
  <2>4. row.paid + row.waived = fine[f].amount /\ row.taken <= 1 /\ row.paid \in Int /\ row.waived \in Int
        /\ row.taken \in Nat
    BY <1>a, <2>1, <2>3 DEF FinesSettled
  <2>5. QED BY <1>2, <2>1, <2>2, <2>3, <2>4
<1>8. ASSUME NEW c \in Clerks, tx[c].op \in SettleOps, NEW kinds,
             PayFines(tx[c].open) \/ WaiveFines(tx[c].open, tx[c].owed, kinds)
      PROVE  MoneyInv' /\ ChargesStay
  <2>1. /\ \A f \in tx[c].open : /\ f \in FineIds /\ fine[f].st = "OPEN"
                                 /\ tx[c].owed[f] = fine[f].amount - fine[f].paid
    BY <1>8, FreshPlan DEF Fresh, OpenFinesOn
  <2>2. \A f \in tx[c].open : fine[f].paid = 0 /\ fine[f].waived = 0 /\ fine[f].taken = 0
    BY <2>1 DEF FinesSettled
  <2>3. ASSUME NEW f \in FineIds
        PROVE  \/ fine'[f] = fine[f]
               \/ /\ f \in tx[c].open
                  /\ \/ fine'[f] = [fine[f] EXCEPT !.st = "PAID", !.paid = fine[f].amount,
                                                   !.taken = @ + 1]
                     \/ fine'[f] = [fine[f] EXCEPT !.st = "WAIVED", !.waived = tx[c].owed[f]]
    BY <1>8 DEF PayFines, WaiveFines
  <2>4. ASSUME NEW f \in FineIds
        PROVE  \/ fine'[f] = fine[f]
               \/ /\ fine[f].st = "OPEN" /\ fine'[f].st \in {"PAID", "WAIVED"}
                  /\ fine'[f].kind = fine[f].kind /\ fine'[f].issue = fine[f].issue
                  /\ fine'[f].amount = fine[f].amount /\ fine'[f].taken \in {0, 1}
                  /\ fine'[f].paid \in Int /\ fine'[f].waived \in Int
                  /\ fine'[f].paid + fine'[f].waived = fine[f].amount
    <3>1. fine[f] \in FineRow
      BY <1>0
    <3>2. CASE fine'[f] = [fine[f] EXCEPT !.st = "PAID", !.paid = fine[f].amount, !.taken = @ + 1]
               /\ f \in tx[c].open
      BY <1>a, <2>1, <2>2, <3>1, <3>2 DEF FineRow
    <3>3. CASE fine'[f] = [fine[f] EXCEPT !.st = "WAIVED", !.waived = tx[c].owed[f]]
               /\ f \in tx[c].open
      BY <1>a, <2>1, <2>2, <3>1, <3>3 DEF FineRow
    <3>4. QED BY <2>3, <3>2, <3>3
  <2>5. MoneyInv'
    BY <1>a, <2>4 DEF FinesSettled, PaidOrWaivedNotBoth
  <2>6. ChargesStay
    BY <2>4 DEF ChargesStay
  <2>7. QED BY <2>5, <2>6
<1>9. ASSUME NEW c \in Clerks, LostStep(c) PROVE MoneyInv' /\ Charging
  <2>1. CASE ReportLostCommit(c)
    <3>1. tx[c].issue \in IssueIds /\ tx[c].late \in Nat
      BY <2>1, FreshPlan, PlanFields DEF ReportLostCommit, Running
    <3>2. Raises(tx[c].issue, tx[c].late, {"OVERDUE", "LOST"})
      BY <2>1, <3>1, LossRaises DEF ReportLostCommit
    <3>3. QED BY <1>1, <2>1, <3>1, <3>2 DEF Charging
  <2>2. CASE ConfirmLostCommit(c)
    <3>1. tx[c].report \in LostIds /\ tx[c].late \in Nat /\ lost[tx[c].report].st = "REPORTED"
      BY <2>2, FreshPlan, PlanFields DEF Fresh, ConfirmLostCommit, Running
    <3>2. lost[tx[c].report].issue \in IssueIds
      BY <3>1 DEF WellFormed, ReportsStand, TypeOK, TablesOK, LostRow
    <3>3. Raises(lost[tx[c].report].issue, tx[c].late, {"OVERDUE", "LOST"})
      BY <2>2, <3>1, <3>2, LossRaises DEF ConfirmLostCommit
    <3>4. QED BY <1>1, <2>2, <3>2, <3>3 DEF Charging
  <2>3. CASE PayLostCommit(c) \/ WriteOffLostCommit(c) \/ ReplaceInKindCommit(c) \/ FoundLostCommit(c)
    BY <1>8, <2>3 DEF PayLostCommit, WriteOffLostCommit, ReplaceInKindCommit, FoundLostCommit,
                      Running, SettleOps, Charging
  <2>4. CASE \/ SelfReportLostCommit(c) \/ ReportMissingCommit(c) \/ RejectLostCommit(c)
             \/ TurnedUpCommit(c) \/ MarkRefundedCommit(c)
    BY <1>3, <2>4 DEF SelfReportLostCommit, ReportMissingCommit, RejectLostCommit, TurnedUpCommit,
                      MarkRefundedCommit
  <2>5. QED BY <1>9, <2>1, <2>2, <2>3, <2>4 DEF LostStep
<1>10. ASSUME NEW c \in Clerks, DeskStep(c) PROVE MoneyInv' /\ Charging
  BY <1>3, <1>4, <1>5, <1>10 DEF DeskStep, IssueEvaluate, IssueCommit, RenewCommit, ReserveQuota,
                                 ReserveQueue, ReserveCommit, CancelCommit, db
<1>11. QED BY <1>3, <1>6, <1>7, <1>9, <1>10, StartsOnlyRead
           DEF Next, FinesStep, Abort, Tick, vars, db, Charging

----------------------------------------------------------------------------
(* Charges, losses and the issues they are for.                             *)

EmptyReports == \A r \in LostIds : lost[r].st = "NONE" => lost[r].turnedUp = NULL

\* A report that stands is about an issue that is lost, and is the only such report.
Stands(r) == lost[r].issue # NULL /\ lost[r].st # "REJECTED"
LossesFollow ==
  /\ \A r \in LostIds : Stands(r) => issue[lost[r].issue].st = "LOST"
  /\ \A r, x \in LostIds : Stands(r) /\ Stands(x) /\ lost[r].issue = lost[x].issue => r = x

\* Lateness is charged when an issue is closed, but not by the holder's report.
ChargesFollow ==
  \A f \in FineIds : fine[f].kind = "OVERDUE" /\ fine[f].issue # NULL =>
    \/ issue[fine[f].issue].st = "RETURNED"
    \/ /\ issue[fine[f].issue].st = "LOST"
       /\ \A r \in LostIds : lost[r].issue = fine[f].issue => lost[r].st # "REPORTED"

LossInv == /\ EmptyReports /\ LossesFollow /\ ChargesFollow
           /\ LateChargedOnce /\ NoMoneyForRejectedLoss /\ LateChargeFrozen

NotCharged(i) == \A f \in FineIds : fine[f].issue = i => fine[f].kind # "OVERDUE"

SameCharge(f) ==
  /\ fine'[f].kind = fine[f].kind /\ fine'[f].issue = fine[f].issue
  /\ fine'[f].amount = fine[f].amount /\ (fine'[f].st = "NONE" <=> fine[f].st = "NONE")

\* What the fines are after a step that may charge issue i.
Charged(i, late, kinds) ==
  /\ \A f \in FineIds : SameCharge(f) \/
       /\ fine'[f].issue = i /\ fine'[f].kind \in kinds
       /\ fine'[f].kind = "OVERDUE" => fine'[f].amount = late
  /\ \A f, g \in FineIds :
       (/\ ~SameCharge(f) /\ fine'[f].kind = "OVERDUE"
        /\ ~SameCharge(g) /\ fine'[g].kind = "OVERDUE") => f = g

LEMMA RaisedIsCharged ==
  ASSUME NEW i, NEW late, NEW kinds, Raises(i, late, kinds) \/ ChargesStay
  PROVE  Charged(i, late, kinds)
<1>1. CASE ChargesStay
  BY <1>1 DEF ChargesStay, Charged, SameCharge
<1>2. CASE Raises(i, late, kinds)
  <2>1. \A f \in FineIds : ~SameCharge(f) => fine'[f] # fine[f]
    BY DEF SameCharge
  <2>2. \A f \in FineIds : fine'[f] # fine[f] =>
           /\ fine'[f].issue = i /\ fine'[f].kind \in kinds
           /\ fine'[f].kind = "OVERDUE" => fine'[f].amount = late
    BY <1>2, RaisedRow
  <2>3. QED BY <1>2, <2>1, <2>2 DEF Charged, Raises
<1>3. QED BY <1>1, <1>2

\* Which charges the one request may raise.
LEMMA WhoCharges ==
  ASSUME OneClerk, Charging, NEW c \in Clerks
  PROVE  /\ tx[c].op = "return" => Charged(tx[c].issue, tx[c].late, {"OVERDUE"})
         /\ tx[c].op = "reportLost" => Charged(tx[c].issue, tx[c].late, {"OVERDUE", "LOST"})
         /\ tx[c].op = "confirmLost" =>
              Charged(lost[tx[c].report].issue, tx[c].late, {"OVERDUE", "LOST"})
         /\ tx[c].op \notin {"return", "reportLost", "confirmLost"} => ChargesStay
<1>1. CASE ChargesStay
  BY <1>1, RaisedIsCharged
<1>2. CASE ReturnCommit(c) /\ Raises(tx[c].issue, tx[c].late, {"OVERDUE"})
  BY <1>2, RaisedIsCharged DEF ReturnCommit, Running
<1>3. CASE ReportLostCommit(c) /\ Raises(tx[c].issue, tx[c].late, {"OVERDUE", "LOST"})
  BY <1>3, RaisedIsCharged DEF ReportLostCommit, Running
<1>4. CASE ConfirmLostCommit(c) /\ Raises(lost[tx[c].report].issue, tx[c].late, {"OVERDUE", "LOST"})
  BY <1>4, RaisedIsCharged DEF ConfirmLostCommit, Running
<1>5. QED BY <1>1, <1>2, <1>3, <1>4 DEF Charging, OneClerk

LEMMA ChargedOnce ==
  ASSUME LateChargedOnce, NEW i, NEW late, NEW kinds, Charged(i, late, kinds), NotCharged(i)
  PROVE  LateChargedOnce'
<1> SUFFICES ASSUME NEW f \in FineIds, NEW g \in FineIds, f # g,
                    fine'[f].kind = "OVERDUE", fine'[g].kind = "OVERDUE", fine'[f].issue # NULL,
                    fine'[f].issue = fine'[g].issue
             PROVE  FALSE
  BY DEF LateChargedOnce
<1>1. CASE SameCharge(f) /\ SameCharge(g)
  BY <1>1 DEF LateChargedOnce, SameCharge
<1>2. CASE ~SameCharge(f) /\ SameCharge(g)
  BY <1>2 DEF Charged, SameCharge, NotCharged
<1>3. CASE SameCharge(f) /\ ~SameCharge(g)
  BY <1>3 DEF Charged, SameCharge, NotCharged
<1>4. CASE ~SameCharge(f) /\ ~SameCharge(g)
  BY <1>4 DEF Charged
<1>5. QED BY <1>1, <1>2, <1>3, <1>4

\* An issue that is not lost has no report that stands; an open one was not charged.
LEMMA OpenIsClear ==
  ASSUME WellFormed, LossInv, NEW i \in IssueIds, issue[i].st # "LOST"
  PROVE  /\ \A r \in LostIds : lost[r].issue = i => lost[r].st = "REJECTED"
         /\ issue[i].st # "RETURNED" => NotCharged(i)
BY NullAssumption DEF LossInv, LossesFollow, ChargesFollow, Stands, NotCharged

LEMMA LossRowsTyped ==
  ASSUME WellFormed
  PROVE  /\ \A r \in LostIds : lost[r].issue \in IssueIds \cup {NULL}
         /\ \A f \in FineIds : fine[f].issue \in IssueIds \cup {NULL}
         /\ NULL \notin IssueIds
         /\ issue \in [IssueIds -> IssueRow] /\ lost \in [LostIds -> LostRow]
         /\ copy \in [Copies -> CopyStatus] /\ resv \in [ResvIds -> ResvRow]
BY NullAssumption DEF WellFormed, TypeOK, TablesOK, LostRow, FineRow

\* Reports that go on without being rejected, and new ones about no issue.
ReportsGoOn ==
  \A r \in LostIds :
    /\ lost'[r].issue = lost[r].issue
    /\ lost[r].issue # NULL => lost'[r].frozen = lost[r].frozen
    /\ \/ lost'[r].st = lost[r].st
       \/ lost[r].st = "CONFIRMED" /\ lost'[r].st \in {"SETTLED_PAID", "SETTLED_IN_KIND",
                                                       "WRITTEN_OFF", "FOUND"}
       \/ lost[r].st = "NONE" /\ lost[r].issue = NULL /\ lost'[r].st = "CONFIRMED"
    /\ lost'[r].st = "NONE" => lost'[r].turnedUp = lost[r].turnedUp

LEMMA LossUntouched ==
  ASSUME WellFormed, LossInv, ChargesStay, ReportsGoOn,
         \A i \in IssueIds : issue'[i].st = issue[i].st \/ ~(issue[i].st \in {"RETURNED", "LOST"})
  PROVE  LossInv'
<1>1. EmptyReports'
  BY DEF LossInv, EmptyReports, ReportsGoOn
<1>2. \A r \in LostIds : Stands(r)' <=> Stands(r)
  BY DEF Stands, ReportsGoOn
<1>3. LossesFollow'
  BY <1>2, LossRowsTyped DEF LossInv, LossesFollow, ReportsGoOn, Stands
<1>4. ChargesFollow'
  BY LossRowsTyped DEF LossInv, ChargesFollow, ReportsGoOn, ChargesStay
<1>5. LateChargedOnce'
  BY DEF LossInv, LateChargedOnce, ChargesStay
<1>6. NoMoneyForRejectedLoss'
  <2> SUFFICES ASSUME NEW f \in FineIds, fine'[f].st # "NONE", fine'[f].kind = "LOST"
               PROVE  \E r \in LostIds : /\ lost'[r].issue = fine'[f].issue
                                         /\ lost'[r].st \notin {"NONE", "REPORTED", "REJECTED"}
    BY DEF NoMoneyForRejectedLoss
  <2>1. PICK r \in LostIds : /\ lost[r].issue = fine[f].issue
                             /\ lost[r].st \notin {"NONE", "REPORTED", "REJECTED"}
    BY DEF LossInv, NoMoneyForRejectedLoss, ChargesStay
  <2>2. QED BY <2>1 DEF ReportsGoOn, ChargesStay
<1>7. LateChargeFrozen'
  BY DEF LossInv, LateChargeFrozen, ReportsGoOn, ChargesStay
<1>8. QED BY <1>1, <1>3, <1>4, <1>5, <1>6, <1>7 DEF LossInv

\* An open issue is closed, and charged late once.
LEMMA LossReturned ==
  ASSUME WellFormed, LossInv, NEW i \in IssueIds, issue[i].st = "ACTIVE", NEW late,
         Charged(i, late, {"OVERDUE"}), UNCHANGED lost,
         issue'[i].st = "RETURNED", \A j \in IssueIds \ {i} : issue'[j].st = issue[j].st
  PROVE  LossInv'
<1>1. NotCharged(i) /\ \A r \in LostIds : lost[r].issue = i => lost[r].st = "REJECTED"
  BY OpenIsClear
<1>2. LateChargedOnce'
  BY <1>1, ChargedOnce DEF LossInv
<1>3. LossesFollow' /\ EmptyReports'
  BY <1>1, LossRowsTyped DEF LossInv, LossesFollow, EmptyReports, Stands
<1>4. ASSUME NEW f \in FineIds PROVE SameCharge(f) \/ (fine'[f].issue = i /\ fine'[f].kind = "OVERDUE")
  BY DEF Charged
<1>5. ChargesFollow'
  BY <1>4, LossRowsTyped DEF LossInv, ChargesFollow, SameCharge
<1>6. NoMoneyForRejectedLoss'
  BY <1>4 DEF LossInv, NoMoneyForRejectedLoss, SameCharge
<1>7. LateChargeFrozen'
  BY <1>1, <1>4 DEF LossInv, LateChargeFrozen, SameCharge
<1>8. QED BY <1>2, <1>3, <1>5, <1>6, <1>7 DEF LossInv

\* A report on an open issue closes it as lost; the holder's report charges nothing.
LEMMA LossReported ==
  ASSUME WellFormed, LossInv, NEW i \in IssueIds, issue[i].st = "ACTIVE", NEW n \in LostIds,
         lost[n].st = "NONE", NEW report, lost' = [lost EXCEPT ![n] = report],
         report.issue = i, report.turnedUp = NULL,
         \/ report.st = "CONFIRMED" /\ Charged(i, report.frozen, {"OVERDUE", "LOST"})
         \/ report.st = "REPORTED" /\ ChargesStay,
         issue'[i].st = "LOST", \A j \in IssueIds \ {i} : issue'[j].st = issue[j].st
  PROVE  LossInv'
<1>1. NotCharged(i) /\ \A r \in LostIds : lost[r].issue = i => lost[r].st = "REJECTED"
  BY OpenIsClear
<1>2. \A r \in LostIds : lost'[r] = IF r = n THEN report ELSE lost[r]
  BY LossRowsTyped
<1>3. lost[n].issue = NULL
  BY DEF WellFormed, ReportsStand
<1>4. Charged(i, report.frozen, {"OVERDUE", "LOST"}) /\ (report.st = "REPORTED" => ChargesStay)
  BY RaisedIsCharged
<1>5. LateChargedOnce'
  BY <1>1, <1>4, ChargedOnce DEF LossInv
<1>6. EmptyReports'
  BY <1>2 DEF LossInv, EmptyReports
<1>7. LossesFollow'
  BY <1>1, <1>2, <1>3, LossRowsTyped DEF LossInv, LossesFollow, Stands
<1>8. ASSUME NEW f \in FineIds
      PROVE  \/ SameCharge(f)
             \/ /\ fine'[f].issue = i /\ report.st = "CONFIRMED"
                /\ fine'[f].kind = "OVERDUE" => fine'[f].amount = report.frozen
  BY <1>4 DEF Charged, ChargesStay, SameCharge
<1>9. ChargesFollow'
  <2> SUFFICES ASSUME NEW f \in FineIds, fine'[f].kind = "OVERDUE", fine'[f].issue # NULL
               PROVE  \/ issue'[fine'[f].issue].st = "RETURNED"
                      \/ /\ issue'[fine'[f].issue].st = "LOST"
                         /\ \A r \in LostIds : lost'[r].issue = fine'[f].issue => lost'[r].st # "REPORTED"
    BY DEF ChargesFollow
  <2>1. CASE SameCharge(f)
    <3>1. fine[f].issue # i /\ fine[f].issue \in IssueIds
      BY <1>1, <2>1, LossRowsTyped DEF SameCharge, NotCharged
    <3>2. QED BY <1>2, <2>1, <3>1 DEF LossInv, ChargesFollow, SameCharge
  <2>2. CASE ~SameCharge(f)
    BY <1>1, <1>2, <1>8, <2>2
  <2>3. QED BY <2>1, <2>2
<1>10. NoMoneyForRejectedLoss'
  <2> SUFFICES ASSUME NEW f \in FineIds, fine'[f].st # "NONE", fine'[f].kind = "LOST"
               PROVE  \E r \in LostIds : /\ lost'[r].issue = fine'[f].issue
                                         /\ lost'[r].st \notin {"NONE", "REPORTED", "REJECTED"}
    BY DEF NoMoneyForRejectedLoss
  <2>1. CASE SameCharge(f)
    <3>1. PICK r \in LostIds : /\ lost[r].issue = fine[f].issue
                               /\ lost[r].st \notin {"NONE", "REPORTED", "REJECTED"}
      BY <2>1 DEF LossInv, NoMoneyForRejectedLoss, SameCharge
    <3>2. lost'[r] = lost[r]
      BY <1>2, <3>1
    <3>3. QED BY <2>1, <3>1, <3>2 DEF SameCharge
  <2>2. CASE ~SameCharge(f)
    BY <1>2, <1>8, <2>2
  <2>3. QED BY <2>1, <2>2
<1>11. LateChargeFrozen'
  <2> SUFFICES ASSUME NEW r \in LostIds, NEW f \in FineIds,
                      lost'[r].st \notin {"NONE", "REPORTED", "REJECTED"}, lost'[r].issue # NULL,
                      fine'[f].issue = lost'[r].issue, fine'[f].kind = "OVERDUE"
               PROVE  fine'[f].amount = lost'[r].frozen
    BY DEF LateChargeFrozen
  <2>1. CASE r = n
    BY <1>1, <1>2, <1>8, <2>1 DEF SameCharge, NotCharged
  <2>2. CASE r # n
    <3>1. lost'[r] = lost[r] /\ lost[r].issue # i
      BY <1>1, <1>2, <2>2
    <3>2. SameCharge(f)
      BY <1>8, <3>1
    <3>3. QED BY <3>1, <3>2 DEF LossInv, LateChargeFrozen, SameCharge
  <2>3. QED BY <2>1, <2>2
<1>12. QED BY <1>5, <1>6, <1>7, <1>9, <1>10, <1>11 DEF LossInv

\* A librarian confirms what the holder reported, at the figure frozen then.
LEMMA LossConfirmed ==
  ASSUME WellFormed, LossInv, NEW r \in LostIds, lost[r].st = "REPORTED",
         lost' = [lost EXCEPT ![r].st = "CONFIRMED"], UNCHANGED issue,
         Charged(lost[r].issue, lost[r].frozen, {"OVERDUE", "LOST"})
  PROVE  LossInv'
<1> DEFINE i == lost[r].issue
<1>1. i \in IssueIds /\ i # NULL
  BY LossRowsTyped DEF WellFormed, ReportsStand
<1>2. issue[i].st = "LOST" /\ \A x \in LostIds \ {r} : lost[x].issue = i => lost[x].st = "REJECTED"
  BY <1>1 DEF LossInv, LossesFollow, Stands
<1>3. NotCharged(i)
  BY <1>1, <1>2 DEF LossInv, ChargesFollow, NotCharged
<1>4. \A x \in LostIds : /\ lost'[x].issue = lost[x].issue /\ lost'[x].frozen = lost[x].frozen
                         /\ lost'[x].st = IF x = r THEN "CONFIRMED" ELSE lost[x].st
                         /\ lost'[x].turnedUp = lost[x].turnedUp
  BY LossRowsTyped DEF LostRow
<1>5. LateChargedOnce'
  BY <1>3, ChargedOnce DEF LossInv
<1>6. EmptyReports'
  BY <1>4 DEF LossInv, EmptyReports
<1>7. LossesFollow'
  BY <1>2, <1>4 DEF LossInv, LossesFollow, Stands
<1>8. ASSUME NEW f \in FineIds
      PROVE  \/ SameCharge(f)
             \/ /\ fine'[f].issue = i
                /\ fine'[f].kind = "OVERDUE" => fine'[f].amount = lost[r].frozen
  BY DEF Charged
<1>9. ChargesFollow'
  BY <1>2, <1>4, <1>8, <1>3, SMTT(20) DEF LossInv, ChargesFollow, SameCharge, NotCharged
<1>10. NoMoneyForRejectedLoss'
  BY <1>4, <1>8, SMTT(20) DEF LossInv, NoMoneyForRejectedLoss, SameCharge
<1>11. LateChargeFrozen'
  BY <1>2, <1>3, <1>4, <1>8, SMTT(20) DEF LossInv, LateChargeFrozen, SameCharge, NotCharged
<1>12. QED BY <1>5, <1>6, <1>7, <1>9, <1>10, <1>11 DEF LossInv

\* A report is rejected: its issue is open again, and nobody was charged for it.
LEMMA LossRejected ==
  ASSUME WellFormed, LossInv, NEW r \in LostIds, lost[r].st = "REPORTED",
         lost' = [lost EXCEPT ![r].st = "REJECTED"], ChargesStay,
         issue'[lost[r].issue].st = "ACTIVE",
         \A j \in IssueIds \ {lost[r].issue} : issue'[j].st = issue[j].st
  PROVE  LossInv'
<1> DEFINE i == lost[r].issue
<1>1. i \in IssueIds /\ i # NULL
  BY LossRowsTyped DEF WellFormed, ReportsStand
<1>2. issue[i].st = "LOST" /\ \A x \in LostIds \ {r} : lost[x].issue = i => lost[x].st = "REJECTED"
  BY <1>1 DEF LossInv, LossesFollow, Stands
<1>3. NotCharged(i)
  BY <1>1, <1>2 DEF LossInv, ChargesFollow, NotCharged
<1>4. \A x \in LostIds : /\ lost'[x].issue = lost[x].issue /\ lost'[x].frozen = lost[x].frozen
                         /\ lost'[x].st = IF x = r THEN "REJECTED" ELSE lost[x].st
                         /\ lost'[x].turnedUp = lost[x].turnedUp
  BY LossRowsTyped DEF LostRow
<1>5. LateChargedOnce'
  BY DEF LossInv, LateChargedOnce, ChargesStay
<1>6. EmptyReports'
  BY <1>4 DEF LossInv, EmptyReports
<1>7. LossesFollow'
  BY <1>1, <1>2, <1>4, LossRowsTyped DEF LossInv, LossesFollow, Stands
<1>8. ChargesFollow'
  BY <1>1, <1>3, <1>4, LossRowsTyped, SMTT(20) DEF LossInv, ChargesFollow, ChargesStay, NotCharged
<1>9. NoMoneyForRejectedLoss'
  BY <1>4, SMTT(20) DEF LossInv, NoMoneyForRejectedLoss, ChargesStay
<1>10. LateChargeFrozen'
  BY <1>4, SMTT(20) DEF LossInv, LateChargeFrozen, ChargesStay
<1>11. QED BY <1>5, <1>6, <1>7, <1>8, <1>9, <1>10 DEF LossInv

\* The handlers of a report, row by row.
LEMMA LoseIssueRows ==
  ASSUME WellFormed, NEW i \in IssueIds, NEW k, NEW report, LoseIssue(i, k, report)
  PROVE  /\ issue'[i].st = "LOST" /\ \A j \in IssueIds \ {i} : issue'[j] = issue[j]
         /\ issue'[i].copy = issue[i].copy /\ issue'[i].member = issue[i].member
         /\ copy' = [copy EXCEPT ![k] = "LOST"]
         /\ \E n \in LostIds : lost[n].st = "NONE" /\ lost' = [lost EXCEPT ![n] = report]
<1>1. issue' = [issue EXCEPT ![i].st = "LOST"] /\ Room(lost) /\ lost' = Insert(lost, report)
      /\ copy' = [copy EXCEPT ![k] = "LOST"]
  BY DEF LoseIssue, RetireCopy
<1>2. \E n \in LostIds : lost[n].st = "NONE" /\ lost' = [lost EXCEPT ![n] = report]
  BY <1>1, InsertFillsOne, LossRowsTyped
<1>3. QED BY <1>1, <1>2, LossRowsTyped DEF IssueRow

LEMMA MissingRows ==
  ASSUME WellFormed, NEW c \in Clerks, ReportMissingCommit(c)
  PROVE  \E n \in LostIds : /\ lost[n].st = "NONE" /\ lost[n].issue = NULL
                            /\ \A r \in LostIds \ {n} : lost'[r] = lost[r]
                            /\ lost'[n].st = "CONFIRMED" /\ lost'[n].issue = NULL
<1> DEFINE report == [NoLost EXCEPT !.st = "CONFIRMED", !.copy = tx[c].copy]
<1>1. report.st = "CONFIRMED" /\ report.issue = NULL
  BY DEF NoLost
<1>2. Room(lost) /\ lost' = Insert(lost, report)
  BY DEF ReportMissingCommit
<1> HIDE DEF report
<1>3. PICK n \in LostIds : lost[n].st = "NONE" /\ lost' = [lost EXCEPT ![n] = report]
  BY <1>2, InsertFillsOne, LossRowsTyped
<1>4. lost[n].issue = NULL
  BY <1>3 DEF WellFormed, ReportsStand
<1>5. QED BY <1>1, <1>3, <1>4, LossRowsTyped

LEMMA LossKept ==
  ASSUME OneClerk, WellFormed, AllFresh, LossInv, Charging, [Next]_vars
  PROVE  LossInv'
<1>1. CASE ChargesStay /\ UNCHANGED <<issue, lost>>
  BY <1>1, LossUntouched DEF ReportsGoOn
<1>2. ASSUME NEW c \in Clerks, DeskStep(c) PROVE LossInv'
  <2>0. UNCHANGED lost /\ ReportsGoOn
    BY <1>2, DeskLeaves DEF ReportsGoOn
  <2>1. CASE IssueCommit(c)
    <3> DEFINE row == [st |-> "ACTIVE", copy |-> tx[c].copy, member |-> tx[c].member,
                       due |-> tx[c].due, renewals |-> 0]
    <3>1. Room(issue) /\ issue' = Insert(issue, row)
      BY <2>1 DEF IssueCommit
    <3> HIDE DEF row
    <3>2. PICK n \in IssueIds : issue[n].st = "NONE" /\ issue' = [issue EXCEPT ![n] = row]
      BY <3>1, InsertFillsOne, LossRowsTyped
    <3>3. ChargesStay
      BY <2>1, WhoCharges DEF IssueCommit, Running
    <3>4. QED BY <2>0, <3>2, <3>3, LossUntouched, LossRowsTyped
  <2>2. CASE ReturnCommit(c)
    <3> DEFINE i == tx[c].issue
    <3>1. i \in IssueIds /\ issue[i].st = "ACTIVE"
      BY <2>2, FreshPlan, PlanFields DEF ReturnCommit, Running, Fresh, ActiveIssues
    <3>2. issue' = [issue EXCEPT ![i].st = "RETURNED"]
      BY <2>2 DEF ReturnCommit
    <3>3. issue'[i].st = "RETURNED" /\ \A j \in IssueIds \ {i} : issue'[j].st = issue[j].st
      BY <3>1, <3>2, LossRowsTyped DEF IssueRow
    <3>4. Charged(i, tx[c].late, {"OVERDUE"})
      BY <2>2, WhoCharges DEF ReturnCommit, Running
    <3>5. QED BY <2>0, <3>1, <3>3, <3>4, LossReturned
  <2>3. CASE RenewCommit(c)
    <3>1. tx[c].issue \in IssueIds /\ ChargesStay
      BY <2>3, FreshPlan, PlanFields, WhoCharges DEF RenewCommit, Running
    <3>2. \A i \in IssueIds : issue'[i].st = issue[i].st
      BY <2>3, <3>1, LossRowsTyped DEF RenewCommit, IssueRow
    <3>3. QED BY <2>0, <3>1, <3>2, LossUntouched
  <2>4. CASE VoidCommit(c)
    <3>1. tx[c].issue \in IssueIds /\ issue[tx[c].issue].st = "ACTIVE" /\ ChargesStay
      BY <2>4, FreshPlan, PlanFields, WhoCharges DEF VoidCommit, Running, Fresh, ActiveIssues
    <3>2. \A i \in IssueIds \ {tx[c].issue} : issue'[i] = issue[i]
      BY <2>4, <3>1, LossRowsTyped DEF VoidCommit
    <3>3. QED BY <2>0, <3>1, <3>2, LossUntouched
  <2>5. CASE IssueEvaluate(c) \/ ReserveQuota(c) \/ ReserveQueue(c) \/ ReserveCommit(c) \/ CancelCommit(c)
    <3>1. tx[c].op \notin {"return", "reportLost", "confirmLost"} /\ UNCHANGED issue
      BY <2>5 DEF IssueEvaluate, ReserveQuota, ReserveQueue, ReserveCommit, CancelCommit, Running, db
    <3>2. QED BY <1>1, <2>0, <3>1, WhoCharges
  <2>6. QED BY <1>2, <2>1, <2>2, <2>3, <2>4, <2>5 DEF DeskStep
<1>3. ASSUME NEW c \in Clerks, FinesStep(c) PROVE LossInv'
  <2>1. tx[c].op \notin {"return", "reportLost", "confirmLost"}
    BY <1>3 DEF FinesStep, PayCommit, WaiveCommit, Running
  <2>2. UNCHANGED <<issue, lost>>
    BY <1>3 DEF FinesStep, PayCommit, WaiveCommit
  <2>3. QED BY <1>1, <2>1, <2>2, WhoCharges
<1>4. ASSUME NEW c \in Clerks, LostStep(c) PROVE LossInv'
  <2>1. CASE ReportLostCommit(c)
    <3> DEFINE i == tx[c].issue
               report == [NoLost EXCEPT !.st = "CONFIRMED", !.copy = tx[c].copy,
                                        !.issue = tx[c].issue, !.frozen = tx[c].late]
    <3>1. i \in IssueIds /\ issue[i].st = "ACTIVE" /\ Charged(i, tx[c].late, {"OVERDUE", "LOST"})
      BY <2>1, FreshPlan, PlanFields, WhoCharges DEF ReportLostCommit, Running, Fresh, ActiveIssues
    <3>2. report.st = "CONFIRMED" /\ report.issue = i /\ report.frozen = tx[c].late /\ report.turnedUp = NULL
      BY DEF NoLost
    <3>3. LoseIssue(i, tx[c].copy, report)
      BY <2>1 DEF ReportLostCommit
    <3> HIDE DEF report
    <3>4. PICK n \in LostIds : lost[n].st = "NONE" /\ lost' = [lost EXCEPT ![n] = report]
      BY <3>1, <3>3, LoseIssueRows
    <3>5. issue'[i].st = "LOST" /\ \A j \in IssueIds \ {i} : issue'[j].st = issue[j].st
      BY <3>1, <3>3, LoseIssueRows
    <3>6. Charged(i, report.frozen, {"OVERDUE", "LOST"})
      BY <3>1, <3>2
    <3>7. QED BY <3>1, <3>2, <3>4, <3>5, <3>6, LossReported
  <2>2. CASE SelfReportLostCommit(c)
    <3> DEFINE i == tx[c].issue
               report == [NoLost EXCEPT !.st = "REPORTED", !.copy = tx[c].copy, !.self = TRUE,
                                        !.issue = tx[c].issue, !.frozen = tx[c].late]
    <3>1. i \in IssueIds /\ issue[i].st = "ACTIVE" /\ ChargesStay
      BY <2>2, FreshPlan, PlanFields, WhoCharges DEF SelfReportLostCommit, Running, Fresh, ActiveIssues
    <3>2. report.st = "REPORTED" /\ report.issue = i /\ report.turnedUp = NULL
      BY DEF NoLost
    <3>3. LoseIssue(i, tx[c].copy, report)
      BY <2>2 DEF SelfReportLostCommit
    <3> HIDE DEF report
    <3>4. PICK n \in LostIds : lost[n].st = "NONE" /\ lost' = [lost EXCEPT ![n] = report]
      BY <3>1, <3>3, LoseIssueRows
    <3>5. issue'[i].st = "LOST" /\ \A j \in IssueIds \ {i} : issue'[j].st = issue[j].st
      BY <3>1, <3>3, LoseIssueRows
    <3>6. QED BY <3>1, <3>2, <3>4, <3>5, LossReported
  <2>3. CASE ReportMissingCommit(c)
    <3>1. ChargesStay /\ UNCHANGED issue
      BY <2>3, WhoCharges DEF ReportMissingCommit, Running
    <3>2. ReportsGoOn
      BY <2>3, MissingRows DEF ReportsGoOn
    <3>3. QED BY <3>1, <3>2, LossUntouched
  <2>4. CASE ConfirmLostCommit(c)
    <3> DEFINE r == tx[c].report
    <3>1. r \in LostIds /\ lost[r].st = "REPORTED" /\ tx[c].late = lost[r].frozen
      BY <2>4, FreshPlan, PlanFields DEF ConfirmLostCommit, Running, Fresh
    <3>2. Charged(lost[r].issue, lost[r].frozen, {"OVERDUE", "LOST"})
      BY <2>4, <3>1, WhoCharges DEF ConfirmLostCommit, Running
    <3>3. lost' = [lost EXCEPT ![r].st = "CONFIRMED"] /\ UNCHANGED issue
      BY <2>4 DEF ConfirmLostCommit
    <3>4. QED BY <3>1, <3>2, <3>3, LossConfirmed
  <2>5. CASE RejectLostCommit(c)
    <3> DEFINE r == tx[c].report
               i == lost[r].issue
    <3>1. r \in LostIds /\ lost[r].st = "REPORTED" /\ ChargesStay
      BY <2>5, FreshPlan, PlanFields, WhoCharges DEF RejectLostCommit, Running, Fresh
    <3>2. i \in IssueIds
      BY <3>1, LossRowsTyped DEF WellFormed, ReportsStand
    <3>3. lost' = [lost EXCEPT ![r].st = "REJECTED"] /\ issue' = [issue EXCEPT ![i].st = "ACTIVE"]
      BY <2>5 DEF RejectLostCommit
    <3>4. issue'[i].st = "ACTIVE" /\ \A j \in IssueIds \ {i} : issue'[j].st = issue[j].st
      BY <3>2, <3>3, LossRowsTyped DEF IssueRow
    <3>5. QED BY <3>1, <3>3, <3>4, LossRejected
  <2>6. CASE PayLostCommit(c) \/ WriteOffLostCommit(c) \/ ReplaceInKindCommit(c) \/ FoundLostCommit(c)
    <3>1. PICK next \in {"SETTLED_PAID", "SETTLED_IN_KIND", "WRITTEN_OFF", "FOUND"} :
            Claim(tx[c].report, next)
      BY <2>6 DEF PayLostCommit, WriteOffLostCommit, ReplaceInKindCommit, FoundLostCommit
    <3>2. ChargesStay /\ UNCHANGED issue
      BY <2>6, WhoCharges DEF PayLostCommit, WriteOffLostCommit, ReplaceInKindCommit, FoundLostCommit,
                              Running
    <3>3. lost[tx[c].report].st = "CONFIRMED" /\ lost' = [lost EXCEPT ![tx[c].report].st = next]
      BY <3>1 DEF Claim
    <3>4. ReportsGoOn
      BY <3>3, LossRowsTyped DEF ReportsGoOn, LostRow
    <3>5. QED BY <3>2, <3>4, LossUntouched
  <2>7. CASE TurnedUpCommit(c) \/ MarkRefundedCommit(c)
    <3>1. tx[c].report \in LostIds
      BY <2>7, FreshPlan, PlanFields DEF TurnedUpCommit, MarkRefundedCommit, Running
    <3>2. ChargesStay /\ UNCHANGED issue
      BY <2>7, WhoCharges DEF TurnedUpCommit, MarkRefundedCommit, Running
    <3>3. \A r \in LostIds : /\ lost'[r].issue = lost[r].issue /\ lost'[r].frozen = lost[r].frozen
                             /\ lost'[r].st = lost[r].st
      BY <2>7, LossRowsTyped DEF TurnedUpCommit, MarkRefundedCommit, LostRow
    <3>4. \A r \in LostIds : lost[r].st = "NONE" => lost'[r].turnedUp = lost[r].turnedUp
      <4>1. CASE TurnedUpCommit(c)
        <5>1. lost[tx[c].report].st # "NONE"
          BY <4>1, FreshPlan DEF TurnedUpCommit, Running, Fresh
        <5>2. QED BY <4>1, <5>1, LossRowsTyped DEF TurnedUpCommit
      <4>2. CASE MarkRefundedCommit(c)
        BY <3>1, <4>2, LossRowsTyped DEF MarkRefundedCommit, LostRow
      <4>3. QED BY <2>7, <4>1, <4>2
    <3>5. QED BY <3>2, <3>3, <3>4, LossUntouched DEF ReportsGoOn
  <2>8. QED BY <1>4, <2>1, <2>2, <2>3, <2>4, <2>5, <2>6, <2>7 DEF LostStep
<1>5. CASE UNCHANGED db
  BY <1>1, <1>5 DEF db, ChargesStay
<1>6. QED BY <1>2, <1>3, <1>4, <1>5, StartsOnlyRead DEF Next, Abort, Tick, vars, db

----------------------------------------------------------------------------
(* Copies that turned up, and the marks of attendance.                      *)

\* What was decided about a copy that turned up is not decided again.
LEMMA DecisionStays ==
  ASSUME WellFormed, AllFresh, EmptyReports, [Next]_vars, NEW r \in LostIds, lost[r].turnedUp # NULL
  PROVE  lost'[r].turnedUp = lost[r].turnedUp
<1>1. ASSUME NEW c \in Clerks, LostStep(c) PROVE lost'[r].turnedUp = lost[r].turnedUp
  <2>1. ASSUME NEW i, NEW k, NEW report, LoseIssue(i, k, report)
        PROVE  lost'[r].turnedUp = lost[r].turnedUp
    <3>1. PICK n \in LostIds : lost[n].st = "NONE" /\ lost' = [lost EXCEPT ![n] = report]
      BY <2>1, InsertFillsOne, LossRowsTyped DEF LoseIssue
    <3>2. n # r
      BY <3>1 DEF EmptyReports
    <3>3. QED BY <3>1, <3>2
  <2>2. CASE ReportLostCommit(c) \/ SelfReportLostCommit(c)
    BY <2>1, <2>2 DEF ReportLostCommit, SelfReportLostCommit
  <2>3. CASE ReportMissingCommit(c)
    <3>1. PICK n \in LostIds : lost[n].st = "NONE" /\ \A x \in LostIds \ {n} : lost'[x] = lost[x]
      BY <2>3, MissingRows
    <3>2. QED BY <3>1 DEF EmptyReports
  <2>4. CASE \/ ConfirmLostCommit(c) \/ RejectLostCommit(c) \/ PayLostCommit(c) \/ WriteOffLostCommit(c)
             \/ ReplaceInKindCommit(c) \/ FoundLostCommit(c) \/ MarkRefundedCommit(c)
    <3>1. ASSUME NEW x, NEW st, lost' = [lost EXCEPT ![x].st = st]
          PROVE  lost'[r].turnedUp = lost[r].turnedUp
      BY <3>1, LossRowsTyped DEF LostRow
    <3>2. CASE MarkRefundedCommit(c)
      BY <3>2, LossRowsTyped DEF MarkRefundedCommit, LostRow
    <3>3. CASE ConfirmLostCommit(c) \/ RejectLostCommit(c)
      BY <3>1, <3>3 DEF ConfirmLostCommit, RejectLostCommit
    <3>4. QED BY <2>4, <3>1, <3>2, <3>3
              DEF PayLostCommit, WriteOffLostCommit, ReplaceInKindCommit, FoundLostCommit, Claim
  <2>5. CASE TurnedUpCommit(c)
    <3>1. tx[c].report # r
      BY <2>5, FreshPlan DEF TurnedUpCommit, Running, Fresh
    <3>2. QED BY <2>5, <3>1, LossRowsTyped DEF TurnedUpCommit
  <2>6. QED BY <1>1, <2>2, <2>3, <2>4, <2>5 DEF LostStep
<1>2. CASE UNCHANGED lost
  BY <1>2
<1>3. QED BY <1>1, <1>2, StartsOnlyRead, DeskLeaves, FinesLeave DEF Next, Tick, Abort, vars, db

\* A mark stands on an issue that was not undone.
Evidence(m, i) == issue[i].st \in {"ACTIVE", "RETURNED", "LOST"} /\ issue[i].member = m
EvidenceInv == \A m \in present : \E i \in IssueIds : Evidence(m, i)

\* Only undoing an issue takes evidence away.
LEMMA EvidenceStays ==
  ASSUME WellFormed, EvidenceInv, UNCHANGED present,
         \A i \in IssueIds : /\ issue'[i].member = issue[i].member
                             /\ issue'[i].st = issue[i].st \/ issue'[i].st \in {"ACTIVE", "RETURNED", "LOST"}
  PROVE  EvidenceInv'
BY DEF EvidenceInv, Evidence

LEMMA EvidenceKept ==
  ASSUME WellFormed, AllFresh, EvidenceInv, [Next]_vars
  PROVE  EvidenceInv'
<1>1. CASE UNCHANGED <<issue, present>>
  BY <1>1, EvidenceStays
<1>2. ASSUME NEW c \in Clerks, NEW i \in IssueIds, NEW st \in {"ACTIVE", "RETURNED", "LOST"},
             issue' = [issue EXCEPT ![i].st = st], UNCHANGED present
      PROVE  EvidenceInv'
  BY <1>2, EvidenceStays, LossRowsTyped DEF IssueRow
<1>3. ASSUME NEW c \in Clerks, DeskStep(c) PROVE EvidenceInv'
  <2>1. CASE IssueCommit(c)
    <3> DEFINE row == [st |-> "ACTIVE", copy |-> tx[c].copy, member |-> tx[c].member,
                       due |-> tx[c].due, renewals |-> 0]
    <3>1. /\ Room(issue) /\ issue' = Insert(issue, row)
          /\ row.st = "ACTIVE" /\ row.member = tx[c].member
          /\ present' = present \cup ({tx[c].member} \cap InVisit)
      BY <2>1 DEF IssueCommit
    <3> HIDE DEF row
    <3>2. PICK n \in IssueIds : issue[n].st = "NONE" /\ issue' = [issue EXCEPT ![n] = row]
      BY <3>1, InsertFillsOne, LossRowsTyped
    <3>3. \A i \in IssueIds : issue'[i] = IF i = n THEN row ELSE issue[i]
      BY <3>2, LossRowsTyped
    <3>4. ASSUME NEW m \in present' PROVE \E i \in IssueIds : Evidence(m, i)'
      <4>1. CASE m = tx[c].member
        BY <3>1, <3>3, <4>1 DEF Evidence
      <4>2. CASE m \in present
        <5>1. PICK i \in IssueIds : Evidence(m, i)
          BY <4>2 DEF EvidenceInv
        <5>2. i # n
          BY <3>2, <5>1 DEF Evidence
        <5>3. QED BY <3>3, <5>1, <5>2 DEF Evidence
      <4>3. QED BY <3>1, <4>1, <4>2
    <3>5. QED BY <3>4 DEF EvidenceInv
  <2>2. CASE ReturnCommit(c)
    BY <1>2, <2>2, FreshPlan, PlanFields DEF ReturnCommit, Running
  <2>3. CASE RenewCommit(c)
    <3>1. \A i \in IssueIds : issue'[i].member = issue[i].member /\ issue'[i].st = issue[i].st
      BY <2>3, FreshPlan, PlanFields, LossRowsTyped DEF RenewCommit, Running, IssueRow
    <3>2. QED BY <2>3, <3>1, EvidenceStays DEF RenewCommit
  <2>4. CASE VoidCommit(c)
    <3> DEFINE u == tx[c].issue
               m == tx[c].member
    <3>1. /\ u \in IssueIds /\ issue[u].member = m
          /\ tx[c].alone <=> LoansOf(m) \subseteq {u}
      BY <2>4, FreshPlan, PlanFields DEF VoidCommit, Running, Fresh
    <3>2. \A i \in IssueIds \ {u} : issue'[i] = issue[i]
      BY <2>4, <3>1, LossRowsTyped DEF VoidCommit
    <3>3. present' = IF tx[c].alone THEN present \ {m} ELSE present
      BY <2>4 DEF VoidCommit
    <3>4. ASSUME NEW x \in present' PROVE \E i \in IssueIds : Evidence(x, i)'
      <4>1. x \in present
        BY <3>3, <3>4
      <4>2. CASE x = m
        <5>1. PICK i \in IssueIds \ {u} : issue[i].st = "ACTIVE" /\ issue[i].member = m
          BY <3>1, <3>3, <3>4, <4>2 DEF LoansOf
        <5>2. QED BY <3>2, <4>2, <5>1 DEF Evidence
      <4>3. CASE x # m
        <5>1. PICK i \in IssueIds : Evidence(x, i)
          BY <4>1 DEF EvidenceInv
        <5>2. i # u
          BY <3>1, <4>3, <5>1 DEF Evidence
        <5>3. QED BY <3>2, <5>1, <5>2 DEF Evidence
      <4>4. QED BY <4>2, <4>3
    <3>5. QED BY <3>4 DEF EvidenceInv
  <2>5. CASE IssueEvaluate(c) \/ ReserveQuota(c) \/ ReserveQueue(c) \/ ReserveCommit(c) \/ CancelCommit(c)
    BY <1>1, <2>5 DEF IssueEvaluate, ReserveQuota, ReserveQueue, ReserveCommit, CancelCommit, db
  <2>6. QED BY <1>3, <2>1, <2>2, <2>3, <2>4, <2>5 DEF DeskStep
<1>4. ASSUME NEW c \in Clerks, LostStep(c) PROVE EvidenceInv'
  <2>0. UNCHANGED present
    BY <1>4, LostLeaves
  <2>1. CASE ReportLostCommit(c) \/ SelfReportLostCommit(c)
    BY <1>2, <2>0, <2>1, FreshPlan, PlanFields
       DEF ReportLostCommit, SelfReportLostCommit, Running, LoseIssue
  <2>2. CASE RejectLostCommit(c)
    <3>1. lost[tx[c].report].issue \in IssueIds
      BY <2>2, FreshPlan, PlanFields, LossRowsTyped
         DEF RejectLostCommit, Running, WellFormed, PlansStand, PlanStands
    <3>2. QED BY <1>2, <2>0, <2>2, <3>1 DEF RejectLostCommit
  <2>3. CASE \/ ReportMissingCommit(c) \/ ConfirmLostCommit(c) \/ PayLostCommit(c)
             \/ WriteOffLostCommit(c) \/ ReplaceInKindCommit(c) \/ FoundLostCommit(c)
             \/ TurnedUpCommit(c) \/ MarkRefundedCommit(c)
    BY <1>1, <2>0, <2>3
       DEF ReportMissingCommit, ConfirmLostCommit, PayLostCommit, WriteOffLostCommit,
           ReplaceInKindCommit, FoundLostCommit, TurnedUpCommit, MarkRefundedCommit
  <2>4. QED BY <1>4, <2>1, <2>2, <2>3 DEF LostStep
<1>5. QED BY <1>1, <1>3, <1>4, StartsOnlyRead, FinesLeave DEF Next, Tick, Abort, vars, db

----------------------------------------------------------------------------
(* Copies, and the issues, holds and reports they are in.                   *)

\* The status of a copy says which row holds it, and no two rows hold it.  A copy
\* that is missed at stock verification may still be on hold for somebody.
Agrees(k) ==
  /\ copy[k] = "ISSUED" <=> ActiveIssues(k) # {}
  /\ copy[k] = "RESERVED_SHELF" => ReadyOn(k) # {}
  /\ ReadyOn(k) # {} => \/ copy[k] = "RESERVED_SHELF"
                        \/ copy[k] = "LOST" /\ "reportMissing" \in Routes
  /\ \A i, j \in ActiveIssues(k) : i = j
  /\ \A h, g \in ReadyOn(k) : h = g
Shelf ==
  /\ \A k \in Copies : Agrees(k)
  /\ \A h \in ResvIds : resv[h].st = "READY" => resv[h].copy \in Copies

\* A report of an issue that can still put its copy back on the shelf.
Retiring(r) ==
  /\ lost[r].issue # NULL
  /\ \/ lost[r].st \in {"REPORTED", "CONFIRMED"}
     \/ lost[r].st = "SETTLED_PAID" /\ lost[r].turnedUp = NULL

\* It is the only one for its copy, which is out of circulation and is the copy of
\* its issue; a report of no issue comes from stock verification and is never settled.
Retired ==
  /\ \A r \in LostIds : Retiring(r) => /\ lost[r].copy \in Copies /\ copy[lost[r].copy] = "LOST"
                                       /\ ReadyOn(lost[r].copy) = {}
  /\ \A r, x \in LostIds : Retiring(r) /\ Retiring(x) /\ lost[r].copy = lost[x].copy => r = x
  /\ \A r \in LostIds : lost[r].issue # NULL => lost[r].copy = issue[lost[r].issue].copy
  /\ \A r \in LostIds : lost[r].issue = NULL =>
       lost[r].st = "NONE" \/ (lost[r].st = "CONFIRMED" /\ "reportMissing" \in Routes)

ShelfInv == Shelf /\ Retired

\* What a step must leave alone at a copy it does not touch.
SameAt(x) ==
  /\ copy'[x] = copy[x]
  /\ \A i \in IssueIds : (issue'[i].st = "ACTIVE" /\ issue'[i].copy = x)
                            <=> (issue[i].st = "ACTIVE" /\ issue[i].copy = x)
  /\ \A h \in ResvIds : (resv'[h].st = "READY" /\ resv'[h].copy = x)
                           <=> (resv[h].st = "READY" /\ resv[h].copy = x)

LEMMA SameAgrees ==
  ASSUME NEW x \in Copies, Agrees(x), SameAt(x)
  PROVE  Agrees(x)'
<1>1. ActiveIssues(x)' = ActiveIssues(x)
  BY DEF SameAt, ActiveIssues
<1>2. ReadyOn(x)' = ReadyOn(x)
  BY DEF SameAt, ReadyOn
<1>3. QED BY <1>1, <1>2 DEF Agrees, SameAt

\* One copy changes hands.
LEMMA ShelfKept ==
  ASSUME Shelf, NEW k \in Copies, Agrees(k)', \A x \in Copies \ {k} : SameAt(x),
         \A h \in ResvIds : resv'[h].st = "READY" => resv'[h].copy \in Copies
  PROVE  Shelf'
BY SameAgrees DEF Shelf

\* No copy does.
LEMMA ShelfSame ==
  ASSUME Shelf, UNCHANGED <<copy, issue, resv>>
  PROVE  Shelf'
BY DEF Shelf, Agrees, ActiveIssues, ReadyOn

\* Desk requests only move copies that are not lost, or that somebody held.
LEMMA RetiredKept ==
  ASSUME WellFormed, Retired, UNCHANGED lost,
         \A k \in Copies : copy[k] = "LOST" /\ ReadyOn(k) = {} =>
           copy'[k] = "LOST" /\ \A h \in ResvIds : ~(resv'[h].st = "READY" /\ resv'[h].copy = k),
         \A i \in IssueIds : issue[i].st \in {"ACTIVE", "RETURNED", "LOST"}
                               /\ (\E r \in LostIds : lost[r].issue = i)
                               => issue'[i].copy = issue[i].copy
  PROVE  Retired'
<1>1. \A r \in LostIds : Retiring(r)' <=> Retiring(r)
  BY DEF Retiring
<1>2. \A r \in LostIds : Retiring(r) => /\ lost[r].copy \in Copies /\ copy'[lost[r].copy] = "LOST"
                                        /\ ReadyOn(lost[r].copy)' = {}
  BY DEF Retired, ReadyOn
<1>3. \A r \in LostIds : lost[r].issue # NULL => lost[r].copy = issue'[lost[r].issue].copy
  BY LossRowsTyped DEF Retired, WellFormed, ReportsStand
<1>4. QED BY <1>1, <1>2, <1>3 DEF Retired

LEMMA ShelfRows ==
  ASSUME ShelfInv, NEW k \in Copies
  PROVE  /\ \A i \in IssueIds : issue[i].st = "ACTIVE" /\ issue[i].copy = k => copy[k] = "ISSUED"
         /\ \A h \in ResvIds : resv[h].st = "READY" /\ resv[h].copy = k =>
              copy[k] \in {"RESERVED_SHELF", "LOST"}
         /\ copy[k] = "ISSUED" =>
              \E i \in IssueIds : issue[i].st = "ACTIVE" /\ issue[i].copy = k
         /\ copy[k] = "RESERVED_SHELF" =>
              \E h \in ResvIds : resv[h].st = "READY" /\ resv[h].copy = k
         /\ \A i, j \in IssueIds : (/\ issue[i].st = "ACTIVE" /\ issue[i].copy = k
                                    /\ issue[j].st = "ACTIVE" /\ issue[j].copy = k) => i = j
         /\ \A h, g \in ResvIds : (/\ resv[h].st = "READY" /\ resv[h].copy = k
                                   /\ resv[g].st = "READY" /\ resv[g].copy = k) => h = g
<1>1. Agrees(k)
  BY DEF ShelfInv, Shelf
<1>2. QED BY <1>1 DEF Agrees, ActiveIssues, ReadyOn

\* A copy is issued: one that is free, or one that is held for the member.
LEMMA ShelfIssue ==
  ASSUME WellFormed, AllFresh, ShelfInv, NEW c \in Clerks, IssueCommit(c)
  PROVE  ShelfInv'
<1> DEFINE row == [st |-> "ACTIVE", copy |-> tx[c].copy, member |-> tx[c].member,
                   due |-> tx[c].due, renewals |-> 0]
<1>1. PICK k \in Copies : k = tx[c].copy
  BY FreshPlan, PlanFields DEF IssueCommit, Running
<1>2. PICK g : g = tx[c].hold
  OBVIOUS
<1>3. /\ g \in ResvIds \cup {NULL}
      /\ IF g = NULL THEN copy[k] = "AVAILABLE"
         ELSE copy[k] = "RESERVED_SHELF" /\ resv[g].st = "READY" /\ resv[g].copy = k
  BY <1>1, <1>2, FreshPlan, PlanFields DEF IssueCommit, Running, Fresh, ReadyOn
<1>4. /\ Room(issue) /\ issue' = Insert(issue, row) /\ row.st = "ACTIVE" /\ row.copy = k
      /\ copy' = [copy EXCEPT ![k] = "ISSUED"] /\ UNCHANGED lost
      /\ resv' = IF g = NULL THEN resv
                 ELSE [resv EXCEPT ![g].st = "COLLECTED", ![g].turn = LastTurn(k) + 1]
  BY <1>1, <1>2 DEF IssueCommit
<1> HIDE DEF row
<1>5. PICK n \in IssueIds : issue[n].st = "NONE" /\ issue' = [issue EXCEPT ![n] = row]
  BY <1>4, InsertFillsOne, LossRowsTyped
<1>6. \A i \in IssueIds : issue'[i] = IF i = n THEN row ELSE issue[i]
  BY <1>5, LossRowsTyped
<1>7. \A h \in ResvIds : /\ resv'[h].copy = resv[h].copy
                         /\ resv'[h].st = IF h = g THEN "COLLECTED" ELSE resv[h].st
  <2>1. CASE g = NULL
    BY <1>4, <2>1, NullAssumption
  <2>2. CASE g \in ResvIds
    <3>1. g # NULL
      BY <2>2, NullAssumption
    <3>2. resv' = [resv EXCEPT ![g].st = "COLLECTED", ![g].turn = LastTurn(k) + 1]
      BY <1>4, <3>1
    <3>3. QED BY <2>2, <3>2, LossRowsTyped DEF ResvRow
  <2>3. QED BY <1>3, <2>1, <2>2
<1>8. copy'[k] = "ISSUED" /\ \A x \in Copies \ {k} : copy'[x] = copy[x]
  BY <1>4, LossRowsTyped
<1>9. \A x \in Copies \ {k} : SameAt(x)
  BY <1>3, <1>4, <1>5, <1>6, <1>7, <1>8 DEF SameAt
<1>10. Agrees(k)'
  <2>1. ActiveIssues(k)' = {n}
    BY <1>3, <1>4, <1>6, ShelfRows DEF ActiveIssues
  <2>2. ReadyOn(k)' = {}
    BY <1>3, <1>7, ShelfRows DEF ReadyOn
  <2>3. QED BY <1>8, <2>1, <2>2 DEF Agrees
<1>11. Shelf'
  BY <1>7, <1>9, <1>10, ShelfKept DEF ShelfInv, Shelf
<1>12. Retired'
  <2>1. \A x \in Copies : ReadyOn(x) = {} => \A h \in ResvIds : ~(resv'[h].st = "READY" /\ resv'[h].copy = x)
    BY <1>7 DEF ReadyOn
  <2>2. \A x \in Copies : copy[x] = "LOST" => copy'[x] = "LOST"
    BY <1>3, <1>8
  <2>3. QED BY <1>4, <1>5, <1>6, <2>1, <2>2, RetiredKept DEF ShelfInv
<1>13. QED BY <1>11, <1>12 DEF ShelfInv

\* A book comes back: lapsed holds free their copies, and its own copy goes to
\* the next in the queue or on the shelf.
LEMMA ShelfReturn ==
  ASSUME WellFormed, AllFresh, ShelfInv, NEW c \in Clerks, ReturnCommit(c)
  PROVE  ShelfInv'
<1>1. PICK k \in Copies : k = tx[c].copy
  BY FreshPlan, PlanFields DEF ReturnCommit, Running
<1>2. PICK i \in IssueIds : i = tx[c].issue
  BY FreshPlan, PlanFields DEF ReturnCommit, Running
<1>3. issue[i].st = "ACTIVE" /\ issue[i].copy = k /\ copy[k] = "ISSUED"
  <2>1. i \in ActiveIssues(k)
    BY <1>1, <1>2, FreshPlan DEF ReturnCommit, Running, Fresh
  <2>2. QED BY <2>1, ShelfRows DEF ActiveIssues
<1>4. PICK L : L = Lapsed(TitleOf[k], tx[c].at)
  OBVIOUS
<1>5. PICK next : /\ next = NULL \/ (next \in ResvIds /\ resv[next].st = "PENDING")
                  /\ resv' = [h \in ResvIds |->
                                IF h \in L THEN [resv[h] EXCEPT !.st = "EXPIRED"]
                                ELSE IF h = next THEN Promoted(h, k, tx[c].at) ELSE resv[h]]
                  /\ copy' = [x \in Copies |->
                                IF x = k THEN IF next = NULL THEN "AVAILABLE" ELSE "RESERVED_SHELF"
                                ELSE IF x \in {resv[h].copy : h \in L} THEN "AVAILABLE" ELSE copy[x]]
  BY <1>1, <1>4 DEF ReturnCommit, PromoteOrRelease, FirstInQueue, PendingOn
<1>6. \A h \in L : h \in ResvIds /\ resv[h].st = "READY"
  BY <1>4 DEF Lapsed
<1>7. \A h \in ResvIds :
        /\ h \in L => resv'[h].st = "EXPIRED" /\ resv'[h].copy = resv[h].copy
        /\ h \notin L /\ h = next => resv'[h].st = "READY" /\ resv'[h].copy = k
        /\ h \notin L /\ h # next => resv'[h] = resv[h]
  BY <1>5, LossRowsTyped DEF Promoted, ResvRow
<1>8. \A j \in IssueIds : /\ issue'[j].copy = issue[j].copy
                          /\ issue'[j].st = IF j = i THEN "RETURNED" ELSE issue[j].st
  BY <1>2, LossRowsTyped DEF ReturnCommit, IssueRow
<1>9. \A h \in ResvIds : resv[h].st = "READY" => resv[h].copy \in Copies \ {k}
  BY <1>3, ShelfRows DEF ShelfInv, Shelf
<1>10. ASSUME NEW x \in Copies, x = k PROVE Agrees(x)'
  <2>1. ActiveIssues(x)' = {}
    BY <1>3, <1>8, <1>10, ShelfRows DEF ActiveIssues
  <2>2. ReadyOn(x)' = {h \in ResvIds : h = next}
    <3>1. ASSUME NEW h \in ResvIds PROVE (resv'[h].st = "READY" /\ resv'[h].copy = x) <=> h = next
      <4>1. CASE h \in L
        BY <1>5, <1>6, <1>7, <4>1, NullAssumption
      <4>2. CASE h \notin L
        BY <1>7, <1>9, <1>10, <4>2
      <4>3. QED BY <4>1, <4>2
    <3>2. QED BY <3>1 DEF ReadyOn
  <2>3. copy'[x] = IF next = NULL THEN "AVAILABLE" ELSE "RESERVED_SHELF"
    BY <1>5, <1>10
  <2>4. QED BY <1>5, <2>1, <2>2, <2>3, NullAssumption DEF Agrees
<1>11. ASSUME NEW x \in Copies, x # k, NEW g \in L, resv[g].copy = x PROVE Agrees(x)'
  <2>1. copy[x] # "ISSUED" /\ \A h \in ResvIds :
          resv[h].st = "READY" /\ resv[h].copy = x => h = g
    BY <1>6, <1>11, ShelfRows
  <2>2. ReadyOn(x)' = {}
    BY <1>7, <1>11, <2>1 DEF ReadyOn
  <2>3. ActiveIssues(x)' = {}
    BY <1>3, <1>8, <1>11, <2>1, ShelfRows DEF ActiveIssues
  <2>4. copy'[x] = "AVAILABLE"
    BY <1>5, <1>11
  <2>5. QED BY <2>2, <2>3, <2>4 DEF Agrees
<1>12. ASSUME NEW x \in Copies, x # k, \A g \in L : resv[g].copy # x PROVE Agrees(x)'
  <2>1. copy'[x] = copy[x]
    BY <1>5, <1>12
  <2>2. SameAt(x)
    <3>1. ASSUME NEW h \in ResvIds
          PROVE  (resv'[h].st = "READY" /\ resv'[h].copy = x)
                   <=> (resv[h].st = "READY" /\ resv[h].copy = x)
      <4>1. CASE h \in L
        BY <1>7, <1>12, <4>1
      <4>2. CASE h \notin L /\ h = next
        BY <1>5, <1>7, <1>12, <4>2, NullAssumption
      <4>3. CASE h \notin L /\ h # next
        BY <1>7, <4>3
      <4>4. QED BY <4>1, <4>2, <4>3
    <3>2. \A j \in IssueIds : (issue'[j].st = "ACTIVE" /\ issue'[j].copy = x)
                                <=> (issue[j].st = "ACTIVE" /\ issue[j].copy = x)
      BY <1>3, <1>8, <1>12
    <3>3. QED BY <2>1, <3>1, <3>2 DEF SameAt
  <2>3. QED BY <2>2, SameAgrees DEF ShelfInv, Shelf
<1>13. Shelf'
  BY <1>5, <1>7, <1>9, <1>10, <1>11, <1>12 DEF Shelf
<1>14. ASSUME NEW x \in Copies, copy[x] = "LOST", ReadyOn(x) = {}
       PROVE  copy'[x] = "LOST" /\ \A h \in ResvIds : ~(resv'[h].st = "READY" /\ resv'[h].copy = x)
  <2>1. x # k /\ \A h \in ResvIds : ~(resv[h].st = "READY" /\ resv[h].copy = x)
    BY <1>3, <1>14 DEF ReadyOn
  <2>2. x \notin {resv[h].copy : h \in L}
    BY <1>6, <2>1
  <2>3. QED BY <1>5, <1>7, <1>14, <2>1, <2>2
<1>15. UNCHANGED lost
  BY DEF ReturnCommit
<1>16. QED BY <1>8, <1>13, <1>14, <1>15, RetiredKept DEF ShelfInv

\* An issue is undone: its copy is free again, or held for who collected it.
LEMMA ShelfVoid ==
  ASSUME WellFormed, AllFresh, ShelfInv, NEW c \in Clerks, VoidCommit(c)
  PROVE  ShelfInv'
<1>1. PICK k \in Copies : k = tx[c].copy
  BY FreshPlan, PlanFields DEF VoidCommit, Running
<1>2. PICK i \in IssueIds : i = tx[c].issue
  BY FreshPlan, PlanFields DEF VoidCommit, Running
<1>3. PICK g \in ResvIds \cup {NULL} : g = tx[c].hold
  BY FreshPlan, PlanFields DEF VoidCommit, Running
<1>4. /\ issue[i].st = "ACTIVE" /\ issue[i].copy = k /\ \A r \in LostIds : lost[r].issue # i
      /\ g # NULL => resv[g].st = "COLLECTED" /\ resv[g].copy = k
  BY <1>1, <1>2, <1>3, FreshPlan DEF VoidCommit, Running, Fresh, ActiveIssues, LastCollected
<1>5. copy[k] = "ISSUED" /\ \A j \in IssueIds : issue[j].st = "ACTIVE" /\ issue[j].copy = k => j = i
  BY <1>4, ShelfRows
<1>6. \A h \in ResvIds : ~(resv[h].st = "READY" /\ resv[h].copy = k)
  BY <1>5, ShelfRows
<1>7. issue' = [issue EXCEPT ![i] = [NoIssue EXCEPT !.st = "DELETED"]] /\ UNCHANGED lost
  BY <1>2 DEF VoidCommit
<1>8. issue'[i].st = "DELETED" /\ \A j \in IssueIds \ {i} : issue'[j] = issue[j]
  BY <1>7, LossRowsTyped DEF NoIssue
<1>9. \A x \in Copies : copy'[x] = IF x # k THEN copy[x]
                                   ELSE IF g = NULL THEN "AVAILABLE" ELSE "RESERVED_SHELF"
  BY <1>1, <1>3, LossRowsTyped DEF VoidCommit
<1>10. \A h \in ResvIds : /\ resv'[h].copy = resv[h].copy
                          /\ resv'[h].st = IF h = g THEN "READY" ELSE resv[h].st
  <2>1. CASE g = NULL
    BY <1>3, <2>1, NullAssumption DEF VoidCommit
  <2>2. CASE g # NULL
    BY <1>3, <2>2, LossRowsTyped DEF VoidCommit, ResvRow
  <2>3. QED BY <2>1, <2>2
<1>11. ActiveIssues(k)' = {}
  BY <1>5, <1>8 DEF ActiveIssues
<1>12. ReadyOn(k)' = {h \in ResvIds : h = g}
  <2>1. \A h \in ResvIds : (resv'[h].st = "READY" /\ resv'[h].copy = k) <=> h = g
    BY <1>4, <1>6, <1>10, NullAssumption
  <2>2. QED BY <2>1 DEF ReadyOn
<1>13. Agrees(k)'
  BY <1>9, <1>11, <1>12, NullAssumption DEF Agrees
<1>14. \A x \in Copies \ {k} : SameAt(x)
  BY <1>4, <1>8, <1>9, <1>10, NullAssumption DEF SameAt
<1>15. \A h \in ResvIds : resv'[h].st = "READY" => resv'[h].copy \in Copies
  BY <1>4, <1>10, NullAssumption DEF ShelfInv, Shelf
<1>16. Retired'
  <2>1. \A x \in Copies : copy[x] = "LOST" => x # k /\ copy'[x] = "LOST"
    BY <1>5, <1>9
  <2>2. \A x \in Copies \ {k} : ReadyOn(x) = {} =>
          \A h \in ResvIds : ~(resv'[h].st = "READY" /\ resv'[h].copy = x)
    BY <1>4, <1>10, NullAssumption DEF ReadyOn
  <2>3. QED BY <1>4, <1>7, <1>8, <2>1, <2>2, RetiredKept DEF ShelfInv
<1>17. QED BY <1>13, <1>14, <1>15, <1>16, ShelfKept DEF ShelfInv

\* A reservation that joins the queue holds no copy; one that is cancelled frees its own.
LEMMA ShelfReserve ==
  ASSUME WellFormed, ShelfInv, NEW c \in Clerks, ReserveCommit(c)
  PROVE  ShelfInv'
<1> DEFINE row == [NoResv EXCEPT !.st = "PENDING", !.title = tx[c].title,
                                 !.member = tx[c].member, !.pos = tx[c].pos]
<1>1. Room(resv) /\ resv' = Insert(resv, row) /\ row.st = "PENDING"
  BY DEF ReserveCommit, NoResv
<1> HIDE DEF row
<1>2. PICK n \in ResvIds : resv[n].st = "NONE" /\ resv' = [resv EXCEPT ![n] = row]
  BY <1>1, InsertFillsOne, LossRowsTyped
<1>3. \A h \in ResvIds : (resv'[h].st = "READY" <=> resv[h].st = "READY")
                         /\ (resv[h].st = "READY" => resv'[h].copy = resv[h].copy)
  BY <1>1, <1>2, LossRowsTyped
<1>4. UNCHANGED <<copy, issue, lost>>
  BY DEF ReserveCommit
<1>5. \A x \in Copies : SameAt(x)
  BY <1>3, <1>4 DEF SameAt
<1>6. Shelf'
  BY <1>3, <1>5, SameAgrees DEF ShelfInv, Shelf
<1>7. \A x \in Copies : ReadyOn(x) = {} => \A h \in ResvIds : ~(resv'[h].st = "READY" /\ resv'[h].copy = x)
  BY <1>3 DEF ReadyOn
<1>8. QED BY <1>4, <1>6, <1>7, RetiredKept DEF ShelfInv

LEMMA ShelfCancel ==
  ASSUME WellFormed, AllFresh, ShelfInv, NEW c \in Clerks, CancelCommit(c)
  PROVE  ShelfInv'
<1>1. PICK g \in ResvIds : g = tx[c].hold
  BY FreshPlan, PlanFields DEF CancelCommit, Running
<1>2. /\ resv[g].st \in {"PENDING", "READY"}
      /\ tx[c].copy = IF resv[g].st = "READY" THEN resv[g].copy ELSE NULL
  BY <1>1, FreshPlan DEF CancelCommit, Running, Fresh
<1>3. /\ resv' = [resv EXCEPT ![g].st = "CANCELLED"] /\ UNCHANGED <<issue, lost>>
      /\ copy' = IF tx[c].copy = NULL THEN copy ELSE [copy EXCEPT ![tx[c].copy] = "AVAILABLE"]
  BY <1>1 DEF CancelCommit
<1>4. \A h \in ResvIds : /\ resv'[h].copy = resv[h].copy
                         /\ resv'[h].st = IF h = g THEN "CANCELLED" ELSE resv[h].st
  BY <1>3, LossRowsTyped DEF ResvRow
<1>5. \A h \in ResvIds : resv'[h].st = "READY" => resv'[h].copy \in Copies
  BY <1>4 DEF ShelfInv, Shelf
<1>6. CASE resv[g].st = "PENDING"
  <2>1. UNCHANGED copy
    BY <1>2, <1>3, <1>6
  <2>2. \A x \in Copies : SameAt(x)
    BY <1>3, <1>4, <1>6, <2>1 DEF SameAt
  <2>3. Shelf'
    BY <1>5, <2>2, SameAgrees DEF ShelfInv, Shelf
  <2>4. Retired'
    BY <1>3, <1>4, <2>1, RetiredKept DEF ShelfInv, ReadyOn
  <2>5. QED BY <2>3, <2>4 DEF ShelfInv
<1>7. CASE resv[g].st = "READY"
  <2>1. PICK k \in Copies : k = resv[g].copy
    BY <1>7 DEF ShelfInv, Shelf
  <2>2. copy' = [copy EXCEPT ![k] = "AVAILABLE"]
    BY <1>2, <1>3, <1>7, <2>1, NullAssumption
  <2>3. copy'[k] = "AVAILABLE" /\ \A x \in Copies \ {k} : copy'[x] = copy[x]
    BY <2>2, LossRowsTyped
  <2>4. /\ g \in ReadyOn(k)
        /\ \A h \in ResvIds : resv[h].st = "READY" /\ resv[h].copy = k => h = g
        /\ \A i \in IssueIds : ~(issue[i].st = "ACTIVE" /\ issue[i].copy = k)
    BY <1>7, <2>1, ShelfRows DEF ReadyOn
  <2>5. ActiveIssues(k)' = {} /\ ReadyOn(k)' = {}
    BY <1>3, <1>4, <2>4 DEF ActiveIssues, ReadyOn
  <2>6. Agrees(k)'
    BY <2>3, <2>5 DEF Agrees
  <2>7. \A x \in Copies \ {k} : SameAt(x)
    BY <1>3, <1>4, <2>1, <2>3 DEF SameAt
  <2>8. Retired'
    <3>1. \A x \in Copies : ReadyOn(x) = {} => x # k /\ \A h \in ResvIds :
                                 ~(resv'[h].st = "READY" /\ resv'[h].copy = x)
      BY <1>4, <2>4 DEF ReadyOn
    <3>2. QED BY <1>3, <2>3, <3>1, RetiredKept DEF ShelfInv
  <2>9. QED BY <1>5, <2>6, <2>7, <2>8, ShelfKept DEF ShelfInv
<1>8. QED BY <1>2, <1>6, <1>7

\* A book on loan is reported lost.
LEMMA ShelfLose ==
  ASSUME WellFormed, ShelfInv, NEW i \in IssueIds, NEW k \in Copies,
         issue[i].st = "ACTIVE", issue[i].copy = k, NEW report, report.issue = i, report.copy = k,
         LoseIssue(i, k, report), UNCHANGED resv
  PROVE  ShelfInv'
<1>1. PICK n \in LostIds : lost[n].st = "NONE" /\ lost' = [lost EXCEPT ![n] = report]
  BY LoseIssueRows
<1>2. /\ issue'[i].st = "LOST" /\ \A j \in IssueIds \ {i} : issue'[j] = issue[j]
      /\ issue'[i].copy = issue[i].copy
  BY LoseIssueRows
<1>3. copy'[k] = "LOST" /\ \A x \in Copies \ {k} : copy'[x] = copy[x]
  BY LoseIssueRows, LossRowsTyped
<1>4. /\ copy[k] = "ISSUED"
      /\ \A j \in IssueIds : issue[j].st = "ACTIVE" /\ issue[j].copy = k => j = i
      /\ \A h \in ResvIds : ~(resv[h].st = "READY" /\ resv[h].copy = k)
  BY ShelfRows
<1>5. ActiveIssues(k)' = {} /\ ReadyOn(k)' = {}
  BY <1>2, <1>4 DEF ActiveIssues, ReadyOn
<1>6. Agrees(k)'
  BY <1>3, <1>5 DEF Agrees
<1>7. \A x \in Copies \ {k} : SameAt(x)
  BY <1>2, <1>3 DEF SameAt
<1>8. Shelf'
  BY <1>6, <1>7, ShelfKept DEF ShelfInv, Shelf
<1>9. \A r \in LostIds : lost'[r] = IF r = n THEN report ELSE lost[r]
  BY <1>1, LossRowsTyped
<1>10. \A r \in LostIds \ {n} : Retiring(r)' <=> Retiring(r)
  BY <1>9 DEF Retiring
<1>11. \A r \in LostIds : Retiring(r) => lost[r].copy \in Copies \ {k} /\ copy[lost[r].copy] = "LOST"
  BY <1>4 DEF ShelfInv, Retired
<1>12. \A r \in LostIds : Retiring(r)' => /\ lost'[r].copy \in Copies /\ copy'[lost'[r].copy] = "LOST"
                                          /\ ReadyOn(lost[r].copy)' = {}
  <2>1. ASSUME NEW r \in LostIds \ {n}, Retiring(r) PROVE ReadyOn(lost[r].copy)' = {}
    BY <1>9, <2>1 DEF ShelfInv, Retired, ReadyOn
  <2>2. ReadyOn(lost[n].copy)' = {}
    BY <1>5, <1>9 DEF ReadyOn
  <2>3. QED BY <1>3, <1>9, <1>10, <1>11, <2>1, <2>2
<1>13. \A r, x \in LostIds : Retiring(r)' /\ Retiring(x)' /\ lost'[r].copy = lost'[x].copy => r = x
  BY <1>9, <1>10, <1>11 DEF ShelfInv, Retired
<1>14. \A r \in LostIds : lost'[r].issue # NULL => lost'[r].copy = issue'[lost'[r].issue].copy
  BY <1>2, <1>9, LossRowsTyped DEF ShelfInv, Retired
<1>15. \A r \in LostIds : lost'[r].issue = NULL =>
          lost'[r].st = "NONE" \/ (lost'[r].st = "CONFIRMED" /\ "reportMissing" \in Routes)
  BY <1>9, LossRowsTyped DEF ShelfInv, Retired
<1>16. Retired'
  BY <1>12, <1>13, <1>14, <1>15 DEF Retired
<1>17. QED BY <1>8, <1>16 DEF ShelfInv

\* A copy nobody holds goes on the shelf.
LEMMA ShelfFree ==
  ASSUME WellFormed, ShelfInv, NEW k \in Copies, copy[k] \in {"LOST", "UNREGISTERED"}, ReadyOn(k) = {},
         copy' = [copy EXCEPT ![k] = "AVAILABLE"], UNCHANGED <<issue, resv>>
  PROVE  Shelf'
<1>1. copy'[k] = "AVAILABLE" /\ \A x \in Copies \ {k} : copy'[x] = copy[x]
  BY LossRowsTyped
<1>2. ActiveIssues(k)' = {} /\ ReadyOn(k)' = {}
  BY ShelfRows DEF ActiveIssues, ReadyOn
<1>3. Agrees(k)'
  BY <1>1, <1>2 DEF Agrees
<1>4. \A x \in Copies \ {k} : SameAt(x)
  BY <1>1 DEF SameAt
<1>5. QED BY <1>3, <1>4, ShelfKept DEF ShelfInv, Shelf

\* A report moves on: it ends, with or without its copy, or it stays as it was.
LEMMA RetiredMoves ==
  ASSUME WellFormed, Retired, NEW r \in LostIds, UNCHANGED resv,
         \A x \in LostIds : lost'[x].issue = lost[x].issue /\ lost'[x].copy = lost[x].copy,
         \A x \in LostIds \ {r} : lost'[x] = lost[x],
         lost[r].issue # NULL \/ lost'[r].st = lost[r].st,
         \A i \in IssueIds : issue'[i].copy = issue[i].copy,
         Retiring(r)' => Retiring(r),
         \A k \in Copies : copy[k] = "LOST" =>
           copy'[k] = "LOST" \/ (Retiring(r) /\ ~Retiring(r)' /\ k = lost[r].copy)
  PROVE  Retired'
<1>1. \A x \in LostIds : Retiring(x)' => Retiring(x)
  BY DEF Retiring
<1>2. \A x \in LostIds : Retiring(x)' => /\ lost'[x].copy \in Copies /\ copy'[lost'[x].copy] = "LOST"
                                         /\ ReadyOn(lost[x].copy)' = {}
  BY <1>1 DEF Retired, ReadyOn
<1>3. \A x \in LostIds : lost'[x].issue # NULL => lost'[x].copy = issue'[lost'[x].issue].copy
  BY LossRowsTyped DEF Retired
<1>4. \A x \in LostIds : lost'[x].issue = NULL =>
        lost'[x].st = "NONE" \/ (lost'[x].st = "CONFIRMED" /\ "reportMissing" \in Routes)
  BY DEF Retired
<1>5. QED BY <1>1, <1>2, <1>3, <1>4 DEF Retired

\* A report by the holder is rejected: the issue is open again and has its copy.
LEMMA ShelfReject ==
  ASSUME WellFormed, AllFresh, ShelfInv, NEW c \in Clerks, RejectLostCommit(c)
  PROVE  ShelfInv'
<1>1. PICK r \in LostIds : r = tx[c].report
  BY FreshPlan, PlanFields DEF RejectLostCommit, Running
<1>2. lost[r].st = "REPORTED"
  BY <1>1, FreshPlan DEF RejectLostCommit, Running, Fresh
<1>3. PICK i \in IssueIds : i = lost[r].issue
  BY <1>2, LossRowsTyped DEF WellFormed, ReportsStand
<1>4. PICK k \in Copies : k = lost[r].copy
  BY <1>2, <1>3, LossRowsTyped DEF ShelfInv, Retired, Retiring
<1>5. issue[i].copy = k /\ copy[k] = "LOST" /\ ReadyOn(k) = {}
  BY <1>2, <1>3, <1>4, LossRowsTyped DEF ShelfInv, Retired, Retiring
<1>6. /\ issue' = [issue EXCEPT ![i].st = "ACTIVE"]
      /\ copy' = [copy EXCEPT ![k] = "ISSUED"]
      /\ lost' = [lost EXCEPT ![r].st = "REJECTED"]
      /\ UNCHANGED resv
  BY <1>1, <1>3, <1>4 DEF RejectLostCommit
<1>7. \A j \in IssueIds : /\ issue'[j].copy = issue[j].copy
                          /\ issue'[j].st = IF j = i THEN "ACTIVE" ELSE issue[j].st
  BY <1>6, LossRowsTyped DEF IssueRow
<1>8. copy'[k] = "ISSUED" /\ \A x \in Copies \ {k} : copy'[x] = copy[x]
  BY <1>6, LossRowsTyped
<1>9. /\ \A j \in IssueIds : ~(issue[j].st = "ACTIVE" /\ issue[j].copy = k)
      /\ \A h \in ResvIds : ~(resv[h].st = "READY" /\ resv[h].copy = k)
  BY <1>5, ShelfRows DEF ReadyOn
<1>10. ActiveIssues(k)' = {i} /\ ReadyOn(k)' = {}
  BY <1>5, <1>6, <1>7, <1>9 DEF ActiveIssues, ReadyOn
<1>11. Agrees(k)'
  BY <1>8, <1>10 DEF Agrees
<1>12. \A x \in Copies \ {k} : SameAt(x)
  BY <1>5, <1>6, <1>7, <1>8 DEF SameAt
<1>13. Shelf'
  BY <1>6, <1>11, <1>12, ShelfKept DEF ShelfInv, Shelf
<1>14. /\ \A x \in LostIds : lost'[x].issue = lost[x].issue /\ lost'[x].copy = lost[x].copy
       /\ \A x \in LostIds \ {r} : lost'[x] = lost[x]
       /\ lost'[r].st = "REJECTED"
  BY <1>6, LossRowsTyped DEF LostRow
<1>15. Retiring(r) /\ ~Retiring(r)'
  BY <1>2, <1>3, <1>14, LossRowsTyped DEF Retiring
<1>16. Retired'
  BY <1>3, <1>4, <1>6, <1>7, <1>8, <1>14, <1>15, LossRowsTyped, RetiredMoves DEF ShelfInv
<1>17. QED BY <1>13, <1>16 DEF ShelfInv

\* A confirmed loss is settled; found, it brings its copy back.
LEMMA ShelfSettle ==
  ASSUME WellFormed, AllFresh, ShelfInv, NEW c \in Clerks,
         \/ PayLostCommit(c) \/ WriteOffLostCommit(c)
         \/ ReplaceInKindCommit(c) \/ FoundLostCommit(c)
  PROVE  ShelfInv'
<1>1. PICK r \in LostIds : r = tx[c].report
  BY FreshPlan, PlanFields DEF PayLostCommit, WriteOffLostCommit, ReplaceInKindCommit,
                               FoundLostCommit, Running, SettleOps
<1>2. PICK next : /\ Claim(r, next) /\ (FoundLostCommit(c) => next = "FOUND")
                  /\ next \in {"SETTLED_PAID", "SETTLED_IN_KIND", "WRITTEN_OFF", "FOUND"}
  <2>1. CASE FoundLostCommit(c)
    BY <1>1, <2>1 DEF FoundLostCommit
  <2>2. CASE ~FoundLostCommit(c)
    BY <1>1, <2>2 DEF PayLostCommit, WriteOffLostCommit, ReplaceInKindCommit
  <2>3. QED BY <2>1, <2>2
<1>3. UNCHANGED <<issue, resv>>
  BY DEF PayLostCommit, WriteOffLostCommit, ReplaceInKindCommit, FoundLostCommit
<1>4. /\ \A x \in LostIds : /\ lost'[x].issue = lost[x].issue /\ lost'[x].copy = lost[x].copy
                            /\ lost'[x].turnedUp = lost[x].turnedUp
      /\ \A x \in LostIds \ {r} : lost'[x] = lost[x]
      /\ lost[r].st = "CONFIRMED" /\ lost'[r].st = next
  BY <1>2, LossRowsTyped DEF Claim, LostRow
<1>0. lost[r].issue # NULL
  BY <1>1, FreshPlan DEF PayLostCommit, WriteOffLostCommit, ReplaceInKindCommit, FoundLostCommit,
                         Running, SettleOps, Fresh
<1>5. Retiring(r) /\ (next # "SETTLED_PAID" => ~Retiring(r)')
  BY <1>0, <1>2, <1>4 DEF Retiring
<1>6. lost[r].copy \in Copies /\ copy[lost[r].copy] = "LOST" /\ ReadyOn(lost[r].copy) = {}
  BY <1>5 DEF ShelfInv, Retired
<1>7. CASE PayLostCommit(c) \/ WriteOffLostCommit(c)
  <2>1. UNCHANGED copy
    BY <1>7 DEF PayLostCommit, WriteOffLostCommit
  <2>2. Retired'
    BY <1>0, <1>3, <1>4, <1>5, <2>1, RetiredMoves DEF ShelfInv
  <2>3. QED BY <1>3, <2>1, <2>2, ShelfSame DEF ShelfInv
<1>8. CASE ReplaceInKindCommit(c)
  <2>1. PICK k \in Copies : copy[k] = "UNREGISTERED" /\ copy' = [copy EXCEPT ![k] = "AVAILABLE"]
    BY <1>8 DEF ReplaceInKindCommit
  <2>2. \A x \in Copies : copy[x] = "LOST" => copy'[x] = "LOST"
    BY <2>1, LossRowsTyped
  <2>3. Retired'
    BY <1>0, <1>3, <1>4, <1>5, <2>2, RetiredMoves DEF ShelfInv
  <2>4. ReadyOn(k) = {}
    BY <2>1, ShelfRows DEF ReadyOn
  <2>5. QED BY <1>3, <2>1, <2>3, <2>4, ShelfFree DEF ShelfInv
<1>9. CASE FoundLostCommit(c)
  <2>1. copy' = [copy EXCEPT ![lost[r].copy] = "AVAILABLE"] /\ ~Retiring(r)'
    BY <1>1, <1>2, <1>5, <1>9 DEF FoundLostCommit
  <2>2. \A x \in Copies \ {lost[r].copy} : copy'[x] = copy[x]
    BY <2>1, LossRowsTyped
  <2>3. Retired'
    BY <1>0, <1>3, <1>4, <1>5, <2>1, <2>2, RetiredMoves DEF ShelfInv
  <2>4. QED BY <1>3, <1>6, <2>1, <2>3, ShelfFree DEF ShelfInv
<1>10. QED BY <1>7, <1>8, <1>9

\* A copy that was paid for turns up: it is kept, or owed for and on the shelf again.
LEMMA ShelfTurnedUp ==
  ASSUME WellFormed, AllFresh, ShelfInv, NEW c \in Clerks, TurnedUpCommit(c)
  PROVE  ShelfInv'
<1>1. PICK r \in LostIds : r = tx[c].report
  BY FreshPlan, PlanFields DEF TurnedUpCommit, Running
<1>2. lost[r].st = "SETTLED_PAID" /\ lost[r].turnedUp = NULL
  BY <1>1, FreshPlan DEF TurnedUpCommit, Running, Fresh
<1>3. /\ Retiring(r) /\ lost[r].issue # NULL
      /\ lost[r].copy \in Copies /\ copy[lost[r].copy] = "LOST" /\ ReadyOn(lost[r].copy) = {}
  <2>1. lost[r].issue # NULL
    BY <1>2 DEF ShelfInv, Retired
  <2>2. QED BY <1>2, <2>1 DEF ShelfInv, Retired, Retiring
<1>4. UNCHANGED <<issue, resv>>
  BY DEF TurnedUpCommit
<1>5. CASE lost' = [lost EXCEPT ![r].turnedUp = "FAMILY_KEEPS"] /\ UNCHANGED copy
  <2>1. /\ \A x \in LostIds : lost'[x].issue = lost[x].issue /\ lost'[x].copy = lost[x].copy
        /\ \A x \in LostIds \ {r} : lost'[x] = lost[x]
    BY <1>5, LossRowsTyped DEF LostRow
  <2>2. Retired'
    BY <1>3, <1>4, <1>5, <2>1, RetiredMoves DEF ShelfInv
  <2>3. QED BY <1>4, <1>5, <2>2, ShelfSame DEF ShelfInv
<1>6. CASE /\ lost' = [lost EXCEPT ![r].turnedUp = "REFUND_OWED", ![r].refund = tx[c].refund]
           /\ copy' = [copy EXCEPT ![lost[r].copy] = "AVAILABLE"]
  <2>1. /\ \A x \in LostIds : lost'[x].issue = lost[x].issue /\ lost'[x].copy = lost[x].copy
        /\ \A x \in LostIds \ {r} : lost'[x] = lost[x]
        /\ lost'[r].st = "SETTLED_PAID" /\ lost'[r].turnedUp = "REFUND_OWED"
    BY <1>2, <1>6, LossRowsTyped DEF LostRow
  <2>2. ~Retiring(r)'
    BY <2>1, NullAssumption DEF Retiring
  <2>3. \A x \in Copies \ {lost[r].copy} : copy'[x] = copy[x]
    BY <1>6, LossRowsTyped
  <2>4. Retired'
    BY <1>3, <1>4, <2>1, <2>2, <2>3, RetiredMoves DEF ShelfInv
  <2>5. QED BY <1>3, <1>4, <1>6, <2>4, ShelfFree DEF ShelfInv
<1>7. QED BY <1>1, <1>5, <1>6 DEF TurnedUpCommit

\* Missing at stock verification: whether the copy is on hold, or was paid for, is
\* not asked.
LEMMA ShelfMissing ==
  ASSUME WellFormed, AllFresh, ShelfInv, NEW c \in Clerks, ReportMissingCommit(c)
  PROVE  ShelfInv'
<1>1. PICK k \in Copies : k = tx[c].copy
  BY FreshPlan, PlanFields DEF ReportMissingCommit, Running
<1>2. ActiveIssues(k) = {} /\ "reportMissing" \in Routes
  BY <1>1, FreshPlan DEF ReportMissingCommit, Running, Fresh
<1>3. copy' = [copy EXCEPT ![k] = "LOST"] /\ UNCHANGED <<issue, resv>>
  BY <1>1 DEF ReportMissingCommit, RetireCopy
<1>4. copy'[k] = "LOST" /\ \A x \in Copies \ {k} : copy'[x] = copy[x]
  BY <1>3, LossRowsTyped
<1>5. ActiveIssues(k)' = {} /\ ReadyOn(k)' = ReadyOn(k)
  BY <1>2, <1>3 DEF ActiveIssues, ReadyOn
<1>6. Agrees(k)'
  BY <1>2, <1>4, <1>5 DEF Agrees, ShelfInv, Shelf
<1>7. \A x \in Copies \ {k} : SameAt(x)
  BY <1>3, <1>4 DEF SameAt
<1>8. Shelf'
  BY <1>3, <1>6, <1>7, ShelfKept DEF ShelfInv, Shelf
<1>9. PICK n \in LostIds : /\ lost[n].st = "NONE" /\ lost[n].issue = NULL
                           /\ \A r \in LostIds \ {n} : lost'[r] = lost[r]
                           /\ lost'[n].st = "CONFIRMED" /\ lost'[n].issue = NULL
  BY MissingRows
<1>10. \A r \in LostIds : Retiring(r)' => r # n /\ Retiring(r)
  BY <1>9 DEF Retiring
<1>11. \A r \in LostIds : Retiring(r)' => /\ lost'[r].copy \in Copies /\ copy'[lost'[r].copy] = "LOST"
                                          /\ ReadyOn(lost[r].copy)' = {}
  BY <1>3, <1>4, <1>9, <1>10 DEF ShelfInv, Retired, ReadyOn
<1>12. Retired'
  BY <1>2, <1>3, <1>9, <1>10, <1>11 DEF ShelfInv, Retired
<1>13. QED BY <1>8, <1>12 DEF ShelfInv

LEMMA ShelfStep ==
  ASSUME WellFormed, AllFresh, ShelfInv, [Next]_vars
  PROVE  ShelfInv'
<1>1. CASE UNCHANGED <<copy, issue, resv, lost>>
  BY <1>1, ShelfSame, RetiredKept DEF ShelfInv, ReadyOn
<1>2. ASSUME NEW c \in Clerks, DeskStep(c) PROVE ShelfInv'
  <2>1. CASE RenewCommit(c)
    <3>1. \A i \in IssueIds : issue'[i].st = issue[i].st /\ issue'[i].copy = issue[i].copy
      BY <2>1, FreshPlan, PlanFields, LossRowsTyped DEF RenewCommit, Running, IssueRow
    <3>2. UNCHANGED <<copy, resv, lost>>
      BY <2>1 DEF RenewCommit
    <3>3. \A x \in Copies : SameAt(x)
      BY <3>1, <3>2 DEF SameAt
    <3>4. Shelf'
      BY <3>2, <3>3, SameAgrees DEF ShelfInv, Shelf
    <3>5. Retired'
      BY <3>1, <3>2, RetiredKept DEF ShelfInv, ReadyOn
    <3>6. QED BY <3>4, <3>5 DEF ShelfInv
  <2>2. CASE IssueEvaluate(c) \/ ReserveQuota(c) \/ ReserveQueue(c)
    BY <1>1, <2>2 DEF IssueEvaluate, ReserveQuota, ReserveQueue, db
  <2>3. QED BY <1>2, <2>1, <2>2, ShelfIssue, ShelfReturn, ShelfVoid, ShelfReserve, ShelfCancel DEF DeskStep
<1>3. ASSUME NEW c \in Clerks, LostStep(c) PROVE ShelfInv'
  <2>1. CASE ReportLostCommit(c) \/ SelfReportLostCommit(c)
    <3>1. PICK i \in IssueIds : i = tx[c].issue
      BY <2>1, FreshPlan, PlanFields DEF ReportLostCommit, SelfReportLostCommit, Running
    <3>2. PICK k \in Copies : k = tx[c].copy
      BY <2>1, FreshPlan, PlanFields DEF ReportLostCommit, SelfReportLostCommit, Running
    <3>3. issue[i].st = "ACTIVE" /\ issue[i].copy = k
      BY <2>1, <3>1, <3>2, FreshPlan
         DEF ReportLostCommit, SelfReportLostCommit, Running, Fresh, ActiveIssues
    <3>4. PICK report : report.issue = i /\ report.copy = k /\ LoseIssue(i, k, report)
      <4>1. CASE ReportLostCommit(c)
        <5> DEFINE row == [NoLost EXCEPT !.st = "CONFIRMED", !.copy = tx[c].copy,
                                         !.issue = tx[c].issue, !.frozen = tx[c].late]
        <5>1. row.issue = i /\ row.copy = k
          BY <3>1, <3>2 DEF NoLost
        <5>2. LoseIssue(i, k, row)
          BY <3>1, <3>2, <4>1 DEF ReportLostCommit
        <5> HIDE DEF row
        <5>3. QED BY <5>1, <5>2
      <4>2. CASE SelfReportLostCommit(c)
        <5> DEFINE row == [NoLost EXCEPT !.st = "REPORTED", !.copy = tx[c].copy, !.self = TRUE,
                                         !.issue = tx[c].issue, !.frozen = tx[c].late]
        <5>1. row.issue = i /\ row.copy = k
          BY <3>1, <3>2 DEF NoLost
        <5>2. LoseIssue(i, k, row)
          BY <3>1, <3>2, <4>2 DEF SelfReportLostCommit
        <5> HIDE DEF row
        <5>3. QED BY <5>1, <5>2
      <4>3. QED BY <2>1, <4>1, <4>2
    <3>5. QED BY <1>3, <3>3, <3>4, LostLeaves, ShelfLose
  <2>2. CASE ConfirmLostCommit(c) \/ MarkRefundedCommit(c)
    <3>1. PICK r \in LostIds : r = tx[c].report
      BY <2>2, FreshPlan, PlanFields DEF ConfirmLostCommit, MarkRefundedCommit, Running
    <3>2. UNCHANGED <<copy, issue, resv>>
      BY <2>2 DEF ConfirmLostCommit, MarkRefundedCommit
    <3>3. CASE ConfirmLostCommit(c)
      <4>1. lost[r].st = "REPORTED" /\ lost' = [lost EXCEPT ![r].st = "CONFIRMED"]
        BY <3>1, <3>3, FreshPlan DEF ConfirmLostCommit, Running, Fresh
      <4>2. /\ lost[r].issue # NULL /\ Retiring(r)
            /\ \A x \in LostIds \ {r} : lost'[x] = lost[x]
        BY <4>1, LossRowsTyped DEF Retiring, WellFormed, ReportsStand
      <4>3. \A x \in LostIds : lost'[x].issue = lost[x].issue /\ lost'[x].copy = lost[x].copy
        BY <4>1, LossRowsTyped DEF LostRow
      <4>4. Retired'
        BY <3>2, <4>2, <4>3, RetiredMoves DEF ShelfInv
      <4>5. QED BY <3>2, <4>4, ShelfSame DEF ShelfInv
    <3>4. CASE MarkRefundedCommit(c)
      <4>1. lost' = [lost EXCEPT ![r].refunded = TRUE]
        BY <3>1, <3>4 DEF MarkRefundedCommit
      <4>2. \A x \in LostIds : /\ lost'[x].issue = lost[x].issue /\ lost'[x].copy = lost[x].copy
                               /\ lost'[x].st = lost[x].st /\ lost'[x].turnedUp = lost[x].turnedUp
        BY <4>1, LossRowsTyped DEF LostRow
      <4>3. \A x \in LostIds \ {r} : lost'[x] = lost[x]
        BY <4>1, LossRowsTyped
      <4>4. Retiring(r)' => Retiring(r)
        BY <4>2 DEF Retiring
      <4>5. Retired'
        BY <3>2, <4>2, <4>3, <4>4, RetiredMoves DEF ShelfInv
      <4>6. QED BY <3>2, <4>5, ShelfSame DEF ShelfInv
    <3>5. QED BY <2>2, <3>3, <3>4
  <2>3. QED BY <1>3, <2>1, <2>2, ShelfMissing, ShelfReject, ShelfSettle, ShelfTurnedUp DEF LostStep
<1>4. QED BY <1>1, <1>2, <1>3, StartsOnlyRead, FinesLeave DEF Next, Tick, Abort, vars, db

----------------------------------------------------------------------------
(* The theorems.                                                            *)

SerialInv == WellFormed /\ AllFresh /\ MoneyInv /\ LossInv /\ EvidenceInv

LEMMA SerialInit ==
  ASSUME InitDB
  PROVE  SerialInv /\ ShelfInv
<1>1. WellFormed
  BY InitWellFormed
<1>2. AllFresh
  BY FreshWhenIdle DEF InitDB, AllFresh
<1>3. \A f \in FineIds : /\ fine[f].st = "NONE" /\ fine[f].issue = NULL /\ fine[f].amount = 0
                         /\ fine[f].paid = 0 /\ fine[f].waived = 0 /\ fine[f].taken = 0
  BY DEF InitDB, NoFine
<1>4. \A r \in LostIds : lost[r].st = "NONE" /\ lost[r].issue = NULL /\ lost[r].turnedUp = NULL
  BY DEF InitDB, NoLost
<1>5. MoneyInv
  BY <1>3 DEF MoneyInv, FinesSettled, PaidOrWaivedNotBoth
<1>6. LossInv
  BY <1>3, <1>4 DEF LossInv, EmptyReports, LossesFollow, Stands, ChargesFollow, LateChargedOnce,
                    NoMoneyForRejectedLoss, LateChargeFrozen
<1>7. EvidenceInv
  BY DEF InitDB, EvidenceInv
<1>8. Retired
  BY <1>4 DEF Retired, Retiring
<1>9. \A k \in Copies : copy[k] \in {"AVAILABLE", "UNREGISTERED"}
  BY DEF InitDB
<1>10. \A k \in Copies : ActiveIssues(k) = {} /\ ReadyOn(k) = {}
  BY DEF InitDB, ActiveIssues, ReadyOn, NoIssue, NoResv
<1>11. Shelf
  BY <1>9, <1>10 DEF Shelf, Agrees, InitDB, NoResv
<1>12. QED BY <1>1, <1>2, <1>5, <1>6, <1>7, <1>8, <1>11 DEF SerialInv, ShelfInv

LEMMA SerialStep ==
  ASSUME OneClerk, SerialInv, [Next]_vars
  PROVE  SerialInv'
<1>1. WellFormed' /\ AllFresh' /\ MoneyInv' /\ Charging /\ EvidenceInv'
  BY NextPreserves, FreshKept, MoneyStep, EvidenceKept DEF SerialInv
<1>2. LossInv'
  BY <1>1, LossKept DEF SerialInv
<1>3. QED BY <1>1, <1>2 DEF SerialInv

\* With one request at a time, what a request has read still holds when it
\* commits, and fines, losses, issues and marks stay consistent with each other.
THEOREM SerialHolds == ASSUME OneClerk PROVE Spec => []SerialInv
<1>1. InitDB => SerialInv
  BY SerialInit
<1>2. SerialInv /\ [Next]_vars => SerialInv'
  BY SerialStep
<1>3. QED BY <1>1, <1>2, PTL DEF Spec

\* No rupee of a fine is both collected and let off (pay and waive at the
\* counter, and the settlements of a loss).
THEOREM NeverPaidAndWaived == ASSUME OneClerk PROVE Spec => []PaidOrWaivedNotBoth
<1>1. SerialInv => PaidOrWaivedNotBoth
  BY DEF SerialInv, MoneyInv
<1>2. QED BY <1>1, SerialHolds, PTL

\* No fine is paid twice, at the counter or with the settlement of a loss, for
\* every fine and not only for those no loss was reported on.
THEOREM PaidOnce == ASSUME OneClerk PROVE Spec => []NoPaymentTwice
<1>1. SerialInv => NoPaymentTwice
  BY DEF SerialInv, MoneyInv, FinesSettled, NoPaymentTwice
<1>2. QED BY <1>1, SerialHolds, PTL

\* An issue is charged late at most once, whichever of the return, the desk's
\* report and the confirmation of the holder's report closes it.
THEOREM LateOnce == ASSUME OneClerk PROVE Spec => []LateChargedOnce
<1>1. SerialInv => LateChargedOnce
  BY DEF SerialInv, LossInv
<1>2. QED BY <1>1, SerialHolds, PTL

\* Every replacement charge has a report a librarian confirmed and did not reject.
THEOREM ReplacementsStand == ASSUME OneClerk PROVE Spec => []NoMoneyForRejectedLoss
<1>1. SerialInv => NoMoneyForRejectedLoss
  BY DEF SerialInv, LossInv
<1>2. QED BY <1>1, SerialHolds, PTL

\* The late charge of a loss is the figure its report froze.
THEOREM ClockStops == ASSUME OneClerk PROVE Spec => []LateChargeFrozen
<1>1. SerialInv => LateChargeFrozen
  BY DEF SerialInv, LossInv
<1>2. QED BY <1>1, SerialHolds, PTL

\* An automatic attendance mark stands on an issue that was not undone.
THEOREM MarksStand == ASSUME OneClerk PROVE Spec => []MarkHasEvidence
<1>1. SerialInv => MarkHasEvidence
  BY DEF SerialInv, EvidenceInv, Evidence, MarkHasEvidence
<1>2. QED BY <1>1, SerialHolds, PTL

\* What was decided when a copy that was paid for turned up stays decided.
THEOREM DecidedOnce == ASSUME OneClerk PROVE Spec => TurnedUpDecidedOnce
<1>1. SerialInv /\ [Next]_vars =>
        [\A r \in LostIds : lost[r].turnedUp # NULL => lost'[r].turnedUp = lost[r].turnedUp]_vars
  BY DecisionStays DEF SerialInv, LossInv
<1>2. QED BY <1>1, SerialHolds, PTL DEF Spec, TurnedUpDecidedOnce

LEMMA CountOne ==
  ASSUME NEW S, \A x, y \in S : x = y
  PROVE  Cardinality(S) = IF S = {} THEN 0 ELSE 1
<1>1. CASE S = {}
  BY <1>1, FS_EmptySet
<1>2. CASE S # {}
  <2>1. PICK x \in S : TRUE
    BY <1>2
  <2>2. S = {x}
    BY <2>1
  <2>3. QED BY <1>2, <2>2, FS_Singleton
<1>3. QED BY <1>1, <1>2

\* With every route in use, a copy is ISSUED exactly while an issue of it is open,
\* no two rows hold a copy, and a report of an issue keeps its copy out of circulation.
THEOREM ShelfHolds == ASSUME OneClerk PROVE Spec => []ShelfInv
<1>1. InitDB => ShelfInv
  BY SerialInit
<1>2. SerialInv /\ ShelfInv /\ [Next]_vars => ShelfInv'
  BY ShelfStep DEF SerialInv
<1>3. QED BY <1>1, <1>2, SerialHolds, PTL DEF Spec

\* A report of a copy missing at stock verification asks neither for holds nor for
\* losses already paid for: it retires a copy that is on hold, and a copy whose paid
\* loss turns up goes back on the shelf with that report open.
NoStockReports == "reportMissing" \notin Routes

\* A copy is ISSUED exactly while one issue of it is open and RESERVED_SHELF
\* exactly while one reservation is READY on it, through issues, returns with
\* lapsed holds, undone issues, cancellations, losses and settlements.
THEOREM ShelfIsRight == ASSUME OneClerk, NoStockReports PROVE Spec => []ShelfConsistent
<1>1. ASSUME ShelfInv, NEW k \in Copies
      PROVE  /\ copy[k] = "ISSUED" <=> Cardinality(ActiveIssues(k)) = 1
             /\ copy[k] = "RESERVED_SHELF" <=> Cardinality(ReadyOn(k)) = 1
             /\ Cardinality(ActiveIssues(k)) + Cardinality(ReadyOn(k)) <= 1
  <2>1. Agrees(k)
    BY <1>1 DEF ShelfInv, Shelf
  <2>2. Cardinality(ActiveIssues(k)) = IF ActiveIssues(k) = {} THEN 0 ELSE 1
    BY <2>1, CountOne DEF Agrees
  <2>3. Cardinality(ReadyOn(k)) = IF ReadyOn(k) = {} THEN 0 ELSE 1
    BY <2>1, CountOne DEF Agrees
  <2>4. QED BY <2>1, <2>2, <2>3 DEF Agrees, NoStockReports
<1>2. ShelfInv => ShelfConsistent
  BY <1>1 DEF ShelfConsistent
<1>3. QED BY <1>2, ShelfHolds, PTL

\* A copy with an open loss report is LOST: nothing hands it out.
THEOREM LostIsRetired == ASSUME OneClerk, NoStockReports PROVE Spec => []LostCopyRetired
<1>1. ShelfInv => LostCopyRetired
  BY DEF ShelfInv, Retired, Retiring, LostCopyRetired, HasOpenReport, NoStockReports
<1>2. QED BY <1>1, ShelfHolds, PTL
============================================================================
