---- MODULE Fees ----
(***************************************************************************)
(* School fees: a term is billed, families claim payments, the office      *)
(* verifies, rejects and reverses them.  Every office request is one READ  *)
(* COMMITTED transaction (withTenant); what it waits for is a row lock: of *)
(* the payment it has updated, of the receipt or the invoice counter it    *)
(* has advanced.  It may be rolled back at any stage.                      *)
(*                                                                         *)
(* One school, one receipt series, one session; the audit rows, which no   *)
(* request waits for, are left out.  A day is the number of days after the *)
(* bill's due date.                                                        *)
(***************************************************************************)
EXTENDS Integers, FiniteSets, Functions

CONSTANTS
    Clerks,       \* office requests that may be in flight at the same time
    Payments,     \* FeePayment rows
    Students,
    Bills,        \* (studentId, termId) pairs, a unique key of FeeInvoice
    StudentOf, TermOf,
    NumLines,     \* fee categories on a bill, in their order
    OneTime,      \* the categories charged on a student's first bill only
    Net,          \* what the plan and the concessions leave to pay on each
    Collectible,  \* bills that are chased: not government-reimbursed
    Rule,         \* FeeSettings: how lateness is charged
    Claims,       \* what families may claim: student, bill, amount, days after the due date
    NoBill, NoPayment, NoTerm, NoStudent

Lines == 1..NumLines
Terms == {TermOf[b] : b \in Bills}

ASSUME FeesAssumption ==
    /\ NumLines \in Nat
    /\ StudentOf \in [Bills -> Students]
    /\ \A a, b \in Bills : StudentOf[a] = StudentOf[b] /\ TermOf[a] = TermOf[b] => a = b
    /\ OneTime \subseteq Lines /\ OneTime # Lines   \* a bill without lines is not issued
    /\ Net \in [Bills -> [Lines -> Nat]]
    /\ Collectible \subseteq Bills
    /\ Rule \in [mode : {"NONE", "FLAT", "PER_DAY"}, amount : Nat, grace : Nat, cap : Nat]
    /\ Claims \subseteq [student : Students, bill : Bills \union {NoBill}, amount : Nat, day : Nat]
    /\ NoBill \notin Bills /\ NoPayment \notin Payments /\ NoTerm \notin Terms
    /\ NoStudent \notin Students
    /\ IsFiniteSet(Bills) /\ IsFiniteSet(Payments)

VARIABLES
    bill,       \* FeeInvoice: its number, 0 before it is issued; whether it has the one-time lines
    payment,    \* FeePayment
    credit,     \* FeeLedgerEntry CREDITs of each payment
    debit,      \* FeeLedgerEntry REVERSALs of each payment
    lateFee,    \* sum of the LATE_FEE entries of each bill
    alloc,      \* FeeAllocation: what each payment pays of each line of its bill
    receipt,    \* FeeReceipt numbers, unique per payment; 0 for none
    receipts,   \* FeeCounter of the receipt series
    invoices,   \* FeeCounter of the invoice series
    tx,         \* the request of each clerk: what it read and what it holds
    charge,     \* the amounts a verification has written and not committed
    crossed     \* students about whom two office requests were in flight at once

vars == <<bill, payment, credit, debit, lateFee, alloc, receipt, receipts, invoices,
          tx, charge, crossed>>
books == <<bill, payment, credit, debit, lateFee, alloc, receipt, receipts, invoices>>

Nothing == [l \in Lines |-> 0]
NoCharge == [late |-> 0, take |-> Nothing]
Kinds == {"VERIFIED", "REJECTED", "REVERSED"}
Stages == {"idle", "read", "posted", "numbered"}
Idle == [op |-> "none", stage |-> "idle", payment |-> NoPayment, term |-> NoTerm,
         bills |-> {}, first |-> {}, number |-> 0]

RequestType == [op : Kinds \union {"none", "generate"}, stage : Stages,
                payment : Payments \union {NoPayment}, term : Terms \union {NoTerm},
                bills : SUBSET Bills, first : SUBSET Bills, number : Nat]
PaymentType == [status : {"none", "SUBMITTED"} \union Kinds, student : Students \union {NoStudent},
                bill : Bills \union {NoBill}, amount : Nat, day : Nat]

RequestsTyped == tx \in [Clerks -> RequestType]

BooksTyped ==
    /\ bill \in [Bills -> [number : Nat, oneTime : BOOLEAN]]
    /\ payment \in [Payments -> PaymentType]
    /\ credit \in [Payments -> Nat] /\ debit \in [Payments -> Nat]
    /\ receipt \in [Payments -> Nat]
    /\ receipts \in Nat /\ invoices \in Nat

AmountsTyped ==
    /\ lateFee \in [Bills -> Nat]
    /\ alloc \in [Payments -> [Lines -> Nat]]
    /\ charge \in [Clerks -> [late : Nat, take : [Lines -> Nat]]]
    /\ crossed \subseteq Students

TypeOK == RequestsTyped /\ BooksTyped /\ AmountsTyped

Init ==
    /\ bill = [b \in Bills |-> [number |-> 0, oneTime |-> FALSE]]
    /\ payment = [p \in Payments |-> [status |-> "none", student |-> NoStudent, bill |-> NoBill,
                                      amount |-> 0, day |-> 0]]
    /\ credit = [p \in Payments |-> 0] /\ debit = [p \in Payments |-> 0]
    /\ lateFee = [b \in Bills |-> 0]
    /\ alloc = [p \in Payments |-> Nothing]
    /\ receipt = [p \in Payments |-> 0]
    /\ receipts = 0 /\ invoices = 0
    /\ tx = [c \in Clerks |-> Idle]
    /\ charge = [c \in Clerks |-> NoCharge]
    /\ crossed = {}

-----------------------------------------------------------------------------
(* What a bill comes to and what lateness costs.                           *)

Least(a, b) == IF a < b THEN a ELSE b
Positive(a) == IF a > 0 THEN a ELSE 0

Issued(b) == bill[b].number > 0
BillsOf(s) == {b \in Bills : StudentOf[b] = s /\ Issued(b)}

\* A line not billed (a one-time category on a later bill) has nothing to pay.
NetOf(b, l) == IF l \in OneTime /\ ~bill[b].oneTime THEN 0 ELSE Net[b][l]
Total(b) == SumFunction([l \in Lines |-> NetOf(b, l)])

PaymentsOf(b) == {p \in Payments : payment[p].bill = b}
Allocated(b, l) == SumFunctionOnSet([p \in Payments |-> alloc[p][l]], PaymentsOf(b))
Outstanding(b) == Total(b) - SumFunction([l \in Lines |-> Allocated(b, l)])

\* computeLateFee.
Accrued(b, day, outstanding) ==
    IF Rule.mode = "NONE" \/ b \notin Collectible \/ outstanding <= 0 \/ day <= Rule.grace
    THEN 0
    ELSE LET raw == IF Rule.mode = "FLAT" THEN Rule.amount ELSE Rule.amount * (day - Rule.grace)
         IN Least(IF Rule.cap > 0 THEN Least(raw, Rule.cap) ELSE raw, outstanding)

\* Mutant: a smaller accrual gives money back.
LateFeeSigned(b, day) == Accrued(b, day, Outstanding(b)) - lateFee[b]
\* Mutant: what was already charged is not looked up.
LateFeeAnew(b, day) == Accrued(b, day, Outstanding(b))
\* chargeLateFee: the part of it that is not in the ledger yet.
LateFeeDue(b, day) == Positive(Accrued(b, day, Outstanding(b)) - lateFee[b])

\* Mutant: each payment starts again at the first line.
OwedInFull(b, l) == NetOf(b, l)
Owed(b, l) == Positive(NetOf(b, l) - Allocated(b, l))

\* allocate: lines in their order, each as far as the money goes.
Take(b, amount) ==
    LET upTo(n) == SumFunctionOnSet([l \in Lines |-> Owed(b, l)], 1..n)
    IN  [l \in Lines |-> Least(amount, upTo(l)) - Least(amount, upTo(l - 1))]

-----------------------------------------------------------------------------
(* The family.                                                             *)

\* "I have paid", against a bill or in advance.  A reference that was used
\* before is refused by a unique index: a row of the pool is claimed once.
Submit(p, claim) ==
    /\ payment[p].status = "none"
    /\ claim.bill # NoBill => Issued(claim.bill) /\ StudentOf[claim.bill] = claim.student
    /\ payment' = [payment EXCEPT ![p] =
                      [status |-> "SUBMITTED", student |-> claim.student, bill |-> claim.bill,
                       amount |-> claim.amount, day |-> claim.day]]
    /\ UNCHANGED <<bill, credit, debit, lateFee, alloc, receipt, receipts, invoices,
                   tx, charge, crossed>>

-----------------------------------------------------------------------------
(* Office requests.                                                        *)

HoldsPayment(c, p) == tx[c].payment = p /\ tx[c].stage \notin {"idle", "read"}
HoldsReceipts(c) == tx[c].op = "VERIFIED" /\ tx[c].stage = "numbered"
HoldsInvoices(c) == tx[c].op = "generate" /\ tx[c].stage = "numbered"

About(t) == IF t.op = "generate" THEN {StudentOf[b] : b \in {x \in Bills : TermOf[x] = t.term}}
            ELSE IF t.op = "none" THEN {} ELSE {payment[t.payment].student}

Begin(c, t) ==
    /\ tx[c].stage = "idle"
    /\ tx' = [tx EXCEPT ![c] = t]
    /\ crossed' = crossed \union UNION {About(t) \intersect About(tx[d]) : d \in Clerks \ {c}}
    /\ UNCHANGED <<books, charge>>

End(c) ==
    /\ tx' = [tx EXCEPT ![c] = Idle]
    /\ charge' = [charge EXCEPT ![c] = NoCharge]
    /\ UNCHANGED crossed

\* A refusal, a unique violation, the ten-second limit, a lost connection.
Abort(c) ==
    /\ tx[c].stage # "idle"
    /\ End(c)
    /\ UNCHANGED books

\* Mutant: only what was already reversed is refused.
DecidableAnytime(op, status) == status \in {"SUBMITTED", "VERIFIED"}
\* A claim that waits may be verified or rejected, a verified one reversed.
Decidable(op, status) == status = (IF op = "REVERSED" THEN "VERIFIED" ELSE "SUBMITTED")

\* verify, reject, reverse: the status is read first ...
DecisionRead(c, p, op) ==
    /\ Decidable(op, payment[p].status)
    /\ Begin(c, [Idle EXCEPT !.op = op, !.stage = "read", !.payment = p])

\* ... and written by id, which waits for the row.
UpdatesPayment(c) ==
    /\ tx[c].stage = "read"
    /\ \A d \in Clerks \ {c} : ~HoldsPayment(d, tx[c].payment)

\* verify goes on: the late fee, the CREDIT, the allocation.
VerifyPost(c) ==
    /\ tx[c].op = "VERIFIED"
    /\ UpdatesPayment(c)
    /\ tx' = [tx EXCEPT ![c].stage = "posted"]
    /\ LET p == payment[tx[c].payment]
       IN charge' = [charge EXCEPT ![c] =
             IF p.bill = NoBill THEN NoCharge
             ELSE [late |-> LateFeeDue(p.bill, p.day), take |-> Take(p.bill, p.amount)]]
    /\ UNCHANGED <<books, crossed>>

\* Mutant: a payment may have several receipts.
AnyReceipts(p) == TRUE
\* FeeReceipt.paymentId is unique.
NoReceipt(p) == receipt[p] = 0

\* Mutant: numbers come from a sequence, which a rollback leaves advanced.
VerifyNumberSequence(c) ==
    /\ tx[c].op = "VERIFIED" /\ tx[c].stage = "posted"
    /\ \A d \in Clerks \ {c} : ~HoldsReceipts(d)
    /\ NoReceipt(tx[c].payment)
    /\ receipts' = receipts + 1
    /\ tx' = [tx EXCEPT ![c] = [tx[c] EXCEPT !.stage = "numbered", !.number = receipts + 1]]
    /\ UNCHANGED <<bill, payment, credit, debit, lateFee, alloc, receipt, invoices,
                   charge, crossed>>

\* fee_next_number, then the receipt.
VerifyNumber(c) ==
    /\ tx[c].op = "VERIFIED" /\ tx[c].stage = "posted"
    /\ \A d \in Clerks \ {c} : ~HoldsReceipts(d)
    /\ NoReceipt(tx[c].payment)
    /\ tx' = [tx EXCEPT ![c] = [tx[c] EXCEPT !.stage = "numbered", !.number = receipts + 1]]
    /\ UNCHANGED <<books, charge, crossed>>

\* reject and reverse.
DecisionPost(c) ==
    /\ tx[c].op \in {"REJECTED", "REVERSED"}
    /\ UpdatesPayment(c)
    /\ tx' = [tx EXCEPT ![c].stage = "posted"]
    /\ UNCHANGED <<books, charge, crossed>>

\* The transactions end: other requests see what they wrote.
VerifyCommit(c) ==
    /\ tx[c].op = "VERIFIED" /\ tx[c].stage = "numbered"
    /\ LET p == tx[c].payment IN
       /\ payment' = [payment EXCEPT ![p].status = "VERIFIED"]
       /\ credit' = [credit EXCEPT ![p] = @ + 1]
       /\ lateFee' = IF payment[p].bill = NoBill THEN lateFee
                     ELSE [lateFee EXCEPT ![payment[p].bill] = @ + charge[c].late]
       /\ alloc' = [alloc EXCEPT ![p] = charge[c].take]
       /\ receipt' = [receipt EXCEPT ![p] = tx[c].number]
    /\ receipts' = tx[c].number
    /\ End(c)
    /\ UNCHANGED <<bill, debit, invoices>>

RejectCommit(c) ==
    /\ tx[c].op = "REJECTED" /\ tx[c].stage = "posted"
    /\ payment' = [payment EXCEPT ![tx[c].payment].status = "REJECTED"]
    /\ End(c)
    /\ UNCHANGED <<bill, credit, debit, lateFee, alloc, receipt, receipts, invoices>>

\* An opposing DEBIT; the allocations are deleted, the late fee stays.
ReverseCommit(c) ==
    /\ tx[c].op = "REVERSED" /\ tx[c].stage = "posted"
    /\ LET p == tx[c].payment IN
       /\ payment' = [payment EXCEPT ![p].status = "REVERSED"]
       /\ debit' = [debit EXCEPT ![p] = @ + 1]
       /\ alloc' = [alloc EXCEPT ![p] = Nothing]
    /\ End(c)
    /\ UNCHANGED <<bill, credit, lateFee, receipt, receipts, invoices>>

-----------------------------------------------------------------------------
(* Billing a term.                                                         *)

\* Mutant: a student counts as new if this term is not billed yet.
BilledThisTerm(b) == Issued(b)
EverBilled(b) == BillsOf(StudentOf[b]) # {}

\* computeTerm: who has no bill for the term, and who never had one.
ToBill(t) == {b \in Bills : TermOf[b] = t /\ ~Issued(b)}
GenerateRead(c, t) ==
    /\ ToBill(t) # {}
    /\ Begin(c, [Idle EXCEPT !.op = "generate", !.stage = "read", !.term = t, !.bills = ToBill(t),
                             !.first = {b \in ToBill(t) : ~EverBilled(b)}])

\* "0 new bills".
GenerateNothing(c, t) ==
    /\ tx[c].stage = "idle" /\ ToBill(t) = {}
    /\ UNCHANGED vars

\* fee_next_block.
GenerateNumber(c) ==
    /\ tx[c].op = "generate" /\ tx[c].stage = "read"
    /\ \A d \in Clerks \ {c} : ~HoldsInvoices(d)
    /\ tx' = [tx EXCEPT ![c] = [tx[c] EXCEPT !.stage = "numbered", !.number = invoices + 1]]
    /\ UNCHANGED <<books, charge, crossed>>

\* Invoices, lines and ledger debits; a bill that exists by now fails them all.
GenerateCommit(c) ==
    /\ tx[c].op = "generate" /\ tx[c].stage = "numbered"
    /\ \A b \in tx[c].bills : ~Issued(b)
    /\ LET last == tx[c].number + Cardinality(tx[c].bills) - 1 IN
       /\ \E number \in Bijection(tx[c].bills, tx[c].number..last) :
             bill' = [b \in Bills |-> IF b \in tx[c].bills
                        THEN [number |-> number[b], oneTime |-> b \in tx[c].first] ELSE bill[b]]
       /\ invoices' = last
    /\ End(c)
    /\ UNCHANGED <<payment, credit, debit, lateFee, alloc, receipt, receipts>>

-----------------------------------------------------------------------------

Office(c) ==
    \/ \E p \in Payments, op \in Kinds : DecisionRead(c, p, op)
    \/ \E t \in Terms : GenerateRead(c, t) \/ GenerateNothing(c, t)
    \/ VerifyPost(c) \/ DecisionPost(c) \/ VerifyNumber(c)
    \/ VerifyCommit(c) \/ RejectCommit(c) \/ ReverseCommit(c)
    \/ GenerateNumber(c) \/ GenerateCommit(c) \/ Abort(c)

Next ==
    \/ \E p \in Payments, claim \in Claims : Submit(p, claim)
    \/ \E c \in Clerks : Office(c)

Spec == Init /\ [][Next]_vars

-----------------------------------------------------------------------------
(* Properties.                                                             *)

\* However requests overlap, a payment is credited to the ledger at most once:
\* two verifications read SUBMITTED, and only one gets past the receipt.
CreditedOnce == \A p \in Payments : credit[p] <= 1

\* Receipt and invoice numbers have no gaps and no repeats, whatever is rolled
\* back ("the series stays gap-free", FeeCounter).
Gapless(number, last) ==
    /\ \A x \in DOMAIN number : number[x] <= last
    /\ \A n \in 1..last : \E x \in DOMAIN number : number[x] = n
    /\ \A x, y \in DOMAIN number : x # y /\ number[x] > 0 => number[x] # number[y]
NumbersGapless ==
    /\ Gapless(receipt, receipts)
    /\ Gapless([b \in Bills |-> bill[b].number], invoices)

\* What is on paper stays: a bill is immutable once issued (FeeInvoice) and a
\* receipt keeps its number, however often a payment is decided.
PapersStand ==
    [][/\ \A b \in Bills : Issued(b) => bill'[b] = bill[b]
       /\ \A p \in Payments : receipt[p] > 0 => receipt'[p] = receipt[p]]_vars

\* What follows is promised only to a student about whom no two office
\* requests were ever in flight at once, whatever goes on about others.
Undisturbed == Students \ crossed

\* Payments never pay more of a line than was billed: a surplus stays a
\* credit balance (allocate), through reversals too.
LinesNotOverpaid ==
    \A b \in Bills : StudentOf[b] \in Undisturbed =>
        \A l \in Lines : Allocated(b, l) <= NetOf(b, l)

\* However many payments settle a bill, and however often they are reversed,
\* its late fee is at most what the rule asks of the latest of them
\* ("charges the extra days once, not twice", chargeLateFee).
LateFeeWithinRule ==
    \A b \in Bills : StudentOf[b] \in Undisturbed =>
        lateFee[b] = 0 \/ \E p \in PaymentsOf(b) :
            credit[p] > 0 /\ lateFee[b] <= Accrued(b, payment[p].day, Total(b))

\* A one-time category is on one bill of a student ("billed on a student's
\* very first bill only", fee-lines).
OneTimeBilledOnce ==
    \A a, b \in Bills :
        /\ StudentOf[a] = StudentOf[b] /\ StudentOf[a] \in Undisturbed
        /\ bill[a].oneTime /\ bill[b].oneTime
        => a = b

\* The statement a family sees agrees with the ledger the balance is summed
\* from: credits less reversals are the payments shown as VERIFIED.
StatementAgrees ==
    \A p \in Payments : payment[p].student \in Undisturbed =>
        credit[p] - debit[p] = IF payment[p].status = "VERIFIED" THEN 1 ELSE 0
====
