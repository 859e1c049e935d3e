---- MODULE FeesProofs ----
(***************************************************************************)
(* What the row locks of the fees office guarantee, for any number of      *)
(* office requests, payments, students and bills: a payment is credited at *)
(* most once and the numbers of receipts and invoices have no gaps.        *)
(*                                                                         *)
(* The argument: at most one request is past its update of a payment, and  *)
(* at most one holds each counter; what a holder has read of the counter   *)
(* is still its value, and the payment it receipts has no receipt yet.     *)
(* Of a student about whom no two requests crossed, what was worked out    *)
(* from the sums over lines and payments is still right at the commit.     *)
(***************************************************************************)
EXTENDS Fees, FiniteSetTheorems, WellFoundedInduction, TLAPS

\* What each request holds: about one payment or one term, never both.
Shape ==
    \A c \in Clerks :
        /\ tx[c].op = "none" <=> tx[c].stage = "idle"
        /\ tx[c].op \in Kinds => tx[c].payment \in Payments
        /\ tx[c].op \in {"none", "generate"} => tx[c].payment = NoPayment
        /\ tx[c].op = "generate" => tx[c].stage \in {"read", "numbered"}

OneHolder ==
    \A c, d \in Clerks : c # d =>
        /\ \A p \in Payments : ~(HoldsPayment(c, p) /\ HoldsPayment(d, p))
        /\ ~(HoldsReceipts(c) /\ HoldsReceipts(d))
        /\ ~(HoldsInvoices(c) /\ HoldsInvoices(d))

\* What the holder of a counter read of it is still so.
HeldNumbers ==
    \A c \in Clerks :
        /\ HoldsReceipts(c) => tx[c].number = receipts + 1 /\ receipt[tx[c].payment] = 0
        /\ HoldsInvoices(c) => tx[c].number = invoices + 1

CreditHasReceipt == \A p \in Payments : credit[p] = IF receipt[p] > 0 THEN 1 ELSE 0

Typed == RequestsTyped /\ BooksTyped

FeesInv == Typed /\ Shape /\ OneHolder /\ HeldNumbers /\ CreditHasReceipt /\ NumbersGapless

LEMMA InitFees == ASSUME Init PROVE FeesInv
  BY FeesAssumption DEF Init, FeesInv, Typed, RequestsTyped, BooksTyped, RequestType, PaymentType,
     Stages, Kinds, Idle, Shape, OneHolder, HoldsPayment, HoldsReceipts, HoldsInvoices,
     HeldNumbers, CreditHasReceipt, NumbersGapless, Gapless

-----------------------------------------------------------------------------
(* Requests that have not committed: the books are as they were.           *)

LEMMA BooksSame ==
    ASSUME FeesInv, UNCHANGED books
    PROVE  (BooksTyped /\ CreditHasReceipt /\ NumbersGapless)'
  BY DEF books, FeesInv, Typed, BooksTyped, CreditHasReceipt, NumbersGapless

LEMMA IdleTyped == Idle \in RequestType
  BY DEF Idle, RequestType, Stages

\* A request that enters a stage in which it holds nothing: begun or ended.
LEMMA HoldsNothing ==
    ASSUME FeesInv, NEW c \in Clerks, NEW t \in RequestType,
           tx' = [tx EXCEPT ![c] = t], t.stage \in {"idle", "read"},
           t.op = "none" <=> t.stage = "idle",
           t.op \in Kinds => t.payment \in Payments,
           t.op \in {"none", "generate"} => t.payment = NoPayment,
           UNCHANGED books
    PROVE  FeesInv'
  <1> USE DEF FeesInv, Typed, RequestsTyped
  <1>1. RequestsTyped' OBVIOUS
  <1>2. Shape' BY DEF Shape
  <1>3. OneHolder' BY DEF OneHolder, HoldsPayment, HoldsReceipts, HoldsInvoices
  <1>4. HeldNumbers' BY DEF HeldNumbers, HoldsReceipts, HoldsInvoices, books
  <1> QED BY <1>1, <1>2, <1>3, <1>4, BooksSame

LEMMA DecisionReadStep ==
    ASSUME FeesInv, NEW c \in Clerks, NEW p \in Payments, NEW op \in Kinds, DecisionRead(c, p, op)
    PROVE  FeesInv'
  <1> DEFINE t == [Idle EXCEPT !.op = op, !.stage = "read", !.payment = p]
  <1>1. t \in RequestType BY DEF Idle, RequestType, Stages
  <1>2. t.stage = "read" /\ t.op = op /\ t.payment = p BY DEF Idle
  <1>3. tx' = [tx EXCEPT ![c] = t] /\ UNCHANGED books BY DEF DecisionRead, Begin
  <1> HIDE DEF t
  <1> QED BY <1>1, <1>2, <1>3, HoldsNothing DEF Kinds

LEMMA GenerateReadStep ==
    ASSUME FeesInv, NEW c \in Clerks, NEW t \in Terms, GenerateRead(c, t)
    PROVE  FeesInv'
  <1> DEFINE r == [Idle EXCEPT !.op = "generate", !.stage = "read", !.term = t, !.bills = ToBill(t),
                               !.first = {b \in ToBill(t) : ~EverBilled(b)}]
  <1>0. ToBill(t) \subseteq Bills BY DEF ToBill
  <1>1. r \in RequestType BY <1>0 DEF Idle, RequestType, Stages
  <1>2. r.stage = "read" /\ r.op = "generate" /\ r.payment = NoPayment BY DEF Idle
  <1>3. tx' = [tx EXCEPT ![c] = r] /\ UNCHANGED books BY DEF GenerateRead, Begin
  <1> HIDE DEF r
  <1> QED BY <1>1, <1>2, <1>3, HoldsNothing DEF Kinds

LEMMA AbortStep == ASSUME FeesInv, NEW c \in Clerks, Abort(c) PROVE FeesInv'
  <1>1. Idle.stage = "idle" /\ Idle.op = "none" /\ Idle.payment = NoPayment BY DEF Idle
  <1> QED BY <1>1, IdleTyped, HoldsNothing DEF Abort, End, Kinds

\* verify, reject and reverse update the payment nobody else has updated.
LEMMA PostStep ==
    ASSUME FeesInv, NEW c \in Clerks, tx[c].op \in Kinds, UpdatesPayment(c),
           tx' = [tx EXCEPT ![c].stage = "posted"], UNCHANGED books
    PROVE  FeesInv'
  <1> USE DEF FeesInv, Typed, RequestsTyped
  <1> DEFINE t == [tx[c] EXCEPT !.stage = "posted"]
  <1>1. t \in RequestType BY DEF RequestType, Stages
  <1>2. tx' = [tx EXCEPT ![c] = t] OBVIOUS
  <1>3. t.stage = "posted" /\ t.op = tx[c].op /\ t.payment = tx[c].payment BY DEF RequestType
  <1> HIDE DEF t
  <1>4. RequestsTyped' BY <1>1, <1>2
  <1>5. Shape' BY <1>2, <1>3 DEF Shape, Kinds
  <1>6. OneHolder'
    BY <1>2, <1>3 DEF OneHolder, UpdatesPayment, HoldsPayment, HoldsReceipts, HoldsInvoices
  <1>7. HeldNumbers' BY <1>2, <1>3 DEF HeldNumbers, HoldsReceipts, HoldsInvoices, books
  <1> QED BY <1>4, <1>5, <1>6, <1>7, BooksSame

\* A counter nobody else holds is advanced.
LEMMA VerifyNumberStep == ASSUME FeesInv, NEW c \in Clerks, VerifyNumber(c) PROVE FeesInv'
  <1> USE DEF FeesInv, Typed, RequestsTyped, VerifyNumber
  <1> DEFINE t == [tx[c] EXCEPT !.stage = "numbered", !.number = receipts + 1]
  <1>0. tx[c] \in RequestType /\ receipts + 1 \in Nat BY DEF BooksTyped
  <1>1. t \in RequestType BY ONLY <1>0 DEF t, RequestType, Stages
  <1>2. tx' = [tx EXCEPT ![c] = t] /\ UNCHANGED books OBVIOUS
  <1>3. /\ t.stage = "numbered" /\ t.op = tx[c].op /\ t.payment = tx[c].payment
        /\ t.number = receipts + 1
    BY DEF RequestType
  <1> HIDE DEF t
  <1>4. RequestsTyped' BY <1>1, <1>2
  <1>5. Shape' BY <1>2, <1>3 DEF Shape, Kinds
  <1>6. OneHolder'
    BY <1>2, <1>3 DEF OneHolder, HoldsPayment, HoldsReceipts, HoldsInvoices
  <1>7. HeldNumbers' BY <1>2, <1>3 DEF HeldNumbers, HoldsReceipts, HoldsInvoices, books, NoReceipt
  <1> QED BY <1>2, <1>4, <1>5, <1>6, <1>7, BooksSame

LEMMA GenerateNumberStep == ASSUME FeesInv, NEW c \in Clerks, GenerateNumber(c) PROVE FeesInv'
  <1> USE DEF FeesInv, Typed, RequestsTyped, GenerateNumber
  <1> DEFINE t == [tx[c] EXCEPT !.stage = "numbered", !.number = invoices + 1]
  <1>0. tx[c] \in RequestType /\ invoices + 1 \in Nat BY DEF BooksTyped
  <1>1. t \in RequestType BY ONLY <1>0 DEF t, RequestType, Stages
  <1>2. tx' = [tx EXCEPT ![c] = t] /\ UNCHANGED books OBVIOUS
  <1>3. /\ t.stage = "numbered" /\ t.op = tx[c].op /\ t.payment = tx[c].payment
        /\ t.number = invoices + 1
    BY DEF RequestType
  <1> HIDE DEF t
  <1>4. RequestsTyped' BY <1>1, <1>2
  <1>5. Shape' BY <1>2, <1>3 DEF Shape, Kinds
  <1>6. OneHolder'
    BY <1>2, <1>3, FeesAssumption DEF OneHolder, Shape, HoldsPayment, HoldsReceipts, HoldsInvoices
  <1>7. HeldNumbers' BY <1>2, <1>3 DEF HeldNumbers, HoldsReceipts, HoldsInvoices, books
  <1> QED BY <1>2, <1>4, <1>5, <1>6, <1>7, BooksSame

-----------------------------------------------------------------------------
(* Commits.                                                                *)

LEMMA Ends ==
    ASSUME FeesInv, NEW c \in Clerks, End(c)
    PROVE  /\ (RequestsTyped /\ Shape /\ OneHolder)'
           /\ tx'[c] = Idle
           /\ \A d \in Clerks : d # c => tx'[d] = tx[d]
  <1> USE DEF FeesInv, Typed, RequestsTyped, End
  <1>0. Idle.stage = "idle" /\ Idle.op = "none" /\ Idle.payment = NoPayment BY DEF Idle
  <1>1. RequestsTyped' BY IdleTyped
  <1>2. Shape' BY <1>0 DEF Shape, Kinds
  <1>3. OneHolder' BY <1>0 DEF OneHolder, HoldsPayment, HoldsReceipts, HoldsInvoices
  <1> QED BY <1>1, <1>2, <1>3

LEMMA StatusTyped ==
    ASSUME BooksTyped, NEW p \in Payments, NEW s \in Kinds
    PROVE  [payment EXCEPT ![p].status = s] \in [Payments -> PaymentType]
  <1>1. payment[p] \in PaymentType BY DEF BooksTyped
  <1>2. [payment[p] EXCEPT !.status = s] \in PaymentType BY ONLY <1>1, s \in Kinds DEF PaymentType
  <1> QED BY <1>2 DEF BooksTyped

\* reject and reverse touch neither receipts nor credits.
LEMMA RejectOrReverseStep ==
    ASSUME FeesInv, NEW c \in Clerks, RejectCommit(c) \/ ReverseCommit(c) PROVE FeesInv'
  <1> USE DEF RejectCommit, ReverseCommit
  <1>0. End(c) /\ UNCHANGED <<bill, credit, receipt, receipts, invoices>> OBVIOUS
  <1>1. tx[c].payment \in Payments BY DEF FeesInv, Shape, Kinds
  <1>2. (RequestsTyped /\ Shape /\ OneHolder)' BY <1>0, Ends
  <1>3. BooksTyped'
    <2>1. BooksTyped BY DEF FeesInv, Typed
    <2>2. PICK s \in Kinds : payment' = [payment EXCEPT ![tx[c].payment].status = s]
      BY DEF Kinds
    <2>a. payment' \in [Payments -> PaymentType] BY ONLY <2>1, <2>2, <1>1, StatusTyped
    <2>3. debit' \in [Payments -> Nat] BY <2>1, <1>1 DEF BooksTyped
    <2> QED BY <2>1, <2>a, <2>3, <1>0 DEF BooksTyped
  <1>4. HeldNumbers'
    BY <1>0, Ends DEF FeesInv, HeldNumbers, HoldsReceipts, HoldsInvoices, Idle
  <1>5. (CreditHasReceipt /\ NumbersGapless)'
    BY <1>0 DEF FeesInv, CreditHasReceipt, NumbersGapless
  <1> QED BY <1>2, <1>3, <1>4, <1>5 DEF FeesInv, Typed

LEMMA GaplessGrows ==
    ASSUME NEW S, NEW f \in [S -> Nat], NEW n \in Nat, Gapless(f, n), NEW x \in S, f[x] = 0
    PROVE  Gapless([f EXCEPT ![x] = n + 1], n + 1)
  BY DEF Gapless

LEMMA VerifyCommitStep == ASSUME FeesInv, NEW c \in Clerks, VerifyCommit(c) PROVE FeesInv'
  <1> DEFINE p == tx[c].payment
  <1>0. /\ BooksTyped /\ RequestsTyped
        /\ HoldsReceipts(c) /\ End(c) /\ UNCHANGED <<bill, debit, invoices>>
    BY DEF FeesInv, Typed, VerifyCommit, HoldsReceipts
  <1>1. p \in Payments BY DEF VerifyCommit, FeesInv, Shape, Kinds
  <1>2. receipt[p] = 0 /\ credit[p] = 0 /\ tx[c].number = receipts + 1
    BY <1>0, <1>1 DEF FeesInv, HeldNumbers, CreditHasReceipt
  <1>3. /\ credit' = [credit EXCEPT ![p] = 1]
        /\ receipt' = [receipt EXCEPT ![p] = receipts + 1] /\ receipts' = receipts + 1
        /\ payment' = [payment EXCEPT ![p].status = "VERIFIED"]
    <2>1. credit' = [credit EXCEPT ![p] = credit[p] + 1] BY DEF VerifyCommit
    <2> QED BY <2>1, <1>2 DEF VerifyCommit
  <1> HIDE DEF p
  <1>4. (RequestsTyped /\ Shape /\ OneHolder)' BY <1>0, Ends
  <1>5. BooksTyped'
    <2>1. payment' \in [Payments -> PaymentType] BY <1>0, <1>1, <1>3, StatusTyped DEF Kinds
    <2> QED BY <2>1, <1>0, <1>1, <1>3 DEF BooksTyped
  <1>6. HeldNumbers'
    <2>1. ASSUME NEW d \in Clerks, HoldsReceipts(d)' PROVE FALSE
      BY <2>1, <1>0, Ends DEF FeesInv, OneHolder, HoldsReceipts, Idle
    <2>2. ASSUME NEW d \in Clerks, HoldsInvoices(d)' PROVE (tx[d].number = invoices + 1)'
      BY <2>2, <1>0, Ends DEF FeesInv, HeldNumbers, HoldsInvoices, Idle
    <2> QED BY <2>1, <2>2 DEF HeldNumbers
  <1>7. CreditHasReceipt' BY <1>0, <1>1, <1>3 DEF FeesInv, CreditHasReceipt, BooksTyped
  <1>8. NumbersGapless'
    BY <1>0, <1>1, <1>2, <1>3, GaplessGrows DEF FeesInv, NumbersGapless, BooksTyped
  <1> QED BY <1>4, <1>5, <1>6, <1>7, <1>8 DEF FeesInv, Typed

\* A block of numbers given one each to bills that had none.
LEMMA GaplessBlock ==
    ASSUME NEW S, NEW f \in [S -> Nat], NEW n \in Nat, Gapless(f, n),
           NEW B \in SUBSET S, \A b \in B : f[b] = 0,
           NEW k \in Nat, NEW g \in Bijection(B, (n + 1)..(n + k))
    PROVE  Gapless([x \in S |-> IF x \in B THEN g[x] ELSE f[x]], n + k)
  <1> DEFINE h == [x \in S |-> IF x \in B THEN g[x] ELSE f[x]]
  <1>0. /\ g \in [B -> (n + 1)..(n + k)]
        /\ \A a, b \in B : g[a] = g[b] => a = b
        /\ \A i \in (n + 1)..(n + k) : \E b \in B : g[b] = i
    BY DEF Bijection, Injection, Surjection, IsInjective
  <1>1. \A x \in S : h[x] <= n + k BY <1>0 DEF Gapless
  <1>2. ASSUME NEW i \in 1..(n + k) PROVE \E x \in S : h[x] = i
    <2>1. CASE i \in 1..n
      <3>1. PICK x \in S : f[x] = i BY <2>1 DEF Gapless
      <3> QED BY <3>1, <2>1
    <2>2. CASE i \in (n + 1)..(n + k) BY <2>2, <1>0
    <2> QED BY <2>1, <2>2
  <1>3. ASSUME NEW x \in S, NEW y \in S, x # y, h[x] > 0 PROVE h[x] # h[y]
    BY <1>0, <1>3 DEF Gapless
  <1> QED BY <1>1, <1>2, <1>3 DEF Gapless

LEMMA GenerateCommitStep == ASSUME FeesInv, NEW c \in Clerks, GenerateCommit(c) PROVE FeesInv'
  <1> DEFINE B == tx[c].bills
             k == Cardinality(B)
  <1>0. /\ BooksTyped /\ RequestsTyped
        /\ HoldsInvoices(c) /\ End(c)
        /\ UNCHANGED <<payment, credit, debit, receipt, receipts>>
        /\ \A b \in B : ~Issued(b)
    BY DEF FeesInv, Typed, GenerateCommit, HoldsInvoices
  <1>1. B \in SUBSET Bills BY <1>0 DEF RequestsTyped, RequestType
  <1>2. k \in Nat BY <1>1, FeesAssumption, FS_Subset, FS_CardinalityType
  <1>3. tx[c].number = invoices + 1 /\ invoices \in Nat
    BY <1>0 DEF FeesInv, HeldNumbers, BooksTyped
  <1>4. invoices' = invoices + k BY <1>2, <1>3 DEF GenerateCommit
  <1>5. PICK g \in Bijection(B, (invoices + 1)..(invoices + k)) :
          bill' = [b \in Bills |-> IF b \in B THEN [number |-> g[b], oneTime |-> b \in tx[c].first]
                                   ELSE bill[b]]
    <2>1. (invoices + 1) + k - 1 = invoices + k BY <1>2, <1>3
    <2> QED BY <2>1, <1>3 DEF GenerateCommit
  <1> HIDE DEF B, k
  <1>6. g \in [B -> (invoices + 1)..(invoices + k)] BY DEF Bijection, Injection
  <1>7. \A b \in Bills : bill'[b].number = IF b \in B THEN g[b] ELSE bill[b].number
    BY <1>5
  <1>8. (RequestsTyped /\ Shape /\ OneHolder)' BY <1>0, Ends
  <1>9. BooksTyped'
    <2>1. \A b \in B : g[b] \in Nat BY <1>6, <1>2, <1>3
    <2>2. bill' \in [Bills -> [number : Nat, oneTime : BOOLEAN]]
      BY <2>1, <1>0, <1>5 DEF BooksTyped
    <2> QED BY <2>2, <1>0, <1>2, <1>3, <1>4 DEF BooksTyped
  <1>10. HeldNumbers'
    <2>1. ASSUME NEW d \in Clerks, HoldsInvoices(d)' PROVE FALSE
      BY <2>1, <1>0, Ends DEF FeesInv, OneHolder, HoldsInvoices, Idle
    <2>2. ASSUME NEW d \in Clerks, HoldsReceipts(d)'
          PROVE  (tx[d].number = receipts + 1 /\ receipt[tx[d].payment] = 0)'
      BY <2>2, <1>0, Ends DEF FeesInv, HeldNumbers, HoldsReceipts, Idle
    <2> QED BY <2>1, <2>2 DEF HeldNumbers
  <1>11. CreditHasReceipt' BY <1>0 DEF FeesInv, CreditHasReceipt
  <1>12. NumbersGapless'
    <2> DEFINE f == [b \in Bills |-> bill[b].number]
    <2>1. f \in [Bills -> Nat] BY <1>0 DEF BooksTyped
    <2>2. Gapless(f, invoices) BY DEF FeesInv, NumbersGapless
    <2>3. \A b \in B : f[b] = 0 BY <1>0, <1>1, <2>1 DEF Issued, B
    <2> DEFINE h == [b \in Bills |-> IF b \in B THEN g[b] ELSE f[b]]
    <2>4. [b \in Bills |-> bill[b].number]' = h BY <1>7
    <2> HIDE DEF f
    <2>5. Gapless(h, invoices + k) BY <2>1, <2>2, <2>3, <1>1, <1>2, <1>3, GaplessBlock
    <2> QED BY <2>4, <2>5, <1>0, <1>4 DEF FeesInv, NumbersGapless
  <1> QED BY <1>8, <1>9, <1>10, <1>11, <1>12 DEF FeesInv, Typed

-----------------------------------------------------------------------------

LEMMA SubmitStep ==
    ASSUME FeesInv, NEW p \in Payments, NEW claim \in Claims, Submit(p, claim)
    PROVE  FeesInv'
  <1> USE DEF FeesInv, Typed, Submit
  <1>1. [status |-> "SUBMITTED", student |-> claim.student, bill |-> claim.bill,
         amount |-> claim.amount, day |-> claim.day] \in PaymentType
    BY FeesAssumption DEF PaymentType
  <1>2. payment' \in [Payments -> PaymentType] BY <1>1 DEF BooksTyped
  <1>3. Typed' BY <1>2 DEF RequestsTyped, BooksTyped
  <1>4. (Shape /\ OneHolder)'
    BY DEF Shape, OneHolder, HoldsPayment, HoldsReceipts, HoldsInvoices
  <1>5. (HeldNumbers /\ CreditHasReceipt /\ NumbersGapless)'
    BY DEF HeldNumbers, HoldsReceipts, HoldsInvoices, CreditHasReceipt, NumbersGapless
  <1> QED BY <1>3, <1>4, <1>5

LEMMA FeesStep == ASSUME FeesInv, [Next]_vars PROVE FeesInv'
  <1>1. CASE UNCHANGED vars
    BY <1>1 DEF vars, FeesInv, Typed, RequestsTyped, BooksTyped, Shape, OneHolder, HoldsPayment,
       HoldsReceipts, HoldsInvoices, HeldNumbers, CreditHasReceipt, NumbersGapless
  <1>2. ASSUME NEW p \in Payments, NEW claim \in Claims, Submit(p, claim) PROVE FeesInv'
    BY <1>2, SubmitStep
  <1>3. ASSUME NEW c \in Clerks, Office(c) PROVE FeesInv'
    <2>1. ASSUME NEW p \in Payments, NEW op \in Kinds, DecisionRead(c, p, op) PROVE FeesInv'
      BY <2>1, DecisionReadStep
    <2>2. ASSUME NEW t \in Terms, GenerateRead(c, t) PROVE FeesInv'
      BY <2>2, GenerateReadStep
    <2>3. ASSUME NEW t \in Terms, GenerateNothing(c, t) PROVE FeesInv'
      BY <2>3, <1>1 DEF GenerateNothing
    <2>4. CASE VerifyPost(c) BY <2>4, PostStep DEF VerifyPost, Kinds
    <2>5. CASE DecisionPost(c) BY <2>5, PostStep DEF DecisionPost, Kinds
    <2>6. CASE VerifyNumber(c) BY <2>6, VerifyNumberStep
    <2>7. CASE VerifyCommit(c) BY <2>7, VerifyCommitStep
    <2>8. CASE RejectCommit(c) \/ ReverseCommit(c) BY <2>8, RejectOrReverseStep
    <2>9. CASE GenerateNumber(c) BY <2>9, GenerateNumberStep
    <2>10. CASE GenerateCommit(c) BY <2>10, GenerateCommitStep
    <2>11. CASE Abort(c) BY <2>11, AbortStep
    <2> QED BY <1>3, <2>1, <2>2, <2>3, <2>4, <2>5, <2>6, <2>7, <2>8, <2>9, <2>10, <2>11 DEF Office
  <1> QED BY <1>1, <1>2, <1>3 DEF Next

-----------------------------------------------------------------------------

\* At most one request is past its update of a payment and at most one holds
\* each counter, what it read there is still so, and a payment is credited
\* exactly when it has a receipt (fee-payment.service, fee_next_number).
THEOREM LocksHold == Spec => []FeesInv
  BY InitFees, FeesStep, PTL DEF Spec

\* However requests overlap and whatever is rolled back, no payment is
\* credited to the ledger twice (verify).
THEOREM CreditedAtMostOnce == Spec => []CreditedOnce
  <1>1. FeesInv => CreditedOnce BY DEF FeesInv, CreditHasReceipt, CreditedOnce
  <1> QED BY <1>1, LocksHold, PTL

\* The receipts and the invoices of a school are numbered 1, 2, 3 ... without
\* a gap or a repeat (fee_next_number, fee_next_block).
THEOREM SeriesGapless == Spec => []NumbersGapless
  <1>1. FeesInv => NumbersGapless BY DEF FeesInv
  <1> QED BY <1>1, LocksHold, PTL

\* An issued bill is never changed and a receipt never renumbered.
THEOREM PapersNeverChange == Spec => PapersStand
  <1> DEFINE Stand == /\ \A b \in Bills : Issued(b) => bill'[b] = bill[b]
                      /\ \A p \in Payments : receipt[p] > 0 => receipt'[p] = receipt[p]
  <1>1. ASSUME FeesInv, [Next]_vars PROVE [Stand]_vars
    <2> SUFFICES ASSUME Next PROVE Stand BY <1>1
    <2>1. ASSUME NEW p \in Payments, NEW claim \in Claims, Submit(p, claim) PROVE Stand
      BY <2>1 DEF Submit
    <2>2. ASSUME NEW c \in Clerks, Office(c) PROVE Stand
      <3>1. CASE VerifyCommit(c)
        <4>1. receipt[tx[c].payment] = 0
          BY <3>1, <1>1 DEF VerifyCommit, FeesInv, HeldNumbers, HoldsReceipts
        <4>2. \A p \in Payments : p # tx[c].payment => receipt'[p] = receipt[p]
          BY <3>1, <1>1 DEF VerifyCommit, FeesInv, Typed, BooksTyped
        <4> QED BY <4>1, <4>2, <3>1 DEF VerifyCommit
      <3>2. CASE GenerateCommit(c)
        BY <3>2 DEF GenerateCommit, Issued
      <3>3. CASE UNCHANGED <<bill, receipt>> BY <3>3
      <3> QED
        BY <2>2, <3>1, <3>2, <3>3
        DEF Office, DecisionRead, GenerateRead, GenerateNothing, VerifyPost, DecisionPost,
            VerifyNumber, RejectCommit, ReverseCommit, GenerateNumber, Abort, Begin, books, vars
    <2> QED BY <2>1, <2>2 DEF Next
  <1> QED BY <1>1, LocksHold, PTL DEF Spec, PapersStand

-----------------------------------------------------------------------------
(* The statement.  Two requests about one student that were ever in flight *)
(* at once have crossed; without that, what a decision read of its payment *)
(* still stands when it commits.                                           *)

Alone ==
    \A c, d \in Clerks : c # d => About(tx[c]) \intersect About(tx[d]) \subseteq crossed

Claimed ==
    /\ \A c \in Clerks : tx[c].op \in Kinds => payment[tx[c].payment].status # "none"
    /\ \A p \in Payments : payment[p].status = "none" => credit[p] = 0 /\ debit[p] = 0

ReadStands ==
    \A c \in Clerks :
        tx[c].op \in Kinds /\ payment[tx[c].payment].student \notin crossed
        => Decidable(tx[c].op, payment[tx[c].payment].status)

StatementInv == FeesInv /\ Alone /\ Claimed /\ ReadStands /\ StatementAgrees

LEMMA InitStatement == ASSUME Init PROVE StatementInv
  <1>1. FeesInv BY InitFees
  <1>2. Alone BY DEF Init, Alone, About, Idle
  <1>3. Claimed /\ ReadStands BY DEF Init, Claimed, ReadStands, Idle, Kinds
  <1>4. StatementAgrees BY DEF Init, StatementAgrees
  <1> QED BY <1>1, <1>2, <1>3, <1>4 DEF StatementInv

\* A request begins: it crosses whoever is about the same student.
LEMMA BeginStands ==
    ASSUME StatementInv, NEW c \in Clerks, NEW t \in RequestType, Begin(c, t), FeesInv',
           t.op \in Kinds => /\ t.payment \in Payments
                             /\ Decidable(t.op, payment[t.payment].status)
    PROVE  StatementInv'
  <1> USE DEF StatementInv
  <1>1. /\ tx' = [tx EXCEPT ![c] = t] /\ UNCHANGED <<payment, credit, debit>>
        /\ crossed' = crossed \union UNION {About(t) \intersect About(tx[d]) : d \in Clerks \ {c}}
        /\ tx \in [Clerks -> RequestType]
    BY DEF Begin, books, FeesInv, Typed, RequestsTyped
  <1>2. Alone'
    <2> SUFFICES ASSUME NEW d \in Clerks, NEW e \in Clerks, d # e
                 PROVE  (About(tx[d]) \intersect About(tx[e]) \subseteq crossed)'
      BY DEF Alone
    <2>1. \A r : About(r)' = About(r) BY <1>1 DEF About
    <2>2. CASE d # c /\ e # c BY <2>2, <2>1, <1>1 DEF Alone
    <2>3. CASE d = c BY <2>3, <2>1, <1>1
    <2>4. CASE e = c BY <2>4, <2>1, <1>1
    <2> QED BY <2>2, <2>3, <2>4
  <1>3. (Claimed /\ ReadStands)' BY <1>1 DEF Claimed, ReadStands, Decidable
  <1>4. StatementAgrees' BY <1>1 DEF StatementAgrees, Undisturbed
  <1> QED BY <1>2, <1>3, <1>4

\* A request goes on: whom it is about, and the books, are as they were.
LEMMA AdvanceStands ==
    ASSUME StatementInv, FeesInv', UNCHANGED <<payment, credit, debit, crossed>>,
           \A c \in Clerks : \/ tx'[c].op = "none"
                             \/ /\ tx'[c].op = tx[c].op /\ tx'[c].term = tx[c].term
                                /\ tx'[c].payment = tx[c].payment
    PROVE  StatementInv'
  <1> USE DEF StatementInv
  <1>1. \A c \in Clerks : (About(tx[c]))' \subseteq About(tx[c]) BY DEF About
  <1>2. Alone' BY <1>1 DEF Alone
  <1>3. (Claimed /\ ReadStands)' BY DEF Claimed, ReadStands, Kinds, Decidable
  <1>4. StatementAgrees' BY DEF StatementAgrees, Undisturbed
  <1> QED BY <1>2, <1>3, <1>4

LEMMA CommitStands ==
    ASSUME StatementInv, NEW c \in Clerks, FeesInv', End(c), NEW p \in Payments,
           tx[c].op \in Kinds, p = tx[c].payment,
           payment' = [payment EXCEPT ![p].status = tx[c].op],
           credit' = [credit EXCEPT ![p] = credit[p] + (IF tx[c].op = "VERIFIED" THEN 1 ELSE 0)],
           debit' = [debit EXCEPT ![p] = debit[p] + (IF tx[c].op = "REVERSED" THEN 1 ELSE 0)]
    PROVE  StatementInv'
  <1> USE DEF StatementInv
  <1>0. /\ payment \in [Payments -> PaymentType] /\ credit \in [Payments -> Nat]
        /\ debit \in [Payments -> Nat] /\ crossed' = crossed
        /\ payment[p] \in PaymentType
    BY DEF FeesInv, Typed, BooksTyped, End
  <1>1. tx'[c] = Idle /\ \A d \in Clerks : d # c => tx'[d] = tx[d] BY Ends
  <1>2. /\ \A q \in Payments : q # p => /\ payment'[q] = payment[q] /\ credit'[q] = credit[q]
                                        /\ debit'[q] = debit[q]
        /\ payment'[p].status = tx[c].op /\ payment'[p].student = payment[p].student
        /\ credit'[p] = credit[p] + (IF tx[c].op = "VERIFIED" THEN 1 ELSE 0)
        /\ debit'[p] = debit[p] + (IF tx[c].op = "REVERSED" THEN 1 ELSE 0)
    BY <1>0 DEF PaymentType
  <1>3. \A d \in Clerks : tx[d].op \in Kinds => tx[d].payment \in Payments
    BY DEF FeesInv, Shape
  <1>4. \A d \in Clerks : (About(tx[d]))' \subseteq About(tx[d])
    <2> TAKE d \in Clerks
    <2>1. CASE d = c BY <2>1, <1>1 DEF About, Idle
    <2>2. CASE d # c /\ tx[d].op \in Kinds BY <2>2, <1>1, <1>2, <1>3 DEF About, Kinds
    <2>3. CASE d # c /\ tx[d].op \in {"none", "generate"} BY <2>3, <1>1 DEF About
    <2> QED BY <2>1, <2>2, <2>3 DEF FeesInv, Typed, RequestsTyped, RequestType
  <1>5. Alone' BY <1>0, <1>4 DEF Alone
  <1>6. Claimed' BY <1>1, <1>2, <1>3 DEF Claimed, Kinds, Idle
  <1>7. ReadStands'
    <2> SUFFICES ASSUME NEW d \in Clerks, d # c, tx[d].op \in Kinds,
                        payment[tx[d].payment].student \notin crossed
                 PROVE  Decidable(tx[d].op, payment'[tx[d].payment].status)
      BY <1>0, <1>1, <1>2, <1>3 DEF ReadStands, Idle, Kinds, Decidable
    <2>1. tx[d].payment # p BY DEF Alone, About, Kinds
    <2> QED BY <2>1, <1>2, <1>3 DEF ReadStands
  <1>8. StatementAgrees'
    <2> SUFFICES ASSUME payment[p].student \in Undisturbed
                 PROVE  credit'[p] - debit'[p] = IF tx[c].op = "VERIFIED" THEN 1 ELSE 0
      BY <1>0, <1>2 DEF StatementAgrees, Undisturbed
    <2>1. Decidable(tx[c].op, payment[p].status) BY DEF ReadStands, Undisturbed
    <2>2. credit[p] - debit[p] = IF payment[p].status = "VERIFIED" THEN 1 ELSE 0
      BY DEF StatementAgrees
    <2> QED BY <2>1, <2>2, <1>0, <1>2 DEF Decidable, Kinds
  <1> QED BY <1>5, <1>6, <1>7, <1>8

LEMMA StatementStep == ASSUME StatementInv, [Next]_vars PROVE StatementInv'
  <1> USE DEF StatementInv
  <1>0. FeesInv' BY FeesStep
  <1>t. tx \in [Clerks -> RequestType] BY DEF FeesInv, Typed, RequestsTyped
  <1>1. CASE UNCHANGED vars BY <1>0, <1>1, AdvanceStands DEF vars
  <1>2. ASSUME NEW p \in Payments, NEW claim \in Claims, Submit(p, claim) PROVE StatementInv'
    <2>1. payment[p].status = "none" BY <1>2 DEF Submit
    <2>2. /\ \A q \in Payments : q # p => payment'[q] = payment[q]
          /\ payment'[p].status = "SUBMITTED"
          /\ UNCHANGED <<tx, credit, debit, crossed>>
      BY <1>2 DEF Submit, FeesInv, Typed, BooksTyped
    <2>3. \A c \in Clerks : tx[c].op \in Kinds => tx[c].payment \in Payments /\ tx[c].payment # p
      BY <2>1 DEF Claimed, FeesInv, Shape
    <2>4. \A c \in Clerks : (About(tx[c]))' = About(tx[c])
      BY <2>2, <2>3, <1>t DEF About, Kinds, RequestType
    <2>5. Alone' BY <2>2, <2>4 DEF Alone
    <2>6. (Claimed /\ ReadStands)' BY <2>1, <2>2, <2>3 DEF Claimed, ReadStands, Decidable
    <2>7. StatementAgrees' BY <2>1, <2>2 DEF StatementAgrees, Undisturbed, Claimed
    <2> QED BY <1>0, <2>5, <2>6, <2>7
  <1>3. ASSUME NEW c \in Clerks, Office(c) PROVE StatementInv'
    <2>1. ASSUME NEW p \in Payments, NEW op \in Kinds, DecisionRead(c, p, op) PROVE StatementInv'
      <3> DEFINE t == [Idle EXCEPT !.op = op, !.stage = "read", !.payment = p]
      <3>1. t \in RequestType BY DEF Idle, RequestType, Stages
      <3>2. t.op = op /\ t.payment = p BY DEF Idle
      <3>3. Begin(c, t) /\ Decidable(op, payment[p].status) BY <2>1 DEF DecisionRead
      <3> HIDE DEF t
      <3> QED BY <3>1, <3>2, <3>3, <1>0, BeginStands
    <2>2. ASSUME NEW t \in Terms, GenerateRead(c, t) PROVE StatementInv'
      <3> DEFINE r == [Idle EXCEPT !.op = "generate", !.stage = "read", !.term = t,
                                   !.bills = ToBill(t), !.first = {b \in ToBill(t) : ~EverBilled(b)}]
      <3>1. r \in RequestType
        <4>1. ToBill(t) \subseteq Bills BY DEF ToBill
        <4> QED BY <4>1 DEF Idle, RequestType, Stages
      <3>2. r.op = "generate" BY DEF Idle
      <3>3. Begin(c, r) BY <2>2 DEF GenerateRead
      <3> HIDE DEF r
      <3> QED BY <3>1, <3>2, <3>3, <1>0, BeginStands DEF Kinds
    <2>3. ASSUME NEW t \in Terms, GenerateNothing(c, t) PROVE StatementInv'
      BY <2>3, <1>1 DEF GenerateNothing
    <2>4. CASE VerifyPost(c) \/ DecisionPost(c) \/ VerifyNumber(c) \/ GenerateNumber(c)
      <3>1. UNCHANGED <<payment, credit, debit, crossed>>
        BY <2>4 DEF VerifyPost, DecisionPost, VerifyNumber, GenerateNumber, books
      <3>2. tx[c] \in RequestType BY <1>t
      <3>3. /\ tx'[c].op = tx[c].op /\ tx'[c].term = tx[c].term /\ tx'[c].payment = tx[c].payment
            /\ \A d \in Clerks : d # c => tx'[d] = tx[d]
        <4>1. CASE VerifyPost(c) \/ DecisionPost(c)
          BY <4>1, <3>2, <1>t DEF VerifyPost, DecisionPost, RequestType
        <4>2. CASE VerifyNumber(c) BY <4>2, <3>2, <1>t DEF VerifyNumber, RequestType
        <4>3. CASE GenerateNumber(c) BY <4>3, <3>2, <1>t DEF GenerateNumber, RequestType
        <4> QED BY <2>4, <4>1, <4>2, <4>3
      <3> QED BY <3>1, <3>3, <1>0, AdvanceStands
    <2>5. CASE Abort(c) \/ GenerateCommit(c)
      <3>1. UNCHANGED <<payment, credit, debit>> /\ End(c)
        BY <2>5 DEF Abort, GenerateCommit, books
      <3>2. tx'[c].op = "none" /\ \A d \in Clerks : d # c => tx'[d] = tx[d]
        BY <3>1, Ends DEF Idle
      <3> QED BY <3>1, <3>2, <1>0, AdvanceStands DEF End
    <2>6. CASE VerifyCommit(c) \/ RejectCommit(c) \/ ReverseCommit(c)
      <3> DEFINE p == tx[c].payment
      <3>1. tx[c].op \in Kinds /\ p \in Payments /\ End(c)
        BY <2>6 DEF VerifyCommit, RejectCommit, ReverseCommit, Kinds, FeesInv, Shape
      <3>2. payment' = [payment EXCEPT ![p].status = tx[c].op]
        BY <2>6 DEF VerifyCommit, RejectCommit, ReverseCommit
      <3>3. /\ credit' = [credit EXCEPT ![p] = credit[p] + (IF tx[c].op = "VERIFIED" THEN 1 ELSE 0)]
            /\ debit' = [debit EXCEPT ![p] = debit[p] + (IF tx[c].op = "REVERSED" THEN 1 ELSE 0)]
        BY <2>6, <3>1 DEF VerifyCommit, RejectCommit, ReverseCommit, FeesInv, Typed, BooksTyped
      <3> QED BY <3>1, <3>2, <3>3, <1>0, CommitStands
    <2> QED BY <1>3, <2>1, <2>2, <2>3, <2>4, <2>5, <2>6 DEF Office
  <1> QED BY <1>1, <1>2, <1>3 DEF Next

\* A student about whom no two office requests were in flight at once sees a
\* statement that agrees with the ledger (verify, reject, reverse).
THEOREM StatementFollowsLedger == Spec => []StatementAgrees
  <1>1. StatementInv => StatementAgrees BY DEF StatementInv
  <1> QED BY <1>1, InitStatement, StatementStep, PTL DEF Spec

-----------------------------------------------------------------------------
(* The first bill.  That a student was never billed stays true until the   *)
(* billing run that found it so commits, unless requests have crossed.     *)

FirstStands ==
    \A c \in Clerks : tx[c].op = "generate" =>
        /\ tx[c].first \subseteq tx[c].bills
        /\ \A b \in tx[c].bills : TermOf[b] = tx[c].term
        /\ \A b \in tx[c].first : StudentOf[b] \notin crossed => BillsOf(StudentOf[b]) = {}

OneTimeIsIssued == \A b \in Bills : bill[b].oneTime => Issued(b)

FirstBillInv == StatementInv /\ FirstStands /\ OneTimeIsIssued /\ OneTimeBilledOnce

LEMMA InitFirstBill == ASSUME Init PROVE FirstBillInv
  <1>1. FirstStands BY DEF Init, FirstStands, Idle
  <1>2. OneTimeIsIssued /\ OneTimeBilledOnce BY DEF Init, OneTimeIsIssued, OneTimeBilledOnce
  <1> QED BY <1>1, <1>2, InitStatement DEF FirstBillInv

\* Whatever issues no bill and starts no billing run.
LEMMA FirstBillKept ==
    ASSUME FirstBillInv, StatementInv', UNCHANGED bill, crossed \subseteq crossed',
           \A c \in Clerks : \/ tx'[c].op # "generate"
                             \/ /\ tx'[c].op = tx[c].op /\ tx'[c].term = tx[c].term
                                /\ tx'[c].bills = tx[c].bills /\ tx'[c].first = tx[c].first
    PROVE  FirstBillInv'
  <1> USE DEF FirstBillInv
  <1>1. FirstStands' BY DEF FirstStands, BillsOf, Issued
  <1>2. (OneTimeIsIssued /\ OneTimeBilledOnce)'
    BY DEF OneTimeIsIssued, OneTimeBilledOnce, Issued, Undisturbed
  <1> QED BY <1>1, <1>2

LEMMA FirstBillRead ==
    ASSUME FirstBillInv, StatementInv', NEW c \in Clerks, NEW t \in Terms, GenerateRead(c, t)
    PROVE  FirstBillInv'
  <1> USE DEF FirstBillInv
  <1> DEFINE r == [Idle EXCEPT !.op = "generate", !.stage = "read", !.term = t,
                               !.bills = ToBill(t), !.first = {b \in ToBill(t) : ~EverBilled(b)}]
  <1>1. r.term = t /\ r.bills = ToBill(t) /\ r.first = {b \in ToBill(t) : ~EverBilled(b)}
    BY DEF Idle
  <1>2. tx' = [tx EXCEPT ![c] = r] /\ UNCHANGED bill /\ crossed \subseteq crossed'
    BY DEF GenerateRead, Begin, books
  <1>3. tx \in [Clerks -> RequestType] BY DEF StatementInv, FeesInv, Typed, RequestsTyped
  <1> HIDE DEF r
  <1>4. FirstStands' BY <1>1, <1>2, <1>3 DEF FirstStands, ToBill, EverBilled, BillsOf, Issued
  <1>5. (OneTimeIsIssued /\ OneTimeBilledOnce)'
    BY <1>2 DEF OneTimeIsIssued, OneTimeBilledOnce, Issued, Undisturbed
  <1> QED BY <1>4, <1>5

LEMMA FirstBillCommit ==
    ASSUME FirstBillInv, StatementInv', NEW c \in Clerks, GenerateCommit(c)
    PROVE  FirstBillInv'
  <1> USE DEF FirstBillInv
  <1> DEFINE B == tx[c].bills
             S == {StudentOf[b] : b \in B}
  <1>1. /\ tx[c].op = "generate" /\ End(c) /\ \A b \in B : ~Issued(b)
        /\ B \subseteq Bills /\ FeesInv
    BY DEF GenerateCommit, StatementInv, FeesInv, Typed, RequestsTyped, RequestType
  <1>2. /\ \A b \in Bills \ B : bill'[b] = bill[b]
        /\ \A b \in B : bill'[b].oneTime = (b \in tx[c].first)
    BY <1>1 DEF GenerateCommit
  <1>3. \A b \in B : bill'[b].number > 0
    <2>1. Cardinality(B) \in Nat BY <1>1, FeesAssumption, FS_Subset, FS_CardinalityType
    <2>2. tx[c].number \in Nat /\ tx[c].number > 0
      BY <1>1 DEF FeesInv, HeldNumbers, HoldsInvoices, GenerateCommit, Typed, BooksTyped
    <2>3. PICK g \in Bijection(B, tx[c].number..(tx[c].number + Cardinality(B) - 1)) :
            \A b \in B : bill'[b].number = g[b]
      BY <1>1 DEF GenerateCommit
    <2>4. \A b \in B : g[b] \in tx[c].number..(tx[c].number + Cardinality(B) - 1)
      BY DEF Bijection, Injection
    <2> QED BY <2>1, <2>2, <2>3, <2>4
  <1>4. crossed' = crossed /\ tx'[c].op = "none" /\ \A d \in Clerks : d # c => tx'[d] = tx[d]
    <2>1. tx'[c] = Idle /\ \A d \in Clerks : d # c => tx'[d] = tx[d] BY <1>1, Ends
    <2> QED BY <2>1, <1>1 DEF End, Idle
  <1>5. S \subseteq About(tx[c]) BY <1>1 DEF About, FirstStands
  <1>6. FirstStands'
    <2> SUFFICES ASSUME NEW d \in Clerks, d # c, tx[d].op = "generate",
                        NEW b \in tx[d].first, StudentOf[b] \notin crossed
                 PROVE  BillsOf(StudentOf[b])' = {}
      BY <1>4 DEF FirstStands
    <2>1. tx[d].first \subseteq tx[d].bills /\ tx[d].bills \subseteq Bills
      BY DEF FirstStands, StatementInv, FeesInv, Typed, RequestsTyped, RequestType
    <2>2. StudentOf[b] \in About(tx[d]) BY <2>1 DEF About, FirstStands
    <2>3. StudentOf[b] \notin S BY <2>2, <1>5 DEF StatementInv, Alone
    <2>4. BillsOf(StudentOf[b]) = {} BY DEF FirstStands
    <2> QED BY <2>3, <2>4, <1>2 DEF BillsOf, Issued
  <1>7. OneTimeIsIssued' BY <1>2, <1>3 DEF OneTimeIsIssued, Issued
  <1>8. OneTimeBilledOnce'
    <2> SUFFICES ASSUME NEW a \in Bills, NEW b \in Bills, StudentOf[a] = StudentOf[b],
                        StudentOf[a] \notin crossed, StudentOf[a] \in Students,
                        bill'[a].oneTime, bill'[b].oneTime
                 PROVE  a = b
      BY <1>4 DEF OneTimeBilledOnce, Undisturbed
    <2>1. ASSUME NEW x \in B, NEW y \in Bills \ B, StudentOf[x] = StudentOf[y],
                 StudentOf[x] \notin crossed, bill'[x].oneTime, bill'[y].oneTime
          PROVE  FALSE
      <3>1. BillsOf(StudentOf[x]) = {} BY <2>1, <1>1, <1>2 DEF FirstStands
      <3> QED BY <3>1, <2>1, <1>2 DEF OneTimeIsIssued, BillsOf
    <2>2. CASE a \in B /\ b \in B
      BY <2>2, <1>1, FeesAssumption DEF FirstStands
    <2>3. CASE a \notin B /\ b \notin B
      BY <2>3, <1>2 DEF OneTimeBilledOnce, Undisturbed
    <2> QED BY <2>1, <2>2, <2>3
  <1> QED BY <1>6, <1>7, <1>8

LEMMA FirstBillStep == ASSUME FirstBillInv, [Next]_vars PROVE FirstBillInv'
  <1>0. StatementInv' BY StatementStep DEF FirstBillInv
  <1>t. /\ tx \in [Clerks -> RequestType]
        /\ FeesInv
    BY DEF FirstBillInv, StatementInv, FeesInv, Typed, RequestsTyped
  <1>1. CASE UNCHANGED vars BY <1>0, <1>1, FirstBillKept DEF vars
  <1>2. ASSUME NEW p \in Payments, NEW claim \in Claims, Submit(p, claim) PROVE FirstBillInv'
    BY <1>0, <1>2, FirstBillKept DEF Submit
  <1>3. ASSUME NEW c \in Clerks, Office(c) PROVE FirstBillInv'
    <2>0. tx[c] \in RequestType BY <1>t
    <2>1. ASSUME NEW p \in Payments, NEW op \in Kinds, DecisionRead(c, p, op) PROVE FirstBillInv'
      <3>1. /\ UNCHANGED bill /\ crossed \subseteq crossed' /\ tx'[c].op = op
            /\ \A d \in Clerks : d # c => tx'[d] = tx[d]
        BY <2>1, <1>t DEF DecisionRead, Begin, books, Idle
      <3> QED BY <3>1, <1>0, FirstBillKept DEF Kinds
    <2>2. ASSUME NEW t \in Terms, GenerateRead(c, t) PROVE FirstBillInv'
      BY <2>2, <1>0, FirstBillRead
    <2>3. ASSUME NEW t \in Terms, GenerateNothing(c, t) PROVE FirstBillInv'
      BY <2>3, <1>1 DEF GenerateNothing
    <2>4. CASE VerifyPost(c) \/ DecisionPost(c) \/ VerifyNumber(c) \/ GenerateNumber(c)
      <3>1. UNCHANGED <<bill, crossed>>
        BY <2>4 DEF VerifyPost, DecisionPost, VerifyNumber, GenerateNumber, books
      <3>2. /\ tx'[c].op = tx[c].op /\ tx'[c].term = tx[c].term
            /\ tx'[c].bills = tx[c].bills /\ tx'[c].first = tx[c].first
            /\ \A d \in Clerks : d # c => tx'[d] = tx[d]
        <4>1. CASE VerifyPost(c) \/ DecisionPost(c)
          BY <4>1, <2>0, <1>t DEF VerifyPost, DecisionPost, RequestType
        <4>2. CASE VerifyNumber(c) BY <4>2, <2>0, <1>t DEF VerifyNumber, RequestType
        <4>3. CASE GenerateNumber(c) BY <4>3, <2>0, <1>t DEF GenerateNumber, RequestType
        <4> QED BY <2>4, <4>1, <4>2, <4>3
      <3> QED BY <3>1, <3>2, <1>0, FirstBillKept
    <2>5. CASE Abort(c) \/ VerifyCommit(c) \/ RejectCommit(c) \/ ReverseCommit(c)
      <3>1. UNCHANGED bill /\ End(c)
        BY <2>5 DEF Abort, VerifyCommit, RejectCommit, ReverseCommit, books
      <3>2. tx'[c].op = "none" /\ \A d \in Clerks : d # c => tx'[d] = tx[d]
        BY <3>1, <1>t, Ends DEF Idle
      <3> QED BY <3>1, <3>2, <1>0, FirstBillKept DEF End
    <2>6. CASE GenerateCommit(c) BY <2>6, <1>0, FirstBillCommit
    <2> QED BY <1>3, <2>1, <2>2, <2>3, <2>4, <2>5, <2>6 DEF Office
  <1> QED BY <1>1, <1>2, <1>3 DEF Next

\* A student about whom no two office requests were in flight at once is
\* billed a one-time category on one bill only (computeTerm, linesFor).
THEOREM OneTimeOnFirstBill == Spec => []OneTimeBilledOnce
  <1>1. FirstBillInv => OneTimeBilledOnce BY DEF FirstBillInv
  <1> QED BY <1>1, InitFirstBill, FirstBillStep, PTL DEF Spec

-----------------------------------------------------------------------------
(* Sums.  What SumFunctionOnSet computes follows from least counterexamples *)
(* among the finite sets of indices.                                       *)

\* The recursive function behind SumFunctionOnSet, and its defining equation.
Adds(f, S, g) == g = [s \in SUBSET S |->
    IF s = {} THEN 0 ELSE LET x == CHOOSE x \in s : TRUE IN f[x] + g[s \ {x}]]
Adding(f, S) == CHOOSE g : Adds(f, S, g)

LEMMA SumIsAdding == ASSUME NEW f, NEW S PROVE SumFunctionOnSet(f, S) = Adding(f, S)[S]
  BY DEF SumFunctionOnSet, FoldFunctionOnSet, MapThenFoldSet, Adding, Adds

\* Of the finite subsets of S with a property, one has no smaller one with it.
LEMMA LeastSubset ==
    ASSUME NEW S, NEW D, D \subseteq FiniteSubsetsOf(S), D # {}
    PROVE  \E U \in D : \A V \in D : ~(V \subseteq U /\ V # U)
  <1>1. PICK U \in D : \A V \in D : <<V, U>> \notin StrictSubsetOrdering(S)
    BY FS_StrictSubsetOrderingWellFounded, WFMin
  <1>2. \A V \in D : V \subseteq S /\ U \subseteq S BY DEF FiniteSubsetsOf
  <1>3. \A V \in D : ~(V \subseteq U /\ V # U) BY <1>1, <1>2 DEF StrictSubsetOrdering
  <1> QED BY <1>3

LEMMA AddsOnce ==
    ASSUME NEW f, NEW S, IsFiniteSet(S), NEW g, NEW h, Adds(f, S, g), Adds(f, S, h)
    PROVE  g = h
  <1> DEFINE D == {U \in FiniteSubsetsOf(S) : g[U] # h[U]}
  <1>0. FiniteSubsetsOf(S) = SUBSET S BY FS_FiniteSubsetsOfFinite
  <1>1. SUFFICES D = {} BY <1>0 DEF Adds
  <1>2. SUFFICES ASSUME D # {} PROVE FALSE OBVIOUS
  <1>3. PICK U \in D : \A V \in D : ~(V \subseteq U /\ V # U)
    <2>1. D \subseteq FiniteSubsetsOf(S) OBVIOUS
    <2> HIDE DEF D
    <2> QED BY <1>2, <2>1, LeastSubset
  <1>4. U \subseteq S /\ U # {} BY <1>0 DEF Adds
  <1> DEFINE x == CHOOSE x \in U : TRUE
  <1>5. x \in U BY <1>4
  <1>6. g[U] = f[x] + g[U \ {x}] /\ h[U] = f[x] + h[U \ {x}] BY <1>4 DEF Adds
  <1>7. g[U \ {x}] = h[U \ {x}] BY <1>0, <1>3, <1>4, <1>5
  <1> QED BY <1>6, <1>7

LEMMA AddsBelow ==
    ASSUME NEW f, NEW S, NEW g, Adds(f, S, g), NEW T \in SUBSET S
    PROVE  Adds(f, T, [s \in SUBSET T |-> g[s]])
  <1> DEFINE h == [s \in SUBSET T |-> g[s]]
  <1> SUFFICES ASSUME NEW s \in SUBSET T
               PROVE  h[s] = IF s = {} THEN 0 ELSE LET x == CHOOSE x \in s : TRUE IN f[x] + h[s \ {x}]
    BY DEF Adds
  <1> DEFINE x == CHOOSE x \in s : TRUE
  <1>1. s \in SUBSET S /\ s \ {x} \in SUBSET T OBVIOUS
  <1>2. g[s] = IF s = {} THEN 0 ELSE f[x] + g[s \ {x}] BY <1>1 DEF Adds
  <1>3. h[s] = g[s] /\ h[s \ {x}] = g[s \ {x}] BY <1>1
  <1> HIDE DEF h
  <1> QED BY <1>2, <1>3

LEMMA AddingAdds == ASSUME NEW f, NEW S, IsFiniteSet(S) PROVE Adds(f, S, Adding(f, S))
  <1> DEFINE D == {U \in FiniteSubsetsOf(S) : \A g : ~Adds(f, U, g)}
  <1>0. FiniteSubsetsOf(S) = SUBSET S BY FS_FiniteSubsetsOfFinite
  <1>1. SUFFICES D = {}
    <2>1. \E g : Adds(f, S, g) BY <1>0, <1>1
    <2> QED BY <2>1 DEF Adding
  <1>2. SUFFICES ASSUME D # {} PROVE FALSE OBVIOUS
  <1>3. PICK U \in D : \A V \in D : ~(V \subseteq U /\ V # U)
    <2>1. D \subseteq FiniteSubsetsOf(S) OBVIOUS
    <2> HIDE DEF D
    <2> QED BY <1>2, <2>1, LeastSubset
  <1>4. U \subseteq S /\ \A g : ~Adds(f, U, g) BY <1>0
  <1>5. ASSUME NEW V \in SUBSET U, V # U PROVE Adds(f, V, Adding(f, V)) /\ IsFiniteSet(V)
    <2>1. V \in FiniteSubsetsOf(S) BY <1>0, <1>4
    <2>2. \E g : Adds(f, V, g) BY <1>3, <1>5, <2>1
    <2> QED BY <2>1, <2>2 DEF Adding, FiniteSubsetsOf
  <1> DEFINE Here(s) == LET x == CHOOSE x \in s : TRUE IN f[x] + Adding(f, s \ {x})[s \ {x}]
             h == [s \in SUBSET U |-> IF s = {} THEN 0 ELSE Here(s)]
  <1>6. ASSUME NEW V \in SUBSET U, V # U PROVE h[V] = Adding(f, V)[V]
    <2> DEFINE x == CHOOSE x \in V : TRUE
               W == V \ {x}
               g == Adding(f, V)
    <2>1. Adds(f, V, g) /\ IsFiniteSet(V) BY <1>5, <1>6
    <2> HIDE DEF g
    <2>2. CASE V = {} BY <2>1, <2>2 DEF Adds, g
    <2>3. CASE V # {}
      <3>1. x \in V /\ W \in SUBSET U /\ W # U BY <2>3, <1>6
      <3>2. g[V] = f[x] + g[W] BY <2>1, <2>3 DEF Adds
      <3>3. Adds(f, W, Adding(f, W)) /\ IsFiniteSet(W) BY <3>1, <1>5
      <3>4. Adds(f, W, [s \in SUBSET W |-> g[s]]) BY <2>1, AddsBelow
      <3>5. Adding(f, W) = [s \in SUBSET W |-> g[s]] BY <3>3, <3>4, AddsOnce
      <3>6. Adding(f, W)[W] = g[W] BY <3>5
      <3>7. h[V] = f[x] + Adding(f, W)[W] BY <2>3
      <3> HIDE DEF h, W, x
      <3> QED BY <3>2, <3>6, <3>7 DEF g
    <2> QED BY <2>2, <2>3
  <1>7. Adds(f, U, h)
    <2> SUFFICES ASSUME NEW s \in SUBSET U, s # {}
                 PROVE  h[s] = LET x == CHOOSE x \in s : TRUE IN f[x] + h[s \ {x}]
      BY DEF Adds
    <2> DEFINE x == CHOOSE x \in s : TRUE
    <2>1. x \in s OBVIOUS
    <2>2. h[s \ {x}] = Adding(f, s \ {x})[s \ {x}]
      <3>1. s \ {x} \in SUBSET U /\ s \ {x} # U BY <2>1
      <3> HIDE DEF h
      <3> QED BY <3>1, <1>6
    <2>3. h[s] = f[x] + Adding(f, s \ {x})[s \ {x}] OBVIOUS
    <2> HIDE DEF h
    <2> QED BY <2>2, <2>3
  <1> QED BY <1>4, <1>7

\* What SumFunctionOnSet computes, one index at a time in the order it chooses.
LEMMA SumUnfolds ==
    ASSUME NEW f, NEW S, IsFiniteSet(S)
    PROVE  SumFunctionOnSet(f, S) =
             IF S = {} THEN 0
             ELSE LET x == CHOOSE x \in S : TRUE IN f[x] + SumFunctionOnSet(f, S \ {x})
  <1> DEFINE x == CHOOSE x \in S : TRUE
             g == Adding(f, S)
             T == S \ {x}
  <1>1. Adds(f, S, g) BY AddingAdds
  <1>2. SumFunctionOnSet(f, S) = g[S] /\ SumFunctionOnSet(f, T) = Adding(f, T)[T] BY SumIsAdding
  <1> HIDE DEF g
  <1>3. g[S] = IF S = {} THEN 0 ELSE f[x] + g[T] BY <1>1 DEF Adds
  <1>4. IsFiniteSet(T) BY FS_Subset
  <1>5. Adds(f, T, Adding(f, T)) /\ Adds(f, T, [s \in SUBSET T |-> g[s]])
    BY <1>1, <1>4, AddingAdds, AddsBelow
  <1>6. Adding(f, T) = [s \in SUBSET T |-> g[s]] BY <1>4, <1>5, AddsOnce
  <1>7. Adding(f, T)[T] = g[T] BY <1>6
  <1>8. SumFunctionOnSet(f, S) = IF S = {} THEN 0 ELSE f[x] + SumFunctionOnSet(f, T)
    <2> HIDE DEF T, x
    <2> QED BY <1>2, <1>3, <1>7
  <1> QED BY <1>8

LEMMA SumOfNone == ASSUME NEW f PROVE SumFunctionOnSet(f, {}) = 0
  BY SumUnfolds, FS_EmptySet

\* The sum of natural numbers is one, and any index can be taken out.
LEMMA SumTakesOut ==
    ASSUME NEW f, NEW S, IsFiniteSet(S), \A x \in S : f[x] \in Nat
    PROVE  /\ SumFunctionOnSet(f, S) \in Nat
           /\ \A x \in S : SumFunctionOnSet(f, S) = f[x] + SumFunctionOnSet(f, S \ {x})
  <1> DEFINE Fine(U) == /\ SumFunctionOnSet(f, U) \in Nat
                        /\ \A x \in U : SumFunctionOnSet(f, U) = f[x] + SumFunctionOnSet(f, U \ {x})
             D == {U \in FiniteSubsetsOf(S) : ~Fine(U)}
  <1>0. FiniteSubsetsOf(S) = SUBSET S BY FS_FiniteSubsetsOfFinite
  <1>1. SUFFICES D = {} BY <1>0
  <1>2. SUFFICES ASSUME D # {} PROVE FALSE OBVIOUS
  <1>3. PICK U \in D : \A V \in D : ~(V \subseteq U /\ V # U)
    <2>1. D \subseteq FiniteSubsetsOf(S) OBVIOUS
    <2> HIDE DEF D
    <2> QED BY <1>2, <2>1, LeastSubset
  <1>4. U \subseteq S /\ IsFiniteSet(U) /\ ~Fine(U) BY <1>0, FS_Subset
  <1>5. ASSUME NEW V \in SUBSET U, V # U PROVE Fine(V) BY <1>0, <1>3, <1>4, <1>5
  <1> HIDE DEF D
  <1>6. CASE U = {} BY <1>4, <1>6, SumOfNone
  <1>7. CASE U # {}
    <2> DEFINE c == CHOOSE c \in U : TRUE
    <2>1. c \in U BY <1>7
    <2>2. SumFunctionOnSet(f, U) = f[c] + SumFunctionOnSet(f, U \ {c})
      BY <1>4, <1>7, SumUnfolds
    <2> HIDE DEF c
    <2>3. Fine(U \ {c}) BY <1>5, <2>1
    <2>4. SumFunctionOnSet(f, U) \in Nat BY <1>4, <2>1, <2>2, <2>3
    <2>5. ASSUME NEW x \in U, x # c
          PROVE  SumFunctionOnSet(f, U) = f[x] + SumFunctionOnSet(f, U \ {x})
      <3> DEFINE W == U \ {c, x}
      <3>1. (U \ {c}) \ {x} = W /\ (U \ {x}) \ {c} = W OBVIOUS
      <3>2. Fine(U \ {x}) /\ Fine(W) BY <1>5, <2>1, <2>5
      <3>3. SumFunctionOnSet(f, U \ {c}) = f[x] + SumFunctionOnSet(f, W)
        BY <2>3, <2>5, <3>1
      <3>4. SumFunctionOnSet(f, U \ {x}) = f[c] + SumFunctionOnSet(f, W)
        BY <2>1, <2>5, <3>1, <3>2
      <3>5. f[x] \in Nat /\ f[c] \in Nat /\ SumFunctionOnSet(f, W) \in Nat
        BY <1>4, <2>1, <3>2
      <3> QED BY <2>2, <3>3, <3>4, <3>5
    <2> QED BY <1>4, <2>2, <2>4, <2>5
  <1> QED BY <1>6, <1>7

\* A sum depends on the values at its indices only.
LEMMA SumLocal ==
    ASSUME NEW f, NEW g, NEW S, IsFiniteSet(S), \A x \in S : f[x] = g[x]
    PROVE  SumFunctionOnSet(f, S) = SumFunctionOnSet(g, S)
  <1> DEFINE D == {U \in FiniteSubsetsOf(S) : SumFunctionOnSet(f, U) # SumFunctionOnSet(g, U)}
  <1>0. FiniteSubsetsOf(S) = SUBSET S BY FS_FiniteSubsetsOfFinite
  <1>1. SUFFICES D = {} BY <1>0
  <1>2. SUFFICES ASSUME D # {} PROVE FALSE OBVIOUS
  <1>3. PICK U \in D : \A V \in D : ~(V \subseteq U /\ V # U)
    <2>1. D \subseteq FiniteSubsetsOf(S) OBVIOUS
    <2> HIDE DEF D
    <2> QED BY <1>2, <2>1, LeastSubset
  <1>4. /\ U \subseteq S /\ IsFiniteSet(U)
        /\ SumFunctionOnSet(f, U) # SumFunctionOnSet(g, U)
    BY <1>0, FS_Subset
  <1>5. U # {} BY <1>4, SumUnfolds
  <1> DEFINE c == CHOOSE c \in U : TRUE
  <1>6. c \in U BY <1>5
  <1>7. /\ SumFunctionOnSet(f, U) = f[c] + SumFunctionOnSet(f, U \ {c})
        /\ SumFunctionOnSet(g, U) = g[c] + SumFunctionOnSet(g, U \ {c})
    BY <1>4, <1>5, SumUnfolds
  <1> HIDE DEF c
  <1>8. SumFunctionOnSet(f, U \ {c}) = SumFunctionOnSet(g, U \ {c}) BY <1>0, <1>3, <1>4, <1>6
  <1> QED BY <1>4, <1>6, <1>7, <1>8

\* One index more.
LEMMA SumGrows ==
    ASSUME NEW f, NEW S, IsFiniteSet(S), NEW x, x \notin S,
           f[x] \in Nat, \A y \in S : f[y] \in Nat
    PROVE  SumFunctionOnSet(f, S \union {x}) = SumFunctionOnSet(f, S) + f[x]
  <1> DEFINE T == S \union {x}
  <1>1. IsFiniteSet(T) /\ x \in T /\ T \ {x} = S BY FS_AddElement
  <1>2. \A y \in T : f[y] \in Nat OBVIOUS
  <1>3. SumFunctionOnSet(f, S) \in Nat BY SumTakesOut
  <1> HIDE DEF T
  <1>4. SumFunctionOnSet(f, T) = f[x] + SumFunctionOnSet(f, S)
    BY <1>1, <1>2, SumTakesOut
  <1> QED BY <1>3, <1>4 DEF T

\* One value more.
LEMMA SumChanges ==
    ASSUME NEW f, NEW g, NEW S, IsFiniteSet(S), NEW x \in S, NEW d \in Int,
           \A y \in S : f[y] \in Nat /\ g[y] \in Nat,
           \A y \in S : y # x => g[y] = f[y], g[x] = f[x] + d
    PROVE  SumFunctionOnSet(g, S) = SumFunctionOnSet(f, S) + d
  <1> DEFINE T == S \ {x}
  <1>1. IsFiniteSet(T) BY FS_Subset
  <1>2. /\ SumFunctionOnSet(f, S) = f[x] + SumFunctionOnSet(f, T)
        /\ SumFunctionOnSet(g, S) = g[x] + SumFunctionOnSet(g, T)
    <2>1. (\A y \in S : f[y] \in Nat) /\ (\A y \in S : g[y] \in Nat) OBVIOUS
    <2> QED BY <2>1, SumTakesOut
  <1>3. \A y \in T : f[y] = g[y] /\ f[y] \in Nat OBVIOUS
  <1> HIDE DEF T
  <1>4. SumFunctionOnSet(f, T) = SumFunctionOnSet(g, T) BY <1>1, <1>3, SumLocal
  <1>5. SumFunctionOnSet(f, T) \in Nat BY <1>1, <1>3, SumTakesOut
  <1>6. f[x] \in Nat /\ g[x] \in Nat OBVIOUS
  <1> QED BY <1>2, <1>4, <1>5, <1>6

-----------------------------------------------------------------------------
(* What is billed, paid and owed.                                          *)

LEMMA SumOverLines ==
    ASSUME NEW f, DOMAIN f = Lines, \A l \in Lines : f[l] \in Nat
    PROVE  SumFunction(f) \in Nat
  <1>1. IsFiniteSet(Lines) BY FeesAssumption, FS_Interval DEF Lines
  <1> QED BY <1>1, SumTakesOut DEF SumFunction

LEMMA NetIsNat ==
    ASSUME NEW b \in Bills
    PROVE  (\A l \in Lines : NetOf(b, l) \in Nat) /\ Total(b) \in Nat
  <1>1. ASSUME NEW l \in Lines PROVE NetOf(b, l) \in Nat
    BY FeesAssumption DEF NetOf
  <1> DEFINE f == [l \in Lines |-> NetOf(b, l)]
  <1>2. DOMAIN f = Lines /\ \A l \in Lines : f[l] \in Nat BY <1>1
  <1>3. Total(b) = SumFunction(f) BY DEF Total
  <1> HIDE DEF f
  <1> QED BY <1>1, <1>2, <1>3, SumOverLines

LEMMA PaymentsFinite == ASSUME NEW b PROVE PaymentsOf(b) \subseteq Payments /\ IsFiniteSet(PaymentsOf(b))
  <1>1. PaymentsOf(b) \subseteq Payments BY DEF PaymentsOf
  <1> QED BY <1>1, FeesAssumption, FS_Subset

LEMMA AllocatedIsNat ==
    ASSUME AmountsTyped, NEW b, NEW l \in Lines
    PROVE  Allocated(b, l) \in Nat
  <1> DEFINE f == [p \in Payments |-> alloc[p][l]]
  <1>1. \A p \in PaymentsOf(b) : f[p] \in Nat BY PaymentsFinite DEF AmountsTyped
  <1> HIDE DEF f
  <1>2. SumFunctionOnSet(f, PaymentsOf(b)) \in Nat BY <1>1, PaymentsFinite, SumTakesOut
  <1> QED BY <1>2 DEF Allocated, f

\* What is outstanding is at most the bill.
LEMMA OutstandingIsLess ==
    ASSUME AmountsTyped, NEW b \in Bills
    PROVE  Outstanding(b) \in Int /\ Outstanding(b) <= Total(b)
  <1> DEFINE f == [l \in Lines |-> Allocated(b, l)]
  <1>1. DOMAIN f = Lines /\ \A l \in Lines : f[l] \in Nat BY AllocatedIsNat
  <1>2. Outstanding(b) = Total(b) - SumFunction(f) BY DEF Outstanding
  <1> HIDE DEF f
  <1>3. SumFunction(f) \in Nat /\ Total(b) \in Nat BY <1>1, SumOverLines, NetIsNat
  <1> QED BY <1>2, <1>3

\* The more is outstanding, the more lateness costs.
LEMMA AccruedGrows ==
    ASSUME NEW b, NEW day \in Nat, NEW m \in Int, NEW n \in Int, m <= n
    PROVE  /\ Accrued(b, day, m) \in Nat /\ Accrued(b, day, n) \in Nat
           /\ Accrued(b, day, m) <= Accrued(b, day, n)
  <1> DEFINE raw == IF Rule.mode = "FLAT" THEN Rule.amount ELSE Rule.amount * (day - Rule.grace)
             most == IF Rule.cap > 0 THEN Least(raw, Rule.cap) ELSE raw
  <1>1. Rule.amount \in Nat /\ Rule.grace \in Nat /\ Rule.cap \in Nat BY FeesAssumption
  <1>2. CASE day <= Rule.grace BY <1>2 DEF Accrued
  <1>3. CASE day > Rule.grace
    <2>1. day - Rule.grace \in Nat BY <1>1, <1>3
    <2>2. raw \in Nat
      <3>1. \A x, y \in Nat : x * y \in Nat OBVIOUS
      <3> QED BY <1>1, <2>1, <3>1
    <2> HIDE DEF raw
    <2>3. most \in Nat BY <1>1, <2>2 DEF Least
    <2> HIDE DEF most
    <2>4. \A k \in {m, n} :
            Accrued(b, day, k) = IF Rule.mode = "NONE" \/ b \notin Collectible \/ k <= 0
                                 THEN 0 ELSE Least(most, k)
      BY <1>1, <1>3 DEF Accrued, most, raw
    <2> QED BY <2>3, <2>4 DEF Least
  <1> QED BY <1>1, <1>2, <1>3

\* A verification charges nothing, or what the rule asks beyond what was charged.
LEMMA LateFeeFits ==
    ASSUME AmountsTyped, NEW b \in Bills, NEW day \in Nat
    PROVE  /\ LateFeeDue(b, day) \in Nat
           /\ \/ LateFeeDue(b, day) = 0
              \/ lateFee[b] + LateFeeDue(b, day) <= Accrued(b, day, Total(b))
  <1>1. lateFee[b] \in Nat BY DEF AmountsTyped
  <1>2. /\ Accrued(b, day, Outstanding(b)) \in Nat /\ Accrued(b, day, Total(b)) \in Nat
        /\ Accrued(b, day, Outstanding(b)) <= Accrued(b, day, Total(b))
    BY OutstandingIsLess, NetIsNat, AccruedGrows
  <1> QED BY <1>1, <1>2 DEF LateFeeDue, Positive

\* A payment is spread over the lines, none of which gets more than it is owed.
LEMMA TakeFits ==
    ASSUME AmountsTyped, NEW b \in Bills, NEW amount \in Nat
    PROVE  /\ Take(b, amount) \in [Lines -> Nat]
           /\ \A l \in Lines : Take(b, amount)[l] <= Owed(b, l) /\ Owed(b, l) \in Nat
  <1> DEFINE owed == [l \in Lines |-> Owed(b, l)]
             upTo(n) == SumFunctionOnSet(owed, 1..n)
  <1>1. \A l \in Lines : owed[l] \in Nat
    BY AllocatedIsNat, NetIsNat DEF Owed, Positive
  <1>2. ASSUME NEW l \in Lines
        PROVE  /\ upTo(l - 1) \in Nat /\ upTo(l) = upTo(l - 1) + owed[l]
    <2>1. l \in Nat /\ l >= 1 /\ l <= NumLines /\ NumLines \in Nat BY FeesAssumption DEF Lines
    <2>2. l \notin 1..(l - 1) /\ 1..l = (1..(l - 1)) \union {l} BY <2>1
    <2>3. \A k \in 1..(l - 1) : owed[k] \in Nat BY <1>1, <2>1 DEF Lines
    <2>4. IsFiniteSet(1..(l - 1)) BY <2>1, FS_Interval
    <2>5. owed[l] \in Nat BY <1>1
    <2> HIDE DEF owed
    <2> DEFINE below == 1..(l - 1)
    <2> HIDE DEF below
    <2>6. SumFunctionOnSet(owed, below) \in Nat BY <2>3, <2>4, SumTakesOut DEF below
    <2>7. SumFunctionOnSet(owed, below \union {l}) = SumFunctionOnSet(owed, below) + owed[l]
      BY <2>2, <2>3, <2>4, <2>5, SumGrows DEF below
    <2> QED BY <2>2, <2>6, <2>7 DEF below
  <1>3. Take(b, amount) = [l \in Lines |-> Least(amount, upTo(l)) - Least(amount, upTo(l - 1))]
    BY DEF Take
  <1>4. \A l \in Lines : owed[l] = Owed(b, l) OBVIOUS
  <1> HIDE DEF owed, upTo
  <1>5. ASSUME NEW l \in Lines
        PROVE  /\ Least(amount, upTo(l)) - Least(amount, upTo(l - 1)) \in Nat
               /\ Least(amount, upTo(l)) - Least(amount, upTo(l - 1)) <= owed[l]
    BY <1>1, <1>2 DEF Least
  <1> QED BY <1>1, <1>3, <1>4, <1>5

\* Payments of other bills do not change what is paid of this one.
LEMMA AllocatedStays ==
    ASSUME NEW b, PaymentsOf(b)' = PaymentsOf(b), \A p \in PaymentsOf(b) : alloc'[p] = alloc[p],
           NEW l \in Lines
    PROVE  Allocated(b, l)' = Allocated(b, l)
  <1> DEFINE f == [p \in Payments |-> alloc[p][l]]
             g == [p \in Payments |-> alloc'[p][l]]
  <1>1. \A p \in PaymentsOf(b) : g[p] = f[p] BY PaymentsFinite
  <1>2. Allocated(b, l) = SumFunctionOnSet(f, PaymentsOf(b)) BY DEF Allocated
  <1>3. Allocated(b, l)' = SumFunctionOnSet(g, PaymentsOf(b)) BY DEF Allocated
  <1> HIDE DEF f, g
  <1> QED BY <1>1, <1>2, <1>3, PaymentsFinite, SumLocal

\* A payment of this one replaces what it paid.
LEMMA AllocatedMoves ==
    ASSUME AmountsTyped, NEW b, PaymentsOf(b)' = PaymentsOf(b), NEW p \in PaymentsOf(b),
           NEW take \in [Lines -> Nat], alloc' = [alloc EXCEPT ![p] = take], NEW l \in Lines
    PROVE  Allocated(b, l)' = Allocated(b, l) + (take[l] - alloc[p][l])
  <1> DEFINE f == [q \in Payments |-> alloc[q][l]]
             g == [q \in Payments |-> alloc'[q][l]]
  <1>1. /\ p \in Payments /\ take[l] \in Nat /\ alloc[p][l] \in Nat
        /\ \A q \in Payments : alloc[q][l] \in Nat
    BY PaymentsFinite DEF AmountsTyped
  <1>2. /\ \A q \in PaymentsOf(b) : f[q] \in Nat /\ g[q] \in Nat
        /\ \A q \in PaymentsOf(b) : q # p => g[q] = f[q]
        /\ f[p] = alloc[p][l] /\ g[p] = take[l]
    BY <1>1, PaymentsFinite DEF AmountsTyped
  <1>3. Allocated(b, l) = SumFunctionOnSet(f, PaymentsOf(b)) BY DEF Allocated
  <1>4. Allocated(b, l)' = SumFunctionOnSet(g, PaymentsOf(b)) BY DEF Allocated
  <1> HIDE DEF f, g
  <1>5. g[p] = f[p] + (take[l] - alloc[p][l]) /\ take[l] - alloc[p][l] \in Int BY <1>1, <1>2
  <1>6. SumFunctionOnSet(g, PaymentsOf(b)) = SumFunctionOnSet(f, PaymentsOf(b)) + (take[l] - alloc[p][l])
    BY <1>2, <1>5, PaymentsFinite, SumChanges
  <1> QED BY <1>3, <1>4, <1>6

-----------------------------------------------------------------------------
(* Amounts.  A claimed payment is for an issued bill of its student, and   *)
(* what a verification has worked out still fits when it commits, unless   *)
(* requests have crossed.                                                  *)

ClaimRows ==
    \A p \in Payments :
        IF payment[p].status = "none" THEN payment[p].bill = NoBill /\ alloc[p] = Nothing
        ELSE /\ payment[p].student \in Students
             /\ payment[p].bill # NoBill => /\ Issued(payment[p].bill)
                                            /\ StudentOf[payment[p].bill] = payment[p].student

Verifies(t) == t.op = "VERIFIED" /\ t.stage \in {"posted", "numbered"}
ChargeFits(p, b, amounts) ==
    /\ \A l \in Lines : amounts.take[l] + Allocated(b, l) <= NetOf(b, l)
    /\ amounts.late = 0 \/ lateFee[b] + amounts.late <= Accrued(b, payment[p].day, Total(b))
ChargesFit ==
    \A c \in Clerks :
        LET p == tx[c].payment IN
        Verifies(tx[c]) /\ payment[p].bill # NoBill /\ payment[p].student \notin crossed
        => ChargeFits(p, payment[p].bill, charge[c])

AmountsInv == /\ AmountsTyped /\ ClaimRows /\ ChargesFit /\ LinesNotOverpaid
              /\ LateFeeWithinRule

LEMMA InitAmounts == ASSUME Init PROVE AmountsInv
  <1>1. AmountsTyped BY DEF Init, AmountsTyped, Nothing, NoCharge
  <1>2. ClaimRows BY DEF Init, ClaimRows
  <1>3. ChargesFit BY DEF Init, ChargesFit, Verifies, Idle
  <1>4. LateFeeWithinRule BY DEF Init, LateFeeWithinRule
  <1>5. LinesNotOverpaid
    <2> SUFFICES ASSUME NEW b \in Bills, NEW l \in Lines PROVE Allocated(b, l) <= NetOf(b, l)
      BY DEF LinesNotOverpaid
    <2>1. PaymentsOf(b) = {} BY FeesAssumption DEF Init, PaymentsOf
    <2>2. Allocated(b, l) = 0 BY <2>1, SumOfNone DEF Allocated
    <2> QED BY <2>2, NetIsNat
  <1> QED BY <1>1, <1>2, <1>3, <1>4, <1>5 DEF AmountsInv

\* The books stay, and every charge was there or fits.
LEMMA BooksStay ==
    ASSUME AmountsInv, UNCHANGED books, crossed \subseteq crossed', crossed' \subseteq Students,
           charge' \in [Clerks -> [late : Nat, take : [Lines -> Nat]]],
           \A c \in Clerks :
              LET p == tx'[c].payment IN
              Verifies(tx'[c]) /\ payment[p].bill # NoBill /\ payment[p].student \notin crossed =>
                \/ Verifies(tx[c]) /\ tx[c].payment = p /\ charge'[c] = charge[c]
                \/ ChargeFits(p, payment[p].bill, charge'[c])
    PROVE  AmountsInv'
  <1> USE DEF AmountsInv
  <1>1. UNCHANGED <<bill, payment, credit, lateFee, alloc>> BY DEF books
  <1>2. AmountsTyped' BY <1>1 DEF AmountsTyped
  <1>3. ClaimRows' BY <1>1 DEF ClaimRows, Issued
  <1>4. /\ \A b : PaymentsOf(b)' = PaymentsOf(b)
        /\ \A b, l : Allocated(b, l)' = Allocated(b, l) /\ NetOf(b, l)' = NetOf(b, l)
        /\ \A b : Total(b)' = Total(b)
    BY <1>1 DEF PaymentsOf, Allocated, NetOf, Total
  <1>5. ChargesFit'
    <2> SUFFICES ASSUME NEW c \in Clerks, NEW p, NEW b, tx'[c].payment = p, payment[p].bill = b,
                        Verifies(tx'[c]), b # NoBill, payment[p].student \notin crossed
                 PROVE  ChargeFits(p, b, charge[c])'
      BY <1>1 DEF ChargesFit, Verifies
    <2>1. ChargeFits(p, b, charge'[c])
      <3>1. CASE Verifies(tx[c]) /\ tx[c].payment = p /\ charge'[c] = charge[c]
        <4>1. ChargeFits(p, b, charge[c]) BY <3>1 DEF ChargesFit
        <4> QED BY <3>1, <4>1
      <3> QED BY <3>1
    <2> QED BY <2>1, <1>1, <1>4 DEF ChargeFits
  <1>6. LinesNotOverpaid' BY <1>4 DEF LinesNotOverpaid, Undisturbed
  <1>7. LateFeeWithinRule' BY <1>1, <1>4 DEF LateFeeWithinRule, Undisturbed, Accrued
  <1> QED BY <1>2, <1>3, <1>5, <1>6, <1>7

\* Requests that begin or go on, and those that are rolled back.
LEMMA AmountsBegin ==
    ASSUME AmountsInv, StatementInv, NEW c \in Clerks, NEW t \in RequestType, Begin(c, t),
           t.stage = "read", t.op \in Kinds \union {"generate"},
           t.op \in Kinds => t.payment \in Payments /\ payment[t.payment].status # "none"
    PROVE  AmountsInv'
  <1>1. tx \in [Clerks -> RequestType]
    BY DEF StatementInv, FeesInv, Typed, RequestsTyped
  <1>2. UNCHANGED <<books, charge>> /\ tx' = [tx EXCEPT ![c] = t]
    BY DEF Begin
  <1>3. About(t) \subseteq Students
    BY FeesAssumption DEF About, AmountsInv, ClaimRows, Kinds
  <1>4. crossed \subseteq crossed' /\ crossed' \subseteq Students
    BY <1>3 DEF Begin, AmountsInv, AmountsTyped
  <1>5. charge' \in [Clerks -> [late : Nat, take : [Lines -> Nat]]]
    BY <1>2 DEF AmountsInv, AmountsTyped
  <1>6. \A d \in Clerks : Verifies(tx'[d]) => tx'[d] = tx[d] /\ charge'[d] = charge[d]
    BY <1>1, <1>2 DEF Verifies
  <1> QED BY <1>2, <1>4, <1>5, <1>6, BooksStay

LEMMA AmountsGoOn ==
    ASSUME AmountsInv, StatementInv, NEW c \in Clerks,
           DecisionPost(c) \/ VerifyNumber(c) \/ GenerateNumber(c) \/ Abort(c)
    PROVE  AmountsInv'
  <1>1. tx \in [Clerks -> RequestType] /\ charge \in [Clerks -> [late : Nat, take : [Lines -> Nat]]]
    BY DEF StatementInv, FeesInv, Typed, RequestsTyped, AmountsInv, AmountsTyped
  <1>2. UNCHANGED <<books, crossed>>
    BY DEF DecisionPost, VerifyNumber, GenerateNumber, Abort, End
  <1>3. charge' \in [Clerks -> [late : Nat, take : [Lines -> Nat]]]
    BY <1>1 DEF DecisionPost, VerifyNumber, GenerateNumber, Abort, End, NoCharge, Nothing
  <1>4. \A d \in Clerks : Verifies(tx'[d]) =>
          Verifies(tx[d]) /\ tx'[d].payment = tx[d].payment /\ charge'[d] = charge[d]
    <2>1. \A d \in Clerks : d # c => tx'[d] = tx[d] /\ charge'[d] = charge[d]
      BY <1>1 DEF DecisionPost, VerifyNumber, GenerateNumber, Abort, End
    <2>2. tx[c] \in RequestType BY <1>1
    <2>3. CASE DecisionPost(c)
      BY <2>1, <2>2, <2>3, <1>1 DEF DecisionPost, Verifies, RequestType
    <2>4. CASE VerifyNumber(c)
      BY <2>1, <2>2, <2>4, <1>1 DEF VerifyNumber, Verifies, RequestType
    <2>5. CASE GenerateNumber(c)
      BY <2>1, <2>2, <2>5, <1>1 DEF GenerateNumber, Verifies, RequestType
    <2>6. CASE Abort(c)
      BY <2>1, <2>6, <1>1 DEF Abort, End, Verifies, Idle
    <2> QED BY <2>3, <2>4, <2>5, <2>6
  <1>5. crossed' \subseteq Students BY <1>2 DEF AmountsInv, AmountsTyped
  <1> QED BY <1>2, <1>3, <1>4, <1>5, BooksStay

\* A verification works out the late fee and the allocation from what is committed.
LEMMA AmountsPost ==
    ASSUME AmountsInv, StatementInv, NEW c \in Clerks, VerifyPost(c)
    PROVE  AmountsInv'
  <1> DEFINE p == tx[c].payment
             b == payment[p].bill
             amounts == IF b = NoBill THEN NoCharge
                        ELSE [late |-> LateFeeDue(b, payment[p].day), take |-> Take(b, payment[p].amount)]
  <1>1. tx \in [Clerks -> RequestType] /\ charge \in [Clerks -> [late : Nat, take : [Lines -> Nat]]]
    BY DEF StatementInv, FeesInv, Typed, RequestsTyped, AmountsInv, AmountsTyped
  <1>2. UNCHANGED <<books, crossed>> /\ tx[c].op = "VERIFIED"
    BY DEF VerifyPost
  <1>3. tx[c] \in RequestType /\ p \in Payments
    BY <1>1, <1>2 DEF StatementInv, FeesInv, Shape, Kinds
  <1>4. charge' = [charge EXCEPT ![c] = amounts] BY DEF VerifyPost
  <1>5. payment[p] \in PaymentType BY <1>3 DEF StatementInv, FeesInv, Typed, BooksTyped
  <1>6. b # NoBill => b \in Bills BY <1>5 DEF PaymentType
  <1>7. payment[p].day \in Nat /\ payment[p].amount \in Nat BY <1>5 DEF PaymentType
  <1>8. AmountsTyped /\ LinesNotOverpaid BY DEF AmountsInv
  <1>9. amounts \in [late : Nat, take : [Lines -> Nat]]
    <2>1. CASE b = NoBill BY <2>1 DEF NoCharge, Nothing
    <2>2. CASE b # NoBill BY <2>2, <1>6, <1>7, <1>8, LateFeeFits, TakeFits
    <2> QED BY <2>1, <2>2
  <1>10. ASSUME b # NoBill, payment[p].student \notin crossed PROVE ChargeFits(p, b, amounts)
    <2>0. b \in Bills BY <1>6, <1>10
    <2>1. StudentOf[b] \in Undisturbed
      <3>1. payment[p].status # "none" BY <1>2 DEF StatementInv, Claimed, Kinds
      <3> QED BY <3>1, <1>3, <1>10 DEF AmountsInv, ClaimRows, Undisturbed
    <2>2. /\ amounts.late = LateFeeDue(b, payment[p].day)
          /\ amounts.take = Take(b, payment[p].amount)
      BY <1>10
    <2>3. amounts.late = 0 \/ lateFee[b] + amounts.late <= Accrued(b, payment[p].day, Total(b))
      BY <2>0, <2>2, <1>7, <1>8, LateFeeFits
    <2>4. ASSUME NEW l \in Lines PROVE amounts.take[l] + Allocated(b, l) <= NetOf(b, l)
      <3>1. Allocated(b, l) <= NetOf(b, l) BY <2>0, <2>1, <1>8 DEF LinesNotOverpaid
      <3>2. /\ amounts.take[l] \in Nat /\ amounts.take[l] <= Owed(b, l) /\ Owed(b, l) \in Nat
        BY <2>0, <2>2, <1>7, <1>8, TakeFits
      <3>3. Allocated(b, l) \in Nat /\ NetOf(b, l) \in Nat
        BY <2>0, <1>8, AllocatedIsNat, NetIsNat
      <3>4. Owed(b, l) = NetOf(b, l) - Allocated(b, l)
        BY <3>1, <3>3 DEF Owed, Positive
      <3> HIDE DEF amounts, b
      <3> QED BY <3>2, <3>3, <3>4
    <2> QED BY <2>3, <2>4 DEF ChargeFits
  <1>11. /\ tx'[c].payment = p /\ charge'[c] = amounts
         /\ \A d \in Clerks : d # c => tx'[d] = tx[d] /\ charge'[d] = charge[d]
    BY <1>1, <1>3, <1>4 DEF VerifyPost, RequestType
  <1>12. charge' \in [Clerks -> [late : Nat, take : [Lines -> Nat]]]
    BY <1>1, <1>4, <1>9
  <1>13. crossed' \subseteq Students BY <1>2 DEF AmountsInv, AmountsTyped
  <1> HIDE DEF amounts
  <1> QED BY <1>2, <1>10, <1>11, <1>12, <1>13, BooksStay

-----------------------------------------------------------------------------
(* Commits and claims.                                                     *)

\* What a charge for a bill depends on.
BillStays(b) == /\ lateFee'[b] = lateFee[b] /\ Total(b)' = Total(b)
                /\ \A l \in Lines : /\ Allocated(b, l)' = Allocated(b, l)
                                     /\ NetOf(b, l)' = NetOf(b, l)

LEMMA ChargesStay ==
    ASSUME ChargesFit, UNCHANGED crossed,
           \A d \in Clerks : Verifies(tx'[d]) => tx'[d] = tx[d] /\ charge'[d] = charge[d],
           NEW Q, \A d \in Clerks : Verifies(tx'[d]) => tx[d].payment \in Q,
           \A p \in Q : /\ payment'[p].bill = payment[p].bill /\ payment'[p].day = payment[p].day
                        /\ payment'[p].student = payment[p].student,
           \A d \in Clerks : LET p == tx[d].payment IN
             Verifies(tx'[d]) /\ payment[p].bill # NoBill /\ payment[p].student \notin crossed
             => BillStays(payment[p].bill)
    PROVE  ChargesFit'
  <1> SUFFICES ASSUME NEW d \in Clerks, NEW p, NEW b, tx'[d].payment = p, payment'[p].bill = b,
                      Verifies(tx'[d]), b # NoBill, payment'[p].student \notin crossed
               PROVE  ChargeFits(p, b, charge[d])'
    BY DEF ChargesFit, Verifies
  <1>1. tx[d].payment = p /\ Verifies(tx[d]) /\ charge'[d] = charge[d] /\ p \in Q OBVIOUS
  <1>2. payment[p].bill = b /\ payment[p].student \notin crossed /\ payment'[p].day = payment[p].day
    BY <1>1
  <1>3. ChargeFits(p, b, charge[d]) BY <1>1, <1>2 DEF ChargesFit
  <1>4. BillStays(b) BY <1>1, <1>2
  <1> QED BY <1>1, <1>2, <1>3, <1>4 DEF ChargeFits, BillStays

\* A claim pays nothing yet.
LEMMA AmountsSubmit ==
    ASSUME AmountsInv, StatementInv, NEW p \in Payments, NEW claim \in Claims, Submit(p, claim)
    PROVE  AmountsInv'
  <1> USE DEF AmountsInv
  <1>0. BooksTyped BY DEF StatementInv, FeesInv, Typed
  <1>1. /\ payment[p].status = "none" /\ payment[p].bill = NoBill /\ alloc[p] = Nothing
        /\ UNCHANGED <<bill, credit, lateFee, alloc, tx, charge, crossed>>
    BY DEF Submit, ClaimRows
  <1>2. /\ \A q \in Payments : q # p => payment'[q] = payment[q]
        /\ payment'[p].status = "SUBMITTED" /\ payment'[p].bill = claim.bill
        /\ payment'[p].student = claim.student
    BY <1>0 DEF Submit, BooksTyped
  <1>3. claim.student \in Students /\ claim.bill \in Bills \union {NoBill} BY FeesAssumption
  <1>4. AmountsTyped' BY <1>1 DEF AmountsTyped
  <1>5. ClaimRows' BY <1>1, <1>2, <1>3 DEF ClaimRows, Submit, Issued
  <1>6. ASSUME NEW b, b # NoBill PROVE BillStays(b) /\ PaymentsOf(b) \subseteq PaymentsOf(b)'
    <2>1. PaymentsOf(b)' = IF claim.bill = b THEN PaymentsOf(b) \union {p} ELSE PaymentsOf(b)
      BY <1>1, <1>2, <1>6 DEF PaymentsOf
    <2>2. p \notin PaymentsOf(b) BY <1>1, <1>6 DEF PaymentsOf
    <2>3. ASSUME NEW l \in Lines PROVE Allocated(b, l)' = Allocated(b, l)
      <3> DEFINE f == [q \in Payments |-> alloc[q][l]]
      <3>1. Allocated(b, l) = SumFunctionOnSet(f, PaymentsOf(b)) BY DEF Allocated
      <3>2. Allocated(b, l)' = SumFunctionOnSet(f, PaymentsOf(b)') BY <1>1 DEF Allocated
      <3>3. f[p] = 0 /\ \A q \in PaymentsOf(b) : f[q] \in Nat
        BY <1>1, PaymentsFinite DEF AmountsTyped, Nothing
      <3> HIDE DEF f
      <3>4. SumFunctionOnSet(f, PaymentsOf(b) \union {p}) = SumFunctionOnSet(f, PaymentsOf(b)) + 0
        BY <2>2, <3>3, PaymentsFinite, SumGrows
      <3>5. SumFunctionOnSet(f, PaymentsOf(b)) \in Nat BY <3>3, PaymentsFinite, SumTakesOut
      <3> QED BY <2>1, <3>1, <3>2, <3>4, <3>5
    <2> QED BY <2>1, <2>3, <1>1 DEF BillStays, Total, NetOf
  <1>7. ChargesFit'
    <2> DEFINE Q == Payments \ {p}
    <2>1. \A d \in Clerks : Verifies(tx'[d]) => tx[d].payment \in Q
      BY <1>1 DEF Verifies, Kinds, StatementInv, FeesInv, Shape, Claimed
    <2> QED BY <2>1, <1>1, <1>2, <1>6, ChargesStay
  <1>8. LinesNotOverpaid'
    <2> SUFFICES ASSUME NEW b \in Bills, StudentOf[b] \in Undisturbed, NEW l \in Lines
                 PROVE  Allocated(b, l)' <= NetOf(b, l)'
      BY <1>1 DEF LinesNotOverpaid, Undisturbed
    <2>1. BillStays(b) BY <1>6, FeesAssumption
    <2> QED BY <2>1 DEF BillStays, LinesNotOverpaid
  <1>9. LateFeeWithinRule'
    <2> SUFFICES ASSUME NEW b \in Bills, StudentOf[b] \in Undisturbed, lateFee[b] # 0
                 PROVE  \E q \in PaymentsOf(b)' :
                          credit[q] > 0 /\ lateFee[b] <= Accrued(b, payment'[q].day, Total(b)')
      BY <1>1 DEF LateFeeWithinRule, Undisturbed
    <2>1. BillStays(b) /\ PaymentsOf(b) \subseteq PaymentsOf(b)' BY <1>6, FeesAssumption
    <2>2. PICK q \in PaymentsOf(b) : credit[q] > 0 /\ lateFee[b] <= Accrued(b, payment[q].day, Total(b))
      BY DEF LateFeeWithinRule
    <2>3. payment'[q] = payment[q] BY <2>2, <1>1, <1>2, PaymentsFinite, FeesAssumption DEF PaymentsOf
    <2> QED BY <2>1, <2>2, <2>3 DEF BillStays
  <1> QED BY <1>4, <1>5, <1>7, <1>8, <1>9

\* A decision commits: it moves one payment, and nobody else is about its student.
LEMMA AmountsDecide ==
    ASSUME AmountsInv, StatementInv, NEW c \in Clerks, tx[c].op \in Kinds, End(c),
           NEW p \in Payments, p = tx[c].payment, NEW b, b = payment[p].bill, UNCHANGED bill,
           payment' = [payment EXCEPT ![p].status = tx[c].op],
           NEW take \in [Lines -> Nat], alloc' = [alloc EXCEPT ![p] = take],
           NEW late \in Nat,
           lateFee' = IF b = NoBill THEN lateFee ELSE [lateFee EXCEPT ![b] = @ + late],
           \A q \in Payments : credit[q] > 0 => credit'[q] > 0,
           late # 0 => credit'[p] > 0,
           b # NoBill /\ payment[p].student \notin crossed =>
             /\ \A l \in Lines : take[l] <= alloc[p][l] \/ take[l] + Allocated(b, l) <= NetOf(b, l)
             /\ late = 0 \/ lateFee[b] + late <= Accrued(b, payment[p].day, Total(b))
    PROVE  AmountsInv'
  <1> USE DEF AmountsInv
  <1>0. /\ payment[p] \in PaymentType /\ payment \in [Payments -> PaymentType]
        /\ tx \in [Clerks -> RequestType]
    BY DEF StatementInv, FeesInv, Typed, BooksTyped, RequestsTyped
  <1>1. /\ \A q \in Payments : /\ payment'[q].bill = payment[q].bill
                               /\ payment'[q].student = payment[q].student
                               /\ payment'[q].day = payment[q].day
        /\ \A q \in Payments : q # p => payment'[q] = payment[q] /\ alloc'[q] = alloc[q]
        /\ payment'[p].status \in Kinds
    BY <1>0 DEF PaymentType, AmountsTyped
  <1>2. payment[p].status # "none" BY DEF StatementInv, Claimed
  <1>3. b \in Bills \union {NoBill} /\ (b # NoBill => StudentOf[b] = payment[p].student)
    BY <1>0, <1>2 DEF PaymentType, ClaimRows
  <1>4. /\ tx'[c] = Idle /\ UNCHANGED crossed
        /\ \A d \in Clerks : d # c => tx'[d] = tx[d] /\ charge'[d] = charge[d]
        /\ charge' \in [Clerks -> [late : Nat, take : [Lines -> Nat]]]
    BY <1>0 DEF End, AmountsTyped, NoCharge, Nothing
  <1>5. AmountsTyped'
    <2>1. lateFee' \in [Bills -> Nat] BY <1>3 DEF AmountsTyped
    <2> QED BY <2>1, <1>4 DEF AmountsTyped
  <1>6. ClaimRows' BY <1>1, <1>2 DEF ClaimRows, Issued, Kinds
  <1>7. \A x : PaymentsOf(x)' = PaymentsOf(x) BY <1>1 DEF PaymentsOf
  <1>8. \A x : Total(x)' = Total(x) /\ \A l : NetOf(x, l)' = NetOf(x, l) BY DEF Total, NetOf
  <1>9. ASSUME NEW x \in Bills, x # b PROVE BillStays(x)
    <2>1. \A q \in PaymentsOf(x) : alloc'[q] = alloc[q]
      BY <1>1, <1>9, PaymentsFinite DEF PaymentsOf
    <2>2. \A l \in Lines : Allocated(x, l)' = Allocated(x, l) BY <2>1, <1>7, AllocatedStays
    <2>3. lateFee'[x] = lateFee[x] BY <1>3, <1>9 DEF AmountsTyped
    <2> QED BY <2>2, <2>3, <1>8 DEF BillStays
  <1>10. ChargesFit'
    <2>1. \A d \in Clerks : Verifies(tx'[d]) => d # c /\ tx'[d] = tx[d] /\ charge'[d] = charge[d]
      BY <1>4 DEF Verifies, Idle
    <2>2. \A d \in Clerks : Verifies(tx'[d]) => tx[d].payment \in Payments
      BY <2>1 DEF Verifies, Kinds, StatementInv, FeesInv, Shape
    <2>3. ASSUME NEW d \in Clerks, NEW q, q = tx[d].payment, Verifies(tx'[d]),
                 payment[q].bill # NoBill, payment[q].student \notin crossed
          PROVE  BillStays(payment[q].bill)
      <3>1. /\ q \in Payments /\ d # c /\ tx[d].op = "VERIFIED"
        BY <2>1, <2>2, <2>3 DEF Verifies
      <3>2. payment[q].status # "none" BY <2>3, <3>1 DEF StatementInv, Claimed, Kinds
      <3>3. payment[q].bill \in Bills /\ StudentOf[payment[q].bill] = payment[q].student
        BY <2>3, <3>1, <3>2, <1>0 DEF ClaimRows, PaymentType
      <3>4. payment[q].student # payment[p].student
        <4>1. About(tx[d]) = {payment[q].student} BY <2>3, <3>1 DEF About
        <4>2. About(tx[c]) = {payment[p].student} BY DEF About, Kinds
        <4>3. About(tx[c]) \intersect About(tx[d]) \subseteq crossed
          BY <3>1 DEF StatementInv, Alone
        <4> QED BY <2>3, <4>1, <4>2, <4>3
      <3>5. payment[q].bill # b BY <3>3, <3>4, <1>3, FeesAssumption
      <3> QED BY <3>3, <3>5, <1>9
    <2> QED BY <2>1, <2>2, <2>3, <1>1, <1>4, ChargesStay
  <1>11. LinesNotOverpaid'
    <2> SUFFICES ASSUME NEW x \in Bills, StudentOf[x] \in Undisturbed, NEW l \in Lines
                 PROVE  Allocated(x, l)' <= NetOf(x, l)
      BY <1>4, <1>8 DEF LinesNotOverpaid, Undisturbed
    <2>0. Allocated(x, l) <= NetOf(x, l) BY DEF LinesNotOverpaid
    <2>1. CASE x # b BY <2>0, <2>1, <1>9 DEF BillStays
    <2>2. CASE x = b
      <3>1. b # NoBill /\ payment[p].student \notin crossed
        BY <2>2, <1>3, FeesAssumption DEF Undisturbed
      <3>2. take[l] <= alloc[p][l] \/ take[l] + Allocated(b, l) <= NetOf(b, l) BY <3>1
      <3>3. p \in PaymentsOf(b) BY DEF PaymentsOf
      <3>4. Allocated(b, l)' = Allocated(b, l) + (take[l] - alloc[p][l])
        BY <3>3, <1>7, AllocatedMoves
      <3>5. /\ Allocated(b, l) \in Nat /\ take[l] \in Nat /\ alloc[p][l] \in Nat
            /\ NetOf(b, l) \in Nat
        BY <2>2, AllocatedIsNat, NetIsNat DEF AmountsTyped
      <3> QED BY <2>0, <2>2, <3>2, <3>4, <3>5
    <2> QED BY <2>1, <2>2
  <1>12. LateFeeWithinRule'
    <2> SUFFICES ASSUME NEW x \in Bills, StudentOf[x] \in Undisturbed, lateFee'[x] # 0
                 PROVE  \E q \in PaymentsOf(x) :
                          credit'[q] > 0 /\ lateFee'[x] <= Accrued(x, payment'[q].day, Total(x))
      BY <1>4, <1>7, <1>8 DEF LateFeeWithinRule, Undisturbed
    <2>1. CASE lateFee'[x] = lateFee[x]
      <3>1. PICK q \in PaymentsOf(x) : credit[q] > 0 /\ lateFee[x] <= Accrued(x, payment[q].day, Total(x))
        BY <2>1 DEF LateFeeWithinRule
      <3>2. credit'[q] > 0 /\ payment'[q].day = payment[q].day BY <3>1, <1>1, PaymentsFinite
      <3> QED BY <2>1, <3>1, <3>2
    <2>2. CASE lateFee'[x] # lateFee[x]
      <3>1. x = b /\ b # NoBill /\ lateFee'[b] = lateFee[b] + late
        BY <2>2, <1>9, FeesAssumption DEF BillStays, AmountsTyped
      <3>2. late # 0 BY <2>2, <3>1 DEF AmountsTyped
      <3>3. payment[p].student \notin crossed BY <3>1, <1>3 DEF Undisturbed
      <3>4. lateFee[b] + late <= Accrued(b, payment[p].day, Total(b)) BY <3>1, <3>2, <3>3
      <3>5. p \in PaymentsOf(b) BY DEF PaymentsOf
      <3>6. credit'[p] > 0 /\ payment'[p].day = payment[p].day BY <3>2, <1>1
      <3> QED BY <3>1, <3>4, <3>5, <3>6
    <2> QED BY <2>1, <2>2
  <1> QED BY <1>5, <1>6, <1>10, <1>11, <1>12

LEMMA AmountsCommit ==
    ASSUME AmountsInv, StatementInv, NEW c \in Clerks,
           VerifyCommit(c) \/ RejectCommit(c) \/ ReverseCommit(c)
    PROVE  AmountsInv'
  <1> DEFINE p == tx[c].payment
             b == payment[p].bill
  <1>1. /\ tx[c].op \in Kinds /\ p \in Payments /\ End(c) /\ UNCHANGED bill
        /\ payment' = [payment EXCEPT ![p].status = tx[c].op]
    BY DEF VerifyCommit, RejectCommit, ReverseCommit, Kinds, StatementInv, FeesInv, Shape
  <1>2. /\ credit \in [Payments -> Nat] /\ lateFee \in [Bills -> Nat]
        /\ alloc \in [Payments -> [Lines -> Nat]]
        /\ charge[c] \in [late : Nat, take : [Lines -> Nat]]
    BY DEF StatementInv, FeesInv, Typed, BooksTyped, AmountsInv, AmountsTyped
  <1>3. CASE VerifyCommit(c)
    <2> DEFINE take == charge[c].take
               late == charge[c].late
    <2>1. take \in [Lines -> Nat] /\ late \in Nat BY <1>2
    <2>2. /\ alloc' = [alloc EXCEPT ![p] = take]
          /\ lateFee' = IF b = NoBill THEN lateFee ELSE [lateFee EXCEPT ![b] = @ + late]
      BY <1>3 DEF VerifyCommit
    <2>3. credit' = [credit EXCEPT ![p] = credit[p] + 1] BY <1>3 DEF VerifyCommit
    <2>4. credit'[p] > 0 /\ \A q \in Payments : credit[q] > 0 => credit'[q] > 0
      BY <2>3, <1>1, <1>2
    <2>5. b # NoBill /\ payment[p].student \notin crossed => ChargeFits(p, b, charge[c])
      BY <1>3 DEF VerifyCommit, Verifies, AmountsInv, ChargesFit
    <2>6. b # NoBill /\ payment[p].student \notin crossed =>
             /\ \A l \in Lines : take[l] <= alloc[p][l] \/ take[l] + Allocated(b, l) <= NetOf(b, l)
             /\ late = 0 \/ lateFee[b] + late <= Accrued(b, payment[p].day, Total(b))
      BY <2>5 DEF ChargeFits
    <2> HIDE DEF take, late, p, b
    <2> QED BY <1>1, <2>1, <2>2, <2>4, <2>6, AmountsDecide DEF p, b
  <1>4. CASE RejectCommit(c) \/ ReverseCommit(c)
    <2> DEFINE take == IF RejectCommit(c) THEN alloc[p] ELSE Nothing
    <2>1. take \in [Lines -> Nat] /\ \A l \in Lines : take[l] <= alloc[p][l]
      BY <1>1, <1>2 DEF Nothing
    <2>2. alloc' = [alloc EXCEPT ![p] = take]
      BY <1>2, <1>4 DEF RejectCommit, ReverseCommit
    <2>3. lateFee' = lateFee /\ credit' = credit
      BY <1>4 DEF RejectCommit, ReverseCommit
    <2>4. lateFee' = IF b = NoBill THEN lateFee ELSE [lateFee EXCEPT ![b] = @ + 0]
      BY <2>3, <1>2
    <2> HIDE DEF take, p, b
    <2> QED BY <1>1, <2>1, <2>2, <2>3, <2>4, AmountsDecide DEF p, b
  <1> QED BY <1>3, <1>4

\* Bills that are issued now had no payments.
LEMMA AmountsBilled ==
    ASSUME AmountsInv, StatementInv, NEW c \in Clerks, GenerateCommit(c)
    PROVE  AmountsInv'
  <1> USE DEF AmountsInv
  <1> DEFINE B == tx[c].bills
  <1>1. /\ UNCHANGED <<payment, credit, lateFee, alloc, crossed>> /\ End(c)
        /\ \A b \in B : ~Issued(b)
        /\ \A b \in Bills \ B : bill'[b] = bill[b]
    BY DEF GenerateCommit, End
  <1>2. tx \in [Clerks -> RequestType] BY DEF StatementInv, FeesInv, Typed, RequestsTyped
  <1>3. /\ tx'[c] = Idle
        /\ \A d \in Clerks : d # c => tx'[d] = tx[d] /\ charge'[d] = charge[d]
        /\ charge' \in [Clerks -> [late : Nat, take : [Lines -> Nat]]]
    BY <1>1, <1>2 DEF End, AmountsTyped, NoCharge, Nothing
  <1>4. AmountsTyped' BY <1>1, <1>3 DEF AmountsTyped
  <1>5. \A p \in Payments : payment[p].bill \in Bills =>
          Issued(payment[p].bill) /\ payment[p].bill \notin B
    BY <1>1, FeesAssumption DEF ClaimRows
  <1>6. ClaimRows'
    <2>1. \A p \in Payments : payment[p].bill \in Bills \union {NoBill}
      BY DEF StatementInv, FeesInv, Typed, BooksTyped, PaymentType
    <2> QED BY <2>1, <1>1, <1>5 DEF ClaimRows, Issued
  <1>7. \A b : PaymentsOf(b)' = PaymentsOf(b) BY <1>1 DEF PaymentsOf
  <1>8. \A b, l : Allocated(b, l)' = Allocated(b, l) BY <1>1 DEF Allocated, PaymentsOf
  <1>9. ASSUME NEW b \in Bills \ B PROVE BillStays(b)
    <2>1. \A l : NetOf(b, l)' = NetOf(b, l) BY <1>1, <1>9 DEF NetOf
    <2>2. Total(b)' = Total(b) BY <2>1 DEF Total
    <2> QED BY <2>1, <2>2, <1>1, <1>8 DEF BillStays
  <1>10. ASSUME NEW b \in B PROVE PaymentsOf(b) = {} /\ b \in Bills
    BY <1>2, <1>5 DEF PaymentsOf, RequestType
  <1>11. ChargesFit'
    <2>1. \A d \in Clerks : Verifies(tx'[d]) => tx'[d] = tx[d] /\ charge'[d] = charge[d]
      BY <1>3 DEF Verifies, Idle
    <2>2. \A d \in Clerks : Verifies(tx'[d]) => tx[d].payment \in Payments
      BY <2>1 DEF Verifies, Kinds, StatementInv, FeesInv, Shape
    <2>3. \A p \in Payments : payment[p].bill # NoBill => BillStays(payment[p].bill)
      <3>1. \A p \in Payments : payment[p].bill \in Bills \union {NoBill}
        BY DEF StatementInv, FeesInv, Typed, BooksTyped, PaymentType
      <3> QED BY <3>1, <1>5, <1>9
    <2> QED BY <2>1, <2>2, <2>3, <1>1, ChargesStay
  <1>12. LinesNotOverpaid'
    <2> SUFFICES ASSUME NEW b \in Bills, StudentOf[b] \in Undisturbed, NEW l \in Lines
                 PROVE  Allocated(b, l)' <= NetOf(b, l)'
      BY <1>1 DEF LinesNotOverpaid, Undisturbed
    <2>1. CASE b \notin B BY <2>1, <1>9 DEF BillStays, LinesNotOverpaid
    <2>2. CASE b \in B
      <3>1. Allocated(b, l) = 0 BY <2>2, <1>10, SumOfNone DEF Allocated
      <3>2. NetOf(b, l)' \in Nat BY FeesAssumption DEF NetOf
      <3> QED BY <3>1, <3>2, <1>8
    <2> QED BY <2>1, <2>2
  <1>13. LateFeeWithinRule'
    <2> SUFFICES ASSUME NEW b \in Bills, StudentOf[b] \in Undisturbed, lateFee[b] # 0
                 PROVE  \E q \in PaymentsOf(b) :
                          credit[q] > 0 /\ lateFee[b] <= Accrued(b, payment[q].day, Total(b)')
      BY <1>1, <1>7 DEF LateFeeWithinRule, Undisturbed
    <2>1. PICK q \in PaymentsOf(b) : credit[q] > 0 /\ lateFee[b] <= Accrued(b, payment[q].day, Total(b))
      BY DEF LateFeeWithinRule
    <2>2. b \notin B BY <2>1, <1>10
    <2> QED BY <2>1, <2>2, <1>9 DEF BillStays
  <1> QED BY <1>4, <1>6, <1>11, <1>12, <1>13

LEMMA AmountsStep == ASSUME StatementInv, AmountsInv, [Next]_vars PROVE AmountsInv'
  <1>1. CASE UNCHANGED vars
    <2>1. UNCHANGED <<books, tx, charge, crossed>> BY <1>1 DEF vars, books
    <2>2. /\ charge' \in [Clerks -> [late : Nat, take : [Lines -> Nat]]]
          /\ crossed \subseteq crossed' /\ crossed' \subseteq Students
      BY <2>1 DEF AmountsInv, AmountsTyped
    <2> QED BY <2>1, <2>2, BooksStay
  <1>2. ASSUME NEW p \in Payments, NEW claim \in Claims, Submit(p, claim) PROVE AmountsInv'
    BY <1>2, AmountsSubmit
  <1>3. ASSUME NEW c \in Clerks, Office(c) PROVE AmountsInv'
    <2>1. ASSUME NEW p \in Payments, NEW op \in Kinds, DecisionRead(c, p, op) PROVE AmountsInv'
      <3> DEFINE t == [Idle EXCEPT !.op = op, !.stage = "read", !.payment = p]
      <3>1. t \in RequestType BY DEF Idle, RequestType, Stages
      <3>2. t.op = op /\ t.payment = p /\ t.stage = "read" BY DEF Idle
      <3>3. Begin(c, t) /\ payment[p].status # "none" BY <2>1 DEF DecisionRead, Decidable
      <3> HIDE DEF t
      <3> QED BY <3>1, <3>2, <3>3, AmountsBegin
    <2>2. ASSUME NEW t \in Terms, GenerateRead(c, t) PROVE AmountsInv'
      <3> DEFINE r == [Idle EXCEPT !.op = "generate", !.stage = "read", !.term = t,
                                   !.bills = ToBill(t), !.first = {b \in ToBill(t) : ~EverBilled(b)}]
      <3>1. r \in RequestType
        <4>1. ToBill(t) \subseteq Bills BY DEF ToBill
        <4> QED BY <4>1 DEF Idle, RequestType, Stages
      <3>2. r.op = "generate" /\ r.stage = "read" BY DEF Idle
      <3>3. Begin(c, r) BY <2>2 DEF GenerateRead
      <3> HIDE DEF r
      <3> QED BY <3>1, <3>2, <3>3, AmountsBegin DEF Kinds
    <2>3. ASSUME NEW t \in Terms, GenerateNothing(c, t) PROVE AmountsInv'
      BY <2>3, <1>1 DEF GenerateNothing
    <2>4. CASE DecisionPost(c) \/ VerifyNumber(c) \/ GenerateNumber(c) \/ Abort(c)
      BY <2>4, AmountsGoOn
    <2>5. CASE VerifyPost(c) BY <2>5, AmountsPost
    <2>6. CASE VerifyCommit(c) \/ RejectCommit(c) \/ ReverseCommit(c)
      BY <2>6, AmountsCommit
    <2>7. CASE GenerateCommit(c) BY <2>7, AmountsBilled
    <2> QED BY <1>3, <2>1, <2>2, <2>3, <2>4, <2>5, <2>6, <2>7 DEF Office
  <1> QED BY <1>1, <1>2, <1>3 DEF Next

\* However requests overlap, rows and requests keep their columns' values, and amounts
\* are never negative; and for a student about whom no two requests crossed, what a
\* verification has worked out still fits when it commits (verify, reverse, generate).
THEOREM AmountsHold == Spec => [](StatementInv /\ AmountsInv)
  <1>1. Init => StatementInv /\ AmountsInv BY InitStatement, InitAmounts
  <1>2. StatementInv /\ AmountsInv /\ [Next]_vars => (StatementInv /\ AmountsInv)'
    BY StatementStep, AmountsStep
  <1> QED BY <1>1, <1>2, PTL DEF Spec

\* FeeInvoice, FeePayment, FeeLedgerEntry, FeeAllocation, FeeReceipt and FeeCounter keep
\* their types: no allocation and no late fee is ever negative.
THEOREM FeesTypeCorrect == Spec => []TypeOK
  <1>1. StatementInv /\ AmountsInv => TypeOK
    BY DEF StatementInv, FeesInv, Typed, AmountsInv, TypeOK
  <1> QED BY <1>1, AmountsHold, PTL

\* Payments never pay more of a line than was billed, through reversals too (allocate).
THEOREM NoLineOverpaid == Spec => []LinesNotOverpaid
  <1>1. AmountsInv => LinesNotOverpaid BY DEF AmountsInv
  <1> QED BY <1>1, AmountsHold, PTL

\* The late fee of a bill is at most what the rule asks of one of its credited payments,
\* however many of them there are (chargeLateFee, computeLateFee).
THEOREM LateFeeIsDue == Spec => []LateFeeWithinRule
  <1>1. AmountsInv => LateFeeWithinRule BY DEF AmountsInv
  <1> QED BY <1>1, AmountsHold, PTL
====
