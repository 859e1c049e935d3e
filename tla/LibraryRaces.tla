---------------------------- MODULE LibraryRaces ----------------------------
(***************************************************************************)
(* What holds however the requests of any number of clerks interleave: the *)
(* borrowing limit and the reservation quota, the order of the queues, and *)
(* that a desk loss and a payment at the counter are settled once.         *)
(***************************************************************************)
EXTENDS LibraryTypes

-----------------------------------------------------------------------------
(***************************************************************************)
(* Why no interleaving of requests lends a member more than maxBooks, or   *)
(* lets one reserve beyond maxReservations.  Both limits are a count under *)
(* an advisory lock followed by an insert.  The count may be stale by the  *)
(* time of the insert, but only ever too high: while the lock is held      *)
(* nobody else inserts for that member, every other step only lowers the   *)
(* count, and what raises it without the lock (a rejected report, a hold   *)
(* put back by an undo) is not counted.                                    *)
(***************************************************************************)

(* Books on loan.                                                           *)

Counted(m) == LoansOf(m) \ ReportedIssues

\* A desk that was granted an issue is alone with the member and has room.
GrantsHold ==
  /\ \A c \in Clerks : Running(c, "issueGranted")
       => Cardinality(Counted(tx[c].member)) < Policy[tx[c].member].maxBooks
  /\ \A c, d \in Clerks :
       (Running(c, "issueGranted") /\ Running(d, "issueGranted") /\ c # d)
         => tx[c].member # tx[d].member

BorrowingInv == WellFormed /\ MemberWithinLimit /\ GrantsHold

----------------------------------------------------------------------------
(* What a step may do to open issues and to grants.                         *)

\* No issue becomes open that was not, but for one that was reported lost.
NothingLent ==
  \A i \in IssueIds : issue'[i].st = "ACTIVE"
    => \/ issue[i].st = "ACTIVE" /\ issue'[i].member = issue[i].member
       \/ \E r \in LostIds : lost[r].issue = i

NothingGranted == \A d \in Clerks : tx'[d].op = "issueGranted" => tx'[d] = tx[d]

\* Every step but an issue lends nothing.
LEMMA OnlyIssueLends ==
  ASSUME WellFormed, [Next]_vars, \A c \in Clerks : ~IssueCommit(c)
  PROVE  NothingLent
<1> USE DEF NothingLent
<1>1. CASE UNCHANGED issue
  BY <1>1
<1>2. ASSUME NEW c \in Clerks, DeskStep(c) PROVE NothingLent
  <2>1. CASE ReturnCommit(c)
    BY <2>1 DEF ReturnCommit, WellFormed, TypeOK, TablesOK, IssueRow
  <2>2. CASE RenewCommit(c)
    BY <2>2 DEF RenewCommit, WellFormed, TypeOK, TablesOK, IssueRow
  <2>3. CASE VoidCommit(c)
    BY <2>3 DEF VoidCommit, NoIssue, WellFormed, TypeOK, TablesOK, IssueRow
  <2>4. QED BY <1>1, <1>2, <2>1, <2>2, <2>3
            DEF DeskStep, IssueEvaluate, ReserveQuota, ReserveQueue, ReserveCommit,
                CancelCommit, db
<1>3. ASSUME NEW c \in Clerks, LostStep(c) PROVE NothingLent
  <2>1. CASE ReportLostCommit(c) \/ SelfReportLostCommit(c)
    BY <2>1 DEF ReportLostCommit, SelfReportLostCommit, LoseIssue, WellFormed, TypeOK,
                TablesOK, IssueRow
  <2>2. CASE RejectLostCommit(c)
    <3>1. tx[c].report \in LostIds
      BY <2>2, PlanFields DEF RejectLostCommit, Running, WellFormed, TypeOK
    <3>2. QED BY <2>2, <3>1 DEF RejectLostCommit, WellFormed, TypeOK, TablesOK, IssueRow
  <2>3. QED BY <1>1, <1>3, <2>1, <2>2
            DEF LostStep, ReportMissingCommit, ConfirmLostCommit, PayLostCommit,
                WriteOffLostCommit, ReplaceInKindCommit, FoundLostCommit, TurnedUpCommit,
                MarkRefundedCommit
<1>4. QED BY <1>1, <1>2, <1>3, StartsOnlyRead, FinesLeave DEF Next, Tick, Abort, vars, db

\* Only the evaluation under the member lock grants an issue.
LEMMA OnlyEvaluateGrants ==
  ASSUME WellFormed, [Next]_vars, \A c \in Clerks : ~IssueEvaluate(c)
  PROVE  NothingGranted
<1> USE DEF NothingGranted
<1>1. ASSUME NEW c \in Clerks, Finish(c) PROVE NothingGranted
  BY <1>1, EndsUnlocked DEF Idle
<1>2. ASSUME NEW c \in Clerks, DeskStart(c) \/ FinesStart(c) \/ LostStart(c)
      PROVE  NothingGranted
  BY <1>2, StartsUnlocked DEF LockedOps
<1>3. ASSUME NEW c \in Clerks, ReserveQuota(c) \/ ReserveQueue(c) PROVE NothingGranted
  BY <1>3, ReservePlans
<1>4. CASE UNCHANGED tx
  BY <1>4
<1>5. QED BY <1>1, <1>2, <1>3, <1>4, FinesLeave, LostLeaves
          DEF Next, DeskStep, IssueCommit, ReturnCommit, RenewCommit, VoidCommit,
              ReserveCommit, CancelCommit, Tick, Abort, vars
----------------------------------------------------------------------------
(* The invariant.                                                           *)

LEMMA CountedIsFinite ==
  ASSUME NEW m
  PROVE  /\ IsFiniteSet(Counted(m)) /\ IsFiniteSet(LoansOf(m))
         /\ Cardinality(Counted(m)) \in Nat /\ Cardinality(LoansOf(m)) \in Nat
         /\ Cardinality(Counted(m)) <= Cardinality(LoansOf(m))
<1>1. LoansOf(m) \in SUBSET IssueIds /\ Counted(m) \in SUBSET LoansOf(m)
  BY DEF LoansOf, Counted
<1>2. QED BY <1>1, FS_Subset, FS_CardinalityType, PoolsAssumption

\* Where nothing is lent, the count of a member can only go down.
LEMMA CountFalls ==
  ASSUME WellFormed, [Next]_vars, NothingLent, NEW m
  PROVE  /\ Cardinality(Counted(m))' \in Nat
         /\ Cardinality(Counted(m))' <= Cardinality(Counted(m))
<1>1. ReportsKeepIssue
  BY KeepIssue
<1>2. ReportedIssues \subseteq ReportedIssues'
  BY <1>1 DEF ReportsKeepIssue, ReportedIssues
<1>3. Counted(m)' \in SUBSET Counted(m)
  <2>1. ASSUME NEW i \in Counted(m)' PROVE i \in Counted(m)
    <3>1. i \in IssueIds /\ issue'[i].st = "ACTIVE" /\ issue'[i].member = m
      BY <2>1 DEF Counted, LoansOf
    <3>2. i \notin ReportedIssues /\ i # NULL
      BY <1>2, <2>1, <3>1, NullAssumption DEF Counted
    <3>3. issue[i].st = "ACTIVE" /\ issue[i].member = m
      BY <3>1, <3>2 DEF NothingLent, ReportedIssues
    <3>4. QED BY <3>1, <3>2, <3>3 DEF Counted, LoansOf
  <2>2. QED BY <2>1
<1>4. QED BY <1>3, CountedIsFinite, FS_Subset, FS_CardinalityType

\* An evaluation grants when the member has room and nobody else has the lock.
LEMMA EvaluateKeeps ==
  ASSUME BorrowingInv, NEW c \in Clerks, IssueEvaluate(c)
  PROVE  MemberWithinLimit' /\ GrantsHold'
<1> DEFINE m == tx[c].member
<1>1. /\ \A d \in Clerks : ~HoldsMember(d, m)
      /\ Cardinality(LoansOf(m)) < Policy[m].maxBooks
      /\ tx'[c].member = m
      /\ \A d \in Clerks \ {c} : tx'[d] = tx[d]
      /\ UNCHANGED db
  BY DEF IssueEvaluate, MayBorrow, BorrowingInv, WellFormed, TypeOK
<1>2. m \in Members
  BY PlanFields DEF IssueEvaluate, Running, BorrowingInv, WellFormed, TypeOK
<1>3. \A x : LoansOf(x)' = LoansOf(x) /\ Counted(x)' = Counted(x)
  BY <1>1 DEF LoansOf, Counted, ReportedIssues, db
<1>4. MemberWithinLimit'
  BY <1>3 DEF BorrowingInv, MemberWithinLimit, Counted
<1>5. Cardinality(Counted(m)) < Policy[m].maxBooks
  <2>1. Policy[m].maxBooks \in Nat
    BY <1>2, PolicyAssumption DEF PolicyRow
  <2>2. QED BY <1>1, <2>1, CountedIsFinite
<1> HIDE DEF m
<1>6. GrantsHold'
  <2>1. \A d \in Clerks \ {c} : Running(d, "issueGranted") => tx[d].member # m
    BY <1>1 DEF HoldsMember, Running
  <2>2. \A d \in Clerks : Running(d, "issueGranted")' =>
           Cardinality(Counted(tx[d].member))' < Policy[tx'[d].member].maxBooks
    BY <1>1, <1>3, <1>5 DEF BorrowingInv, GrantsHold, Running
  <2>3. \A d, e \in Clerks :
          (Running(d, "issueGranted")' /\ Running(e, "issueGranted")' /\ d # e)
             => tx'[d].member # tx'[e].member
    BY <1>1, <2>1 DEF BorrowingInv, GrantsHold, Running
  <2>4. QED BY <2>2, <2>3 DEF GrantsHold
<1>7. QED BY <1>4, <1>6
\* An issue adds one book to a member who had room, and gives the lock back.
LEMMA IssueKeeps ==
  ASSUME BorrowingInv, [Next]_vars, NEW c \in Clerks, IssueCommit(c)
  PROVE  MemberWithinLimit' /\ GrantsHold'
<1> PICK m \in Members : m = tx[c].member
  BY PlanFields DEF IssueCommit, Running, BorrowingInv, WellFormed, TypeOK
<1> DEFINE row == [st |-> "ACTIVE", copy |-> tx[c].copy, member |-> m,
                   due |-> tx[c].due, renewals |-> 0]
<1>1. /\ Policy[m].maxBooks \in Nat
      /\ Cardinality(Counted(m)) < Policy[m].maxBooks
      /\ \A d \in Clerks \ {c} : Running(d, "issueGranted") => tx[d].member # m
  <2>1. tx[c].op = "issueGranted"
    BY DEF IssueCommit, Running
  <2>2. Policy[m].maxBooks \in Nat
    BY PolicyAssumption DEF PolicyRow
  <2>3. QED BY <2>1, <2>2 DEF BorrowingInv, GrantsHold, Running
<1>2. /\ Room(issue) /\ issue' = Insert(issue, row)
      /\ Finish(c) /\ UNCHANGED lost
  BY DEF IssueCommit
<1> HIDE DEF row
<1>3. PICK n \in IssueIds : issue[n].st = "NONE" /\ issue' = [issue EXCEPT ![n] = row]
  BY <1>2, InsertFillsOne DEF BorrowingInv, WellFormed, TypeOK, TablesOK
<1>4. \A i \in IssueIds : issue'[i] = IF i = n THEN row ELSE issue[i]
  BY <1>3 DEF BorrowingInv, WellFormed, TypeOK, TablesOK
<1>5. row.member = m
  BY DEF row
<1>6. ReportedIssues' = ReportedIssues
  BY <1>2 DEF ReportedIssues
<1>7. ASSUME NEW x \in Members, x # m
      PROVE  Counted(x)' \in SUBSET Counted(x)
  BY <1>4, <1>5, <1>6, <1>7 DEF Counted, LoansOf
<1>8. Counted(m)' \in SUBSET (Counted(m) \cup {n})
  BY <1>4, <1>6 DEF Counted, LoansOf
<1>9. ASSUME NEW x \in Members, x # m
      PROVE  /\ Cardinality(Counted(x))' \in Nat
             /\ Cardinality(Counted(x))' <= Cardinality(Counted(x))
  BY <1>7, <1>9, CountedIsFinite, FS_Subset, FS_CardinalityType
<1>10. /\ Cardinality(Counted(m))' \in Nat
       /\ Cardinality(Counted(m))' <= Cardinality(Counted(m)) + 1
  <2>1. IsFiniteSet(Counted(m)) /\ Cardinality(Counted(m)) \in Nat
    BY CountedIsFinite
  <2>2. /\ IsFiniteSet(Counted(m) \cup {n})
        /\ Cardinality(Counted(m) \cup {n}) \in Nat
        /\ Cardinality(Counted(m) \cup {n}) <= Cardinality(Counted(m)) + 1
    <3>1. /\ IsFiniteSet(Counted(m) \cup {n})
          /\ Cardinality(Counted(m) \cup {n}) = IF n \in Counted(m)
               THEN Cardinality(Counted(m)) ELSE Cardinality(Counted(m)) + 1
      BY <2>1, FS_AddElement, Zenon
    <3>2. QED BY <2>1, <3>1
  <2>3. QED BY <1>8, <2>1, <2>2, FS_Subset, FS_CardinalityType
<1>11. \A x \in Members : /\ Policy[x].maxBooks \in Nat
                          /\ Cardinality(Counted(x)) \in Nat
  BY CountedIsFinite, PolicyAssumption DEF PolicyRow
<1>12. MemberWithinLimit'
  <2>1. \A x \in Members : Cardinality(Counted(x)) <= Policy[x].maxBooks
    BY DEF BorrowingInv, MemberWithinLimit, Counted
  <2>2. ASSUME NEW x \in Members PROVE Cardinality(Counted(x))' <= Policy[x].maxBooks
    BY <1>1, <1>9, <1>10, <1>11, <2>1, <2>2
  <2>3. QED BY <2>2 DEF MemberWithinLimit, Counted
<1>13. GrantsHold'
  <2>1. tx'[c] = Idle /\ \A d \in Clerks \ {c} : tx'[d] = tx[d]
    BY <1>2, EndsUnlocked DEF BorrowingInv
  <2>2. \A d \in Clerks : tx'[d].op = "issueGranted" => d # c /\ tx'[d] = tx[d]
    BY <2>1 DEF Idle
  <2>3. ASSUME NEW d \in Clerks, Running(d, "issueGranted")'
        PROVE  Cardinality(Counted(tx[d].member))' < Policy[tx'[d].member].maxBooks
    <3>1. /\ d # c /\ tx'[d] = tx[d] /\ tx[d].op = "issueGranted"
      BY <2>2, <2>3 DEF Running
    <3>2. PICK x \in Members : x = tx[d].member /\ x # m
      BY <1>1, <3>1, PlanFields DEF Running, BorrowingInv, WellFormed, TypeOK
    <3>3. Cardinality(Counted(x)) < Policy[x].maxBooks
      BY <3>1, <3>2 DEF BorrowingInv, GrantsHold, Running
    <3>4. Cardinality(Counted(x))' < Policy[x].maxBooks
      BY <1>9, <1>11, <3>2, <3>3
    <3>5. QED BY <3>1, <3>2, <3>4
  <2>4. QED BY <2>2, <2>3 DEF GrantsHold, BorrowingInv, Running
<1>14. QED BY <1>12, <1>13
LEMMA BorrowingStep ==
  ASSUME BorrowingInv, [Next]_vars
  PROVE  BorrowingInv'
<1>1. WellFormed'
  BY NextPreserves DEF BorrowingInv
<1>2. ASSUME NEW c \in Clerks, IssueEvaluate(c) PROVE MemberWithinLimit' /\ GrantsHold'
  BY <1>2, EvaluateKeeps
<1>3. ASSUME NEW c \in Clerks, IssueCommit(c) PROVE MemberWithinLimit' /\ GrantsHold'
  BY <1>3, IssueKeeps
<1>4. ASSUME \A c \in Clerks : ~IssueEvaluate(c) /\ ~IssueCommit(c)
      PROVE  MemberWithinLimit' /\ GrantsHold'
  <2>1. NothingLent /\ NothingGranted
    BY <1>4, OnlyIssueLends, OnlyEvaluateGrants DEF BorrowingInv
  <2>2. \A m \in Members : /\ Cardinality(Counted(m))' \in Nat
                           /\ Cardinality(Counted(m))' <= Cardinality(Counted(m))
                           /\ Cardinality(Counted(m)) \in Nat
                           /\ Policy[m].maxBooks \in Nat
    BY <2>1, CountFalls, CountedIsFinite, PolicyAssumption DEF BorrowingInv, PolicyRow
  <2>3. MemberWithinLimit'
    <3>1. ASSUME NEW m \in Members PROVE Cardinality(Counted(m))' <= Policy[m].maxBooks
      <4>1. Cardinality(Counted(m)) <= Policy[m].maxBooks
        BY DEF BorrowingInv, MemberWithinLimit, Counted
      <4>2. QED BY <2>2, <4>1
    <3>2. QED BY <3>1 DEF MemberWithinLimit, Counted
  <2>4. ASSUME NEW c \in Clerks, Running(c, "issueGranted")'
        PROVE  Cardinality(Counted(tx[c].member))' < Policy[tx'[c].member].maxBooks
    <3>1. tx'[c] = tx[c] /\ tx[c].op = "issueGranted"
      BY <2>1, <2>4 DEF NothingGranted, Running
    <3>2. PICK m \in Members : m = tx[c].member
      BY <3>1, PlanFields DEF BorrowingInv, WellFormed, TypeOK
    <3>3. Cardinality(Counted(m)) < Policy[m].maxBooks
      BY <3>1, <3>2 DEF BorrowingInv, GrantsHold, Running
    <3>4. Cardinality(Counted(m))' < Policy[m].maxBooks
      BY <2>2, <3>3
    <3>5. QED BY <3>1, <3>2, <3>4
  <2>5. \A c, d \in Clerks :
          (Running(c, "issueGranted")' /\ Running(d, "issueGranted")' /\ c # d)
             => tx'[c].member # tx'[d].member
    BY <2>1 DEF NothingGranted, Running, BorrowingInv, GrantsHold
  <2>6. QED BY <2>3, <2>4, <2>5 DEF GrantsHold
<1>5. QED BY <1>1, <1>2, <1>3, <1>4 DEF BorrowingInv

LEMMA InitBorrowing == InitDB => BorrowingInv
<1> SUFFICES ASSUME InitDB PROVE BorrowingInv
  OBVIOUS
<1>1. \A m \in Members : Counted(m) = {}
  BY DEF InitDB, Counted, LoansOf, NoIssue
<1>2. MemberWithinLimit
  <2>1. \A m \in Members : Policy[m].maxBooks \in Nat
    BY PolicyAssumption DEF PolicyRow
  <2>2. \A m \in Members : Cardinality(Counted(m)) <= Policy[m].maxBooks
    BY <1>1, <2>1, FS_EmptySet
  <2>3. QED BY <2>2 DEF MemberWithinLimit, Counted
<1>3. GrantsHold
  BY DEF InitDB, GrantsHold, Running, Idle
<1>4. QED BY <1>2, <1>3, InitWellFormed DEF BorrowingInv

\* However many desks issue, return, renew, undo and settle at once, no member
\* holds more issued books than maxBooks, not counting an issue that was ever
\* reported lost.
THEOREM BorrowingLimit == Spec => []MemberWithinLimit
<1>1. BorrowingInv /\ [Next]_vars => BorrowingInv'
  BY BorrowingStep
<1>2. BorrowingInv => MemberWithinLimit
  BY DEF BorrowingInv
<1>3. QED BY <1>1, <1>2, InitBorrowing, PTL DEF Spec
----------------------------------------------------------------------------
(* Open reservations.                                                       *)

Waiting(m) == {h \in OpenReservationsOf(m) : resv[h].turn = 0}

\* A request past the quota check is alone with the member and has room.
QuotaHeld ==
  /\ \A c \in Clerks : tx[c].op \in {"reserveAllowed", "reserveQueued"}
       => Cardinality(Waiting(tx[c].member)) < Policy[tx[c].member].maxReservations
  /\ \A c, d \in Clerks :
       (/\ tx[c].op \in {"reserveAllowed", "reserveQueued"}
        /\ tx[d].op \in {"reserveAllowed", "reserveQueued"} /\ c # d)
          => tx[c].member # tx[d].member

\* What an undo may put back on the shelf was collected once, and so is marked.
CollectedMarked ==
  /\ \A h \in ResvIds : resv[h].st = "COLLECTED" => resv[h].turn > 0
  /\ \A c \in Clerks : (Running(c, "void") /\ tx[c].hold # NULL)
       => resv[tx[c].hold].turn > 0

QuotaInv == WellFormed /\ ReservationsWithinQuota /\ QuotaHeld /\ CollectedMarked

\* No reservation becomes open and unmarked that was not.
NothingReserved ==
  \A h \in ResvIds :
    (resv'[h].st \in {"PENDING", "READY"} /\ resv'[h].turn = 0)
      => /\ resv[h].st \in {"PENDING", "READY"} /\ resv[h].turn = 0
         /\ resv'[h].member = resv[h].member

\* Marks stay, and whatever is collected gets one.
MarksStay ==
  \A h \in ResvIds : /\ resv[h].turn > 0 /\ resv[h].st # "NONE" => resv'[h].turn > 0
                     /\ resv'[h].st = "COLLECTED" => resv'[h].turn > 0

\* Nobody passes the quota check.
NothingAllowed ==
  \A d \in Clerks : tx'[d].op \in {"reserveAllowed", "reserveQueued"}
    => /\ tx[d].op \in {"reserveAllowed", "reserveQueued"}
       /\ tx'[d].member = tx[d].member

LEMMA OnlyReserveReserves ==
  ASSUME WellFormed, CollectedMarked, [Next]_vars, \A c \in Clerks : ~ReserveCommit(c)
  PROVE  NothingReserved /\ MarksStay
<1> USE DEF NothingReserved, MarksStay
<1>1. resv \in [ResvIds -> ResvRow]
  BY DEF WellFormed, TypeOK, TablesOK
<1>2. CASE UNCHANGED resv
  BY <1>2 DEF CollectedMarked
<1>3. ASSUME NEW c \in Clerks, DeskStep(c) PROVE NothingReserved /\ MarksStay
  <2>1. CASE IssueCommit(c)
    <3>1. LastTurn(tx[c].copy) + 1 > 0
      BY LastTurnIsNat
    <3>2. \A h \in ResvIds : resv'[h] # resv[h]
            => resv'[h].st = "COLLECTED" /\ resv'[h].turn = LastTurn(tx[c].copy) + 1
      BY <1>1, <2>1 DEF IssueCommit, ResvRow
    <3>3. QED BY <3>1, <3>2 DEF CollectedMarked
  <2>2. CASE VoidCommit(c)
    <3>1. tx[c].hold # NULL => resv[tx[c].hold].turn > 0
      BY <2>2 DEF VoidCommit, Running, CollectedMarked
    <3>2. \A h \in ResvIds : /\ resv'[h].turn = resv[h].turn
                             /\ resv'[h].member = resv[h].member
                             /\ resv'[h].st # resv[h].st
                                  => /\ resv'[h].st = "READY"
                                     /\ h = tx[c].hold /\ tx[c].hold # NULL
      BY <1>1, <2>2 DEF VoidCommit, ResvRow
    <3>3. QED BY <1>1, <3>1, <3>2 DEF CollectedMarked, ResvRow
  <2>3. CASE CancelCommit(c)
    BY <1>1, <2>3 DEF CancelCommit, CollectedMarked, ResvRow
  <2>4. CASE ReturnCommit(c)
    <3>1. PICK k \in Copies, at \in Nat : PromoteOrRelease(k, at)
      BY <2>4, PlanFields DEF ReturnCommit, Running, WellFormed, TypeOK
    <3>2. \A h \in ResvIds : /\ resv'[h].turn = resv[h].turn
                             /\ resv'[h].member = resv[h].member
                             /\ resv'[h].st # resv[h].st
                                  => /\ resv'[h].st \in {"EXPIRED", "READY"}
                                     /\ resv'[h].st = "READY" => resv[h].st = "PENDING"
      <4>1. PICK next :
              /\ next = NULL \/ next \in PendingOn(TitleOf[k])
              /\ resv' = [h \in ResvIds |->
                     IF h \in Lapsed(TitleOf[k], at) THEN [resv[h] EXCEPT !.st = "EXPIRED"]
                     ELSE IF h = next THEN Promoted(h, k, at) ELSE resv[h]]
        BY <3>1 DEF PromoteOrRelease, FirstInQueue
      <4>2. \A h \in ResvIds : h = next => resv[h].st = "PENDING"
        BY <4>1, NullAssumption DEF PendingOn
      <4>3. QED BY <1>1, <4>1, <4>2 DEF Promoted, ResvRow
    <3>3. QED BY <3>2 DEF CollectedMarked
  <2>5. QED BY <1>2, <1>3, <2>1, <2>2, <2>3, <2>4
            DEF DeskStep, IssueEvaluate, RenewCommit, ReserveQuota, ReserveQueue, db
<1>4. QED BY <1>2, <1>3, StartsOnlyRead, FinesLeave, LostLeaves
          DEF Next, Tick, Abort, vars, db

LEMMA OnlyQuotaAllows ==
  ASSUME WellFormed, [Next]_vars, \A c \in Clerks : ~ReserveQuota(c)
  PROVE  NothingAllowed
<1> USE DEF NothingAllowed
<1>1. ASSUME NEW c \in Clerks, Finish(c) PROVE NothingAllowed
  BY <1>1, EndsUnlocked DEF Idle
<1>2. ASSUME NEW c \in Clerks, DeskStart(c) \/ FinesStart(c) \/ LostStart(c)
      PROVE  NothingAllowed
  BY <1>2, StartsUnlocked DEF LockedOps
<1>3. ASSUME NEW c \in Clerks, ReserveQueue(c) PROVE NothingAllowed
  BY <1>3, ReservePlans
<1>4. ASSUME NEW c \in Clerks, IssueEvaluate(c) PROVE NothingAllowed
  BY <1>4 DEF IssueEvaluate, WellFormed, TypeOK
<1>5. CASE UNCHANGED tx
  BY <1>5
<1>6. QED BY <1>1, <1>2, <1>3, <1>4, <1>5, FinesLeave, LostLeaves
          DEF Next, DeskStep, IssueCommit, ReturnCommit, RenewCommit, VoidCommit,
              ReserveCommit, CancelCommit, Tick, Abort, vars
\* Only the first step of an undo puts one in flight.
LEMMA OnlyVoidReads ==
  ASSUME WellFormed, [Next]_vars, NEW c \in Clerks, tx'[c].op = "void", tx'[c] # tx[c]
  PROVE  \E i \in IssueIds : VoidRead(c, i)
<1>1. DeskStart(c) \/ FinesStart(c) \/ LostStart(c)
  BY RequestMoves DEF LockedOps
<1>2. tx \in [Clerks -> Tx]
  BY DEF WellFormed, TypeOK
<1>3. \A op \in SettleOps : op # "void"
  BY DEF SettleOps
<1>4. ~FinesStart(c)
  BY <1>2 DEF FinesStart, PayRead, WaiveRead, Begin
<1>5. ~LostStart(c)
  BY <1>2, <1>3 DEF LostStart, ReportLostRead, SelfReportLostRead, ReportMissingRead,
                    ConfirmLostRead, RejectLostRead, SettleRead, TurnedUpRead,
                    MarkRefundedRead, Begin
<1>6. QED BY <1>1, <1>2, <1>4, <1>5
          DEF DeskStart, IssueRead, ReturnRead, RenewRead, ReserveRead, CancelRead, Begin

LEMMA WaitingIsFinite ==
  ASSUME NEW m
  PROVE  /\ IsFiniteSet(Waiting(m)) /\ IsFiniteSet(OpenReservationsOf(m))
         /\ Cardinality(Waiting(m)) \in Nat /\ Cardinality(OpenReservationsOf(m)) \in Nat
         /\ Cardinality(Waiting(m)) <= Cardinality(OpenReservationsOf(m))
<1>1. OpenReservationsOf(m) \in SUBSET ResvIds /\ Waiting(m) \in SUBSET OpenReservationsOf(m)
  BY DEF OpenReservationsOf, Waiting
<1>2. QED BY <1>1, FS_Subset, FS_CardinalityType, PoolsAssumption

LEMMA WaitingFalls ==
  ASSUME NothingReserved, NEW m
  PROVE  /\ Cardinality(Waiting(m))' \in Nat
         /\ Cardinality(Waiting(m))' <= Cardinality(Waiting(m))
<1>1. Waiting(m)' \in SUBSET Waiting(m)
  BY DEF NothingReserved, Waiting, OpenReservationsOf
<1>2. QED BY <1>1, WaitingIsFinite, FS_Subset, FS_CardinalityType

\* A request that remembers a collected hold read it.
LEMMA MarksKept ==
  ASSUME QuotaInv, [Next]_vars, MarksStay
  PROVE  CollectedMarked'
<1>1. \A h \in ResvIds : resv'[h].st = "COLLECTED" => resv'[h].turn > 0
  BY DEF MarksStay
<1>2. ASSUME NEW c \in Clerks, tx'[c].op = "void", tx'[c].hold # NULL
      PROVE  resv'[tx'[c].hold].turn > 0
  <2>1. CASE tx'[c] = tx[c]
    <3>1. tx[c].hold \in ResvIds /\ resv[tx[c].hold].st # "NONE"
      BY <1>2, <2>1, PlanFields
         DEF QuotaInv, WellFormed, TypeOK, PlansStand, PlanStands
    <3>2. resv[tx[c].hold].turn > 0
      BY <1>2, <2>1 DEF QuotaInv, CollectedMarked, Running
    <3>3. QED BY <2>1, <3>1, <3>2 DEF MarksStay
  <2>2. CASE tx'[c] # tx[c]
    <3>1. PICK i \in IssueIds : VoidRead(c, i)
      BY <1>2, <2>2, OnlyVoidReads DEF QuotaInv
    <3>2. PICK h \in LastCollected(issue[i].copy) \cup {NULL} :
            /\ tx'[c].hold = h /\ UNCHANGED db
      BY <3>1 DEF VoidRead, Begin, QuotaInv, WellFormed, TypeOK
    <3>3. h \in ResvIds /\ resv[h].st = "COLLECTED"
      BY <1>2, <3>2 DEF LastCollected
    <3>4. QED BY <3>2, <3>3 DEF QuotaInv, CollectedMarked, db
  <2>3. QED BY <2>1, <2>2
<1>3. QED BY <1>1, <1>2 DEF CollectedMarked, Running

\* The check admits a member with room, while nobody else is past it.
LEMMA AllowKeeps ==
  ASSUME QuotaInv, [Next]_vars, NEW c \in Clerks, ReserveQuota(c)
  PROVE  QuotaInv'
<1>1. PICK m \in Members : m = tx[c].member
  BY ReservePlans DEF QuotaInv
<1>2. /\ \A d \in Clerks : ~HoldsQuota(d, m)
      /\ Cardinality(OpenReservationsOf(m)) < Policy[m].maxReservations
  BY <1>1 DEF ReserveQuota
<1>3. /\ \A d \in Clerks \ {c} : tx'[d] = tx[d]
      /\ UNCHANGED db
  BY ReservePlans DEF QuotaInv
<1>4. tx'[c].op = "reserveAllowed" /\ tx'[c].member = m
  BY <1>1, ReservePlans DEF QuotaInv
<1>5. \A x : Waiting(x)' = Waiting(x) /\ OpenReservationsOf(x)' = OpenReservationsOf(x)
  BY <1>3 DEF Waiting, OpenReservationsOf, db
<1>6. ReservationsWithinQuota'
  BY <1>5 DEF QuotaInv, ReservationsWithinQuota, Waiting
<1>7. Cardinality(Waiting(m)) < Policy[m].maxReservations
  <2>1. Policy[m].maxReservations \in Nat
    BY PolicyAssumption DEF PolicyRow
  <2>2. QED BY <1>2, <2>1, WaitingIsFinite
<1>8. QuotaHeld'
  <2>1. \A d \in Clerks \ {c} : tx[d].op \in {"reserveAllowed", "reserveQueued"}
                                  => tx[d].member # m
    BY <1>2 DEF HoldsQuota
  <2>2. \A d \in Clerks : tx'[d].op \in {"reserveAllowed", "reserveQueued"} =>
          Cardinality(Waiting(tx[d].member))' < Policy[tx'[d].member].maxReservations
    BY <1>3, <1>4, <1>5, <1>7 DEF QuotaInv, QuotaHeld
  <2>3. \A d, e \in Clerks :
          (/\ tx'[d].op \in {"reserveAllowed", "reserveQueued"}
           /\ tx'[e].op \in {"reserveAllowed", "reserveQueued"} /\ d # e)
             => tx'[d].member # tx'[e].member
    BY <1>3, <1>4, <2>1 DEF QuotaInv, QuotaHeld
  <2>4. QED BY <2>2, <2>3 DEF QuotaHeld
<1>9. MarksStay
  BY <1>3 DEF MarksStay, QuotaInv, CollectedMarked, db
<1>10. QED BY <1>6, <1>8, <1>9, MarksKept, NextPreserves DEF QuotaInv
\* A reservation adds one to a member who had room, and gives the locks back.
LEMMA ReserveKeeps ==
  ASSUME QuotaInv, [Next]_vars, NEW c \in Clerks, ReserveCommit(c)
  PROVE  QuotaInv'
<1> PICK m \in Members : m = tx[c].member
  BY PlanFields DEF ReserveCommit, Running, QuotaInv, WellFormed, TypeOK
<1> DEFINE row == [NoResv EXCEPT !.st = "PENDING", !.title = tx[c].title,
                                 !.member = m, !.pos = tx[c].pos]
<1>1. /\ Cardinality(Waiting(m)) < Policy[m].maxReservations
      /\ \A d \in Clerks \ {c} : tx[d].op \in {"reserveAllowed", "reserveQueued"}
                                   => tx[d].member # m
  BY DEF ReserveCommit, Running, QuotaInv, QuotaHeld
<1>2. /\ Room(resv) /\ resv' = Insert(resv, row)
      /\ Finish(c)
  BY DEF ReserveCommit
<1>3. row.st = "PENDING" /\ row.member = m
  BY DEF NoResv
<1> HIDE DEF row
<1>4. PICK n \in ResvIds : resv[n].st = "NONE" /\ resv' = [resv EXCEPT ![n] = row]
  BY <1>2, InsertFillsOne DEF QuotaInv, WellFormed, TypeOK, TablesOK
<1>5. \A h \in ResvIds : resv'[h] = IF h = n THEN row ELSE resv[h]
  BY <1>4 DEF QuotaInv, WellFormed, TypeOK, TablesOK
<1>6. MarksStay
  BY <1>3, <1>4, <1>5 DEF MarksStay, QuotaInv, CollectedMarked
<1>7. ASSUME NEW x \in Members, x # m
      PROVE  /\ Cardinality(Waiting(x))' \in Nat
             /\ Cardinality(Waiting(x))' <= Cardinality(Waiting(x))
  <2>1. Waiting(x)' \in SUBSET Waiting(x)
    BY <1>3, <1>5, <1>7 DEF Waiting, OpenReservationsOf
  <2>2. QED BY <2>1, WaitingIsFinite, FS_Subset, FS_CardinalityType
<1>8. /\ Cardinality(Waiting(m))' \in Nat
      /\ Cardinality(Waiting(m))' <= Cardinality(Waiting(m)) + 1
  <2>1. Waiting(m)' \in SUBSET (Waiting(m) \cup {n})
    BY <1>5 DEF Waiting, OpenReservationsOf
  <2>2. IsFiniteSet(Waiting(m)) /\ Cardinality(Waiting(m)) \in Nat
    BY WaitingIsFinite
  <2>3. /\ IsFiniteSet(Waiting(m) \cup {n})
        /\ Cardinality(Waiting(m) \cup {n}) = IF n \in Waiting(m)
             THEN Cardinality(Waiting(m)) ELSE Cardinality(Waiting(m)) + 1
    BY <2>2, FS_AddElement, Zenon
  <2>4. QED BY <2>1, <2>2, <2>3, FS_Subset, FS_CardinalityType
<1>9. \A x \in Members : /\ Policy[x].maxReservations \in Nat
                         /\ Cardinality(Waiting(x)) \in Nat
  BY WaitingIsFinite, PolicyAssumption DEF PolicyRow
<1>10. ReservationsWithinQuota'
  <2>1. \A x \in Members : Cardinality(Waiting(x)) <= Policy[x].maxReservations
    BY DEF QuotaInv, ReservationsWithinQuota, Waiting
  <2>2. ASSUME NEW x \in Members
        PROVE  Cardinality(Waiting(x))' <= Policy[x].maxReservations
    BY <1>1, <1>7, <1>8, <1>9, <2>1, <2>2
  <2>3. QED BY <2>2 DEF ReservationsWithinQuota, Waiting
<1>11. QuotaHeld'
  <2>1. tx'[c] = Idle /\ \A d \in Clerks \ {c} : tx'[d] = tx[d]
    BY <1>2, EndsUnlocked DEF QuotaInv
  <2>2. \A d \in Clerks : tx'[d].op \in {"reserveAllowed", "reserveQueued"}
                            => d # c /\ tx'[d] = tx[d]
    BY <2>1 DEF Idle
  <2>3. ASSUME NEW d \in Clerks, tx'[d].op \in {"reserveAllowed", "reserveQueued"}
        PROVE  Cardinality(Waiting(tx[d].member))' < Policy[tx'[d].member].maxReservations
    <3>1. d # c /\ tx'[d] = tx[d]
      BY <2>2, <2>3
    <3>2. PICK x \in Members : x = tx[d].member /\ x # m
      BY <1>1, <2>3, <3>1, PlanFields DEF QuotaInv, WellFormed, TypeOK
    <3>3. Cardinality(Waiting(x)) < Policy[x].maxReservations
      BY <2>3, <3>1, <3>2 DEF QuotaInv, QuotaHeld
    <3>4. Cardinality(Waiting(x))' < Policy[x].maxReservations
      BY <1>7, <1>9, <3>2, <3>3
    <3>5. QED BY <3>1, <3>2, <3>4
  <2>4. QED BY <2>2, <2>3 DEF QuotaHeld, QuotaInv
<1>12. QED BY <1>6, <1>10, <1>11, MarksKept, NextPreserves DEF QuotaInv

LEMMA QuotaStep ==
  ASSUME QuotaInv, [Next]_vars
  PROVE  QuotaInv'
<1>1. ASSUME NEW c \in Clerks, ReserveQuota(c) PROVE QuotaInv'
  BY <1>1, AllowKeeps
<1>2. ASSUME NEW c \in Clerks, ReserveCommit(c) PROVE QuotaInv'
  BY <1>2, ReserveKeeps
<1>3. ASSUME \A c \in Clerks : ~ReserveQuota(c) /\ ~ReserveCommit(c)
      PROVE  QuotaInv'
  <2>1. NothingReserved /\ MarksStay /\ NothingAllowed
    BY <1>3, OnlyReserveReserves, OnlyQuotaAllows DEF QuotaInv
  <2>2. \A m \in Members : /\ Cardinality(Waiting(m))' \in Nat
                           /\ Cardinality(Waiting(m))' <= Cardinality(Waiting(m))
                           /\ Cardinality(Waiting(m)) \in Nat
                           /\ Policy[m].maxReservations \in Nat
    BY <2>1, WaitingFalls, WaitingIsFinite, PolicyAssumption DEF PolicyRow
  <2>3. ReservationsWithinQuota'
    <3>1. ASSUME NEW m \in Members
          PROVE  Cardinality(Waiting(m))' <= Policy[m].maxReservations
      <4>1. Cardinality(Waiting(m)) <= Policy[m].maxReservations
        BY DEF QuotaInv, ReservationsWithinQuota, Waiting
      <4>2. QED BY <2>2, <4>1
    <3>2. QED BY <3>1 DEF ReservationsWithinQuota, Waiting
  <2>4. ASSUME NEW c \in Clerks, tx'[c].op \in {"reserveAllowed", "reserveQueued"}
        PROVE  Cardinality(Waiting(tx[c].member))' < Policy[tx'[c].member].maxReservations
    <3>1. /\ tx'[c].member = tx[c].member
          /\ tx[c].op \in {"reserveAllowed", "reserveQueued"}
      BY <2>1, <2>4 DEF NothingAllowed
    <3>2. PICK m \in Members : m = tx[c].member
      BY <3>1, PlanFields DEF QuotaInv, WellFormed, TypeOK
    <3>3. Cardinality(Waiting(m)) < Policy[m].maxReservations
      BY <3>1, <3>2 DEF QuotaInv, QuotaHeld
    <3>4. Cardinality(Waiting(m))' < Policy[m].maxReservations
      BY <2>2, <3>3
    <3>5. QED BY <3>1, <3>2, <3>4
  <2>5. \A c, d \in Clerks :
          (/\ tx'[c].op \in {"reserveAllowed", "reserveQueued"}
           /\ tx'[d].op \in {"reserveAllowed", "reserveQueued"} /\ c # d)
             => tx'[c].member # tx'[d].member
    BY <2>1 DEF NothingAllowed, QuotaInv, QuotaHeld
  <2>6. QuotaHeld'
    BY <2>4, <2>5 DEF QuotaHeld
  <2>7. QED BY <2>1, <2>3, <2>6, MarksKept, NextPreserves DEF QuotaInv
<1>4. QED BY <1>1, <1>2, <1>3

LEMMA InitQuota == InitDB => QuotaInv
<1> SUFFICES ASSUME InitDB PROVE QuotaInv
  OBVIOUS
<1>1. \A m \in Members : Waiting(m) = {}
  BY DEF InitDB, Waiting, OpenReservationsOf, NoResv
<1>2. ReservationsWithinQuota
  <2>1. \A m \in Members : Policy[m].maxReservations \in Nat
    BY PolicyAssumption DEF PolicyRow
  <2>2. \A m \in Members : Cardinality(Waiting(m)) <= Policy[m].maxReservations
    BY <1>1, <2>1, FS_EmptySet
  <2>3. QED BY <2>2 DEF ReservationsWithinQuota, Waiting
<1>3. QuotaHeld
  BY DEF InitDB, QuotaHeld, Idle
<1>4. CollectedMarked
  BY DEF InitDB, CollectedMarked, Running, Idle, NoResv
<1>5. QED BY <1>2, <1>3, <1>4, InitWellFormed DEF QuotaInv

\* However requests interleave, no member waits for more titles than
\* maxReservations, not counting a hold that an undo put back on the shelf.
THEOREM ReservationQuota == Spec => []ReservationsWithinQuota
<1>1. QuotaInv /\ [Next]_vars => QuotaInv'
  BY QuotaStep
<1>2. QuotaInv => ReservationsWithinQuota
  BY DEF QuotaInv
<1>3. QED BY <1>1, <1>2, InitQuota, PTL DEF Spec

-----------------------------------------------------------------------------
(***************************************************************************)
(* Why no interleaving of requests lets a reservation be overtaken, or     *)
(* gives out a position twice.                                             *)
(* A request between its MAX(queuePosition) and its insert holds the queue *)
(* lock of the title, so its position stays above every other one; a       *)
(* promotion takes the lowest waiting position as it is at the commit.     *)
(***************************************************************************)

\* A row that was never inserted is on no queue.
EmptyRowsBlank == \A h \in ResvIds : resv[h].st = "NONE" => resv[h].title = NULL

\* A request in the queue of a title is alone there and will be its last.
QueueHeld ==
  /\ \A c \in Clerks, h \in ResvIds :
       (Running(c, "reserveQueued") /\ resv[h].title = tx[c].title) => resv[h].pos < tx[c].pos
  /\ \A c, d \in Clerks :
       (Running(c, "reserveQueued") /\ Running(d, "reserveQueued") /\ c # d)
         => tx[c].title # tx[d].title

QueueInv == /\ WellFormed /\ EmptyRowsBlank /\ QueueHeld
            /\ PositionsUnique /\ NoQueueJumping

----------------------------------------------------------------------------
(* What a step may do to the queues.                                        *)

\* Rows keep their place; nothing starts to wait.
PlacesKept ==
  \A h \in ResvIds :
    /\ resv'[h].title = resv[h].title /\ resv'[h].pos = resv[h].pos
    /\ resv'[h].st = "NONE" <=> resv[h].st = "NONE"
    /\ resv'[h].st = "PENDING" => resv[h].st = "PENDING"
NobodyPromoted == \A h \in ResvIds : resv'[h].copy = resv[h].copy

NothingQueued == \A d \in Clerks : tx'[d].op = "reserveQueued" => tx'[d] = tx[d]

LEMMA PlacesStay ==
  ASSUME WellFormed, [Next]_vars, \A c \in Clerks : ~ReserveCommit(c) /\ ~ReturnCommit(c)
  PROVE  PlacesKept /\ NobodyPromoted
<1> USE DEF PlacesKept, NobodyPromoted
<1>1. CASE UNCHANGED resv
  BY <1>1
<1>2. ASSUME NEW c \in Clerks, DeskStep(c) PROVE PlacesKept /\ NobodyPromoted
  <2>1. resv \in [ResvIds -> ResvRow]
    BY DEF WellFormed, TypeOK, TablesOK
  <2>2. CASE IssueCommit(c)
    <3>1. tx[c].hold = NULL \/ resv[tx[c].hold].st # "NONE"
      BY <2>2 DEF IssueCommit, Running, WellFormed, PlansStand, PlanStands
    <3>2. QED BY <2>1, <2>2, <3>1 DEF IssueCommit, ResvRow
  <2>3. CASE VoidCommit(c)
    <3>1. tx[c].hold = NULL \/ resv[tx[c].hold].st # "NONE"
      BY <2>3 DEF VoidCommit, Running, WellFormed, PlansStand, PlanStands
    <3>2. QED BY <2>1, <2>3, <3>1 DEF VoidCommit, ResvRow
  <2>4. CASE CancelCommit(c)
    <3>1. resv[tx[c].hold].st # "NONE"
      BY <2>4 DEF CancelCommit, Running, WellFormed, PlansStand, PlanStands
    <3>2. QED BY <2>1, <2>4, <3>1 DEF CancelCommit, ResvRow
  <2>5. QED BY <1>1, <1>2, <2>2, <2>3, <2>4
            DEF DeskStep, IssueEvaluate, RenewCommit, ReserveQuota, ReserveQueue, db
<1>3. QED BY <1>1, <1>2, StartsOnlyRead, FinesLeave, LostLeaves
          DEF Next, Tick, Abort, vars, db

\* A promotion keeps places as well, and promotes at most the lowest waiting one.
LEMMA PromotionIsFair ==
  ASSUME WellFormed, NEW k \in Copies, NEW at \in Nat, PromoteOrRelease(k, at)
  PROVE  /\ PlacesKept
         /\ \A x \in ResvIds : resv'[x].copy # resv[x].copy =>
              /\ resv'[x].st = "READY" /\ resv[x].st = "PENDING"
              /\ \A h \in ResvIds :
                   (resv[h].st = "PENDING" /\ resv[h].title = resv[x].title)
                     => resv[x].pos <= resv[h].pos
<1> DEFINE t == TitleOf[k]
<1>1. PICK next :
        /\ next = NULL \/ next \in FirstInQueue(t)
        /\ resv' = [h \in ResvIds |->
                     IF h \in Lapsed(t, at) THEN [resv[h] EXCEPT !.st = "EXPIRED"]
                     ELSE IF h = next THEN Promoted(h, k, at) ELSE resv[h]]
  BY DEF PromoteOrRelease
<1>2. resv \in [ResvIds -> ResvRow]
  BY DEF WellFormed, TypeOK, TablesOK
<1>3. ASSUME NEW h \in ResvIds, h \in Lapsed(t, at)
      PROVE  /\ resv[h].st = "READY" /\ resv'[h].st = "EXPIRED"
             /\ resv'[h].title = resv[h].title /\ resv'[h].pos = resv[h].pos
             /\ resv'[h].copy = resv[h].copy
  BY <1>1, <1>2, <1>3 DEF Lapsed, ResvRow
<1>4. ASSUME NEW h \in ResvIds, h \notin Lapsed(t, at), h = next
      PROVE  /\ resv[h].st = "PENDING" /\ resv'[h].st = "READY"
             /\ resv'[h].title = resv[h].title /\ resv'[h].pos = resv[h].pos
             /\ resv[h].title = t
             /\ \A x \in ResvIds : (resv[x].st = "PENDING" /\ resv[x].title = t)
                                     => resv[h].pos <= resv[x].pos
  <2>1. h \in FirstInQueue(t)
    BY <1>1, <1>4, NullAssumption
  <2>2. resv'[h] = Promoted(h, k, at)
    BY <1>1, <1>4
  <2>3. QED BY <1>2, <2>1, <2>2 DEF FirstInQueue, PendingOn, Promoted, ResvRow
<1>5. ASSUME NEW h \in ResvIds, h \notin Lapsed(t, at), h # next
      PROVE  resv'[h] = resv[h]
  BY <1>1, <1>5
<1>6. PlacesKept
  BY <1>3, <1>4, <1>5 DEF PlacesKept
<1>7. QED BY <1>3, <1>4, <1>5, <1>6

\* Only the step under the queue lock puts a request in a queue.
LEMMA OnlyQueueQueues ==
  ASSUME WellFormed, [Next]_vars, \A c \in Clerks : ~ReserveQueue(c)
  PROVE  NothingQueued
<1> USE DEF NothingQueued
<1>1. ASSUME NEW c \in Clerks, Finish(c) PROVE NothingQueued
  BY <1>1, EndsUnlocked DEF Idle
<1>2. ASSUME NEW c \in Clerks, DeskStart(c) \/ FinesStart(c) \/ LostStart(c)
      PROVE  NothingQueued
  BY <1>2, StartsUnlocked DEF LockedOps
<1>3. ASSUME NEW c \in Clerks, ReserveQuota(c) PROVE NothingQueued
  BY <1>3, ReservePlans
<1>4. ASSUME NEW c \in Clerks, IssueEvaluate(c) PROVE NothingQueued
  BY <1>4 DEF IssueEvaluate, WellFormed, TypeOK
<1>5. CASE UNCHANGED tx
  BY <1>5
<1>6. QED BY <1>1, <1>2, <1>3, <1>4, <1>5, FinesLeave, LostLeaves
          DEF Next, DeskStep, IssueCommit, ReturnCommit, RenewCommit, VoidCommit,
              ReserveCommit, CancelCommit, Tick, Abort, vars
----------------------------------------------------------------------------
(* The invariant.                                                           *)

\* Where places are kept and nobody new queues, the queues stay in order.
LEMMA KeptPlacesKeep ==
  ASSUME QueueInv, PlacesKept, NothingQueued
  PROVE  EmptyRowsBlank' /\ QueueHeld' /\ PositionsUnique'
<1>1. EmptyRowsBlank' /\ PositionsUnique'
  BY DEF QueueInv, EmptyRowsBlank, PositionsUnique, PlacesKept
<1>2. QueueHeld'
  <2>1. \A c \in Clerks, h \in ResvIds :
          (Running(c, "reserveQueued")' /\ resv'[h].title = tx'[c].title)
             => resv'[h].pos < tx'[c].pos
    BY DEF QueueInv, QueueHeld, PlacesKept, NothingQueued, Running
  <2>2. \A c, d \in Clerks :
          (Running(c, "reserveQueued")' /\ Running(d, "reserveQueued")' /\ c # d)
             => tx'[c].title # tx'[d].title
    BY DEF QueueInv, QueueHeld, NothingQueued, Running
  <2>3. QED BY <2>1, <2>2 DEF QueueHeld
<1>3. QED BY <1>1, <1>2

LEMMA ReturnKeepsQueue ==
  ASSUME QueueInv, [Next]_vars, NEW c \in Clerks, ReturnCommit(c)
  PROVE  QueueInv'
<1>1. WellFormed'
  BY NextPreserves DEF QueueInv
<1>2. /\ tx[c].copy \in Copies /\ tx[c].at \in Nat
      /\ PromoteOrRelease(tx[c].copy, tx[c].at)
  BY PlanFields DEF ReturnCommit, Running, QueueInv, WellFormed, TypeOK
<1>3. PICK k \in Copies, at \in Nat : PromoteOrRelease(k, at)
  BY <1>2
<1>4. NothingQueued
  <2>1. tx'[c] = Idle /\ \A d \in Clerks \ {c} : tx'[d] = tx[d]
    BY EndsUnlocked DEF ReturnCommit, QueueInv
  <2>2. QED BY <2>1 DEF NothingQueued, Idle
<1>5. PlacesKept
  BY <1>3, PromotionIsFair DEF QueueInv
<1>6. NoQueueJumping'
  <2> SUFFICES ASSUME NEW h \in ResvIds, NEW x \in ResvIds,
                      resv'[h].st = "PENDING", resv'[x].title = resv'[h].title,
                      resv'[x].copy # NULL
               PROVE  resv'[x].pos < resv'[h].pos
    BY DEF NoQueueJumping
  <2>1. /\ resv[h].st = "PENDING" /\ resv[x].title = resv[h].title
        /\ resv'[x].pos = resv[x].pos /\ resv'[h].pos = resv[h].pos
    BY <1>5 DEF PlacesKept
  <2>2. CASE resv'[x].copy = resv[x].copy
    BY <2>1, <2>2 DEF QueueInv, NoQueueJumping
  <2>3. CASE resv'[x].copy # resv[x].copy
    <3>1. resv'[x].st = "READY" /\ resv[x].pos <= resv[h].pos
      BY <1>3, <2>1, <2>3, PromotionIsFair DEF QueueInv
    <3>2. h # x /\ resv[h].title # NULL
      BY <2>1, <3>1, NullAssumption DEF QueueInv, WellFormed, KeysPresent
    <3>3. resv[x].pos # resv[h].pos
      BY <2>1, <3>2 DEF QueueInv, PositionsUnique
    <3>4. resv[x].pos \in Nat /\ resv[h].pos \in Nat
      BY DEF QueueInv, WellFormed, TypeOK, TablesOK, ResvRow
    <3>5. QED BY <2>1, <3>1, <3>3, <3>4
  <2>4. QED BY <2>2, <2>3
<1>7. QED BY <1>1, <1>4, <1>5, <1>6, KeptPlacesKeep DEF QueueInv

LEMMA ReserveKeepsQueue ==
  ASSUME QueueInv, [Next]_vars, NEW c \in Clerks, ReserveCommit(c)
  PROVE  QueueInv'
<1> DEFINE row == [NoResv EXCEPT !.st = "PENDING", !.title = tx[c].title,
                                 !.member = tx[c].member, !.pos = tx[c].pos]
<1>1. WellFormed'
  BY NextPreserves DEF QueueInv
<1>2. /\ Room(resv) /\ resv' = Insert(resv, row)
      /\ Finish(c) /\ tx[c].op = "reserveQueued"
  BY DEF ReserveCommit, Running
<1>3. /\ row.st = "PENDING" /\ row.title = tx[c].title /\ row.pos = tx[c].pos
      /\ row.copy = NULL
  BY DEF NoResv
<1> HIDE DEF row
<1>4. PICK n \in ResvIds : resv[n].st = "NONE" /\ resv' = [resv EXCEPT ![n] = row]
  BY <1>2, InsertFillsOne DEF QueueInv, WellFormed, TypeOK, TablesOK
<1>5. \A h \in ResvIds : resv'[h] = IF h = n THEN row ELSE resv[h]
  BY <1>4 DEF QueueInv, WellFormed, TypeOK, TablesOK
<1>6. /\ tx[c].title \in Titles /\ tx[c].pos \in Nat
      /\ \A h \in ResvIds : resv[h].pos \in Nat
  BY <1>2, PlanFields DEF QueueInv, WellFormed, TypeOK, TablesOK, ResvRow
<1>7. \A h \in ResvIds : resv[h].title = tx[c].title => resv[h].pos < tx[c].pos
  BY <1>2 DEF QueueInv, QueueHeld, Running
<1>8. EmptyRowsBlank'
  BY <1>3, <1>5 DEF QueueInv, EmptyRowsBlank
<1>9. PositionsUnique'
  <2> SUFFICES ASSUME NEW h \in ResvIds, NEW x \in ResvIds, h # x,
                      resv'[h].title # NULL, resv'[x].title = resv'[h].title
               PROVE  resv'[x].pos # resv'[h].pos
    BY DEF PositionsUnique
  <2>1. CASE h = n
    BY <1>3, <1>5, <1>6, <1>7, <2>1
  <2>2. CASE x = n
    BY <1>3, <1>5, <1>6, <1>7, <2>2
  <2>3. CASE h # n /\ x # n
    BY <1>5, <2>3 DEF QueueInv, PositionsUnique
  <2>4. QED BY <2>1, <2>2, <2>3
<1>10. NoQueueJumping'
  <2> SUFFICES ASSUME NEW h \in ResvIds, NEW x \in ResvIds,
                      resv'[h].st = "PENDING", resv'[x].title = resv'[h].title,
                      resv'[x].copy # NULL
               PROVE  resv'[x].pos < resv'[h].pos
    BY DEF NoQueueJumping
  <2>1. x # n
    BY <1>3, <1>5
  <2>2. CASE h = n
    BY <1>3, <1>5, <1>7, <2>1, <2>2
  <2>3. CASE h # n
    BY <1>5, <2>1, <2>3 DEF QueueInv, NoQueueJumping
  <2>4. QED BY <2>2, <2>3
<1>11. QueueHeld'
  <2>1. tx'[c] = Idle /\ \A d \in Clerks \ {c} : tx'[d] = tx[d]
    BY <1>2, EndsUnlocked DEF QueueInv
  <2>2. \A d \in Clerks : tx'[d].op = "reserveQueued" => d # c /\ tx'[d] = tx[d]
    BY <2>1 DEF Idle
  <2>3. \A d \in Clerks : tx'[d].op = "reserveQueued" => tx[d].title # tx[c].title
    BY <1>2, <2>2 DEF QueueInv, QueueHeld, Running
  <2>4. \A d \in Clerks, h \in ResvIds :
          (Running(d, "reserveQueued")' /\ resv'[h].title = tx'[d].title)
             => resv'[h].pos < tx'[d].pos
    BY <1>3, <1>5, <2>2, <2>3 DEF QueueInv, QueueHeld, Running
  <2>5. \A d, e \in Clerks :
          (Running(d, "reserveQueued")' /\ Running(e, "reserveQueued")' /\ d # e)
             => tx'[d].title # tx'[e].title
    BY <2>2 DEF QueueInv, QueueHeld, Running
  <2>6. QED BY <2>4, <2>5 DEF QueueHeld
<1>12. QED BY <1>1, <1>8, <1>9, <1>10, <1>11 DEF QueueInv

LEMMA QueueingKeepsQueue ==
  ASSUME QueueInv, [Next]_vars, NEW c \in Clerks, ReserveQueue(c)
  PROVE  QueueInv'
<1>1. WellFormed'
  BY NextPreserves DEF QueueInv
<1>2. UNCHANGED db
  BY ReservePlans DEF QueueInv
<1>3. EmptyRowsBlank' /\ PositionsUnique' /\ NoQueueJumping'
  BY <1>2 DEF QueueInv, EmptyRowsBlank, PositionsUnique, NoQueueJumping, db
<1>4. PICK t \in Titles : t = tx[c].title
  BY ReservePlans DEF QueueInv
<1>5. \A h \in ResvIds : resv[h].title = t => resv[h].pos <= LastPosition(t)
  BY LastPositionIsNat DEF QueueInv
<1>6. tx'[c].title = t /\ tx'[c].pos = LastPosition(t) + 1
  BY <1>4, ReservePlans DEF QueueInv
<1>7. /\ \A d \in Clerks \ {c} : tx'[d] = tx[d]
      /\ \A d \in Clerks : ~HoldsQueue(d, t)
  BY <1>4, ReservePlans DEF ReserveQueue, QueueInv
<1>8. \A d \in Clerks \ {c} : tx[d].op = "reserveQueued" => tx[d].title # t
  BY <1>7 DEF HoldsQueue
<1>9. \A d \in Clerks, h \in ResvIds :
        (Running(d, "reserveQueued")' /\ resv'[h].title = tx'[d].title)
           => resv'[h].pos < tx'[d].pos
  <2> SUFFICES ASSUME NEW d \in Clerks, NEW h \in ResvIds,
                      tx'[d].op = "reserveQueued", resv'[h].title = tx'[d].title
               PROVE  resv'[h].pos < tx'[d].pos
    BY DEF Running
  <2>1. resv' = resv
    BY <1>2 DEF db
  <2>2. resv[h].pos \in Nat /\ LastPosition(t) \in Nat
    BY LastPositionIsNat DEF QueueInv, WellFormed, TypeOK, TablesOK, ResvRow
  <2>3. CASE d = c
    BY <1>5, <1>6, <2>1, <2>2, <2>3
  <2>4. CASE d # c
    BY <1>7, <2>1, <2>4 DEF QueueInv, QueueHeld, Running
  <2>5. QED BY <2>3, <2>4
<1>10. \A d, e \in Clerks :
         (Running(d, "reserveQueued")' /\ Running(e, "reserveQueued")' /\ d # e)
            => tx'[d].title # tx'[e].title
  BY <1>6, <1>7, <1>8 DEF QueueInv, QueueHeld, Running
<1>11. QED BY <1>1, <1>3, <1>9, <1>10 DEF QueueInv, QueueHeld

LEMMA QueueStep ==
  ASSUME QueueInv, [Next]_vars
  PROVE  QueueInv'
<1>1. ASSUME NEW c \in Clerks, ReturnCommit(c) PROVE QueueInv'
  BY <1>1, ReturnKeepsQueue
<1>2. ASSUME NEW c \in Clerks, ReserveCommit(c) PROVE QueueInv'
  BY <1>2, ReserveKeepsQueue
<1>3. ASSUME NEW c \in Clerks, ReserveQueue(c) PROVE QueueInv'
  BY <1>3, QueueingKeepsQueue
<1>4. ASSUME \A c \in Clerks : ~ReturnCommit(c) /\ ~ReserveCommit(c) /\ ~ReserveQueue(c)
      PROVE  QueueInv'
  <2>1. PlacesKept /\ NobodyPromoted /\ NothingQueued
    BY <1>4, PlacesStay, OnlyQueueQueues DEF QueueInv
  <2>2. NoQueueJumping'
    BY <2>1 DEF QueueInv, NoQueueJumping, PlacesKept, NobodyPromoted
  <2>3. WellFormed'
    BY NextPreserves DEF QueueInv
  <2>4. QED BY <2>1, <2>2, <2>3, KeptPlacesKeep DEF QueueInv
<1>5. QED BY <1>1, <1>2, <1>3, <1>4

LEMMA InitQueue == InitDB => QueueInv
<1> SUFFICES ASSUME InitDB PROVE QueueInv
  OBVIOUS
<1>1. \A h \in ResvIds : resv[h].st = "NONE" /\ resv[h].title = NULL
  BY DEF InitDB, NoResv
<1>2. QueueHeld
  BY DEF InitDB, QueueHeld, Running, Idle
<1>3. QED BY <1>1, <1>2, InitWellFormed
          DEF QueueInv, EmptyRowsBlank, PositionsUnique, NoQueueJumping

\* However requests interleave, a reservation that was given a copy was ahead of
\* every one that still waits for the title.
THEOREM NobodyOvertaken == Spec => []NoQueueJumping
<1>1. QueueInv /\ [Next]_vars => QueueInv'
  BY QueueStep
<1>2. QueueInv => NoQueueJumping
  BY DEF QueueInv
<1>3. QED BY <1>1, <1>2, InitQueue, PTL DEF Spec

\* However requests interleave, no two reservations of a title ever had the same
\* position.
THEOREM PositionsGivenOnce == Spec => []PositionsUnique
<1>1. QueueInv /\ [Next]_vars => QueueInv'
  BY QueueStep
<1>2. QueueInv => PositionsUnique
  BY DEF QueueInv
<1>3. QED BY <1>1, <1>2, InitQueue, PTL DEF Spec

-----------------------------------------------------------------------------
(***************************************************************************)
(* Why no interleaving of requests settles a loss reported by the desk     *)
(* twice, or takes a payment twice at the fines counter.                   *)
(***************************************************************************)

\* Confirming and rejecting, which update a report by id, are only ever in
\* flight for reports by the holder.
HoldersOnly ==
  /\ \A r \in LostIds : lost[r].st = "REPORTED" => lost[r].self
  /\ \A c \in Clerks : tx[c].op \in {"confirmLost", "rejectLost"}
       => lost[tx[c].report].self

SettlingInv == WellFormed /\ HoldersOnly

\* Only the three ways to report a loss write a report that was not there.
ReportedOnce ==
  \A r \in LostIds :
    /\ lost[r].st # "NONE" => lost'[r].self = lost[r].self
    /\ lost'[r].st = "REPORTED" => lost[r].st = "REPORTED" \/ lost'[r].self

LEMMA HoldersKept ==
  ASSUME SettlingInv, [Next]_vars
  PROVE  ReportedOnce
<1> USE DEF ReportedOnce
<1>1. lost \in [LostIds -> LostRow]
  BY DEF SettlingInv, WellFormed, TypeOK, TablesOK
<1>2. CASE UNCHANGED lost
  BY <1>2
<1>3. ASSUME NEW report, Room(lost), lost' = Insert(lost, report),
             report.st = "CONFIRMED" \/ report.self
      PROVE  ReportedOnce
  <2>1. PICK n \in LostIds : lost[n].st = "NONE" /\ lost' = [lost EXCEPT ![n] = report]
    BY <1>1, <1>3, InsertFillsOne
  <2>2. QED BY <1>1, <1>3, <2>1
<1>4. ASSUME NEW c \in Clerks, LostStep(c) PROVE ReportedOnce
  <2>1. CASE ReportLostCommit(c)
    <3> DEFINE report == [NoLost EXCEPT !.st = "CONFIRMED", !.copy = tx[c].copy,
                                        !.issue = tx[c].issue, !.frozen = tx[c].late]
    <3>1. Room(lost) /\ lost' = Insert(lost, report)
      BY <2>1 DEF ReportLostCommit, LoseIssue
    <3>2. report.st = "CONFIRMED"
      BY DEF NoLost
    <3> HIDE DEF report
    <3>3. QED BY <1>3, <3>1, <3>2
  <2>2. CASE SelfReportLostCommit(c)
    <3> DEFINE report == [NoLost EXCEPT !.st = "REPORTED", !.copy = tx[c].copy,
                                        !.self = TRUE, !.issue = tx[c].issue,
                                        !.frozen = tx[c].late]
    <3>1. Room(lost) /\ lost' = Insert(lost, report)
      BY <2>2 DEF SelfReportLostCommit, LoseIssue
    <3>2. report.self = TRUE
      BY DEF NoLost
    <3> HIDE DEF report
    <3>3. QED BY <1>3, <3>1, <3>2
  <2>3. CASE ReportMissingCommit(c)
    <3> DEFINE report == [NoLost EXCEPT !.st = "CONFIRMED", !.copy = tx[c].copy]
    <3>1. Room(lost) /\ lost' = Insert(lost, report)
      BY <2>3 DEF ReportMissingCommit
    <3>2. report.st = "CONFIRMED"
      BY DEF NoLost
    <3> HIDE DEF report
    <3>3. QED BY <1>3, <3>1, <3>2
  <2>4. CASE ConfirmLostCommit(c) \/ RejectLostCommit(c)
    BY <1>1, <2>4, SMTT(20) DEF ConfirmLostCommit, RejectLostCommit, LostRow
  <2>5. CASE \/ PayLostCommit(c) \/ WriteOffLostCommit(c)
             \/ ReplaceInKindCommit(c) \/ FoundLostCommit(c)
    BY <1>1, <2>5, SMTT(20) DEF PayLostCommit, WriteOffLostCommit, ReplaceInKindCommit,
                      FoundLostCommit, Claim, LostRow
  <2>6. CASE TurnedUpCommit(c) \/ MarkRefundedCommit(c)
    BY <1>1, <2>6 DEF TurnedUpCommit, MarkRefundedCommit, LostRow
  <2>7. QED BY <1>4, <2>1, <2>2, <2>3, <2>4, <2>5, <2>6 DEF LostStep
<1>5. QED BY <1>2, <1>4, StartsOnlyRead, DeskLeaves, FinesLeave
          DEF Next, Tick, Abort, vars, db

\* A settled report of the desk is out of everybody's reach: a settlement wants
\* it CONFIRMED, and the two that do not look again want the holder's.
LEMMA SettledStays ==
  ASSUME SettlingInv, [Next]_vars, NEW r \in LostIds, lost[r].st \in Settled, ~lost[r].self
  PROVE  lost'[r].st = lost[r].st
<1>1. lost \in [LostIds -> LostRow]
  BY DEF SettlingInv, WellFormed, TypeOK, TablesOK
<1>2. lost[r].st \notin {"NONE", "REPORTED", "CONFIRMED"}
  BY DEF Settled
<1>3. CASE UNCHANGED lost
  BY <1>3
<1>4. ASSUME NEW report, Room(lost), lost' = Insert(lost, report)
      PROVE  lost'[r].st = lost[r].st
  <2>1. PICK n \in LostIds : lost[n].st = "NONE" /\ lost' = [lost EXCEPT ![n] = report]
    BY <1>1, <1>4, InsertFillsOne
  <2>2. QED BY <1>1, <1>2, <2>1
<1>5. ASSUME NEW c \in Clerks, LostStep(c) PROVE lost'[r].st = lost[r].st
  <2>1. CASE ReportLostCommit(c) \/ SelfReportLostCommit(c) \/ ReportMissingCommit(c)
    BY <1>4, <2>1 DEF ReportLostCommit, SelfReportLostCommit, LoseIssue,
                      ReportMissingCommit
  <2>2. CASE ConfirmLostCommit(c) \/ RejectLostCommit(c)
    <3>1. lost[tx[c].report].self
      BY <2>2 DEF ConfirmLostCommit, RejectLostCommit, Running, SettlingInv, HoldersOnly
    <3>2. r # tx[c].report
      BY <3>1
    <3>3. QED BY <1>1, <2>2, <3>2 DEF ConfirmLostCommit, RejectLostCommit
  <2>3. CASE \/ PayLostCommit(c) \/ WriteOffLostCommit(c)
             \/ ReplaceInKindCommit(c) \/ FoundLostCommit(c)
    BY <1>1, <1>2, <2>3 DEF PayLostCommit, WriteOffLostCommit, ReplaceInKindCommit,
                            FoundLostCommit, Claim
  <2>4. CASE TurnedUpCommit(c) \/ MarkRefundedCommit(c)
    BY <1>1, <2>4 DEF TurnedUpCommit, MarkRefundedCommit, LostRow
  <2>5. QED BY <1>5, <2>1, <2>2, <2>3, <2>4 DEF LostStep
<1>6. QED BY <1>3, <1>5, StartsOnlyRead, DeskLeaves, FinesLeave
          DEF Next, Tick, Abort, vars, db

\* Only the reads of lost.service put a request of the lost-book flow in flight.
LEMMA OnlyLostReads ==
  ASSUME WellFormed, [Next]_vars, NEW c \in Clerks, tx'[c] # tx[c],
         tx'[c].op \in {"confirmLost", "rejectLost"} \cup SettleOps
  PROVE  /\ UNCHANGED db
         /\ \E r \in LostIds :
              \/ /\ tx'[c].op \in {"confirmLost", "rejectLost"}
                 /\ ConfirmLostRead(c, r) \/ RejectLostRead(c, r)
              \/ \E op \in SettleOps : SettleRead(c, r, op)
<1>1. DeskStart(c) \/ FinesStart(c) \/ LostStart(c)
  BY RequestMoves DEF LockedOps, SettleOps
<1>2. tx \in [Clerks -> Tx]
  BY DEF WellFormed, TypeOK
<1>3. ~DeskStart(c)
  BY <1>2 DEF DeskStart, IssueRead, ReturnRead, RenewRead, VoidRead, ReserveRead,
              CancelRead, Begin, SettleOps
<1>4. ~FinesStart(c)
  BY <1>2 DEF FinesStart, PayRead, WaiveRead, Begin, SettleOps
<1>5. LostStart(c) /\ UNCHANGED db
  BY <1>1, <1>3, <1>4, StartsOnlyRead
<1>6. ASSUME NEW k \in Copies
      PROVE  ~ReportLostRead(c, k) /\ ~SelfReportLostRead(c, k) /\ ~ReportMissingRead(c, k)
  BY <1>2 DEF ReportLostRead, SelfReportLostRead, ReportMissingRead, Begin, SettleOps
<1>7. ASSUME NEW r \in LostIds
      PROVE  /\ \A o \in {"REFUND_OWED", "FAMILY_KEEPS"} : ~TurnedUpRead(c, r, o)
             /\ ~MarkRefundedRead(c, r)
  BY <1>2 DEF TurnedUpRead, MarkRefundedRead, Begin, SettleOps
<1>8. ASSUME NEW r \in LostIds, ConfirmLostRead(c, r) \/ RejectLostRead(c, r)
      PROVE  tx'[c].op \in {"confirmLost", "rejectLost"}
  BY <1>2, <1>8 DEF ConfirmLostRead, RejectLostRead, Begin
<1>9. QED BY <1>5, <1>6, <1>7, <1>8 DEF LostStart

LEMMA SettlingStep ==
  ASSUME SettlingInv, [Next]_vars
  PROVE  SettlingInv'
<1>1. WellFormed'
  BY NextPreserves DEF SettlingInv
<1>2. ReportedOnce
  BY HoldersKept
<1>3. \A r \in LostIds : lost'[r].st = "REPORTED" => lost'[r].self
  BY <1>2 DEF ReportedOnce, SettlingInv, HoldersOnly
<1>4. ASSUME NEW c \in Clerks, tx'[c].op \in {"confirmLost", "rejectLost"}
      PROVE  lost'[tx'[c].report].self
  <2>1. CASE tx'[c] = tx[c]
    <3>1. tx[c].report \in LostIds /\ lost[tx[c].report].st # "NONE"
      BY <1>4, <2>1, PlanFields
         DEF SettlingInv, WellFormed, TypeOK, PlansStand, PlanStands, ReportsStand
    <3>2. QED BY <1>2, <1>4, <2>1, <3>1 DEF ReportedOnce, SettlingInv, HoldersOnly
  <2>2. CASE tx'[c] # tx[c]
    <3>1. PICK r \in LostIds :
            \/ ConfirmLostRead(c, r) \/ RejectLostRead(c, r)
            \/ \E op \in SettleOps : SettleRead(c, r, op)
      BY <1>4, <2>2, OnlyLostReads DEF SettlingInv
    <3>2. tx \in [Clerks -> Tx] /\ \A op \in SettleOps : op \notin {"confirmLost", "rejectLost"}
      BY DEF SettlingInv, WellFormed, TypeOK, SettleOps
    <3>3. \A op \in SettleOps : ~SettleRead(c, r, op)
      BY <1>4, <3>2 DEF SettleRead, Begin
    <3>4. tx'[c].report = r /\ lost[r].st = "REPORTED" /\ UNCHANGED db
      BY <3>1, <3>2, <3>3 DEF ConfirmLostRead, RejectLostRead, AwaitsLibrarian, Begin
    <3>5. QED BY <3>4 DEF SettlingInv, HoldersOnly, db
  <2>3. QED BY <2>1, <2>2
<1>5. QED BY <1>1, <1>3, <1>4 DEF SettlingInv, HoldersOnly

\* However requests interleave, a loss the desk reported is settled at most once.
THEOREM SettledOnce == Spec => DeskLossSettledOnce
<1>1. InitDB => SettlingInv
  BY InitWellFormed DEF InitDB, SettlingInv, HoldersOnly, NoLost, Idle
<1>2. SettlingInv /\ [Next]_vars => SettlingInv'
  BY SettlingStep
<1>3. SettlingInv /\ [Next]_vars
        => [\A r \in LostIds : (lost[r].st \in Settled /\ ~lost[r].self)
                                 => lost'[r].st = lost[r].st]_vars
  BY SettledStays
<1>4. QED BY <1>1, <1>2, <1>3, PTL DEF Spec, DeskLossSettledOnce

----------------------------------------------------------------------------
(* The fines counter.                                                       *)

\* A fine of an issue never reported lost is settled only at the counter, so an
\* open one was never paid; what a settlement in flight found open belongs to
\* a reported issue, and stays there.
OpenIsUnpaid ==
  \A f \in FineIds : fine[f].issue \notin ReportedIssues
    => fine[f].taken <= 1 /\ (fine[f].st \in {"NONE", "OPEN"} => fine[f].taken = 0)
SettlesReported ==
  \A c \in Clerks : tx[c].op \in SettleOps
    => \A f \in tx[c].open : fine[f].st # "NONE" /\ fine[f].issue \in ReportedIssues

CounterInv == WellFormed /\ OpenIsUnpaid /\ SettlesReported

\* What can happen to one fine: nothing but the loss of an unreported issue, a
\* new charge, a payment at the counter, a waiver, or a settlement.
FineMoves(f) ==
  \/ /\ fine'[f].st = fine[f].st /\ fine'[f].taken = fine[f].taken
     /\ fine'[f].issue = fine[f].issue \/ fine[f].issue \notin ReportedIssues
  \/ fine[f].st = "NONE" /\ fine'[f].st = "OPEN" /\ fine'[f].taken = 0
  \/ /\ fine'[f].issue = fine[f].issue
     /\ \/ fine[f].st = "OPEN" /\ fine'[f].st = "PAID" /\ fine'[f].taken = fine[f].taken + 1
        \/ fine'[f].st = "WAIVED" /\ fine'[f].taken = fine[f].taken
        \/ fine'[f].st = "PAID" /\ fine[f].issue \in ReportedIssues

\* A charge is a new open fine; the others stay as they were.
Charges(old, new) ==
  \A f \in FineIds :
    \/ new[f] = old[f]
    \/ old[f].st = "NONE" /\ new[f].st = "OPEN" /\ new[f].taken = 0

LEMMA LateFineCharges ==
  ASSUME NEW tbl \in [FineIds -> FineRow], NEW i, NEW amount, amount # 0 => Room(tbl)
  PROVE  DOMAIN AddLateFine(tbl, i, amount) = FineIds /\ Charges(tbl, AddLateFine(tbl, i, amount))
<1> DEFINE row == FineFor("OVERDUE", i, amount)
<1>1. row.st = "OPEN" /\ row.taken = 0
  BY DEF FineFor
<1>2. CASE amount = 0
  BY <1>2 DEF AddLateFine, Charges
<1>3. CASE amount # 0
  <2>1. AddLateFine(tbl, i, amount) = Insert(tbl, row) /\ Room(tbl)
    BY <1>3 DEF AddLateFine
  <2> HIDE DEF row
  <2>2. PICK n \in FineIds : tbl[n].st = "NONE" /\ Insert(tbl, row) = [tbl EXCEPT ![n] = row]
    BY <2>1, InsertFillsOne
  <2>3. QED BY <1>1, <2>1, <2>2 DEF Charges
<1>4. QED BY <1>2, <1>3
LEMMA LossCharges ==
  ASSUME WellFormed, NEW i, NEW late \in Nat, NEW price, ChargeLoss(i, late, price)
  PROVE  Charges(fine, fine')
<1> DEFINE mid == AddLateFine(fine, i, late)
           row == FineFor("LOST", i, price)
<1>1. DOMAIN mid = FineIds /\ Charges(fine, mid)
  BY LateFineCharges DEF ChargeLoss, WellFormed, TypeOK, TablesOK
<1>2. row.st = "OPEN" /\ row.taken = 0
  BY DEF FineFor
<1>3. price # NULL => Room(mid)
  BY DEF ChargeLoss
<1>4. fine' = mid \/ (price # NULL /\ fine' = Insert(mid, row))
  BY DEF ChargeLoss, AddReplacementFine
<1> HIDE DEF mid, row
<1>5. CASE fine' = mid
  BY <1>1, <1>5
<1>6. CASE price # NULL /\ fine' = Insert(mid, row)
  <2>1. PICK n \in FineIds : mid[n].st = "NONE" /\ fine' = [mid EXCEPT ![n] = row]
    BY <1>1, <1>3, <1>6, InsertFillsOne
  <2>2. fine'[n] = row /\ \A f \in FineIds \ {n} : fine'[f] = mid[f]
    BY <1>1, <2>1
  <2>3. fine[n].st = "NONE"
    BY <1>1, <2>1 DEF Charges
  <2>4. QED BY <1>1, <1>2, <2>2, <2>3 DEF Charges
<1>7. QED BY <1>4, <1>5, <1>6

LEMMA EveryFineMoves ==
  ASSUME CounterInv, [Next]_vars, NEW f \in FineIds
  PROVE  FineMoves(f)
<1>1. /\ fine \in [FineIds -> FineRow] /\ tx \in [Clerks -> Tx]
      /\ fine[f].issue = NULL \/ fine[f].issue \in IssueIds
  BY DEF CounterInv, WellFormed, TypeOK, TablesOK, FineRow
<1>2. CASE fine'[f] = fine[f]
  BY <1>2 DEF FineMoves
<1>3. Charges(fine, fine') => FineMoves(f)
  BY <1>2 DEF Charges, FineMoves
<1>4. ASSUME NEW c \in Clerks, DeskStep(c) PROVE FineMoves(f)
  <2>1. CASE ReturnCommit(c)
    <3>1. tx[c].late \in Nat
      BY <1>1, <2>1, PlanFields DEF ReturnCommit, Running
    <3>2. Charges(fine, fine')
      BY <1>1, <2>1, <3>1, LateFineCharges DEF ReturnCommit
    <3>3. QED BY <1>3, <3>2
  <2>2. CASE VoidCommit(c)
    <3>1. \A r \in LostIds : lost[r].issue # tx[c].issue
      BY <2>2 DEF VoidCommit
    <3>2. tx[c].issue \notin ReportedIssues
      BY <3>1 DEF ReportedIssues
    <3>3. fine'[f] = IF fine[f].issue = tx[c].issue
                     THEN [fine[f] EXCEPT !.issue = NULL] ELSE fine[f]
      BY <2>2 DEF VoidCommit
    <3>4. fine[f] \in FineRow
      BY <1>1
    <3>5. QED BY <1>2, <3>2, <3>3, <3>4 DEF FineMoves, FineRow
  <2>3. QED BY <1>2, <1>4, <2>1, <2>2
            DEF DeskStep, IssueEvaluate, IssueCommit, RenewCommit, ReserveQuota,
                ReserveQueue, ReserveCommit, CancelCommit, db
<1>5. ASSUME NEW c \in Clerks, FinesStep(c) PROVE FineMoves(f)
  BY <1>1, <1>2, <1>5 DEF FinesStep, PayCommit, WaiveCommit, StillOpen, FineMoves, FineRow
<1>6. ASSUME NEW c \in Clerks, LostStep(c) PROVE FineMoves(f)
  <2>1. CASE ReportLostCommit(c) \/ ConfirmLostCommit(c)
    <3>1. tx[c].late \in Nat
      BY <1>1, <2>1, PlanFields DEF ReportLostCommit, ConfirmLostCommit, Running
    <3>2. Charges(fine, fine')
      BY <2>1, <3>1, LossCharges DEF ReportLostCommit, ConfirmLostCommit, CounterInv
    <3>3. QED BY <1>3, <3>2
  <2>2. CASE \/ PayLostCommit(c) \/ WriteOffLostCommit(c)
             \/ ReplaceInKindCommit(c) \/ FoundLostCommit(c)
    <3>1. f \in tx[c].open => fine[f].issue \in ReportedIssues
      BY <2>2 DEF PayLostCommit, WriteOffLostCommit, ReplaceInKindCommit,
                  FoundLostCommit, Running, SettleOps, CounterInv, SettlesReported
    <3>2. f \notin tx[c].open => fine'[f] = fine[f]
      BY <2>2 DEF PayLostCommit, WriteOffLostCommit, ReplaceInKindCommit,
                  FoundLostCommit, PayFines, WaiveFines
    <3>3. \/ fine'[f] = fine[f]
          \/ fine'[f].issue = fine[f].issue /\ fine'[f].st = "PAID"
          \/ /\ fine'[f].issue = fine[f].issue /\ fine'[f].st = "WAIVED"
             /\ fine'[f].taken = fine[f].taken
      <4>1. fine[f] \in FineRow
        BY <1>1
      <4>2. /\ [fine[f] EXCEPT !.st = "PAID", !.paid = fine[f].amount, !.taken = @ + 1].issue
                 = fine[f].issue
            /\ [fine[f] EXCEPT !.st = "PAID", !.paid = fine[f].amount, !.taken = @ + 1].st
                 = "PAID"
            /\ \A w : LET row == [fine[f] EXCEPT !.st = "WAIVED", !.waived = w]
                     IN /\ row.issue = fine[f].issue /\ row.st = "WAIVED"
                        /\ row.taken = fine[f].taken
        BY <4>1 DEF FineRow
      <4>3. CASE PayLostCommit(c)
        BY <4>2, <4>3 DEF PayLostCommit, PayFines
      <4>4. ASSUME NEW kinds, WaiveFines(tx[c].open, tx[c].owed, kinds)
            PROVE  \/ fine'[f] = fine[f]
                   \/ /\ fine'[f].issue = fine[f].issue /\ fine'[f].st = "WAIVED"
                      /\ fine'[f].taken = fine[f].taken
        BY <4>2, <4>4 DEF WaiveFines
      <4>5. QED BY <2>2, <4>3, <4>4
                DEF WriteOffLostCommit, ReplaceInKindCommit, FoundLostCommit
    <3>4. QED BY <1>2, <3>1, <3>2, <3>3 DEF FineMoves
  <2>3. QED BY <1>2, <1>6, <2>1, <2>2
            DEF LostStep, SelfReportLostCommit, ReportMissingCommit, RejectLostCommit,
                TurnedUpCommit, MarkRefundedCommit
<1>7. CASE UNCHANGED fine
  BY <1>2, <1>7
<1>8. QED BY <1>4, <1>5, <1>6, <1>7, StartsOnlyRead DEF Next, Tick, Abort, vars, db

LEMMA CounterStep ==
  ASSUME CounterInv, [Next]_vars
  PROVE  CounterInv'
<1>1. WellFormed'
  BY NextPreserves DEF CounterInv
<1>2. ReportedIssues \subseteq ReportedIssues'
  BY KeepIssue DEF CounterInv, ReportsKeepIssue, ReportedIssues
<1>3. \A f \in FineIds : FineMoves(f) /\ fine[f].taken \in Nat
  BY EveryFineMoves DEF CounterInv, WellFormed, TypeOK, TablesOK, FineRow
<1>4. OpenIsUnpaid'
  BY <1>2, <1>3 DEF FineMoves, CounterInv, OpenIsUnpaid
<1>5. ASSUME NEW c \in Clerks, tx'[c].op \in SettleOps,
             NEW f \in tx'[c].open
      PROVE  fine'[f].st # "NONE" /\ fine'[f].issue \in ReportedIssues'
  <2>1. CASE tx'[c] = tx[c]
    <3>1. f \in FineIds /\ fine[f].st # "NONE" /\ fine[f].issue \in ReportedIssues
      <4>1. tx[c] \in Tx
        BY DEF CounterInv, WellFormed, TypeOK
      <4>2. tx[c].open \subseteq FineIds
        BY <1>5, <2>1, <4>1, PlanFields
      <4>3. QED BY <1>5, <2>1, <4>2 DEF CounterInv, SettlesReported
    <3>2. QED BY <1>2, <1>3, <3>1 DEF FineMoves
  <2>2. CASE tx'[c] # tx[c]
    <3>1. PICK r \in LostIds :
            \/ ConfirmLostRead(c, r) \/ RejectLostRead(c, r)
            \/ \E op \in SettleOps : SettleRead(c, r, op)
      BY <1>5, <2>2, OnlyLostReads DEF CounterInv
    <3>2. UNCHANGED db
      BY <1>5, <2>2, OnlyLostReads DEF CounterInv
    <3>3. tx \in [Clerks -> Tx]
      BY DEF CounterInv, WellFormed, TypeOK
    <3>4. PICK op \in SettleOps : SettleRead(c, r, op)
      BY <1>5, <3>1, <3>3 DEF ConfirmLostRead, RejectLostRead, Begin, SettleOps
    <3>5. tx'[c].open = OpenFinesOn(lost[r].issue) /\ lost[r].issue # NULL
      BY <3>3, <3>4 DEF SettleRead, Begin
    <3>6. fine[f].st # "NONE" /\ fine[f].issue \in ReportedIssues
      BY <1>5, <3>5 DEF OpenFinesOn, ReportedIssues
    <3>7. QED BY <1>2, <3>2, <3>6 DEF db
  <2>3. QED BY <2>1, <2>2
<1>6. QED BY <1>1, <1>4, <1>5 DEF CounterInv, SettlesReported

\* However clerks overlap at the fines counter, a fine whose issue was never
\* reported lost is paid at most once.
THEOREM PaidOnceAtCounter == Spec => []PaymentTakenOnce
<1>1. InitDB => CounterInv
  BY InitWellFormed DEF InitDB, CounterInv, OpenIsUnpaid, SettlesReported, NoFine, Idle,
                        SettleOps
<1>2. CounterInv /\ [Next]_vars => CounterInv'
  BY CounterStep
<1>3. CounterInv => PaymentTakenOnce
  BY DEF CounterInv, OpenIsUnpaid, PaymentTakenOnce
<1>4. QED BY <1>1, <1>2, <1>3, PTL DEF Spec

=============================================================================
