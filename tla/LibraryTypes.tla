---------------------------- MODULE LibraryTypes ----------------------------
(***************************************************************************)
(* Type correctness of Library.  TypeOK is not inductive: a handler that   *)
(* follows a foreign key needs the row to be there.  WellFormed adds what  *)
(* the schema's foreign keys and the handlers' reads guarantee together.   *)
(***************************************************************************)
EXTENDS Library, FiniteSetTheorems, WellFoundedInduction, TLAPS

\* A row that was inserted has its foreign keys; a deleted issue lost them.
KeysPresent ==
  /\ \A i \in IssueIds : issue[i].st \in {"ACTIVE", "RETURNED", "LOST"}
       => issue[i].copy \in Copies /\ issue[i].member \in Members
  /\ \A h \in ResvIds : resv[h].st # "NONE"
       => resv[h].title \in Titles /\ resv[h].member \in Members

\* The issue of a report is never deleted, and the holder's report has one.
ReportsStand ==
  \A r \in LostIds :
    /\ lost[r].issue # NULL => /\ lost[r].st # "NONE"
                               /\ issue[lost[r].issue].st \in {"ACTIVE", "RETURNED", "LOST"}
    /\ lost[r].st = "REPORTED" => lost[r].issue # NULL

\* A request that remembers a row remembers one that was there.
PlanStands(p) ==
  /\ p.op \in {"return", "renew", "void", "reportLost", "selfReportLost"}
       => issue[p.issue].st # "NONE"
  /\ p.op \in {"confirmLost", "rejectLost"} => lost[p.report].issue # NULL
  /\ p.op = "cancel" => resv[p.hold].st # "NONE"
  /\ p.op \in {"issueGranted", "void"} => p.hold = NULL \/ resv[p.hold].st # "NONE"
PlansStand == \A c \in Clerks : PlanStands(tx[c])

WellFormed == TypeOK /\ KeysPresent /\ ReportsStand /\ PlansStand

----------------------------------------------------------------------------
(* The greatest of finitely many numbers (LastTurn, LastPosition).          *)

\* A nonempty finite set of naturals contains its Max: a smallest subset that
\* had none would lose an element and then have one.
LEMMA MaxOfNaturals ==
  ASSUME NEW S, S \subseteq Nat, IsFiniteSet(S), S # {}
  PROVE  Max(S) \in S /\ \A y \in S : y <= Max(S)
<1> DEFINE HasMax(U) == \E x \in U : \A y \in U : x >= y
           Without == {U \in FiniteSubsetsOf(S) : U # {} /\ ~HasMax(U)}
<1>1. SUFFICES Without = {}
  <2>1. S \in FiniteSubsetsOf(S)
    BY DEF FiniteSubsetsOf
  <2>2. HasMax(S)
    BY <1>1, <2>1
  <2> HIDE DEF Without
  <2>3. QED BY <2>2 DEF Max
<1>2. SUFFICES ASSUME Without # {} PROVE FALSE
  OBVIOUS
<1>3. PICK U \in Without : \A V \in Without : <<V, U>> \notin StrictSubsetOrdering(S)
  BY <1>2, FS_StrictSubsetOrderingWellFounded, WFMin
<1>4. U \subseteq Nat /\ U \subseteq S /\ IsFiniteSet(U) /\ U # {} /\ ~HasMax(U)
  BY DEF FiniteSubsetsOf
<1>5. PICK x \in U : TRUE
  BY <1>4
<1>6. IsFiniteSet(U \ {x}) /\ U \ {x} \in FiniteSubsetsOf(S)
  BY <1>4, FS_RemoveElement DEF FiniteSubsetsOf
<1>7. <<U \ {x}, U>> \in StrictSubsetOrdering(S)
  BY <1>4, <1>5 DEF StrictSubsetOrdering
<1>8. U \ {x} = {} \/ HasMax(U \ {x})
  BY <1>3, <1>6, <1>7
<1>9. CASE U \ {x} = {}
  <2>1. \A y \in U : y = x
    BY <1>9
  <2>2. HasMax(U)
    BY <1>4, <1>5, <2>1
  <2>3. QED BY <1>4, <2>2
<1>10. CASE HasMax(U \ {x})
  <2>1. PICK z \in U \ {x} : \A y \in U \ {x} : z >= y
    BY <1>10
  <2>2. x \in Nat /\ z \in Nat /\ z \in U
    BY <1>4
  <2>3. CASE x >= z
    <3>1. \A y \in U : x >= y
      BY <1>4, <2>1, <2>2, <2>3
    <3>2. QED BY <1>4, <1>5, <3>1
  <2>4. CASE z >= x
    <3>1. \A y \in U : z >= y
      BY <1>4, <2>1, <2>2, <2>4
    <3>2. QED BY <1>4, <2>2, <3>1
  <2>5. QED BY <2>2, <2>3, <2>4
<1>11. QED BY <1>8, <1>9, <1>10

\* The number after the last one used in some rows of a table is a number.
LEMMA NextNumber ==
  ASSUME NEW Rows, IsFiniteSet(Rows), NEW f, \A x \in Rows : f[x] \in Nat,
         NEW Q \in SUBSET Rows
  PROVE  /\ Max({f[x] : x \in Q} \cup {0}) \in Nat
         /\ \A y \in Q : f[y] <= Max({f[x] : x \in Q} \cup {0})
<1> DEFINE S == {f[x] : x \in Q} \cup {0}
<1>1. IsFiniteSet(Q)
  BY FS_Subset
<1>2. IsFiniteSet({f[x] : x \in Q})
  <2> DEFINE g == [x \in Q |-> f[x]]
  <2>1. g \in Surjection(Q, {f[x] : x \in Q})
    BY DEF Surjection
  <2>2. QED BY <1>1, <2>1, FS_Surjection
<1>3. IsFiniteSet(S) /\ S # {} /\ S \subseteq Nat
  BY <1>2, FS_AddElement
<1>4. QED BY <1>3, MaxOfNaturals

----------------------------------------------------------------------------
(* How requests begin and end.                                              *)

\* Nothing a request relies on goes away: no row is un-inserted and a report
\* keeps its issue.
RowsStay ==
  /\ \A i \in IssueIds : issue[i].st # "NONE" => issue'[i].st # "NONE"
  /\ \A h \in ResvIds : resv[h].st # "NONE" => resv'[h].st # "NONE"
  /\ \A r \in LostIds : lost[r].issue # NULL => lost'[r].issue # NULL

\* What the plan of a request holds, by route.
LEMMA PlanFields ==
  ASSUME NEW p \in Tx
  PROVE  /\ p.op = "issueRead" => /\ p.copy \in Copies /\ p.member \in Members
                                  /\ p.read \in CopyStatus /\ p.at \in Nat
         /\ p.op = "issueGranted" => /\ p.copy \in Copies /\ p.member \in Members
                                     /\ p.hold \in ResvIds \cup {NULL} /\ p.due \in Nat
         /\ p.op \in {"return", "reportLost", "selfReportLost"}
              => p.copy \in Copies /\ p.issue \in IssueIds /\ p.late \in Nat
         /\ p.op = "return" => p.at \in Nat
         /\ p.op = "renew" => p.issue \in IssueIds /\ p.due \in Nat
         /\ p.op = "void" => /\ p.copy \in Copies /\ p.member \in Members
                             /\ p.issue \in IssueIds /\ p.hold \in ResvIds \cup {NULL}
         /\ p.op \in {"reserveQuota", "reserveAllowed", "reserveQueued"}
              => p.title \in Titles /\ p.member \in Members
         /\ p.op = "reserveQuota" => p = [op |-> "reserveQuota", title |-> p.title,
                                          member |-> p.member]
         /\ p.op = "reserveQueued" => p.pos \in Nat
         /\ p.op = "cancel" => p.hold \in ResvIds /\ p.copy \in Copies \cup {NULL}
         /\ p.op = "pay" => p.fine \in FineIds /\ p.paid \in Int
         /\ p.op = "waive" => p.fine \in FineIds /\ p.waived \in Int
         /\ p.op = "confirmLost" => p.report \in LostIds /\ p.late \in Nat
         /\ p.op \in {"rejectLost", "markRefunded", "turnedUp"} \cup SettleOps
              => p.report \in LostIds
         /\ p.op \in SettleOps => p.open \subseteq FineIds /\ p.owed \in [FineIds -> Int]
         /\ p.op = "reportMissing" => p.copy \in Copies
         /\ p.op = "turnedUp" => p.refund \subseteq FineIds
<1>1. CASE p = Idle
  BY <1>1 DEF Idle, SettleOps
<1>2. CASE p \in DeskTx
  BY <1>2 DEF DeskTx, SettleOps
<1>3. CASE p \in FinesTx
  BY <1>3 DEF FinesTx, SettleOps
<1>4. CASE p \in LostTx
  BY <1>4 DEF LostTx, SettleOps
<1>5. QED BY <1>1, <1>2, <1>3, <1>4 DEF Tx

\* A request that goes on with a good plan leaves the state well formed.
LEMMA PlanPreserves ==
  ASSUME WellFormed, NEW c \in Clerks, NEW plan \in Tx, PlanStands(plan),
         tx' = [tx EXCEPT ![c] = plan], UNCHANGED <<db, now>>
  PROVE  WellFormed'
<1>1. TablesOK' /\ KeysPresent' /\ ReportsStand'
  BY DEF WellFormed, TypeOK, TablesOK, KeysPresent, ReportsStand, db
<1>2. tx' \in [Clerks -> Tx]
  BY DEF WellFormed, TypeOK
<1>3. PlansStand'
  <2>1. \A d \in Clerks : PlanStands(tx'[d])
    BY DEF WellFormed, TypeOK, PlansStand
  <2>2. QED BY <2>1 DEF PlansStand, PlanStands, db
<1>4. QED BY <1>1, <1>2, <1>3 DEF WellFormed, TypeOK

LEMMA BeginPreserves ==
  ASSUME WellFormed, NEW c \in Clerks, NEW route, NEW plan \in Tx,
         Begin(c, route, plan), PlanStands(plan)
  PROVE  WellFormed'
BY PlanPreserves DEF Begin

\* A request that commits good rows leaves the state well formed.
LEMMA CommitPreserves ==
  ASSUME WellFormed, NEW c \in Clerks, Finish(c),
         TablesOK', KeysPresent', ReportsStand', RowsStay
  PROVE  WellFormed'
<1>1. \A d \in Clerks : tx'[d] \in Tx /\ PlanStands(tx'[d])
  BY DEF WellFormed, TypeOK, PlansStand, Finish, Tx, PlanStands, Idle
<1>2. tx' \in [Clerks -> Tx]
  BY <1>1 DEF WellFormed, TypeOK, Finish
<1>3. ASSUME NEW d \in Clerks PROVE PlanStands(tx[d])'
  <2>1. PlanStands(tx'[d]) /\ tx'[d] \in Tx
    BY <1>1, <1>3
  <2>2. QED BY <2>1, PlanFields DEF PlanStands, RowsStay
<1>4. QED BY <1>2, <1>3 DEF WellFormed, TypeOK, PlansStand
\* A rollback leaves every row as it was, and a tick as well.
LEMMA AbortPreserves ==
  ASSUME WellFormed, NEW c \in Clerks, Abort(c)
  PROVE  WellFormed'
<1>1. TablesOK' /\ KeysPresent' /\ ReportsStand' /\ RowsStay
  BY DEF WellFormed, TypeOK, TablesOK, KeysPresent, ReportsStand, RowsStay,
         Abort, Finish, db
<1>2. QED BY <1>1, CommitPreserves DEF Abort

LEMMA IdlePreserves ==
  ASSUME WellFormed, UNCHANGED <<db, tx>>, now' \in Nat
  PROVE  WellFormed'
BY DEF WellFormed, TypeOK, TablesOK, KeysPresent, ReportsStand, PlansStand,
       PlanStands, db

----------------------------------------------------------------------------
(* Inserted rows and charges.                                               *)

\* An insertion fills one empty row and touches no other.
LEMMA InsertFillsOne ==
  ASSUME NEW tbl, NEW row, Room(tbl)
  PROVE  \E n \in DOMAIN tbl : /\ tbl[n].st = "NONE"
                               /\ Insert(tbl, row) = [tbl EXCEPT ![n] = row]
<1>1. NextId(tbl) \in Unborn(tbl)
  BY DEF Room, NextId
<1>2. QED BY <1>1 DEF Insert, Unborn

LEMMA InsertType ==
  ASSUME NEW Ids, NEW Rows, NEW tbl \in [Ids -> Rows], NEW row \in Rows
  PROVE  Insert(tbl, row) \in [Ids -> Rows]
BY DEF Insert

\* computeFine never returns a negative amount.
LEMMA LateChargeIsNat ==
  ASSUME WellFormed, NEW i \in IssueIds, issue[i].member \in Members, NEW day \in Nat
  PROVE  LateCharge(i, day) \in Nat
<1> DEFINE p == Policy[issue[i].member]
           by == day - (issue[i].due + p.graceDays)
<1>1. p.graceDays \in Nat /\ p.finePerDay \in Nat /\ p.maxFine \in Nat \cup {NULL}
  BY PolicyAssumption DEF PolicyRow
<1>2. issue[i].due \in Nat
  BY DEF WellFormed, TypeOK, TablesOK, IssueRow
<1>3. day > issue[i].due + p.graceDays => by \in Nat
  BY <1>1, <1>2
<1>4. \A x, y \in Nat : x * y \in Nat
  OBVIOUS
<1>5. day > issue[i].due + p.graceDays => by * p.finePerDay \in Nat
  BY <1>1, <1>3, <1>4
<1> HIDE DEF by
<1>6. QED BY <1>1, <1>5 DEF LateCharge, by

LEMMA FineForType ==
  ASSUME WellFormed, NEW kind \in {"OVERDUE", "LOST"}, NEW i \in IssueIds, NEW n \in Nat
  PROVE  FineFor(kind, i, n) \in FineRow
<1>1. issue[i].member \in Members \cup {NULL}
  BY DEF WellFormed, TypeOK, TablesOK, IssueRow
<1>2. QED BY <1>1 DEF FineFor, FineRow

LEMMA LateFineType ==
  ASSUME WellFormed, NEW tbl \in [FineIds -> FineRow], NEW i \in IssueIds, NEW n \in Nat
  PROVE  AddLateFine(tbl, i, n) \in [FineIds -> FineRow]
BY FineForType, InsertType DEF AddLateFine

LEMMA ChargeLossType ==
  ASSUME WellFormed, NEW i \in IssueIds, NEW n \in Nat, NEW price \in Prices \cup {NULL},
         ChargeLoss(i, n, price)
  PROVE  fine' \in [FineIds -> FineRow]
<1>1. fine \in [FineIds -> FineRow]
  BY DEF WellFormed, TypeOK, TablesOK
<1>2. AddLateFine(fine, i, n) \in [FineIds -> FineRow]
  BY <1>1, LateFineType
<1>3. price # NULL => FineFor("LOST", i, price) \in FineRow
  BY FineForType, NumbersAssumption
<1>4. QED BY <1>2, <1>3, InsertType DEF ChargeLoss, AddReplacementFine

----------------------------------------------------------------------------
(* The desk.                                                                *)

LEMMA DeskStartPreserves ==
  ASSUME WellFormed, NEW c \in Clerks, DeskStart(c)
  PROVE  WellFormed'
<1> USE DEF Tx, DeskTx, PlanStands
<1>1. CASE \E k \in Copies, m \in Members : IssueRead(c, k, m)
  BY <1>1, BeginPreserves DEF IssueRead, WellFormed, TypeOK, TablesOK
<1>2. ASSUME NEW k \in Copies, ReturnRead(c, k) PROVE WellFormed'
  <2>1. PICK i \in ActiveIssues(k) :
          Begin(c, "return", [op |-> "return", copy |-> k, issue |-> i,
                              late |-> LateCharge(i, now), at |-> now])
    BY <1>2 DEF ReturnRead
  <2>2. i \in IssueIds /\ issue[i].st = "ACTIVE" /\ issue[i].member \in Members
    BY DEF ActiveIssues, WellFormed, KeysPresent
  <2>3. LateCharge(i, now) \in Nat /\ now \in Nat
    BY <2>2, LateChargeIsNat DEF WellFormed, TypeOK, TablesOK
  <2>4. QED BY <2>1, <2>2, <2>3, BeginPreserves
<1>3. ASSUME NEW k \in Copies, RenewRead(c, k) PROVE WellFormed'
  <2>1. PICK i \in ActiveIssues(k) :
          Begin(c, "renew", [op |-> "renew", issue |-> i,
                             due |-> now + Policy[issue[i].member].renewDays])
    BY <1>3 DEF RenewRead
  <2>2. i \in IssueIds /\ issue[i].st = "ACTIVE" /\ issue[i].member \in Members
    BY DEF ActiveIssues, WellFormed, KeysPresent
  <2>3. now + Policy[issue[i].member].renewDays \in Nat
    BY <2>2, PolicyAssumption DEF PolicyRow, WellFormed, TypeOK, TablesOK
  <2>4. QED BY <2>1, <2>2, <2>3, BeginPreserves
<1>4. ASSUME NEW i \in IssueIds, VoidRead(c, i) PROVE WellFormed'
  <2>1. PICK h \in IF LastCollected(issue[i].copy) = {} THEN {NULL}
                   ELSE LastCollected(issue[i].copy) :
          Begin(c, "void", [op |-> "void", copy |-> issue[i].copy,
                            member |-> issue[i].member, issue |-> i, hold |-> h,
                            alone |-> NoOtherIssue(issue[i].member, i)])
    BY <1>4 DEF VoidRead
  <2>2. /\ issue[i].st = "ACTIVE"
        /\ issue[i].copy \in Copies /\ issue[i].member \in Members
    BY <1>4 DEF VoidRead, WellFormed, KeysPresent
  <2>3. h = NULL \/ (h \in ResvIds /\ resv[h].st = "COLLECTED")
    <3>1. \A x \in LastCollected(issue[i].copy) :
            x \in ResvIds /\ resv[x].st = "COLLECTED"
      BY DEF LastCollected
    <3> HIDE DEF PlanStands, Tx, DeskTx
    <3>2. QED BY <3>1
  <2>4. NoOtherIssue(issue[i].member, i) \in BOOLEAN
    BY DEF NoOtherIssue
  <2>5. QED BY <2>1, <2>2, <2>3, <2>4, BeginPreserves
<1>5. CASE \E m \in Members, t \in Titles : ReserveRead(c, m, t)
  BY <1>5, BeginPreserves DEF ReserveRead
<1>6. ASSUME NEW h \in ResvIds, CancelRead(c, h) PROVE WellFormed'
  <2>1. resv[h].copy \in Copies \cup {NULL} /\ resv[h].st # "NONE"
    BY <1>6 DEF CancelRead, WellFormed, TypeOK, TablesOK, ResvRow
  <2>2. QED BY <1>6, <2>1, BeginPreserves DEF CancelRead
<1>7. QED BY <1>1, <1>2, <1>3, <1>4, <1>5, <1>6 DEF DeskStart
LEMMA LastTurnIsNat ==
  ASSUME WellFormed, NEW k
  PROVE  LastTurn(k) \in Nat
<1> DEFINE turns == [x \in ResvIds |-> resv[x].turn]
           Q == {x \in ResvIds : resv[x].copy = k}
<1>1. \A x \in ResvIds : turns[x] \in Nat
  BY DEF WellFormed, TypeOK, TablesOK, ResvRow
<1>2. {resv[x].turn : x \in Q} = {turns[x] : x \in Q}
  OBVIOUS
<1>3. Q \in SUBSET ResvIds
  OBVIOUS
<1> HIDE DEF turns, Q
<1>4. Max({turns[x] : x \in Q} \cup {0}) \in Nat
  BY <1>1, <1>3, NextNumber, PoolsAssumption
<1>5. QED BY <1>2, <1>4 DEF LastTurn, Q

LEMMA LastPositionIsNat ==
  ASSUME WellFormed, NEW t
  PROVE  /\ LastPosition(t) \in Nat
         /\ \A h \in ResvIds : resv[h].title = t => resv[h].pos <= LastPosition(t)
<1> DEFINE places == [x \in ResvIds |-> resv[x].pos]
           Q == {x \in ResvIds : resv[x].title = t}
<1>1. \A x \in ResvIds : places[x] \in Nat
  BY DEF WellFormed, TypeOK, TablesOK, ResvRow
<1>2. {resv[x].pos : x \in Q} = {places[x] : x \in Q}
  OBVIOUS
<1>3. Q \in SUBSET ResvIds
  OBVIOUS
<1>4. \A h \in ResvIds : resv[h].title = t => h \in Q /\ places[h] = resv[h].pos
  OBVIOUS
<1> HIDE DEF places, Q
<1>5. /\ Max({places[x] : x \in Q} \cup {0}) \in Nat
      /\ \A h \in Q : places[h] <= Max({places[x] : x \in Q} \cup {0})
  BY <1>1, <1>3, NextNumber, PoolsAssumption
<1>6. LastPosition(t) = Max({places[x] : x \in Q} \cup {0})
  BY <1>2 DEF LastPosition, Q
<1>7. QED BY <1>4, <1>5, <1>6

LEMMA IssueCommitPreserves ==
  ASSUME WellFormed, NEW c \in Clerks, IssueCommit(c)
  PROVE  WellFormed'
<1> DEFINE k == tx[c].copy
           m == tx[c].member
           h == tx[c].hold
           row == [st |-> "ACTIVE", copy |-> k, member |-> m,
                   due |-> tx[c].due, renewals |-> 0]
<1>1. /\ k \in Copies /\ m \in Members /\ tx[c].due \in Nat
      /\ h \in ResvIds \cup {NULL}
      /\ h = NULL \/ resv[h].st # "NONE"
  BY PlanFields DEF IssueCommit, Running, WellFormed, TypeOK, PlansStand, PlanStands
<1>2. PICK n \in IssueIds : /\ issue[n].st = "NONE"
                            /\ issue' = [issue EXCEPT ![n] = row]
  BY InsertFillsOne DEF IssueCommit, WellFormed, TypeOK, TablesOK
<1>3. row \in IssueRow
  BY <1>1 DEF IssueRow
<1>4. /\ copy' = [copy EXCEPT ![k] = "ISSUED"]
      /\ present' = present \cup ({m} \cap InVisit)
      /\ resv' = IF h = NULL THEN resv
                 ELSE [resv EXCEPT ![h].st = "COLLECTED", ![h].turn = LastTurn(k) + 1]
      /\ Finish(c) /\ UNCHANGED <<fine, lost>>
  BY DEF IssueCommit
<1>5. LastTurn(k) \in Nat
  BY LastTurnIsNat
<1> HIDE DEF k, m, h, row
<1>6. resv' \in [ResvIds -> ResvRow]
  BY <1>1, <1>4, <1>5 DEF WellFormed, TypeOK, TablesOK, ResvRow
<1>7. TablesOK'
  BY <1>1, <1>2, <1>3, <1>4, <1>6
     DEF WellFormed, TypeOK, TablesOK, CopyStatus, Finish
<1>8. KeysPresent'
  <2>1. \A i \in IssueIds : issue'[i] = IF i = n THEN row ELSE issue[i]
    BY <1>2 DEF WellFormed, TypeOK, TablesOK
  <2>2. row.copy \in Copies /\ row.member \in Members
    BY <1>1 DEF row
  <2>3. \A x \in ResvIds : /\ resv[x].st # "NONE" <=> resv'[x].st # "NONE"
                           /\ resv'[x].title = resv[x].title
                           /\ resv'[x].member = resv[x].member
    BY <1>1, <1>4 DEF WellFormed, TypeOK, TablesOK, ResvRow
  <2>4. QED BY <2>1, <2>2, <2>3 DEF KeysPresent, WellFormed
<1>9. ReportsStand'
  BY <1>2, <1>4 DEF ReportsStand, WellFormed, TypeOK, TablesOK, LostRow
<1>10. RowsStay
  BY <1>1, <1>2, <1>4 DEF RowsStay, WellFormed, TypeOK, TablesOK, ResvRow, row
<1>11. QED BY <1>4, <1>7, <1>8, <1>9, <1>10, CommitPreserves
\* The statuses of rows change, their keys do not.
LEMMA KeysStay ==
  ASSUME WellFormed, TablesOK',
         \A i \in IssueIds : /\ issue[i].st = "NONE" => issue'[i] = issue[i]
                             /\ issue[i].st # "NONE" => issue'[i].st # "NONE"
                             /\ issue'[i].st \in {"ACTIVE", "RETURNED", "LOST"}
                                  => /\ issue[i].st \notin {"NONE", "DELETED"}
                                     /\ issue'[i].copy = issue[i].copy
                                     /\ issue'[i].member = issue[i].member,
         \A h \in ResvIds : /\ resv'[h].title = resv[h].title
                            /\ resv'[h].member = resv[h].member
                            /\ resv[h].st = "NONE" <=> resv'[h].st = "NONE"
  PROVE  KeysPresent'
BY DEF WellFormed, TypeOK, TablesOK, KeysPresent, IssueRow

LEMMA PromoteOrReleaseType ==
  ASSUME WellFormed, NEW k \in Copies, NEW at \in Nat, PromoteOrRelease(k, at)
  PROVE  /\ resv' \in [ResvIds -> ResvRow] /\ copy' \in [Copies -> CopyStatus]
         /\ \A h \in ResvIds : /\ resv'[h].title = resv[h].title
                               /\ resv'[h].member = resv[h].member
                               /\ resv[h].st = "NONE" <=> resv'[h].st = "NONE"
<1> DEFINE t == TitleOf[k]
           expired(h) == [resv[h] EXCEPT !.st = "EXPIRED"]
<1>1. PICK next :
        /\ next = NULL \/ next \in PendingOn(t)
        /\ resv' = [h \in ResvIds |-> IF h \in Lapsed(t, at) THEN expired(h)
                      ELSE IF h = next THEN Promoted(h, k, at) ELSE resv[h]]
        /\ copy' = [x \in Copies |->
                     IF x = k THEN IF next = NULL THEN "AVAILABLE" ELSE "RESERVED_SHELF"
                     ELSE IF x \in {resv[h].copy : h \in Lapsed(t, at)} THEN "AVAILABLE"
                     ELSE copy[x]]
  BY DEF PromoteOrRelease, FirstInQueue
<1>2. \A h \in Lapsed(t, at) : /\ h \in ResvIds /\ resv[h].st = "READY" /\ expired(h) \in ResvRow
                           /\ expired(h).st = "EXPIRED" /\ expired(h).title = resv[h].title
                           /\ expired(h).member = resv[h].member
  BY DEF Lapsed, WellFormed, TypeOK, TablesOK, ResvRow
<1>3. \A h \in PendingOn(t) :
        /\ h \in ResvIds /\ resv[h].st = "PENDING" /\ Promoted(h, k, at) \in ResvRow
        /\ Promoted(h, k, at).st = "READY" /\ Promoted(h, k, at).title = resv[h].title
        /\ Promoted(h, k, at).member = resv[h].member
  <2> TAKE h \in PendingOn(t)
  <2>1. h \in ResvIds /\ resv[h].st = "PENDING" /\ resv[h].member \in Members
    BY DEF PendingOn, WellFormed, KeysPresent
  <2>2. at + Policy[resv[h].member].reservedShelfDays \in Nat
    BY <2>1, PolicyAssumption DEF PolicyRow, WellFormed, TypeOK, TablesOK
  <2>3. QED BY <2>1, <2>2 DEF Promoted, WellFormed, TypeOK, TablesOK, ResvRow
<1> HIDE DEF expired
<1>4. \A h \in ResvIds : /\ resv'[h] \in ResvRow
                         /\ resv'[h].title = resv[h].title
                         /\ resv'[h].member = resv[h].member
                         /\ resv[h].st = "NONE" <=> resv'[h].st = "NONE"
  <2> TAKE h \in ResvIds
  <2>1. resv[h] \in ResvRow /\ h # NULL
    BY NullAssumption DEF WellFormed, TypeOK, TablesOK
  <2>2. resv'[h] = IF h \in Lapsed(t, at) THEN expired(h)
                   ELSE IF h = next THEN Promoted(h, k, at) ELSE resv[h]
    BY <1>1
  <2>3. QED BY <1>1, <1>2, <1>3, <2>1, <2>2
<1>5. copy' \in [Copies -> CopyStatus]
  BY <1>1 DEF WellFormed, TypeOK, TablesOK, CopyStatus
<1>6. resv' \in [ResvIds -> ResvRow]
  BY <1>1, <1>4
<1>7. QED BY <1>4, <1>5, <1>6

LEMMA ReturnCommitPreserves ==
  ASSUME WellFormed, NEW c \in Clerks, ReturnCommit(c)
  PROVE  WellFormed'
<1> DEFINE i == tx[c].issue
<1>1. /\ i \in IssueIds /\ tx[c].copy \in Copies
      /\ tx[c].late \in Nat /\ tx[c].at \in Nat
      /\ issue[i].st \notin {"NONE", "DELETED"}
  BY PlanFields DEF ReturnCommit, Running, WellFormed, TypeOK, PlansStand, PlanStands
<1>2. /\ issue' = [issue EXCEPT ![i].st = "RETURNED"]
      /\ fine' = AddLateFine(fine, i, tx[c].late)
      /\ PromoteOrRelease(tx[c].copy, tx[c].at)
      /\ Finish(c) /\ UNCHANGED <<lost, present>>
  BY DEF ReturnCommit
<1> HIDE DEF i
<1>3. issue' \in [IssueIds -> IssueRow]
  BY <1>1, <1>2 DEF WellFormed, TypeOK, TablesOK, IssueRow
<1>4. fine' \in [FineIds -> FineRow]
  BY <1>1, <1>2, LateFineType DEF WellFormed, TypeOK, TablesOK
<1>5. TablesOK'
  BY <1>1, <1>2, <1>3, <1>4, PromoteOrReleaseType
     DEF WellFormed, TypeOK, TablesOK, Finish
<1>6. KeysPresent'
  <2>1. \A j \in IssueIds :
          issue'[j] = IF j = i THEN [issue[j] EXCEPT !.st = "RETURNED"] ELSE issue[j]
    BY <1>2 DEF WellFormed, TypeOK, TablesOK
  <2>2. \A j \in IssueIds : /\ issue'[j].copy = issue[j].copy
                            /\ issue'[j].member = issue[j].member
                            /\ issue'[j].st = IF j = i THEN "RETURNED" ELSE issue[j].st
    BY <2>1 DEF WellFormed, TypeOK, TablesOK, IssueRow
  <2>3. QED BY <1>1, <1>2, <1>5, <2>1, <2>2, PromoteOrReleaseType, KeysStay
<1>7. ReportsStand' /\ RowsStay
  BY <1>1, <1>2, PromoteOrReleaseType
     DEF ReportsStand, RowsStay, WellFormed, TypeOK, TablesOK, IssueRow, LostRow
<1>8. QED BY <1>2, <1>5, <1>6, <1>7, CommitPreserves
LEMMA RenewCommitPreserves ==
  ASSUME WellFormed, NEW c \in Clerks, RenewCommit(c)
  PROVE  WellFormed'
<1> DEFINE i == tx[c].issue
<1>1. /\ i \in IssueIds /\ tx[c].due \in Nat
      /\ issue[i].st \notin {"NONE", "DELETED"}
  BY PlanFields DEF RenewCommit, Running, WellFormed, TypeOK, PlansStand, PlanStands
<1>2. /\ issue' = [issue EXCEPT ![i].due = tx[c].due, ![i].renewals = @ + 1]
      /\ Finish(c) /\ UNCHANGED <<copy, resv, fine, lost, present>>
  BY DEF RenewCommit
<1> HIDE DEF i
<1>3. TablesOK'
  BY <1>1, <1>2 DEF WellFormed, TypeOK, TablesOK, IssueRow, Finish
<1>4. \A j \in IssueIds : /\ issue'[j].copy = issue[j].copy
                          /\ issue'[j].member = issue[j].member
                          /\ issue'[j].st = issue[j].st
  BY <1>1, <1>2 DEF WellFormed, TypeOK, TablesOK, IssueRow
<1>5. KeysPresent' /\ ReportsStand' /\ RowsStay
  BY <1>2, <1>4 DEF WellFormed, TypeOK, TablesOK, KeysPresent, ReportsStand, RowsStay,
                    LostRow
<1>6. QED BY <1>2, <1>3, <1>5, CommitPreserves

LEMMA VoidCommitPreserves ==
  ASSUME WellFormed, NEW c \in Clerks, VoidCommit(c)
  PROVE  WellFormed'
<1> DEFINE i == tx[c].issue
           h == tx[c].hold
           k == tx[c].copy
<1>1. /\ i \in IssueIds /\ k \in Copies
      /\ h \in ResvIds \cup {NULL} /\ (h = NULL \/ resv[h].st # "NONE")
      /\ issue[i].st \notin {"NONE", "DELETED"}
      /\ \A r \in LostIds : lost[r].issue # i
  BY PlanFields DEF VoidCommit, Running, WellFormed, TypeOK, PlansStand, PlanStands
<1>2. /\ issue' = [issue EXCEPT ![i] = [NoIssue EXCEPT !.st = "DELETED"]]
      /\ resv' = IF h = NULL THEN resv ELSE [resv EXCEPT ![h].st = "READY"]
      /\ copy' = [copy EXCEPT ![k] = IF h = NULL THEN "AVAILABLE" ELSE "RESERVED_SHELF"]
      /\ fine' = [f \in FineIds |-> IF fine[f].issue = i
                                    THEN [fine[f] EXCEPT !.issue = NULL] ELSE fine[f]]
      /\ present' \subseteq present
      /\ Finish(c) /\ UNCHANGED lost
  BY DEF VoidCommit
<1> HIDE DEF i, h, k
<1>3. \A j \in IssueIds :
        issue'[j] = IF j = i THEN [NoIssue EXCEPT !.st = "DELETED"] ELSE issue[j]
  BY <1>1, <1>2 DEF WellFormed, TypeOK, TablesOK
<1>4. /\ [NoIssue EXCEPT !.st = "DELETED"] \in IssueRow
      /\ [NoIssue EXCEPT !.st = "DELETED"].st = "DELETED"
  BY DEF NoIssue, IssueRow
<1>5. fine' \in [FineIds -> FineRow]
  BY <1>2 DEF WellFormed, TypeOK, TablesOK, FineRow
<1>6. resv' \in [ResvIds -> ResvRow]
  <2>1. resv \in [ResvIds -> ResvRow]
    BY DEF WellFormed, TypeOK, TablesOK
  <2>2. h \in ResvIds => [resv[h] EXCEPT !.st = "READY"] \in ResvRow
    BY <2>1 DEF ResvRow
  <2>3. QED BY <1>1, <1>2, <2>1, <2>2
<1>7. TablesOK'
  BY <1>1, <1>2, <1>4, <1>5, <1>6
     DEF WellFormed, TypeOK, TablesOK, CopyStatus, Finish
<1>8. KeysPresent'
  BY <1>1, <1>2, <1>3, <1>4, <1>7, KeysStay DEF WellFormed, TypeOK, TablesOK, ResvRow
<1>9. ReportsStand' /\ RowsStay
  BY <1>1, <1>2, <1>3, <1>4
     DEF ReportsStand, RowsStay, WellFormed, TypeOK, TablesOK, ResvRow, LostRow
<1>10. QED BY <1>2, <1>7, <1>8, <1>9, CommitPreserves

LEMMA ReserveStepsPreserve ==
  ASSUME WellFormed, NEW c \in Clerks, ReserveQuota(c) \/ ReserveQueue(c)
  PROVE  WellFormed'
<1> USE DEF Tx, DeskTx, PlanStands
<1>1. CASE ReserveQuota(c)
  <2>1. /\ tx[c].title \in Titles /\ tx[c].member \in Members
        /\ tx[c] = [op |-> "reserveQuota", title |-> tx[c].title, member |-> tx[c].member]
    BY <1>1, PlanFields DEF ReserveQuota, Running, WellFormed, TypeOK
  <2>2. /\ tx' = [tx EXCEPT ![c].op = "reserveAllowed"]
        /\ UNCHANGED <<db, now>>
    BY <1>1 DEF ReserveQuota
  <2> DEFINE plan == [op |-> "reserveAllowed", title |-> tx[c].title,
                      member |-> tx[c].member]
  <2>3. [tx[c] EXCEPT !.op = "reserveAllowed"] = plan
    BY <2>1
  <2>4. tx' = [tx EXCEPT ![c] = plan]
    BY <2>2, <2>3 DEF WellFormed, TypeOK
  <2>5. QED BY <2>1, <2>2, <2>4, PlanPreserves
<1>2. CASE ReserveQueue(c)
  <2>1. tx[c].title \in Titles /\ tx[c].member \in Members
    BY <1>2, PlanFields DEF ReserveQueue, Running, WellFormed, TypeOK
  <2>2. LastPosition(tx[c].title) + 1 \in Nat
    BY LastPositionIsNat
  <2>3. QED BY <1>2, <2>1, <2>2, PlanPreserves DEF ReserveQueue
<1>3. QED BY <1>1, <1>2

LEMMA ReserveCommitPreserves ==
  ASSUME WellFormed, NEW c \in Clerks, ReserveCommit(c)
  PROVE  WellFormed'
<1> DEFINE row == [NoResv EXCEPT !.st = "PENDING", !.title = tx[c].title,
                                 !.member = tx[c].member, !.pos = tx[c].pos]
<1>1. tx[c].title \in Titles /\ tx[c].member \in Members /\ tx[c].pos \in Nat
  BY PlanFields DEF ReserveCommit, Running, WellFormed, TypeOK
<1>2. /\ row \in ResvRow /\ row.st = "PENDING"
      /\ row.title \in Titles /\ row.member \in Members
  BY <1>1 DEF ResvRow, NoResv
<1>3. /\ Room(resv) /\ resv' = Insert(resv, row)
      /\ Finish(c) /\ UNCHANGED <<copy, issue, fine, lost, present>>
  BY DEF ReserveCommit
<1> HIDE DEF row
<1>4. PICK n \in ResvIds : resv[n].st = "NONE" /\ resv' = [resv EXCEPT ![n] = row]
  BY <1>3, InsertFillsOne DEF WellFormed, TypeOK, TablesOK
<1>5. \A h \in ResvIds : resv'[h] = IF h = n THEN row ELSE resv[h]
  BY <1>4 DEF WellFormed, TypeOK, TablesOK
<1>6. TablesOK'
  BY <1>2, <1>3, <1>4 DEF WellFormed, TypeOK, TablesOK, Finish
<1>7. KeysPresent' /\ ReportsStand' /\ RowsStay
  BY <1>2, <1>3, <1>5 DEF WellFormed, TypeOK, TablesOK, KeysPresent, ReportsStand,
                          RowsStay
<1>8. QED BY <1>3, <1>6, <1>7, CommitPreserves

LEMMA CancelCommitPreserves ==
  ASSUME WellFormed, NEW c \in Clerks, CancelCommit(c)
  PROVE  WellFormed'
<1>1. /\ tx[c].hold \in ResvIds /\ tx[c].copy \in Copies \cup {NULL}
      /\ resv[tx[c].hold].st # "NONE"
  BY PlanFields DEF CancelCommit, Running, WellFormed, TypeOK, PlansStand, PlanStands
<1>2. /\ resv' = [resv EXCEPT ![tx[c].hold].st = "CANCELLED"]
      /\ copy' = IF tx[c].copy = NULL THEN copy
                 ELSE [copy EXCEPT ![tx[c].copy] = "AVAILABLE"]
      /\ Finish(c) /\ UNCHANGED <<issue, fine, lost, present>>
  BY DEF CancelCommit
<1>3. TablesOK'
  BY <1>1, <1>2 DEF WellFormed, TypeOK, TablesOK, ResvRow, CopyStatus, Finish
<1>4. \A h \in ResvIds : /\ resv'[h].title = resv[h].title
                         /\ resv'[h].member = resv[h].member
                         /\ resv[h].st = "NONE" <=> resv'[h].st = "NONE"
  BY <1>1, <1>2 DEF WellFormed, TypeOK, TablesOK, ResvRow
<1>5. KeysPresent' /\ ReportsStand' /\ RowsStay
  BY <1>2, <1>4 DEF WellFormed, TypeOK, TablesOK, KeysPresent, ReportsStand, RowsStay
<1>6. QED BY <1>2, <1>3, <1>5, CommitPreserves
LEMMA DeskStepPreserves ==
  ASSUME WellFormed, NEW c \in Clerks, DeskStep(c)
  PROVE  WellFormed'
<1>1. CASE IssueEvaluate(c)
  <2> DEFINE m == tx[c].member
             due == tx[c].at + Policy[m].issueDays
  <2>1. tx[c].copy \in Copies /\ m \in Members /\ tx[c].at \in Nat
    BY <1>1, PlanFields DEF IssueEvaluate, Running, WellFormed, TypeOK
  <2>2. PICK h \in HoldToCollect(tx[c].copy, m, tx[c].read) :
          tx' = [tx EXCEPT ![c] = [op |-> "issueGranted", copy |-> tx[c].copy,
                                   member |-> m, hold |-> h, due |-> due]]
    BY <1>1 DEF IssueEvaluate
  <2>3. h = NULL \/ (h \in ResvIds /\ resv[h].st = "READY")
    BY DEF HoldToCollect, ReadyOn
  <2>4. due \in Nat
    BY <2>1, PolicyAssumption DEF PolicyRow, WellFormed, TypeOK, TablesOK
  <2>5. UNCHANGED <<db, now>>
    BY <1>1 DEF IssueEvaluate
  <2> HIDE DEF m, due
  <2>6. QED BY <2>1, <2>2, <2>3, <2>4, <2>5, PlanPreserves DEF Tx, DeskTx, PlanStands
<1>2. QED BY <1>1, IssueCommitPreserves, ReturnCommitPreserves, RenewCommitPreserves,
             VoidCommitPreserves, ReserveStepsPreserve, ReserveCommitPreserves,
             CancelCommitPreserves DEF DeskStep

----------------------------------------------------------------------------
(* The fines counter: only fines change.                                    *)

LEMMA FinesOnlyPreserve ==
  ASSUME WellFormed, NEW c \in Clerks, Finish(c), fine' \in [FineIds -> FineRow],
         UNCHANGED <<copy, issue, resv, lost, present>>
  PROVE  WellFormed'
<1>1. TablesOK' /\ KeysPresent' /\ ReportsStand' /\ RowsStay
  BY DEF WellFormed, TypeOK, TablesOK, KeysPresent, ReportsStand, RowsStay, Finish
<1>2. QED BY <1>1, CommitPreserves

LEMMA FinesStartPreserves ==
  ASSUME WellFormed, NEW c \in Clerks, FinesStart(c)
  PROVE  WellFormed'
<1> PICK f \in FineIds : PayRead(c, f) \/ WaiveRead(c, f)
  BY DEF FinesStart
<1>1. fine[f].amount \in Nat /\ fine[f].paid \in Int /\ fine[f].waived \in Int
  BY DEF WellFormed, TypeOK, TablesOK, FineRow
<1>2. CASE PayRead(c, f)
  BY <1>1, <1>2, BeginPreserves DEF PayRead, Tx, FinesTx, PlanStands
<1>3. CASE WaiveRead(c, f)
  BY <1>1, <1>3, BeginPreserves DEF WaiveRead, Unpaid, Tx, FinesTx, PlanStands
<1>4. QED BY <1>2, <1>3

LEMMA FinesStepPreserves ==
  ASSUME WellFormed, NEW c \in Clerks, FinesStep(c)
  PROVE  WellFormed'
<1>1. tx[c].op = "pay" => tx[c].fine \in FineIds /\ tx[c].paid \in Int
  BY PlanFields DEF WellFormed, TypeOK
<1>2. tx[c].op = "waive" => tx[c].fine \in FineIds /\ tx[c].waived \in Int
  BY PlanFields DEF WellFormed, TypeOK
<1>3. fine' \in [FineIds -> FineRow]
  BY <1>1, <1>2 DEF FinesStep, PayCommit, WaiveCommit, Running, WellFormed, TypeOK,
                    TablesOK, FineRow
<1>4. QED BY <1>3, FinesOnlyPreserve DEF FinesStep, PayCommit, WaiveCommit

----------------------------------------------------------------------------
(* The lost-book flow.                                                      *)

LEMMA LostStartPreserves ==
  ASSUME WellFormed, NEW c \in Clerks, LostStart(c)
  PROVE  WellFormed'
<1> USE DEF Tx, LostTx, PlanStands
<1>1. ASSUME NEW k \in Copies, ReportLostRead(c, k) \/ SelfReportLostRead(c, k)
      PROVE  WellFormed'
  <2>1. PICK i \in ActiveIssues(k), op \in {"reportLost", "selfReportLost"} :
          Begin(c, op, [op |-> op, copy |-> k, issue |-> i, late |-> LateCharge(i, now)])
    BY <1>1 DEF ReportLostRead, SelfReportLostRead
  <2>2. i \in IssueIds /\ issue[i].st = "ACTIVE" /\ issue[i].member \in Members
    BY DEF ActiveIssues, WellFormed, KeysPresent
  <2>3. LateCharge(i, now) \in Nat /\ now \in Nat
    BY <2>2, LateChargeIsNat DEF WellFormed, TypeOK, TablesOK
  <2>4. QED BY <2>1, <2>2, <2>3, BeginPreserves
<1>2. CASE \E k \in Copies : ReportMissingRead(c, k)
  BY <1>2, BeginPreserves DEF ReportMissingRead
<1>3. ASSUME NEW r \in LostIds, ConfirmLostRead(c, r) \/ RejectLostRead(c, r)
      PROVE  WellFormed'
  <2>1. lost[r].frozen \in Nat /\ lost[r].issue # NULL
    BY <1>3 DEF ConfirmLostRead, RejectLostRead, AwaitsLibrarian, WellFormed, TypeOK,
                TablesOK, LostRow, ReportsStand
  <2>2. QED BY <1>3, <2>1, BeginPreserves
            DEF ConfirmLostRead, RejectLostRead, LateWhenReported
<1>4. ASSUME NEW r \in LostIds, NEW op \in SettleOps, SettleRead(c, r, op)
      PROVE  WellFormed'
  <2> DEFINE open == OpenFinesOn(lost[r].issue)
             owed == [f \in FineIds |-> IF f \in open
                        THEN fine[f].amount - fine[f].paid ELSE 0]
  <2>1. open \subseteq FineIds
    BY DEF OpenFinesOn
  <2>2. owed \in [FineIds -> Int]
    BY DEF WellFormed, TypeOK, TablesOK, FineRow
  <2>3. Begin(c, op, [op |-> op, report |-> r, open |-> open, owed |-> owed])
    BY <1>4 DEF SettleRead
  <2> HIDE DEF open, owed
  <2>4. QED BY <2>1, <2>2, <2>3, BeginPreserves DEF SettleOps
<1>5. ASSUME NEW r \in LostIds, NEW o \in {"REFUND_OWED", "FAMILY_KEEPS"},
             TurnedUpRead(c, r, o)
      PROVE  WellFormed'
  BY <1>5, BeginPreserves DEF TurnedUpRead
<1>6. CASE \E r \in LostIds : MarkRefundedRead(c, r)
  BY <1>6, BeginPreserves DEF MarkRefundedRead
<1>7. QED BY <1>1, <1>2, <1>3, <1>4, <1>5, <1>6 DEF LostStart
\* The commit of both ways to report a book that was out on loan.
LEMMA LoseIssuePreserves ==
  ASSUME WellFormed, NEW c \in Clerks, NEW i \in IssueIds, NEW k \in Copies,
         NEW report \in LostRow, LoseIssue(i, k, report), Finish(c),
         issue[i].st # "NONE", report.issue = i, report.st \in {"CONFIRMED", "REPORTED"},
         fine' \in [FineIds -> FineRow], UNCHANGED <<resv, present>>
  PROVE  WellFormed'
<1>1. /\ issue[i].st \notin {"NONE", "DELETED"}
      /\ issue' = [issue EXCEPT ![i].st = "LOST"]
      /\ copy' = [copy EXCEPT ![k] = "LOST"]
  BY DEF LoseIssue, RetireCopy
<1>2. PICK n \in LostIds : lost[n].st = "NONE" /\ lost' = [lost EXCEPT ![n] = report]
  BY InsertFillsOne DEF LoseIssue, WellFormed, TypeOK, TablesOK
<1>3. issue' \in [IssueIds -> IssueRow]
  BY <1>1 DEF WellFormed, TypeOK, TablesOK, IssueRow
<1>4. TablesOK'
  BY <1>1, <1>2, <1>3 DEF WellFormed, TypeOK, TablesOK, CopyStatus, Finish
<1>5. \A j \in IssueIds : /\ issue'[j].copy = issue[j].copy
                          /\ issue'[j].member = issue[j].member
                          /\ issue'[j].st = IF j = i THEN "LOST" ELSE issue[j].st
                          /\ issue[j].st = "NONE" => issue'[j] = issue[j]
  BY <1>1 DEF WellFormed, TypeOK, TablesOK, IssueRow
<1>6. KeysPresent'
  BY <1>1, <1>4, <1>5, KeysStay
<1>7. \A r \in LostIds : lost'[r] = IF r = n THEN report ELSE lost[r]
  BY <1>2 DEF WellFormed, TypeOK, TablesOK
<1>8. \A r \in LostIds : lost[r].issue \in IssueIds \cup {NULL}
  BY DEF WellFormed, TypeOK, TablesOK, LostRow
<1>9. ReportsStand' /\ RowsStay
  BY <1>1, <1>2, <1>5, <1>7, <1>8, NullAssumption DEF ReportsStand, RowsStay, WellFormed
<1>10. QED BY <1>4, <1>6, <1>9, CommitPreserves

\* A report that is acted on keeps its issue and is not reported a second time.
LEMMA ReportActedOn ==
  ASSUME WellFormed, NEW c \in Clerks, Finish(c), NEW r \in LostIds, NEW row \in LostRow,
         lost' = [lost EXCEPT ![r] = row], row.issue = lost[r].issue,
         row.st = lost[r].st \/ row.st \notin {"NONE", "REPORTED"},
         copy' \in [Copies -> CopyStatus], fine' \in [FineIds -> FineRow],
         UNCHANGED <<issue, resv, present>>
  PROVE  WellFormed'
<1>1. TablesOK' /\ KeysPresent' /\ ReportsStand' /\ RowsStay
  BY DEF WellFormed, TypeOK, TablesOK, KeysPresent, ReportsStand, RowsStay, Finish
<1>2. QED BY <1>1, CommitPreserves

LEMMA FinesWrittenType ==
  ASSUME WellFormed, NEW c \in Clerks, tx[c].op \in SettleOps, NEW kinds
  PROVE  /\ PayFines(tx[c].open) => fine' \in [FineIds -> FineRow]
         /\ WaiveFines(tx[c].open, tx[c].owed, kinds) => fine' \in [FineIds -> FineRow]
<1>1. tx[c].owed \in [FineIds -> Int]
  BY PlanFields DEF WellFormed, TypeOK
<1>2. fine \in [FineIds -> FineRow]
  BY DEF WellFormed, TypeOK, TablesOK
<1>3. \A f \in FineIds :
        [fine[f] EXCEPT !.st = "PAID", !.paid = fine[f].amount, !.taken = @ + 1] \in FineRow
  <2> TAKE f \in FineIds
  <2>1. fine[f] \in FineRow
    BY <1>2
  <2>2. fine[f].amount \in Int /\ fine[f].taken + 1 \in Nat
    BY <2>1 DEF FineRow
  <2>3. QED BY <2>1, <2>2 DEF FineRow
<1>4. \A f \in FineIds :
        [fine[f] EXCEPT !.st = "WAIVED", !.waived = tx[c].owed[f]] \in FineRow
  BY <1>1, <1>2 DEF FineRow
<1>5. PayFines(tx[c].open) => fine' \in [FineIds -> FineRow]
  BY <1>2, <1>3 DEF PayFines
<1>6. WaiveFines(tx[c].open, tx[c].owed, kinds) => fine' \in [FineIds -> FineRow]
  BY <1>2, <1>4 DEF WaiveFines
<1>7. QED BY <1>5, <1>6

LEMMA ReportingPreserves ==
  ASSUME WellFormed, NEW c \in Clerks,
         ReportLostCommit(c) \/ SelfReportLostCommit(c) \/ ReportMissingCommit(c)
  PROVE  WellFormed'
<1>1. tx[c].op \in {"reportLost", "selfReportLost"} =>
        /\ tx[c].copy \in Copies /\ tx[c].issue \in IssueIds /\ tx[c].late \in Nat
        /\ issue[tx[c].issue].st # "NONE"
  BY PlanFields DEF WellFormed, TypeOK, PlansStand, PlanStands
<1>2. CASE ReportLostCommit(c)
  <2> DEFINE report == [NoLost EXCEPT !.st = "CONFIRMED", !.copy = tx[c].copy,
                                      !.issue = tx[c].issue, !.frozen = tx[c].late]
  <2>1. tx[c].op = "reportLost" /\ LoseIssue(tx[c].issue, tx[c].copy, report)
    BY <1>2 DEF ReportLostCommit, Running
  <2>2. fine' \in [FineIds -> FineRow]
    BY <1>1, <1>2, <2>1, ChargeLossType DEF ReportLostCommit
  <2>3. report \in LostRow /\ report.st = "CONFIRMED" /\ report.issue = tx[c].issue
    BY <1>1, <2>1 DEF LostRow, NoLost
  <2>4. Finish(c) /\ UNCHANGED <<resv, present>>
    BY <1>2 DEF ReportLostCommit
  <2> HIDE DEF report
  <2>5. QED BY <1>1, <2>1, <2>2, <2>3, <2>4, LoseIssuePreserves
<1>3. CASE SelfReportLostCommit(c)
  <2> DEFINE report == [NoLost EXCEPT !.st = "REPORTED", !.copy = tx[c].copy,
                                      !.self = TRUE, !.issue = tx[c].issue,
                                      !.frozen = tx[c].late]
  <2>1. tx[c].op = "selfReportLost" /\ LoseIssue(tx[c].issue, tx[c].copy, report)
    BY <1>3 DEF SelfReportLostCommit, Running
  <2>2. fine' \in [FineIds -> FineRow]
    BY <1>3 DEF SelfReportLostCommit, WellFormed, TypeOK, TablesOK
  <2>3. report \in LostRow /\ report.st = "REPORTED" /\ report.issue = tx[c].issue
    BY <1>1, <2>1 DEF LostRow, NoLost
  <2>4. Finish(c) /\ UNCHANGED <<resv, present>>
    BY <1>3 DEF SelfReportLostCommit
  <2> HIDE DEF report
  <2>5. QED BY <1>1, <2>1, <2>2, <2>3, <2>4, LoseIssuePreserves
<1>4. CASE ReportMissingCommit(c)
  <2> DEFINE report == [NoLost EXCEPT !.st = "CONFIRMED", !.copy = tx[c].copy]
  <2>1. tx[c].copy \in Copies
    BY <1>4, PlanFields DEF ReportMissingCommit, Running, WellFormed, TypeOK
  <2>2. /\ Room(lost) /\ lost' = Insert(lost, report)
        /\ copy' = [copy EXCEPT ![tx[c].copy] = "LOST"]
        /\ Finish(c) /\ UNCHANGED <<issue, resv, fine, present>>
    BY <1>4 DEF ReportMissingCommit, RetireCopy
  <2>3. report \in LostRow /\ report.st = "CONFIRMED" /\ report.issue = NULL
    BY <2>1 DEF LostRow, NoLost
  <2> HIDE DEF report
  <2>4. PICK n \in LostIds : lost[n].st = "NONE" /\ lost' = [lost EXCEPT ![n] = report]
    BY <2>2, InsertFillsOne DEF WellFormed, TypeOK, TablesOK
  <2>5. lost[n].issue = NULL
    BY <2>4 DEF WellFormed, ReportsStand
  <2>6. copy' \in [Copies -> CopyStatus] /\ fine' \in [FineIds -> FineRow]
    BY <2>2 DEF WellFormed, TypeOK, TablesOK, CopyStatus
  <2>7. QED BY <2>2, <2>3, <2>4, <2>5, <2>6, ReportActedOn
<1>5. QED BY <1>2, <1>3, <1>4

LEMMA RejectLostPreserves ==
  ASSUME WellFormed, NEW c \in Clerks, RejectLostCommit(c)
  PROVE  WellFormed'
<1> DEFINE r == tx[c].report
           i == lost[r].issue
<1>1. r \in LostIds /\ i \in IssueIds /\ issue[i].st \in {"ACTIVE", "RETURNED", "LOST"}
  <2>1. r \in LostIds /\ i # NULL
    BY PlanFields DEF RejectLostCommit, Running, WellFormed, TypeOK, PlansStand, PlanStands
  <2>2. i \in IssueIds
    BY <2>1 DEF WellFormed, TypeOK, TablesOK, LostRow
  <2>3. QED BY <2>1, <2>2 DEF WellFormed, ReportsStand
<1>2. /\ issue' = [issue EXCEPT ![i].st = "ACTIVE"]
      /\ copy' = [copy EXCEPT ![lost[r].copy] = "ISSUED"]
      /\ lost' = [lost EXCEPT ![r].st = "REJECTED"]
      /\ Finish(c) /\ UNCHANGED <<resv, fine, present>>
  BY DEF RejectLostCommit
<1> HIDE DEF r, i
<1>3. /\ issue' \in [IssueIds -> IssueRow]
      /\ lost' \in [LostIds -> LostRow]
  <2>1. issue' \in [IssueIds -> IssueRow]
    BY <1>1, <1>2 DEF WellFormed, TypeOK, TablesOK, IssueRow
  <2>2. lost' \in [LostIds -> LostRow]
    BY <1>1, <1>2, SMTT(20) DEF WellFormed, TypeOK, TablesOK, LostRow
  <2>3. QED BY <2>1, <2>2
<1>4. TablesOK'
  BY <1>1, <1>2, <1>3 DEF WellFormed, TypeOK, TablesOK, CopyStatus, Finish
<1>5. \A j \in IssueIds : /\ issue'[j].copy = issue[j].copy
                          /\ issue'[j].member = issue[j].member
                          /\ issue'[j].st = IF j = i THEN "ACTIVE" ELSE issue[j].st
                          /\ issue[j].st = "NONE" => issue'[j] = issue[j]
  BY <1>1, <1>2 DEF WellFormed, TypeOK, TablesOK, IssueRow
<1>6. KeysPresent'
  BY <1>1, <1>2, <1>4, <1>5, KeysStay
<1>7. \A x \in LostIds : /\ lost[x].issue \in IssueIds \cup {NULL}
                         /\ lost'[x].issue = lost[x].issue
                         /\ lost'[x].st = IF x = r THEN "REJECTED" ELSE lost[x].st
  BY <1>1, <1>2 DEF WellFormed, TypeOK, TablesOK, LostRow
<1>8. ReportsStand' /\ RowsStay
  BY <1>1, <1>2, <1>5, <1>7 DEF ReportsStand, RowsStay, WellFormed
<1>9. QED BY <1>2, <1>4, <1>6, <1>8, CommitPreserves
\* Confirming, settling, and what follows a settlement: one report is written.
LEMMA ConfirmLostPreserves ==
  ASSUME WellFormed, NEW c \in Clerks, ConfirmLostCommit(c)
  PROVE  WellFormed'
<1> DEFINE r == tx[c].report
           row == [lost[r] EXCEPT !.st = "CONFIRMED"]
<1>1. r \in LostIds /\ tx[c].late \in Nat /\ lost[r].issue # NULL
  BY PlanFields DEF ConfirmLostCommit, Running, WellFormed, TypeOK, PlansStand, PlanStands
<1>2. lost[r].issue \in IssueIds
  BY <1>1 DEF WellFormed, TypeOK, TablesOK, LostRow
<1>3. fine' \in [FineIds -> FineRow]
  BY <1>1, <1>2, ChargeLossType DEF ConfirmLostCommit
<1>4. lost' = [lost EXCEPT ![r] = row] /\ Finish(c) /\ UNCHANGED <<copy, issue, resv, present>>
  BY DEF ConfirmLostCommit
<1>5. row \in LostRow /\ row.st = "CONFIRMED" /\ row.issue = lost[r].issue
  BY <1>1 DEF WellFormed, TypeOK, TablesOK, LostRow
<1>6. copy' \in [Copies -> CopyStatus]
  BY <1>4 DEF WellFormed, TypeOK, TablesOK
<1> HIDE DEF r, row
<1>7. QED BY <1>1, <1>3, <1>4, <1>5, <1>6, ReportActedOn

LEMMA SettlementPreserves ==
  ASSUME WellFormed, NEW c \in Clerks,
         PayLostCommit(c) \/ WriteOffLostCommit(c) \/ ReplaceInKindCommit(c)
           \/ FoundLostCommit(c)
  PROVE  WellFormed'
<1> DEFINE r == tx[c].report
<1>1. PICK next \in {"SETTLED_PAID", "WRITTEN_OFF", "SETTLED_IN_KIND", "FOUND"} :
        Claim(r, next)
  BY DEF PayLostCommit, WriteOffLostCommit, ReplaceInKindCommit, FoundLostCommit
<1>2. tx[c].op \in SettleOps
  BY DEF PayLostCommit, WriteOffLostCommit, ReplaceInKindCommit, FoundLostCommit,
         Running, SettleOps
<1>3. r \in LostIds
  BY <1>2, PlanFields DEF WellFormed, TypeOK
<1>4. Finish(c) /\ UNCHANGED <<issue, resv, present>>
  BY DEF PayLostCommit, WriteOffLostCommit, ReplaceInKindCommit, FoundLostCommit
<1>5. fine' \in [FineIds -> FineRow]
  BY <1>2, FinesWrittenType
     DEF PayLostCommit, WriteOffLostCommit, ReplaceInKindCommit, FoundLostCommit
<1>6. copy' \in [Copies -> CopyStatus]
  BY DEF PayLostCommit, WriteOffLostCommit, ReplaceInKindCommit, FoundLostCommit,
         WellFormed, TypeOK, TablesOK, CopyStatus
<1> DEFINE row == [lost[r] EXCEPT !.st = next]
<1>7. lost' = [lost EXCEPT ![r] = row]
  BY <1>1 DEF Claim
<1>8. row \in LostRow /\ row.st = next /\ row.issue = lost[r].issue
  BY <1>3 DEF WellFormed, TypeOK, TablesOK, LostRow
<1> HIDE DEF r, row
<1>9. QED BY <1>3, <1>4, <1>5, <1>6, <1>7, <1>8, ReportActedOn

LEMMA AfterPaymentPreserves ==
  ASSUME WellFormed, NEW c \in Clerks, TurnedUpCommit(c) \/ MarkRefundedCommit(c)
  PROVE  WellFormed'
<1> DEFINE r == tx[c].report
<1>1. /\ r \in LostIds
      /\ tx[c].op = "turnedUp" => tx[c].refund \subseteq FineIds
  BY PlanFields DEF TurnedUpCommit, MarkRefundedCommit, Running, WellFormed, TypeOK
<1>2. lost[r] \in LostRow
  BY <1>1 DEF WellFormed, TypeOK, TablesOK
<1>3. /\ copy' \in [Copies -> CopyStatus] /\ fine' \in [FineIds -> FineRow]
      /\ Finish(c) /\ UNCHANGED <<issue, resv, fine, present>>
  BY DEF TurnedUpCommit, MarkRefundedCommit, WellFormed, TypeOK, TablesOK, CopyStatus
<1> DEFINE keep == [lost[r] EXCEPT !.turnedUp = "FAMILY_KEEPS"]
           owe == [lost[r] EXCEPT !.turnedUp = "REFUND_OWED", !.refund = tx[c].refund]
           give == [lost[r] EXCEPT !.refunded = TRUE]
<1>4. \/ lost' = [lost EXCEPT ![r] = keep]
      \/ lost' = [lost EXCEPT ![r] = owe] /\ tx[c].op = "turnedUp"
      \/ lost' = [lost EXCEPT ![r] = give]
  BY <1>1 DEF TurnedUpCommit, MarkRefundedCommit, Running, WellFormed, TypeOK, TablesOK
<1>5. keep \in LostRow /\ keep.st = lost[r].st /\ keep.issue = lost[r].issue
  BY <1>2 DEF LostRow
<1>6. tx[c].op = "turnedUp"
        => owe \in LostRow /\ owe.st = lost[r].st /\ owe.issue = lost[r].issue
  BY <1>1, <1>2 DEF LostRow
<1>7. give \in LostRow /\ give.st = lost[r].st /\ give.issue = lost[r].issue
  BY <1>2 DEF LostRow
<1> HIDE DEF r, keep, owe, give
<1>8. QED BY <1>1, <1>3, <1>4, <1>5, <1>6, <1>7, ReportActedOn

----------------------------------------------------------------------------
(* Every step, and every behaviour.                                         *)

LEMMA NextPreserves ==
  ASSUME WellFormed, [Next]_vars
  PROVE  WellFormed'
<1>1. CASE \E c \in Clerks : DeskStart(c) \/ FinesStart(c) \/ LostStart(c)
  BY <1>1, DeskStartPreserves, FinesStartPreserves, LostStartPreserves
<1>2. ASSUME NEW c \in Clerks, DeskStep(c) \/ FinesStep(c) \/ LostStep(c)
      PROVE  WellFormed'
  BY <1>2, DeskStepPreserves, FinesStepPreserves, ReportingPreserves,
     ConfirmLostPreserves, RejectLostPreserves, SettlementPreserves,
     AfterPaymentPreserves DEF LostStep
<1>3. CASE \E c \in Clerks : Abort(c)
  BY <1>3, AbortPreserves
<1>4. CASE Tick \/ UNCHANGED vars
  BY <1>4, IdlePreserves DEF Tick, vars, db, WellFormed, TypeOK, TablesOK
<1>5. QED BY <1>1, <1>2, <1>3, <1>4 DEF Next

LEMMA InitWellFormed == InitDB => WellFormed
<1> SUFFICES ASSUME InitDB PROVE WellFormed
  OBVIOUS
<1>1. /\ NoIssue \in IssueRow /\ NoIssue.st = "NONE"
      /\ NoResv \in ResvRow /\ NoResv.st = "NONE"
      /\ NoFine \in FineRow
      /\ NoLost \in LostRow /\ NoLost.st = "NONE" /\ NoLost.issue = NULL
  BY DEF NoIssue, IssueRow, NoResv, ResvRow, NoFine, FineRow, NoLost, LostRow
<1>2. TablesOK /\ KeysPresent /\ ReportsStand
  BY <1>1 DEF InitDB, TablesOK, KeysPresent, ReportsStand, CopyStatus
<1>3. tx \in [Clerks -> Tx] /\ PlansStand
  BY DEF InitDB, Tx, PlansStand, PlanStands, Idle
<1>4. QED BY <1>2, <1>3 DEF WellFormed, TypeOK

\* Whatever requests interleave and roll back, every row holds values of its
\* columns' types, foreign keys point at rows that exist, and a request in
\* flight remembers rows that are there.
THEOREM AlwaysWellFormed == Spec => []WellFormed
<1>1. WellFormed /\ [Next]_vars => WellFormed'
  BY NextPreserves
<1>2. QED BY <1>1, InitWellFormed, PTL DEF Spec

\* Type correctness of the tables and of what requests remember.
THEOREM TypeCorrect == Spec => []TypeOK
<1>1. WellFormed => TypeOK
  BY DEF WellFormed
<1>2. QED BY <1>1, AlwaysWellFormed, PTL
----------------------------------------------------------------------------
(* What the groups of steps leave alone.                                    *)

\* Plans that were made under an advisory lock, by a step after the first.
LockedOps == {"issueGranted", "reserveAllowed", "reserveQueued"}

LEMMA StartsOnlyRead ==
  ASSUME NEW c \in Clerks, DeskStart(c) \/ FinesStart(c) \/ LostStart(c)
  PROVE  UNCHANGED <<db, now>>
BY DEF DeskStart, IssueRead, ReturnRead, RenewRead, VoidRead, ReserveRead,
       CancelRead, FinesStart, PayRead, WaiveRead, LostStart, ReportLostRead,
       SelfReportLostRead, ReportMissingRead, ConfirmLostRead, RejectLostRead,
       SettleRead, TurnedUpRead, MarkRefundedRead, Begin

\* A request that starts holds no lock yet.
LEMMA StartsUnlocked ==
  ASSUME WellFormed, NEW c \in Clerks, DeskStart(c) \/ FinesStart(c) \/ LostStart(c)
  PROVE  /\ tx'[c].op \notin LockedOps
         /\ \A d \in Clerks \ {c} : tx'[d] = tx[d]
<1>1. tx \in [Clerks -> Tx]
  BY DEF WellFormed, TypeOK
<1>2. CASE DeskStart(c)
  BY <1>1, <1>2 DEF DeskStart, IssueRead, ReturnRead, RenewRead, VoidRead, ReserveRead,
                    CancelRead, Begin, LockedOps
<1>3. CASE FinesStart(c)
  BY <1>1, <1>3 DEF FinesStart, PayRead, WaiveRead, Begin, LockedOps
<1>4. CASE LostStart(c)
  <2>1. \A op \in SettleOps : op \notin LockedOps
    BY DEF SettleOps, LockedOps
  <2>2. ASSUME NEW r \in LostIds, NEW op \in SettleOps, SettleRead(c, r, op)
        PROVE  tx'[c].op \notin LockedOps /\ \A d \in Clerks \ {c} : tx'[d] = tx[d]
    BY <1>1, <2>1, <2>2 DEF SettleRead, Begin
  <2>3. QED BY <1>1, <1>4, <2>2
            DEF LostStart, ReportLostRead, SelfReportLostRead, ReportMissingRead,
                ConfirmLostRead, RejectLostRead, TurnedUpRead, MarkRefundedRead, Begin,
                LockedOps
<1>5. QED BY <1>2, <1>3, <1>4

LEMMA DeskLeaves ==
  ASSUME NEW c \in Clerks, DeskStep(c)
  PROVE  UNCHANGED lost
BY DEF DeskStep, IssueEvaluate, IssueCommit, ReturnCommit, RenewCommit, VoidCommit,
       ReserveQuota, ReserveQueue, ReserveCommit, CancelCommit, db

LEMMA FinesLeave ==
  ASSUME NEW c \in Clerks, FinesStep(c)
  PROVE  Finish(c) /\ UNCHANGED <<copy, issue, resv, lost, present>>
BY DEF FinesStep, PayCommit, WaiveCommit

LEMMA LostLeaves ==
  ASSUME NEW c \in Clerks, LostStep(c)
  PROVE  Finish(c) /\ UNCHANGED <<resv, present>>
BY DEF LostStep, ReportLostCommit, SelfReportLostCommit, ReportMissingCommit,
       ConfirmLostCommit, RejectLostCommit, PayLostCommit, WriteOffLostCommit,
       ReplaceInKindCommit, FoundLostCommit, TurnedUpCommit, MarkRefundedCommit

\* The steps of createReservation go from its quota lock to its queue lock.
LEMMA ReservePlans ==
  ASSUME WellFormed, NEW c \in Clerks
  PROVE  /\ ReserveQuota(c) =>
              /\ tx'[c].op = "reserveAllowed" /\ tx[c].op = "reserveQuota"
              /\ tx'[c].title = tx[c].title /\ tx'[c].member = tx[c].member
         /\ ReserveQueue(c) =>
              /\ tx'[c].op = "reserveQueued" /\ tx[c].op = "reserveAllowed"
              /\ tx'[c].title = tx[c].title /\ tx'[c].member = tx[c].member
              /\ tx'[c].pos = LastPosition(tx[c].title) + 1
         /\ ReserveQuota(c) \/ ReserveQueue(c)
              => /\ tx[c].title \in Titles /\ tx[c].member \in Members
                 /\ UNCHANGED <<db, now>>
                 /\ \A d \in Clerks \ {c} : tx'[d] = tx[d]
<1>1. tx \in [Clerks -> Tx]
  BY DEF WellFormed, TypeOK
<1>2. ASSUME ReserveQuota(c)
      PROVE  /\ tx'[c].op = "reserveAllowed" /\ tx[c].op = "reserveQuota"
             /\ tx'[c].title = tx[c].title /\ tx'[c].member = tx[c].member
  <2>1. tx[c] = [op |-> "reserveQuota", title |-> tx[c].title, member |-> tx[c].member]
    BY <1>1, <1>2, PlanFields DEF ReserveQuota, Running
  <2>2. tx'[c] = [tx[c] EXCEPT !.op = "reserveAllowed"]
    BY <1>1, <1>2 DEF ReserveQuota
  <2>3. tx'[c] = [op |-> "reserveAllowed", title |-> tx[c].title, member |-> tx[c].member]
    BY <2>1, <2>2
  <2>4. tx[c].op = "reserveQuota"
    BY <1>2 DEF ReserveQuota, Running
  <2>5. QED BY <2>3, <2>4
<1>3. ASSUME ReserveQueue(c)
      PROVE  /\ tx'[c].op = "reserveQueued" /\ tx[c].op = "reserveAllowed"
             /\ tx'[c].title = tx[c].title /\ tx'[c].member = tx[c].member
             /\ tx'[c].pos = LastPosition(tx[c].title) + 1
  BY <1>1, <1>3 DEF ReserveQueue, Running
<1>4. ReserveQuota(c) \/ ReserveQueue(c)
        => tx[c].title \in Titles /\ tx[c].member \in Members
  BY <1>1, PlanFields DEF ReserveQuota, ReserveQueue, Running
<1>5. ReserveQuota(c) \/ ReserveQueue(c)
        => UNCHANGED <<db, now>> /\ \A d \in Clerks \ {c} : tx'[d] = tx[d]
  BY <1>1 DEF ReserveQuota, ReserveQueue
<1>6. QED BY <1>2, <1>3, <1>4, <1>5

\* A request that ends holds no lock any more.
LEMMA EndsUnlocked ==
  ASSUME WellFormed, NEW c \in Clerks, Finish(c)
  PROVE  tx'[c] = Idle /\ \A d \in Clerks \ {c} : tx'[d] = tx[d]
BY DEF WellFormed, TypeOK, Finish

\* What a request remembers changes when it starts, under a lock, or when it ends.
LEMMA RequestMoves ==
  ASSUME WellFormed, [Next]_vars, NEW c \in Clerks
  PROVE  \/ tx'[c] = tx[c]
         \/ tx'[c].op \in LockedOps \cup {"idle"}
         \/ DeskStart(c) \/ FinesStart(c) \/ LostStart(c)
<1>1. CASE UNCHANGED tx
  BY <1>1
<1>2. ASSUME NEW d \in Clerks, Finish(d)
      PROVE  tx'[c] = tx[c] \/ tx'[c].op \in LockedOps \cup {"idle"}
  BY <1>2, EndsUnlocked DEF Idle
<1>3. ASSUME NEW d \in Clerks, ReserveQuota(d) \/ ReserveQueue(d)
      PROVE  tx'[c] = tx[c] \/ tx'[c].op \in LockedOps \cup {"idle"}
  BY <1>3, ReservePlans DEF LockedOps
<1>4. ASSUME NEW d \in Clerks, IssueEvaluate(d)
      PROVE  tx'[c] = tx[c] \/ tx'[c].op \in LockedOps \cup {"idle"}
  BY <1>4 DEF IssueEvaluate, WellFormed, TypeOK, LockedOps
<1>5. ASSUME NEW d \in Clerks, DeskStart(d) \/ FinesStart(d) \/ LostStart(d)
      PROVE  d = c \/ tx'[c] = tx[c]
  BY <1>5, StartsUnlocked
<1>6. QED BY <1>1, <1>2, <1>3, <1>4, <1>5, FinesLeave, LostLeaves
          DEF Next, DeskStep, IssueCommit, ReturnCommit, RenewCommit, VoidCommit,
              ReserveCommit, CancelCommit, Tick, Abort, vars

\* A report once written keeps its issue for good.
ReportsKeepIssue ==
  \A r \in LostIds : lost[r].issue # NULL => lost'[r].issue = lost[r].issue

LEMMA KeepIssue ==
  ASSUME WellFormed, [Next]_vars
  PROVE  ReportsKeepIssue
<1> USE DEF ReportsKeepIssue
<1>1. ASSUME NEW c \in Clerks, NEW i, NEW k, NEW report, LoseIssue(i, k, report)
      PROVE  ReportsKeepIssue
  <2>1. PICK n \in LostIds : lost[n].st = "NONE" /\ lost' = [lost EXCEPT ![n] = report]
    BY <1>1, InsertFillsOne DEF LoseIssue, WellFormed, TypeOK, TablesOK
  <2>2. QED BY <2>1 DEF WellFormed, TypeOK, TablesOK, ReportsStand
<1>2. ASSUME NEW c \in Clerks, ReportMissingCommit(c) PROVE ReportsKeepIssue
  <2> DEFINE report == [NoLost EXCEPT !.st = "CONFIRMED", !.copy = tx[c].copy]
  <2>1. Room(lost) /\ lost' = Insert(lost, report)
    BY <1>2 DEF ReportMissingCommit
  <2> HIDE DEF report
  <2>2. PICK n \in LostIds : lost[n].st = "NONE" /\ lost' = [lost EXCEPT ![n] = report]
    BY <2>1, InsertFillsOne DEF WellFormed, TypeOK, TablesOK
  <2>3. QED BY <2>2 DEF WellFormed, TypeOK, TablesOK, ReportsStand
<1>3. ASSUME NEW c \in Clerks, LostStep(c) PROVE ReportsKeepIssue
  <2>1. CASE ReportLostCommit(c) \/ SelfReportLostCommit(c)
    BY <1>1, <2>1 DEF ReportLostCommit, SelfReportLostCommit
  <2>2. CASE ConfirmLostCommit(c) \/ RejectLostCommit(c)
    BY <2>2, SMTT(20) DEF ConfirmLostCommit, RejectLostCommit, WellFormed, TypeOK, TablesOK, LostRow
  <2>3. CASE \/ PayLostCommit(c) \/ WriteOffLostCommit(c)
             \/ ReplaceInKindCommit(c) \/ FoundLostCommit(c)
    BY <2>3 DEF PayLostCommit, WriteOffLostCommit, ReplaceInKindCommit, FoundLostCommit,
                Claim, WellFormed, TypeOK, TablesOK, LostRow
  <2>4. CASE TurnedUpCommit(c) \/ MarkRefundedCommit(c)
    BY <2>4 DEF TurnedUpCommit, MarkRefundedCommit, WellFormed, TypeOK, TablesOK, LostRow
  <2>5. QED BY <1>2, <1>3, <2>1, <2>2, <2>3, <2>4 DEF LostStep
<1>4. CASE UNCHANGED lost
  BY <1>4
<1>5. QED BY <1>3, <1>4, StartsOnlyRead, DeskLeaves, FinesLeave DEF Next, Tick, Abort, vars, db
============================================================================
