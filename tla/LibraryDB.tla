----------------------------- MODULE LibraryDB -----------------------------
(***************************************************************************)
(* The tables of the library service's circulation schema and the way its  *)
(* handlers use them.                                                      *)
(*                                                                         *)
(* Every handler is one READ COMMITTED transaction (withOrg).  Here it is  *)
(* one step that does the handler's plain reads and keeps what it read in  *)
(* tx[c], and one step that applies its writes and commits; handlers that  *)
(* take an advisory lock between two reads have a step per lock.  Writes   *)
(* by primary key, updateMany predicates, FOR UPDATE reads and unique      *)
(* indexes are evaluated in the commit step, because Postgres evaluates    *)
(* them on the current row under a row lock it keeps until COMMIT.         *)
(* Audit and notification rows are written and never read back by a       *)
(* handler; they are left out.                                             *)
(***************************************************************************)
EXTENDS Integers, FiniteSets

CONSTANTS
  Clerks,       \* callers with a request in flight: desks, consoles, phones
  Members, Titles, Copies, Branches,
  Registered,   \* the copies in the register at the start
  TitleOf,      \* the title an accession number is (or will be) filed under
  BranchOf, HomeBranch,  \* of a copy, of a member (NULL: none)
  Scope,        \* the branches a clerk may act for (with no limit set: all)
  Inactive,     \* members that are PENDING or SUSPENDED
  FineFree,     \* students of a school with chargeStudentFines off
  InVisit,      \* members whose class has an open library visit
  Policy,       \* the CirculationPolicy row of each member
  Prices,       \* replacement prices a librarian or the catalogue may give
  IssueIds, ResvIds, FineIds, LostIds,   \* bounded pools of row ids
  MaxDay,       \* bound on the clock
  Routes,       \* the routes in use
  NULL

VARIABLES copy, issue, resv, fine, lost, present, now, tx

db == <<copy, issue, resv, fine, lost, present>>
vars == <<copy, issue, resv, fine, lost, present, now, tx>>

PolicyRow == [maxBooks : Nat, issueDays : Nat, renewLimit : Nat, renewDays : Nat,
              finePerDay : Nat, graceDays : Nat, maxFine : Nat \cup {NULL},
              maxReservations : Nat, reservedShelfDays : Nat,
              maxOutstandingFine : Nat \cup {NULL}]

ASSUME PolicyAssumption == Policy \in [Members -> PolicyRow]
ASSUME PlacesAssumption ==
  /\ TitleOf \in [Copies -> Titles]
  /\ BranchOf \in [Copies -> Branches]
  /\ HomeBranch \in [Members -> Branches \cup {NULL}]
  /\ Scope \in [Clerks -> SUBSET Branches]
  /\ Registered \subseteq Copies
ASSUME NullAssumption ==
  /\ NULL \notin Nat \cup Copies \cup Members \cup Titles
  /\ NULL \notin IssueIds \cup ResvIds \cup LostIds \cup Branches
  /\ NULL \notin {"REFUND_OWED", "FAMILY_KEEPS"}
ASSUME NumbersAssumption == MaxDay \in Nat /\ Prices \subseteq Nat
ASSUME PoolsAssumption == IsFiniteSet(IssueIds) /\ IsFiniteSet(ResvIds)

----------------------------------------------------------------------------
(* Rows.  A row id that was never inserted holds the empty row; a deleted   *)
(* issue keeps its id, because a uuid is never given out twice.             *)

CopyStatus == {"UNREGISTERED", "AVAILABLE", "ISSUED", "RESERVED_SHELF", "LOST"}

IssueRow == [st : {"NONE", "ACTIVE", "RETURNED", "LOST", "DELETED"},
             copy : Copies \cup {NULL}, member : Members \cup {NULL},
             due : Nat, renewals : Nat]
NoIssue == [st |-> "NONE", copy |-> NULL, member |-> NULL, due |-> 0, renewals |-> 0]

\* `turn` orders the COLLECTED rows of one copy by updatedAt; 0 before collection.
ResvRow == [st : {"NONE", "PENDING", "READY", "COLLECTED", "EXPIRED", "CANCELLED"},
            title : Titles \cup {NULL}, member : Members \cup {NULL}, pos : Nat,
            copy : Copies \cup {NULL}, expires : Nat, turn : Nat]
NoResv == [st |-> "NONE", title |-> NULL, member |-> NULL, pos |-> 0,
           copy |-> NULL, expires |-> 0, turn |-> 0]

\* `taken` counts the payments recorded for the fine (its audit entries).
FineRow == [st : {"NONE", "OPEN", "PAID", "WAIVED"}, kind : {"OVERDUE", "LOST"},
            issue : IssueIds \cup {NULL}, member : Members \cup {NULL},
            amount : Nat, paid : Int, waived : Int, taken : Nat]
NoFine == [st |-> "NONE", kind |-> "OVERDUE", issue |-> NULL, member |-> NULL,
           amount |-> 0, paid |-> 0, waived |-> 0, taken |-> 0]

\* `refund` is the set of fines whose paid amounts make up refundOwedAmount.
LostRow == [st : {"NONE", "REPORTED", "CONFIRMED", "REJECTED", "SETTLED_PAID",
                  "SETTLED_IN_KIND", "WRITTEN_OFF", "FOUND"},
            copy : Copies \cup {NULL}, issue : IssueIds \cup {NULL}, self : BOOLEAN,
            frozen : Nat, turnedUp : {NULL, "REFUND_OWED", "FAMILY_KEEPS"},
            refund : SUBSET FineIds, refunded : BOOLEAN]
NoLost == [st |-> "NONE", copy |-> NULL, issue |-> NULL, self |-> FALSE, frozen |-> 0,
           turnedUp |-> NULL, refund |-> {}, refunded |-> FALSE]

TablesOK ==
  /\ copy \in [Copies -> CopyStatus]
  /\ issue \in [IssueIds -> IssueRow]
  /\ resv \in [ResvIds -> ResvRow]
  /\ fine \in [FineIds -> FineRow]
  /\ lost \in [LostIds -> LostRow]
  /\ present \in SUBSET Members
  /\ now \in Nat

Unborn(tbl) == {i \in DOMAIN tbl : tbl[i].st = "NONE"}
Room(tbl) == Unborn(tbl) # {}
NextId(tbl) == CHOOSE i \in Unborn(tbl) : TRUE
Insert(tbl, row) == [tbl EXCEPT ![NextId(tbl)] = row]

----------------------------------------------------------------------------
(* What the handlers ask the tables.                                        *)

ActiveIssues(k) == {i \in IssueIds : issue[i].st = "ACTIVE" /\ issue[i].copy = k}
LoansOf(m) == {i \in IssueIds : issue[i].st = "ACTIVE" /\ issue[i].member = m}
ReadyOn(k) == {h \in ResvIds : resv[h].st = "READY" /\ resv[h].copy = k}
PendingOn(t) == {h \in ResvIds : resv[h].st = "PENDING" /\ resv[h].title = t}
OpenReservationsOf(m) ==
  {h \in ResvIds : resv[h].st \in {"PENDING", "READY"} /\ resv[h].member = m}
OpenFinesOn(i) == {f \in FineIds : fine[f].st = "OPEN" /\ fine[f].issue = i}

\* Unique indexes; the one on reservations admits h itself.
CopyIsIssued(k) == ActiveIssues(k) # {}
HoldsTitle(m, t, h) == \E x \in OpenReservationsOf(m) \ {h} : resv[x].title = t
HasOpenReport(k) ==
  \E r \in LostIds : lost[r].copy = k /\ lost[r].st \in {"REPORTED", "CONFIRMED"}

InScope(c, k) == BranchOf[k] \in Scope[c]

\* computeFine: whole days past the grace period, capped; 0 where fines are off.
LateCharge(i, day) ==
  LET m == issue[i].member
      p == Policy[m]
      late == IF day > issue[i].due + p.graceDays
              THEN (day - (issue[i].due + p.graceDays)) * p.finePerDay ELSE 0
  IN IF m \in FineFree THEN 0
     ELSE IF p.maxFine # NULL /\ late > p.maxFine THEN p.maxFine ELSE late

\* Fine rows are raised OPEN; a zero late charge raises none.
FineFor(kind, i, amount) ==
  [st |-> "OPEN", kind |-> kind, issue |-> i, member |-> issue[i].member,
   amount |-> amount, paid |-> 0, waived |-> 0, taken |-> 0]
AddLateFine(tbl, i, amount) ==
  IF amount = 0 THEN tbl ELSE Insert(tbl, FineFor("OVERDUE", i, amount))

----------------------------------------------------------------------------
(* Transactions.                                                            *)

Idle == [op |-> "idle"]

InitDB ==
  /\ copy = [k \in Copies |-> IF k \in Registered THEN "AVAILABLE" ELSE "UNREGISTERED"]
  /\ issue = [i \in IssueIds |-> NoIssue]
  /\ resv = [h \in ResvIds |-> NoResv]
  /\ fine = [f \in FineIds |-> NoFine]
  /\ lost = [r \in LostIds |-> NoLost]
  /\ present = {}
  /\ now = 0
  /\ tx = [c \in Clerks |-> Idle]

\* The reads of a handler: the request starts and remembers what it read.
Begin(c, route, plan) ==
  /\ route \in Routes
  /\ tx[c] = Idle
  /\ tx' = [tx EXCEPT ![c] = plan]
  /\ UNCHANGED <<db, now>>

Running(c, op) == tx[c].op = op

\* COMMIT, which also releases the transaction's locks.
Finish(c) == tx' = [tx EXCEPT ![c] = Idle] /\ UNCHANGED now

\* ROLLBACK: a denial, a unique violation, a missing row, a deadlock victim,
\* the transaction timeout or a crash of the service.
Abort(c) == tx[c] # Idle /\ Finish(c) /\ UNCHANGED db

Tick == now < MaxDay /\ now' = now + 1 /\ UNCHANGED <<db, tx>>
============================================================================
