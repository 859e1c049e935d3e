-------------------------------- MODULE Desk --------------------------------
(***************************************************************************)
(* The circulation desk: issue, return, renew, undo an issue, place and    *)
(* cancel a reservation (library-core/circulation and the reservations     *)
(* service of library-api).                                                *)
(***************************************************************************)
EXTENDS LibraryDB, FiniteSetsExt

\* What an in-flight desk request remembers.  The controller reads the clock once,
\* before the transaction: `at`.
DeskTx ==
  [op : {"issueRead"}, copy : Copies, member : Members, read : CopyStatus, at : Nat]
  \cup [op : {"issueGranted"}, copy : Copies, member : Members,
        hold : ResvIds \cup {NULL}, due : Nat]
  \cup [op : {"return"}, copy : Copies, issue : IssueIds, late : Nat, at : Nat]
  \cup [op : {"renew"}, issue : IssueIds, due : Nat]
  \cup [op : {"void"}, copy : Copies, member : Members, issue : IssueIds,
        hold : ResvIds \cup {NULL}, alone : BOOLEAN]
  \cup [op : {"reserveQuota"}, title : Titles, member : Members]
  \cup [op : {"reserveAllowed"}, title : Titles, member : Members]
  \cup [op : {"reserveQueued"}, title : Titles, member : Members, pos : Nat]
  \cup [op : {"cancel"}, hold : ResvIds, copy : Copies \cup {NULL}]

\* Advisory locks are held from the step that takes them to the end of the
\* transaction: issue locks the member, createReservation first its quota
\* (`reservations:<member>`) and then the title's queue.
\* Mutants: the lock is not taken.
NoMemberLock(c, m) == FALSE
NoQuotaLock(c, m) == FALSE
NoQueueLock(c, t) == FALSE
HoldsMember(c, m) == tx[c].op = "issueGranted" /\ tx[c].member = m
HoldsQuota(c, m) == tx[c].op \in {"reserveAllowed", "reserveQueued"} /\ tx[c].member = m
HoldsQueue(c, t) == tx[c].op = "reserveQueued" /\ tx[c].title = t

----------------------------------------------------------------------------
(* issue                                                                    *)

OwedBy(m) ==
  MapThenSumSet(LAMBDA f : fine[f].amount - fine[f].paid,
                {f \in FineIds : fine[f].st = "OPEN" /\ fine[f].member = m})

\* Everything evaluateIssue asks of the member, before it looks at the copy.
MayBorrow(m, k) ==
  /\ m \notin Inactive
  /\ Cardinality(LoansOf(m)) < Policy[m].maxBooks
  /\ Policy[m].maxOutstandingFine # NULL => OwedBy(m) < Policy[m].maxOutstandingFine
  /\ HomeBranch[m] = BranchOf[k]

\* The copy row is read before the member lock is taken.
IssueRead(c, k, m) ==
  /\ copy[k] # "UNREGISTERED"
  /\ InScope(c, k)
  /\ Begin(c, "issue", [op |-> "issueRead", copy |-> k, member |-> m, read |-> copy[k],
                        at |-> now])

\* An AVAILABLE copy goes to anyone and collects no hold; one on the reservation
\* shelf goes only to the member it is held for.
HoldToCollect(k, m, read) ==
  CASE read = "AVAILABLE" -> {NULL}
    [] read = "RESERVED_SHELF" -> {h \in ReadyOn(k) : resv[h].member = m}
    [] OTHER -> {}

\* Lock the member, then count the loans and evaluate.
IssueEvaluate(c) ==
  /\ Running(c, "issueRead")
  /\ LET k == tx[c].copy
         m == tx[c].member
     IN /\ \A d \in Clerks : ~HoldsMember(d, m)
        /\ MayBorrow(m, k)
        /\ \E h \in HoldToCollect(k, m, tx[c].read) :
             tx' = [tx EXCEPT ![c] = [op |-> "issueGranted", copy |-> k, member |-> m,
                                      hold |-> h, due |-> tx[c].at + Policy[m].issueDays]]
  /\ UNCHANGED <<db, now>>

LastTurn(k) == Max({resv[h].turn : h \in {x \in ResvIds : resv[x].copy = k}} \cup {0})

IssueCommit(c) ==
  /\ Running(c, "issueGranted")
  /\ Room(issue)
  /\ LET k == tx[c].copy
         m == tx[c].member
         h == tx[c].hold
     IN /\ ~CopyIsIssued(k)
        /\ issue' = Insert(issue, [st |-> "ACTIVE", copy |-> k, member |-> m,
                                   due |-> tx[c].due, renewals |-> 0])
        /\ copy' = [copy EXCEPT ![k] = "ISSUED"]
        /\ resv' = IF h = NULL THEN resv
                   ELSE [resv EXCEPT ![h].st = "COLLECTED", ![h].turn = LastTurn(k) + 1]
        /\ present' = present \cup ({m} \cap InVisit)
  /\ Finish(c)
  /\ UNCHANGED <<fine, lost>>

----------------------------------------------------------------------------
(* return                                                                   *)

ReturnRead(c, k) ==
  /\ InScope(c, k)
  /\ \E i \in ActiveIssues(k) :
       Begin(c, "return", [op |-> "return", copy |-> k, issue |-> i,
                           late |-> LateCharge(i, now), at |-> now])

\* READY rows of the title whose shelf window has lapsed, and who waits next.
Lapsed(t, at) == {h \in ResvIds : /\ resv[h].st = "READY" /\ resv[h].title = t
                                  /\ resv[h].expires <= at}
\* Mutant: the queue is not ordered.
AnyInQueue(t) == PendingOn(t)
FirstInQueue(t) == {h \in PendingOn(t) : \A x \in PendingOn(t) : resv[h].pos <= resv[x].pos}

\* The row of a reservation promoted onto copy k; the mutant forgets readyCopyId.
PromotedNowhere(h, k, at) ==
  [resv[h] EXCEPT !.st = "READY",
                  !.expires = at + Policy[resv[h].member].reservedShelfDays]
Promoted(h, k, at) ==
  [resv[h] EXCEPT !.st = "READY", !.copy = k,
                  !.expires = at + Policy[resv[h].member].reservedShelfDays]

\* promoteOrRelease: lapsed holds expire and free their copies, then copy k goes
\* to the head of the queue or back on the shelf.
PromoteOrRelease(k, at) ==
  LET t == TitleOf[k]
      freed == {resv[h].copy : h \in Lapsed(t, at)}
  IN \E next \in IF PendingOn(t) = {} THEN {NULL} ELSE FirstInQueue(t) :
       /\ resv' = [h \in ResvIds |->
                     IF h \in Lapsed(t, at) THEN [resv[h] EXCEPT !.st = "EXPIRED"]
                     ELSE IF h = next THEN Promoted(h, k, at) ELSE resv[h]]
       /\ copy' = [x \in Copies |->
                     IF x = k THEN IF next = NULL THEN "AVAILABLE" ELSE "RESERVED_SHELF"
                     ELSE IF x \in freed THEN "AVAILABLE" ELSE copy[x]]

\* The issue is closed by id, whatever its status is by now; a row deleted by
\* an undo makes the update fail.
ReturnCommit(c) ==
  /\ Running(c, "return")
  /\ LET i == tx[c].issue
     IN /\ issue[i].st # "DELETED"
        /\ tx[c].late > 0 => Room(fine)
        /\ issue' = [issue EXCEPT ![i].st = "RETURNED"]
        /\ fine' = AddLateFine(fine, i, tx[c].late)
        /\ PromoteOrRelease(tx[c].copy, tx[c].at)
  /\ Finish(c)
  /\ UNCHANGED <<lost, present>>

----------------------------------------------------------------------------
(* renew                                                                    *)

RenewRead(c, k) ==
  /\ InScope(c, k)
  /\ PendingOn(TitleOf[k]) = {}
  /\ \E i \in ActiveIssues(k) :
       LET p == Policy[issue[i].member]
       IN /\ now <= issue[i].due
          /\ issue[i].renewals < p.renewLimit
          /\ Begin(c, "renew", [op |-> "renew", issue |-> i, due |-> now + p.renewDays])

RenewCommit(c) ==
  /\ Running(c, "renew")
  /\ LET i == tx[c].issue
     IN /\ issue[i].st # "DELETED"
        /\ issue' = [issue EXCEPT ![i].due = tx[c].due, ![i].renewals = @ + 1]
  /\ Finish(c)
  /\ UNCHANGED <<copy, resv, fine, lost, present>>

----------------------------------------------------------------------------
(* void: undo an issue that should never have happened                      *)

\* The COLLECTED reservation of this copy that was updated last, if any.
LastCollected(k) ==
  LET collected == {h \in ResvIds : resv[h].st = "COLLECTED" /\ resv[h].copy = k}
  IN {h \in collected : \A x \in collected : resv[x].turn <= resv[h].turn}

\* The member has no other open issue; the mutant counts the one being undone.
NoIssueAtAll(m, i) == LoansOf(m) = {}
NoOtherIssue(m, i) == LoansOf(m) \subseteq {i}

VoidRead(c, i) ==
  /\ issue[i].st = "ACTIVE"
  /\ \A f \in FineIds : fine[f].issue # i
  /\ \A r \in LostIds : lost[r].issue # i
  /\ LET k == issue[i].copy
         m == issue[i].member
     IN \E h \in IF LastCollected(k) = {} THEN {NULL} ELSE LastCollected(k) :
          Begin(c, "void", [op |-> "void", copy |-> k, member |-> m, issue |-> i,
                            hold |-> h, alone |-> NoOtherIssue(m, i)])

\* The row is deleted by id: a fine keeps a null issue, a lost report forbids it.
VoidCommit(c) ==
  /\ Running(c, "void")
  /\ LET i == tx[c].issue
         h == tx[c].hold
         m == tx[c].member
     IN /\ issue[i].st # "DELETED"
        /\ \A r \in LostIds : lost[r].issue # i
        /\ h # NULL => ~HoldsTitle(resv[h].member, resv[h].title, h)
        /\ resv' = IF h = NULL THEN resv ELSE [resv EXCEPT ![h].st = "READY"]
        /\ copy' = [copy EXCEPT ![tx[c].copy] =
                      IF h = NULL THEN "AVAILABLE" ELSE "RESERVED_SHELF"]
        /\ present' = IF tx[c].alone THEN present \ {m} ELSE present
        /\ issue' = [issue EXCEPT ![i] = [NoIssue EXCEPT !.st = "DELETED"]]
        /\ fine' = [f \in FineIds |-> IF fine[f].issue = i
                                      THEN [fine[f] EXCEPT !.issue = NULL] ELSE fine[f]]
  /\ Finish(c)
  /\ UNCHANGED lost

----------------------------------------------------------------------------
(* createReservation and cancelReservation                                  *)

ReserveRead(c, m, t) ==
  Begin(c, "reserve", [op |-> "reserveQuota", title |-> t, member |-> m])

\* assertQuota: lock, then count this member's open reservations.
ReserveQuota(c) ==
  /\ Running(c, "reserveQuota")
  /\ LET m == tx[c].member
     IN /\ \A d \in Clerks : ~HoldsQuota(d, m)
        /\ Cardinality(OpenReservationsOf(m)) < Policy[m].maxReservations
        /\ tx' = [tx EXCEPT ![c].op = "reserveAllowed"]
  /\ UNCHANGED <<db, now>>

\* MAX(queuePosition) runs over every row the title ever had.
LastPosition(t) == Max({resv[h].pos : h \in {x \in ResvIds : resv[x].title = t}} \cup {0})

ReserveQueue(c) ==
  /\ Running(c, "reserveAllowed")
  /\ LET t == tx[c].title
     IN /\ \A d \in Clerks : ~HoldsQueue(d, t)
        /\ tx' = [tx EXCEPT ![c] = [op |-> "reserveQueued", title |-> t,
                                    member |-> tx[c].member, pos |-> LastPosition(t) + 1]]
  /\ UNCHANGED <<db, now>>

ReserveCommit(c) ==
  /\ Running(c, "reserveQueued")
  /\ Room(resv)
  /\ LET m == tx[c].member
         t == tx[c].title
     IN /\ ~HoldsTitle(m, t, NULL)
        /\ resv' = Insert(resv, [NoResv EXCEPT !.st = "PENDING", !.title = t,
                                               !.member = m, !.pos = tx[c].pos])
  /\ Finish(c)
  /\ UNCHANGED <<copy, issue, fine, lost, present>>

\* The copy to release is decided by the status that was read.
CancelRead(c, h) ==
  /\ resv[h].st \in {"PENDING", "READY"}
  /\ resv[h].copy # NULL => InScope(c, resv[h].copy)
  /\ Begin(c, "cancel", [op |-> "cancel", hold |-> h,
                         copy |-> IF resv[h].st = "READY" THEN resv[h].copy ELSE NULL])

CancelCommit(c) ==
  /\ Running(c, "cancel")
  /\ resv' = [resv EXCEPT ![tx[c].hold].st = "CANCELLED"]
  /\ copy' = IF tx[c].copy = NULL THEN copy ELSE [copy EXCEPT ![tx[c].copy] = "AVAILABLE"]
  /\ Finish(c)
  /\ UNCHANGED <<issue, fine, lost, present>>

----------------------------------------------------------------------------
DeskStart(c) ==
  \/ \E k \in Copies, m \in Members : IssueRead(c, k, m)
  \/ \E k \in Copies : ReturnRead(c, k)
  \/ \E k \in Copies : RenewRead(c, k)
  \/ \E i \in IssueIds : VoidRead(c, i)
  \/ \E m \in Members, t \in Titles : ReserveRead(c, m, t)
  \/ \E h \in ResvIds : CancelRead(c, h)

DeskStep(c) ==
  \/ IssueEvaluate(c) \/ IssueCommit(c)
  \/ ReturnCommit(c)
  \/ RenewCommit(c)
  \/ VoidCommit(c)
  \/ ReserveQuota(c) \/ ReserveQueue(c) \/ ReserveCommit(c)
  \/ CancelCommit(c)
============================================================================
