------------------------------ MODULE Library ------------------------------
(***************************************************************************)
(* The library service: the desk, the fines counter and the lost-book flow *)
(* over one set of tables.  With one clerk requests run one after the      *)
(* other; with several they interleave.                                    *)
(***************************************************************************)
EXTENDS Desk, Fines, LostBooks

Next ==
  \/ \E c \in Clerks : DeskStart(c) \/ FinesStart(c) \/ LostStart(c)
  \/ \E c \in Clerks : DeskStep(c) \/ FinesStep(c) \/ LostStep(c)
  \/ \E c \in Clerks : Abort(c)
  \/ Tick

Spec == InitDB /\ [][Next]_vars

\* What a request in flight may remember.
Tx == {Idle} \cup DeskTx \cup FinesTx \cup LostTx

\* Rows hold what their columns may hold, and a request remembers what its
\* handler reads.
TypeOK == TablesOK /\ tx \in [Clerks -> Tx]

----------------------------------------------------------------------------
(* Properties under any interleaving of requests.                           *)

ReportedIssues == {lost[r].issue : r \in LostIds} \ {NULL}

\* However many desks serve one member at once, the books issued to the member
\* stay within maxBooks (the member lock around evaluateIssue's count).  A
\* rejected lost report may reopen an issue on top of that, so an issue that was
\* ever reported lost does not count.
MemberWithinLimit ==
  \A m \in Members :
    Cardinality(LoansOf(m) \ ReportedIssues) <= Policy[m].maxBooks

\* The same for maxReservations and the quota lock of createReservation; a hold
\* that an undone issue put back on the shelf does not count.
ReservationsWithinQuota ==
  \A m \in Members :
    Cardinality({h \in OpenReservationsOf(m) : resv[h].turn = 0}) <= Policy[m].maxReservations

\* Nobody is overtaken: once a reservation has been given a copy, no earlier
\* one on the title is still waiting (the queue lock, MAX over every status and
\* promoteOrRelease's FOR UPDATE together).
NoQueueJumping ==
  \A h, x \in ResvIds :
    (resv[h].st = "PENDING" /\ resv[x].title = resv[h].title /\ resv[x].copy # NULL)
      => resv[x].pos < resv[h].pos

\* A position in the queue of a title is given out once, ever, so the history
\* of a title shows no duplicate.
PositionsUnique ==
  \A h, x \in ResvIds :
    (h # x /\ resv[h].title # NULL /\ resv[x].title = resv[h].title)
      => resv[x].pos # resv[h].pos

Settled == {"REJECTED", "SETTLED_PAID", "SETTLED_IN_KIND", "WRITTEN_OFF", "FOUND"}

\* A loss the desk reported is settled at most once, whoever else is settling
\* it at the time (the compare-and-swap of claimSettlement).
DeskLossSettledOnce ==
  [][\A r \in LostIds : (lost[r].st \in Settled /\ ~lost[r].self)
                           => lost'[r].st = lost[r].st]_vars

\* A fine whose issue was never reported lost is paid only at the fines counter,
\* and two clerks there never take the same payment twice (updateMany on status).
PaymentTakenOnce == \A f \in FineIds : fine[f].issue \notin ReportedIssues => fine[f].taken <= 1

----------------------------------------------------------------------------
(* Properties of requests that run one after the other, with rollbacks.     *)

\* A copy is ISSUED exactly while an issue of it is open, and RESERVED_SHELF
\* exactly while one reservation is READY on it.
ShelfConsistent ==
  \A k \in Copies :
    /\ copy[k] = "ISSUED" <=> Cardinality(ActiveIssues(k)) = 1
    /\ copy[k] = "RESERVED_SHELF" <=> Cardinality(ReadyOn(k)) = 1
    /\ Cardinality(ActiveIssues(k)) + Cardinality(ReadyOn(k)) <= 1

\* A copy with an open loss report is out of circulation.
LostCopyRetired == \A k \in Copies : HasOpenReport(k) => copy[k] = "LOST"

\* Lateness is charged once per issue, by the return, the desk's loss report or
\* the confirmation of the holder's report, whichever closes the issue.
LateChargedOnce ==
  \A f, g \in FineIds :
    (f # g /\ fine[f].kind = "OVERDUE" /\ fine[g].kind = "OVERDUE" /\ fine[f].issue # NULL)
      => fine[f].issue # fine[g].issue

\* A replacement charge exists only for a loss a librarian stood behind: some
\* report of the issue was confirmed, and it was not rejected.
NoMoneyForRejectedLoss ==
  \A f \in FineIds :
    (fine[f].st # "NONE" /\ fine[f].kind = "LOST")
      => \E r \in LostIds : /\ lost[r].issue = fine[f].issue
                            /\ lost[r].st \notin {"NONE", "REPORTED", "REJECTED"}

\* Owning up stops the clock: the late charge on a loss is the figure frozen in
\* its report, however much later it is confirmed.
LateChargeFrozen ==
  \A r \in LostIds, f \in FineIds :
    (/\ lost[r].st \notin {"NONE", "REPORTED", "REJECTED"} /\ lost[r].issue # NULL
     /\ fine[f].issue = lost[r].issue /\ fine[f].kind = "OVERDUE")
      => fine[f].amount = lost[r].frozen

\* No rupee of a fine is both collected and let off.
PaidOrWaivedNotBoth == \A f \in FineIds : fine[f].paid + fine[f].waived <= fine[f].amount

\* An automatic attendance mark stands on an issue that still exists.
MarkHasEvidence == \A m \in present : \E i \in IssueIds : issue[i].member = m

\* What was decided when a paid-for copy turned up is never decided again.
TurnedUpDecidedOnce ==
  [][\A r \in LostIds : lost[r].turnedUp # NULL => lost'[r].turnedUp = lost[r].turnedUp]_vars

\* Undoing an issue gives a hold back only to the member whose issue it was.
UndoRestoresOwnHold ==
  [][\A c \in Clerks, h \in ResvIds :
       (Running(c, "void") /\ resv[h].st = "COLLECTED" /\ resv'[h].st = "READY")
         => resv[h].member = tx[c].member]_vars
============================================================================
