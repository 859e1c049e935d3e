# A formal model of SchoolManager

SchoolManager (Sckools) is a multi-tenant school platform: a school API
(`apps/api`), a separate library API (`apps/library-api`, "DriveLibrary"), shared
packages and three front ends, all over Postgres. This directory holds TLA+
modules of the parts of it where many people or processes change the same rows
at the same time and where money, messages, whole schools or classes without a
teacher follow from the order in which they do:

* the circulation of a school library (`Library` and the modules it composes);
* the notification outbox of the school API (`Outbox`);
* the fees office (`Fees`);
* backups, deletion and restores of a whole school (`Backups`);
* teachers' leave and the cover of their lessons (`Leave`);
* the year end of a school (`Sessions`).

TLC checks the modules on small instances; TLAPS proves the properties that
survive every interleaving for every value of the constants.

## 1. Inventory

### The circulation core

| Component | State | Operations | Where |
|---|---|---|---|
| Circulation desk | `Copy.status`, `Issue`, `AttendanceMark` | issue, return (which promotes or releases), renew, undo | `packages/library-core/src/circulation/{issues,renew,void,policy-loader}.ts`, `policy.ts` |
| Reservations | `Reservation` (queue position, READY copy, shelf expiry) | create, cancel; promotion and expiry happen in the return | `apps/library-api/.../circulation/internal/reservations.service.ts`, `plans/internal/require-quota.ts` |
| Fines counter | `Fine` (amount, paid, waived, status) | pay, waive | `.../circulation/internal/fines.service.ts` |
| Lost books | `LostReport`, plus copy, issue and fines | desk report, self report, missing at stock-take, confirm, reject, pay, write off, replace in kind, found, turned up, refunded | `.../circulation/internal/lost.service.ts`, `library-core/src/circulation/self-report-lost.ts` |
| Tables | rows, partial unique indexes, foreign keys, CHECKs, advisory locks | `withOrg`: one READ COMMITTED transaction per request | `packages/library-db` |
| Class visits | `LibraryPeriodVisit`, `AttendanceMark` | open, close, mark; an issue marks, an undo unmarks | `library-core/src/{attendance,periods/visits}.ts` |

They interact only through the tables. A desk clerk, the member's phone, the
school's own library screens (which call the same `library-core`) and the
console send requests; each request is one transaction; no handler calls another
component's handler. So an interaction between components is always "one
transaction read a row, another one changed it, the first one wrote".

What the code does against that, and where it does not:

* the member row is locked (`pg_advisory_xact_lock`) around `evaluateIssue`'s
  count; reservations take a quota lock and a queue lock;
* partial unique indexes: one ACTIVE issue per copy, one open reservation per
  member and title, one open report per copy;
* `updateMany ... WHERE status = ...` at two places: the fines counter's pay and
  `claimSettlement`;
* everything else is "read, check in the handler, `update` by id".

What makes the core correct: the shelf agrees with the open issues and holds;
nobody borrows or reserves above the policy; the queue is served in order;
lateness is charged once per issue, at the figure frozen when the loss was owned
up to; a replacement charge exists only for a loss a librarian stood behind; a
loss is settled once; a fine is not collected twice nor both collected and let
off; what was decided is not decided again. `PROJECT.json` lists the hazards
line by line.

### The rest of the library API

| Component | State | Hard behaviour |
|---|---|---|
| Idempotency keys (`common/idempotency`) | key -> stored answer | two duplicates in flight, a crash between the handler and the store |
| Sign-in, refresh tokens (`modules/auth`) | token families | rotation in two transactions, a retry racing a replay, family revocation |
| Throttler (`common/throttler`) | counters with windows | counters at the limit |
| Plans, quotas, provisioning, tenancy | plan rows, provisioned orgs | resumable provisioning; `assertQuota` is in `Desk` |
| Catalogue, import, register | titles, copies, accession numbers | an edit of a copy may write any status behind the desk's back; imports fail row by row |
| Outbox drain (`internal-cron`) | notification rows | a smaller copy of the school's outbox, with the same claims |
| Damaged copies (`library-core/.../damage.ts`) | one charge route of its own | the same races as the lost-book flow |
| Search, me, reports | none | read-only views |

### The school API: modelled

**Notification outbox** (`management/notification-outbox.service.ts`). State:
`NotificationOutbox` rows with a claim stamp, an attempt count and `expandedAt`;
`NotificationDelivery` rows, one per person and channel, with a status, a retry
time and a claim stamp of their own. Operations of a drain: claim rows, expand
them into deliveries, claim due deliveries, send them a few at a time, record
each outcome, close finished rows, purge old ones. Drains run in different
serverless invocations at the same time; any of them may be killed between any
two statements, a send may hang past the hard stop and answer later, a status
write may fail. Correct means: two working drains never hold one delivery, a
message is repeated only after a failure whose outcome was lost, ends are final,
a row is closed only when nobody waits, and every row and delivery ends.

**Fees** (`modules/fees`). State: invoices with a gapless number, payments with a
status, a ledger of credits, reversals and late fees, allocations to bill lines,
receipts, two counters. Operations: generate a term's bills, submit, verify,
reject, reverse. Each is one transaction; handlers read the status and then
update by id, and are saved by the receipt's unique key and by the row locks of
the payment and the counters. Correct means: a payment is credited once, numbers
have no gaps, papers do not change, the statement agrees with the ledger, no
line is overpaid, a late fee or a one-time category is charged once.

**Backups and restore** (`modules/backups`). State: `SchoolBackup` and
`SchoolRestore` jobs with a lease, an attempt count and a saved position; the
school's row, its tables and its files. Operations: start a backup, a restore or
a replace; step one of them; delete with or without a final backup; expire. A
step is cut off by the platform at 60 seconds or anywhere before. Correct means:
rows go only when a finished backup holds them, files are not removed from a
school that is there, a failed restore leaves nothing behind, no job holds the
school's slot for ever.

**Leave and cover** (`management/leave.service.ts`, `internal/free-teachers.ts`,
`staff-attendance.service.ts`). State: leave applications, `Substitution` rows
(a gap and who covers it), the day's attendance marks. Operations: apply,
approve, reject, cancel, assign, cover in a batch, clear, decline (one period or
all of a leave), the roster's marks. Three locks: the leave's row (exclusive for
a decision, `FOR SHARE` for giving its gaps away), one advisory lock per day, one
per person who applies. Correct means: whoever covers a lesson is free, gaps
follow the decisions, the last notice everybody got is true, nobody waits in a
circle.

**Year end** (`management/sessions.service.ts`, `internal/student-transitions.ts`).
State: `SessionPlan` (status, years, version), one `SessionDecision` per plan and
child, with a receipt (`appliedAt`) once applied, the children's status and class,
the year of each class, which year is current. Operations: create a plan, save it,
copy the classes, save decisions, fill in defaults, review, schedule, start, cancel;
the cron starts what is due; children are admitted and leave meanwhile, and classes
are moved to another year or removed (`management/classes.service.ts`). Start is
one transaction over every child of the closing year. Handlers read the open plan
and write by id; only Start claims it with a conditional update. Correct means:
one open plan and one current year, a plan applied once, with the decisions that
were reviewed, a register that says what was done, and a scheduled plan that ends.
The code keeps these up to the disagreements that section 3 lists.

These five and the library share no rows but the children's, which the models of
fees and leave do not write: the others enqueue into the outbox in
their own transactions (`Enqueue` in `Outbox`), and that is their only contact.
A restore or a delete of a school is an exception by nature: it runs while the
school is suspended, and `Backups` has the late writes that were let in before.

### The school API and the rest: not modelled

| Component | State | Hard behaviour |
|---|---|---|
| Sign-in and one-time codes (`modules/auth`, `common/otp`) | codes with attempts, sessions | attempt counters, reuse of a code |
| Payroll | status columns | partial failure of a long job |
| Press, WhatsApp | credit ledger, message claims | debits at zero, webhook repeats |
| Owner, tenancy, features, portals, cms, people modules | single rows | one-row edits, no protocol |
| Worker, front ends, generated bundle | none on the server | the front ends are the nondeterministic callers of the models; the worker is a stub |

## 2. Modules

| Module | Models |
|---|---|
| `LibraryDB` | the tables as functions from bounded pools of row ids, the questions the handlers ask of them, the unique indexes, the policy's late charge, and the life of a transaction: `Begin`, `Finish` (COMMIT), `Abort` (ROLLBACK) |
| `Desk` | issue, return, renew, undo, reserve, cancel, with the three advisory locks |
| `Fines` | pay and waive |
| `LostBooks` | the eleven operations on a lost-book report |
| `Library` | the three over one set of tables, `Spec`, and all properties |
| `MCLibrary` | the instances TLC checks |
| `LibraryTypes`, `LibraryRaces`, `LibrarySerial` | theorems and proofs: the tables' shapes; what holds however requests overlap; what holds with one request at a time |
| `OutboxPromise` | what the outbox promises, without claims, drains, time or failures: notices, messages, who was told |
| `Outbox` | drains, claims that lapse, expansion, sending in chunks, hung sends, kills; implements `OutboxPromise` |
| `MCOutbox`, `OutboxProofs` | instances; theorems and proofs, the refinement among them |
| `Fees` | billing and the life of a payment, with row locks on payments and counters |
| `MCFees`, `FeesProofs` | instance; theorems and proofs |
| `Backups` | jobs under leases, the steps of copying, purging and importing, the operator, the platform's kills |
| `MCBackups`, `BackupsProofs` | instance; theorems and proofs |
| `Leave` | leave decisions and cover, with row, shared and day locks |
| `MCLeave`, `LeaveProofs` | instances; theorems and proofs |
| `Sessions` | a year-end plan from draft to Start, the office, the cron, the children it moves and the classes |
| `MCSessions`, `SessionsProofs` | instance; theorems and proofs |

**How a library handler becomes actions.** A handler is a read action `XRead(c, ...)`,
which evaluates its guards and remembers in `tx[c]` what it read, and a commit
action `XCommit(c)`, which applies its writes using what was remembered. Writes
by id look at nothing again; `updateMany` predicates, `FOR UPDATE` reads, unique
indexes and foreign keys are evaluated in the commit action, because Postgres
evaluates them on the current row, under a row lock held until COMMIT. A handler
that takes an advisory lock between two reads has an action for each
(`IssueEvaluate`, `ReserveQuota`, `ReserveQueue`): a READ COMMITTED statement
after the lock sees what was committed before it. A lock is not a variable: who
holds it follows from the request's stage (`HoldsMember`, `HoldsQuota`,
`HoldsQueue`), as `pg_advisory_xact_lock` is released only by the end of the
transaction. `Abort` may end any request at any stage: a denial found late, a
unique violation, a deadlock victim, a timeout, a crash of the service. It
leaves the tables alone, because each of these handlers is one transaction.

**What the library modules abstract.** Days are whole numbers and time moves by `Tick`, between
any two steps of a request; a handler is given the time its controller read
before the transaction, so due dates, shelf expiries and lateness are computed
from the day the request began (`at`). Money is in whole rupees. The policy is one row per
member. `Scope[c]` is the effective set of branches a clerk may act for (an
empty `allowedBranches` means all of them). Member status does not change during
a run (`Inactive`). A READY row promoted by `promoteOrRelease` belongs to one
title, and the placeholder expiry, years away, of a row that still waits is 0.
`LostReport.refundOwedAmount` is kept as the set of fines it sums.
`Reservation.updatedAt`, which the undo orders by, is the counter `turn`, set
where a hold becomes COLLECTED. The fine status PARTIAL exists in the schema and
no handler writes it. `taken` counts the payments of a fine, which the code
keeps as audit entries.

**How `Outbox` corresponds to the code.** One action per statement of a drain
that another drain, or a kill, can fall between: `Start` claims rows, `CreateDeliveries`
and `MarkExpanded` are the two writes of an expansion, `ExpansionFails` its
`catch`, `ClaimDue` the claim of due deliveries, `StartChunk`, `Attempt` and
`Record` a send, `AllSent`, `CloseFinished` and `PurgeDelivered` the end of the
drain. A stamp `claimedAt` is the drain that wrote it and whether it is older
than the TTL. An invocation lives at most 60 seconds and the TTL is five minutes,
so a stamp never lapses while the invocation that wrote it works. After
`HardStop` or `Kill` a drain's sends may still be answered (`Attempt`, `Record`
of an idle drain); a drain's slot starts again only when they are gone
(`Recycle`). FAILED stands for FAILED, SKIPPED and SUPPRESSED; HELD is a value
of the schema that nothing writes.

**How `Fees` does.** `DecisionRead` and `GenerateRead` evaluate the guards;
`VerifyPost` and `DecisionPost` are the update by id, which waits for whoever has
updated the same payment; `VerifyNumber` and `GenerateNumber` advance a counter,
which waits for whoever has advanced it; the commit actions are the rest. Amounts
are small numbers, a day is the number of days after the due date, and the audit
rows are left out. `crossed` remembers about which students two requests were in
flight at once: four of the properties are promised for the others only (see
below).

**How `Backups` does.** A lease with the checks and the attempt that follow it is
one action (`StepBackup`, `StepImport`, ...); copying, purging and importing are
actions of their own, between which the worker may be cut off. The clearing of a
purged school's flag is merged with the removal of its files. What the tables
hold is abstracted to whether a backup has all of it (`full`): `Write`, a request
let in before a suspension, spoils the copy being taken unless it is still to
come. A backup taken from a half-imported school counts as a backup of it. Three
variables remember excuses of the properties: `hurried` (the school's row changed
between a delete's check and its purge), `reopened` (the status changed while a
replace awaited its backup), `swept` (an import wrote while a delete was removing
files); and `cut` marks a restore whose first step was cut off before it saved.

**How `Leave` does.** A request is `Decide`, `Withdraw`, `Assign`, `Batch` or
`Clear` (its first read and refusals), then the locks it takes (`ApproveRow`,
`CancelApproved`, `ShareRow`, `LockDay` once per day), the reads it decides by
(`ApproveRead`, `CancelRead`, `CheckFree`), and its writes with its commit
(`ApproveWrite`, `CancelWrite`, `Give`, `ClearWrite`). `Apply`, `Reject`,
`CancelPending` and `Decline` decide and write under one lock and are one action.
Updates that compare (`status = 'PENDING'`, `substituteTeacherId = ...`) are
evaluated when they are made. `told` is a history of the notices: per lesson,
the teachers whose last word was that they cover it. All days are working days
that are not over, and the timetable does not change.

**How `Sessions` does.** What a handler reads first is one action (`CreateRead`,
`EditRead` for the three that save, `CancelRead`, `ScheduleGate`, `LeaveRead`),
and what it writes by id with its commit is another (`Create`, `Save`, `Cancel`,
`Schedule`, `Leave`). Start is `StartNow` (which plan is open) or `StartDue` (what
is due), then `ApplyRead` with the comparison of versions, `Claim`, `ReadRoll`
and `Apply`, which writes all the rest and commits. `ReadRoll` refuses, and rolls
the claim back, when a child of the roll has no decision (`UNDECIDED_STUDENTS`) or a
class that is not, or no longer, in the next year (`BAD_TARGET`): `Refuses`. A class
that is removed after that makes the foreign key end Start (`NoSeat`). From `Claim`
on the plan's row is held (`RowFree`); a claim that had to wait looks at the status
again, a write by id does not. `UpdatePlan` stands for the settings and for copying
the classes, which builds them (`Built`); `MoveClass` and `RemoveClass` are the
routes of the classes screen, which look at no plan. What the office reviewed is in
`page`, and what a plan was scheduled from in `approved`. The rest are histories:
`over`, the plans once started or cancelled; `reopened`, those of them a late
schedule was written on; `again`, those applied after that; `done`, what Start wrote
for a child, which for a leaver who is no longer active is nothing, whatever the
decision says; `surprised`, whether other decisions were applied than reviewed.

## 3. Runs

| Run | Clerks, drains, workers | Question | Size |
|---|---|---|---|
| `SerialDesk` | 1 | issue, return, renew, undo, reserve, cancel: `ShelfConsistent`, `MarkHasEvidence` | 829 000 states |
| `SerialLost` | 1 | every way to report, confirm, reject, settle and find again: `LostCopyRetired`, `NoMoneyForRejectedLoss`, `LateChargeFrozen`, `LateChargedOnce`, `PaidOrWaivedNotBoth`, `TurnedUpDecidedOnce` | 371 000 states |
| `RaceDesk` | 2 | issue, return, undo, reserve interleaved: `MemberWithinLimit`, `ReservationsWithinQuota`, `PositionsUnique`, `NoQueueJumping` | 1 180 000 states |
| `RaceMoney` | 2 | settlements and the fines counter interleaved: `DeskLossSettledOnce`, `PaymentTakenOnce` | 1 194 000 states |
| `OutboxRace` | 2 | two drains, two deliveries, failures anywhere: `OneDrainPerDelivery`, `RepeatsAreExcused`, and `PromiseKept`, the refinement of `OutboxPromise` | 1 800 000 states |
| `OutboxEnds` | 2 | the same with one delivery and fairness: `EveryDeliveryEnds`, `EveryRowCloses` | 127 000 states |
| `FeesOffice` | 2 | billing, verifying, rejecting and reversing interleaved: `CreditedOnce`, `NumbersGapless`, `PapersStand`, `StatementAgrees`, `LinesNotOverpaid`, `LateFeeWithinRule`, `OneTimeBilledOnce` | 298 000 states |
| `BackupJobs` | 2 | backup, delete, restore, replace with kills and late writes: `NothingLost`, `FilesKept`, `FailedRestoreLeavesNothing`, and under fairness `JobsEnd` | 285 000 states |
| `LeaveDesk` | 2 | approvals, withdrawals and cover interleaved: `SubstitutesAreFree`, `GapsFollowLeaves`, `LastWordStands`, `NobodyWaitsInACircle` | 928 000 states |
| `YearEnd` | 1 and the cron | a year's plan, every operation of the office, failures, children and classes that come and go: `AppliedOnce`, `RegisterTellsTruth`, `StartsWhatWasReviewed`, and under fairness `DuePlansEnd` | 618 000 states |

One clerk means requests one after the other, each of which may still be rolled
back at any stage. That is the specification the handlers were written to, and
the serial runs ask whether long legal sequences stay right. Two clerks is where
the locks, the compare-and-swaps and the unique indexes have to carry the
properties; two requests are enough for every race in this code, because each is
about one request's read and another's write.

**Bounds of the library.** Row pools (`IssueIds`, `ResvIds`, `FineIds`, `LostIds`), `MaxDay`,
the route set and the members and copies are in each `.cfg`. Two members, two
copies of one title and a limit of one book or one reservation make every limit
reachable; three issues or reservations are enough for an issue, its undo or
return, and the next one on the same copy; two or three days are enough for a
lapsed hold, a late return and a capped fine. `MaxDay` is only used by `Tick`.
Every run checks deadlock: some request can always be started or rolled back.
Symmetry is used over clerks (and over members and copies
where the constants tell none apart), never with a liveness property.

**Bounds of the outbox.** One row with two deliveries and chunks of one send, so
that a drain is stopped between two sends; two attempts at an expansion and one
retry of a send, so that each runs out; two failures in a behaviour, enough for a
kill and a failed write, or two kills, on one delivery. The liveness run has one
delivery and no symmetry.

**Bounds of fees.** A student with two terms and one with one, two payments, two
lines of which one is charged once. Claims: late payments of a bill on two days,
an overpayment, a payment without a bill. Each of the first student's claims is
below what is owed and both together are above it, which is where allocation and
the late fee interact.

**Bounds of backups.** An old backup and one that can be taken, one restore, two
parts to a copy, so that a late write falls before, between or after them; one
cut-off step in a row before a job gives up (`MaxAttempts`); three changes of
status by the operator; the school starts LIVE or gone. Cut-offs while copying or
importing are counted by the code's own attempts and are not bounded otherwise;
elsewhere there is at most one (`MaxKills`). Its safety part was also explored
with three backups and no such cut-off (12 million states). The run does not
check deadlock: the operator's changes are bounded, after which everything may
have ended.

**Bounds of leave.** Three teachers, two of whom teach in the same period; leave
of two days shared by two teachers, so that the order of the day locks matters;
two requests, because each race is between one request's read and another's
write, while `Apply`, `Decline` and the roster run beside them; one mark by the
roster (`MaxMarks`), for the teacher and day of `Rostered`. All leave is for
whole days: halves are `LeaveHalves`. Leaves are decided for good, so both runs
may stop and do not check deadlock; that nobody waits for ever on a lock is
`NobodyWaitsInACircle`.

**Bounds of the year end.** Two children, each admitted to any class there is and
leaving at any time; a class of the closing year and one that copying builds in the
next; both ways to leave; three saves of a plan (`MaxVersion`), which suffice to
build the class and decide both children; one class moved or removed (`MaxMoves`)
and one failure (`MaxFails`). One person and the cron are two requests at once. One
plan, from its creation on: each property speaks of one plan at a time, no property
speaks of what two would add (a page of the other plan, two current years), and with
two the instance has more than 1.7 million states. The theorems hold for any number.
The run reaches what the properties except: a plan applied again after a late
schedule, a receipt of a child who had left by then, a decided child without a
receipt, a class moved away from under a scheduled plan, a foreign key that ends
Start. Plans are used up, so the run may stop and does not check deadlock.

`TypeOK` is proved for every module and checked in `FeesOffice` and `YearEnd` besides.

**Fairness.** The library, fees and leave have none: their requests may be rolled
back at any time, and their properties are safety. The outbox assumes weak
fairness of starting, progressing and recycling each drain (a ten-minute workflow
and a nightly cron keep starting them) and of the passing of time (`LapseRow`,
`LapseDelivery`, `BecomeDue`); nothing is assumed of failures, which `MaxFaults`
bounds, so the promise is "once failures stop". Backups assume weak fairness of
the settle time, of the lapses and of a worker that is not cut off, and strong
fairness of stepping each job: the cron and the open console poll every running
job again and again, and a step is possible only while no other worker has the
lease. Nothing is assumed of kills: that a job which is cut off every time ends
too is what `MAX_ATTEMPTS` is for. A replace that awaits its backup counts no
attempts in that phase, which is why cut-offs there are bounded. The year end
assumes weak fairness of a request that has begun (its transaction ends by itself
or at its ten seconds) and of the cron (`StartDue`), which Vercel calls every
night; nothing is assumed of the office, and failures are bounded by `MaxFails`.

### Disagreements between the code and what it says

Two runs are expected to be violated; each quotes the line it contradicts in
`PROJECT.json`.

* `UndoOtherIssue`: the undo of an issue restores the copy's last COLLECTED hold,
  even if an earlier, already returned issue collected it. No overlap is needed.
* `LeaveHalves`: the afternoon leave of a day is cancelled while the morning leave
  is being approved. The cancel takes no lock on the day: it sees no other
  approved leave, the approval sees the mark and leaves it, and the cancel
  deletes it. The teacher is on approved leave, has no mark and is offered as
  free. This is also why `SubstitutesAreFree` is claimed for whole-day leaves.
Ten more of the library were met while modelling and are reachable with
the routes named; they are not kept as runs, because all but the last
repeat the pattern "read, check, update by id":

* a confirmation and a rejection of one self-report: both read REPORTED, both
  update by id, and a replacement charge survives for a book the member has
  (`lost.service.ts:440`), against `NoMoneyForRejectedLoss`;
* a payment and a waiver of one fine (`pay`, `waive`): the waiver's blind update
  at `fines.service.ts:576` breaks `PaidOrWaivedNotBoth`;
* two returns of one issue (`issue`, `return`): `issues.ts:334` and `:351` charge
  lateness twice and promote twice, against `LateChargedOnce`;
* a cancellation while the hold is collected (`issue`, `reserve`, `return`,
  `cancel`): `reservations.service.ts:203-204` puts a borrowed copy on the shelf,
  against `ShelfConsistent`;
* two confirmations of one self-report: `lost.service.ts:365`, both sets of fines;
* a copy on the reserved shelf reported missing, then its hold cancelled: the lost
  copy is AVAILABLE again, against `LostCopyRetired`;
* a loss settled as paid while its fine is paid at the fines counter:
  `lost.service.ts:563` marks a paid fine paid again;
* two undos of one member's two issues: each counts the other as the evidence of
  attendance (`void.ts:140`), against `MarkHasEvidence`;
* FAMILY_KEEPS and an overlapping REFUND_OWED of one turned-up copy both commit
  (`lost.service.ts:952`); the CHECK forbids only the other order, against
  `TurnedUpDecidedOnce`;
* a hold is promoted onto a copy at a branch where the desk refuses to issue to
  that member (`policy.ts:141`, BRANCH_MISMATCH), without any overlap.

In fees, when two requests about one student overlap:

* two payments of one late bill verified at once both charge the late fee, where
  a comment says it is idempotent by construction, and both allocate what is
  left of the bill (`fee-payment.service.ts:354`);
* the bills of two terms generated at once both carry the one-time categories
  (`fee-billing.service.ts:137`);
* a verification and a rejection of one payment both commit: the credit stands
  and the payment says REJECTED;
* the audit chain forks (`fee-payment.service.ts:451`).

That is why `LinesNotOverpaid`, `LateFeeWithinRule`, `OneTimeBilledOnce` and
`StatementAgrees` are stated for students about whom no two requests overlapped.
`CreditedOnce`, `NumbersGapless` and `PapersStand` hold for everybody.

In backups:

* a replace does not look at `statusChangedAt` again after its final backup
  (`backups.service.ts:614`): a school opened and suspended again meanwhile is
  purged with what it wrote (`reopened`);
* that a first import step began is only in memory (`import.ts:186`); when it is
  cut off after the School row and the retries are cut off too, the restore fails
  with "nothing of the import was kept" and a school row is there (`cut`);
* `deleteSchoolNow` accepts a backup taken for another reason, which did not
  wait for late requests; `NothingLost` speaks of the final backups only;
* a final backup that is outdated when its delete is picked up is refused and
  retried by the cron for ever, and never expires;
* the School row is read when a backup starts, before the wait for late requests
  (`export.ts:79`); the models follow the tables, not that row.

In the year end the code keeps less than it says. With one person and the cron:

* a schedule passes its gate, the plan is started by the cron or cancelled, and the
  schedule is written by id in a second transaction (`sessions.service.ts:534`): the
  next call of the cron applies the plan again, or applies a cancelled one, where a
  comment (`:556-559`) says that the cron and a click cannot both apply it.
  `AppliedOnce` excepts the plans reopened this way and no others, so it does not
  uphold the comment: the behaviour contradicts it;
* a cancel that read an open plan is written after Start (`:252`): every child was
  moved, the plan says CANCELLED and its register is empty (`:1007`). So is that of a
  plan a late schedule was written on. `RegisterTellsTruth` is about STARTED plans;
* a child with a decision that has left the roll before Start is in the register
  with its decision and without a receipt (`:1010`): nothing was done with it, and
  only the missing `appliedAt` tells;
* a child that is to pass out leaves between Start's reading of the roll and its
  update, which looks at the status (`:668`) and writes nothing: the decision gets a
  receipt all the same, and the register says PASS_OUT of a child that is LEFT;
* the update of seats has no such look (`:646`): a child that leaves then loses the
  class the code keeps as its last;
* a class of a scheduled plan is moved to another year (`classes.service.ts:73`) or
  removed: Start refuses with `BAD_TARGET` (`:608`), and so does every later call of
  the cron, which writes a line to the log; so it does where a child was admitted
  after the plan was scheduled (`:603`). `DuePlansEnd` excepts both;
* a review carries a version and no plan: a page of a cancelled plan starts the next
  one when the numbers agree (`:539`). `StartsWhatWasReviewed` says nothing of it.

With two persons whose requests overlap, and so in no run and excluded by the
theorems' hypothesis:

* two requests to create a plan both find none open (`:186`), and no unique index
  forbids the second; once both are started, two years are current;
* Start compares the version before it claims the plan (`:570`): a decision another
  person saves in between is applied without a review;
* a save that read a draft is written after Start (`:458`): the register shows a
  decision that is not what happened to the child.

Each is a short behaviour of `Sessions`, and none has a run of its own. The first of
them contradicts a comment outright: what `AppliedOnce` excepts is that contradiction.

## 4. Proofs

The library's theorems hold for any finite or infinite sets of clerks, members, titles,
copies and branches and any policy; `IssueIds` and `ResvIds` are finite. The
assumptions are the named ones of `LibraryDB`: places and policies have the
shapes the schema gives them, and NULL is neither a row id nor an outcome of a
turned-up copy.

* `LibraryTypes`. **TypeCorrect**: `Spec => []TypeOK`. `TypeOK` is not inductive.
  A commit follows ids remembered earlier (the issue of a return, the report of a
  settlement) into columns (`issue[i].member`, `lost[r].copy`) that are NULL in
  rows that were never inserted. `WellFormed` adds that rows that exist have their
  keys (`KeysPresent`), that a report has a copy and, when it awaits a librarian,
  an issue (`ReportsStand`), and that each request refers to rows that were
  inserted (`PlansStand`). **AlwaysWellFormed** is that invariant; the rest builds
  on it. The frame lemmas at the end say which tables each family of steps leaves
  alone, which locks a step gives up, and what a request can turn into.
* `LibraryRaces`: no hypothesis on how requests overlap.
  **BorrowingLimit**: `Spec => []MemberWithinLimit`, from
  `BorrowingInv`: while a request holds the member lock, the member's unreported
  loans number strictly fewer than `maxBooks`. Others can make that count fall
  (returns, losses, undos) but only the lock holder can make it rise, so what was
  counted stays an upper bound until the commit. **ReservationQuota** is the same
  argument for the quota lock and `maxReservations`, for holds never collected.
  **PositionsGivenOnce** and **NobodyOvertaken**, from `QueueInv`:
  while a request holds a title's queue lock, its position is above every
  position the title ever gave; positions never change and rows are never
  removed; and a promotion picks the least waiting position, so whatever was
  given a copy is before all that wait.
  **SettledOnce**: `Spec => DeskLossSettledOnce`, from
  `SettlingInv`: only reports by a holder are ever REPORTED, and a confirmation or
  rejection in flight is of one of those. The settlements look again (`Claim`), so
  nothing in flight can move a settled desk report. **PaidOnceAtCounter**:
  `Spec => []PaymentTakenOnce`, from `CounterInv`: a fine of an unreported issue
  that is still open was never paid, and what a settlement in flight will write by
  id belongs to reported issues only.
* `LibrarySerial`: the properties that overlapping requests break (section 3 says
  how), under `OneClerk`: any members, copies, policies and routes, requests that
  roll back at any stage, but one request at a time. `AllFresh` says that what the
  request has read still holds; it is kept because the tables change in commits
  only. On it rest
  - `MoneyInv`: a fine's paid and waived parts follow from its status. Hence
    **NeverPaidAndWaived** and **PaidOnce**: every fine is paid once at most, where
    `PaidOnceAtCounter` speaks of those no loss was reported on;
  - `LossInv`: a report that stands is about a lost issue and is the only such
    report (`LossesFollow`), and an issue charged for lateness was closed by its
    return or by a librarian's word on its loss (`ChargesFollow`). Hence **LateOnce**,
    **ReplacementsStand** and **ClockStops**, and with `AllFresh` **DecidedOnce**;
  - `EvidenceInv`: an automatic mark of attendance has an issue of that member that
    was not undone. Hence **MarksStand**;
  - `ShelfInv` (**ShelfHolds**): a copy is ISSUED exactly while one issue of it is
    open, no two rows hold a copy, and a report of an issue keeps its copy LOST. It
    is proved for every route. **ShelfIsRight** (`ShelfConsistent`) and
    **LostIsRetired** (`LostCopyRetired`) follow when no copy is reported missing
    from stock (`NoStockReports`): such a report retires a copy that a hold may be
    READY on, and when an earlier, paid loss of that copy turns up the copy returns
    to the shelf with the report still open. What these two properties need beyond
    `ShelfInv` fails there without any overlap.

* `OutboxProofs`. **OutboxTypeCorrect** and **NoTwoDrains**
  (`OneDrainPerDelivery`) from **ClaimsHeld**, the invariant `IInv`: what a
  working drain has in hand carries its claim, and that claim is not stale
  (`RowsInHand`, `DeliveriesInHand`); work exists, is claimed and waits
  (`WorkExists`, `ClaimedWait`); and a settled row has no delivery that is still
  owed (`SettledDone`). It is needed because the claim statement looks at a
  delivery's stamp only, never at who else has it in memory. **OnlyFailuresRepeat**
  adds the balance `RepeatInv`: a send that was left behind is an excuse not used
  yet, and what was taken without an excuse is at most one send, which is recorded
  or still in the hand of one working drain. **OutboxKeepsPromise** is the refinement,
  `Safety => PromiseKept`: with the mapping of `NoticeState` and `MessageState`,
  every step is one of `OutboxPromise` or a stutter.
* `FeesProofs`. **LocksHold** is the invariant `FeesInv`: one request is past its
  update of a payment (`OneHolder`), the number a request was given is the
  counter's (`HeldNumbers`), a payment is credited exactly when it has a receipt
  (`CreditHasReceipt`). **CreditedAtMostOnce**, **SeriesGapless** and
  **PapersNeverChange** follow. **StatementFollowsLedger** adds that a request
  which is alone with its student still reads the truth (`Claimed`, `ReadStands`);
  **OneTimeOnFirstBill** adds the same for the bills a run found missing.
  **AmountsHold** is the invariant of the amounts, `AmountsInv`: a claimed payment is
  for an issued bill of its student, a row not claimed pays nothing (`ClaimRows`), and
  the late fee and the allocation a verification has worked out still fit what is
  committed when it commits (`ChargesFit`), unless requests crossed. **NoLineOverpaid**,
  **LateFeeIsDue** and **FeesTypeCorrect** follow. It rests on lemmas about
  `SumFunctionOnSet`, which the library states nothing about: that the recursion
  behind it has a solution (`AddingAdds`), that an index can be taken out of a sum of
  naturals (`SumTakesOut`), and that a sum depends on its indices only (`SumLocal`).
  They are proved without an induction rule, by a least counterexample among the
  finite sets of indices (`LeastSubset`).
* `LeaveProofs`. **LocksOfLeaveHold** is the invariant `LeaveInv`: whoever decides
  about a leave is alone with its row (`RowAlone`), a day has one owner
  (`DaysAlone`), and what each request has read and will act on is still so
  (`RequestsFit`: the status it believes in, that its substitute is free, the gaps
  a cancel will delete and whom it will tell). **LeaveTypeCorrect**,
  **GapsAlwaysFollow**, **LastWordAlwaysStands** and **NobodyInTwoClasses** follow
  for half days too. **SubstitutesStayFree** assumes whole-day leave (`FullDays`)
  and adds that the days of an approved leave carry a mark, and that what an
  approval and a cancel have read of marks and covers stands (`MarksInv`): a cover
  found then reopens, and whoever asks later sees the mark. **NoCircleOfWaits**
  assumes that there is a last day: of the days waited for, the greatest is held
  by a request that would have to wait for a greater one.
* `BackupsProofs`. The inductive invariant `BackupsInv` has four parts. `Jobs`: a
  worker in the middle of a step holds the lease of the job the step is for
  (`LeasesHeld`), one restore runs, a school that is here while a restore imports
  is that restore's, and a replace that waits has a final backup. `LostInv`: a
  final backup that is still current was begun when the school was suspended and
  quiet, and holds all of it (`FinalCopies`); a delete that goes on to purge, and a
  replace, looked at such a backup unless `NothingLost` excuses them
  (`DeletesLooked`, `ReplacesLooked`). `FilesInv`: while files are swept the school
  is gone, and an import that wrote them all has put them back. `ImportsKnown`:
  what an import has written is known to be its own from the saved progress or
  from its worker, or it was cut off. Each part is needed: `NothingLost` says
  nothing of a purge until it happens, and what makes the purge right was seen
  several steps earlier, by a worker that may have been killed since.
  **BackupsTypeCorrect**, **NothingIsLost**, **FilesAreKept** and
  **FailedRestoresLeaveNothing** follow, with the excuses the properties name.

* `SessionsProofs`. **ClaimHolds** is `ClaimInv`, for any number of people in the
  office and of crons: whoever has claimed a plan is alone with it until it commits or
  fails (`PlanAlone`), because the claim is an update guarded by the status; what
  a request remembers is of a plan and a page that fit it (`RequestsFit`,
  `PagesFit`); a plan that was over and is open was reopened (`OverStays`).
  **TypeCorrect** and **AppliedOnceUnlessReopened** (`AppliedOnce`) follow: the second
  says that the claim itself lets nothing be applied twice, and that the late
  schedule is the one way round it, not that there is none.
  `ReviewInv` assumes one person in the office (`OnePerson`) and any number of crons:
  what a save or a start in flight saw of its plan still holds (`RequestsTimely`), a
  draft has done nothing (`NotYetDone`), each entry of the register, whatever becomes
  of its plan, tells what was written (`EntriesTrue`), and nobody edits a plan that is
  scheduled (`ApprovalsStand`). For an entry with a receipt whose child was not
  written the proof needs that the child had left on its own and stays away
  (`RowsKnown`, `ChildrenKept`): readmission is not modelled. **RegisterIsTrue** and
  **StartedAsReviewed** follow, the second for a review of the plan that is started.
  The hypothesis is needed: edits and the start compare the status or the version
  first and write by id afterwards, so two people get between the two (section 3).

The theorems outside the library hold for every value of the constants that satisfies
the named assumption of the module (`OutboxAssumption`, `FeesAssumption`,
`BackupsAssumption`, `LeaveAssumption`, `SessionsAssumption`): the sets of drains, of
bills and of payments are finite, teachers are in one room per period, the years,
classes and ways to leave are told apart from each other and from "none", and
`MaxVersion` is at least 1, the version of a new plan.

With the hypotheses above, every safety property of a run is a theorem. Out of reach of
the prover and left to TLC for good: liveness under fairness (`EveryDeliveryEnds`,
`EveryRowCloses`, `JobsEnd`, `DuePlansEnd`) and ENABLED. The two properties that are
expected to fail are not theorems.

## 5. Not modelled

*Library.* Audit rows and notification rows are written by these handlers and
read by none. Damage reports, the catalogue's edits of a copy's status (which may
write any status, an ISSUED copy's included, `copies.service.ts:112`), weeding,
member status changes and the opening and closing of visits are not actions. The
idempotency table is not: two duplicates in flight both run the handler, and so
does a retry after a crash before the key is stored
(`idempotency.interceptor.ts:112`); the races between two runs of a handler are in
the library's runs. An undo deletes its issue by id after counting its fines; a
fine raised meanwhile loses its issue (`void.ts:190`), which `VoidCommit` models
and no property follows. Plain reads of one handler are grouped in its read
action, so a write by another request between two of them is not seen; the steps
that matter for the locks are separate. Formatting, receipts, prices' sources and
listings are left out.

*Outbox.* What the channels do with a message, the cap of 60 per school and the
batch sizes as they are (they are constants of the model), the coalescing of drain
signals, preferences and templates.

*Fees.* Plans, concessions and settings (constants of the model), the queries and
the families' views, the guard against a bank reference used twice, the new
receipt series of a new year, the audit chain.

*Backups.* Bucket snapshots and their restores, sample packs, uploads, the archive
format and what a table holds.

*Leave.* Leave of staff without lessons, days that are over, acknowledgements
("Got it"), a timetable published during the leave, teachers who leave the school,
the evening nudge, leave balances and policy; the row locks an update of a gap
takes for the rest of its transaction.

*Year end.* Classes added by hand and a child's class changed by hand, roll
numbers, copying the timetable, register changes that Start rejects, what follows
Start's commit (leave carried forward, notices, letters; done once and never again
if the process dies), the alumni wing and closing of logins, readmission, years
added or made current in the settings, the limits of lists, and the cron's fifty
plans at a time over all schools, in no stated order (`:1048`): with fifty due plans
that are refused every night, others may not have their turn. A save that holds a
decision's row while Start holds the
plan makes the two wait for each other; Postgres ends one, which is `Fail`.

*Everything else* is listed in the inventory. Payroll has a protocol worth modelling
and is in the plan; sign-in is left out; the rest of the platform edits one row at
a time.

## 6. Plan

Done: the library core, the outbox with its abstract promise, fees, backups,
leave and cover and the year end, with proofs of their safety properties. Left, in
this order:

1. An abstract shelf (a copy is in one place) that the library with one clerk
   implements, from `ShelfInv`.
2. `Idempotency`: a key's life around a crashing handler.
3. Damage, visits and the catalogue's copy edits as further routes of `Library`.
4. Payroll runs: a long job that fails half-way.
