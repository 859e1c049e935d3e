---- MODULE Backups ----
(***************************************************************************)
(* Backups, deletion and restores of one school as jobs: rows that workers *)
(* (requests of the owner console and of the cron) advance step by step    *)
(* under a lease.  Any worker may be cut off anywhere; its lease then      *)
(* lapses, never before (LEASE_MS is above the platform's 60 seconds).     *)
(*                                                                         *)
(* A step's lease, its checks and the attempt it counts are one action;    *)
(* the copying, purging and importing that follow are actions of their     *)
(* own.  What the tables of the school hold is abstracted to whether a     *)
(* backup has all of it; the School row itself is not, only its status.    *)
(* SETUP counts as LIVE.  Whole-school jobs only: bucket snapshots, bucket *)
(* restores and uploads are left out.                                      *)
(***************************************************************************)
EXTENDS Naturals, FiniteSets

CONSTANTS
    Workers, Backups, Restores,
    Old,             \* a backup from long ago, the only one that may expire meanwhile
    Parts,           \* steps it takes to copy the school
    MaxAttempts,     \* steps in a row that may be cut off
    MaxChanges,      \* bound: how often the operator publishes or suspends the school
    MaxKills,        \* bound: failures at points where no attempt is counted
    NoBackup, NoRestore, Nobody

ASSUME BackupsAssumption ==
    /\ Backups \subseteq Nat /\ Old \in Backups /\ Parts \in Nat \ {0}
    /\ {MaxAttempts, MaxChanges, MaxKills} \subseteq Nat
    /\ NoBackup \notin Backups /\ NoRestore \notin Restores /\ Nobody \notin Workers

VARIABLES
    school,     \* School: its status, whether SETTLE_MS have passed since it changed,
                \* whether its files are there, the restore that is importing it
    backup,     \* SchoolBackup
    restore,    \* SchoolRestore
    work,       \* what each worker is in the middle of
    changes, kills,
    lost,       \* history: by which jobs rows in no backup were removed
    hurried,    \* history: the school's row changed between the check and the purge of a delete
    reopened,   \* history: the operator changed the status while a replace awaited its backup
    swept       \* history: an import wrote while a delete was still removing files

vars == <<school, backup, restore, work, changes, kills, lost, hurried, reopened, swept>>
history == <<lost, hurried, reopened, swept>>

Final == {"BEFORE_DELETE", "BEFORE_REPLACE"}
NewBackup == [status |-> "none", reason |-> "MANUAL", delete |-> FALSE, current |-> FALSE,
              full |-> FALSE, done |-> 0, attempts |-> 0, lock |-> Nobody]
NewRestore == [status |-> "none", mode |-> "restore", from |-> Old, pre |-> NoBackup,
               previous |-> "LIVE", phase |-> "import", done |-> 0, attempts |-> 0,
               lock |-> Nobody, cut |-> FALSE]
Idle == [at |-> "idle", backup |-> NoBackup, restore |-> NoRestore, reached |-> 0]

TypeOK ==
    /\ school \in [status : {"LIVE", "SUSPENDED", "gone"}, quiet : BOOLEAN, files : BOOLEAN,
                   import : Restores \union {NoRestore}]
    /\ backup \in [Backups -> [status : {"none", "RUNNING", "READY", "FAILED", "EXPIRED"},
                               reason : Final \union {"MANUAL"}, delete : BOOLEAN,
                               current : BOOLEAN, full : BOOLEAN, done : 0..Parts,
                               attempts : 0..MaxAttempts, lock : Workers \union {Nobody}]]
    /\ restore \in [Restores -> [status : {"none", "RUNNING", "DONE", "FAILED"},
                                 mode : {"restore", "replace"}, from : Backups,
                                 pre : Backups \union {NoBackup}, previous : {"LIVE", "SUSPENDED"},
                                 phase : {"awaiting-backup", "import"}, done : 0..2,
                                 attempts : 0..MaxAttempts, lock : Workers \union {Nobody},
                                 cut : BOOLEAN]]
    /\ work \in [Workers -> [at : {"idle", "copying", "checked", "sweeping", "looked", "replacing",
                                   "emptying", "importing"},
                             backup : Backups \union {NoBackup},
                             restore : Restores \union {NoRestore}, reached : 0..2]]
    /\ changes \in 0..MaxChanges /\ kills \in 0..MaxKills
    /\ lost \subseteq {"delete", "replace"}
    /\ {hurried, reopened, swept} \subseteq BOOLEAN

Init ==
    /\ school \in {[status |-> s, quiet |-> TRUE, files |-> s = "LIVE", import |-> NoRestore] :
                       s \in {"LIVE", "gone"}}
    /\ backup = [b \in Backups |-> IF b = Old THEN [NewBackup EXCEPT !.status = "READY"] ELSE NewBackup]
    /\ restore = [r \in Restores |-> NewRestore]
    /\ work = [w \in Workers |-> Idle]
    /\ changes = 0 /\ kills = 0
    /\ lost = {} /\ hurried = FALSE /\ reopened = FALSE /\ swept = FALSE

Here == school.status # "gone"
RunningBackup == \E b \in Backups : backup[b].status = "RUNNING"
RunningRestore == \E r \in Restores : restore[r].status = "RUNNING"
Awaiting(r) == restore[r].status = "RUNNING" /\ restore[r].phase = "awaiting-backup"
\* What an import has written so far are copies.
Saved == \/ school.import # NoRestore
         \/ \E b \in Backups : backup[b].status = "READY" /\ backup[b].full

-----------------------------------------------------------------------------
(* The school.                                                             *)

\* What is written now is in no finished backup; a copy in progress may have it.
Written(lucky) == [b \in Backups |-> [backup[b] EXCEPT !.full = @ /\ b \in lucky]]
Copying == {b \in Backups : backup[b].status = "RUNNING"}

\* An open school writes, or a request that was let in before the suspension.
Write ==
    /\ Here
    /\ school.status = "LIVE" \/ ~school.quiet
    /\ \E lucky \in SUBSET Copying : backup' = Written(lucky)
    /\ UNCHANGED <<school, restore, work, changes, kills, history>>

\* SETTLE_MS pass: who was let in before a suspension is done.
Settle ==
    /\ ~school.quiet
    /\ school' = [school EXCEPT !.quiet = TRUE]
    /\ UNCHANGED <<backup, restore, work, changes, kills, history>>

\* statusChangedAt: backups taken before it are not of the school as it is now.
Outdated == [b \in Backups |-> [backup[b] EXCEPT !.current = FALSE]]
Hurries == \E w \in Workers : work[w].at = "checked" /\ work[w].backup # NoBackup

SetStatus ==
    /\ Here /\ changes < MaxChanges
    /\ \E s \in {"LIVE", "SUSPENDED"} \ {school.status} :
          school' = [school EXCEPT !.status = s, !.quiet = FALSE]
    /\ backup' = Outdated
    /\ changes' = changes + 1
    /\ hurried' = (hurried \/ Hurries)
    /\ reopened' = (reopened \/ \E r \in Restores : Awaiting(r))
    /\ UNCHANGED <<restore, work, kills, lost, swept>>

-----------------------------------------------------------------------------
(* The operator.                                                           *)

Started(reason) == [NewBackup EXCEPT !.status = "RUNNING", !.reason = reason, !.current = TRUE,
                                     !.delete = (reason = "BEFORE_DELETE")]

\* Ids are handed out in order.
Fresh(b) == backup[b].status = "none" /\ \A c \in Backups : backup[c].status = "none" => b <= c

\* start, deleteWithBackup; one RUNNING backup per school by a unique index.
StartBackup(b, reason) ==
    /\ Here /\ Fresh(b) /\ ~RunningBackup
    /\ reason = "BEFORE_DELETE" => school.status = "SUSPENDED"
    /\ backup' = [backup EXCEPT ![b] = Started(reason)]
    /\ UNCHANGED <<school, restore, work, changes, kills, history>>

\* startRestore of a school that is gone.
StartRestore(r, b) ==
    /\ restore[r].status = "none" /\ backup[b].status = "READY"
    /\ ~Here /\ ~RunningRestore
    /\ restore' = [restore EXCEPT ![r] = [NewRestore EXCEPT !.status = "RUNNING", !.from = b]]
    /\ UNCHANGED <<school, backup, work, changes, kills, history>>

\* startRestore over the school that is here: suspend it and start its final
\* backup; or, when a backup runs already, put the status back; or, when a
\* restore runs already, be refused with the school suspended.
StartReplace(r, b, pre) ==
    /\ restore[r].status = "none" /\ backup[b].status = "READY"
    /\ Here /\ changes < MaxChanges
    /\ Fresh(pre)
    /\ school' = [school EXCEPT !.quiet = FALSE,
                                !.status = IF RunningBackup THEN school.status ELSE "SUSPENDED"]
    /\ backup' = IF RunningBackup THEN Outdated
                 ELSE [Outdated EXCEPT ![pre] = Started("BEFORE_REPLACE")]
    /\ restore' = IF RunningBackup \/ RunningRestore THEN restore
                  ELSE [restore EXCEPT ![r] =
                          [NewRestore EXCEPT !.status = "RUNNING", !.mode = "replace", !.from = b,
                                             !.pre = pre, !.previous = school.status,
                                             !.phase = "awaiting-backup"]]
    /\ changes' = changes + 1
    /\ hurried' = (hurried \/ Hurries)
    /\ reopened' = (reopened \/ \E q \in Restores : Awaiting(q))
    /\ UNCHANGED <<work, kills, lost, swept>>

\* A job that has ended keeps no state.
Ends(b, status) == [backup[b] EXCEPT !.status = status, !.lock = Nobody, !.done = 0, !.attempts = 0,
                                     !.full = @ /\ status = "READY", !.current = @ /\ status = "READY"]

\* The cron: expiresAt has passed.  A delete still to be done keeps its backup.
Expire ==
    /\ backup[Old].status = "READY"
    /\ backup' = [backup EXCEPT ![Old] = Ends(Old, "EXPIRED")]
    /\ UNCHANGED <<school, restore, work, changes, kills, history>>

-----------------------------------------------------------------------------
(* A step of a backup: lease, check and count; then the copy.              *)

\* The worker is done with a backup: with a restore around it, it goes on there.
Return(w) == work' = [work EXCEPT ![w] =
                        IF @.restore = NoRestore THEN Idle
                        ELSE [Idle EXCEPT !.at = "looked", !.restore = work[w].restore]]
Stop(w) == work' = [work EXCEPT ![w] = Idle]
Goes(w, at) == work' = [work EXCEPT ![w].at = at]

\* Mutant: tries are not counted.
NeverExhausted(attempts) == FALSE
Exhausted(attempts) == attempts >= MaxAttempts
OneMore(attempts) == IF attempts < MaxAttempts THEN attempts + 1 ELSE attempts

\* Mutant: the school need not be quiet.
NeverWaits(b) == TRUE
\* A copy of what is about to be removed waits for the school to be quiet.
MayStart(b) == backup[b].reason \in Final /\ backup[b].done = 0 => school.quiet

\* A waiting job's lease is held until SETTLE_MS have passed, by nobody.
Leasable(b) == /\ backup[b].status = "RUNNING" /\ backup[b].lock = Nobody
               /\ MayStart(b) \/ Exhausted(backup[b].attempts)

\* The attempt is counted before the work.  A copy that saved nothing starts over.
Step(w, b, r) ==
    /\ Leasable(b)
    /\ IF Exhausted(backup[b].attempts)
       THEN /\ backup' = [backup EXCEPT ![b] = Ends(b, "FAILED")]
            /\ work' = [work EXCEPT ![w].at = IF r = NoRestore THEN "idle" ELSE "looked",
                                    ![w].restore = r]
       ELSE /\ backup' = [backup EXCEPT ![b].lock = w, ![b].attempts = OneMore(@),
                                        ![b].full = @ \/ backup[b].done = 0]
            /\ work' = [work EXCEPT ![w].at = "copying", ![w].backup = b, ![w].restore = r]

StepBackup(w, b) ==
    /\ work[w].at = "idle"
    /\ Step(w, b, NoRestore)
    /\ UNCHANGED <<school, restore, changes, kills, history>>

\* The deadline: what was copied is saved, the job is let go.
CopyPart(w) ==
    LET b == work[w].backup IN
    /\ work[w].at = "copying" /\ backup[b].done + 1 < Parts
    /\ backup' = [backup EXCEPT ![b].done = @ + 1, ![b].attempts = 0, ![b].lock = Nobody]
    /\ Return(w)
    /\ UNCHANGED <<school, restore, changes, kills, history>>

\* The archive reads back: READY.  (The delete it was taken for: PickUpDelete.)
CopyLast(w) ==
    LET b == work[w].backup IN
    /\ work[w].at = "copying" /\ backup[b].done + 1 = Parts
    /\ backup' = [backup EXCEPT ![b] = Ends(b, "READY")]
    /\ Return(w)
    /\ UNCHANGED <<school, restore, changes, kills, history>>

CopyFails(w) ==
    /\ work[w].at = "copying"
    /\ backup' = [backup EXCEPT ![work[w].backup] = Ends(work[w].backup, "FAILED")]
    /\ Return(w)
    /\ UNCHANGED <<school, restore, changes, kills, history>>

-----------------------------------------------------------------------------
(* The delete a backup was taken for, and the delete without one of its own. *)

\* Rows go in one transaction, then files and the flag.
SchoolGone == [school EXCEPT !.status = "gone", !.quiet = TRUE, !.import = NoRestore]

\* Mutant: nobody looks whether the school is still there.
AlwaysGone == TRUE
SchoolIsGone == ~Here
MayDelete(b) == school.status = "SUSPENDED" /\ backup[b].current

\* finishPendingDelete, by the worker that finished the backup or by the cron,
\* which retries for ever.  A school taken off Suspended is kept; with a backup
\* older than its suspension it is refused and the flag stays.
PickUpDelete(w, b) ==
    /\ work[w].at = "idle" /\ backup[b].status = "READY" /\ backup[b].delete
    /\ \/ /\ SchoolIsGone
          /\ work' = [work EXCEPT ![w].at = "sweeping", ![w].backup = b] /\ UNCHANGED backup
       \/ /\ ~SchoolIsGone /\ MayDelete(b)
          /\ work' = [work EXCEPT ![w].at = "checked", ![w].backup = b] /\ UNCHANGED backup
       \/ /\ school.status = "LIVE"
          /\ backup' = [backup EXCEPT ![b].delete = FALSE] /\ UNCHANGED work
    /\ UNCHANGED <<school, restore, changes, kills, history>>

\* deleteSchoolNow for the operator: any backup since the suspension will do.
DeleteNow(w) ==
    /\ work[w].at = "idle" /\ school.status = "SUSPENDED"
    /\ \E b \in Backups : backup[b].status = "READY" /\ backup[b].current
    /\ Goes(w, "checked")
    /\ UNCHANGED <<school, backup, restore, changes, kills, history>>

\* purgeSchoolRows: nothing of a school that is open; a school that is gone is no error.
PurgeRows(w) ==
    LET job == IF work[w].backup = NoBackup THEN {} ELSE {"delete"} IN
    /\ work[w].at = "checked"
    /\ IF school.status = "LIVE" THEN Return(w) /\ UNCHANGED <<school, lost>>
       ELSE /\ school' = SchoolGone
            /\ lost' = IF Here /\ ~Saved THEN lost \union job ELSE lost
            /\ Goes(w, "sweeping")
    /\ UNCHANGED <<backup, restore, changes, kills, hurried, reopened, swept>>

PurgeFiles(w) ==
    LET b == work[w].backup IN
    /\ work[w].at = "sweeping"
    /\ school' = [school EXCEPT !.files = FALSE]
    /\ backup' = IF b = NoBackup THEN backup ELSE [backup EXCEPT ![b].delete = FALSE]
    /\ Stop(w)
    /\ UNCHANGED <<restore, changes, kills, history>>

-----------------------------------------------------------------------------
(* A step of a restore.                                                    *)

FailsRestore(r) == [restore EXCEPT ![r] = [NewRestore EXCEPT !.status = "FAILED", !.cut = restore[r].cut]]
Free(w, r) == work[w].at = "idle" /\ restore[r].status = "RUNNING" /\ restore[r].lock = Nobody

\* A restore that awaits the final backup steps it, or, when it has ended, goes on;
\* when another worker has it, or it waits, there is nothing to do.
StepAwaiting(w, r) ==
    LET pre == restore[r].pre IN
    /\ Free(w, r) /\ Awaiting(r)
    /\ \/ Step(w, pre, r)
       \/ /\ backup[pre].status # "RUNNING"
          /\ work' = [work EXCEPT ![w].at = "looked", ![w].restore = r]
          /\ UNCHANGED backup
    /\ restore' = [restore EXCEPT ![r].lock = w]
    /\ UNCHANGED <<school, changes, kills, history>>

\* Not there yet: let go.  Failed: the school is put back as it was.
AfterPre(w) ==
    LET r == work[w].restore
        pre == backup[restore[r].pre].status IN
    /\ work[w].at = "looked"
    /\ \/ /\ pre = "RUNNING"
          /\ restore' = [restore EXCEPT ![r].lock = Nobody]
          /\ Stop(w)
          /\ UNCHANGED <<school, backup, hurried>>
       \/ /\ pre = "READY"
          /\ Goes(w, "replacing")
          /\ UNCHANGED <<school, backup, restore, hurried>>
       \/ /\ pre \notin {"RUNNING", "READY"}
          /\ restore' = FailsRestore(r)
          /\ school' = IF Here THEN [school EXCEPT !.status = restore[r].previous, !.quiet = FALSE]
                       ELSE school
          /\ backup' = IF Here THEN Outdated ELSE backup
          /\ hurried' = (hurried \/ (Here /\ Hurries))
          /\ Stop(w)
    /\ UNCHANGED <<changes, kills, lost, reopened, swept>>

\* The archive cannot be read, the school is open again, its address is taken.
ReplaceFails(w) ==
    /\ work[w].at \in {"replacing", "emptying"}
    /\ restore' = FailsRestore(work[w].restore)
    /\ Stop(w)
    /\ UNCHANGED <<school, backup, changes, kills, history>>

ReplaceRows(w) ==
    /\ work[w].at = "replacing" /\ school.status # "LIVE"
    /\ school' = SchoolGone
    /\ lost' = IF Here /\ ~Saved THEN lost \union {"replace"} ELSE lost
    /\ Goes(w, "emptying")
    /\ UNCHANGED <<backup, restore, changes, kills, hurried, reopened, swept>>

\* Files, then the preflight of the import.
ReplaceFiles(w) ==
    LET r == work[w].restore IN
    /\ work[w].at = "emptying" /\ ~Here
    /\ school' = [school EXCEPT !.files = FALSE]
    /\ restore' = [restore EXCEPT ![r].phase = "import", ![r].pre = NoBackup, ![r].lock = Nobody]
    /\ Stop(w)
    /\ UNCHANGED <<backup, changes, kills, history>>

\* Mutant: what the failed step itself wrote is forgotten.
SavedOnly(reached, saved) == saved > 0
\* started: the School row was written, by this step or by one before it.
Begun(reached, saved) == reached > 0

\* rollbackImport: suspended, rows and files removed.  A failure of it is only logged.
Rollback(w, r, reached) ==
    /\ Stop(w)
    /\ \/ /\ school' = IF Begun(reached, restore[r].done)
                       THEN [SchoolGone EXCEPT !.files = FALSE] ELSE school
          /\ restore' = FailsRestore(r)
          /\ UNCHANGED kills
       \/ /\ Begun(reached, restore[r].done) /\ kills < MaxKills
          /\ school' = IF Here THEN [school EXCEPT !.status = "SUSPENDED"] ELSE school
          /\ restore' = [FailsRestore(r) EXCEPT ![r].cut = TRUE]
          /\ kills' = kills + 1

StepImport(w, r) ==
    /\ Free(w, r) /\ ~Awaiting(r)
    /\ IF Exhausted(restore[r].attempts)
       THEN Rollback(w, r, restore[r].done)
       ELSE /\ restore' = [restore EXCEPT ![r].lock = w, ![r].attempts = OneMore(@)]
            /\ work' = [work EXCEPT ![w].at = "importing", ![w].restore = r,
                                    ![w].reached = restore[r].done]
            /\ UNCHANGED <<school, kills>>
    /\ UNCHANGED <<backup, changes, history>>

\* What an import writes is in the backup it comes from.
Imported(r, lucky) ==
    [b \in Backups |-> [backup[b] EXCEPT
        !.full = IF Here THEN @ /\ b \in lucky \union {restore[r].from} ELSE b = restore[r].from,
        !.current = @ /\ Here]]
Sweeping == \E w \in Workers : work[w].at = "sweeping"
Reaches(w, n) == work' = [work EXCEPT ![w].reached = n]

\* The School row, SUSPENDED, unless an attempt before left it; then all rows.
ImportRows(w) ==
    LET r == work[w].restore IN
    /\ work[w].at = "importing" /\ work[w].reached = 0 /\ backup[restore[work[w].restore].from].status = "READY"
    /\ school' = IF Here THEN school
                 ELSE [school EXCEPT !.status = "SUSPENDED", !.quiet = FALSE, !.import = r]
    /\ \E lucky \in SUBSET Copying : backup' = Imported(r, lucky)
    /\ Reaches(w, 1)
    /\ swept' = (swept \/ Sweeping)
    /\ UNCHANGED <<restore, changes, kills, lost, hurried, reopened>>

ImportFiles(w) ==
    LET r == work[w].restore IN
    /\ work[w].at = "importing" /\ work[w].reached = 1 /\ backup[restore[work[w].restore].from].status = "READY"
    /\ school' = [school EXCEPT !.files = TRUE]
    /\ \E lucky \in SUBSET Copying : backup' = Imported(r, lucky)
    /\ Reaches(w, 2)
    /\ swept' = (swept \/ Sweeping)
    /\ UNCHANGED <<restore, changes, kills, lost, hurried, reopened>>

\* The deadline.
ImportSave(w) ==
    LET r == work[w].restore IN
    /\ work[w].at = "importing" /\ work[w].reached > restore[r].done
    /\ restore' = [restore EXCEPT ![r].done = work[w].reached, ![r].attempts = 0, ![r].lock = Nobody]
    /\ Stop(w)
    /\ UNCHANGED <<school, backup, changes, kills, history>>

\* Every row is there: the school gets the status it was restored for.
ImportFinish(w) ==
    LET r == work[w].restore IN
    /\ work[w].at = "importing" /\ work[w].reached = 2
    /\ Here
    /\ \E s \in {"LIVE", "SUSPENDED"} :
          school' = [school EXCEPT !.status = s, !.quiet = FALSE, !.import = NoRestore]
    /\ backup' = Outdated
    /\ restore' = [restore EXCEPT ![r] = [NewRestore EXCEPT !.status = "DONE"]]
    /\ Stop(w)
    /\ hurried' = (hurried \/ Hurries)
    /\ UNCHANGED <<changes, kills, lost, reopened, swept>>

ImportFails(w) ==
    /\ work[w].at = "importing"
    /\ Rollback(w, work[w].restore, work[w].reached)
    /\ UNCHANGED <<backup, changes, history>>

-----------------------------------------------------------------------------
(* The platform.                                                           *)

Counted == {"copying", "importing"}

\* A worker is cut off.  A first step of an import leaves what it wrote unrecorded.
Kill(w) ==
    LET r == work[w].restore
        unrecorded == work[w].at = "importing" /\ work[w].reached > 0 /\ restore[r].done = 0 IN
    /\ work[w].at # "idle"
    /\ kills' = IF work[w].at \in Counted THEN kills ELSE kills + 1
    /\ kills' <= MaxKills
    /\ restore' = IF unrecorded THEN [restore EXCEPT ![r].cut = TRUE] ELSE restore
    /\ Stop(w)
    /\ UNCHANGED <<school, backup, changes, history>>

\* LEASE_MS after it was taken by a worker that was cut off.
LapseBackup(b) ==
    /\ backup[b].lock # Nobody
    /\ ~(work[backup[b].lock].backup = b /\ work[backup[b].lock].at = "copying")
    /\ backup' = [backup EXCEPT ![b].lock = Nobody]
    /\ UNCHANGED <<school, restore, work, changes, kills, history>>

LapseRestore(r) ==
    /\ restore[r].lock # Nobody
    /\ work[restore[r].lock].restore # r
    /\ restore' = [restore EXCEPT ![r].lock = Nobody]
    /\ UNCHANGED <<school, backup, work, changes, kills, history>>

Operator ==
    \/ SetStatus
    \/ \E b \in Backups, reason \in {"MANUAL", "BEFORE_DELETE"} : StartBackup(b, reason)
    \/ \E r \in Restores, b \in Backups : StartRestore(r, b) \/ \E pre \in Backups : StartReplace(r, b, pre)

PickUp(w) ==
    \/ DeleteNow(w)
    \/ \E b \in Backups : StepBackup(w, b) \/ PickUpDelete(w, b)
    \/ \E r \in Restores : StepAwaiting(w, r) \/ StepImport(w, r)

Progress(w) ==
    \/ CopyPart(w) \/ CopyLast(w) \/ CopyFails(w)
    \/ PurgeRows(w) \/ PurgeFiles(w)
    \/ AfterPre(w) \/ ReplaceRows(w) \/ ReplaceFiles(w) \/ ReplaceFails(w)
    \/ ImportRows(w) \/ ImportFiles(w) \/ ImportSave(w) \/ ImportFinish(w) \/ ImportFails(w)

Next ==
    \/ Write \/ Settle \/ Operator \/ Expire
    \/ \E w \in Workers : PickUp(w) \/ Progress(w) \/ Kill(w)
    \/ \E b \in Backups : LapseBackup(b)
    \/ \E r \in Restores : LapseRestore(r)

\* The cron and the console poll every running job; time passes.
Spec ==
    /\ Init /\ [][Next]_vars
    /\ WF_vars(Settle)
    /\ \A w \in Workers : WF_vars(Progress(w))
    /\ \A b \in Backups : WF_vars(LapseBackup(b)) /\ SF_vars(\E w \in Workers : StepBackup(w, b))
    /\ \A r \in Restores :
          /\ WF_vars(LapseRestore(r))
          /\ SF_vars(\E w \in Workers : StepAwaiting(w, r) \/ StepImport(w, r))

-----------------------------------------------------------------------------
(* Properties.                                                             *)

\* finishPendingDelete and stepRestore of backups.service.ts: rows that no finished backup
\* holds are removed only when the school's row changed between a delete's check
\* and its purge, or the operator changed its status while a replace was waiting.
NothingLost ==
    /\ "delete" \in lost => hurried
    /\ "replace" \in lost => reopened

\* finishPendingDelete, purgeSchoolFiles: a school that is here, all of it, has its files,
\* unless an import ran while a delete was still removing them.
FilesKept == Here /\ school.import = NoRestore /\ ~swept => school.files

\* "nothing of the import was kept": what a failed restore wrote is gone again,
\* unless the rollback failed or a step was cut off before it saved that it began.
FailedRestoreLeavesNothing ==
    \A r \in Restores : restore[r].status = "FAILED" /\ ~restore[r].cut => school.import # r

\* MAX_ATTEMPTS: no job holds the school's one slot for ever, however often it is cut off.
JobsEnd ==
    /\ RunningBackup ~> ~RunningBackup
    /\ RunningRestore ~> ~RunningRestore
====
