---- MODULE BackupsProofs ----
(***************************************************************************)
(* What leases, the wait for late requests and the checks before a purge   *)
(* guarantee, for any number of workers, backups, restores, parts, tries,  *)
(* changes and failures.                                                   *)
(*                                                                         *)
(* The argument: a worker that works on a job has its lease, so a job is   *)
(* changed by one worker at a time and one restore runs; a final backup    *)
(* that is current was begun when the school was suspended and quiet, and  *)
(* nothing was written since; whoever purges for a delete or a replace     *)
(* looked at such a backup, and what may have changed since is excused.    *)
(***************************************************************************)
EXTENDS Backups, TLAPS

\* What each worker is in the middle of, it has the lease for.
Shape(w) ==
    /\ work[w].at = "idle" => work[w] = Idle
    /\ work[w].at \in {"checked", "sweeping"} => work[w].restore = NoRestore
    /\ work[w].at \in {"looked", "replacing", "emptying", "importing"} => work[w].restore # NoRestore
    /\ work[w].at = "copying" => work[w].backup # NoBackup

Holds(w) ==
    /\ work[w].at = "copying" =>
         /\ backup[work[w].backup].status = "RUNNING"
         /\ backup[work[w].backup].lock = w
    /\ work[w].restore # NoRestore =>
         LET r == restore[work[w].restore] IN
         /\ r.status = "RUNNING" /\ r.lock = w
         /\ work[w].at = "importing" <=> r.phase = "import"
         /\ work[w].at = "importing" => r.done <= work[w].reached

LeasesHeld == \A w \in Workers : Shape(w) /\ Holds(w)

OneRestore == \A q, r \in Restores :
    restore[q].status = "RUNNING" /\ restore[r].status = "RUNNING" => q = r

\* The old backup is nobody's final one.
OldStands == backup[Old].status \in {"READY", "EXPIRED"} /\ backup[Old].reason = "MANUAL"
FlagsFit == \A b \in Backups : backup[b].delete => backup[b].reason = "BEFORE_DELETE"

\* A school that is gone has no import, and one that is here while a restore imports is its.
Importing(r) == restore[r].status = "RUNNING" /\ restore[r].phase = "import"
ImportsFit ==
    /\ ~Here => school.import = NoRestore
    /\ \A r \in Restores : Importing(r) /\ Here => school.import = r

\* What a replace awaits is a backup taken for it.
AwaitsFit == \A r \in Restores : Awaiting(r) =>
    /\ restore[r].pre # NoBackup
    /\ backup[restore[r].pre].reason = "BEFORE_REPLACE"
    /\ backup[restore[r].pre].status # "none"

Fit == OneRestore /\ OldStands /\ FlagsFit /\ ImportsFit /\ AwaitsFit

\* A final backup that is current is of the school as it is.
Whole == Here /\ school.import = NoRestore
Live(b) == backup[b].status \in {"RUNNING", "READY"} /\ backup[b].reason \in Final /\ backup[b].current
Begins(b) == \/ backup[b].status = "READY" \/ backup[b].done > 0
             \/ \E w \in Workers : work[w].at = "copying" /\ work[w].backup = b
FinalCopies ==
    Whole => \A b \in Backups : Live(b) =>
        /\ school.status = "SUSPENDED"
        /\ Begins(b) => school.quiet /\ backup[b].full

\* A delete that goes on to purge has such a backup, unless it was excused.
DeletesLooked ==
    Whole /\ ~hurried => \A w \in Workers :
        work[w].at = "checked" /\ work[w].backup # NoBackup =>
            backup[work[w].backup].status = "READY" /\ Live(work[w].backup)

\* So has a replace.
ReplacesLooked ==
    /\ \A r \in Restores :
         Awaiting(r) /\ ~reopened /\ backup[restore[r].pre].status \in {"RUNNING", "READY"} =>
             backup[restore[r].pre].current
    /\ \A w \in Workers : work[w].at = "replacing" =>
         backup[restore[work[w].restore].pre].status = "READY"

LostInv == FinalCopies /\ DeletesLooked /\ ReplacesLooked /\ NothingLost

\* Files go with the school.
SweepsGone == ~swept => \A w \in Workers : work[w].at = "sweeping" => ~Here
FilesBack ==
    Here /\ ~swept => \A r \in Restores :
        Importing(r) /\ (restore[r].done = 2 \/ \E w \in Workers : work[w].restore = r /\ work[w].reached = 2)
            => school.files
FilesInv == SweepsGone /\ FilesBack /\ FilesKept

\* What an import has written is known to be its own, or it was cut off.
Known(r) ==
    \/ /\ Importing(r)
       /\ \/ restore[r].done > 0 \/ restore[r].cut
          \/ \E w \in Workers : work[w].restore = r /\ work[w].reached > 0
    \/ restore[r].status = "FAILED" /\ restore[r].cut
ImportsKnown == \A r \in Restores : school.import = r => Known(r)

-----------------------------------------------------------------------------
(* Types.                                                                  *)

SchoolType == [status : {"LIVE", "SUSPENDED", "gone"}, quiet : BOOLEAN, files : BOOLEAN,
               import : Restores \union {NoRestore}]
BackupType == [status : {"none", "RUNNING", "READY", "FAILED", "EXPIRED"},
               reason : Final \union {"MANUAL"}, delete : BOOLEAN, current : BOOLEAN,
               full : BOOLEAN, done : 0..Parts, attempts : 0..MaxAttempts,
               lock : Workers \union {Nobody}]
RestoreType == [status : {"none", "RUNNING", "DONE", "FAILED"}, mode : {"restore", "replace"},
                from : Backups, pre : Backups \union {NoBackup},
                previous : {"LIVE", "SUSPENDED"}, phase : {"awaiting-backup", "import"},
                done : 0..2, attempts : 0..MaxAttempts, lock : Workers \union {Nobody},
                cut : BOOLEAN]
WorkType == [at : {"idle", "copying", "checked", "sweeping", "looked", "replacing", "emptying",
                   "importing"},
             backup : Backups \union {NoBackup}, restore : Restores \union {NoRestore},
             reached : 0..2]
JobsTyped == /\ school \in SchoolType /\ backup \in [Backups -> BackupType]
             /\ restore \in [Restores -> RestoreType] /\ work \in [Workers -> WorkType]
RestTyped == /\ changes \in 0..MaxChanges /\ kills \in 0..MaxKills
             /\ lost \subseteq {"delete", "replace"}
             /\ hurried \in BOOLEAN /\ reopened \in BOOLEAN /\ swept \in BOOLEAN

LEMMA TypeSplit == TypeOK <=> JobsTyped /\ RestTyped
  BY DEF TypeOK, JobsTyped, RestTyped, SchoolType, BackupType, RestoreType, WorkType

\* Zero is a count of each kind.
LEMMA Zero == 0 \in 0..Parts /\ 0 \in 0..MaxAttempts /\ 0 \in 0..2 /\ 2 \in 0..2 /\ 1 \in 0..2
  BY BackupsAssumption

LEMMA NewTyped ==
    NewBackup \in BackupType /\ NewRestore \in RestoreType /\ Idle \in WorkType
  <1>1. NewBackup \in BackupType BY Zero DEF NewBackup, BackupType, Final
  <1>2. NewRestore \in RestoreType BY Zero, BackupsAssumption DEF NewRestore, RestoreType
  <1>3. Idle \in WorkType BY Zero DEF Idle, WorkType
  <1> QED BY <1>1, <1>2, <1>3

States == {"none", "RUNNING", "READY", "FAILED", "EXPIRED"}

\* What an update of a record leaves is one.
LEMMA BackupUpdates ==
    ASSUME NEW x \in BackupType
    PROVE  /\ \A n \in 0..Parts : [x EXCEPT !.done = n, !.attempts = 0, !.lock = Nobody] \in BackupType
           /\ [x EXCEPT !.current = FALSE] \in BackupType
           /\ [x EXCEPT !.delete = FALSE] \in BackupType
           /\ [x EXCEPT !.lock = Nobody] \in BackupType
           /\ \A f \in BOOLEAN : [x EXCEPT !.full = f] \in BackupType
           /\ \A f \in BOOLEAN, c \in BOOLEAN : [x EXCEPT !.full = f, !.current = c] \in BackupType
  BY Zero DEF BackupType

LEMMA EndsTyped ==
    ASSUME backup \in [Backups -> BackupType], NEW b \in Backups, NEW s \in States
    PROVE  Ends(b, s) \in BackupType
  <1>1. backup[b] \in BackupType /\ (s = "READY") \in BOOLEAN OBVIOUS
  <1>2. /\ (backup[b].full /\ s = "READY") \in BOOLEAN
        /\ (backup[b].current /\ s = "READY") \in BOOLEAN
    OBVIOUS
  <1>3. \A f \in BOOLEAN, c \in BOOLEAN :
            [backup[b] EXCEPT !.status = s, !.lock = Nobody, !.done = 0, !.attempts = 0,
                              !.full = f, !.current = c] \in BackupType
    BY <1>1, Zero DEF BackupType, States
  <1>4. Ends(b, s) = [backup[b] EXCEPT !.status = s, !.lock = Nobody, !.done = 0, !.attempts = 0,
                        !.full = backup[b].full /\ s = "READY",
                        !.current = backup[b].current /\ s = "READY"]
    BY <1>1 DEF Ends, BackupType
  <1> QED BY <1>2, <1>3, <1>4

LEMMA OneMoreTyped == ASSUME NEW n \in 0..MaxAttempts PROVE OneMore(n) \in 0..MaxAttempts
  BY BackupsAssumption DEF OneMore

LEMMA LeaseTyped ==
    ASSUME backup \in [Backups -> BackupType], NEW b \in Backups, NEW w \in Workers
    PROVE  [backup EXCEPT ![b].lock = w, ![b].attempts = OneMore(@),
                          ![b].full = @ \/ backup[b].done = 0] \in [Backups -> BackupType]
  <1>1. backup[b].attempts \in 0..MaxAttempts BY DEF BackupType
  <1>2. OneMore(backup[b].attempts) \in 0..MaxAttempts BY <1>1, OneMoreTyped
  <1>3. [backup[b] EXCEPT !.lock = w, !.attempts = OneMore(@), !.full = @ \/ backup[b].done = 0]
          \in BackupType
    BY <1>2 DEF BackupType
  <1> QED BY <1>3

LEMMA StartedTyped ==
    ASSUME NEW reason \in Final \union {"MANUAL"} PROVE Started(reason) \in BackupType
  BY Zero DEF Started, NewBackup, BackupType

LEMMA RestoreUpdates ==
    ASSUME NEW x \in RestoreType
    PROVE  /\ \A k \in Workers \union {Nobody} : [x EXCEPT !.lock = k] \in RestoreType
           /\ [x EXCEPT !.cut = TRUE] \in RestoreType
           /\ [x EXCEPT !.phase = "import", !.pre = NoBackup, !.lock = Nobody] \in RestoreType
           /\ \A n \in 0..2 : [x EXCEPT !.done = n, !.attempts = 0, !.lock = Nobody] \in RestoreType
           /\ \A w \in Workers : [x EXCEPT !.lock = w, !.attempts = OneMore(@)] \in RestoreType
  <1>1. x.attempts \in 0..MaxAttempts BY DEF RestoreType
  <1>2. OneMore(x.attempts) \in 0..MaxAttempts BY <1>1, OneMoreTyped
  <1> QED BY <1>2, Zero DEF RestoreType

LEMMA RestoreBegins ==
    /\ \A b \in Backups : [NewRestore EXCEPT !.status = "RUNNING", !.from = b] \in RestoreType
    /\ \A b \in Backups, p \in Backups, s \in {"LIVE", "SUSPENDED"} :
          [NewRestore EXCEPT !.status = "RUNNING", !.mode = "replace", !.from = b, !.pre = p,
                             !.previous = s, !.phase = "awaiting-backup"] \in RestoreType
    /\ [NewRestore EXCEPT !.status = "DONE"] \in RestoreType
    /\ \A c \in BOOLEAN : [NewRestore EXCEPT !.status = "FAILED", !.cut = c] \in RestoreType
  BY Zero, BackupsAssumption DEF NewRestore, RestoreType

Places == {"idle", "copying", "checked", "sweeping", "looked", "replacing", "emptying", "importing"}

LEMMA GoesTyped ==
    ASSUME work \in [Workers -> WorkType], NEW w \in Workers,
           NEW at \in Places
    PROVE  [work EXCEPT ![w].at = at] \in [Workers -> WorkType]
  <1>1. [work[w] EXCEPT !.at = at] \in WorkType BY DEF WorkType, Places
  <1> QED BY <1>1

LEMMA ReachesTyped ==
    ASSUME work \in [Workers -> WorkType], NEW w \in Workers,
           NEW n \in 0..2
    PROVE  [work EXCEPT ![w].reached = n] \in [Workers -> WorkType]
  <1>1. [work[w] EXCEPT !.reached = n] \in WorkType BY DEF WorkType, Places
  <1> QED BY <1>1

LEMMA ToBackup ==
    ASSUME work \in [Workers -> WorkType], NEW w \in Workers,
           NEW at \in Places, NEW b \in Backups \union {NoBackup}
    PROVE  [work EXCEPT ![w].at = at, ![w].backup = b] \in [Workers -> WorkType]
  <1>1. [work[w] EXCEPT !.at = at, !.backup = b] \in WorkType BY DEF WorkType, Places
  <1> QED BY <1>1

LEMMA ToRestore ==
    ASSUME work \in [Workers -> WorkType], NEW w \in Workers,
           NEW at \in Places, NEW r \in Restores \union {NoRestore}
    PROVE  [work EXCEPT ![w].at = at, ![w].restore = r] \in [Workers -> WorkType]
  <1>1. [work[w] EXCEPT !.at = at, !.restore = r] \in WorkType BY DEF WorkType, Places
  <1> QED BY <1>1

LEMMA ToStep ==
    ASSUME work \in [Workers -> WorkType], NEW w \in Workers,
           NEW at \in Places, NEW b \in Backups \union {NoBackup}, NEW r \in Restores \union {NoRestore}
    PROVE  [work EXCEPT ![w].at = at, ![w].backup = b, ![w].restore = r] \in [Workers -> WorkType]
  <1>1. [work[w] EXCEPT !.at = at, !.backup = b, !.restore = r] \in WorkType BY DEF WorkType, Places
  <1> QED BY <1>1

LEMMA ToImport ==
    ASSUME work \in [Workers -> WorkType], NEW w \in Workers,
           NEW at \in Places, NEW r \in Restores \union {NoRestore}, NEW n \in 0..2
    PROVE  [work EXCEPT ![w].at = at, ![w].restore = r, ![w].reached = n] \in [Workers -> WorkType]
  <1>1. [work[w] EXCEPT !.at = at, !.restore = r, !.reached = n] \in WorkType BY DEF WorkType, Places
  <1> QED BY <1>1

LEMMA StopTyped ==
    ASSUME work \in [Workers -> WorkType], NEW w \in Workers
    PROVE  [work EXCEPT ![w] = Idle] \in [Workers -> WorkType]
  BY NewTyped

LEMMA ReturnTyped ==
    ASSUME work \in [Workers -> WorkType], NEW w \in Workers, Return(w)
    PROVE  work' \in [Workers -> WorkType]
  <1> DEFINE next == [Idle EXCEPT !.at = "looked", !.restore = work[w].restore]
  <1>1. work[w].restore \in Restores \union {NoRestore} BY DEF WorkType
  <1>2. next \in WorkType BY <1>1, Zero DEF Idle, WorkType
  <1>3. work' = [work EXCEPT ![w] = IF work[w].restore = NoRestore THEN Idle ELSE next] BY DEF Return
  <1> HIDE DEF next
  <1> QED BY <1>2, <1>3, NewTyped

LEMMA SchoolUpdates ==
    ASSUME NEW x \in SchoolType, NEW s \in {"LIVE", "SUSPENDED", "gone"}, NEW q \in BOOLEAN
    PROVE  /\ [x EXCEPT !.quiet = q] \in SchoolType
           /\ [x EXCEPT !.files = q] \in SchoolType
           /\ [x EXCEPT !.status = s] \in SchoolType
           /\ [x EXCEPT !.status = s, !.quiet = q] \in SchoolType
           /\ [x EXCEPT !.quiet = q, !.status = s] \in SchoolType
           /\ [x EXCEPT !.status = s, !.quiet = q, !.import = NoRestore] \in SchoolType
           /\ \A r \in Restores : [x EXCEPT !.status = s, !.quiet = q, !.import = r] \in SchoolType
           /\ [[x EXCEPT !.status = s, !.quiet = TRUE, !.import = NoRestore] EXCEPT !.files = q] \in SchoolType
  BY DEF SchoolType

-----------------------------------------------------------------------------
(* Every action keeps the types, the leases and what fits together.        *)

Jobs == JobsTyped /\ LeasesHeld /\ Fit

LEMMA InitJobs == ASSUME Init PROVE Jobs
  <1> USE BackupsAssumption DEF Init
  <1>a. school \in SchoolType
    <2>1. PICK s \in {"LIVE", "gone"} :
            school = [status |-> s, quiet |-> TRUE, files |-> s = "LIVE", import |-> NoRestore]
      OBVIOUS
    <2>2. CASE s = "LIVE"
      <3>1. school = [status |-> "LIVE", quiet |-> TRUE, files |-> TRUE, import |-> NoRestore]
        BY <2>1, <2>2
      <3> QED BY <3>1 DEF SchoolType
    <2>3. CASE s = "gone"
      <3>1. school = [status |-> "gone", quiet |-> TRUE, files |-> FALSE, import |-> NoRestore]
        BY <2>1, <2>3
      <3> QED BY <3>1 DEF SchoolType
    <2> QED BY <2>2, <2>3
  <1>b. [NewBackup EXCEPT !.status = "READY"] \in BackupType BY Zero DEF NewBackup, BackupType, Final
  <1>1. JobsTyped BY <1>a, <1>b, NewTyped DEF JobsTyped
  <1>2. LeasesHeld BY DEF LeasesHeld, Shape, Holds, Idle
  <1>3. Fit
    BY DEF Fit, OneRestore, OldStands, FlagsFit, ImportsFit, AwaitsFit, Importing, Awaiting, NewRestore, NewBackup
  <1> QED BY <1>1, <1>2, <1>3 DEF Jobs

\* A change of what backups hold is none of their leases.
LEMMA SameLeases ==
    ASSUME JobsTyped, LeasesHeld, UNCHANGED <<restore, work>>, JobsTyped',
           \A b \in Backups : backup'[b].status = backup[b].status /\ backup'[b].lock = backup[b].lock
    PROVE  LeasesHeld'
  BY DEF JobsTyped, LeasesHeld, Shape, Holds, WorkType

\* What backups are for does not change, restores go on as they were, and so does the import.
SameReasons ==
    \A b \in Backups :
        /\ backup'[b].reason = backup[b].reason
        /\ backup'[b].status # backup[b].status =>
             \/ backup[b].status = "RUNNING" /\ backup'[b].status \in {"READY", "FAILED"}
             \/ b = Old /\ backup'[b].status = "EXPIRED"
        /\ backup'[b].delete => backup[b].delete
SameRestores ==
    \A r \in Restores : restore'[r].status = "RUNNING" =>
        /\ restore[r].status = "RUNNING"
        /\ restore'[r].phase = restore[r].phase /\ restore'[r].pre = restore[r].pre
SameImport == (Here' <=> Here) /\ school'.import = school.import

LEMMA BackupsFit == ASSUME Jobs, SameReasons PROVE (OldStands /\ FlagsFit)'
  <1> USE DEF Jobs, Fit, SameReasons
  <1>1. OldStands' BY BackupsAssumption DEF OldStands
  <1>2. FlagsFit' BY DEF FlagsFit
  <1> QED BY <1>1, <1>2

LEMMA AwaitsStill == ASSUME Jobs, SameReasons, SameRestores PROVE AwaitsFit'
  <1> SUFFICES ASSUME NEW r \in Restores, Awaiting(r)'
               PROVE  (/\ restore[r].pre # NoBackup
                       /\ backup[restore[r].pre].reason = "BEFORE_REPLACE"
                       /\ backup[restore[r].pre].status # "none")'
    BY DEF AwaitsFit
  <1>1. Awaiting(r) /\ restore'[r].pre = restore[r].pre BY DEF SameRestores, Awaiting
  <1>2. restore[r].pre \in Backups BY <1>1 DEF Jobs, Fit, AwaitsFit, JobsTyped, RestoreType
  <1> QED BY <1>1, <1>2 DEF Jobs, Fit, AwaitsFit, SameReasons

LEMMA RestoresStill == ASSUME Jobs, SameRestores PROVE OneRestore'
  BY DEF Jobs, Fit, OneRestore, SameRestores

LEMMA ImportsStill == ASSUME Jobs, SameRestores, SameImport PROVE ImportsFit'
  BY DEF Jobs, Fit, ImportsFit, Importing, SameRestores, SameImport

LEMMA StillFit == ASSUME Jobs, SameReasons, SameRestores, SameImport PROVE Fit'
  BY BackupsFit, AwaitsStill, RestoresStill, ImportsStill DEF Fit

LEMMA WriteJobs == ASSUME Jobs, Write PROVE Jobs'
  <1> USE DEF Jobs, JobsTyped, Write
  <1> PICK lucky \in SUBSET Copying : backup' = Written(lucky) OBVIOUS
  <1>1. JobsTyped'
    <2>1. \A b \in Backups : (backup[b].full /\ b \in lucky) \in BOOLEAN OBVIOUS
    <2> QED BY <2>1, BackupUpdates DEF Written
  <1>2. LeasesHeld' BY <1>1, SameLeases DEF Written, BackupType
  <1>3. SameReasons BY DEF SameReasons, Written, BackupType
  <1>4. SameRestores BY DEF SameRestores
  <1>5. SameImport BY DEF SameImport, Here
  <1> QED BY <1>1, <1>2, <1>3, <1>4, <1>5, StillFit

LEMMA SettleJobs == ASSUME Jobs, Settle PROVE Jobs'
  <1> USE DEF Jobs, JobsTyped, Settle
  <1>1. JobsTyped' BY SchoolUpdates
  <1>2. LeasesHeld' BY DEF LeasesHeld, Shape, Holds
  <1>3. SameReasons BY DEF SameReasons
  <1>4. SameRestores BY DEF SameRestores
  <1>5. SameImport BY DEF SameImport, Here, SchoolType
  <1> QED BY <1>1, <1>2, <1>3, <1>4, <1>5, StillFit

LEMMA SetStatusJobs == ASSUME Jobs, SetStatus PROVE Jobs'
  <1> USE DEF Jobs, JobsTyped, SetStatus
  <1>1. JobsTyped' BY SchoolUpdates, BackupUpdates DEF Outdated
  <1>2. LeasesHeld' BY <1>1, SameLeases DEF Outdated, BackupType
  <1>3. SameReasons BY DEF SameReasons, Outdated, BackupType
  <1>4. SameRestores BY DEF SameRestores
  <1>5. SameImport BY DEF SameImport, Here, SchoolType
  <1> QED BY <1>1, <1>2, <1>3, <1>4, <1>5, StillFit

LEMMA StartBackupJobs ==
    ASSUME Jobs, NEW b \in Backups, NEW reason \in {"MANUAL", "BEFORE_DELETE"}, StartBackup(b, reason)
    PROVE  Jobs'
  <1> USE DEF Jobs, JobsTyped, StartBackup
  <1>1. JobsTyped' BY StartedTyped DEF Final
  <1>2. LeasesHeld' BY DEF LeasesHeld, Shape, Holds, Fresh, BackupType
  <1>3. (OneRestore /\ ImportsFit)'
    BY DEF Fit, OneRestore, ImportsFit, Importing, Here
  <1>4. OldStands' BY BackupsAssumption DEF Fit, OldStands, Fresh
  <1>5. FlagsFit' BY DEF Fit, FlagsFit, Started, NewBackup
  <1>6. AwaitsFit' BY DEF Fit, AwaitsFit, Awaiting, Fresh, RestoreType
  <1> QED BY <1>1, <1>2, <1>3, <1>4, <1>5, <1>6 DEF Fit

LEMMA StartRestoreJobs ==
    ASSUME Jobs, NEW r \in Restores, NEW b \in Backups, StartRestore(r, b) PROVE Jobs'
  <1> USE DEF Jobs, JobsTyped, StartRestore
  <1>1. JobsTyped' BY RestoreBegins
  <1>2. LeasesHeld' BY DEF LeasesHeld, Shape, Holds, WorkType
  <1>3. SameReasons BY DEF SameReasons
  <1>4. OneRestore' BY DEF Fit, OneRestore, RunningRestore
  <1>5. ImportsFit' BY DEF Fit, ImportsFit, Importing, Here
  <1>6. AwaitsFit' BY DEF Fit, AwaitsFit, Awaiting, NewRestore
  <1> QED BY <1>1, <1>2, <1>3, <1>4, <1>5, <1>6, BackupsFit DEF Fit

LEMMA StartReplaceJobs ==
    ASSUME Jobs, NEW r \in Restores, NEW b \in Backups, NEW pre \in Backups, StartReplace(r, b, pre)
    PROVE  Jobs'
  <1> USE DEF Jobs, JobsTyped, StartReplace
  <1>0. school.status \in {"LIVE", "SUSPENDED"} BY DEF Here, SchoolType
  <1>1. JobsTyped'
    <2>1. school' \in SchoolType BY <1>0, SchoolUpdates
    <2>2. backup' \in [Backups -> BackupType] BY BackupUpdates, StartedTyped DEF Outdated, Final
    <2>3. restore' \in [Restores -> RestoreType] BY <1>0, RestoreBegins
    <2> QED BY <2>1, <2>2, <2>3
  <1>2. LeasesHeld' BY DEF LeasesHeld, Shape, Holds, Fresh, Outdated, BackupType, WorkType
  <1>3. OneRestore' BY DEF Fit, OneRestore, RunningRestore
  <1>4. OldStands'
    BY BackupsAssumption DEF Fit, OldStands, Fresh, Outdated, BackupType
  <1>6. FlagsFit'
    <2>1. Started("BEFORE_REPLACE").delete = FALSE BY DEF Started, NewBackup
    <2>2. \A c \in Backups : Outdated[c].delete = backup[c].delete /\ Outdated[c].reason = backup[c].reason
      BY DEF Outdated, BackupType
    <2>3. CASE RunningBackup BY <2>2, <2>3 DEF Fit, FlagsFit
    <2>4. CASE ~RunningBackup BY <2>1, <2>2, <2>4 DEF Fit, FlagsFit, Outdated
    <2> QED BY <2>3, <2>4
  <1>5. ImportsFit' BY <1>0 DEF Fit, ImportsFit, Importing, Here, NewRestore, SchoolType
  <1>7. AwaitsFit'
    <2>1. /\ Started("BEFORE_REPLACE").status = "RUNNING"
          /\ Started("BEFORE_REPLACE").reason = "BEFORE_REPLACE"
      BY DEF Started, NewBackup
    <2>2. \A c \in Backups : Outdated[c].status = backup[c].status /\ Outdated[c].reason = backup[c].reason
      BY DEF Outdated, BackupType
    <2>3. CASE RunningBackup BY <2>2, <2>3 DEF Fit, AwaitsFit, Awaiting, RestoreType
    <2>4. CASE ~RunningBackup
      <3> SUFFICES ASSUME NEW q \in Restores, Awaiting(q)'
                   PROVE  (/\ restore[q].pre # NoBackup
                           /\ backup[restore[q].pre].reason = "BEFORE_REPLACE"
                           /\ backup[restore[q].pre].status # "none")'
        BY DEF AwaitsFit
      <3>1. \A c \in Backups \ {pre} : backup'[c] = Outdated[c] BY <2>4
      <3>2. backup'[pre] = Started("BEFORE_REPLACE") BY <2>4 DEF Outdated
      <3>3. CASE restore'[q] = restore[q]
        <4>1. Awaiting(q) /\ restore[q].pre \in Backups BY <3>3 DEF Awaiting, Fit, AwaitsFit, RestoreType
        <4>2. restore[q].pre # pre BY <4>1 DEF Fit, AwaitsFit, Fresh
        <4>3. backup'[restore[q].pre] = Outdated[restore[q].pre] BY <3>1, <4>1, <4>2
        <4>4. /\ restore[q].pre # NoBackup
              /\ backup[restore[q].pre].reason = "BEFORE_REPLACE"
              /\ backup[restore[q].pre].status # "none"
          BY <4>1 DEF Fit, AwaitsFit
        <4> QED BY <2>2, <3>3, <4>1, <4>3, <4>4, ZenonT(30)
      <3>4. CASE restore'[q] # restore[q]
        <4>1. restore'[q].pre = pre BY <3>4 DEF NewRestore
        <4> QED BY <2>1, <3>2, <4>1, BackupsAssumption
      <3> QED BY <3>3, <3>4
    <2> QED BY <2>3, <2>4
  <1> QED BY <1>1, <1>2, <1>3, <1>4, <1>5, <1>6, <1>7 DEF Fit

LEMMA ExpireJobs == ASSUME Jobs, Expire PROVE Jobs'
  <1> USE DEF Jobs, JobsTyped, Expire
  <1>0. Old \in Backups BY BackupsAssumption
  <1>1. JobsTyped' BY <1>0, EndsTyped DEF States
  <1>2. LeasesHeld' BY <1>0 DEF LeasesHeld, Shape, Holds
  <1>3. SameReasons BY DEF SameReasons, Ends, BackupType
  <1>4. SameRestores BY DEF SameRestores
  <1>5. SameImport BY DEF SameImport, Here
  <1> QED BY <1>1, <1>2, <1>3, <1>4, <1>5, StillFit

\* A step of a backup by a worker that is about to lease it, for itself or for a restore.
LEMMA StepTyped ==
    ASSUME JobsTyped, NEW w \in Workers, NEW b \in Backups, NEW r \in Restores \union {NoRestore},
           Step(w, b, r)
    PROVE  backup' \in [Backups -> BackupType] /\ work' \in [Workers -> WorkType]
  <1> USE DEF JobsTyped
  <1>1. CASE Exhausted(backup[b].attempts)
    <2>1. backup' = [backup EXCEPT ![b] = Ends(b, "FAILED")] BY <1>1 DEF Step
    <2>2. backup' \in [Backups -> BackupType] BY <2>1, EndsTyped DEF States
    <2>3. PICK at \in Places : work' = [work EXCEPT ![w].at = at, ![w].restore = r]
      BY <1>1 DEF Step, Places
    <2>4. work' \in [Workers -> WorkType] BY <2>3, ToRestore
    <2> QED BY <2>2, <2>4
  <1>2. CASE ~Exhausted(backup[b].attempts)
    <2>1. backup' = [backup EXCEPT ![b].lock = w, ![b].attempts = OneMore(@),
                                   ![b].full = @ \/ backup[b].done = 0]
      BY <1>2 DEF Step
    <2>2. backup' \in [Backups -> BackupType] BY <2>1, LeaseTyped
    <2>3. "copying" \in Places /\ b \in Backups \union {NoBackup} BY DEF Places
    <2>4. work' = [work EXCEPT ![w].at = "copying", ![w].backup = b, ![w].restore = r]
      BY <1>2 DEF Step
    <2>5. work' \in [Workers -> WorkType] BY <2>3, <2>4, ToStep
    <2> QED BY <2>2, <2>5
  <1> QED BY <1>1, <1>2

LEMMA StepReasons == ASSUME JobsTyped, NEW w, NEW b \in Backups, NEW r, Step(w, b, r) PROVE SameReasons
  <1> USE DEF JobsTyped
  <1>1. CASE Exhausted(backup[b].attempts)
    <2>1. backup' = [backup EXCEPT ![b] = Ends(b, "FAILED")] /\ backup[b].status = "RUNNING"
      BY <1>1 DEF Step, Leasable
    <2>2. /\ Ends(b, "FAILED").reason = backup[b].reason
          /\ Ends(b, "FAILED").status = "FAILED"
          /\ Ends(b, "FAILED").delete = backup[b].delete
      BY DEF Ends, BackupType
    <2> QED BY <2>1, <2>2 DEF SameReasons
  <1>2. CASE ~Exhausted(backup[b].attempts) BY <1>2 DEF Step, SameReasons, BackupType
  <1> QED BY <1>1, <1>2

LEMMA StepBackupJobs ==
    ASSUME Jobs, NEW w \in Workers, NEW b \in Backups, StepBackup(w, b) PROVE Jobs'
  <1> USE DEF Jobs, JobsTyped, StepBackup
  <1>1. JobsTyped' BY StepTyped
  <1>2. LeasesHeld'
    BY BackupsAssumption, SMTT(30)
    DEF LeasesHeld, Shape, Holds, Step, Leasable, Ends, Idle, BackupType, WorkType
  <1>3. SameReasons BY StepReasons
  <1>4. SameRestores /\ SameImport BY DEF SameRestores, SameImport, Here
  <1> QED BY <1>1, <1>2, <1>3, <1>4, StillFit

LEMMA CopyPartJobs == ASSUME Jobs, NEW w \in Workers, CopyPart(w) PROVE Jobs'
  <1> USE DEF Jobs, JobsTyped, CopyPart, Return
  <1>0. work[w].backup \in Backups BY DEF LeasesHeld, Shape, WorkType
  <1>1. JobsTyped'
    <2>1. backup[work[w].backup].done + 1 \in 0..Parts BY <1>0, BackupsAssumption DEF BackupType
    <2>2. backup' \in [Backups -> BackupType] BY <1>0, <2>1, BackupUpdates
    <2>3. work' \in [Workers -> WorkType] BY ReturnTyped DEF Return
    <2> QED BY <2>2, <2>3
  <1> DEFINE b == work[w].backup
  <1>2. /\ \A c \in Backups : c # b => backup'[c] = backup[c]
        /\ backup'[b].status = backup[b].status /\ backup'[b].reason = backup[b].reason
        /\ backup'[b].delete = backup[b].delete
        /\ backup[b].lock = w
    BY <1>0 DEF BackupType, LeasesHeld, Holds
  <1>3. LeasesHeld'
    <2>1. /\ work'[w].at \in {"idle", "looked"} /\ work'[w].restore = work[w].restore
          /\ work'[w].at = "idle" => work'[w] = Idle
          /\ work'[w].at = "looked" => work'[w].restore # NoRestore
      BY DEF WorkType, Idle
    <2>2. Shape(w) /\ Holds(w) BY DEF LeasesHeld
    <2>3. (Shape(w) /\ Holds(w))' BY <2>1, <2>2 DEF Shape, Holds
    <2>4. ASSUME NEW v \in Workers, v # w PROVE (Shape(v) /\ Holds(v))'
      <3>1. work'[v] = work[v] BY <2>4
      <3>2. Shape(v) /\ Holds(v) /\ work[v].backup \in Backups \union {NoBackup}
        BY DEF LeasesHeld, WorkType
      <3>3. work[v].at = "copying" => work[v].backup \in Backups /\ work[v].backup # b
        BY <1>2, <2>4, <3>2 DEF Shape, Holds
      <3> QED BY <1>2, <3>1, <3>2, <3>3 DEF Shape, Holds
    <2> QED BY <2>3, <2>4 DEF LeasesHeld
  <1>4. SameReasons BY <1>2 DEF SameReasons
  <1>5. SameRestores /\ SameImport BY DEF SameRestores, SameImport, Here
  <1> QED BY <1>1, <1>3, <1>4, <1>5, StillFit

\* A copy that has ended, well or not.
LEMMA CopyEndsJobs ==
    ASSUME Jobs, NEW w \in Workers, NEW s \in {"READY", "FAILED"}, work[w].at = "copying",
           backup' = [backup EXCEPT ![work[w].backup] = Ends(work[w].backup, s)],
           Return(w), UNCHANGED <<school, restore>>
    PROVE  Jobs'
  <1> USE DEF Jobs, JobsTyped, Return
  <1>0. work[w].backup \in Backups BY DEF LeasesHeld, Shape, WorkType
  <1>1. JobsTyped'
    <2>2. backup' \in [Backups -> BackupType] BY <1>0, EndsTyped DEF States
    <2>3. work' \in [Workers -> WorkType] BY ReturnTyped DEF Return
    <2> QED BY <2>2, <2>3
  <1>2. LeasesHeld' BY <1>0 DEF LeasesHeld, Shape, Holds, Idle, Ends, BackupType, WorkType, RestoreType
  <1>3. SameReasons BY <1>0 DEF SameReasons, LeasesHeld, Holds, Ends, BackupType
  <1>4. SameRestores /\ SameImport BY DEF SameRestores, SameImport, Here
  <1> QED BY <1>1, <1>2, <1>3, <1>4, StillFit

LEMMA CopyLastJobs == ASSUME Jobs, NEW w \in Workers, CopyLast(w) PROVE Jobs'
  BY CopyEndsJobs DEF CopyLast

LEMMA CopyFailsJobs == ASSUME Jobs, NEW w \in Workers, CopyFails(w) PROVE Jobs'
  BY CopyEndsJobs DEF CopyFails

LEMMA PickUpDeleteJobs ==
    ASSUME Jobs, NEW w \in Workers, NEW b \in Backups, PickUpDelete(w, b) PROVE Jobs'
  <1> USE DEF Jobs, JobsTyped, PickUpDelete
  <1>1. JobsTyped'
    <2>1. b \in Backups \union {NoBackup} /\ "sweeping" \in Places /\ "checked" \in Places
      BY DEF Places
    <2>2. CASE UNCHANGED backup /\ work' = [work EXCEPT ![w].at = "sweeping", ![w].backup = b]
      BY <2>1, <2>2, ToBackup
    <2>3. CASE UNCHANGED backup /\ work' = [work EXCEPT ![w].at = "checked", ![w].backup = b]
      BY <2>1, <2>3, ToBackup
    <2>4. CASE backup' = [backup EXCEPT ![b].delete = FALSE] /\ UNCHANGED work
      BY <2>4, BackupUpdates
    <2> QED BY <2>2, <2>3, <2>4
  <1>2. LeasesHeld'
    <2>1. CASE UNCHANGED work BY <1>1, <2>1, SameLeases DEF BackupType
    <2>2. CASE UNCHANGED backup BY <2>2 DEF LeasesHeld, Shape, Holds, Idle, WorkType
    <2> QED BY <2>1, <2>2
  <1>3. SameReasons BY DEF SameReasons, BackupType
  <1>4. SameRestores /\ SameImport BY DEF SameRestores, SameImport, Here
  <1> QED BY <1>1, <1>2, <1>3, <1>4, StillFit

LEMMA DeleteNowJobs == ASSUME Jobs, NEW w \in Workers, DeleteNow(w) PROVE Jobs'
  <1> USE DEF Jobs, JobsTyped, DeleteNow, Goes
  <1>1. JobsTyped' BY GoesTyped DEF Places
  <1>2. LeasesHeld' BY DEF LeasesHeld, Shape, Holds, Idle, BackupType, WorkType
  <1>3. SameReasons BY DEF SameReasons, BackupType
  <1>4. SameRestores /\ SameImport BY DEF SameRestores, SameImport, Here
  <1> QED BY <1>1, <1>2, <1>3, <1>4, StillFit

LEMMA PurgeRowsJobs == ASSUME Jobs, NEW w \in Workers, PurgeRows(w) PROVE Jobs'
  <1> USE DEF Jobs, JobsTyped
  <1>1. CASE school.status = "LIVE"
    <2>0. UNCHANGED <<school, backup, restore>> /\ Return(w) BY <1>1 DEF PurgeRows
    <2>1. JobsTyped' BY <2>0, ReturnTyped
    <2>2. LeasesHeld'
      BY <2>0 DEF PurgeRows, Return, LeasesHeld, Shape, Holds, Idle, WorkType
    <2>3. SameReasons /\ SameRestores /\ SameImport
      BY <2>0 DEF SameReasons, SameRestores, SameImport, Here
    <2> QED BY <2>1, <2>2, <2>3, StillFit
  <1>2. CASE school.status # "LIVE"
    <2>0. /\ UNCHANGED <<backup, restore>> /\ school' = SchoolGone
          /\ work' = [work EXCEPT ![w].at = "sweeping"] /\ work[w].at = "checked"
      BY <1>2 DEF PurgeRows, Goes
    <2>1. JobsTyped' BY <2>0, GoesTyped, SchoolUpdates DEF Places, SchoolGone
    <2>2. LeasesHeld' BY <2>0 DEF LeasesHeld, Shape, Holds, WorkType
    <2>3. SameReasons /\ SameRestores BY <2>0 DEF SameReasons, SameRestores
    <2>4. ImportsFit' BY <2>0 DEF ImportsFit, Here, SchoolGone, SchoolType
    <2> QED BY <2>1, <2>2, <2>3, <2>4, BackupsFit, AwaitsStill, RestoresStill DEF Fit
  <1> QED BY <1>1, <1>2

LEMMA PurgeFilesJobs == ASSUME Jobs, NEW w \in Workers, PurgeFiles(w) PROVE Jobs'
  <1> USE DEF Jobs, JobsTyped, PurgeFiles, Stop
  <1>1. JobsTyped' BY SchoolUpdates, BackupUpdates, StopTyped
  <1>2. LeasesHeld' BY DEF LeasesHeld, Shape, Holds, Idle, BackupType, WorkType
  <1>3. SameReasons BY DEF SameReasons, BackupType
  <1>4. SameRestores /\ SameImport BY DEF SameRestores, SameImport, Here, SchoolType
  <1> QED BY <1>1, <1>2, <1>3, <1>4, StillFit

LEMMA StepAwaitingJobs ==
    ASSUME Jobs, NEW w \in Workers, NEW r \in Restores, StepAwaiting(w, r) PROVE Jobs'
  <1> USE DEF Jobs, JobsTyped
  <1> DEFINE pre == restore[r].pre
  <1>0. /\ pre \in Backups /\ work[w] = Idle /\ restore[r].status = "RUNNING"
        /\ restore[r].phase = "awaiting-backup" /\ restore[r].lock = Nobody
        /\ UNCHANGED school /\ restore' = [restore EXCEPT ![r].lock = w]
    BY DEF StepAwaiting, Free, Awaiting, Fit, AwaitsFit, RestoreType, LeasesHeld, Shape
  <1> HIDE DEF pre
  <1>1. restore' \in [Restores -> RestoreType] BY <1>0, RestoreUpdates
  <1>2. SameRestores /\ SameImport BY <1>0 DEF SameRestores, SameImport, Here, RestoreType
  <1>3. CASE Step(w, pre, r)
    <2>1. JobsTyped' BY <1>0, <1>1, <1>3, StepTyped
    <2>2. LeasesHeld'
      BY <1>0, <1>3, BackupsAssumption
      DEF LeasesHeld, Shape, Holds, Step, Leasable, Ends, Idle, BackupType, RestoreType, WorkType
    <2>3. SameReasons BY <1>0, <1>3, StepReasons
    <2> QED BY <1>2, <2>1, <2>2, <2>3, StillFit
  <1>4. CASE UNCHANGED backup /\ work' = [work EXCEPT ![w].at = "looked", ![w].restore = r]
    <2>1. JobsTyped' BY <1>0, <1>1, <1>4, ToRestore DEF Places
    <2>2. LeasesHeld'
      BY <1>0, <1>4, BackupsAssumption DEF LeasesHeld, Shape, Holds, Idle, RestoreType, WorkType
    <2>3. SameReasons BY <1>4 DEF SameReasons
    <2> QED BY <1>2, <2>1, <2>2, <2>3, StillFit
  <1> QED BY <1>3, <1>4 DEF StepAwaiting, pre

\* A worker's restore runs, and nobody else works on it.
LEMMA OwnRestore ==
    ASSUME Jobs, NEW w \in Workers, work[w].restore # NoRestore
    PROVE  /\ work[w].restore \in Restores
           /\ restore[work[w].restore].status = "RUNNING" /\ restore[work[w].restore].lock = w
           /\ \A v \in Workers \ {w} : work[v].restore # work[w].restore
           /\ \A q \in Restores \ {work[w].restore} : restore[q].status # "RUNNING"
  BY DEF Jobs, JobsTyped, LeasesHeld, Holds, Fit, OneRestore, WorkType

\* The worker that has a restore ends it, one way or the other.
LEMMA RestoreEnds ==
    ASSUME Jobs, NEW w \in Workers, work[w].restore # NoRestore,
           NEW x \in RestoreType, x.status # "RUNNING",
           restore' = [restore EXCEPT ![work[w].restore] = x], Stop(w), work[w].at # "copying",
           \A b \in Backups : backup'[b].status = backup[b].status /\ backup'[b].lock = backup[b].lock
    PROVE  /\ restore' \in [Restores -> RestoreType] /\ work' \in [Workers -> WorkType]
           /\ LeasesHeld' /\ SameRestores
           /\ \A q \in Restores : restore'[q].status # "RUNNING"
  <1> USE DEF Jobs, JobsTyped, Stop
  <1>0. work[w].restore \in Restores BY OwnRestore
  <1>1. restore' \in [Restores -> RestoreType] /\ work' \in [Workers -> WorkType]
    BY <1>0, StopTyped
  <1>2. LeasesHeld' BY <1>0, OwnRestore DEF LeasesHeld, Shape, Holds, Idle, WorkType
  <1>3. \A q \in Restores : restore'[q].status # "RUNNING" BY <1>0, OwnRestore
  <1> QED BY <1>1, <1>2, <1>3 DEF SameRestores

LEMMA FailedTyped ==
    ASSUME JobsTyped, NEW r \in Restores
    PROVE  /\ [NewRestore EXCEPT !.status = "FAILED", !.cut = restore[r].cut] \in RestoreType
           /\ [NewRestore EXCEPT !.status = "FAILED", !.cut = restore[r].cut].status = "FAILED"
  <1>1. restore[r].cut \in BOOLEAN BY DEF JobsTyped, RestoreType
  <1> QED BY <1>1, RestoreBegins DEF NewRestore

LEMMA AfterPreJobs == ASSUME Jobs, NEW w \in Workers, AfterPre(w) PROVE Jobs'
  <1> USE DEF Jobs, JobsTyped
  <1> DEFINE r == work[w].restore
             pre == backup[restore[r].pre].status
             x == [NewRestore EXCEPT !.status = "FAILED", !.cut = restore[r].cut]
  <1>0. work[w].at = "looked" /\ r # NoRestore /\ r \in Restores
    BY OwnRestore DEF AfterPre, LeasesHeld, Shape
  <1>1. CASE pre = "RUNNING" /\ restore' = [restore EXCEPT ![r].lock = Nobody] /\ Stop(w)
             /\ UNCHANGED <<school, backup>>
    <2> USE <1>0, <1>1
    <2>1. JobsTyped' BY RestoreUpdates, StopTyped DEF Stop
    <2>2. LeasesHeld' BY OwnRestore DEF Stop, LeasesHeld, Shape, Holds, Idle, RestoreType, WorkType
    <2>3. SameReasons /\ SameRestores /\ SameImport
      BY DEF SameReasons, SameRestores, SameImport, Here, RestoreType
    <2> QED BY <2>1, <2>2, <2>3, StillFit
  <1>2. CASE Goes(w, "replacing") /\ UNCHANGED <<school, backup, restore>>
    <2> USE <1>0, <1>2
    <2>1. JobsTyped' BY GoesTyped DEF Goes, Places
    <2>2. LeasesHeld' BY DEF Goes, LeasesHeld, Shape, Holds, WorkType
    <2>3. SameReasons /\ SameRestores /\ SameImport
      BY DEF SameReasons, SameRestores, SameImport, Here
    <2> QED BY <2>1, <2>2, <2>3, StillFit
  <1>3. CASE /\ restore' = FailsRestore(r) /\ Stop(w)
             /\ school' = IF Here THEN [school EXCEPT !.status = restore[r].previous, !.quiet = FALSE]
                          ELSE school
             /\ backup' = IF Here THEN Outdated ELSE backup
    <2> USE <1>0, <1>3
    <2>1. restore[r].previous \in {"LIVE", "SUSPENDED"} BY DEF RestoreType
    <2>2. school' \in SchoolType /\ backup' \in [Backups -> BackupType]
      BY <2>1, SchoolUpdates, BackupUpdates DEF Outdated
    <2>3. \A b \in Backups : /\ backup'[b].status = backup[b].status
                             /\ backup'[b].lock = backup[b].lock
                             /\ backup'[b].reason = backup[b].reason
                             /\ backup'[b].delete = backup[b].delete
      BY DEF Outdated, BackupType
    <2>4. x \in RestoreType /\ x.status # "RUNNING" BY FailedTyped
    <2>5. restore' = [restore EXCEPT ![r] = x] BY DEF FailsRestore
    <2> HIDE DEF x
    <2>6. /\ restore' \in [Restores -> RestoreType] /\ work' \in [Workers -> WorkType]
          /\ LeasesHeld' /\ SameRestores
      BY <2>3, <2>4, <2>5, RestoreEnds
    <2>7. SameImport BY <2>1 DEF SameImport, Here, SchoolType
    <2>8. SameReasons BY <2>3 DEF SameReasons
    <2> QED BY <2>2, <2>6, <2>7, <2>8, StillFit
  <1> QED BY <1>1, <1>2, <1>3 DEF AfterPre

LEMMA ReplaceFailsJobs == ASSUME Jobs, NEW w \in Workers, ReplaceFails(w) PROVE Jobs'
  <1> USE DEF Jobs, JobsTyped
  <1> DEFINE r == work[w].restore
             x == [NewRestore EXCEPT !.status = "FAILED", !.cut = restore[r].cut]
  <1>0. work[w].at # "copying" /\ r # NoRestore /\ r \in Restores /\ UNCHANGED <<school, backup>>
    BY OwnRestore DEF ReplaceFails, LeasesHeld, Shape
  <1>1. x \in RestoreType /\ x.status # "RUNNING" BY <1>0, FailedTyped
  <1>2. restore' = [restore EXCEPT ![r] = x] /\ Stop(w) BY DEF ReplaceFails, FailsRestore
  <1> HIDE DEF x
  <1>3. /\ restore' \in [Restores -> RestoreType] /\ work' \in [Workers -> WorkType]
        /\ LeasesHeld' /\ SameRestores
    BY <1>0, <1>1, <1>2, RestoreEnds
  <1>4. SameReasons /\ SameImport BY <1>0 DEF SameReasons, SameImport, Here
  <1> QED BY <1>0, <1>3, <1>4, StillFit

LEMMA ReplaceRowsJobs == ASSUME Jobs, NEW w \in Workers, ReplaceRows(w) PROVE Jobs'
  <1> USE DEF Jobs, JobsTyped, ReplaceRows, Goes
  <1>1. JobsTyped' BY GoesTyped, SchoolUpdates DEF Places, SchoolGone
  <1>2. LeasesHeld' BY DEF LeasesHeld, Shape, Holds, WorkType
  <1>3. SameReasons /\ SameRestores BY DEF SameReasons, SameRestores
  <1>4. ImportsFit' BY DEF ImportsFit, Here, SchoolGone, SchoolType
  <1> QED BY <1>1, <1>2, <1>3, <1>4, BackupsFit, AwaitsStill, RestoresStill DEF Fit

\* A worker that stops leaves the leases the others hold: only its own restore was changed.
LEMMA OwnStops ==
    ASSUME Jobs, NEW w \in Workers, Stop(w), work[w].restore # NoRestore, UNCHANGED backup,
           \A q \in Restores : q # work[w].restore => restore'[q] = restore[q]
    PROVE  LeasesHeld'
  <1> USE DEF Jobs, JobsTyped
  <1>1. work'[w] = Idle /\ \A v \in Workers : v # w => work'[v] = work[v] BY DEF Stop
  <1>2. (Shape(w) /\ Holds(w))' BY <1>1 DEF Shape, Holds, Idle
  <1>3. ASSUME NEW v \in Workers, v # w PROVE (Shape(v) /\ Holds(v))'
    <2>1. work[v].restore # NoRestore => work[v].restore \in Restores /\ work[v].restore # work[w].restore
      BY <1>3 DEF LeasesHeld, Holds, WorkType
    <2> QED BY <1>1, <1>3, <2>1 DEF LeasesHeld, Shape, Holds
  <1> QED BY <1>2, <1>3 DEF LeasesHeld

LEMMA ReplaceFilesJobs == ASSUME Jobs, NEW w \in Workers, ReplaceFiles(w) PROVE Jobs'
  <1> USE DEF Jobs, JobsTyped
  <1> DEFINE r == work[w].restore
  <1>0. /\ r # NoRestore /\ r \in Restores /\ ~Here /\ UNCHANGED backup /\ Stop(w)
        /\ school' = [school EXCEPT !.files = FALSE]
        /\ restore' = [restore EXCEPT ![r].phase = "import", ![r].pre = NoBackup, ![r].lock = Nobody]
        /\ work[w].at = "emptying"
    BY OwnRestore DEF ReplaceFiles, LeasesHeld, Shape
  <1>1. JobsTyped' BY <1>0, SchoolUpdates, RestoreUpdates, StopTyped DEF Stop
  <1>2. LeasesHeld' BY <1>0, OwnStops
  <1>3. SameReasons BY <1>0 DEF SameReasons
  <1>4. OneRestore' BY <1>0 DEF Fit, OneRestore, RestoreType
  <1>5. ImportsFit' BY <1>0 DEF Fit, ImportsFit, Here, SchoolType
  <1>6. AwaitsFit'
    <2>1. /\ restore'[r].phase = "import"
          /\ \A q \in Restores : q # r => restore'[q] = restore[q]
      BY <1>0 DEF RestoreType
    <2>2. \A q \in Restores : Awaiting(q)' => q # r /\ restore'[q] = restore[q]
      BY <2>1 DEF Awaiting
    <2> QED BY <1>0, <2>2 DEF Fit, AwaitsFit, Awaiting
  <1> QED BY <1>1, <1>2, <1>3, <1>4, <1>5, <1>6, BackupsFit DEF Fit

\* The rollback of an import its worker has.
LEMMA RollbackJobs ==
    ASSUME Jobs, NEW w \in Workers, NEW r \in Restores, NEW reached, Rollback(w, r, reached),
           restore[r].status = "RUNNING", UNCHANGED backup,
           \/ work[w].restore = r /\ work[w].at = "importing"
           \/ work[w].at = "idle" /\ restore[r].lock = Nobody
    PROVE  Jobs'
  <1> USE DEF Jobs, JobsTyped
  <1> DEFINE x == [NewRestore EXCEPT !.status = "FAILED", !.cut = restore[r].cut]
  <1>1. x \in RestoreType /\ x.status # "RUNNING" BY FailedTyped
  <1>2. [FailsRestore(r) EXCEPT ![r].cut = TRUE]
          = [restore EXCEPT ![r] = [x EXCEPT !.cut = TRUE]] BY DEF FailsRestore
  <1>3. [x EXCEPT !.cut = TRUE] \in RestoreType /\ [x EXCEPT !.cut = TRUE].status # "RUNNING"
    <2> HIDE DEF x
    <2> QED BY <1>1 DEF RestoreType
  <1>4. PICK y \in RestoreType : y.status # "RUNNING" /\ restore' = [restore EXCEPT ![r] = y]
    BY <1>1, <1>2, <1>3 DEF Rollback, FailsRestore
  <1> HIDE DEF x
  <1>5. work' = [work EXCEPT ![w] = Idle] BY DEF Rollback, Stop
  <1>6. restore' \in [Restores -> RestoreType] /\ work' \in [Workers -> WorkType]
    BY <1>4, <1>5, StopTyped
  <1>7. \A q \in Restores : restore'[q].status # "RUNNING" BY <1>4 DEF Fit, OneRestore
  <1>8. \A v \in Workers \ {w} : work[v].restore # r
    BY BackupsAssumption DEF LeasesHeld, Holds
  <1>9. work[w].at # "copying" OBVIOUS
  <1>10. LeasesHeld' BY <1>4, <1>5, <1>8, <1>9 DEF LeasesHeld, Shape, Holds, Idle, WorkType
  <1>11. school' \in SchoolType BY SchoolUpdates DEF Rollback, SchoolGone
  <1>12. SameRestores BY <1>7 DEF SameRestores
  <1>13. SameReasons BY DEF SameReasons
  <1>14. ImportsFit'
    <2>1. ~Here' => school'.import = NoRestore
      BY DEF Fit, ImportsFit, Rollback, SchoolGone, Here, SchoolType
    <2> QED BY <1>7, <2>1 DEF ImportsFit, Importing
  <1> QED BY <1>6, <1>10, <1>11, <1>12, <1>13, <1>14, BackupsFit, AwaitsStill, RestoresStill DEF Fit

LEMMA StepImportJobs ==
    ASSUME Jobs, NEW w \in Workers, NEW r \in Restores, StepImport(w, r) PROVE Jobs'
  <1> USE DEF Jobs, JobsTyped
  <1>0. /\ work[w].at = "idle" /\ work[w] = Idle /\ restore[r].status = "RUNNING"
        /\ restore[r].lock = Nobody /\ restore[r].phase = "import" /\ UNCHANGED backup
    BY DEF StepImport, Free, Awaiting, LeasesHeld, Shape, RestoreType
  <1>1. CASE Exhausted(restore[r].attempts) BY <1>0, <1>1, RollbackJobs DEF StepImport
  <1>2. CASE ~Exhausted(restore[r].attempts)
    <2>0. /\ restore' = [restore EXCEPT ![r].lock = w, ![r].attempts = OneMore(@)]
          /\ work' = [work EXCEPT ![w].at = "importing", ![w].restore = r,
                                  ![w].reached = restore[r].done]
          /\ UNCHANGED school
      BY <1>2 DEF StepImport
    <2>1. restore' \in [Restores -> RestoreType] BY <2>0, RestoreUpdates
    <2>2. work' \in [Workers -> WorkType]
      <3>1. "importing" \in Places /\ restore[r].done \in 0..2 BY DEF Places, RestoreType
      <3> QED BY <2>0, <3>1, ToImport
    <2>3. LeasesHeld'
      BY <1>0, <2>0, BackupsAssumption, SMTT(30) DEF LeasesHeld, Shape, Holds, Idle, RestoreType, WorkType
    <2>4. SameReasons /\ SameRestores /\ SameImport
      BY <1>0, <2>0 DEF SameReasons, SameRestores, SameImport, Here, RestoreType
    <2> QED BY <1>0, <2>0, <2>1, <2>2, <2>3, <2>4, StillFit
  <1> QED BY <1>1, <1>2

\* What an import writes changes what backups hold, not what they are for.
LEMMA ImportedBackups ==
    ASSUME JobsTyped, NEW r \in Restores, NEW lucky, backup' = Imported(r, lucky)
    PROVE  /\ backup' \in [Backups -> BackupType] /\ SameReasons
           /\ \A b \in Backups : backup'[b].status = backup[b].status /\ backup'[b].lock = backup[b].lock
  <1> USE DEF JobsTyped
  <1> DEFINE full(b) == IF Here THEN backup[b].full /\ b \in lucky \union {restore[r].from}
                        ELSE b = restore[r].from
             current(b) == backup[b].current /\ Here
  <1>1. backup' = [b \in Backups |-> [backup[b] EXCEPT !.full = full(b), !.current = current(b)]]
    BY DEF Imported
  <1>2. \A b \in Backups : full(b) \in BOOLEAN /\ current(b) \in BOOLEAN OBVIOUS
  <1> HIDE DEF full, current
  <1>3. backup' \in [Backups -> BackupType]
    <2>1. \A b \in Backups : [backup[b] EXCEPT !.full = full(b), !.current = current(b)] \in BackupType
      BY <1>2, BackupUpdates
    <2> QED BY <1>1, <2>1
  <1>4. \A b \in Backups : /\ backup'[b].status = backup[b].status
                           /\ backup'[b].lock = backup[b].lock
                           /\ backup'[b].reason = backup[b].reason
                           /\ backup'[b].delete = backup[b].delete
    BY <1>1, ZenonT(30) DEF BackupType
  <1> QED BY <1>3, <1>4 DEF SameReasons

LEMMA ImportRowsJobs == ASSUME Jobs, NEW w \in Workers, ImportRows(w) PROVE Jobs'
  <1> USE DEF Jobs, JobsTyped
  <1> DEFINE r == work[w].restore
  <1>0. /\ r # NoRestore /\ r \in Restores /\ work[w].at = "importing" /\ UNCHANGED restore
        /\ work' = [work EXCEPT ![w].reached = 1]
        /\ \E lucky : backup' = Imported(r, lucky)
    BY OwnRestore DEF ImportRows, Reaches, LeasesHeld, Shape
  <1>1. school' = IF Here THEN school
                  ELSE [school EXCEPT !.status = "SUSPENDED", !.quiet = FALSE, !.import = r]
    BY DEF ImportRows
  <1>2. /\ backup' \in [Backups -> BackupType] /\ SameReasons
        /\ \A b \in Backups : backup'[b].status = backup[b].status /\ backup'[b].lock = backup[b].lock
    BY <1>0, ImportedBackups
  <1>3. JobsTyped' BY <1>0, <1>1, <1>2, SchoolUpdates, ReachesTyped, Zero
  <1>4. LeasesHeld'
    <2>1. restore[r].done <= 1
      BY <1>0 DEF ImportRows, LeasesHeld, Holds, RestoreType
    <2> QED BY <1>0, <1>2, <2>1 DEF LeasesHeld, Shape, Holds, WorkType
  <1>5. SameRestores BY <1>0 DEF SameRestores
  <1>6. ImportsFit'
    <2>1. CASE Here BY <1>0, <1>1, <2>1 DEF Fit, ImportsFit, Importing, Here
    <2>2. CASE ~Here BY <1>0, <1>1, <2>2, OwnRestore DEF ImportsFit, Importing, Here, SchoolType
    <2> QED BY <2>1, <2>2
  <1> QED BY <1>2, <1>3, <1>4, <1>5, <1>6, BackupsFit, AwaitsStill, RestoresStill DEF Fit

LEMMA ImportFilesJobs == ASSUME Jobs, NEW w \in Workers, ImportFiles(w) PROVE Jobs'
  <1> USE DEF Jobs, JobsTyped
  <1> DEFINE r == work[w].restore
  <1>0. /\ r # NoRestore /\ r \in Restores /\ work[w].at = "importing" /\ UNCHANGED restore
        /\ work' = [work EXCEPT ![w].reached = 2]
        /\ \E lucky : backup' = Imported(r, lucky)
        /\ school' = [school EXCEPT !.files = TRUE]
    BY OwnRestore DEF ImportFiles, Reaches, LeasesHeld, Shape
  <1>2. /\ backup' \in [Backups -> BackupType] /\ SameReasons
        /\ \A b \in Backups : backup'[b].status = backup[b].status /\ backup'[b].lock = backup[b].lock
    BY <1>0, ImportedBackups
  <1>3. JobsTyped' BY <1>0, <1>2, SchoolUpdates, ReachesTyped, Zero
  <1>4. LeasesHeld'
    <2>1. restore[r].done <= 2 BY <1>0 DEF RestoreType
    <2> QED BY <1>0, <1>2, <2>1 DEF LeasesHeld, Shape, Holds, WorkType
  <1>5. SameRestores /\ SameImport BY <1>0 DEF SameRestores, SameImport, Here, SchoolType
  <1> QED BY <1>2, <1>3, <1>4, <1>5, StillFit

LEMMA ImportSaveJobs == ASSUME Jobs, NEW w \in Workers, ImportSave(w) PROVE Jobs'
  <1> USE DEF Jobs, JobsTyped
  <1> DEFINE r == work[w].restore
  <1>0. /\ r # NoRestore /\ r \in Restores /\ work[w].at = "importing" /\ Stop(w)
        /\ restore' = [restore EXCEPT ![r].done = work[w].reached, ![r].attempts = 0, ![r].lock = Nobody]
        /\ UNCHANGED <<school, backup>>
    BY OwnRestore DEF ImportSave, LeasesHeld, Shape
  <1>1. JobsTyped'
    <2>1. work[w].reached \in 0..2 BY DEF WorkType
    <2> QED BY <1>0, <2>1, RestoreUpdates, StopTyped DEF Stop
  <1>2. LeasesHeld' BY <1>0, OwnStops
  <1>3. SameReasons /\ SameRestores /\ SameImport
    BY <1>0 DEF SameReasons, SameRestores, SameImport, Here, RestoreType
  <1> QED BY <1>1, <1>2, <1>3, StillFit

LEMMA ImportFinishJobs == ASSUME Jobs, NEW w \in Workers, ImportFinish(w) PROVE Jobs'
  <1> USE DEF Jobs, JobsTyped
  <1> DEFINE r == work[w].restore
             x == [NewRestore EXCEPT !.status = "DONE"]
  <1>0. /\ r # NoRestore /\ r \in Restores /\ work[w].at = "importing" /\ Stop(w) /\ Here
        /\ restore' = [restore EXCEPT ![r] = x] /\ backup' = Outdated
    BY OwnRestore DEF ImportFinish, LeasesHeld, Shape
  <1>1. PICK s \in {"LIVE", "SUSPENDED"} :
          school' = [school EXCEPT !.status = s, !.quiet = FALSE, !.import = NoRestore]
    BY DEF ImportFinish
  <1>2. x \in RestoreType /\ x.status # "RUNNING" BY RestoreBegins DEF NewRestore
  <1> HIDE DEF x
  <1>3. \A b \in Backups : /\ backup'[b].status = backup[b].status
                           /\ backup'[b].lock = backup[b].lock
                           /\ backup'[b].reason = backup[b].reason
                           /\ backup'[b].delete = backup[b].delete
    BY <1>0 DEF Outdated, BackupType
  <1>4. /\ restore' \in [Restores -> RestoreType] /\ work' \in [Workers -> WorkType]
        /\ LeasesHeld' /\ SameRestores /\ \A q \in Restores : restore'[q].status # "RUNNING"
    BY <1>0, <1>2, <1>3, RestoreEnds
  <1>5. school' \in SchoolType /\ backup' \in [Backups -> BackupType]
    BY <1>0, <1>1, SchoolUpdates, BackupUpdates DEF Outdated
  <1>6. SameReasons BY <1>3 DEF SameReasons
  <1>7. ImportsFit' BY <1>1, <1>4 DEF ImportsFit, Importing, Here, SchoolType
  <1> QED BY <1>4, <1>5, <1>6, <1>7, BackupsFit, AwaitsStill, RestoresStill DEF Fit

LEMMA ImportFailsJobs == ASSUME Jobs, NEW w \in Workers, ImportFails(w) PROVE Jobs'
  <1>1. work[w].restore # NoRestore /\ work[w].at = "importing"
    BY DEF ImportFails, Jobs, LeasesHeld, Shape
  <1> QED BY <1>1, OwnRestore, RollbackJobs DEF ImportFails

LEMMA KillJobs == ASSUME Jobs, NEW w \in Workers, Kill(w) PROVE Jobs'
  <1> USE DEF Jobs, JobsTyped
  <1> DEFINE r == work[w].restore
  <1>0. UNCHANGED <<school, backup>> /\ work' = [work EXCEPT ![w] = Idle] BY DEF Kill, Stop
  <1>1. restore' \in {restore, [restore EXCEPT ![r].cut = TRUE]} BY DEF Kill
  <1>2. JobsTyped'
    <2>1. CASE r \in Restores
      <3>1. [restore[r] EXCEPT !.cut = TRUE] \in RestoreType BY <2>1, RestoreUpdates
      <3> QED BY <1>0, <1>1, <2>1, <3>1, StopTyped
    <2>2. CASE r \notin Restores BY <1>0, <1>1, <2>2, StopTyped
    <2> QED BY <2>1, <2>2
  <1>3. \A q \in Restores : /\ restore'[q].status = restore[q].status /\ restore'[q].lock = restore[q].lock
                            /\ restore'[q].phase = restore[q].phase /\ restore'[q].pre = restore[q].pre
                            /\ restore'[q].done = restore[q].done
    BY <1>1 DEF RestoreType
  <1>4. LeasesHeld' BY <1>0, <1>2, <1>3 DEF LeasesHeld, Shape, Holds, Idle, WorkType
  <1>5. SameReasons /\ SameRestores /\ SameImport
    BY <1>0, <1>3 DEF SameReasons, SameRestores, SameImport, Here
  <1> QED BY <1>2, <1>4, <1>5, StillFit

LEMMA LapseBackupJobs == ASSUME Jobs, NEW b \in Backups, LapseBackup(b) PROVE Jobs'
  <1> USE DEF Jobs, JobsTyped, LapseBackup
  <1>1. JobsTyped' BY BackupUpdates
  <1>2. LeasesHeld' BY DEF LeasesHeld, Shape, Holds, BackupType, WorkType
  <1>3. SameReasons /\ SameRestores /\ SameImport
    BY DEF SameReasons, SameRestores, SameImport, Here, BackupType
  <1> QED BY <1>1, <1>2, <1>3, StillFit

LEMMA LapseRestoreJobs == ASSUME Jobs, NEW r \in Restores, LapseRestore(r) PROVE Jobs'
  <1> USE DEF Jobs, JobsTyped, LapseRestore
  <1>1. JobsTyped' BY RestoreUpdates
  <1>2. LeasesHeld' BY DEF LeasesHeld, Shape, Holds, RestoreType, WorkType
  <1>3. SameReasons /\ SameRestores /\ SameImport
    BY DEF SameReasons, SameRestores, SameImport, Here, RestoreType
  <1> QED BY <1>1, <1>2, <1>3, StillFit

-----------------------------------------------------------------------------
(* Counters and history.                                                   *)

LEMMA RestStep == ASSUME RestTyped, Next PROVE RestTyped'
  <1> USE BackupsAssumption DEF RestTyped
  <1>1. CASE UNCHANGED <<changes, kills, history>> BY <1>1 DEF history
  <1>2. CASE SetStatus BY <1>2 DEF SetStatus
  <1>3. ASSUME NEW r \in Restores, NEW b \in Backups, NEW pre \in Backups, StartReplace(r, b, pre)
        PROVE  RestTyped'
    BY <1>3 DEF StartReplace
  <1>4. ASSUME NEW w \in Workers, PurgeRows(w) \/ ReplaceRows(w) PROVE RestTyped'
    <2>1. UNCHANGED <<changes, kills, hurried, reopened, swept>> /\ lost' \subseteq {"delete", "replace"}
      BY <1>4 DEF PurgeRows, ReplaceRows
    <2> QED BY <2>1
  <1>5. ASSUME NEW w \in Workers, AfterPre(w) \/ ImportFinish(w) PROVE RestTyped'
    BY <1>5 DEF AfterPre, ImportFinish
  <1>6. ASSUME NEW w \in Workers, ImportRows(w) \/ ImportFiles(w) PROVE RestTyped'
    BY <1>6 DEF ImportRows, ImportFiles
  <1>7. ASSUME NEW w \in Workers, NEW r, NEW n, Rollback(w, r, n), UNCHANGED <<changes, history>>
        PROVE  RestTyped'
    BY <1>7 DEF Rollback, history
  <1>8. ASSUME NEW w \in Workers, Kill(w) PROVE RestTyped'
    BY <1>8 DEF Kill, history
  <1>9. ASSUME NEW w \in Workers, NEW r \in Restores, StepImport(w, r) PROVE RestTyped'
    <2>1. CASE Exhausted(restore[r].attempts) BY <1>7, <1>9, <2>1 DEF StepImport
    <2>2. CASE ~Exhausted(restore[r].attempts) BY <1>1, <1>9, <2>2 DEF StepImport
    <2> QED BY <2>1, <2>2
  <1>10. ASSUME NEW w \in Workers, ImportFails(w) PROVE RestTyped'
    BY <1>7, <1>10 DEF ImportFails
  <1>11. ASSUME NEW w \in Workers, PickUp(w) PROVE RestTyped'
    BY <1>1, <1>9, <1>11 DEF PickUp, DeleteNow, StepBackup, PickUpDelete, StepAwaiting
  <1>12. ASSUME NEW w \in Workers, Progress(w) PROVE RestTyped'
    BY <1>1, <1>4, <1>5, <1>6, <1>10, <1>12
    DEF Progress, CopyPart, CopyLast, CopyFails, PurgeFiles, ReplaceFiles, ReplaceFails, ImportSave
  <1>13. CASE Operator BY <1>1, <1>2, <1>3, <1>13 DEF Operator, StartBackup, StartRestore
  <1> QED
    BY <1>1, <1>8, <1>11, <1>12, <1>13
    DEF Next, Write, Settle, Expire, LapseBackup, LapseRestore

-----------------------------------------------------------------------------
(* Copies that are about to be all there is.                               *)

\* Nothing happens to a copy, to whom it was looked at for, or to what excuses a loss.
SameCopies ==
    \A b \in Backups :
        /\ backup'[b].status = backup[b].status /\ backup'[b].reason = backup[b].reason
        /\ backup'[b].current = backup[b].current /\ backup'[b].full = backup[b].full
        /\ backup'[b].done = backup[b].done
SameCopiers == \A w \in Workers : work'[w].at = "copying" => work'[w] = work[w]
SameDeleters ==
    \A w \in Workers : work'[w].at = "checked" /\ work'[w].backup # NoBackup => work'[w] = work[w]
SameReplacers == \A w \in Workers : work'[w].at = "replacing" => work'[w] = work[w]
SameAwaits ==
    \A r \in Restores : Awaiting(r)' => Awaiting(r) /\ restore'[r].pre = restore[r].pre
SameWhole == Whole' => Whole /\ school'.status = school.status /\ (school.quiet => school'.quiet)
Excuses == <<lost, hurried, reopened>>

LEMMA CopiesStill ==
    ASSUME FinalCopies, SameCopies, SameCopiers, SameWhole PROVE FinalCopies'
  <1> SUFFICES ASSUME Whole', NEW b \in Backups, Live(b)'
               PROVE  (/\ school.status = "SUSPENDED"
                       /\ Begins(b) => school.quiet /\ backup[b].full)'
    BY DEF FinalCopies
  <1>1. Live(b) BY DEF Live, SameCopies
  <1>2. Begins(b)' => Begins(b) BY DEF Begins, SameCopies, SameCopiers
  <1> QED BY <1>1, <1>2 DEF FinalCopies, SameWhole, SameCopies

\* A change of the school's row: no backup is of the school as it is.
LEMMA NoneCurrent == ASSUME JobsTyped, backup' = Outdated PROVE FinalCopies'
  <1>1. \A b \in Backups : ~backup'[b].current BY DEF JobsTyped, Outdated, BackupType
  <1> QED BY <1>1 DEF FinalCopies, Live

LEMMA DeletesStill ==
    ASSUME Jobs', DeletesLooked, SameDeleters, Whole' /\ ~hurried' => Whole /\ ~hurried,
           \A b \in Backups : backup[b].status = "READY" /\ Live(b)
                                 => backup'[b].status = "READY" /\ Live(b)'
    PROVE  DeletesLooked'
  <1> SUFFICES ASSUME Whole', ~hurried', NEW w \in Workers,
                      work'[w].at = "checked" /\ work'[w].backup # NoBackup
               PROVE  (backup[work[w].backup].status = "READY" /\ Live(work[w].backup))'
    BY DEF DeletesLooked
  <1>1. work'[w] = work[w] BY DEF SameDeleters
  <1>2. work[w].backup \in Backups BY <1>1 DEF Jobs, JobsTyped, WorkType
  <1>3. backup[work[w].backup].status = "READY" /\ Live(work[w].backup) BY <1>1 DEF DeletesLooked
  <1>4. (backup[work[w].backup].status = "READY" /\ Live(work[w].backup))'
    <2> DEFINE b == work[w].backup
    <2>1. b \in Backups /\ backup[b].status = "READY" /\ Live(b) BY <1>2, <1>3
    <2>2. b' = b BY <1>1
    <2> HIDE DEF b
    <2>3. backup'[b].status = "READY" /\ backup'[b].reason \in Final /\ backup'[b].current
      BY <2>1 DEF Live
    <2> QED BY <2>2, <2>3 DEF Live, b
  <1> QED BY <1>4

LEMMA ReplacesStill ==
    ASSUME Jobs, Jobs', ReplacesLooked, SameReplacers, SameReasons, SameAwaits,
           ~reopened' => ~reopened,
           \A r \in Restores : Awaiting(r)' /\ ~reopened' =>
               (backup'[restore[r].pre].current \/ ~backup[restore[r].pre].current
                  \/ backup'[restore[r].pre].status \notin {"RUNNING", "READY"})
    PROVE  ReplacesLooked'
  <1>1. ASSUME NEW r \in Restores, Awaiting(r)', ~reopened',
               backup'[restore'[r].pre].status \in {"RUNNING", "READY"}
        PROVE  backup'[restore'[r].pre].current
    <2>1. Awaiting(r) /\ restore'[r].pre = restore[r].pre BY <1>1 DEF SameAwaits
    <2>2. restore[r].pre \in Backups
      BY <2>1 DEF Jobs, JobsTyped, Fit, AwaitsFit, RestoreType
    <2>3. backup[restore[r].pre].status \in {"RUNNING", "READY"}
      BY <1>1, <2>1, <2>2 DEF SameReasons
    <2>4. backup[restore[r].pre].current BY <1>1, <2>1, <2>3 DEF ReplacesLooked
    <2> QED BY <1>1, <2>1, <2>4
  <1>2. ASSUME NEW w \in Workers, work'[w].at = "replacing"
        PROVE  backup'[restore'[work'[w].restore].pre].status = "READY"
    <2> DEFINE r == work[w].restore
    <2>1. work'[w] = work[w] /\ work[w].at = "replacing" BY <1>2 DEF SameReplacers
    <2>2. r # NoRestore /\ r \in Restores
      BY <2>1 DEF Jobs, JobsTyped, LeasesHeld, Shape, WorkType
    <2>3. restore'[r].status = "RUNNING" BY <2>1, <2>2 DEF Jobs, LeasesHeld, Holds
    <2>4. Awaiting(r) /\ restore'[r].pre = restore[r].pre
      <3>1. restore'[r].phase # "import" BY <2>1, <2>2, <1>2 DEF Jobs, LeasesHeld, Holds
      <3>2. restore'[r].phase = "awaiting-backup" BY <2>2, <3>1 DEF Jobs, JobsTyped, RestoreType
      <3> QED BY <2>2, <2>3, <3>2 DEF SameAwaits, Awaiting
    <2>5. /\ restore[r].pre \in Backups /\ restore[r].pre # Old
          /\ backup[restore[r].pre].status = "READY"
      BY <2>1, <2>2, <2>4
      DEF Jobs, JobsTyped, Fit, AwaitsFit, OldStands, RestoreType, ReplacesLooked
    <2>6. backup'[restore[r].pre].status = "READY" BY <2>5 DEF SameReasons
    <2> QED BY <2>1, <2>4, <2>6
  <1> QED BY <1>1, <1>2 DEF ReplacesLooked

LEMMA LostStill ==
    ASSUME Jobs, Jobs', LostInv, SameCopies, SameCopiers, SameDeleters, SameReplacers, SameAwaits,
           SameReasons, SameWhole, UNCHANGED Excuses
    PROVE  LostInv'
  <1> USE DEF LostInv, Excuses
  <1>1. FinalCopies' BY CopiesStill
  <1>2. DeletesLooked'
    <2>1. \A b \in Backups : Live(b) => Live(b)' BY DEF Live, SameCopies
    <2> QED BY <2>1, DeletesStill DEF SameWhole, SameCopies
  <1>3. ReplacesLooked'
    <2>1. \A r \in Restores : Awaiting(r)' => backup'[restore[r].pre].current = backup[restore[r].pre].current
      BY DEF SameCopies, SameAwaits, Jobs, JobsTyped, Fit, AwaitsFit, RestoreType
    <2> QED BY <2>1, ReplacesStill
  <1>4. NothingLost' BY DEF NothingLost
  <1> QED BY <1>1, <1>2, <1>3, <1>4

\* Actions that leave the backups alone.
LEMMA BackupsAlone ==
    ASSUME Jobs, Jobs', LostInv, UNCHANGED <<backup, Excuses>>, SameCopiers, SameDeleters,
           SameReplacers, SameAwaits, SameWhole
    PROVE  LostInv'
  <1>1. SameCopies BY DEF SameCopies
  <1>2. SameReasons BY DEF SameReasons
  <1> QED BY <1>1, <1>2, LostStill

LEMMA SettleLost == ASSUME Jobs, Jobs', LostInv, Settle PROVE LostInv'
  <1> USE DEF Settle, Jobs, JobsTyped
  <1>1. SameCopiers /\ SameDeleters /\ SameReplacers /\ SameAwaits
    BY DEF SameCopiers, SameDeleters, SameReplacers, SameAwaits, Awaiting
  <1>2. SameWhole BY DEF SameWhole, Whole, Here, SchoolType
  <1> QED BY <1>1, <1>2, BackupsAlone DEF Excuses, history

LEMMA StartRestoreLost ==
    ASSUME Jobs, Jobs', LostInv, NEW r \in Restores, NEW b \in Backups, StartRestore(r, b)
    PROVE  LostInv'
  <1> USE DEF StartRestore, Jobs, JobsTyped
  <1>1. SameCopiers /\ SameDeleters /\ SameReplacers
    BY DEF SameCopiers, SameDeleters, SameReplacers
  <1>2. SameAwaits BY DEF SameAwaits, Awaiting, NewRestore
  <1>3. SameWhole BY DEF SameWhole, Whole, Here
  <1> QED BY <1>1, <1>2, <1>3, BackupsAlone DEF Excuses, history

LEMMA DeleteNowLost == ASSUME Jobs, Jobs', LostInv, NEW w \in Workers, DeleteNow(w) PROVE LostInv'
  <1> USE DEF DeleteNow, Jobs, JobsTyped
  <1>1. work' = [work EXCEPT ![w].at = "checked"] /\ work[w].backup = NoBackup
    BY DEF Goes, LeasesHeld, Shape, Idle
  <1>2. SameCopiers /\ SameDeleters /\ SameReplacers
    BY <1>1 DEF SameCopiers, SameDeleters, SameReplacers, WorkType
  <1>3. SameAwaits /\ SameWhole BY DEF SameAwaits, Awaiting, SameWhole, Whole, Here
  <1> QED BY <1>2, <1>3, BackupsAlone DEF Excuses, history

LEMMA RollbackLost ==
    ASSUME Jobs, Jobs', LostInv, NEW w \in Workers, NEW r \in Restores, NEW n, Rollback(w, r, n),
           Importing(r), UNCHANGED <<backup, history>>
    PROVE  LostInv'
  <1> USE DEF Jobs, JobsTyped
  <1>1. SameCopiers /\ SameDeleters /\ SameReplacers
    BY DEF SameCopiers, SameDeleters, SameReplacers, Rollback, Stop, Idle
  <1>2. SameAwaits
    <2>1. \A q \in Restores \ {r} : restore'[q] = restore[q] BY DEF Rollback, FailsRestore
    <2>2. restore'[r].status = "FAILED" BY ZenonT(30) DEF Rollback, FailsRestore, NewRestore
    <2> QED BY <2>1, <2>2 DEF SameAwaits, Awaiting
  <1>3. SameWhole
    <2>1. Here => school.import = r BY DEF Fit, ImportsFit
    <2>2. \/ school'.status = "gone" \/ UNCHANGED school
          \/ Here /\ school'.import = school.import
      BY DEF Rollback, SchoolGone, SchoolType
    <2>3. Here => ~Whole BY <2>1, BackupsAssumption DEF Whole
    <2>4. Whole' => Whole /\ UNCHANGED school BY <2>2, <2>3 DEF Whole, Here
    <2> QED BY <2>4 DEF SameWhole
  <1> QED BY <1>1, <1>2, <1>3, BackupsAlone DEF Excuses, history

LEMMA StepImportLost ==
    ASSUME Jobs, Jobs', LostInv, NEW w \in Workers, NEW r \in Restores, StepImport(w, r)
    PROVE  LostInv'
  <1> USE DEF Jobs, JobsTyped
  <1>0. Importing(r) BY DEF StepImport, Free, Awaiting, Importing, RestoreType
  <1>1. CASE Exhausted(restore[r].attempts) BY <1>0, <1>1, RollbackLost DEF StepImport
  <1>2. CASE ~Exhausted(restore[r].attempts)
    <2>0. /\ restore' = [restore EXCEPT ![r].lock = w, ![r].attempts = OneMore(@)]
          /\ work' = [work EXCEPT ![w].at = "importing", ![w].restore = r,
                                  ![w].reached = restore[r].done]
          /\ UNCHANGED <<school, backup, history>>
      BY <1>2 DEF StepImport
    <2>1. SameCopiers /\ SameDeleters /\ SameReplacers
      BY <2>0 DEF SameCopiers, SameDeleters, SameReplacers, WorkType
    <2>2. SameAwaits /\ SameWhole
      BY <2>0 DEF SameAwaits, Awaiting, SameWhole, Whole, Here, RestoreType
    <2> QED BY <2>0, <2>1, <2>2, BackupsAlone DEF Excuses, history
  <1> QED BY <1>1, <1>2

LEMMA ImportFailsLost ==
    ASSUME Jobs, Jobs', LostInv, NEW w \in Workers, ImportFails(w) PROVE LostInv'
  <1>1. work[w].restore # NoRestore /\ work[w].at = "importing"
    BY DEF ImportFails, Jobs, LeasesHeld, Shape
  <1>2. work[w].restore \in Restores /\ Importing(work[w].restore)
    BY <1>1, OwnRestore DEF Importing, Jobs, LeasesHeld, Holds
  <1> QED BY <1>2, RollbackLost DEF ImportFails

\* A worker stops and the school stays as it is.
LEMMA StopLost ==
    ASSUME Jobs, Jobs', LostInv, NEW w \in Workers, Stop(w), SameAwaits,
           UNCHANGED <<school, backup, history>>
    PROVE  LostInv'
  <1>1. SameCopiers /\ SameDeleters /\ SameReplacers
    BY DEF SameCopiers, SameDeleters, SameReplacers, Stop, Idle, Jobs, JobsTyped
  <1>2. SameWhole BY DEF SameWhole, Whole, Here
  <1> QED BY <1>1, <1>2, BackupsAlone DEF Excuses, history

LEMMA ImportSaveLost ==
    ASSUME Jobs, Jobs', LostInv, NEW w \in Workers, ImportSave(w) PROVE LostInv'
  <1> USE DEF Jobs, JobsTyped
  <1>0. work[w].restore \in Restores BY OwnRestore DEF ImportSave, LeasesHeld, Shape
  <1>1. SameAwaits
    <2>1. \A r \in Restores : /\ restore'[r].status = restore[r].status
                              /\ restore'[r].phase = restore[r].phase
                              /\ restore'[r].pre = restore[r].pre
      BY <1>0, ZenonT(30) DEF ImportSave, RestoreType
    <2> QED BY <2>1 DEF SameAwaits, Awaiting
  <1> QED BY <1>1, StopLost DEF ImportSave

LEMMA KillLost == ASSUME Jobs, Jobs', LostInv, NEW w \in Workers, Kill(w) PROVE LostInv'
  <1> USE DEF Jobs, JobsTyped
  <1>1. restore' \in {restore, [restore EXCEPT ![work[w].restore].cut = TRUE]} BY DEF Kill
  <1>2. SameAwaits BY <1>1 DEF SameAwaits, Awaiting, RestoreType
  <1> QED BY <1>2, StopLost DEF Kill

LEMMA ReplaceFailsLost ==
    ASSUME Jobs, Jobs', LostInv, NEW w \in Workers, ReplaceFails(w) PROVE LostInv'
  <1> USE DEF Jobs, JobsTyped
  <1>1. SameAwaits BY DEF ReplaceFails, FailsRestore, NewRestore, SameAwaits, Awaiting
  <1> QED BY <1>1, StopLost DEF ReplaceFails

LEMMA ReplaceFilesLost ==
    ASSUME Jobs, Jobs', LostInv, NEW w \in Workers, ReplaceFiles(w) PROVE LostInv'
  <1> USE DEF Jobs, JobsTyped
  <1>1. SameCopiers /\ SameDeleters /\ SameReplacers
    BY DEF ReplaceFiles, SameCopiers, SameDeleters, SameReplacers, Stop, Idle
  <1>2. SameAwaits
    <2> DEFINE r == work[w].restore
    <2>1. /\ r \in Restores => restore'[r].phase = "import"
          /\ \A q \in Restores : q # r => restore'[q] = restore[q]
      BY DEF ReplaceFiles, RestoreType
    <2>2. \A q \in Restores : Awaiting(q)' => q # r /\ restore'[q] = restore[q]
      BY <2>1 DEF Awaiting
    <2> QED BY <2>2 DEF SameAwaits, Awaiting
  <1>3. SameWhole BY DEF ReplaceFiles, SameWhole, Whole, Here, SchoolType
  <1> QED BY <1>1, <1>2, <1>3, BackupsAlone DEF ReplaceFiles, Excuses, history

LEMMA LapseRestoreLost ==
    ASSUME Jobs, Jobs', LostInv, NEW r \in Restores, LapseRestore(r) PROVE LostInv'
  <1> USE DEF Jobs, JobsTyped, LapseRestore
  <1>1. SameCopiers /\ SameDeleters /\ SameReplacers /\ SameWhole
    BY DEF SameCopiers, SameDeleters, SameReplacers, SameWhole, Whole, Here
  <1>2. SameAwaits BY DEF SameAwaits, Awaiting, RestoreType
  <1> QED BY <1>1, <1>2, BackupsAlone DEF Excuses, history

\* Actions after which every copy that matters is as current as it was.
LEMMA CurrentStill ==
    ASSUME Jobs, Jobs', LostInv, FinalCopies', SameDeleters, SameReplacers, SameReasons, SameAwaits,
           Whole' => Whole, UNCHANGED Excuses,
           \A b \in Backups : backup[b].status \in {"RUNNING", "READY"} =>
               \/ backup'[b].current = backup[b].current
               \/ backup'[b].status \notin {"RUNNING", "READY"}
    PROVE  LostInv'
  <1> USE DEF LostInv, Excuses
  <1>1. DeletesLooked'
    <2>1. ASSUME NEW b \in Backups, backup[b].status = "READY", Live(b)
          PROVE  backup'[b].status = "READY" /\ Live(b)'
      <3>1. b # Old BY <2>1 DEF Live, Final, Jobs, Fit, OldStands
      <3>2. backup'[b].status = "READY" /\ backup'[b].reason = backup[b].reason
        BY <2>1, <3>1 DEF SameReasons
      <3>3. backup'[b].current = backup[b].current BY <2>1, <3>2
      <3> QED BY <2>1, <3>2, <3>3 DEF Live
    <2> QED BY <2>1, DeletesStill
  <1>2. ReplacesLooked'
    <2>1. ASSUME NEW r \in Restores, Awaiting(r)'
          PROVE  \/ backup'[restore[r].pre].current \/ ~backup[restore[r].pre].current
                 \/ backup'[restore[r].pre].status \notin {"RUNNING", "READY"}
      <3>1. restore[r].pre \in Backups /\ restore[r].pre # Old
        BY <2>1 DEF SameAwaits, Jobs, JobsTyped, Fit, AwaitsFit, OldStands, RestoreType
      <3>2. backup'[restore[r].pre].status \in {"RUNNING", "READY"}
              => backup[restore[r].pre].status \in {"RUNNING", "READY"}
        BY <3>1 DEF SameReasons
      <3> QED BY <3>1, <3>2
    <2> QED BY <2>1, ReplacesStill
  <1>3. NothingLost' BY DEF NothingLost
  <1> QED BY <1>1, <1>2, <1>3

LEMMA WriteLost == ASSUME Jobs, Jobs', LostInv, Write PROVE LostInv'
  <1> USE DEF Write, Jobs, JobsTyped
  <1> PICK lucky \in SUBSET Copying : backup' = Written(lucky) OBVIOUS
  <1>0. \A b \in Backups :
          /\ backup'[b].status = backup[b].status /\ backup'[b].reason = backup[b].reason
          /\ backup'[b].current = backup[b].current /\ backup'[b].done = backup[b].done
          /\ backup'[b].delete = backup[b].delete
    BY DEF Written, BackupType
  <1>1. FinalCopies'
    <2>1. \A b \in Backups : Live(b)' => Live(b) BY <1>0 DEF Live
    <2>2. \A b \in Backups : Begins(b)' => Begins(b) BY <1>0 DEF Begins
    <2>3. Whole' => Whole /\ (school.status = "SUSPENDED" => ~school.quiet)
      BY DEF Whole, Here
    <2> QED BY <2>1, <2>2, <2>3 DEF LostInv, FinalCopies
  <1>2. SameDeleters /\ SameReplacers BY DEF SameDeleters, SameReplacers
  <1>3. SameReasons BY <1>0 DEF SameReasons
  <1>4. SameAwaits BY DEF SameAwaits, Awaiting
  <1> QED BY <1>0, <1>1, <1>2, <1>3, <1>4, CurrentStill DEF Excuses, history, Whole, Here

LEMMA StartBackupLost ==
    ASSUME Jobs, Jobs', LostInv, NEW b \in Backups, NEW reason \in {"MANUAL", "BEFORE_DELETE"},
           StartBackup(b, reason)
    PROVE  LostInv'
  <1> USE DEF StartBackup, Jobs, JobsTyped
  <1>0. backup[b].status = "none" /\ backup'[b] = Started(reason)
        /\ \A c \in Backups \ {b} : backup'[c] = backup[c]
    BY DEF Fresh
  <1>1. /\ Started(reason).status = "RUNNING" /\ Started(reason).reason = reason
        /\ Started(reason).done = 0
    BY DEF Started, NewBackup
  <1>2. \A w \in Workers : work[w].at = "copying" => work[w].backup # b
    BY <1>0 DEF LeasesHeld, Holds
  <1>3. FinalCopies'
    <2>1. ~Begins(b)' BY <1>0, <1>1, <1>2 DEF Begins
    <2>2. Live(b)' => school.status = "SUSPENDED" BY <1>0, <1>1 DEF Live, Final
    <2>3. \A c \in Backups \ {b} : (Live(c)' => Live(c)) /\ (Begins(c)' => Begins(c))
      BY <1>0 DEF Live, Begins
    <2>4. Whole' => Whole BY DEF Whole, Here
    <2>5. ASSUME Whole', NEW c \in Backups, Live(c)'
          PROVE  (school.status = "SUSPENDED" /\ (Begins(c) => school.quiet /\ backup[c].full))'
      <3>1. CASE c = b BY <2>1, <2>2, <2>5, <3>1
      <3>2. CASE c # b BY <1>0, <2>3, <2>4, <2>5, <3>2 DEF LostInv, FinalCopies
      <3> QED BY <3>1, <3>2
    <2> QED BY <2>5 DEF FinalCopies
  <1>4. SameDeleters /\ SameReplacers BY DEF SameDeleters, SameReplacers
  <1>5. SameAwaits BY DEF SameAwaits, Awaiting
  <1>6. DeletesLooked'
    <2>1. \A c \in Backups : backup[c].status = "READY" /\ Live(c)
                                => backup'[c].status = "READY" /\ Live(c)'
      BY <1>0 DEF Live
    <2> QED BY <1>4, <2>1, DeletesStill DEF LostInv, Whole, Here, history
  <1>7. ReplacesLooked'
    <2>1. \A r \in Restores : Awaiting(r) => restore[r].pre # b
      BY <1>0 DEF Fit, AwaitsFit
    <2>2. \A w \in Workers : work[w].at = "replacing" => backup[restore[work[w].restore].pre].status = "READY"
      BY DEF LostInv, ReplacesLooked
    <2>3. \A w \in Workers : work[w].at = "replacing" => work[w].restore \in Restores /\ Awaiting(work[w].restore)
      BY OwnRestore DEF LeasesHeld, Shape, Holds, Awaiting, RestoreType
    <2>4. \A r \in Restores : Awaiting(r) => restore[r].pre \in Backups \ {b}
      BY <2>1 DEF Fit, AwaitsFit, RestoreType
    <2> QED BY <1>0, <2>2, <2>3, <2>4 DEF LostInv, ReplacesLooked, Awaiting, history
  <1>8. NothingLost' BY DEF LostInv, NothingLost, history
  <1> QED BY <1>3, <1>6, <1>7, <1>8 DEF LostInv

LEMMA ExpireLost == ASSUME Jobs, Jobs', LostInv, Expire PROVE LostInv'
  <1> USE DEF Expire, Jobs, JobsTyped
  <1>0. Old \in Backups BY BackupsAssumption
  <1>1. /\ backup'[Old].status = "EXPIRED" /\ backup'[Old].reason = backup[Old].reason
        /\ backup'[Old].delete = backup[Old].delete
        /\ \A b \in Backups \ {Old} : backup'[b] = backup[b]
    BY <1>0 DEF Ends, BackupType
  <1>2. FinalCopies'
    <2>1. \A b \in Backups : Live(b)' => b # Old /\ Live(b) BY <1>1 DEF Live
    <2>2. \A b \in Backups \ {Old} : Begins(b)' => Begins(b) BY <1>1 DEF Begins
    <2>3. Whole' => Whole BY DEF Whole, Here
    <2> QED BY <1>1, <2>1, <2>2, <2>3 DEF LostInv, FinalCopies
  <1>3. SameDeleters /\ SameReplacers BY DEF SameDeleters, SameReplacers
  <1>4. SameReasons BY <1>1 DEF SameReasons
  <1>5. SameAwaits BY DEF SameAwaits, Awaiting
  <1> QED BY <1>1, <1>2, <1>3, <1>4, <1>5, CurrentStill DEF Excuses, history, Whole, Here

\* A copy begins, or goes on: a final one only in a school that is quiet.
LEMMA StepLost ==
    ASSUME Jobs, Jobs', LostInv, NEW w \in Workers, NEW b \in Backups,
           NEW r \in Restores \union {NoRestore}, work[w] = Idle, Step(w, b, r),
           UNCHANGED <<school, history>>, SameAwaits
    PROVE  LostInv'
  <1> USE DEF Jobs, JobsTyped
  <1>0. /\ backup[b].status = "RUNNING" /\ work[w].at = "idle"
        /\ \A c \in Backups \ {b} : backup'[c] = backup[c]
        /\ \A v \in Workers \ {w} : work'[v] = work[v]
        /\ work'[w].at \in {"idle", "looked", "copying"}
    BY DEF Step, Leasable, Idle
  <1>1. SameReasons BY StepReasons
  <1>2. SameDeleters /\ SameReplacers BY <1>0 DEF SameDeleters, SameReplacers
  <1>3. \A c \in Backups \ {b} : (Live(c)' => Live(c)) /\ (Begins(c)' => Begins(c))
    <2>1. \A c \in Backups \ {b} : work'[w].at = "copying" => work'[w].backup # c
      BY DEF Step, WorkType
    <2> QED BY <1>0, <2>1 DEF Live, Begins
  <1>4. Whole' => Whole BY DEF Whole, Here
  <1>5. CASE Exhausted(backup[b].attempts)
    <2>0. Ends(b, "FAILED").status = "FAILED" BY DEF Ends, BackupType
    <2>1. backup'[b].status = "FAILED" BY <1>5, <2>0 DEF Step
    <2>2. FinalCopies'
      <3>1. \A c \in Backups : Live(c)' => c # b BY <2>1 DEF Live
      <3> QED BY <1>0, <1>3, <1>4, <3>1 DEF LostInv, FinalCopies
    <2> QED BY <1>0, <1>1, <1>2, <1>4, <2>1, <2>2, CurrentStill DEF Excuses, history
  <1>6. CASE ~Exhausted(backup[b].attempts)
    <2>1. /\ MayStart(b) /\ backup'[b].status = "RUNNING" /\ backup'[b].reason = backup[b].reason
          /\ backup'[b].current = backup[b].current /\ backup'[b].done = backup[b].done
      BY <1>6 DEF Step, Leasable, BackupType
    <2>2. backup[b].full \/ backup[b].done = 0 => backup'[b].full BY <1>6 DEF Step, BackupType
    <2>3. Live(b)' => Live(b) BY <1>0, <2>1 DEF Live
    <2>4. backup[b].done = 0 /\ Live(b)' => school.quiet /\ backup'[b].full
      BY <2>1, <2>2 DEF MayStart, Live
    <2>5. backup[b].done # 0 => Begins(b) BY DEF Begins, BackupType
    <2>6. FinalCopies'
      <3>1. ASSUME Whole', NEW c \in Backups, Live(c)'
            PROVE  (school.status = "SUSPENDED" /\ (Begins(c) => school.quiet /\ backup[c].full))'
        <4>1. Live(c) /\ Whole BY <1>3, <1>4, <2>3, <3>1
        <4>2. school.status = "SUSPENDED" /\ (Begins(c) => school.quiet /\ backup[c].full)
          BY <4>1 DEF LostInv, FinalCopies
        <4>3. CASE c = b BY <2>2, <2>4, <2>5, <3>1, <4>2, <4>3
        <4>4. CASE c # b BY <1>0, <1>3, <4>2, <4>4
        <4> QED BY <4>3, <4>4
      <3> QED BY <3>1 DEF FinalCopies
    <2> QED BY <1>0, <1>1, <1>2, <1>4, <2>1, <2>6, CurrentStill DEF Excuses, history
  <1> QED BY <1>5, <1>6

LEMMA StepBackupLost ==
    ASSUME Jobs, Jobs', LostInv, NEW w \in Workers, NEW b \in Backups, StepBackup(w, b) PROVE LostInv'
  <1>1. work[w] = Idle BY DEF StepBackup, Jobs, LeasesHeld, Shape
  <1>2. SameAwaits BY DEF StepBackup, SameAwaits, Awaiting
  <1> QED BY <1>1, <1>2, StepLost DEF StepBackup

LEMMA StepAwaitingLost ==
    ASSUME Jobs, Jobs', LostInv, NEW w \in Workers, NEW r \in Restores, StepAwaiting(w, r)
    PROVE  LostInv'
  <1> USE DEF Jobs, JobsTyped
  <1> DEFINE pre == restore[r].pre
  <1>0. work[w] = Idle /\ pre \in Backups /\ UNCHANGED <<school, history>>
    BY DEF StepAwaiting, Free, LeasesHeld, Shape, Fit, AwaitsFit, RestoreType
  <1>1. SameAwaits BY DEF StepAwaiting, SameAwaits, Awaiting, RestoreType
  <1> HIDE DEF pre
  <1>2. CASE Step(w, pre, r) BY <1>0, <1>1, <1>2, StepLost
  <1>3. CASE UNCHANGED backup /\ work' = [work EXCEPT ![w].at = "looked", ![w].restore = r]
    <2>1. SameCopiers /\ SameDeleters /\ SameReplacers
      BY <1>3 DEF SameCopiers, SameDeleters, SameReplacers, WorkType
    <2>2. SameWhole BY <1>0 DEF SameWhole, Whole, Here
    <2> QED BY <1>0, <1>1, <1>3, <2>1, <2>2, BackupsAlone DEF Excuses, history
  <1> QED BY <1>2, <1>3 DEF StepAwaiting, pre

\* A copy goes on: what has begun had begun, and what it has it keeps.
LEMMA CopyLost ==
    ASSUME Jobs, Jobs', LostInv, NEW w \in Workers, work[w].at = "copying", Return(w),
           UNCHANGED <<school, restore, history>>,
           \A c \in Backups \ {work[w].backup} : backup'[c] = backup[c],
           backup'[work[w].backup].reason = backup[work[w].backup].reason,
           backup'[work[w].backup].delete = backup[work[w].backup].delete,
           \/ backup'[work[w].backup].status = "FAILED"
           \/ /\ backup'[work[w].backup].status \in {"RUNNING", "READY"}
              /\ backup'[work[w].backup].current = backup[work[w].backup].current
              /\ backup'[work[w].backup].full = backup[work[w].backup].full
    PROVE  LostInv'
  <1> USE DEF Jobs, JobsTyped
  <1> DEFINE b == work[w].backup
  <1>0. b \in Backups /\ backup[b].status = "RUNNING" /\ Begins(b)
    BY DEF LeasesHeld, Shape, Holds, WorkType, Begins
  <1>1. work'[w].at \in {"idle", "looked"} /\ \A v \in Workers \ {w} : work'[v] = work[v]
    BY DEF Return, Idle
  <1>2. SameReasons BY <1>0 DEF SameReasons
  <1>3. SameDeleters /\ SameReplacers BY <1>1 DEF SameDeleters, SameReplacers
  <1>4. SameAwaits BY DEF SameAwaits, Awaiting
  <1>5. Whole' => Whole BY DEF Whole, Here
  <1>7. FinalCopies'
    <2>1. ASSUME Whole', NEW c \in Backups, Live(c)'
          PROVE  (school.status = "SUSPENDED" /\ (Begins(c) => school.quiet /\ backup[c].full))'
      <3>1. Live(c) /\ Whole
        <4>1. CASE c = b BY <1>0, <1>5, <2>1, <4>1 DEF Live
        <4>2. CASE c # b BY <1>5, <2>1, <4>2 DEF Live
        <4> QED BY <4>1, <4>2
      <3>2. Begins(c)' => Begins(c)
        <4>1. CASE c = b BY <1>0, <4>1
        <4>2. CASE c # b BY <1>1, <4>2 DEF Begins
        <4> QED BY <4>1, <4>2
      <3>3. backup[c].full => backup'[c].full BY <2>1 DEF Live
      <3> QED BY <3>1, <3>2, <3>3 DEF LostInv, FinalCopies
    <2> QED BY <2>1 DEF FinalCopies
  <1> QED BY <1>0, <1>2, <1>3, <1>4, <1>5, <1>7, CurrentStill DEF Excuses, history

LEMMA CopyPartLost == ASSUME Jobs, Jobs', LostInv, NEW w \in Workers, CopyPart(w) PROVE LostInv'
  <1>0. work[w].backup \in Backups /\ backup[work[w].backup].status = "RUNNING"
    BY DEF CopyPart, Jobs, JobsTyped, LeasesHeld, Shape, Holds, WorkType
  <1> QED BY <1>0, CopyLost, ZenonT(30) DEF CopyPart, Jobs, JobsTyped, BackupType

LEMMA CopyLastLost == ASSUME Jobs, Jobs', LostInv, NEW w \in Workers, CopyLast(w) PROVE LostInv'
  <1> DEFINE b == work[w].backup
  <1>0. b \in Backups BY DEF CopyLast, Jobs, JobsTyped, LeasesHeld, Shape, WorkType
  <1>1. /\ Ends(b, "READY").status = "READY" /\ Ends(b, "READY").reason = backup[b].reason
        /\ Ends(b, "READY").delete = backup[b].delete
        /\ Ends(b, "READY").full = backup[b].full /\ Ends(b, "READY").current = backup[b].current
    BY <1>0 DEF Ends, Jobs, JobsTyped, BackupType
  <1> QED BY <1>0, <1>1, CopyLost DEF CopyLast, Jobs, JobsTyped

LEMMA CopyFailsLost == ASSUME Jobs, Jobs', LostInv, NEW w \in Workers, CopyFails(w) PROVE LostInv'
  <1> DEFINE b == work[w].backup
  <1>0. b \in Backups BY DEF CopyFails, Jobs, JobsTyped, LeasesHeld, Shape, WorkType
  <1>1. /\ Ends(b, "FAILED").status = "FAILED" /\ Ends(b, "FAILED").reason = backup[b].reason
        /\ Ends(b, "FAILED").delete = backup[b].delete
    BY <1>0 DEF Ends, Jobs, JobsTyped, BackupType
  <1> QED BY <1>0, <1>1, CopyLost DEF CopyFails, Jobs, JobsTyped

LEMMA LapseBackupLost ==
    ASSUME Jobs, Jobs', LostInv, NEW b \in Backups, LapseBackup(b) PROVE LostInv'
  <1> USE DEF LapseBackup, Jobs, JobsTyped
  <1>1. SameCopies /\ SameReasons BY DEF SameCopies, SameReasons, BackupType
  <1>2. SameCopiers /\ SameDeleters /\ SameReplacers /\ SameAwaits /\ SameWhole
    BY DEF SameCopiers, SameDeleters, SameReplacers, SameAwaits, Awaiting, SameWhole, Whole, Here
  <1> QED BY <1>1, <1>2, LostStill DEF Excuses, history

\* A delete that is picked up has the backup it was asked for with.
LEMMA PickUpDeleteLost ==
    ASSUME Jobs, Jobs', LostInv, NEW w \in Workers, NEW b \in Backups, PickUpDelete(w, b)
    PROVE  LostInv'
  <1> USE DEF Jobs, JobsTyped
  <1>0. /\ work[w] = Idle /\ backup[b].status = "READY" /\ backup[b].reason = "BEFORE_DELETE"
        /\ UNCHANGED <<school, restore, history>>
    BY DEF PickUpDelete, LeasesHeld, Shape, Fit, FlagsFit
  <1>1. SameAwaits /\ SameWhole BY <1>0 DEF SameAwaits, Awaiting, SameWhole, Whole, Here
  <1>2. CASE backup' = [backup EXCEPT ![b].delete = FALSE] /\ UNCHANGED work
    <2>1. SameCopies /\ SameReasons BY <1>2 DEF SameCopies, SameReasons, BackupType
    <2>2. SameCopiers /\ SameDeleters /\ SameReplacers
      BY <1>2 DEF SameCopiers, SameDeleters, SameReplacers
    <2> QED BY <1>0, <1>1, <2>1, <2>2, LostStill DEF Excuses, history
  <1>3. CASE UNCHANGED backup /\ work' = [work EXCEPT ![w].at = "sweeping", ![w].backup = b]
    <2>1. SameCopiers /\ SameDeleters /\ SameReplacers
      BY <1>3 DEF SameCopiers, SameDeleters, SameReplacers, WorkType
    <2> QED BY <1>0, <1>1, <1>3, <2>1, BackupsAlone DEF Excuses, history
  <1>4. CASE /\ UNCHANGED backup /\ MayDelete(b)
             /\ work' = [work EXCEPT ![w].at = "checked", ![w].backup = b]
    <2>1. Live(b) BY <1>0, <1>4 DEF Live, MayDelete, Final
    <2>2. SameCopiers /\ SameReplacers BY <1>4 DEF SameCopiers, SameReplacers, WorkType
    <2>3. SameCopies /\ SameReasons BY <1>4 DEF SameCopies, SameReasons
    <2>4. FinalCopies' BY <1>1, <2>2, <2>3, CopiesStill DEF LostInv
    <2>5. ReplacesLooked' BY <1>0, <1>1, <1>4, <2>2, <2>3, ReplacesStill DEF LostInv, history
    <2>6. DeletesLooked'
      <3> SUFFICES ASSUME Whole', ~hurried', NEW v \in Workers,
                          work'[v].at = "checked" /\ work'[v].backup # NoBackup
                   PROVE  (backup[work[v].backup].status = "READY" /\ Live(work[v].backup))'
        BY DEF DeletesLooked
      <3>1. \A c : backup[c].status = "READY" /\ Live(c) => backup'[c].status = "READY" /\ Live(c)'
        BY <1>4 DEF Live
      <3>2. CASE v = w
        <4>1. work'[v].backup = b BY <1>4, <3>2 DEF WorkType
        <4> QED BY <1>0, <1>4, <2>1, <4>1 DEF Live
      <3>3. CASE v # w
        <4>1. work'[v] = work[v] BY <1>4, <3>3
        <4>2. Whole /\ ~hurried BY <1>0, <1>1 DEF SameWhole, history
        <4>3. backup[work[v].backup].status = "READY" /\ Live(work[v].backup)
          BY <4>1, <4>2 DEF LostInv, DeletesLooked
        <4> QED BY <1>4, <4>1, <4>3 DEF Live
      <3> QED BY <3>2, <3>3
    <2>7. NothingLost' BY <1>0 DEF LostInv, NothingLost, history
    <2> QED BY <2>4, <2>5, <2>6, <2>7 DEF LostInv
  <1> QED BY <1>2, <1>3, <1>4 DEF PickUpDelete

\* What a purge removes is in a backup, or the loss is excused.
LEMMA PurgeRowsLost == ASSUME Jobs, Jobs', LostInv, NEW w \in Workers, PurgeRows(w) PROVE LostInv'
  <1> USE DEF Jobs, JobsTyped
  <1>0. /\ work[w].at = "checked" /\ work[w].restore = NoRestore
        /\ UNCHANGED <<backup, restore, hurried, reopened>>
    BY DEF PurgeRows, LeasesHeld, Shape
  <1>1. \A v \in Workers \ {w} : work'[v] = work[v] BY DEF PurgeRows, Return, Goes
  <1>2. work'[w].at \in {"idle", "sweeping"} BY <1>0 DEF PurgeRows, Return, Goes, Idle, WorkType
  <1>3. SameCopiers /\ SameDeleters /\ SameReplacers
    BY <1>1, <1>2 DEF SameCopiers, SameDeleters, SameReplacers
  <1>4. SameCopies /\ SameReasons /\ SameAwaits
    BY <1>0 DEF SameCopies, SameReasons, SameAwaits, Awaiting
  <1>5. SameWhole
    <2>1. CASE UNCHANGED school BY <2>1 DEF SameWhole, Whole, Here
    <2>2. CASE school' = SchoolGone
      <3>1. ~Here' BY <2>2 DEF SchoolGone, Here, SchoolType
      <3> QED BY <3>1 DEF SameWhole, Whole
    <2> QED BY <2>1, <2>2 DEF PurgeRows
  <1>6. FinalCopies' BY <1>3, <1>4, <1>5, CopiesStill DEF LostInv
  <1>7. DeletesLooked'
    <2>1. \A b \in Backups : backup[b].status = "READY" /\ Live(b)
                                => backup'[b].status = "READY" /\ Live(b)'
      BY <1>0 DEF Live
    <2> QED BY <1>0, <1>3, <1>5, <2>1, DeletesStill DEF LostInv, SameWhole
  <1>8. ReplacesLooked' BY <1>0, <1>3, <1>4, ReplacesStill DEF LostInv
  <1>9. NothingLost'
    <2>1. CASE UNCHANGED lost BY <1>0, <2>1 DEF LostInv, NothingLost
    <2>2. CASE Here /\ ~Saved /\ work[w].backup # NoBackup /\ lost' = lost \union {"delete"}
      <3>1. Whole BY <2>2 DEF Whole, Saved
      <3>2. hurried
        <4> SUFFICES ASSUME ~hurried PROVE FALSE OBVIOUS
        <4>1. work[w].backup \in Backups BY <2>2 DEF WorkType
        <4>2. backup[work[w].backup].status = "READY" /\ Live(work[w].backup)
          BY <1>0, <2>2, <3>1 DEF LostInv, DeletesLooked
        <4>3. backup[work[w].backup].full BY <3>1, <4>1, <4>2 DEF LostInv, FinalCopies, Begins
        <4> QED BY <2>2, <4>1, <4>2, <4>3 DEF Saved
      <3> QED BY <1>0, <2>2, <3>2 DEF LostInv, NothingLost
    <2> QED BY <2>1, <2>2 DEF PurgeRows
  <1> QED BY <1>6, <1>7, <1>8, <1>9 DEF LostInv

LEMMA PurgeFilesLost == ASSUME Jobs, Jobs', LostInv, NEW w \in Workers, PurgeFiles(w) PROVE LostInv'
  <1> USE DEF PurgeFiles, Jobs, JobsTyped
  <1>1. SameCopies /\ SameReasons BY DEF SameCopies, SameReasons, BackupType
  <1>2. SameCopiers /\ SameDeleters /\ SameReplacers
    BY DEF SameCopiers, SameDeleters, SameReplacers, Stop, Idle
  <1>3. SameAwaits /\ SameWhole
    BY DEF SameAwaits, Awaiting, SameWhole, Whole, Here, SchoolType
  <1> QED BY <1>1, <1>2, <1>3, LostStill DEF Excuses, history

LEMMA ReplaceRowsLost == ASSUME Jobs, Jobs', LostInv, NEW w \in Workers, ReplaceRows(w) PROVE LostInv'
  <1> USE DEF Jobs, JobsTyped
  <1> DEFINE r == work[w].restore
             pre == restore[r].pre
  <1>0. /\ work[w].at = "replacing" /\ UNCHANGED <<backup, restore, hurried, reopened>>
        /\ school' = SchoolGone /\ work' = [work EXCEPT ![w].at = "emptying"]
    BY DEF ReplaceRows, Goes
  <1>1. ~Whole' BY <1>0 DEF SchoolGone, Whole, Here, SchoolType
  <1>2. FinalCopies' /\ DeletesLooked' BY <1>1 DEF FinalCopies, DeletesLooked
  <1>3. ReplacesLooked'
    <2>1. SameReplacers BY <1>0 DEF SameReplacers, WorkType
    <2>2. SameReasons /\ SameAwaits BY <1>0 DEF SameReasons, SameAwaits, Awaiting
    <2> QED BY <1>0, <2>1, <2>2, ReplacesStill DEF LostInv
  <1>4. NothingLost'
    <2>1. CASE UNCHANGED lost BY <1>0, <2>1 DEF LostInv, NothingLost
    <2>2. CASE Here /\ ~Saved /\ lost' = lost \union {"replace"}
      <3>1. Whole BY <2>2 DEF Whole, Saved
      <3>2. reopened
        <4> SUFFICES ASSUME ~reopened PROVE FALSE OBVIOUS
        <4>1. r \in Restores /\ Awaiting(r)
          BY <1>0, OwnRestore DEF LeasesHeld, Shape, Holds, Awaiting, RestoreType
        <4>2. pre \in Backups /\ backup[pre].reason = "BEFORE_REPLACE"
          BY <4>1 DEF Fit, AwaitsFit, RestoreType
        <4>3. backup[pre].status = "READY" BY <1>0 DEF LostInv, ReplacesLooked
        <4>4. backup[pre].current BY <4>1, <4>3 DEF LostInv, ReplacesLooked
        <4>5. backup[pre].full
          BY <3>1, <4>2, <4>3, <4>4 DEF LostInv, FinalCopies, Begins, Live, Final
        <4> QED BY <2>2, <4>2, <4>3, <4>5 DEF Saved
      <3> QED BY <1>0, <2>2, <3>2 DEF LostInv, NothingLost
    <2> QED BY <2>1, <2>2 DEF ReplaceRows
  <1> QED BY <1>2, <1>3, <1>4 DEF LostInv

LEMMA OwnReplace ==
    ASSUME Jobs, NEW w \in Workers, work[w].at \in {"looked", "replacing", "emptying"}
    PROVE  work[w].restore \in Restores /\ Awaiting(work[w].restore)
  <1>1. work[w].restore # NoRestore BY DEF Jobs, LeasesHeld, Shape
  <1>2. work[w].restore \in Restores /\ restore[work[w].restore].status = "RUNNING"
    BY <1>1, OwnRestore
  <1>3. restore[work[w].restore].phase # "import" BY <1>1 DEF Jobs, LeasesHeld, Holds
  <1> QED BY <1>2, <1>3 DEF Jobs, JobsTyped, RestoreType, Awaiting

\* Nothing awaits a backup any more.
LEMMA NobodyAwaits == ASSUME Jobs', \A r \in Restores : ~Awaiting(r)' PROVE ReplacesLooked'
  <1>1. ASSUME NEW w \in Workers, work'[w].at = "replacing" PROVE FALSE
    <2>1. work'[w].restore \in Restores /\ work'[w].restore # NoRestore
      BY <1>1 DEF Jobs, JobsTyped, LeasesHeld, Shape, WorkType
    <2>2. restore'[work'[w].restore].status = "RUNNING" /\ restore'[work'[w].restore].phase # "import"
      BY <1>1, <2>1 DEF Jobs, LeasesHeld, Holds
    <2>3. restore'[work'[w].restore].phase = "awaiting-backup"
      BY <2>1, <2>2 DEF Jobs, JobsTyped, RestoreType
    <2> QED BY <2>1, <2>2, <2>3 DEF Awaiting
  <1> QED BY <1>1 DEF ReplacesLooked

\* A change of the school's row excuses whoever had looked at a backup before it.
LEMMA HurriesLost ==
    ASSUME LostInv, FinalCopies', ReplacesLooked', SameDeleters, UNCHANGED lost,
           hurried' = (hurried \/ Hurries), reopened => reopened'
    PROVE  LostInv'
  <1>1. DeletesLooked'
    <2>1. ASSUME NEW w \in Workers, work'[w].at = "checked" /\ work'[w].backup # NoBackup
          PROVE  hurried'
      BY <2>1 DEF SameDeleters, Hurries
    <2> QED BY <2>1 DEF DeletesLooked
  <1>2. NothingLost'
    <2>1. hurried => hurried' OBVIOUS
    <2> QED BY <2>1 DEF LostInv, NothingLost
  <1> QED BY <1>1, <1>2 DEF LostInv

LEMMA SetStatusLost == ASSUME Jobs, Jobs', LostInv, SetStatus PROVE LostInv'
  <1> USE DEF SetStatus, Jobs, JobsTyped
  <1>1. FinalCopies' BY NoneCurrent
  <1>2. SameDeleters /\ SameReplacers BY DEF SameDeleters, SameReplacers
  <1>3. ReplacesLooked'
    <2>1. SameReasons BY DEF SameReasons, Outdated, BackupType
    <2>2. SameAwaits BY DEF SameAwaits, Awaiting
    <2>3. \A r \in Restores : Awaiting(r)' => reopened' BY DEF Awaiting
    <2>4. reopened => reopened' OBVIOUS
    <2> QED BY <1>2, <2>1, <2>2, <2>3, <2>4, ReplacesStill DEF LostInv
  <1> QED BY <1>1, <1>2, <1>3, HurriesLost

LEMMA StartReplaceLost ==
    ASSUME Jobs, Jobs', LostInv, NEW r \in Restores, NEW b \in Backups, NEW pre \in Backups,
           StartReplace(r, b, pre)
    PROVE  LostInv'
  <1> USE DEF Jobs, JobsTyped
  <1>0. /\ UNCHANGED <<work, lost>> /\ hurried' = (hurried \/ Hurries)
        /\ reopened' = (reopened \/ \E q \in Restores : Awaiting(q))
    BY DEF StartReplace
  <1>1. SameDeleters BY <1>0 DEF SameDeleters
  <1>2. \A c \in Backups : /\ ~Outdated[c].current /\ Outdated[c].status = backup[c].status
                           /\ Outdated[c].reason = backup[c].reason
    BY DEF Outdated, BackupType
  <1>3. /\ Started("BEFORE_REPLACE").status = "RUNNING" /\ Started("BEFORE_REPLACE").done = 0
        /\ Started("BEFORE_REPLACE").current
    BY DEF Started, NewBackup
  <1>4. FinalCopies'
    <2>1. CASE RunningBackup
      <3>1. backup' = Outdated BY <2>1 DEF StartReplace
      <3> QED BY <3>1, NoneCurrent
    <2>2. CASE ~RunningBackup
      <3>1. backup' = [Outdated EXCEPT ![pre] = Started("BEFORE_REPLACE")]
            /\ school'.status = "SUSPENDED"
        BY <2>2 DEF StartReplace, SchoolType
      <3>2. backup'[pre] = Started("BEFORE_REPLACE") /\ \A c \in Backups \ {pre} : backup'[c] = Outdated[c]
        BY <3>1 DEF Outdated
      <3>3. \A w \in Workers : work[w].at = "copying" => work[w].backup # pre
        BY DEF StartReplace, Fresh, LeasesHeld, Holds
      <3>4. ~Begins(pre)' BY <1>0, <1>3, <3>2, <3>3 DEF Begins
      <3>5. \A c \in Backups \ {pre} : ~Live(c)' BY <1>2, <3>2 DEF Live
      <3> QED BY <3>1, <3>4, <3>5 DEF FinalCopies
    <2> QED BY <2>1, <2>2
  <1>5. ReplacesLooked'
    <2>1. CASE restore' = restore
      <3>1. \A q \in Restores : Awaiting(q)' => reopened' BY <1>0, <2>1 DEF Awaiting
      <3>2. ASSUME NEW w \in Workers, work'[w].at = "replacing"
            PROVE  backup'[restore'[work'[w].restore].pre].status = "READY"
        <4> DEFINE p == restore[work[w].restore].pre
        <4>1. p \in Backups
          BY <1>0, <3>2, OwnRestore
          DEF LeasesHeld, Shape, Holds, Awaiting, Fit, AwaitsFit, RestoreType
        <4>2. backup[p].status = "READY" BY <1>0, <3>2 DEF LostInv, ReplacesLooked
        <4>3. p # pre BY <4>2 DEF StartReplace, Fresh
        <4> HIDE DEF p
        <4>4. backup'[p] = Outdated[p] BY <4>1, <4>3 DEF StartReplace
        <4> QED BY <1>0, <1>2, <2>1, <4>1, <4>2, <4>4 DEF p
      <3> QED BY <3>1, <3>2 DEF ReplacesLooked
    <2>2. CASE restore' # restore
      <3>1. ~RunningBackup /\ ~RunningRestore BY <2>2 DEF StartReplace
      <3>2. \A q \in Restores \ {r} : ~Awaiting(q)'
        BY <3>1 DEF StartReplace, RunningRestore, Awaiting
      <3>3. restore'[r].pre = pre BY <3>1 DEF StartReplace, NewRestore
      <3>4. backup'[pre].current BY <1>3, <3>1 DEF StartReplace, Outdated
      <3>5. ASSUME NEW w \in Workers, work'[w].at = "replacing" PROVE FALSE
        BY <1>0, <3>1, <3>5, OwnRestore DEF LeasesHeld, Shape, RunningRestore
      <3> QED BY <3>2, <3>3, <3>4, <3>5 DEF ReplacesLooked
    <2> QED BY <2>1, <2>2
  <1> QED BY <1>0, <1>1, <1>4, <1>5, HurriesLost

LEMMA AfterPreLost == ASSUME Jobs, Jobs', LostInv, NEW w \in Workers, AfterPre(w) PROVE LostInv'
  <1> USE DEF Jobs, JobsTyped
  <1> DEFINE r == work[w].restore
  <1>0. work[w].at = "looked" /\ r \in Restores /\ Awaiting(r) /\ UNCHANGED <<lost, reopened, swept>>
    BY OwnReplace DEF AfterPre
  <1>1. CASE restore' = [restore EXCEPT ![r].lock = Nobody] /\ Stop(w)
             /\ UNCHANGED <<school, backup, hurried>>
    <2>1. SameAwaits BY <1>1 DEF SameAwaits, Awaiting, RestoreType
    <2> QED BY <1>0, <1>1, <2>1, StopLost DEF history
  <1>2. CASE /\ backup[restore[r].pre].status = "READY" /\ Goes(w, "replacing")
             /\ UNCHANGED <<school, backup, restore, hurried>>
    <2>1. SameCopies /\ SameReasons BY <1>2 DEF SameCopies, SameReasons
    <2>2. SameCopiers /\ SameDeleters BY <1>2 DEF SameCopiers, SameDeleters, Goes, WorkType
    <2>3. SameWhole BY <1>2 DEF SameWhole, Whole, Here
    <2>4. FinalCopies' BY <2>1, <2>2, <2>3, CopiesStill DEF LostInv
    <2>5. DeletesLooked'
      <3>1. \A b \in Backups : Live(b) => Live(b)' BY <1>2 DEF Live
      <3> QED BY <1>2, <2>2, <2>3, <3>1, DeletesStill DEF LostInv, SameWhole
    <2>6. ReplacesLooked'
      <3>1. \A v \in Workers : work'[v].restore = work[v].restore
                            /\ (v # w => work'[v] = work[v])
        BY <1>2 DEF Goes, WorkType
      <3> QED BY <1>0, <1>2, <3>1 DEF LostInv, ReplacesLooked, Awaiting
    <2>7. NothingLost' BY <1>0, <1>2 DEF LostInv, NothingLost
    <2> QED BY <2>4, <2>5, <2>6, <2>7 DEF LostInv
  <1>3. CASE /\ restore' = FailsRestore(r) /\ Stop(w)
             /\ school' = IF Here THEN [school EXCEPT !.status = restore[r].previous, !.quiet = FALSE]
                          ELSE school
             /\ backup' = IF Here THEN Outdated ELSE backup
             /\ hurried' = (hurried \/ (Here /\ Hurries))
    <2>1. SameDeleters BY <1>3 DEF SameDeleters, Stop, Idle
    <2>2. ReplacesLooked'
      <3>1. restore'[r].status = "FAILED" /\ \A q \in Restores \ {r} : restore'[q] = restore[q]
        BY <1>0, <1>3 DEF FailsRestore, NewRestore
      <3>2. \A q \in Restores : ~Awaiting(q)' BY <1>0, <3>1 DEF Awaiting, Fit, OneRestore
      <3> QED BY <3>2, NobodyAwaits
    <2>3. CASE Here
      <3>1. FinalCopies' BY <1>3, <2>3, NoneCurrent
      <3> QED BY <1>0, <1>3, <2>1, <2>2, <2>3, <3>1, HurriesLost
    <2>4. CASE ~Here
      <3>1. ~Whole' /\ (hurried => hurried') BY <1>3, <2>4 DEF Whole, Here
      <3>2. FinalCopies' /\ DeletesLooked' BY <3>1 DEF FinalCopies, DeletesLooked
      <3>3. NothingLost' BY <1>0, <3>1 DEF LostInv, NothingLost
      <3> QED BY <2>2, <3>2, <3>3 DEF LostInv
    <2> QED BY <2>3, <2>4
  <1> QED BY <1>1, <1>2, <1>3 DEF AfterPre

\* An import writes into a school that is its own: no copy of it is anybody's last.
LEMMA ImportsLost ==
    ASSUME Jobs, Jobs', LostInv, NEW w \in Workers, work[w].at = "importing",
           UNCHANGED <<restore, Excuses>>, ~Whole'
    PROVE  LostInv'
  <1> USE DEF Jobs, JobsTyped
  <1>1. FinalCopies' /\ DeletesLooked' BY DEF FinalCopies, DeletesLooked
  <1>2. \A q \in Restores : ~Awaiting(q)'
    BY OwnRestore DEF LeasesHeld, Shape, Holds, Awaiting
  <1>3. ReplacesLooked' BY <1>2, NobodyAwaits
  <1>4. NothingLost' BY DEF LostInv, NothingLost, Excuses
  <1> QED BY <1>1, <1>3, <1>4 DEF LostInv

LEMMA OwnImport ==
    ASSUME Jobs, NEW w \in Workers, work[w].at = "importing"
    PROVE  /\ work[w].restore \in Restores /\ Importing(work[w].restore)
           /\ Here => school.import = work[w].restore
           /\ restore[work[w].restore].done <= work[w].reached
  <1>1. work[w].restore \in Restores /\ Importing(work[w].restore)
    BY OwnRestore DEF Jobs, LeasesHeld, Shape, Holds, Importing
  <1>2. Here => school.import = work[w].restore BY <1>1 DEF Jobs, Fit, ImportsFit
  <1>3. restore[work[w].restore].done <= work[w].reached
    BY <1>1, BackupsAssumption DEF Jobs, LeasesHeld, Holds
  <1> QED BY <1>1, <1>2, <1>3

LEMMA ImportRowsLost == ASSUME Jobs, Jobs', LostInv, NEW w \in Workers, ImportRows(w) PROVE LostInv'
  <1>1. ~Whole'
    <2>1. work[w].restore \in Restores /\ (Here => school.import = work[w].restore)
      BY OwnImport DEF ImportRows
    <2>2. school'.import = work[w].restore
      BY <2>1 DEF ImportRows, Jobs, JobsTyped, SchoolType
    <2> QED BY <2>1, <2>2, BackupsAssumption DEF Whole
  <1> QED BY <1>1, ImportsLost DEF ImportRows, Excuses

LEMMA ImportFilesLost == ASSUME Jobs, Jobs', LostInv, NEW w \in Workers, ImportFiles(w) PROVE LostInv'
  <1>1. ~Whole'
    <2>1. work[w].restore \in Restores /\ (Here => school.import = work[w].restore)
      BY OwnImport DEF ImportFiles
    <2>2. school'.import = school.import /\ (Here' <=> Here)
      BY DEF ImportFiles, Jobs, JobsTyped, SchoolType, Here
    <2> QED BY <2>1, <2>2, BackupsAssumption DEF Whole
  <1> QED BY <1>1, ImportsLost DEF ImportFiles, Excuses

LEMMA ImportFinishLost ==
    ASSUME Jobs, Jobs', LostInv, NEW w \in Workers, ImportFinish(w) PROVE LostInv'
  <1> USE DEF ImportFinish, Jobs, JobsTyped
  <1>1. FinalCopies' BY NoneCurrent
  <1>2. SameDeleters BY DEF SameDeleters, Stop, Idle
  <1>3. ReplacesLooked'
    <2>1. \A q \in Restores : restore'[q].status # "RUNNING"
      BY OwnImport, OwnRestore DEF NewRestore, LeasesHeld, Shape
    <2> QED BY <2>1, NobodyAwaits DEF Awaiting
  <1> QED BY <1>1, <1>2, <1>3, HurriesLost

-----------------------------------------------------------------------------
(* Files.                                                                  *)

\* Nobody begins to sweep, nobody gets further with an import, and the school keeps its files.
SameSweepers == \A w \in Workers : work'[w].at = "sweeping" => work[w].at = "sweeping"
FilesIn(r) == Importing(r) /\ (restore[r].done = 2 \/ \E w \in Workers : work[w].restore = r /\ work[w].reached = 2)
SameFilesIn == \A r \in Restores : FilesIn(r)' => FilesIn(r)
SameFiles == Here' => /\ Here /\ school'.files = school.files
                      /\ school'.import = NoRestore => school.import = NoRestore

LEMMA FilesStill ==
    ASSUME FilesInv, SameSweepers, SameFilesIn, SameFiles, swept => swept' PROVE FilesInv'
  <1> USE DEF FilesInv
  <1>1. SweepsGone' BY DEF SweepsGone, SameSweepers, SameFiles
  <1>2. FilesBack' BY DEF FilesBack, SameFilesIn, FilesIn, SameFiles
  <1>3. FilesKept' BY DEF FilesKept, SameFiles
  <1> QED BY <1>1, <1>2, <1>3

\* A worker stops, or goes somewhere else, with the restores as they are but for r.
LEMMA SameFilesWork ==
    ASSUME JobsTyped, UNCHANGED restore, NEW w \in Workers, \A v \in Workers \ {w} : work'[v] = work[v],
           work'[w].reached = 2 => work[w].reached = 2 /\ work'[w].restore = work[w].restore
    PROVE  SameFilesIn
  BY DEF SameFilesIn, FilesIn, Importing

LEMMA SchoolAlone == ASSUME UNCHANGED school PROVE SameFiles
  BY DEF SameFiles, Here

LEMMA GoneFiles == ASSUME ~Here' PROVE FilesInv'
  BY DEF FilesInv, SweepsGone, FilesBack, FilesKept

LEMMA SweptFiles == ASSUME swept' PROVE FilesInv'
  BY DEF FilesInv, SweepsGone, FilesBack, FilesKept

\* Actions of the operator, of the cron and of time: no worker moves.
LEMMA NobodyMoves ==
    ASSUME Jobs, FilesInv, UNCHANGED <<work, swept>>, SameFiles,
           \A r \in Restores : Importing(r)' => Importing(r) /\ restore'[r].done = restore[r].done
    PROVE  FilesInv'
  <1>1. SameSweepers BY DEF SameSweepers
  <1>2. SameFilesIn BY DEF SameFilesIn, FilesIn
  <1> QED BY <1>1, <1>2, FilesStill

LEMMA OperatorFiles ==
    ASSUME Jobs, FilesInv, Write \/ Settle \/ Operator \/ Expire PROVE FilesInv'
  <1> USE DEF Jobs, JobsTyped
  <1>1. CASE Write \/ Expire
    <2>1. UNCHANGED <<school, restore, work, swept>> BY <1>1 DEF Write, Expire, history
    <2> QED BY <2>1, SchoolAlone, NobodyMoves DEF Importing
  <1>2. CASE Settle \/ SetStatus
    <2>1. UNCHANGED <<restore, work, swept>> /\ SameFiles
      BY <1>2 DEF Settle, SetStatus, history, SameFiles, Here, SchoolType
    <2> QED BY <2>1, NobodyMoves DEF Importing
  <1>3. ASSUME NEW b \in Backups, NEW reason, StartBackup(b, reason) PROVE FilesInv'
    <2>1. UNCHANGED <<school, restore, work, swept>> BY <1>3 DEF StartBackup, history
    <2> QED BY <2>1, SchoolAlone, NobodyMoves DEF Importing
  <1>4. ASSUME NEW r \in Restores, NEW b \in Backups, StartRestore(r, b) PROVE FilesInv'
    BY <1>4, GoneFiles DEF StartRestore, Here
  <1>5. ASSUME NEW r \in Restores, NEW b \in Backups, NEW pre \in Backups, StartReplace(r, b, pre)
        PROVE  FilesInv'
    <2>1. UNCHANGED <<work, swept>> /\ SameFiles BY <1>5 DEF StartReplace, SameFiles, SchoolType
    <2>2. \A q \in Restores : Importing(q)' => restore'[q] = restore[q]
      BY <1>5 DEF StartReplace, Importing, NewRestore
    <2> QED BY <2>1, <2>2, NobodyMoves DEF Importing
  <1> QED BY <1>1, <1>2, <1>3, <1>4, <1>5 DEF Operator

LEMMA LapseFiles ==
    ASSUME Jobs, FilesInv,
           (\E b \in Backups : LapseBackup(b)) \/ (\E r \in Restores : LapseRestore(r))
    PROVE  FilesInv'
  <1> USE DEF Jobs, JobsTyped
  <1>1. UNCHANGED <<school, work, swept>> BY DEF LapseBackup, LapseRestore, history
  <1>2. \A r \in Restores : restore'[r].status = restore[r].status /\ restore'[r].phase = restore[r].phase
                            /\ restore'[r].done = restore[r].done
    BY DEF LapseBackup, LapseRestore, RestoreType
  <1> QED BY <1>1, <1>2, SchoolAlone, NobodyMoves DEF Importing

\* A worker goes on with no import in hand.
LEMMA WorkerMoves ==
    ASSUME Jobs, FilesInv, NEW w \in Workers, SameFiles, UNCHANGED swept,
           \A v \in Workers \ {w} : work'[v] = work[v], work'[w].reached # 2,
           work'[w].at # "sweeping",
           \A r \in Restores : Importing(r)' => Importing(r) /\ restore'[r].done = restore[r].done
    PROVE  FilesInv'
  <1>1. SameSweepers BY DEF SameSweepers
  <1>2. SameFilesIn BY DEF SameFilesIn, FilesIn
  <1> QED BY <1>1, <1>2, FilesStill

LEMMA StepFiles ==
    ASSUME Jobs, FilesInv, NEW w \in Workers, NEW b, NEW r, work[w] = Idle, Step(w, b, r)
    PROVE  /\ \A v \in Workers \ {w} : work'[v] = work[v]
           /\ work'[w].reached # 2 /\ work'[w].at # "sweeping"
  BY DEF Jobs, JobsTyped, Step, Idle, WorkType

LEMMA RollbackFiles ==
    ASSUME Jobs, FilesInv, NEW w \in Workers, NEW r \in Restores, NEW n, Rollback(w, r, n),
           UNCHANGED swept
    PROVE  FilesInv'
  <1> USE DEF Jobs, JobsTyped
  <1>1. work'[w] = Idle /\ \A v \in Workers \ {w} : work'[v] = work[v] BY DEF Rollback, Stop
  <1>2. work'[w].reached # 2 /\ work'[w].at # "sweeping" BY <1>1 DEF Idle
  <1>3. restore'[r].status = "FAILED" /\ \A q \in Restores \ {r} : restore'[q] = restore[q]
    BY DEF Rollback, FailsRestore, NewRestore
  <1>4. \A q \in Restores : Importing(q)' => Importing(q) /\ restore'[q].done = restore[q].done
    BY <1>3 DEF Importing
  <1>5. \/ school'.status = "gone" \/ UNCHANGED school
        \/ Here /\ school'.import = school.import /\ school'.files = school.files
    BY DEF Rollback, SchoolGone, SchoolType
  <1>6. ~Here' \/ SameFiles BY <1>5 DEF Here, SameFiles
  <1> QED BY <1>1, <1>2, <1>4, <1>6, GoneFiles, WorkerMoves

LEMMA PickUpFiles == ASSUME Jobs, FilesInv, NEW w \in Workers, PickUp(w) PROVE FilesInv'
  <1> USE DEF Jobs, JobsTyped
  <1>0. work[w].at = "idle" /\ work[w] = Idle
    BY DEF PickUp, DeleteNow, StepBackup, PickUpDelete, StepAwaiting, StepImport, Free, LeasesHeld, Shape
  <1>1. CASE DeleteNow(w)
    <2>1. UNCHANGED <<school, restore, swept>> BY <1>1 DEF DeleteNow, history
    <2>2. /\ \A v \in Workers \ {w} : work'[v] = work[v]
          /\ work'[w].reached # 2 /\ work'[w].at # "sweeping"
      BY <1>0, <1>1 DEF DeleteNow, Goes, Idle
    <2> QED BY <2>1, <2>2, SchoolAlone, WorkerMoves DEF Importing
  <1>2. ASSUME NEW b \in Backups, StepBackup(w, b) PROVE FilesInv'
    <2>1. UNCHANGED <<school, restore, swept>> BY <1>2 DEF StepBackup, history
    <2>2. /\ \A v \in Workers \ {w} : work'[v] = work[v]
          /\ work'[w].reached # 2 /\ work'[w].at # "sweeping"
      BY <1>0, <1>2, StepFiles DEF StepBackup
    <2> QED BY <2>1, <2>2, SchoolAlone, WorkerMoves DEF Importing
  <1>3. ASSUME NEW b \in Backups, PickUpDelete(w, b) PROVE FilesInv'
    <2>1. UNCHANGED <<school, restore, swept>> BY <1>3 DEF PickUpDelete, history
    <2>2. CASE ~Here BY <2>1, <2>2, GoneFiles DEF Here
    <2>3. CASE Here
      <3>1. work' \in {work, [work EXCEPT ![w].at = "checked", ![w].backup = b]}
        BY <1>3, <2>3 DEF PickUpDelete, SchoolIsGone
      <3>2. /\ \A v \in Workers \ {w} : work'[v] = work[v]
            /\ work'[w].reached # 2 /\ work'[w].at # "sweeping"
        BY <1>0, <3>1 DEF Idle
      <3> QED BY <2>1, <3>2, SchoolAlone, WorkerMoves DEF Importing
    <2> QED BY <2>2, <2>3
  <1>4. ASSUME NEW r \in Restores, StepAwaiting(w, r) PROVE FilesInv'
    <2>1. UNCHANGED <<school, swept>> BY <1>4 DEF StepAwaiting, history
    <2>2. CASE Step(w, restore[r].pre, r)
      <3>1. /\ \A v \in Workers \ {w} : work'[v] = work[v]
            /\ work'[w].reached # 2 /\ work'[w].at # "sweeping"
        BY <1>0, <2>2, StepFiles
      <3>2. \A q \in Restores : Importing(q)' => Importing(q) /\ restore'[q].done = restore[q].done
        BY <1>4 DEF StepAwaiting, Importing, RestoreType
      <3> QED BY <2>1, <3>1, <3>2, SchoolAlone, WorkerMoves
    <2>3. CASE work' = [work EXCEPT ![w].at = "looked", ![w].restore = r]
      <3>1. /\ \A v \in Workers \ {w} : work'[v] = work[v]
            /\ work'[w].reached # 2 /\ work'[w].at # "sweeping"
        BY <1>0, <2>3 DEF Idle
      <3>2. \A q \in Restores : Importing(q)' => Importing(q) /\ restore'[q].done = restore[q].done
        BY <1>4 DEF StepAwaiting, Importing, RestoreType
      <3> QED BY <2>1, <3>1, <3>2, SchoolAlone, WorkerMoves
    <2> QED BY <1>4, <2>2, <2>3 DEF StepAwaiting
  <1>5. ASSUME NEW r \in Restores, StepImport(w, r) PROVE FilesInv'
    <2>1. CASE Exhausted(restore[r].attempts)
      BY <1>5, <2>1, RollbackFiles DEF StepImport, history
    <2>2. CASE ~Exhausted(restore[r].attempts)
      <3>0. /\ restore' = [restore EXCEPT ![r].lock = w, ![r].attempts = OneMore(@)]
            /\ work' = [work EXCEPT ![w].at = "importing", ![w].restore = r,
                                    ![w].reached = restore[r].done]
            /\ UNCHANGED <<school, swept>>
        BY <1>5, <2>2 DEF StepImport, history
      <3>1. \A q \in Restores : /\ restore'[q].status = restore[q].status
                                /\ restore'[q].phase = restore[q].phase
                                /\ restore'[q].done = restore[q].done
        BY <3>0 DEF RestoreType
      <3>2. /\ work'[w].at = "importing" /\ work'[w].restore = r
            /\ work'[w].reached = restore[r].done
            /\ \A v \in Workers \ {w} : work'[v] = work[v]
        BY <3>0 DEF WorkType
      <3>3. SameFilesIn BY <3>1, <3>2 DEF SameFilesIn, FilesIn, Importing
      <3>4. SameSweepers BY <3>2 DEF SameSweepers
      <3> QED BY <3>0, <3>3, <3>4, SchoolAlone, FilesStill
    <2> QED BY <2>1, <2>2
  <1> QED BY <1>1, <1>2, <1>3, <1>4, <1>5 DEF PickUp

\* A worker without an import in hand stops, or goes on with its restore.
LEMMA ReturnMoves ==
    ASSUME Jobs, NEW w \in Workers, Return(w) \/ Stop(w)
    PROVE  /\ \A v \in Workers \ {w} : work'[v] = work[v]
           /\ work'[w].reached # 2 /\ work'[w].at # "sweeping"
  <1> USE DEF Jobs, JobsTyped
  <1> DEFINE next == [Idle EXCEPT !.at = "looked", !.restore = work[w].restore]
  <1>1. \A v \in Workers \ {w} : work'[v] = work[v] BY DEF Return, Stop
  <1>2. work'[w] = Idle \/ work'[w] = next BY DEF Return, Stop
  <1>3. Idle.reached = 0 /\ Idle.at = "idle" BY DEF Idle
  <1>4. next.reached = 0 /\ next.at = "looked" BY DEF Idle
  <1> HIDE DEF next
  <1> QED BY <1>1, <1>2, <1>3, <1>4

LEMMA ImportRowsFiles ==
    ASSUME Jobs, FilesInv, NEW w \in Workers, ImportRows(w) PROVE FilesInv'
  <1> USE DEF Jobs, JobsTyped
  <1> DEFINE r == work[w].restore
  <1>0. /\ work[w].at = "importing" /\ work[w].reached = 0 /\ UNCHANGED restore
        /\ work' = [work EXCEPT ![w].reached = 1] /\ swept' = (swept \/ Sweeping)
    BY DEF ImportRows, Reaches
  <1>1. r \in Restores /\ Importing(r) /\ restore[r].done <= 0 /\ (Here => school.import = r)
    BY <1>0, OwnImport
  <1>2. /\ work'[w].reached = 1 /\ work'[w].at = "importing" /\ work'[w].restore = r
        /\ \A v \in Workers \ {w} : work'[v] = work[v]
    BY <1>0 DEF WorkType
  <1>3. CASE swept' BY <1>3, SweptFiles
  <1>4. CASE ~swept' /\ Here
    <2>1. SameFilesIn BY <1>0, <1>2 DEF SameFilesIn, FilesIn, Importing
    <2>2. SameSweepers BY <1>2 DEF SameSweepers
    <2>3. UNCHANGED school /\ (swept => swept') BY <1>0, <1>4 DEF ImportRows
    <2> QED BY <2>1, <2>2, <2>3, SchoolAlone, FilesStill
  <1>5. CASE ~swept' /\ ~Here
    <2>1. SweepsGone'
      <3>1. \A v \in Workers : work[v].at # "sweeping" BY <1>0, <1>5 DEF Sweeping
      <3> QED BY <1>2, <3>1 DEF SweepsGone
    <2>2. FilesBack'
      <3>1. \A q \in Restores \ {r} : ~Importing(q)'
        BY <1>0, <1>1 DEF Importing, Fit, OneRestore
      <3>2. restore'[r].done # 2 BY <1>0, <1>1 DEF RestoreType
      <3>3. r # NoRestore BY <1>1, BackupsAssumption
      <3>4. \A v \in Workers \ {w} : work'[v].restore # r BY <1>2, <3>3, OwnRestore
      <3> QED BY <1>2, <3>1, <3>2, <3>4 DEF FilesBack
    <2>3. school'.import = r BY <1>5 DEF ImportRows, SchoolType
    <2>4. FilesKept' BY <1>1, <2>3, BackupsAssumption DEF FilesKept
    <2> QED BY <2>1, <2>2, <2>4 DEF FilesInv
  <1> QED BY <1>3, <1>4, <1>5

LEMMA ImportFilesFiles ==
    ASSUME Jobs, FilesInv, NEW w \in Workers, ImportFiles(w) PROVE FilesInv'
  <1> USE DEF Jobs, JobsTyped
  <1>0. /\ work[w].at = "importing" /\ work' = [work EXCEPT ![w].reached = 2]
        /\ school' = [school EXCEPT !.files = TRUE] /\ swept' = (swept \/ Sweeping)
    BY DEF ImportFiles, Reaches
  <1>1. school'.files = TRUE /\ (Here' <=> Here) BY <1>0 DEF SchoolType, Here
  <1>2. CASE swept' BY <1>2, SweptFiles
  <1>3. CASE ~swept'
    <2>1. \A v \in Workers : work[v].at # "sweeping" BY <1>0, <1>3 DEF Sweeping
    <2>2. \A v \in Workers : work'[v].at = work[v].at BY <1>0 DEF WorkType
    <2>3. SweepsGone' BY <2>1, <2>2 DEF SweepsGone
    <2>4. FilesBack' /\ FilesKept' BY <1>1 DEF FilesBack, FilesKept
    <2> QED BY <2>3, <2>4 DEF FilesInv
  <1> QED BY <1>2, <1>3

LEMMA ImportFinishFiles ==
    ASSUME Jobs, FilesInv, NEW w \in Workers, ImportFinish(w) PROVE FilesInv'
  <1> USE DEF Jobs, JobsTyped
  <1> DEFINE r == work[w].restore
  <1>0. /\ work[w].at = "importing" /\ work[w].reached = 2 /\ Here /\ UNCHANGED swept
        /\ restore' = [restore EXCEPT ![r] = [NewRestore EXCEPT !.status = "DONE"]] /\ Stop(w)
        /\ school'.files = school.files
    BY DEF ImportFinish, SchoolType
  <1>1. r \in Restores /\ Importing(r) BY <1>0, OwnImport
  <1>2. \A q \in Restores : ~Importing(q)'
    BY <1>0, <1>1 DEF Importing, NewRestore, Fit, OneRestore
  <1>3. swept \/ school.files BY <1>0, <1>1 DEF FilesInv, FilesBack
  <1>4. FilesBack' BY <1>2 DEF FilesBack
  <1>5. FilesKept' BY <1>0, <1>3 DEF FilesKept
  <1>6. SweepsGone' BY <1>0 DEF FilesInv, SweepsGone, Stop, Idle
  <1> QED BY <1>4, <1>5, <1>6 DEF FilesInv

LEMMA ImportSaveFiles ==
    ASSUME Jobs, FilesInv, NEW w \in Workers, ImportSave(w) PROVE FilesInv'
  <1> USE DEF Jobs, JobsTyped
  <1> DEFINE r == work[w].restore
  <1>0. /\ work[w].at = "importing" /\ Stop(w) /\ UNCHANGED <<school, swept>>
        /\ restore' = [restore EXCEPT ![r].done = work[w].reached, ![r].attempts = 0, ![r].lock = Nobody]
    BY DEF ImportSave, history
  <1>1. r \in Restores BY <1>0, OwnImport
  <1>2. /\ restore'[r].done = work[w].reached /\ restore'[r].status = restore[r].status
        /\ restore'[r].phase = restore[r].phase
        /\ \A q \in Restores \ {r} : restore'[q] = restore[q]
    BY <1>0, <1>1 DEF RestoreType
  <1>3. work'[w] = Idle /\ \A v \in Workers \ {w} : work'[v] = work[v] BY <1>0 DEF Stop
  <1>4. work'[w].reached # 2 /\ work'[w].at # "sweeping" BY <1>3 DEF Idle
  <1>5. SameFilesIn BY <1>2, <1>3, <1>4 DEF SameFilesIn, FilesIn, Importing
  <1>6. SameSweepers BY <1>3, <1>4 DEF SameSweepers
  <1> QED BY <1>0, <1>5, <1>6, SchoolAlone, FilesStill

LEMMA ProgressFiles == ASSUME Jobs, FilesInv, NEW w \in Workers, Progress(w) PROVE FilesInv'
  <1> USE DEF Jobs, JobsTyped
  <1>1. CASE CopyPart(w) \/ CopyLast(w) \/ CopyFails(w)
    <2>1. UNCHANGED <<school, restore, swept>> /\ Return(w)
      BY <1>1 DEF CopyPart, CopyLast, CopyFails, history
    <2> QED BY <2>1, ReturnMoves, SchoolAlone, WorkerMoves DEF Importing
  <1>2. CASE PurgeRows(w)
    <2>1. UNCHANGED <<restore, swept>> BY <1>2 DEF PurgeRows
    <2>2. CASE UNCHANGED school /\ Return(w)
      BY <2>1, <2>2, ReturnMoves, SchoolAlone, WorkerMoves DEF Importing
    <2>3. CASE school' = SchoolGone BY <2>3, GoneFiles DEF Here, SchoolGone, SchoolType
    <2> QED BY <1>2, <2>2, <2>3 DEF PurgeRows
  <1>3. CASE PurgeFiles(w)
    <2>1. UNCHANGED <<restore, swept>> /\ (Here' <=> Here) /\ work[w].at = "sweeping"
      BY <1>3 DEF PurgeFiles, history, Here, SchoolType
    <2>2. CASE swept BY <2>1, <2>2, SweptFiles
    <2>3. CASE ~swept BY <2>1, <2>3, GoneFiles DEF FilesInv, SweepsGone
    <2> QED BY <2>2, <2>3
  <1>4. CASE AfterPre(w)
    <2> DEFINE r == work[w].restore
    <2>0. r \in Restores /\ UNCHANGED swept BY <1>4, OwnReplace DEF AfterPre
    <2>1. SameFiles
      <3>1. restore[r].previous \in {"LIVE", "SUSPENDED"} BY <2>0 DEF RestoreType
      <3> QED BY <1>4, <3>1 DEF AfterPre, SameFiles, Here, SchoolType
    <2>2. \A q \in Restores : Importing(q)' => Importing(q) /\ restore'[q].done = restore[q].done
      <3>1. \/ restore' = [restore EXCEPT ![r].lock = Nobody] \/ UNCHANGED restore
            \/ restore' = FailsRestore(r)
        BY <1>4 DEF AfterPre
      <3>2. ASSUME restore' = FailsRestore(r), NEW q \in Restores, Importing(q)'
            PROVE  restore'[q] = restore[q]
        BY <2>0, <3>2 DEF FailsRestore, NewRestore, Importing
      <3>3. ASSUME restore' = [restore EXCEPT ![r].lock = Nobody], NEW q \in Restores
            PROVE  /\ restore'[q].status = restore[q].status /\ restore'[q].phase = restore[q].phase
                   /\ restore'[q].done = restore[q].done
        BY <2>0, <3>3 DEF RestoreType
      <3> QED BY <3>1, <3>2, <3>3 DEF Importing
    <2>3. CASE Stop(w) BY <2>0, <2>1, <2>2, <2>3, ReturnMoves, WorkerMoves
    <2>4. CASE Goes(w, "replacing") /\ UNCHANGED restore
      <3>1. /\ \A v \in Workers \ {w} : work'[v] = work[v]
            /\ work'[w].reached = work[w].reached /\ work'[w].restore = work[w].restore
            /\ work'[w].at = "replacing"
        BY <2>4 DEF Goes, WorkType
      <3>2. SameFilesIn BY <2>4, <3>1, SameFilesWork
      <3>3. SameSweepers BY <3>1 DEF SameSweepers
      <3> QED BY <2>0, <2>1, <3>2, <3>3, FilesStill
    <2> QED BY <1>4, <2>3, <2>4 DEF AfterPre
  <1>5. CASE ReplaceRows(w) BY <1>5, GoneFiles DEF ReplaceRows, Here, SchoolGone, SchoolType
  <1>6. CASE ReplaceFiles(w) BY <1>6, GoneFiles DEF ReplaceFiles, Here, SchoolType
  <1>7. CASE ReplaceFails(w)
    <2>1. UNCHANGED <<school, swept>> /\ Stop(w) BY <1>7 DEF ReplaceFails, history
    <2>2. \A q \in Restores : Importing(q)' => Importing(q) /\ restore'[q].done = restore[q].done
      BY <1>7 DEF ReplaceFails, FailsRestore, NewRestore, Importing
    <2> QED BY <2>1, <2>2, ReturnMoves, SchoolAlone, WorkerMoves
  <1>8. CASE ImportFails(w)
    <2>1. work[w].restore \in Restores BY <1>8, OwnImport DEF ImportFails
    <2> QED BY <1>8, <2>1, RollbackFiles DEF ImportFails, history
  <1> QED
    BY <1>1, <1>2, <1>3, <1>4, <1>5, <1>6, <1>7, <1>8, ImportRowsFiles, ImportFilesFiles,
       ImportSaveFiles, ImportFinishFiles
    DEF Progress

LEMMA KillFiles == ASSUME Jobs, FilesInv, NEW w \in Workers, Kill(w) PROVE FilesInv'
  <1> USE DEF Jobs, JobsTyped
  <1>1. restore' \in {restore, [restore EXCEPT ![work[w].restore].cut = TRUE]} /\ Stop(w)
        /\ UNCHANGED <<school, swept>>
    BY DEF Kill, history
  <1>2. \A q \in Restores : Importing(q)' => Importing(q) /\ restore'[q].done = restore[q].done
    BY <1>1 DEF Importing, RestoreType
  <1> QED BY <1>1, <1>2, ReturnMoves, SchoolAlone, WorkerMoves

-----------------------------------------------------------------------------
(* What a restore leaves.                                                  *)

\* Nothing of what is known about an import is forgotten.
SameImporters ==
    \A w \in Workers : work[w].at = "importing" /\ work[w].reached > 0 =>
        work'[w].restore = work[w].restore /\ work'[w].reached > 0
SameImports ==
    \A r \in Restores : school'.import = r =>
        /\ school.import = r
        /\ Importing(r) \/ restore[r].status = "FAILED" =>
              /\ restore'[r].status = restore[r].status /\ restore'[r].phase = restore[r].phase
              /\ restore'[r].done = restore[r].done /\ restore'[r].cut = restore[r].cut

LEMMA KnownStill ==
    ASSUME Jobs, ImportsKnown, SameImporters, SameImports PROVE ImportsKnown'
  <1> SUFFICES ASSUME NEW r \in Restores, school'.import = r PROVE Known(r)'
    BY DEF ImportsKnown
  <1>1. Known(r) BY DEF ImportsKnown, SameImports
  <1>2. CASE restore[r].status = "FAILED" /\ restore[r].cut BY <1>2 DEF SameImports, Known
  <1>3. CASE Importing(r) /\ (restore[r].done > 0 \/ restore[r].cut)
    BY <1>3 DEF SameImports, Known, Importing
  <1>4. ASSUME Importing(r), NEW w \in Workers, work[w].restore = r, work[w].reached > 0
        PROVE  Known(r)'
    <2>1. work[w].at = "importing"
      BY <1>4, BackupsAssumption DEF Jobs, LeasesHeld, Holds, Importing
    <2> QED BY <1>4, <2>1 DEF SameImporters, SameImports, Known, Importing
  <1> QED BY <1>1, <1>2, <1>3, <1>4 DEF Known

LEMMA NoImport == ASSUME school'.import = NoRestore PROVE ImportsKnown'
  BY BackupsAssumption DEF ImportsKnown

LEMMA OperatorKnown ==
    ASSUME Jobs, ImportsKnown, Write \/ Settle \/ Operator \/ Expire PROVE ImportsKnown'
  <1> USE DEF Jobs, JobsTyped
  <1>0. UNCHANGED work
    BY DEF Write, Settle, Operator, Expire, SetStatus, StartBackup, StartRestore, StartReplace
  <1>1. SameImporters BY <1>0 DEF SameImporters
  <1>2. CASE Write \/ Expire \/ Settle \/ SetStatus
    <2>1. UNCHANGED restore /\ school'.import = school.import
      BY <1>2 DEF Write, Expire, Settle, SetStatus, SchoolType
    <2> QED BY <1>1, <2>1, KnownStill DEF SameImports
  <1>3. ASSUME NEW b \in Backups, NEW reason, StartBackup(b, reason) PROVE ImportsKnown'
    BY <1>1, <1>3, KnownStill DEF StartBackup, SameImports
  <1>4. ASSUME NEW r \in Restores, NEW b \in Backups, StartRestore(r, b) PROVE ImportsKnown'
    BY <1>4, NoImport DEF StartRestore, Fit, ImportsFit
  <1>5. ASSUME NEW r \in Restores, NEW b \in Backups, NEW pre \in Backups, StartReplace(r, b, pre)
        PROVE  ImportsKnown'
    <2>1. school'.import = school.import /\ \A q \in Restores \ {r} : restore'[q] = restore[q]
      BY <1>5 DEF StartReplace, SchoolType
    <2>2. ~Importing(r) /\ restore[r].status # "FAILED" BY <1>5 DEF StartReplace, Importing
    <2>3. SameImports BY <2>1, <2>2 DEF SameImports
    <2> QED BY <1>1, <2>3, KnownStill
  <1> QED BY <1>2, <1>3, <1>4, <1>5 DEF Operator

LEMMA LapseKnown ==
    ASSUME Jobs, ImportsKnown,
           (\E b \in Backups : LapseBackup(b)) \/ (\E r \in Restores : LapseRestore(r))
    PROVE  ImportsKnown'
  <1> USE DEF Jobs, JobsTyped
  <1>1. UNCHANGED <<school, work>> BY DEF LapseBackup, LapseRestore
  <1>2. \A r \in Restores : /\ restore'[r].status = restore[r].status
                            /\ restore'[r].phase = restore[r].phase
                            /\ restore'[r].done = restore[r].done /\ restore'[r].cut = restore[r].cut
    BY DEF LapseBackup, LapseRestore, RestoreType
  <1> QED BY <1>1, <1>2, KnownStill DEF SameImporters, SameImports

\* The rollback forgets nothing it does not remove, unless it fails, which is recorded.
LEMMA RollbackKnown ==
    ASSUME Jobs, ImportsKnown, NEW w \in Workers, NEW r \in Restores, NEW n \in Nat,
           Rollback(w, r, n), Importing(r), restore[r].done <= n,
           \A v \in Workers : work[v].restore = r => work[v].reached = n
    PROVE  ImportsKnown'
  <1> USE DEF Jobs, JobsTyped
  <1>0. restore'[r].status = "FAILED" /\ \A q \in Restores \ {r} : restore'[q] = restore[q]
    BY DEF Rollback, FailsRestore, NewRestore
  <1>1. CASE school'.import = NoRestore BY <1>1, NoImport
  <1>2. CASE school'.import # NoRestore
    <2>1. school'.import = school.import BY <1>2 DEF Rollback, SchoolGone, SchoolType
    <2>2. school.import = r => restore'[r].cut
      <3> SUFFICES ASSUME school.import = r PROVE restore'[r].cut OBVIOUS
      <3>1. CASE restore' = [FailsRestore(r) EXCEPT ![r].cut = TRUE]
        BY <3>1 DEF FailsRestore, NewRestore
      <3>2. CASE restore' = FailsRestore(r) /\ ~Begun(n, restore[r].done)
        <4>1. restore[r].done = 0 /\ n = 0 BY <3>2 DEF Begun, RestoreType
        <4>2. restore[r].cut BY <4>1 DEF ImportsKnown, Known, Importing
        <4> QED BY <3>2, <4>2 DEF FailsRestore, NewRestore
      <3>3. CASE restore' = FailsRestore(r) /\ Begun(n, restore[r].done) /\ school' = [SchoolGone EXCEPT !.files = FALSE]
        BY <1>2, <3>3 DEF SchoolGone, SchoolType
      <3> QED BY <3>1, <3>2, <3>3 DEF Rollback
    <2>3. \A q \in Restores \ {r} : school.import = q => restore[q].status = "FAILED" /\ restore[q].cut
      BY DEF ImportsKnown, Known, Importing, Fit, OneRestore
    <2> QED BY <1>0, <2>1, <2>2, <2>3 DEF ImportsKnown, Known
  <1> QED BY <1>1, <1>2

LEMMA PickUpKnown == ASSUME Jobs, ImportsKnown, NEW w \in Workers, PickUp(w) PROVE ImportsKnown'
  <1> USE DEF Jobs, JobsTyped
  <1>0. work[w].at = "idle" /\ work[w] = Idle
    BY DEF PickUp, DeleteNow, StepBackup, PickUpDelete, StepAwaiting, StepImport, Free, LeasesHeld, Shape
  <1>1. CASE DeleteNow(w) \/ \E b \in Backups : StepBackup(w, b) \/ PickUpDelete(w, b)
    <2>1. UNCHANGED <<school, restore>> /\ \A v \in Workers \ {w} : work'[v] = work[v]
      BY <1>1 DEF DeleteNow, Goes, StepBackup, Step, PickUpDelete
    <2> QED BY <1>0, <2>1, KnownStill DEF SameImporters, SameImports
  <1>2. ASSUME NEW r \in Restores, StepAwaiting(w, r) PROVE ImportsKnown'
    <2>1. UNCHANGED school /\ \A v \in Workers \ {w} : work'[v] = work[v]
      BY <1>2 DEF StepAwaiting, Step
    <2>2. \A q \in Restores : /\ restore'[q].status = restore[q].status
                              /\ restore'[q].phase = restore[q].phase
                              /\ restore'[q].done = restore[q].done /\ restore'[q].cut = restore[q].cut
      BY <1>2 DEF StepAwaiting, RestoreType
    <2> QED BY <1>0, <2>1, <2>2, KnownStill DEF SameImporters, SameImports
  <1>3. ASSUME NEW r \in Restores, StepImport(w, r) PROVE ImportsKnown'
    <2>0. Importing(r) /\ restore[r].lock = Nobody /\ restore[r].done \in Nat
      BY <1>3 DEF StepImport, Free, Awaiting, Importing, RestoreType
    <2>1. CASE Exhausted(restore[r].attempts)
      <3>1. Rollback(w, r, restore[r].done) BY <1>3, <2>1 DEF StepImport
      <3>2. \A v \in Workers : work[v].restore # r
        BY <2>0, BackupsAssumption DEF LeasesHeld, Holds
      <3>3. restore[r].done <= restore[r].done BY <2>0
      <3> QED BY <2>0, <3>1, <3>2, <3>3, RollbackKnown
    <2>2. CASE ~Exhausted(restore[r].attempts)
      <3>1. UNCHANGED school /\ \A v \in Workers \ {w} : work'[v] = work[v]
        BY <1>3, <2>2 DEF StepImport
      <3>2. \A q \in Restores : /\ restore'[q].status = restore[q].status
                                /\ restore'[q].phase = restore[q].phase
                                /\ restore'[q].done = restore[q].done /\ restore'[q].cut = restore[q].cut
        BY <1>3, <2>2 DEF StepImport, RestoreType
      <3> QED BY <1>0, <3>1, <3>2, KnownStill DEF SameImporters, SameImports
    <2> QED BY <2>1, <2>2
  <1> QED BY <1>1, <1>2, <1>3 DEF PickUp

\* The one restore that imports goes on, and what it has written is known.
LEMMA OneKnown ==
    ASSUME Jobs, ImportsKnown, NEW r \in Restores, Importing(r),
           \A q \in Restores \ {r} : restore'[q] = restore[q],
           school'.import \in {school.import, r},
           restore'[r].status = restore[r].status, restore'[r].phase = restore[r].phase,
           \/ restore'[r].done > 0 \/ restore'[r].cut
           \/ \E w \in Workers : work'[w].restore = r /\ work'[w].reached > 0
    PROVE  ImportsKnown'
  <1>1. Known(r)' BY DEF Known, Importing
  <1>2. \A q \in Restores \ {r} : school.import = q => restore[q].status = "FAILED" /\ restore[q].cut
    BY DEF ImportsKnown, Known, Importing, Jobs, Fit, OneRestore
  <1> QED BY <1>1, <1>2 DEF ImportsKnown, Known

LEMMA ProgressKnown == ASSUME Jobs, ImportsKnown, NEW w \in Workers, Progress(w) PROVE ImportsKnown'
  <1> USE DEF Jobs, JobsTyped
  <1> DEFINE r == work[w].restore
  <1>1. CASE \/ CopyPart(w) \/ CopyLast(w) \/ CopyFails(w) \/ PurgeFiles(w)
             \/ PurgeRows(w) /\ UNCHANGED school
    <2>1. UNCHANGED restore /\ school'.import = school.import /\ work[w].at # "importing"
      BY <1>1 DEF CopyPart, CopyLast, CopyFails, PurgeFiles, PurgeRows, SchoolType
    <2>2. \A v \in Workers \ {w} : work'[v] = work[v]
      BY <1>1 DEF CopyPart, CopyLast, CopyFails, PurgeFiles, PurgeRows, Return, Stop, Goes
    <2> QED BY <2>1, <2>2, KnownStill DEF SameImporters, SameImports
  <1>2. CASE PurgeRows(w) /\ school' = SchoolGone
    BY <1>2, NoImport DEF SchoolGone, SchoolType
  <1>3. CASE AfterPre(w) \/ ReplaceFails(w)
    <2>0. r \in Restores /\ Awaiting(r) /\ work[w].at # "importing"
      BY <1>3, OwnReplace DEF AfterPre, ReplaceFails
    <2>1. school'.import = school.import BY <1>3 DEF AfterPre, ReplaceFails, SchoolType
    <2>2. \A v \in Workers \ {w} : work'[v] = work[v]
      BY <1>3 DEF AfterPre, ReplaceFails, Goes, Stop
    <2>3. \A q \in Restores \ {r} : restore'[q] = restore[q]
      BY <1>3 DEF AfterPre, ReplaceFails, FailsRestore
    <2>4. ~Importing(r) /\ restore[r].status # "FAILED" BY <2>0 DEF Awaiting, Importing
    <2>5. SameImports BY <2>1, <2>3, <2>4 DEF SameImports
    <2>6. SameImporters BY <2>0, <2>2 DEF SameImporters
    <2> QED BY <2>5, <2>6, KnownStill
  <1>4. CASE ReplaceRows(w) BY <1>4, NoImport DEF ReplaceRows, SchoolGone, SchoolType
  <1>5. CASE ReplaceFiles(w)
    BY <1>5, NoImport DEF ReplaceFiles, Fit, ImportsFit, SchoolType
  <1>6. CASE ImportRows(w)
    <2>1. r \in Restores /\ Importing(r) BY <1>6, OwnImport DEF ImportRows
    <2>2. UNCHANGED restore /\ work'[w].restore = r /\ work'[w].reached = 1
          /\ \A v \in Workers \ {w} : work'[v] = work[v]
      BY <1>6 DEF ImportRows, Reaches, WorkType
    <2>3. SameImporters BY <2>2 DEF SameImporters
    <2>4. CASE Here
      <3>1. UNCHANGED school BY <1>6, <2>4 DEF ImportRows
      <3> QED BY <2>2, <2>3, <3>1, KnownStill DEF SameImports
    <2>5. CASE ~Here
      <3>1. school'.import = r BY <1>6, <2>5 DEF ImportRows, SchoolType
      <3> QED BY <2>1, <2>2, <3>1, OneKnown
    <2> QED BY <2>4, <2>5
  <1>7. CASE ImportFiles(w)
    <2>1. UNCHANGED restore /\ work'[w].restore = r /\ work'[w].reached = 2
          /\ (\A v \in Workers \ {w} : work'[v] = work[v]) /\ school'.import = school.import
      BY <1>7 DEF ImportFiles, Reaches, WorkType, SchoolType
    <2> QED BY <2>1, KnownStill DEF SameImporters, SameImports
  <1>8. CASE ImportSave(w)
    <2>0. r \in Restores /\ Importing(r) BY <1>8, OwnImport DEF ImportSave
    <2>1. /\ UNCHANGED school /\ \A q \in Restores \ {r} : restore'[q] = restore[q]
          /\ restore'[r].status = restore[r].status /\ restore'[r].phase = restore[r].phase
          /\ restore'[r].done > 0
      BY <1>8, <2>0 DEF ImportSave, RestoreType, WorkType
    <2> QED BY <2>0, <2>1, OneKnown
  <1>9. CASE ImportFinish(w) BY <1>9, NoImport DEF ImportFinish, SchoolType
  <1>10. CASE ImportFails(w)
    <2>1. /\ r \in Restores /\ Importing(r) /\ restore[r].done <= work[w].reached
          /\ r # NoRestore /\ work[w].reached \in Nat
      BY <1>10, OwnImport, BackupsAssumption DEF ImportFails, WorkType
    <2>2. \A v \in Workers : work[v].restore = r => work[v].reached = work[w].reached
      BY <2>1, OwnRestore
    <2> QED BY <1>10, <2>1, <2>2, RollbackKnown DEF ImportFails
  <1> QED
    BY <1>1, <1>2, <1>3, <1>4, <1>5, <1>6, <1>7, <1>8, <1>9, <1>10 DEF Progress, PurgeRows

\* A first step that is cut off after it wrote is remembered to have been.
LEMMA KillKnown == ASSUME Jobs, ImportsKnown, NEW w \in Workers, Kill(w) PROVE ImportsKnown'
  <1> USE DEF Jobs, JobsTyped
  <1> DEFINE r == work[w].restore
             unrecorded == work[w].at = "importing" /\ work[w].reached > 0 /\ restore[r].done = 0
  <1>0. /\ UNCHANGED school /\ \A v \in Workers \ {w} : work'[v] = work[v]
        /\ restore' = IF unrecorded THEN [restore EXCEPT ![r].cut = TRUE] ELSE restore
    BY DEF Kill, Stop
  <1>1. CASE work[w].at # "importing" \/ work[w].reached = 0
    <2>1. UNCHANGED restore BY <1>0, <1>1
    <2>2. SameImports BY <1>0, <2>1 DEF SameImports
    <2>3. SameImporters
      <3>1. ~(work[w].at = "importing" /\ work[w].reached > 0) BY <1>1
      <3> QED BY <1>0, <3>1 DEF SameImporters
    <2> QED BY <2>2, <2>3, KnownStill
  <1>2. CASE work[w].at = "importing" /\ work[w].reached # 0
    <2>1. r \in Restores /\ Importing(r) BY <1>2, OwnImport
    <2>2. /\ \A q \in Restores \ {r} : restore'[q] = restore[q]
          /\ restore'[r].status = restore[r].status /\ restore'[r].phase = restore[r].phase
          /\ restore'[r].done > 0 \/ restore'[r].cut
      BY <1>0, <1>2, <2>1 DEF RestoreType, WorkType
    <2> QED BY <1>0, <2>1, <2>2, OneKnown
  <1> QED BY <1>1, <1>2

-----------------------------------------------------------------------------
(* The theorems.                                                           *)

BackupsInv == Jobs /\ LostInv /\ FilesInv /\ ImportsKnown

LEMMA InitBackups == ASSUME Init PROVE RestTyped /\ BackupsInv
  <1> USE BackupsAssumption DEF Init
  <1>1. Jobs BY InitJobs
  <1>2. RestTyped
    <2>1. 0 \in 0..MaxChanges /\ 0 \in 0..MaxKills OBVIOUS
    <2>2. changes = 0 /\ kills = 0 /\ lost = {} OBVIOUS
    <2>3. hurried = FALSE /\ reopened = FALSE /\ swept = FALSE OBVIOUS
    <2> QED BY ONLY <2>1, <2>2, <2>3 DEF RestTyped
  <1>3. \A w \in Workers : work[w].at = "idle" BY DEF Idle
  <1>4. \A r \in Restores : restore[r].status = "none" BY DEF NewRestore
  <1>5. LostInv
    <2>1. \A b \in Backups : ~Live(b) BY DEF Live, NewBackup
    <2>2. NothingLost BY DEF NothingLost
    <2> QED
      BY <1>3, <1>4, <2>1, <2>2 DEF LostInv, FinalCopies, DeletesLooked, ReplacesLooked, Awaiting
  <1>6. FilesInv
    <2>1. PICK s \in {"LIVE", "gone"} :
            school = [status |-> s, quiet |-> TRUE, files |-> s = "LIVE", import |-> NoRestore]
      OBVIOUS
    <2>2. Here => school.files BY <2>1 DEF Here
    <2> QED BY <1>3, <1>4, <2>2 DEF FilesInv, SweepsGone, FilesBack, FilesKept, Importing
  <1>7. ImportsKnown
    <2>1. school.import = NoRestore OBVIOUS
    <2> QED BY <2>1 DEF ImportsKnown
  <1> QED BY <1>1, <1>2, <1>5, <1>6, <1>7 DEF BackupsInv

LEMMA OperatorStep ==
    ASSUME BackupsInv, Write \/ Settle \/ Operator \/ Expire PROVE BackupsInv'
  <1> USE DEF BackupsInv
  <1>1. FilesInv' /\ ImportsKnown' BY OperatorFiles, OperatorKnown
  <1>2. Jobs'
    BY WriteJobs, SettleJobs, ExpireJobs, SetStatusJobs, StartBackupJobs, StartRestoreJobs,
       StartReplaceJobs
    DEF Operator
  <1>3. LostInv'
    BY <1>2, WriteLost, SettleLost, ExpireLost, SetStatusLost, StartBackupLost, StartRestoreLost,
       StartReplaceLost
    DEF Operator
  <1> QED BY <1>1, <1>2, <1>3

LEMMA PickUpStep == ASSUME BackupsInv, NEW w \in Workers, PickUp(w) PROVE BackupsInv'
  <1> USE DEF BackupsInv
  <1>1. FilesInv' /\ ImportsKnown' BY PickUpFiles, PickUpKnown
  <1>2. Jobs'
    BY DeleteNowJobs, StepBackupJobs, PickUpDeleteJobs, StepAwaitingJobs, StepImportJobs DEF PickUp
  <1>3. LostInv'
    BY <1>2, DeleteNowLost, StepBackupLost, PickUpDeleteLost, StepAwaitingLost, StepImportLost
    DEF PickUp
  <1> QED BY <1>1, <1>2, <1>3

LEMMA ProgressStep == ASSUME BackupsInv, NEW w \in Workers, Progress(w) PROVE BackupsInv'
  <1> USE DEF BackupsInv
  <1>1. FilesInv' /\ ImportsKnown' BY ProgressFiles, ProgressKnown
  <1>2. Jobs'
    BY CopyPartJobs, CopyLastJobs, CopyFailsJobs, PurgeRowsJobs, PurgeFilesJobs, AfterPreJobs,
       ReplaceRowsJobs, ReplaceFilesJobs, ReplaceFailsJobs, ImportRowsJobs, ImportFilesJobs,
       ImportSaveJobs, ImportFinishJobs, ImportFailsJobs
    DEF Progress
  <1>3. LostInv'
    BY <1>2, CopyPartLost, CopyLastLost, CopyFailsLost, PurgeRowsLost, PurgeFilesLost, AfterPreLost,
       ReplaceRowsLost, ReplaceFilesLost, ReplaceFailsLost, ImportRowsLost, ImportFilesLost,
       ImportSaveLost, ImportFinishLost, ImportFailsLost
    DEF Progress
  <1> QED BY <1>1, <1>2, <1>3

LEMMA PlatformStep ==
    ASSUME BackupsInv,
           \/ \E w \in Workers : Kill(w)
           \/ \E b \in Backups : LapseBackup(b)
           \/ \E r \in Restores : LapseRestore(r)
    PROVE  BackupsInv'
  <1> USE DEF BackupsInv
  <1>1. FilesInv' /\ ImportsKnown' BY KillFiles, LapseFiles, KillKnown, LapseKnown
  <1>2. Jobs' BY KillJobs, LapseBackupJobs, LapseRestoreJobs
  <1>3. LostInv' BY <1>2, KillLost, LapseBackupLost, LapseRestoreLost
  <1> QED BY <1>1, <1>2, <1>3

LEMMA StutterStep == ASSUME BackupsInv, RestTyped, UNCHANGED vars PROVE (BackupsInv /\ RestTyped)'
  <1> USE DEF BackupsInv, vars, history
  <1>1. RestTyped' BY DEF RestTyped
  <1>2. Jobs'
    BY DEF Jobs, JobsTyped, LeasesHeld, Shape, Holds, Fit, OneRestore, OldStands, FlagsFit, ImportsFit,
           AwaitsFit, Importing, Awaiting, Here
  <1>3. LostInv'
    <2>1. SameCopiers /\ SameDeleters /\ SameReplacers
      BY DEF SameCopiers, SameDeleters, SameReplacers
    <2>2. SameAwaits /\ SameWhole BY DEF SameAwaits, Awaiting, SameWhole, Whole, Here
    <2> QED BY <1>2, <2>1, <2>2, BackupsAlone DEF Excuses
  <1>4. FilesInv' BY SchoolAlone, NobodyMoves DEF Importing
  <1>5. ImportsKnown' BY KnownStill DEF SameImporters, SameImports
  <1> QED BY <1>1, <1>2, <1>3, <1>4, <1>5

LEMMA BackupsStep == ASSUME BackupsInv, RestTyped, [Next]_vars PROVE (BackupsInv /\ RestTyped)'
  <1>1. CASE Next
    <2>1. RestTyped' BY <1>1, RestStep
    <2>2. BackupsInv' BY <1>1, OperatorStep, PickUpStep, ProgressStep, PlatformStep DEF Next
    <2> QED BY <2>1, <2>2
  <1>2. CASE UNCHANGED vars BY <1>2, StutterStep
  <1> QED BY <1>1, <1>2

LEMMA SpecBackups == Spec => [](BackupsInv /\ RestTyped)
  <1>1. Init => BackupsInv /\ RestTyped BY InitBackups
  <1>2. BackupsInv /\ RestTyped /\ [Next]_vars => (BackupsInv /\ RestTyped)' BY BackupsStep
  <1> QED BY <1>1, <1>2, PTL DEF Spec

\* Type correctness: the jobs, the school and the workers have the shapes of
\* SchoolBackup, SchoolRestore and School; a lease is a worker's or nobody's.
THEOREM BackupsTypeCorrect == Spec => []TypeOK
  <1>1. BackupsInv /\ RestTyped => TypeOK BY TypeSplit DEF BackupsInv, Jobs
  <1> QED BY <1>1, SpecBackups, PTL

\* finishPendingDelete and stepRestore of backups.service.ts: rows that are in no
\* finished backup are removed only when the school's row changed between a
\* delete's check and its purge, or while a replace awaited its final backup.
THEOREM NothingIsLost == Spec => []NothingLost
  <1>1. BackupsInv /\ RestTyped => NothingLost BY DEF BackupsInv, LostInv
  <1> QED BY <1>1, SpecBackups, PTL

\* finishPendingDelete, purgeSchoolFiles: a school that is here, all of it, has its
\* files, unless an import ran while a delete was still removing them.
THEOREM FilesAreKept == Spec => []FilesKept
  <1>1. BackupsInv /\ RestTyped => FilesKept BY DEF BackupsInv, FilesInv
  <1> QED BY <1>1, SpecBackups, PTL

\* rollbackImport: what a failed restore wrote is gone again, unless the rollback
\* failed or a step was cut off before it saved that it began.
THEOREM FailedRestoresLeaveNothing == Spec => []FailedRestoreLeavesNothing
  <1>1. BackupsInv /\ RestTyped => FailedRestoreLeavesNothing
    BY DEF BackupsInv, ImportsKnown, Known, Importing, FailedRestoreLeavesNothing
  <1> QED BY <1>1, SpecBackups, PTL

====
