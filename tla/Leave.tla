---- MODULE Leave ----
(***************************************************************************)
(* Leave and cover: teachers apply for leave, the desk decides, every      *)
(* lesson of an approved leave becomes a gap (a Substitution row), and the *)
(* desk gives gaps to teachers who are free.                               *)
(*                                                                         *)
(* A request is one READ COMMITTED transaction.  It is cut where it waits  *)
(* for a lock and between what it reads and what it writes; its writes,    *)
(* its notices and its commit are one action.  Three locks are held to the *)
(* end of a transaction: a leave row by whoever changes its status, the    *)
(* same row shared by whoever gives its gaps away, and one lock per day.   *)
(* Locks are read off the requests: what a request holds follows from how  *)
(* far it is.                                                              *)
(*                                                                         *)
(* All days are working days that are not over; the timetable does not     *)
(* change and everybody stays employed.  A lesson that has started is not  *)
(* told from one to come.                                                  *)
(***************************************************************************)
EXTENDS Naturals, FiniteSets

CONSTANTS
    Teachers, Requests,
    Lessons, Slot,     \* what is taught on a date, and by whom and when
    Leaves, Form,      \* leave applications, and who is away and when
    Rostered,          \* bound: the marks the roster may make, as pairs of teacher and day
    MaxMarks,          \* bound: how many it makes
    Nobody, NoLeave

Days == (UNION {Form[l].days : l \in Leaves}) \union {Slot[s].day : s \in Lessons}

ASSUME LeaveAssumption ==
    /\ Days \subseteq Nat /\ MaxMarks \in Nat /\ Rostered \subseteq Teachers \X Days
    /\ Nobody \notin Teachers /\ NoLeave \notin Leaves
    /\ Slot \in [Lessons -> [teacher : Teachers, day : Nat, period : Nat, half : {"AM", "PM"}]]
    /\ Form \in [Leaves -> [teacher : Teachers, days : SUBSET Nat, half : {"AM", "PM", "DAY"}]]
    /\ \A l \in Leaves : Form[l].days # {}
    \* teacher_slot: a teacher is in one room per period.
    /\ \A s, u \in Lessons : /\ Slot[s].teacher = Slot[u].teacher
                              /\ Slot[s].day = Slot[u].day /\ Slot[s].period = Slot[u].period
                              => s = u

VARIABLES
    status,     \* LeaveApplication.status
    gap,        \* Substitution: the leave it was opened for (NoLeave: no row), who covers it
    mark,       \* StaffAttendance: a day's mark of a teacher and who made it
    marks,      \* how often the roster marked
    req,        \* the requests under way
    told        \* history: per lesson, the teachers whose last word was that they cover it

vars == <<status, gap, mark, marks, req, told>>

Open(l) == [leave |-> l, cover |-> Nobody]
NoGap == Open(NoLeave)
NoMark == [status |-> "none", by |-> "nobody"]
OnLeave == [status |-> "ON_LEAVE", by |-> "leave"]
RosterMarks == [status : {"PRESENT", "ABSENT", "ON_LEAVE"}, by : {"roster"}]
Idle == [op |-> "none", at |-> "idle", leave |-> NoLeave, teacher |-> Nobody, lessons |-> {},
         saw |-> [s \in Lessons |-> Nobody], locked |-> {}, blank |-> {}, dates |-> {}]

GapType == [leave : Leaves \union {NoLeave}, cover : Teachers \union {Nobody}]
RequestType == [op : {"none", "approve", "reject", "cancel", "assign", "batch", "clear"},
                at : {"idle", "row", "days", "read", "write"},
                leave : Leaves \union {NoLeave}, teacher : Teachers \union {Nobody},
                lessons : SUBSET Lessons, saw : [Lessons -> Teachers \union {Nobody}],
                locked : SUBSET Days, blank : SUBSET Days, dates : SUBSET Days]
TypeOK ==
    /\ status \in [Leaves -> {"none", "PENDING", "APPROVED", "REJECTED", "CANCELLED"}]
    /\ gap \in [Lessons -> GapType]
    /\ mark \in [Teachers -> [Days -> RosterMarks \union {NoMark, OnLeave}]]
    /\ marks \in 0..MaxMarks
    /\ req \in [Requests -> RequestType]
    /\ told \in [Lessons -> SUBSET Teachers]

Init ==
    /\ status = [l \in Leaves |-> "none"]
    /\ gap = [s \in Lessons |-> NoGap]
    /\ mark = [t \in Teachers |-> [d \in Days |-> NoMark]]
    /\ marks = 0
    /\ req = [r \in Requests |-> Idle]
    /\ told = [s \in Lessons |-> {}]

-----------------------------------------------------------------------------
(* What the rows say.                                                      *)

InHalf(l, s) == Form[l].half \in {"DAY", Slot[s].half}
LessonsOf(l) == {s \in Lessons : Slot[s].teacher = Form[l].teacher /\ Slot[s].day \in Form[l].days /\ InHalf(l, s)}
GapsOf(l) == {s \in Lessons : gap[s].leave = l}
IsGap(s) == gap[s].leave # NoLeave
SameTime(s, u) == Slot[s].day = Slot[u].day /\ Slot[s].period = Slot[u].period

\* The two halves of one day do not clash.
Overlap(l, k) ==
    /\ Form[k].teacher = Form[l].teacher /\ Form[k].days \intersect Form[l].days # {}
    /\ {Form[k].half, Form[l].half} # {"AM", "PM"}
Clash(l) == \E k \in Leaves : status[k] \in {"PENDING", "APPROVED"} /\ Overlap(l, k)

Teaches(t, s) == \E u \in Lessons : SameTime(u, s) /\ Slot[u].teacher = t
Free(t, s) ==
    /\ ~Teaches(t, s)
    /\ \A u \in Lessons \ {s} : SameTime(u, s) => gap[u].cover # t
    /\ mark[t][Slot[s].day].status # "ON_LEAVE"

-----------------------------------------------------------------------------
(* Locks.                                                                  *)

Deciding == {"approve", "cancel"}
Giving == {"assign", "batch"}
\* What a request q holds.
PastRow == {"days", "read", "write"}
HasRow(q, l) == q.leave = l /\ q.op \in Deciding /\ q.at \in PastRow
SharesRow(q, l) == q.leave = l /\ q.op \in Giving /\ q.at \in PastRow

\* Mutant: giving a gap away does not look at, or hold, the leave row (no FOR SHARE).
DecidersOnly(r) == {q \in Requests \ {r} : req[r].op \notin Giving /\ HasRow(req[q], req[r].leave)}
\* Whom a request that wants to change, or to share, its leave's row waits for.
RowHolders(r) == {q \in Requests \ {r} :
    \/ HasRow(req[q], req[r].leave)
    \/ /\ req[r].op \notin Giving
       /\ SharesRow(req[q], req[r].leave)}
RowFree(r) == RowHolders(r) = {}

\* The days a request locks, the earliest first.
DaysToLock(r) ==
    (IF req[r].op = "approve" THEN Form[req[r].leave].days ELSE {Slot[s].day : s \in req[r].lessons})
      \ req[r].locked
\* Mutant: the days are locked in any order.
AnyDay(r, d) == d \in DaysToLock(r)
NextDay(r, d) == d \in DaysToLock(r) /\ \A e \in DaysToLock(r) : d <= e
\* Mutant: the lock on the day does not exclude.
NoHolders(r, d) == {}
DayHolders(r, d) == {q \in Requests \ {r} : d \in req[q].locked}

At(r, op, at) == req[r].op = op /\ req[r].at = at
Becomes(r, request) == req' = [req EXCEPT ![r] = request]
Goes(r, at) == Becomes(r, [req[r] EXCEPT !.at = at])
Ends(r) == Becomes(r, Idle)

\* Locks every day it needs, one after the other.
LockDay(r) ==
    /\ req[r].op \in {"approve"} \union Giving /\ req[r].at = "days"
    /\ \E d \in Days : /\ NextDay(r, d) /\ DayHolders(r, d) = {}
                       /\ Becomes(r, [req[r] EXCEPT !.locked = @ \union {d},
                                             !.at = IF DaysToLock(r) = {d} THEN "read" ELSE "days"])
    /\ UNCHANGED <<status, gap, mark, marks, told>>

-----------------------------------------------------------------------------
(* Leave.                                                                  *)

\* The person's own lock makes the check and the insert one step.
Apply(l) ==
    /\ status[l] = "none" /\ ~Clash(l)
    /\ status' = [status EXCEPT ![l] = "PENDING"]
    /\ UNCHANGED <<gap, mark, marks, req, told>>

Decide(r, l, op) ==
    /\ req[r] = Idle /\ status[l] = "PENDING"
    /\ Becomes(r, [Idle EXCEPT !.op = op, !.at = "row", !.leave = l])
    /\ UNCHANGED <<status, gap, mark, marks, told>>

\* Mutant: the update is by id.
Whatever(r) == TRUE
\* The update matches a row that is still PENDING and keeps it locked.
StillPending(r) == status[req[r].leave] = "PENDING"

Reject(r) ==
    /\ At(r, "reject", "row") /\ RowFree(r) /\ StillPending(r)
    /\ status' = [status EXCEPT ![req[r].leave] = "REJECTED"]
    /\ Ends(r)
    /\ UNCHANGED <<gap, mark, marks, told>>

ApproveRow(r) ==
    /\ At(r, "approve", "row") /\ RowFree(r) /\ StillPending(r)
    /\ Goes(r, "days")
    /\ UNCHANGED <<status, gap, mark, marks, told>>

\* The days to mark, and what the teacher covers for others meanwhile.
CoversOf(l) == {s \in Lessons : gap[s].cover = Form[l].teacher /\ Slot[s].day \in Form[l].days /\ InHalf(l, s)}
ApproveRead(r) ==
    /\ At(r, "approve", "read")
    /\ LET l == req[r].leave
           marked(st) == {d \in Form[l].days : mark[Form[l].teacher][d].status = st}
       IN Becomes(r, [req[r] EXCEPT !.at = "write", !.lessons = CoversOf(l),
                                    !.blank = marked("none"), !.dates = marked("PRESENT")])
    /\ UNCHANGED <<status, gap, mark, marks, told>>

\* A mark made or removed since then fails the insert or the update.
MarksStand(r) ==
    LET t == Form[req[r].leave].teacher
    IN /\ \A d \in req[r].blank : mark[t][d] = NoMark
       /\ \A d \in req[r].dates : mark[t][d] # NoMark

\* Covers that are still the teacher's reopen, one compare-and-set each.
Reopened(r) == {s \in req[r].lessons : gap[s].cover = Form[req[r].leave].teacher}
Opened(l) == {s \in LessonsOf(l) : ~IsGap(s)}
ApproveWrite(r) ==
    /\ At(r, "approve", "write") /\ MarksStand(r)
    /\ LET l == req[r].leave
       IN /\ status' = [status EXCEPT ![l] = "APPROVED"]
          /\ gap' = [s \in Lessons |-> IF s \in Opened(l) THEN Open(l)
                                       ELSE IF s \in Reopened(r) THEN Open(gap[s].leave)
                                       ELSE gap[s]]
          /\ told' = [s \in Lessons |-> IF s \in Reopened(r) THEN told[s] \ {Form[l].teacher} ELSE told[s]]
          /\ mark' = [mark EXCEPT ![Form[l].teacher] =
                         [d \in Days |-> IF d \in req[r].blank \union req[r].dates THEN OnLeave ELSE @[d]]]
    /\ Ends(r)
    /\ UNCHANGED marks

Withdraw(r, l) ==
    /\ req[r] = Idle /\ status[l] \in {"PENDING", "APPROVED"}
    /\ Becomes(r, [Idle EXCEPT !.op = "cancel", !.at = "row", !.leave = l])
    /\ UNCHANGED <<status, gap, mark, marks, told>>

CancelPending(r) ==
    /\ At(r, "cancel", "row") /\ RowFree(r) /\ StillPending(r)
    /\ status' = [status EXCEPT ![req[r].leave] = "CANCELLED"]
    /\ Ends(r)
    /\ UNCHANGED <<gap, mark, marks, told>>

\* Also the cancel of a request that was approved while this one waited.
CancelApproved(r) ==
    /\ At(r, "cancel", "row") /\ RowFree(r) /\ status[req[r].leave] = "APPROVED"
    /\ Goes(r, "read")
    /\ UNCHANGED <<status, gap, mark, marks, told>>

\* The leave's gaps and their substitutes; the days no other leave of the teacher covers.
StillAway(l) == UNION {Form[k].days : k \in {k \in Leaves \ {l} : Form[k].teacher = Form[l].teacher /\ status[k] = "APPROVED"}}
CancelRead(r) ==
    /\ At(r, "cancel", "read")
    /\ LET l == req[r].leave
       IN Becomes(r, [req[r] EXCEPT !.at = "write", !.lessons = GapsOf(l),
                                    !.saw = [s \in Lessons |-> IF s \in GapsOf(l) THEN gap[s].cover ELSE Nobody],
                                    !.dates = Form[l].days \ StillAway(l)])
    /\ UNCHANGED <<status, gap, mark, marks, told>>

CancelWrite(r) ==
    /\ At(r, "cancel", "write")
    /\ LET l == req[r].leave
           gone == req[r].lessons
       IN /\ status' = [status EXCEPT ![l] = "CANCELLED"]
          /\ gap' = [s \in Lessons |-> IF s \in gone THEN NoGap ELSE gap[s]]
          /\ told' = [s \in Lessons |-> told[s] \ {req[r].saw[s]}]
          /\ mark' = [mark EXCEPT ![Form[l].teacher] =
                         [d \in Days |-> IF d \in req[r].dates /\ @[d].status = "ON_LEAVE" THEN NoMark ELSE @[d]]]
    /\ Ends(r)
    /\ UNCHANGED marks

-----------------------------------------------------------------------------
(* Cover.                                                                  *)

\* A teacher who teaches then, the absent one included, is refused whatever else happens.
Assign(r, s, t) ==
    /\ req[r] = Idle /\ IsGap(s) /\ gap[s].cover # t /\ ~Teaches(t, s)
    /\ Becomes(r, [Idle EXCEPT !.op = "assign", !.at = "row", !.leave = gap[s].leave, !.teacher = t,
                              !.lessons = {s}, !.saw[s] = gap[s].cover])
    /\ UNCHANGED <<status, gap, mark, marks, told>>

Batch(r, l, t, ss) ==
    /\ req[r] = Idle /\ t # Form[l].teacher /\ ss # {}
    /\ \A s \in ss : ~Teaches(t, s)
    /\ Becomes(r, [Idle EXCEPT !.op = "batch", !.at = "row", !.leave = l, !.teacher = t, !.lessons = ss])
    /\ UNCHANGED <<status, gap, mark, marks, told>>

\* FOR SHARE: the leave cannot be withdrawn until this request ends.
ShareRow(r) ==
    /\ req[r].op \in Giving /\ req[r].at = "row"
    /\ RowFree(r) /\ status[req[r].leave] = "APPROVED"
    /\ Goes(r, "days")
    /\ UNCHANGED <<status, gap, mark, marks, told>>

\* assign: the teacher is free.  batch: the periods still open for which they are.
CheckFree(r) ==
    /\ req[r].op \in Giving /\ req[r].at = "read"
    /\ LET fit == {s \in req[r].lessons : Free(req[r].teacher, s)}
           open == {s \in fit : gap[s] = Open(req[r].leave)}
       IN /\ req[r].op = "assign" => fit = req[r].lessons
          /\ Becomes(r, [req[r] EXCEPT !.at = "write", !.lessons = IF req[r].op = "batch" THEN open ELSE fit])
    /\ UNCHANGED <<status, gap, mark, marks, told>>

\* Compare-and-set on the substitute the desk saw.
Unchanged(r) == {s \in req[r].lessons : gap[s] = [leave |-> req[r].leave, cover |-> req[r].saw[s]]}

Hand(r, t) ==
    /\ gap' = [s \in Lessons |-> IF s \in Unchanged(r) THEN [gap[s] EXCEPT !.cover = t] ELSE gap[s]]
    /\ told' = [s \in Lessons |-> IF s \in Unchanged(r)
                                  THEN (told[s] \ {req[r].saw[s]}) \union ({t} \ {Nobody}) ELSE told[s]]

Give(r) ==
    /\ req[r].op \in Giving /\ req[r].at = "write"
    /\ Hand(r, req[r].teacher)
    /\ Ends(r)
    /\ UNCHANGED <<status, mark, marks>>

Clear(r, s) ==
    /\ req[r] = Idle /\ IsGap(s) /\ gap[s].cover # Nobody
    /\ Becomes(r, [Idle EXCEPT !.op = "clear", !.at = "write", !.leave = gap[s].leave,
                              !.lessons = {s}, !.saw[s] = gap[s].cover])
    /\ UNCHANGED <<status, gap, mark, marks, told>>

ClearWrite(r) ==
    /\ At(r, "clear", "write")
    /\ Hand(r, Nobody)
    /\ Ends(r)
    /\ UNCHANGED <<status, mark, marks>>

\* A substitute answers: one compare-and-set per period, of one or of a whole leave.
Held(t, l) == {s \in GapsOf(l) : gap[s].cover = t}
Answers(t) == (UNION {{Held(t, l)} \union {{s} : s \in Held(t, l)} : l \in Leaves}) \ {{}}

\* Saying it needs no notice to whoever says it.
Decline(t, ss) ==
    /\ gap' = [s \in Lessons |-> IF s \in ss THEN Open(gap[s].leave) ELSE gap[s]]
    /\ told' = [s \in Lessons |-> IF s \in ss THEN told[s] \ {t} ELSE told[s]]
    /\ UNCHANGED <<status, mark, marks, req>>

-----------------------------------------------------------------------------
(* The roster of the day overwrites whatever mark there is.                *)

Roster(t, d, m) ==
    /\ marks < MaxMarks
    /\ mark' = [mark EXCEPT ![t][d] = m]
    /\ marks' = marks + 1
    /\ UNCHANGED <<status, gap, req, told>>

\* A refusal, an error or a timeout rolls the transaction back, wherever it is.
RollBack(r) ==
    /\ req[r] # Idle
    /\ Ends(r)
    /\ UNCHANGED <<status, gap, mark, marks, told>>

Decisions(r) ==
    \/ \E l \in Leaves : Decide(r, l, "approve") \/ Decide(r, l, "reject") \/ Withdraw(r, l)
    \/ Reject(r) \/ ApproveRow(r) \/ ApproveRead(r) \/ ApproveWrite(r)
    \/ CancelPending(r) \/ CancelApproved(r) \/ CancelRead(r) \/ CancelWrite(r)

Covers(r) ==
    \/ \E s \in Lessons : Clear(r, s) \/ \E t \in Teachers : Assign(r, s, t)
    \/ \E l \in Leaves : \E ss \in SUBSET GapsOf(l), t \in Teachers : Batch(r, l, t, ss)
    \/ ShareRow(r) \/ CheckFree(r) \/ Give(r) \/ ClearWrite(r)

Next ==
    \/ \E r \in Requests : Decisions(r) \/ Covers(r) \/ LockDay(r) \/ RollBack(r)
    \/ \E l \in Leaves : Apply(l)
    \/ \E t \in Teachers : \E ss \in Answers(t) : Decline(t, ss)
    \/ \E x \in Rostered, m \in RosterMarks : Roster(x[1], x[2], m)

Spec == Init /\ [][Next]_vars

-----------------------------------------------------------------------------
(* Properties.                                                             *)

Away(t, s) == \E l \in Leaves : /\ status[l] = "APPROVED" /\ Form[l].teacher = t
                                /\ Slot[s].day \in Form[l].days /\ InHalf(l, s)

\* Whoever covers a lesson teaches and covers nothing else in that period: the check and the
\* write are made under the day's lock (leave.service.ts:825-838).
OneClassAtATime ==
    \A s \in Lessons : gap[s].cover # Nobody =>
        /\ ~Teaches(gap[s].cover, s)
        /\ \A u \in Lessons \ {s} : SameTime(u, s) => gap[u].cover # gap[s].cover

\* Whoever covers a lesson is nowhere else: in no other class, and not on approved leave
\* unless the roster said otherwise of that day; an approval takes the same lock for the
\* days of the leave (leave.service.ts:460-468).
SubstitutesAreFree ==
    /\ OneClassAtATime
    /\ \A s \in Lessons : LET t == gap[s].cover
                          IN t # Nobody /\ Away(t, s) => mark[t][Slot[s].day].by = "roster"

\* Exactly the lessons of approved leaves are gaps, each of the leave it was opened for,
\* however approvals, rejections and withdrawals of one leave overlap (leave.service.ts:448-492,
\* 608-665).
GapsFollowLeaves ==
    \A l \in Leaves : GapsOf(l) = IF status[l] = "APPROVED" THEN LessonsOf(l) ELSE {}

\* The last thing each teacher heard of a lesson is the truth: exactly whoever covers it was
\* told so and has not been told or said otherwise since (leave.service.ts:833-842, 664-665,
\* 1488-1493, 1568-1573).
LastWordStands ==
    \A s \in Lessons : told[s] = {gap[s].cover} \ {Nobody}

\* No set of requests waits for each other: rows are locked before days, and days in order
\* (leave.service.ts:460-468, 818-825, 1003-1013).
Holders(r) ==
    CASE req[r].at = "row" -> RowHolders(r)
      [] req[r].at = "days" -> UNION {DayHolders(r, d) : d \in {d \in Days : NextDay(r, d)}}
      [] OTHER -> {}
NobodyWaitsInACircle ==
    \A rs \in SUBSET Requests : rs # {} => \E r \in rs : Holders(r) \intersect rs = {}

\* Every day of an approved leave carries a mark; the cancel of another leave of the day
\* leaves it (leave.service.ts:576-578).
AwayIsMarked ==
    \A l \in Leaves : status[l] = "APPROVED" => \A d \in Form[l].days : mark[Form[l].teacher][d] # NoMark
====
