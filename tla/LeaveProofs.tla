---- MODULE LeaveProofs ----
(***************************************************************************)
(* What the locks of leave and cover guarantee, for any number of          *)
(* requests, teachers, lessons and leaves; half days are excluded only     *)
(* where the cancel of one half may take the mark of the other.            *)
(*                                                                         *)
(* The argument: whoever decides about a leave is alone with its row, so   *)
(* the status it believes in stands until it writes; whoever gives lessons *)
(* away is alone with their days, so the substitute it found free stays    *)
(* free until it writes; and a cancel keeps everybody from giving away the *)
(* gaps it has read.                                                       *)
(* An approval has the days of its leave while it looks at the marks and   *)
(* the covers, so a mark it leaves out is there for whoever asks next; and *)
(* the days are taken in order, so of the days waited for the last one is  *)
(* held by a request that waits for none.                                  *)
(***************************************************************************)
EXTENDS Leave, WellFoundedInduction, TLAPS

\* One request decides about a leave, and nobody gives its gaps away meanwhile.
RowAlone ==
    \A l \in Leaves : \A q, r \in Requests :
        HasRow(req[q], l) /\ (HasRow(req[r], l) \/ SharesRow(req[r], l)) => q = r

DaysAlone == \A q, r \in Requests : q # r => req[q].locked \intersect req[r].locked = {}

Live(l) == status[l] \in {"PENDING", "APPROVED"}
NoOverlap == \A l, k \in Leaves : l # k /\ Live(l) /\ Live(k) => ~Overlap(l, k)

NoGapNoCover == \A s \in Lessons : gap[s].leave = NoLeave => gap[s].cover = Nobody

\* What a request q is about.
WellFormed(q) ==
    /\ q.op \in Deciding \union Giving \union {"reject"} => q.leave \in Leaves
    /\ q.op \in Giving =>
         /\ q.teacher \in Teachers
         /\ \A s \in q.lessons : ~Teaches(q.teacher, s)
         /\ q.at \in {"read", "write"} => \A s \in q.lessons : Slot[s].day \in q.locked
    /\ q.op = "assign" => \A s, u \in q.lessons : s = u
    /\ q.op = "approve" /\ q.at \in {"read", "write"} => Form[q.leave].days \subseteq q.locked

\* Whoever has the row knows the status.
Believes(q) ==
    q.op \in Deciding /\ q.at \in PastRow =>
        status[q.leave] = IF q.op = "approve" THEN "PENDING" ELSE "APPROVED"

\* Whoever was found free covers nothing else, and gets no two lessons of one period.
FoundFree(q) ==
    q.op \in Giving /\ q.at = "write" =>
        \A s \in q.lessons : \A u \in Lessons \ {s} :
            SameTime(u, s) => gap[u].cover # q.teacher /\ u \notin q.lessons

\* A cancel knows every gap of its leave and whom to tell.
SawGaps(q) ==
    q.op = "cancel" /\ q.at = "write" =>
        /\ q.lessons = LessonsOf(q.leave)
        /\ \A s \in Lessons : IF s \in q.lessons THEN gap[s].cover \in {q.saw[s], Nobody} ELSE q.saw[s] = Nobody

Fits(q) == WellFormed(q) /\ Believes(q) /\ FoundFree(q) /\ SawGaps(q)
RequestsFit == \A q \in Requests : Fits(req[q])

LeaveInv ==
    /\ TypeOK /\ RowAlone /\ DaysAlone /\ NoOverlap /\ NoGapNoCover /\ RequestsFit
    /\ OneClassAtATime /\ GapsFollowLeaves /\ LastWordStands

-----------------------------------------------------------------------------
(* Facts about the rows.                                                   *)

LEMMA DayOf == ASSUME NEW s \in Lessons PROVE Slot[s].day \in Days
  BY DEF Days

LEMMA FormOf ==
    ASSUME NEW l \in Leaves
    PROVE  /\ Form[l].teacher \in Teachers /\ Form[l].days \subseteq Days
           /\ Form[l].half \in {"AM", "PM", "DAY"} /\ l # NoLeave
  BY LeaveAssumption DEF Days

LEMMA IdleFits == Idle \in RequestType /\ Idle.op = "none" /\ Idle.at = "idle" /\ Idle.locked = {}
  BY DEF Idle, RequestType

\* A lesson belongs to one live leave only.
LEMMA OneLeavePerLesson ==
    ASSUME NoOverlap, NEW l \in Leaves, NEW k \in Leaves, Live(l), Live(k),
           NEW s \in LessonsOf(l), s \in LessonsOf(k)
    PROVE  l = k
  <1>1. Form[k].teacher = Form[l].teacher /\ Slot[s].day \in Form[k].days \intersect Form[l].days
    BY DEF LessonsOf
  <1>2. Slot[s].half \in {"AM", "PM"} BY LeaveAssumption DEF LessonsOf
  <1>3. {Form[k].half, Form[l].half} # {"AM", "PM"} BY <1>2, FormOf DEF LessonsOf, InHalf
  <1> QED BY <1>1, <1>3 DEF NoOverlap, Overlap

\* What a gap's leave says.
LEMMA LeaveOfGap ==
    ASSUME LeaveInv, NEW s \in Lessons, gap[s].leave # NoLeave
    PROVE  gap[s].leave \in Leaves /\ status[gap[s].leave] = "APPROVED" /\ s \in LessonsOf(gap[s].leave)
  <1>1. gap[s].leave \in Leaves BY DEF LeaveInv, TypeOK, GapType
  <1>2. s \in GapsOf(gap[s].leave) BY DEF GapsOf
  <1> QED BY <1>1, <1>2 DEF LeaveInv, GapsFollowLeaves

LEMMA GapOfLeave ==
    ASSUME LeaveInv, NEW l \in Leaves, status[l] = "APPROVED", NEW s \in LessonsOf(l)
    PROVE  gap[s].leave = l
  BY DEF LeaveInv, GapsFollowLeaves, GapsOf

\* One teacher gives one lesson per period.
LEMMA OneLessonPerPeriod ==
    ASSUME NEW s \in Lessons, NEW u \in Lessons, SameTime(s, u), Slot[s].teacher = Slot[u].teacher
    PROVE  s = u
  BY LeaveAssumption DEF SameTime

LEMMA InitLeave == ASSUME Init PROVE LeaveInv
  <1>1. TypeOK
    BY LeaveAssumption, IdleFits DEF Init, TypeOK, NoGap, Open, GapType, NoMark
  <1>2. \A q \in Requests : req[q] = Idle BY DEF Init
  <1>3. RowAlone /\ DaysAlone /\ RequestsFit
    BY <1>2, IdleFits DEF RowAlone, DaysAlone, RequestsFit, Fits, WellFormed, Believes, FoundFree,
       SawGaps, HasRow, Deciding, Giving
  <1>4. NoOverlap BY DEF Init, NoOverlap, Live
  <1>5. \A s \in Lessons : gap[s].leave = NoLeave /\ gap[s].cover = Nobody /\ told[s] = {}
    BY DEF Init, NoGap, Open
  <1>6. NoGapNoCover /\ OneClassAtATime /\ LastWordStands
    BY <1>5 DEF NoGapNoCover, OneClassAtATime, LastWordStands
  <1>7. GapsFollowLeaves BY <1>5, LeaveAssumption DEF Init, GapsFollowLeaves, GapsOf
  <1> QED BY <1>1, <1>3, <1>4, <1>6, <1>7 DEF LeaveInv

-----------------------------------------------------------------------------
(* Steps of one request that write nothing.                                *)

tables == <<status, gap, told>>

LEMMA TablesSame ==
    ASSUME LeaveInv, UNCHANGED tables
    PROVE  (NoOverlap /\ NoGapNoCover /\ OneClassAtATime /\ GapsFollowLeaves /\ LastWordStands)'
  BY DEF tables, LeaveInv, NoOverlap, Live, NoGapNoCover, OneClassAtATime, GapsFollowLeaves, GapsOf, LastWordStands

LEMMA FitsSame ==
    ASSUME NEW q, Fits(q), UNCHANGED tables
    PROVE  Fits(q)'
  BY DEF tables, Fits, WellFormed, Believes, FoundFree, SawGaps

LEMMA RequestStep ==
    ASSUME LeaveInv, NEW r \in Requests, NEW t \in RequestType, Becomes(r, t), Fits(t),
           \A l \in Leaves : \A q \in Requests \ {r} :
               /\ HasRow(t, l) => ~HasRow(req[q], l) /\ ~SharesRow(req[q], l)
               /\ SharesRow(t, l) => ~HasRow(req[q], l),
           \A q \in Requests \ {r} : t.locked \intersect req[q].locked = {},
           UNCHANGED <<status, gap, mark, marks, told>>
    PROVE  LeaveInv'
  <1>1. req' = [req EXCEPT ![r] = t] /\ UNCHANGED tables BY DEF Becomes, tables
  <1>2. req \in [Requests -> RequestType] BY DEF LeaveInv, TypeOK
  <1>3. TypeOK' BY <1>1, <1>2 DEF LeaveInv, TypeOK
  <1>4. /\ req'[r] = t
        /\ \A q \in Requests \ {r} : req'[q] = req[q]
    BY <1>1, <1>2
  <1>5. RowAlone'
    <2> SUFFICES ASSUME NEW l \in Leaves, NEW p \in Requests, NEW q \in Requests,
                        HasRow(req'[p], l), HasRow(req'[q], l) \/ SharesRow(req'[q], l)
                 PROVE  p = q
      BY DEF RowAlone, HasRow, SharesRow
    <2>1. CASE p # r /\ q # r BY <2>1, <1>4 DEF LeaveInv, RowAlone
    <2>2. CASE p = r \/ q = r BY <2>2, <1>4
    <2> QED BY <2>1, <2>2
  <1>6. DaysAlone' BY <1>4 DEF LeaveInv, DaysAlone
  <1>7. RequestsFit'
    <2>1. Fits(t)' BY <1>1, FitsSame
    <2>2. \A q \in Requests \ {r} : Fits(req[q])' BY ONLY <1>1, FitsSame, LeaveInv DEF LeaveInv, RequestsFit, Fits
    <2> QED BY <1>4, <2>1, <2>2 DEF RequestsFit
  <1> QED BY <1>1, <1>3, <1>5, <1>6, <1>7, TablesSame DEF LeaveInv

LEMMA Typed == ASSUME LeaveInv, NEW r \in Requests PROVE req[r] \in RequestType /\ Fits(req[r])
  BY DEF LeaveInv, TypeOK, RequestsFit

\* A request that has no row and no day: begun or ended.
LEMMA HoldsNothing ==
    ASSUME LeaveInv, NEW r \in Requests, NEW t \in RequestType, Becomes(r, t),
           t.locked = {}, t.at \notin PastRow \/ t.op \notin Deciding \union Giving, Fits(t),
           UNCHANGED <<status, gap, mark, marks, told>>
    PROVE  LeaveInv'
  <1>1. \A l \in Leaves : ~HasRow(t, l) /\ ~SharesRow(t, l) BY DEF HasRow, SharesRow
  <1> QED BY <1>1, RequestStep

LEMMA RollBackStep == ASSUME LeaveInv, NEW r \in Requests, RollBack(r) PROVE LeaveInv'
  <1>1. Fits(Idle)
    BY IdleFits DEF Fits, WellFormed, Believes, FoundFree, SawGaps, Deciding, Giving
  <1> QED BY <1>1, IdleFits, HoldsNothing DEF RollBack, Ends, PastRow

LEMMA DecideStep ==
    ASSUME LeaveInv, NEW r \in Requests, NEW l \in Leaves, NEW op \in {"approve", "reject"}, Decide(r, l, op)
    PROVE  LeaveInv'
  <1> DEFINE t == [Idle EXCEPT !.op = op, !.at = "row", !.leave = l]
  <1>1. t \in RequestType BY DEF Idle, RequestType
  <1>2. t.op = op /\ t.at = "row" /\ t.leave = l /\ t.locked = {} BY DEF Idle
  <1>3. Becomes(r, t) /\ UNCHANGED <<status, gap, mark, marks, told>> BY DEF Decide
  <1> HIDE DEF t
  <1>4. Fits(t) BY <1>2 DEF Fits, WellFormed, Believes, FoundFree, SawGaps, Deciding, Giving, PastRow
  <1> QED BY <1>1, <1>2, <1>3, <1>4, HoldsNothing DEF PastRow

LEMMA WithdrawStep ==
    ASSUME LeaveInv, NEW r \in Requests, NEW l \in Leaves, Withdraw(r, l)
    PROVE  LeaveInv'
  <1> DEFINE t == [Idle EXCEPT !.op = "cancel", !.at = "row", !.leave = l]
  <1>1. t \in RequestType BY DEF Idle, RequestType
  <1>2. t.op = "cancel" /\ t.at = "row" /\ t.leave = l /\ t.locked = {} BY DEF Idle
  <1>3. Becomes(r, t) /\ UNCHANGED <<status, gap, mark, marks, told>> BY DEF Withdraw
  <1> HIDE DEF t
  <1>4. Fits(t) BY <1>2 DEF Fits, WellFormed, Believes, FoundFree, SawGaps, Deciding, Giving, PastRow
  <1> QED BY <1>1, <1>2, <1>3, <1>4, HoldsNothing DEF PastRow

LEMMA AssignStep ==
    ASSUME LeaveInv, NEW r \in Requests, NEW s \in Lessons, NEW c \in Teachers, Assign(r, s, c)
    PROVE  LeaveInv'
  <1> DEFINE t == [Idle EXCEPT !.op = "assign", !.at = "row", !.leave = gap[s].leave, !.teacher = c,
                               !.lessons = {s}, !.saw[s] = gap[s].cover]
  <1>0. gap[s].leave \in Leaves BY LeaveOfGap DEF Assign, IsGap
  <1>1. t \in RequestType
    <2>1. gap[s].cover \in Teachers \union {Nobody} BY DEF LeaveInv, TypeOK, GapType
    <2>2. [Idle.saw EXCEPT ![s] = gap[s].cover] \in [Lessons -> Teachers \union {Nobody}] BY <2>1 DEF Idle
    <2> QED BY <1>0, <2>2 DEF Idle, RequestType
  <1>2. t.op = "assign" /\ t.at = "row" /\ t.leave = gap[s].leave /\ t.teacher = c /\ t.lessons = {s} /\ t.locked = {}
    BY DEF Idle
  <1>3. Becomes(r, t) /\ UNCHANGED <<status, gap, mark, marks, told>> /\ ~Teaches(c, s) BY DEF Assign
  <1> HIDE DEF t
  <1>4. Fits(t)
    BY <1>0, <1>2, <1>3 DEF Fits, WellFormed, Believes, FoundFree, SawGaps, Deciding, Giving, PastRow
  <1> QED BY <1>1, <1>2, <1>3, <1>4, HoldsNothing DEF PastRow

LEMMA BatchStep ==
    ASSUME LeaveInv, NEW r \in Requests, NEW l \in Leaves, NEW ss \in SUBSET GapsOf(l), NEW c \in Teachers,
           Batch(r, l, c, ss)
    PROVE  LeaveInv'
  <1> DEFINE t == [Idle EXCEPT !.op = "batch", !.at = "row", !.leave = l, !.teacher = c, !.lessons = ss]
  <1>1. t \in RequestType BY DEF Idle, RequestType, GapsOf
  <1>2. t.op = "batch" /\ t.at = "row" /\ t.leave = l /\ t.teacher = c /\ t.lessons = ss /\ t.locked = {}
    BY DEF Idle
  <1>3. Becomes(r, t) /\ UNCHANGED <<status, gap, mark, marks, told>> /\ \A s \in ss : ~Teaches(c, s) BY DEF Batch
  <1> HIDE DEF t
  <1>4. Fits(t)
    BY <1>2, <1>3 DEF Fits, WellFormed, Believes, FoundFree, SawGaps, Deciding, Giving, PastRow
  <1> QED BY <1>1, <1>2, <1>3, <1>4, HoldsNothing DEF PastRow

LEMMA ClearStep ==
    ASSUME LeaveInv, NEW r \in Requests, NEW s \in Lessons, Clear(r, s)
    PROVE  LeaveInv'
  <1> DEFINE t == [Idle EXCEPT !.op = "clear", !.at = "write", !.leave = gap[s].leave,
                               !.lessons = {s}, !.saw[s] = gap[s].cover]
  <1>1. t \in RequestType
    <2>1. gap[s] \in GapType BY DEF LeaveInv, TypeOK
    <2>2. [Idle.saw EXCEPT ![s] = gap[s].cover] \in [Lessons -> Teachers \union {Nobody}] BY <2>1 DEF Idle, GapType
    <2> QED BY <2>1, <2>2 DEF Idle, RequestType, GapType
  <1>2. t.op = "clear" /\ t.locked = {} BY DEF Idle
  <1>3. Becomes(r, t) /\ UNCHANGED <<status, gap, mark, marks, told>> BY DEF Clear
  <1> HIDE DEF t
  <1>4. Fits(t) BY <1>2 DEF Fits, WellFormed, Believes, FoundFree, SawGaps, Deciding, Giving
  <1> QED BY <1>1, <1>2, <1>3, <1>4, HoldsNothing DEF Deciding, Giving

\* The row is taken.
LEMMA TakeRow ==
    ASSUME LeaveInv, NEW r \in Requests, NEW at \in {"days", "read"}, req[r].op \in Deciding \union Giving,
           req[r].at = "row", RowFree(r), Goes(r, at), UNCHANGED <<status, gap, mark, marks, told>>,
           Fits([req[r] EXCEPT !.at = at])
    PROVE  LeaveInv'
  <1> DEFINE t == [req[r] EXCEPT !.at = at]
  <1>1. t \in RequestType BY Typed DEF RequestType
  <1>2. t.op = req[r].op /\ t.leave = req[r].leave /\ t.locked = req[r].locked BY Typed DEF RequestType
  <1>3. Becomes(r, t) /\ Fits(t) BY DEF Goes
  <1> HIDE DEF t
  <1>4. \A l \in Leaves : \A q \in Requests \ {r} :
            /\ HasRow(t, l) => ~HasRow(req[q], l) /\ ~SharesRow(req[q], l)
            /\ SharesRow(t, l) => ~HasRow(req[q], l)
    BY <1>2 DEF RowFree, RowHolders, HasRow, SharesRow, Deciding, Giving
  <1>5. \A q \in Requests \ {r} : t.locked \intersect req[q].locked = {} BY <1>2 DEF LeaveInv, DaysAlone
  <1> QED BY <1>1, <1>3, <1>4, <1>5, RequestStep

LEMMA ApproveRowStep == ASSUME LeaveInv, NEW r \in Requests, ApproveRow(r) PROVE LeaveInv'
  <1> DEFINE t == [req[r] EXCEPT !.at = "days"]
  <1>1. req[r].op = "approve" /\ req[r].at = "row" /\ status[req[r].leave] = "PENDING"
    BY DEF ApproveRow, At, StillPending
  <1>2. t.op = "approve" /\ t.at = "days" /\ t.leave = req[r].leave BY <1>1, Typed DEF RequestType
  <1>3. req[r].leave \in Leaves BY <1>1, Typed DEF Fits, WellFormed, Deciding
  <1>4. Fits(t) BY <1>1, <1>2, <1>3 DEF Fits, WellFormed, Believes, FoundFree, SawGaps, Giving
  <1> QED BY <1>1, <1>4, TakeRow DEF ApproveRow, Deciding

LEMMA CancelApprovedStep == ASSUME LeaveInv, NEW r \in Requests, CancelApproved(r) PROVE LeaveInv'
  <1> DEFINE t == [req[r] EXCEPT !.at = "read"]
  <1>1. req[r].op = "cancel" /\ req[r].at = "row" /\ status[req[r].leave] = "APPROVED"
    BY DEF CancelApproved, At
  <1>2. t.op = "cancel" /\ t.at = "read" /\ t.leave = req[r].leave BY <1>1, Typed DEF RequestType
  <1>3. req[r].leave \in Leaves BY <1>1, Typed DEF Fits, WellFormed, Deciding
  <1>4. Fits(t) BY <1>1, <1>2, <1>3 DEF Fits, WellFormed, Believes, FoundFree, SawGaps, Giving
  <1> QED BY <1>1, <1>4, TakeRow DEF CancelApproved, Deciding

LEMMA ShareRowStep == ASSUME LeaveInv, NEW r \in Requests, ShareRow(r) PROVE LeaveInv'
  <1> DEFINE t == [req[r] EXCEPT !.at = "days"]
  <1>1. req[r].op \in Giving /\ req[r].at = "row" BY DEF ShareRow
  <1>2. /\ t.op = req[r].op /\ t.at = "days" /\ t.leave = req[r].leave /\ t.teacher = req[r].teacher
        /\ t.lessons = req[r].lessons
    BY <1>1, Typed DEF RequestType
  <1>3. WellFormed(req[r]) BY Typed DEF Fits
  <1>4. Fits(t)
    BY <1>1, <1>2, <1>3 DEF Fits, WellFormed, Believes, FoundFree, SawGaps, Deciding, Giving
  <1> QED BY <1>1, <1>4, TakeRow DEF ShareRow

\* The row is kept.
LEMMA KeepRow ==
    ASSUME LeaveInv, NEW r \in Requests, NEW t \in RequestType, Becomes(r, t), Fits(t),
           t.op = req[r].op, t.leave = req[r].leave, req[r].at \in PastRow, t.at \in PastRow,
           \A q \in Requests \ {r} : t.locked \intersect req[q].locked = {},
           UNCHANGED <<status, gap, mark, marks, told>>
    PROVE  LeaveInv'
  <1>1. \A l \in Leaves : /\ HasRow(t, l) => HasRow(req[r], l)
                          /\ SharesRow(t, l) => SharesRow(req[r], l)
    BY DEF HasRow, SharesRow
  <1>2. \A l \in Leaves : \A q \in Requests \ {r} :
            /\ HasRow(t, l) => ~HasRow(req[q], l) /\ ~SharesRow(req[q], l)
            /\ SharesRow(t, l) => ~HasRow(req[q], l)
    BY <1>1 DEF LeaveInv, RowAlone
  <1> QED BY <1>2, RequestStep

LEMMA SameLocks ==
    ASSUME LeaveInv, NEW r \in Requests
    PROVE  \A q \in Requests \ {r} : req[r].locked \intersect req[q].locked = {}
  BY DEF LeaveInv, DaysAlone

LEMMA LockDayStep == ASSUME LeaveInv, NEW r \in Requests, LockDay(r) PROVE LeaveInv'
  <1>1. PICK d \in Days : /\ NextDay(r, d) /\ DayHolders(r, d) = {}
                          /\ Becomes(r, [req[r] EXCEPT !.locked = @ \union {d},
                                                !.at = IF DaysToLock(r) = {d} THEN "read" ELSE "days"])
    BY DEF LockDay
  <1> DEFINE at == IF DaysToLock(r) = {d} THEN "read" ELSE "days"
             t == [req[r] EXCEPT !.locked = @ \union {d}, !.at = at]
  <1>2. req[r] \in RequestType /\ WellFormed(req[r]) /\ Believes(req[r]) BY Typed DEF Fits
  <1>3. req[r].op \in {"approve"} \union Giving /\ req[r].at = "days" BY DEF LockDay
  <1>4. t \in RequestType BY <1>2 DEF RequestType
  <1>5. /\ t.op = req[r].op /\ t.at = at /\ t.leave = req[r].leave /\ t.teacher = req[r].teacher
        /\ t.lessons = req[r].lessons /\ t.locked = req[r].locked \union {d}
    BY <1>2 DEF RequestType
  <1>6. Becomes(r, t) /\ UNCHANGED <<status, gap, mark, marks, told>> BY <1>1 DEF LockDay
  <1>7. \A q \in Requests \ {r} : t.locked \intersect req[q].locked = {}
    BY <1>1, <1>5, SameLocks DEF DayHolders
  <1> HIDE DEF t
  <1>8. at = "read" => /\ t.op \in Giving => \A s \in t.lessons : Slot[s].day \in t.locked
                       /\ t.op = "approve" => Form[t.leave].days \subseteq t.locked
    BY <1>5 DEF DaysToLock, Giving
  <1>9. at \in {"read", "days"} OBVIOUS
  <1> HIDE DEF at
  <1>10. WellFormed(t)
    BY <1>2, <1>3, <1>5, <1>8, <1>9 DEF WellFormed, Deciding, Giving
  <1>11. Believes(t) BY <1>2, <1>3, <1>5, <1>9 DEF Believes, PastRow
  <1>12. Fits(t) BY <1>3, <1>5, <1>9, <1>10, <1>11 DEF Fits, FoundFree, SawGaps, Giving
  <1> QED BY <1>3, <1>4, <1>5, <1>6, <1>7, <1>9, <1>12, KeepRow DEF PastRow

LEMMA ApproveReadStep == ASSUME LeaveInv, NEW r \in Requests, ApproveRead(r) PROVE LeaveInv'
  <1> DEFINE l == req[r].leave
             marked(st) == {d \in Form[l].days : mark[Form[l].teacher][d].status = st}
             t == [req[r] EXCEPT !.at = "write", !.lessons = CoversOf(l),
                                 !.blank = marked("none"), !.dates = marked("PRESENT")]
  <1>1. req[r].op = "approve" /\ req[r].at = "read" BY DEF ApproveRead, At
  <1>2. req[r] \in RequestType /\ WellFormed(req[r]) /\ Believes(req[r]) BY Typed DEF Fits
  <1>3. l \in Leaves BY <1>1, <1>2 DEF WellFormed, Deciding
  <1>4. marked("none") \subseteq Days /\ marked("PRESENT") \subseteq Days /\ CoversOf(l) \subseteq Lessons
    BY <1>3, FormOf DEF CoversOf
  <1>5. t \in RequestType BY ONLY <1>2, <1>4 DEF RequestType
  <1>6. t.op = "approve" /\ t.at = "write" /\ t.leave = l /\ t.locked = req[r].locked
    BY <1>1, <1>2 DEF RequestType
  <1>7. Becomes(r, t) /\ UNCHANGED <<status, gap, mark, marks, told>> BY DEF ApproveRead
  <1> HIDE DEF t, marked
  <1>8. Fits(t)
    BY <1>1, <1>2, <1>3, <1>6 DEF Fits, WellFormed, Believes, FoundFree, SawGaps, Giving, PastRow, Deciding
  <1> QED BY <1>1, <1>5, <1>6, <1>7, <1>8, SameLocks, KeepRow DEF PastRow

LEMMA CancelReadStep == ASSUME LeaveInv, NEW r \in Requests, CancelRead(r) PROVE LeaveInv'
  <1> DEFINE l == req[r].leave
             seen == [s \in Lessons |-> IF s \in GapsOf(l) THEN gap[s].cover ELSE Nobody]
             t == [req[r] EXCEPT !.at = "write", !.lessons = GapsOf(l), !.saw = seen,
                                 !.dates = Form[l].days \ StillAway(l)]
  <1>1. req[r].op = "cancel" /\ req[r].at = "read" BY DEF CancelRead, At
  <1>2. req[r] \in RequestType /\ WellFormed(req[r]) /\ Believes(req[r]) BY Typed DEF Fits
  <1>3. l \in Leaves BY <1>1, <1>2 DEF WellFormed, Deciding
  <1>4. seen \in [Lessons -> Teachers \union {Nobody}] /\ GapsOf(l) \subseteq Lessons
    BY DEF LeaveInv, TypeOK, GapType, GapsOf
  <1>5. Form[l].days \ StillAway(l) \subseteq Days BY <1>3, FormOf
  <1> HIDE DEF seen
  <1>6. t \in RequestType BY ONLY <1>2, <1>4, <1>5 DEF RequestType
  <1>7. /\ t.op = "cancel" /\ t.at = "write" /\ t.leave = l /\ t.locked = req[r].locked
        /\ t.lessons = GapsOf(l) /\ t.saw = seen
    BY <1>1, <1>2 DEF RequestType
  <1>8. Becomes(r, t) /\ UNCHANGED <<status, gap, mark, marks, told>> BY DEF CancelRead, seen
  <1> HIDE DEF t
  <1>9. GapsOf(l) = LessonsOf(l)
    BY <1>1, <1>2, <1>3 DEF Believes, Deciding, PastRow, LeaveInv, GapsFollowLeaves
  <1>10. SawGaps(t) BY <1>7, <1>9 DEF SawGaps, seen
  <1>11. Fits(t)
    BY <1>1, <1>2, <1>3, <1>7, <1>10 DEF Fits, WellFormed, Believes, FoundFree, Giving, PastRow, Deciding
  <1> QED BY <1>1, <1>6, <1>7, <1>8, <1>11, SameLocks, KeepRow DEF PastRow

\* The lessons of a leave that are at one time are one lesson.
LEMMA CheckFreeStep == ASSUME LeaveInv, NEW r \in Requests, CheckFree(r) PROVE LeaveInv'
  <1> DEFINE c == req[r].teacher
             fit == {s \in req[r].lessons : Free(c, s)}
             open == {s \in fit : gap[s] = Open(req[r].leave)}
             found == IF req[r].op = "batch" THEN open ELSE fit
             t == [req[r] EXCEPT !.at = "write", !.lessons = found]
  <1>1. req[r].op \in Giving /\ req[r].at = "read" BY DEF CheckFree
  <1>2. req[r] \in RequestType /\ WellFormed(req[r]) BY Typed DEF Fits
  <1>3. found \subseteq req[r].lessons /\ req[r].lessons \subseteq Lessons BY <1>2 DEF RequestType
  <1>4. t \in RequestType BY <1>2, <1>3 DEF RequestType
  <1>5. /\ t.op = req[r].op /\ t.at = "write" /\ t.leave = req[r].leave /\ t.teacher = c
        /\ t.lessons = found /\ t.locked = req[r].locked
    BY <1>2 DEF RequestType
  <1>6. Becomes(r, t) /\ UNCHANGED <<status, gap, mark, marks, told>> BY DEF CheckFree
  <1>7. \A s \in found : Free(c, s) OBVIOUS
  <1>8. req[r].op = "batch" => \A s \in found : gap[s] = Open(req[r].leave) OBVIOUS
  <1> HIDE DEF t, found
  <1>9. WellFormed(t) BY <1>1, <1>2, <1>3, <1>5 DEF WellFormed, Giving, Deciding
  <1>10. FoundFree(t)
    <2> SUFFICES ASSUME NEW s \in found, NEW u \in Lessons \ {s}, SameTime(u, s)
                 PROVE  gap[u].cover # c /\ u \notin found
      BY <1>5 DEF FoundFree
    <2>1. gap[u].cover # c BY <1>7 DEF Free
    <2>2. CASE req[r].op = "assign" BY <2>1, <2>2, <1>2, <1>3 DEF WellFormed
    <2>3. CASE req[r].op = "batch"
      <3> SUFFICES ASSUME u \in found PROVE FALSE BY <2>1
      <3>1. gap[s].leave = req[r].leave /\ gap[u].leave = req[r].leave BY <2>3, <1>8 DEF Open
      <3>2. req[r].leave \in Leaves BY <1>1, <1>2 DEF WellFormed
      <3>3. s \in LessonsOf(req[r].leave) /\ u \in LessonsOf(req[r].leave)
        BY <1>3, <3>1, <3>2, FormOf, LeaveOfGap
      <3> QED BY <3>3, OneLessonPerPeriod DEF LessonsOf
    <2> QED BY <2>1, <2>2, <2>3, <1>1 DEF Giving
  <1>11. Fits(t) BY <1>1, <1>5, <1>9, <1>10 DEF Fits, Believes, SawGaps, Giving, Deciding
  <1> QED BY <1>1, <1>4, <1>5, <1>6, <1>11, SameLocks, KeepRow DEF PastRow

-----------------------------------------------------------------------------
(* Steps that write and end a request.                                     *)

\* What the requests that go on need.
GoOn(r) == \A q \in Requests \ {r} : Believes(req[q]) /\ FoundFree(req[q]) /\ SawGaps(req[q])

LEMMA EndedRequests ==
    ASSUME LeaveInv, NEW r \in Requests, Ends(r), GoOn(r)'
    PROVE  RowAlone' /\ DaysAlone' /\ RequestsFit' /\ req' \in [Requests -> RequestType]
  <1>1. req' = [req EXCEPT ![r] = Idle] /\ req \in [Requests -> RequestType]
    BY DEF Ends, Becomes, LeaveInv, TypeOK
  <1>2. req'[r] = Idle /\ \A q \in Requests \ {r} : req'[q] = req[q] BY <1>1
  <1>3. req' \in [Requests -> RequestType] BY <1>1, IdleFits
  <1>4. \A l \in Leaves : ~HasRow(Idle, l) /\ ~SharesRow(Idle, l)
    BY IdleFits DEF HasRow, SharesRow, Deciding, Giving
  <1>5. RowAlone'
    <2> SUFFICES ASSUME NEW l \in Leaves, NEW p \in Requests, NEW q \in Requests,
                        HasRow(req'[p], l), HasRow(req'[q], l) \/ SharesRow(req'[q], l)
                 PROVE  p = q
      BY DEF RowAlone, HasRow, SharesRow
    <2> QED BY <1>2, <1>4 DEF LeaveInv, RowAlone
  <1>6. DaysAlone' BY <1>2, IdleFits DEF LeaveInv, DaysAlone
  <1>7. RequestsFit'
    <2> SUFFICES ASSUME NEW q \in Requests PROVE Fits(req[q])' BY DEF RequestsFit
    <2>1. CASE q = r
      BY <1>2, <2>1, IdleFits DEF Fits, WellFormed, Believes, FoundFree, SawGaps, Deciding, Giving
    <2>2. CASE q # r
      <3>1. WellFormed(req[q])' BY <1>2, <2>2, Typed DEF Fits, WellFormed
      <3> QED BY <2>2, <3>1 DEF Fits, GoOn
    <2> QED BY <2>1, <2>2
  <1> QED BY <1>3, <1>5, <1>6, <1>7

\* Covers that end do no harm.
LEMMA CoversEnd ==
    ASSUME LeaveInv, \A s \in Lessons : gap'[s].cover \in {gap[s].cover, Nobody}
    PROVE  /\ OneClassAtATime'
           /\ \A t \in RequestType : WellFormed(t) /\ FoundFree(t) => FoundFree(t)'
           /\ \A t \in RequestType : SawGaps(t) => SawGaps(t)'
  <1>1. OneClassAtATime' BY DEF LeaveInv, OneClassAtATime
  <1>2. ASSUME NEW t \in RequestType, WellFormed(t), FoundFree(t) PROVE FoundFree(t)'
    BY <1>2, LeaveAssumption DEF WellFormed, FoundFree
  <1>3. ASSUME NEW t \in RequestType, SawGaps(t) PROVE SawGaps(t)' BY <1>3 DEF SawGaps
  <1> QED BY <1>1, <1>2, <1>3

\* The status of one leave changes; whoever believes in another's is right.
LEMMA OthersBelieve ==
    ASSUME LeaveInv, NEW l \in Leaves, NEW st, status' = [status EXCEPT ![l] = st],
           NEW t \in RequestType, WellFormed(t), Believes(t), ~HasRow(t, l)
    PROVE  Believes(t)'
  BY DEF LeaveInv, TypeOK, WellFormed, Believes, HasRow

\* reject, and cancel of a leave that nobody has decided.
LEMMA DropPending ==
    ASSUME LeaveInv, NEW r \in Requests, req[r].op \in {"reject", "cancel"}, RowFree(r), StillPending(r),
           NEW st \in {"REJECTED", "CANCELLED"}, status' = [status EXCEPT ![req[r].leave] = st],
           Ends(r), UNCHANGED <<gap, mark, marks, told>>
    PROVE  LeaveInv'
  <1> DEFINE l == req[r].leave
  <1>1. l \in Leaves BY Typed DEF Fits, WellFormed, Deciding
  <1>2. status[l] = "PENDING" /\ st # "APPROVED" /\ st # "PENDING" BY DEF StillPending
  <1>3. \A k \in Leaves : status'[k] = IF k = l THEN st ELSE status[k] BY DEF LeaveInv, TypeOK
  <1>4. GoOn(r)'
    <2> SUFFICES ASSUME NEW q \in Requests \ {r}
                 PROVE  (Believes(req[q]) /\ FoundFree(req[q]) /\ SawGaps(req[q]))'
      BY DEF GoOn
    <2>1. req'[q] = req[q] BY DEF Ends, Becomes, LeaveInv, TypeOK
    <2>2. ~HasRow(req[q], l) BY DEF RowFree, RowHolders
    <2>3. Believes(req[q])' BY <1>1, <2>1, <2>2, Typed, OthersBelieve DEF Fits, Believes
    <2> QED BY <2>1, <2>3, Typed DEF Fits, FoundFree, SawGaps
  <1>5. NoOverlap' BY <1>2, <1>3 DEF LeaveInv, NoOverlap, Live
  <1>6. GapsFollowLeaves' BY <1>2, <1>3 DEF LeaveInv, GapsFollowLeaves, GapsOf
  <1>7. TypeOK' BY <1>1, <1>4, EndedRequests DEF LeaveInv, TypeOK
  <1>8. (NoGapNoCover /\ OneClassAtATime /\ LastWordStands)'
    BY DEF LeaveInv, NoGapNoCover, OneClassAtATime, LastWordStands
  <1> QED BY <1>4, <1>5, <1>6, <1>7, <1>8, EndedRequests DEF LeaveInv

LEMMA RejectStep == ASSUME LeaveInv, NEW r \in Requests, Reject(r) PROVE LeaveInv'
  BY DropPending DEF Reject, At

LEMMA CancelPendingStep == ASSUME LeaveInv, NEW r \in Requests, CancelPending(r) PROVE LeaveInv'
  BY DropPending DEF CancelPending, At

\* The gaps are as they were but for who covers them.
LEMMA OnlyCoversChange ==
    ASSUME LeaveInv, UNCHANGED status, gap' \in [Lessons -> GapType],
           \A s \in Lessons : gap'[s].leave = gap[s].leave,
           \A s \in Lessons : gap'[s].leave = NoLeave => gap'[s].cover = Nobody
    PROVE  NoOverlap' /\ NoGapNoCover' /\ GapsFollowLeaves' /\ \A t : Believes(t) => Believes(t)'
  <1>1. \A l \in Leaves : GapsOf(l)' = GapsOf(l) BY DEF GapsOf
  <1>2. GapsFollowLeaves' BY <1>1 DEF LeaveInv, GapsFollowLeaves
  <1> QED BY <1>2 DEF LeaveInv, NoOverlap, Live, NoGapNoCover, Believes

LEMMA GiveStep == ASSUME LeaveInv, NEW r \in Requests, Give(r) PROVE LeaveInv'
  <1> DEFINE c == req[r].teacher
             given == Unchanged(r)
  <1>1. req[r] \in RequestType /\ WellFormed(req[r]) /\ FoundFree(req[r]) BY Typed DEF Fits
  <1>2. req[r].op \in Giving /\ req[r].at = "write" BY DEF Give
  <1>3. /\ c \in Teachers /\ c # Nobody /\ req[r].leave \in Leaves
        /\ \A s \in req[r].lessons : ~Teaches(c, s) /\ Slot[s].day \in req[r].locked
    BY <1>1, <1>2, LeaveAssumption DEF WellFormed
  <1>4. given \subseteq req[r].lessons /\ given \subseteq Lessons BY <1>1 DEF Unchanged, RequestType
  <1>5. \A s \in given : gap[s].leave = req[r].leave /\ gap[s].cover = req[r].saw[s] BY DEF Unchanged
  <1>6. /\ gap' = [s \in Lessons |-> IF s \in given THEN [gap[s] EXCEPT !.cover = c] ELSE gap[s]]
        /\ told' = [s \in Lessons |-> IF s \in given THEN (told[s] \ {req[r].saw[s]}) \union ({c} \ {Nobody})
                                      ELSE told[s]]
        /\ Ends(r) /\ UNCHANGED <<status, mark, marks>>
    BY DEF Give, Hand
  <1> HIDE DEF given
  <1>7. gap \in [Lessons -> GapType] /\ told \in [Lessons -> SUBSET Teachers] BY DEF LeaveInv, TypeOK
  <1>8. /\ gap' \in [Lessons -> GapType]
        /\ \A s \in Lessons : gap'[s].leave = gap[s].leave
        /\ \A s \in Lessons : gap'[s].cover = IF s \in given THEN c ELSE gap[s].cover
    BY <1>3, <1>6, <1>7 DEF GapType
  <1>9. \A s \in Lessons : gap'[s].leave = NoLeave => gap'[s].cover = Nobody
    BY <1>3, <1>5, <1>8, FormOf DEF LeaveInv, NoGapNoCover
  <1>10. \A s \in given : \A u \in Lessons \ {s} : SameTime(u, s) => gap[u].cover # c /\ u \notin given
    BY <1>1, <1>2, <1>4 DEF FoundFree
  <1>11. OneClassAtATime'
    <2> SUFFICES ASSUME NEW s \in Lessons, gap'[s].cover # Nobody
                 PROVE  /\ ~Teaches(gap'[s].cover, s)
                        /\ \A u \in Lessons \ {s} : SameTime(u, s) => gap'[u].cover # gap'[s].cover
      BY DEF OneClassAtATime
    <2>1. CASE s \in given BY <2>1, <1>3, <1>4, <1>8, <1>10
    <2>2. CASE s \notin given
      <3>1. gap'[s].cover = gap[s].cover BY <2>2, <1>8
      <3>2. /\ ~Teaches(gap[s].cover, s)
            /\ \A u \in Lessons \ {s} : SameTime(u, s) => gap[u].cover # gap[s].cover
        BY <3>1 DEF LeaveInv, OneClassAtATime
      <3>3. \A u \in given : SameTime(u, s) => gap[s].cover # c
        BY <2>2, <1>4, <1>10 DEF SameTime
      <3> QED BY <3>1, <3>2, <3>3, <1>8
    <2> QED BY <2>1, <2>2
  <1>12. GoOn(r)'
    <2> SUFFICES ASSUME NEW q \in Requests \ {r}
                 PROVE  (Believes(req[q]) /\ FoundFree(req[q]) /\ SawGaps(req[q]))'
      BY DEF GoOn
    <2>1. req'[q] = req[q] BY <1>6 DEF Ends, Becomes, LeaveInv, TypeOK
    <2>2. req[q] \in RequestType /\ Fits(req[q]) BY Typed
    <2>3. Believes(req[q])' BY <1>6, <2>1, <2>2 DEF Fits, Believes
    <2>4. FoundFree(req[q])'
      <3> SUFFICES ASSUME req[q].op \in Giving, req[q].at = "write", NEW s \in req[q].lessons,
                          NEW u \in Lessons \ {s}, SameTime(u, s)
                   PROVE  gap'[u].cover # req[q].teacher /\ u \notin req[q].lessons
        BY <2>1 DEF FoundFree
      <3>1. Slot[s].day \in req[q].locked /\ Slot[s].day = Slot[u].day
        BY <2>2 DEF Fits, WellFormed, SameTime
      <3>2. u \notin given BY <3>1, <1>3, <1>4 DEF LeaveInv, DaysAlone
      <3> QED BY <3>2, <2>2, <1>8 DEF Fits, FoundFree
    <2>5. SawGaps(req[q])'
      <3> SUFFICES ASSUME req[q].op = "cancel", req[q].at = "write"
                   PROVE  SawGaps(req[q])'
        BY <2>1 DEF SawGaps
      <3> DEFINE l == req[q].leave
      <3>1. l \in Leaves /\ status[l] = "APPROVED" /\ HasRow(req[q], l) /\ req[q].lessons = LessonsOf(l)
        BY <2>2 DEF Fits, WellFormed, Believes, SawGaps, HasRow, Deciding, PastRow
      <3>2. ~SharesRow(req[r], l) BY <3>1 DEF LeaveInv, RowAlone
      <3>3. \A s \in req[q].lessons : s \notin given
        BY <1>2, <1>5, <3>1, <3>2, GapOfLeave DEF SharesRow, PastRow
      <3> QED BY <2>1, <2>2, <1>8, <3>3 DEF Fits, SawGaps
    <2> QED BY <2>3, <2>4, <2>5
  <1>13. LastWordStands'
    <2> SUFFICES ASSUME NEW s \in Lessons PROVE told'[s] = {gap'[s].cover} \ {Nobody}
      BY DEF LastWordStands
    <2>1. told[s] = {gap[s].cover} \ {Nobody} BY DEF LeaveInv, LastWordStands
    <2> QED BY <2>1, <1>3, <1>5, <1>6, <1>8
  <1>14. TypeOK'
    <2>1. told' \in [Lessons -> SUBSET Teachers] BY <1>3, <1>6, <1>7
    <2> QED BY <2>1, <1>6, <1>8, <1>12, EndedRequests DEF LeaveInv, TypeOK
  <1> QED BY <1>6, <1>8, <1>9, <1>11, <1>12, <1>13, <1>14, OnlyCoversChange, EndedRequests DEF LeaveInv

\* Covers end, nothing else changes in the tables, and whoever loses one was told or said so.
LEMMA CoversEndStep ==
    ASSUME LeaveInv, UNCHANGED status, gap' \in [Lessons -> GapType],
           \A s \in Lessons : gap'[s].leave = gap[s].leave /\ gap'[s].cover \in {gap[s].cover, Nobody}
    PROVE  /\ (NoOverlap /\ NoGapNoCover /\ OneClassAtATime /\ GapsFollowLeaves)'
           /\ \A t \in RequestType : Fits(t) => Fits(t)'
  <1>1. \A s \in Lessons : gap'[s].leave = NoLeave => gap'[s].cover = Nobody
    BY DEF LeaveInv, NoGapNoCover
  <1>2. ASSUME NEW t \in RequestType, Fits(t) PROVE Fits(t)'
    <2>1. WellFormed(t)' BY <1>2 DEF Fits, WellFormed
    <2>2. Believes(t)' BY <1>2 DEF Fits, Believes
    <2>3. FoundFree(t)' /\ SawGaps(t)' BY <1>2, CoversEnd DEF Fits
    <2> QED BY <2>1, <2>2, <2>3 DEF Fits
  <1> QED BY <1>1, <1>2, OnlyCoversChange, CoversEnd

LEMMA ClearWriteStep == ASSUME LeaveInv, NEW r \in Requests, ClearWrite(r) PROVE LeaveInv'
  <1> DEFINE cleared == Unchanged(r)
  <1>1. \A s \in cleared : gap[s].cover = req[r].saw[s] BY DEF Unchanged
  <1>2. /\ gap' = [s \in Lessons |-> IF s \in cleared THEN [gap[s] EXCEPT !.cover = Nobody] ELSE gap[s]]
        /\ told' = [s \in Lessons |-> IF s \in cleared
                                      THEN (told[s] \ {req[r].saw[s]}) \union ({Nobody} \ {Nobody}) ELSE told[s]]
        /\ Ends(r) /\ UNCHANGED <<status, mark, marks>>
    BY DEF ClearWrite, Hand
  <1> HIDE DEF cleared
  <1>3. gap \in [Lessons -> GapType] /\ told \in [Lessons -> SUBSET Teachers] BY DEF LeaveInv, TypeOK
  <1>4. /\ gap' \in [Lessons -> GapType]
        /\ \A s \in Lessons : gap'[s].leave = gap[s].leave
        /\ \A s \in Lessons : gap'[s].cover = IF s \in cleared THEN Nobody ELSE gap[s].cover
    BY <1>2, <1>3 DEF GapType
  <1>5. told' \in [Lessons -> SUBSET Teachers] BY <1>2, <1>3
  <1>6. LastWordStands'
    <2> SUFFICES ASSUME NEW s \in Lessons PROVE told'[s] = {gap'[s].cover} \ {Nobody}
      BY DEF LastWordStands
    <2>1. told[s] = {gap[s].cover} \ {Nobody} BY DEF LeaveInv, LastWordStands
    <2> QED BY <2>1, <1>1, <1>2, <1>4
  <1>7. /\ (NoOverlap /\ NoGapNoCover /\ OneClassAtATime /\ GapsFollowLeaves)'
        /\ \A t \in RequestType : Fits(t) => Fits(t)'
    BY <1>2, <1>4, CoversEndStep
  <1>8. GoOn(r)'
    <2> SUFFICES ASSUME NEW q \in Requests \ {r} PROVE Fits(req[q])' BY DEF GoOn, Fits
    <2>1. req'[q] = req[q] BY <1>2 DEF Ends, Becomes, LeaveInv, TypeOK
    <2> QED BY <2>1, <1>7, Typed
  <1>9. TypeOK' BY <1>2, <1>4, <1>5, <1>8, EndedRequests DEF LeaveInv, TypeOK
  <1> QED BY <1>2, <1>6, <1>7, <1>8, <1>9, EndedRequests DEF LeaveInv

LEMMA DeclineStep ==
    ASSUME LeaveInv, NEW c \in Teachers, NEW ss \in Answers(c), Decline(c, ss)
    PROVE  LeaveInv'
  <1>1. \A s \in ss : s \in Lessons /\ gap[s].cover = c BY DEF Answers, Held, GapsOf
  <1>2. gap \in [Lessons -> GapType] /\ told \in [Lessons -> SUBSET Teachers] BY DEF LeaveInv, TypeOK
  <1>3. /\ gap' = [s \in Lessons |-> IF s \in ss THEN Open(gap[s].leave) ELSE gap[s]]
        /\ told' = [s \in Lessons |-> IF s \in ss THEN told[s] \ {c} ELSE told[s]]
        /\ UNCHANGED <<status, mark, marks, req>>
    BY DEF Decline
  <1>4. /\ gap' \in [Lessons -> GapType]
        /\ \A s \in Lessons : gap'[s].leave = gap[s].leave
        /\ \A s \in Lessons : gap'[s].cover = IF s \in ss THEN Nobody ELSE gap[s].cover
    BY <1>2, <1>3 DEF GapType, Open
  <1>5. told' \in [Lessons -> SUBSET Teachers] BY <1>2, <1>3
  <1>6. LastWordStands'
    <2> SUFFICES ASSUME NEW s \in Lessons PROVE told'[s] = {gap'[s].cover} \ {Nobody}
      BY DEF LastWordStands
    <2>1. told[s] = {gap[s].cover} \ {Nobody} BY DEF LeaveInv, LastWordStands
    <2> QED BY <2>1, <1>1, <1>3, <1>4
  <1>7. /\ (NoOverlap /\ NoGapNoCover /\ OneClassAtATime /\ GapsFollowLeaves)'
        /\ \A t \in RequestType : Fits(t) => Fits(t)'
    BY <1>3, <1>4, CoversEndStep
  <1>8. RequestsFit'
    <2> SUFFICES ASSUME NEW q \in Requests PROVE Fits(req[q])' BY DEF RequestsFit
    <2> QED BY <1>3, <1>7, Typed
  <1>9. RowAlone' /\ DaysAlone' BY <1>3 DEF LeaveInv, RowAlone, DaysAlone
  <1>10. TypeOK' BY <1>3, <1>4, <1>5 DEF LeaveInv, TypeOK
  <1> QED BY <1>6, <1>7, <1>8, <1>9, <1>10 DEF LeaveInv

LEMMA MarksTyped ==
    ASSUME LeaveInv, NEW l \in Leaves, NEW f \in [Days -> RosterMarks \union {NoMark, OnLeave}],
           mark' = [mark EXCEPT ![Form[l].teacher] = f]
    PROVE  mark' \in [Teachers -> [Days -> RosterMarks \union {NoMark, OnLeave}]]
  BY FormOf DEF LeaveInv, TypeOK

\* Approving opens the lessons of the leave, none of which was a gap, and reopens covers.
LEMMA ApproveWriteStep == ASSUME LeaveInv, NEW r \in Requests, ApproveWrite(r) PROVE LeaveInv'
  <1> DEFINE l == req[r].leave
             c == Form[l].teacher
             opened == Opened(l)
             again == Reopened(r)
  <1>1. req[r].op = "approve" /\ req[r].at = "write" BY DEF ApproveWrite, At
  <1>2. l \in Leaves /\ status[l] = "PENDING" /\ HasRow(req[r], l)
    BY <1>1, Typed DEF Fits, WellFormed, Believes, HasRow, Deciding, PastRow
  <1>3. c \in Teachers /\ c # Nobody /\ l # NoLeave BY <1>2, FormOf, LeaveAssumption
  <1>4. opened = LessonsOf(l)
    <2> SUFFICES ASSUME NEW s \in LessonsOf(l), IsGap(s) PROVE FALSE BY DEF Opened
    <2>1. s \in Lessons BY DEF LessonsOf
    <2>2. /\ gap[s].leave \in Leaves /\ status[gap[s].leave] = "APPROVED"
          /\ s \in LessonsOf(gap[s].leave)
      BY <2>1, LeaveOfGap DEF IsGap
    <2>3. gap[s].leave = l BY <2>2, <1>2, OneLeavePerLesson DEF LeaveInv, Live
    <2> QED BY <2>2, <2>3, <1>2
  <1>5. \A s \in opened : gap[s].leave = NoLeave /\ gap[s].cover = Nobody
    BY DEF Opened, IsGap, LessonsOf, LeaveInv, NoGapNoCover
  <1>6. \A s \in again : s \notin opened /\ gap[s].cover = c
    BY <1>3, <1>5 DEF Reopened
  <1>7. /\ status' = [status EXCEPT ![l] = "APPROVED"]
        /\ gap' = [s \in Lessons |-> IF s \in opened THEN Open(l)
                                     ELSE IF s \in again THEN Open(gap[s].leave) ELSE gap[s]]
        /\ told' = [s \in Lessons |-> IF s \in again THEN told[s] \ {c} ELSE told[s]]
        /\ Ends(r) /\ UNCHANGED marks
    BY DEF ApproveWrite
  <1>8. mark' \in [Teachers -> [Days -> RosterMarks \union {NoMark, OnLeave}]]
    <2> DEFINE new == req[r].blank \union req[r].dates
               f == [d \in Days |-> IF d \in new THEN OnLeave ELSE mark[c][d]]
    <2>1. mark' = [mark EXCEPT ![c] = f] BY <1>3 DEF ApproveWrite, LeaveInv, TypeOK
    <2>2. f \in [Days -> RosterMarks \union {NoMark, OnLeave}]
      <3>1. \A d \in Days : mark[c][d] \in RosterMarks \union {NoMark, OnLeave}
        BY <1>3 DEF LeaveInv, TypeOK
      <3> QED BY <3>1
    <2> HIDE DEF f
    <2> QED BY <1>2, <2>1, <2>2, MarksTyped
  <1> HIDE DEF opened, again
  <1>9. gap \in [Lessons -> GapType] /\ told \in [Lessons -> SUBSET Teachers] BY DEF LeaveInv, TypeOK
  <1>10. /\ gap' \in [Lessons -> GapType]
         /\ \A s \in Lessons : gap'[s].leave = IF s \in opened THEN l ELSE gap[s].leave
         /\ \A s \in Lessons : gap'[s].cover = IF s \in opened \union again THEN Nobody ELSE gap[s].cover
    BY <1>2, <1>7, <1>9 DEF GapType, Open
  <1>11. \A s \in Lessons : gap'[s].cover \in {gap[s].cover, Nobody} BY <1>10
  <1>12. \A k \in Leaves : status'[k] = IF k = l THEN "APPROVED" ELSE status[k]
    BY <1>2, <1>7 DEF LeaveInv, TypeOK
  <1>13. GapsFollowLeaves'
    <2> SUFFICES ASSUME NEW k \in Leaves
                 PROVE  GapsOf(k)' = IF status'[k] = "APPROVED" THEN LessonsOf(k) ELSE {}
      BY DEF GapsFollowLeaves
    <2>1. GapsOf(k)' = {s \in Lessons : gap'[s].leave = k} BY DEF GapsOf
    <2>2. GapsOf(k) = IF status[k] = "APPROVED" THEN LessonsOf(k) ELSE {}
      BY DEF LeaveInv, GapsFollowLeaves
    <2>3. CASE k = l
      <3>1. \A s \in Lessons : gap[s].leave # l BY <2>2, <2>3, <1>2 DEF GapsOf
      <3> QED BY <2>1, <2>3, <3>1, <1>4, <1>10, <1>12 DEF LessonsOf
    <2>4. CASE k # l
      <3>1. \A s \in Lessons : gap'[s].leave = k <=> gap[s].leave = k
        BY <2>4, <1>5, <1>10, FormOf
      <3> QED BY <2>1, <2>2, <2>4, <3>1, <1>12 DEF GapsOf
    <2> QED BY <2>3, <2>4
  <1>14. NoOverlap' BY <1>2, <1>12 DEF LeaveInv, NoOverlap, Live
  <1>15. NoGapNoCover' BY <1>3, <1>10 DEF LeaveInv, NoGapNoCover
  <1>16. GoOn(r)'
    <2> SUFFICES ASSUME NEW q \in Requests \ {r} PROVE (Believes(req[q]) /\ FoundFree(req[q]) /\ SawGaps(req[q]))'
      BY DEF GoOn
    <2>1. req'[q] = req[q] BY <1>7 DEF Ends, Becomes, LeaveInv, TypeOK
    <2>2. req[q] \in RequestType /\ Fits(req[q]) BY Typed
    <2>3. ~HasRow(req[q], l) BY <1>2 DEF LeaveInv, RowAlone
    <2>4. Believes(req[q])' BY <2>1, <2>2, <2>3, <1>2, <1>7, OthersBelieve DEF Fits, Believes
    <2>5. (FoundFree(req[q]) /\ SawGaps(req[q]))' BY <2>1, <2>2, <1>11, CoversEnd DEF Fits
    <2> QED BY <2>4, <2>5
  <1>17. LastWordStands'
    <2> SUFFICES ASSUME NEW s \in Lessons PROVE told'[s] = {gap'[s].cover} \ {Nobody}
      BY DEF LastWordStands
    <2>1. told[s] = {gap[s].cover} \ {Nobody} BY DEF LeaveInv, LastWordStands
    <2> QED BY <2>1, <1>5, <1>6, <1>7, <1>10
  <1>18. TypeOK'
    <2>1. told' \in [Lessons -> SUBSET Teachers] BY <1>7, <1>9
    <2>2. status' \in [Leaves -> {"none", "PENDING", "APPROVED", "REJECTED", "CANCELLED"}]
      BY <1>7 DEF LeaveInv, TypeOK
    <2> QED BY <2>1, <2>2, <1>7, <1>8, <1>10, <1>16, EndedRequests DEF LeaveInv, TypeOK
  <1> QED BY <1>7, <1>11, <1>13, <1>14, <1>15, <1>16, <1>17, <1>18, CoversEnd, EndedRequests DEF LeaveInv

\* Cancelling removes the gaps of the leave and tells whoever covers one.
LEMMA CancelWriteStep == ASSUME LeaveInv, NEW r \in Requests, CancelWrite(r) PROVE LeaveInv'
  <1> DEFINE l == req[r].leave
             c == Form[l].teacher
             gone == req[r].lessons
  <1>1. req[r].op = "cancel" /\ req[r].at = "write" BY DEF CancelWrite, At
  <1>2. /\ l \in Leaves /\ status[l] = "APPROVED" /\ HasRow(req[r], l) /\ gone = LessonsOf(l)
        /\ \A s \in Lessons : IF s \in gone THEN gap[s].cover \in {req[r].saw[s], Nobody}
                              ELSE req[r].saw[s] = Nobody
    BY <1>1, Typed DEF Fits, WellFormed, Believes, SawGaps, HasRow, Deciding, PastRow
  <1>3. c \in Teachers /\ l # NoLeave /\ NoLeave \notin Leaves BY <1>2, FormOf, LeaveAssumption
  <1>4. /\ status' = [status EXCEPT ![l] = "CANCELLED"]
        /\ gap' = [s \in Lessons |-> IF s \in gone THEN NoGap ELSE gap[s]]
        /\ told' = [s \in Lessons |-> told[s] \ {req[r].saw[s]}]
        /\ Ends(r) /\ UNCHANGED marks
    BY DEF CancelWrite
  <1>5. mark' \in [Teachers -> [Days -> RosterMarks \union {NoMark, OnLeave}]]
    <2> DEFINE f == [d \in Days |-> IF d \in req[r].dates /\ mark[c][d].status = "ON_LEAVE" THEN NoMark
                                    ELSE mark[c][d]]
    <2>1. mark' = [mark EXCEPT ![c] = f] BY <1>3 DEF CancelWrite, LeaveInv, TypeOK
    <2>2. f \in [Days -> RosterMarks \union {NoMark, OnLeave}]
      <3>1. \A d \in Days : mark[c][d] \in RosterMarks \union {NoMark, OnLeave}
        BY <1>3 DEF LeaveInv, TypeOK
      <3> QED BY <3>1
    <2> HIDE DEF f
    <2> QED BY <1>2, <2>1, <2>2, MarksTyped
  <1> HIDE DEF gone
  <1>6. gap \in [Lessons -> GapType] /\ told \in [Lessons -> SUBSET Teachers] BY DEF LeaveInv, TypeOK
  <1>7. /\ gap' \in [Lessons -> GapType]
        /\ \A s \in Lessons : gap'[s].leave = IF s \in gone THEN NoLeave ELSE gap[s].leave
        /\ \A s \in Lessons : gap'[s].cover = IF s \in gone THEN Nobody ELSE gap[s].cover
    BY <1>4, <1>6 DEF GapType, NoGap, Open
  <1>8. \A s \in Lessons : gap'[s].cover \in {gap[s].cover, Nobody} BY <1>7
  <1>9. \A k \in Leaves : status'[k] = IF k = l THEN "CANCELLED" ELSE status[k]
    BY <1>2, <1>4 DEF LeaveInv, TypeOK
  <1>10. \A s \in gone : gap[s].leave = l BY <1>2, GapOfLeave
  <1>11. GapsFollowLeaves'
    <2> SUFFICES ASSUME NEW k \in Leaves
                 PROVE  GapsOf(k)' = IF status'[k] = "APPROVED" THEN LessonsOf(k) ELSE {}
      BY DEF GapsFollowLeaves
    <2>1. GapsOf(k)' = {s \in Lessons : gap'[s].leave = k} BY DEF GapsOf
    <2>2. GapsOf(k) = IF status[k] = "APPROVED" THEN LessonsOf(k) ELSE {}
      BY DEF LeaveInv, GapsFollowLeaves
    <2>3. CASE k = l
      <3>1. \A s \in Lessons : gap[s].leave = l => s \in gone BY <2>2, <2>3, <1>2 DEF GapsOf
      <3> QED BY <2>1, <2>3, <3>1, <1>3, <1>7, <1>9
    <2>4. CASE k # l
      <3>1. \A s \in Lessons : gap'[s].leave = k <=> gap[s].leave = k
        BY <2>4, <1>3, <1>7, <1>10
      <3> QED BY <2>1, <2>2, <2>4, <3>1, <1>9 DEF GapsOf
    <2> QED BY <2>3, <2>4
  <1>12. NoOverlap' BY <1>2, <1>9 DEF LeaveInv, NoOverlap, Live
  <1>13. NoGapNoCover' BY <1>7 DEF LeaveInv, NoGapNoCover
  <1>14. GoOn(r)'
    <2> SUFFICES ASSUME NEW q \in Requests \ {r} PROVE (Believes(req[q]) /\ FoundFree(req[q]) /\ SawGaps(req[q]))'
      BY DEF GoOn
    <2>1. req'[q] = req[q] BY <1>4 DEF Ends, Becomes, LeaveInv, TypeOK
    <2>2. req[q] \in RequestType /\ Fits(req[q]) BY Typed
    <2>3. ~HasRow(req[q], l) BY <1>2 DEF LeaveInv, RowAlone
    <2>4. Believes(req[q])' BY <2>1, <2>2, <2>3, <1>2, <1>4, OthersBelieve DEF Fits, Believes
    <2>5. (FoundFree(req[q]) /\ SawGaps(req[q]))' BY <2>1, <2>2, <1>8, CoversEnd DEF Fits
    <2> QED BY <2>4, <2>5
  <1>15. LastWordStands'
    <2> SUFFICES ASSUME NEW s \in Lessons PROVE told'[s] = {gap'[s].cover} \ {Nobody}
      BY DEF LastWordStands
    <2>1. told[s] = {gap[s].cover} \ {Nobody} BY DEF LeaveInv, LastWordStands
    <2> QED BY <2>1, <1>2, <1>4, <1>7
  <1>16. TypeOK'
    <2>1. told' \in [Lessons -> SUBSET Teachers] BY <1>4, <1>6
    <2>2. status' \in [Leaves -> {"none", "PENDING", "APPROVED", "REJECTED", "CANCELLED"}]
      BY <1>4 DEF LeaveInv, TypeOK
    <2> QED BY <2>1, <2>2, <1>4, <1>5, <1>7, <1>14, EndedRequests DEF LeaveInv, TypeOK
  <1> QED BY <1>4, <1>8, <1>11, <1>12, <1>13, <1>14, <1>15, <1>16, CoversEnd, EndedRequests DEF LeaveInv

-----------------------------------------------------------------------------
(* Applying, and the roster.                                               *)

LEMMA ApplyStep == ASSUME LeaveInv, NEW l \in Leaves, Apply(l) PROVE LeaveInv'
  <1>1. /\ status[l] = "none" /\ ~Clash(l) /\ status' = [status EXCEPT ![l] = "PENDING"]
        /\ UNCHANGED <<gap, mark, marks, req, told>>
    BY DEF Apply
  <1>2. \A k \in Leaves : status'[k] = IF k = l THEN "PENDING" ELSE status[k]
    BY <1>1 DEF LeaveInv, TypeOK
  <1>3. NoOverlap'
    <2>1. \A k \in Leaves : Live(k) => ~Overlap(l, k) /\ ~Overlap(k, l)
      BY <1>1 DEF Clash, Live, Overlap
    <2> QED BY <2>1, <1>2 DEF LeaveInv, NoOverlap, Live
  <1>4. RequestsFit'
    <2> SUFFICES ASSUME NEW q \in Requests PROVE Fits(req[q])' BY DEF RequestsFit
    <2>1. Believes(req[q])' BY <1>1, <1>2, Typed DEF Fits, WellFormed, Believes
    <2> QED BY <1>1, <2>1, Typed DEF Fits, WellFormed, FoundFree, SawGaps
  <1>5. GapsFollowLeaves' BY <1>1, <1>2 DEF LeaveInv, GapsFollowLeaves, GapsOf
  <1>6. TypeOK' BY <1>1 DEF LeaveInv, TypeOK
  <1>7. (RowAlone /\ DaysAlone /\ NoGapNoCover /\ OneClassAtATime /\ LastWordStands)'
    BY <1>1 DEF LeaveInv, RowAlone, DaysAlone, NoGapNoCover, OneClassAtATime, LastWordStands
  <1> QED BY <1>3, <1>4, <1>5, <1>6, <1>7 DEF LeaveInv

LEMMA RosterStep ==
    ASSUME LeaveInv, NEW c \in Teachers, NEW d \in Days, NEW m \in RosterMarks, Roster(c, d, m)
    PROVE  LeaveInv'
  <1>1. UNCHANGED tables /\ UNCHANGED req BY DEF Roster, tables
  <1>2. mark' \in [Teachers -> [Days -> RosterMarks \union {NoMark, OnLeave}]]
    <2>1. [mark[c] EXCEPT ![d] = m] \in [Days -> RosterMarks \union {NoMark, OnLeave}]
      BY DEF LeaveInv, TypeOK
    <2> QED BY <2>1 DEF Roster, LeaveInv, TypeOK
  <1>3. marks' \in 0..MaxMarks BY LeaveAssumption DEF Roster, LeaveInv, TypeOK
  <1>4. TypeOK' BY <1>1, <1>2, <1>3 DEF LeaveInv, TypeOK, tables
  <1>5. RequestsFit'
    <2> SUFFICES ASSUME NEW q \in Requests PROVE Fits(req[q])' BY DEF RequestsFit
    <2> QED BY <1>1, Typed DEF tables, Fits, WellFormed, Believes, FoundFree, SawGaps
  <1>6. RowAlone' /\ DaysAlone' BY <1>1 DEF LeaveInv, RowAlone, DaysAlone
  <1> QED BY <1>1, <1>4, <1>5, <1>6, TablesSame DEF LeaveInv

LEMMA LeaveStep == LeaveInv /\ [Next]_vars => LeaveInv'
  <1> SUFFICES ASSUME LeaveInv, [Next]_vars PROVE LeaveInv' OBVIOUS
  <1>1. ASSUME NEW r \in Requests, Decisions(r) PROVE LeaveInv'
    BY <1>1, DecideStep, WithdrawStep, RejectStep, ApproveRowStep, ApproveReadStep, ApproveWriteStep,
       CancelPendingStep, CancelApprovedStep, CancelReadStep, CancelWriteStep DEF Decisions
  <1>2. ASSUME NEW r \in Requests, Covers(r) PROVE LeaveInv'
    BY <1>2, ClearStep, AssignStep, BatchStep, ShareRowStep, CheckFreeStep, GiveStep, ClearWriteStep
       DEF Covers
  <1>3. ASSUME NEW x \in Rostered, NEW m \in RosterMarks, Roster(x[1], x[2], m) PROVE LeaveInv'
    BY <1>3, LeaveAssumption, RosterStep
  <1>4. CASE UNCHANGED vars
    <2>1. UNCHANGED tables /\ UNCHANGED <<req, mark, marks>> BY <1>4 DEF vars, tables
    <2>2. RequestsFit'
      <3> SUFFICES ASSUME NEW q \in Requests PROVE Fits(req[q])' BY DEF RequestsFit
      <3> QED BY <2>1, Typed DEF tables, Fits, WellFormed, Believes, FoundFree, SawGaps
    <2>3. (TypeOK /\ RowAlone /\ DaysAlone)' BY <2>1 DEF tables, LeaveInv, TypeOK, RowAlone, DaysAlone
    <2> QED BY <2>1, <2>2, <2>3, TablesSame DEF LeaveInv
  <1> QED BY <1>1, <1>2, <1>3, <1>4, LockDayStep, RollBackStep, ApplyStep, DeclineStep DEF Next

\* Every request of the model keeps to the rows and days it has locked.
THEOREM LocksOfLeaveHold == Spec => []LeaveInv
  BY InitLeave, LeaveStep, PTL DEF Spec

\* Types, in particular of what a request remembers.
THEOREM LeaveTypeCorrect == Spec => []TypeOK
  <1>1. LeaveInv => TypeOK BY DEF LeaveInv
  <1> QED BY <1>1, LocksOfLeaveHold, PTL

\* Exactly the lessons of approved leaves are gaps, however requests overlap
\* (leave.service.ts decide, approve, cancel).
THEOREM GapsAlwaysFollow == Spec => []GapsFollowLeaves
  <1>1. LeaveInv => GapsFollowLeaves BY DEF LeaveInv
  <1> QED BY <1>1, LocksOfLeaveHold, PTL

\* Whoever covers a lesson was told so, and nobody else believes to cover it
\* (leave.service.ts assign, coverBatch, clear, cancel, reopenCoversOf).
THEOREM LastWordAlwaysStands == Spec => []LastWordStands
  <1>1. LeaveInv => LastWordStands BY DEF LeaveInv
  <1> QED BY <1>1, LocksOfLeaveHold, PTL

\* Nobody is given two classes of one period (the day's lock of assign and coverBatch).
THEOREM NobodyInTwoClasses == Spec => []OneClassAtATime
  <1>1. LeaveInv => OneClassAtATime BY DEF LeaveInv
  <1> QED BY <1>1, LocksOfLeaveHold, PTL

-----------------------------------------------------------------------------
(* Marks, when every leave is of whole days.  The two leaves of one day    *)
(* are what AwayIsMarked fails on; without them no two leaves of a teacher *)
(* share a day, and the marks follow the leaves.                           *)

FullDays == \A l \in Leaves : Form[l].half = "DAY"

AwayMarked ==
    \A l \in Leaves : status[l] = "APPROVED" =>
        \A d \in Form[l].days : \/ mark[Form[l].teacher][d] = OnLeave
                                \/ mark[Form[l].teacher][d].by = "roster"

MarkedAway ==
    \A c \in Teachers, d \in Days : mark[c][d] = OnLeave =>
        \E l \in Leaves : status[l] = "APPROVED" /\ Form[l].teacher = c /\ d \in Form[l].days

CoverNotAway ==
    \A s \in Lessons : gap[s].cover # Nobody /\ Away(gap[s].cover, s) => mark[gap[s].cover][Slot[s].day].by = "roster"

\* An approval about to be written knows the covers to reopen and the days to mark.
SawCovers(q) ==
    q.op = "approve" /\ q.at = "write" =>
        /\ CoversOf(q.leave) \subseteq q.lessons
        /\ q.blank \union q.dates \subseteq Form[q.leave].days
        /\ \A d \in Form[q.leave].days \ (q.blank \union q.dates) : mark[Form[q.leave].teacher][d].by = "roster"
SawDays(q) == q.op = "cancel" /\ q.at = "write" => q.dates = Form[q.leave].days
FoundHere(q) ==
    q.op \in Giving /\ q.at = "write" => \A s \in q.lessons : mark[q.teacher][Slot[s].day] # OnLeave

Knows(q) == SawCovers(q) /\ SawDays(q) /\ FoundHere(q)
AwayInv == AwayMarked /\ MarkedAway /\ CoverNotAway /\ \A q \in Requests : Knows(req[q])
MarksInv == LeaveInv /\ AwayInv

LEMMA NoSharedDay ==
    ASSUME FullDays, LeaveInv, NEW l \in Leaves, NEW k \in Leaves, l # k, Live(l), Live(k),
           Form[l].teacher = Form[k].teacher
    PROVE  Form[l].days \intersect Form[k].days = {}
  <1>1. {Form[k].half, Form[l].half} # {"AM", "PM"} BY DEF FullDays
  <1> QED BY <1>1 DEF LeaveInv, NoOverlap, Overlap

LEMMA NoWrite == ASSUME NEW t, t.at # "write" \/ t.op \notin {"approve", "cancel"} \union Giving PROVE Knows(t)
  BY DEF Knows, SawCovers, SawDays, FoundHere, Giving

LEMMA InitMarks == ASSUME Init PROVE MarksInv
  <1>1. LeaveInv BY InitLeave
  <1>2. \A q \in Requests : Knows(req[q]) BY NoWrite, IdleFits DEF Init, Giving
  <1>3. MarkedAway BY DEF Init, MarkedAway, NoMark, OnLeave
  <1>4. AwayMarked /\ CoverNotAway BY DEF Init, AwayMarked, CoverNotAway, NoGap, Open
  <1> QED BY <1>1, <1>2, <1>3, <1>4 DEF MarksInv, AwayInv

\* A step of one request that writes nothing.
LEMMA MarksRequestStep ==
    ASSUME MarksInv, NEW r \in Requests, NEW t, Becomes(r, t), Knows(t),
           UNCHANGED <<status, gap, mark, marks, told>>
    PROVE  AwayInv'
  <1>1. \A q \in Requests \ {r} : req'[q] = req[q] BY DEF Becomes, MarksInv, LeaveInv, TypeOK
  <1>2. req'[r] = t BY DEF Becomes, MarksInv, LeaveInv, TypeOK
  <1>3. AwayMarked' /\ MarkedAway' /\ CoverNotAway'
    BY DEF MarksInv, AwayInv, AwayMarked, MarkedAway, CoverNotAway, Away
  <1>4. \A q \in Requests : Knows(req[q])'
    <2> SUFFICES ASSUME NEW q \in Requests PROVE Knows(req[q])' OBVIOUS
    <2>1. CASE q = r BY <1>2, <2>1 DEF Knows, SawCovers, CoversOf, SawDays, FoundHere
    <2>2. CASE q # r
      <3>1. Knows(req[q]) BY DEF MarksInv, AwayInv
      <3> QED BY <1>1, <2>2, <3>1 DEF Knows, SawCovers, CoversOf, SawDays, FoundHere
    <2> QED BY <2>1, <2>2
  <1> QED BY <1>3, <1>4 DEF AwayInv

\* Steps that begin a request, lock something or roll back.
LEMMA MarksPlainStep ==
    ASSUME MarksInv, NEW r \in Requests,
           \/ LockDay(r) \/ RollBack(r) \/ ApproveRow(r) \/ CancelApproved(r) \/ ShareRow(r)
           \/ \E l \in Leaves : Decide(r, l, "approve") \/ Decide(r, l, "reject") \/ Withdraw(r, l)
           \/ \E s \in Lessons : Clear(r, s) \/ \E c \in Teachers : Assign(r, s, c)
           \/ \E l \in Leaves : \E ss \in SUBSET GapsOf(l), c \in Teachers : Batch(r, l, c, ss)
    PROVE  AwayInv'
  <1>1. req[r] \in RequestType BY Typed DEF MarksInv
  <1>2. CASE LockDay(r)
    <2>1. PICK d \in Days : Becomes(r, [req[r] EXCEPT !.locked = @ \union {d},
                                                 !.at = IF DaysToLock(r) = {d} THEN "read" ELSE "days"])
      BY <1>2 DEF LockDay
    <2> DEFINE t == [req[r] EXCEPT !.locked = @ \union {d}, !.at = IF DaysToLock(r) = {d} THEN "read" ELSE "days"]
    <2>2. t.at # "write" BY <1>1 DEF RequestType
    <2> QED BY <1>2, <2>1, <2>2, NoWrite, MarksRequestStep DEF LockDay
  <1>3. CASE RollBack(r) BY <1>3, IdleFits, NoWrite, MarksRequestStep DEF RollBack, Ends
  <1>4. ASSUME NEW at \in {"days", "read"}, Goes(r, at), UNCHANGED <<status, gap, mark, marks, told>>
        PROVE  AwayInv'
    <2> DEFINE t == [req[r] EXCEPT !.at = at]
    <2>1. t.at # "write" BY <1>1 DEF RequestType
    <2> QED BY <1>4, <2>1, NoWrite, MarksRequestStep DEF Goes
  <1>5. CASE ApproveRow(r) \/ CancelApproved(r) \/ ShareRow(r)
    BY <1>4, <1>5 DEF ApproveRow, CancelApproved, ShareRow
  <1>6. ASSUME NEW l \in Leaves, Decide(r, l, "approve") \/ Decide(r, l, "reject") \/ Withdraw(r, l)
        PROVE  AwayInv'
    <2>1. PICK op \in {"approve", "reject", "cancel"} :
            /\ Becomes(r, [Idle EXCEPT !.op = op, !.at = "row", !.leave = l])
            /\ UNCHANGED <<status, gap, mark, marks, told>>
      BY <1>6 DEF Decide, Withdraw
    <2>2. [Idle EXCEPT !.op = op, !.at = "row", !.leave = l].at = "row" BY DEF Idle
    <2> QED BY <2>1, <2>2, NoWrite, MarksRequestStep
  <1>7. ASSUME NEW s \in Lessons, Clear(r, s) PROVE AwayInv'
    <2> DEFINE t == [Idle EXCEPT !.op = "clear", !.at = "write", !.leave = gap[s].leave,
                                 !.lessons = {s}, !.saw[s] = gap[s].cover]
    <2>1. t.op = "clear" BY DEF Idle
    <2>2. Knows(t) BY ONLY <2>1, NoWrite DEF Giving
    <2> QED BY <1>7, <2>2, MarksRequestStep DEF Clear
  <1>8. ASSUME NEW s \in Lessons, NEW c \in Teachers, Assign(r, s, c) PROVE AwayInv'
    <2> DEFINE t == [Idle EXCEPT !.op = "assign", !.at = "row", !.leave = gap[s].leave, !.teacher = c,
                                 !.lessons = {s}, !.saw[s] = gap[s].cover]
    <2>1. t.at = "row" BY DEF Idle
    <2>2. Knows(t) BY ONLY <2>1, NoWrite
    <2> QED BY <1>8, <2>2, MarksRequestStep DEF Assign
  <1>9. ASSUME NEW l \in Leaves, NEW ss \in SUBSET GapsOf(l), NEW c \in Teachers, Batch(r, l, c, ss)
        PROVE  AwayInv'
    <2> DEFINE t == [Idle EXCEPT !.op = "batch", !.at = "row", !.leave = l, !.teacher = c, !.lessons = ss]
    <2>1. t.at = "row" BY DEF Idle
    <2>2. Knows(t) BY ONLY <2>1, NoWrite
    <2> QED BY <1>9, <2>2, MarksRequestStep DEF Batch
  <1> QED BY <1>2, <1>3, <1>5, <1>6, <1>7, <1>8, <1>9

LEMMA MarksApproveRead ==
    ASSUME FullDays, MarksInv, NEW r \in Requests, ApproveRead(r)
    PROVE  AwayInv'
  <1> DEFINE l == req[r].leave
             c == Form[l].teacher
             marked(st) == {d \in Form[l].days : mark[c][d].status = st}
             t == [req[r] EXCEPT !.at = "write", !.lessons = CoversOf(l),
                                 !.blank = marked("none"), !.dates = marked("PRESENT")]
  <1>1. req[r].op = "approve" /\ req[r].at = "read" BY DEF ApproveRead, At
  <1>2. req[r] \in RequestType /\ Fits(req[r]) BY Typed DEF MarksInv
  <1>3. l \in Leaves /\ status[l] = "PENDING"
    BY <1>1, <1>2 DEF Fits, WellFormed, Believes, Deciding, PastRow
  <1>4. Becomes(r, t) /\ UNCHANGED <<status, gap, mark, marks, told>> BY DEF ApproveRead
  <1>5. /\ t.op = "approve" /\ t.leave = l /\ t.lessons = CoversOf(l)
        /\ t.blank = marked("none") /\ t.dates = marked("PRESENT")
    BY <1>1, <1>2 DEF RequestType
  <1> HIDE DEF t
  <1>6. \A d \in Form[l].days : d \notin marked("none") \union marked("PRESENT") => mark[c][d].by = "roster"
    <2> SUFFICES ASSUME NEW d \in Form[l].days, d \notin marked("none") \union marked("PRESENT"),
                        mark[c][d].by # "roster"
                 PROVE  FALSE
      OBVIOUS
    <2>1. c \in Teachers /\ d \in Days BY <1>3, FormOf
    <2>2. mark[c][d] \in RosterMarks \union {NoMark, OnLeave} BY <2>1 DEF MarksInv, LeaveInv, TypeOK
    <2>3. mark[c][d].status \notin {"none", "PRESENT"} OBVIOUS
    <2> HIDE DEF marked
    <2>4. mark[c][d] = OnLeave BY <2>2, <2>3 DEF RosterMarks, NoMark
    <2>5. PICK k \in Leaves : status[k] = "APPROVED" /\ Form[k].teacher = c /\ d \in Form[k].days
      BY <2>1, <2>4 DEF MarksInv, AwayInv, MarkedAway
    <2> QED BY <1>3, <2>5, NoSharedDay DEF MarksInv, Live
  <1>7. marked("none") \union marked("PRESENT") \subseteq Form[l].days OBVIOUS
  <1> HIDE DEF marked
  <1>8. Knows(t) BY <1>5, <1>6, <1>7 DEF Knows, SawCovers, SawDays, FoundHere, Giving
  <1> QED BY <1>4, <1>8, MarksRequestStep

LEMMA MarksCancelRead ==
    ASSUME FullDays, MarksInv, NEW r \in Requests, CancelRead(r)
    PROVE  AwayInv'
  <1> DEFINE l == req[r].leave
             t == [req[r] EXCEPT !.at = "write", !.lessons = GapsOf(l),
                                 !.saw = [s \in Lessons |-> IF s \in GapsOf(l) THEN gap[s].cover ELSE Nobody],
                                 !.dates = Form[l].days \ StillAway(l)]
  <1>1. req[r].op = "cancel" /\ req[r].at = "read" BY DEF CancelRead, At
  <1>2. req[r] \in RequestType /\ Fits(req[r]) BY Typed DEF MarksInv
  <1>3. l \in Leaves /\ status[l] = "APPROVED"
    BY <1>1, <1>2 DEF Fits, WellFormed, Believes, Deciding, PastRow
  <1>4. Becomes(r, t) /\ UNCHANGED <<status, gap, mark, marks, told>> BY DEF CancelRead
  <1>5. t.op = "cancel" /\ t.leave = l /\ t.dates = Form[l].days \ StillAway(l)
    BY <1>1, <1>2 DEF RequestType
  <1> HIDE DEF t
  <1>6. Form[l].days \intersect StillAway(l) = {}
    BY <1>3, NoSharedDay DEF StillAway, MarksInv, Live
  <1>7. Knows(t) BY <1>5, <1>6 DEF Knows, SawCovers, SawDays, FoundHere, Giving
  <1> QED BY <1>4, <1>7, MarksRequestStep

LEMMA MarksCheckFree ==
    ASSUME MarksInv, NEW r \in Requests, CheckFree(r)
    PROVE  AwayInv'
  <1> DEFINE c == req[r].teacher
             fit == {s \in req[r].lessons : Free(c, s)}
             open == {s \in fit : gap[s] = Open(req[r].leave)}
             found == IF req[r].op = "batch" THEN open ELSE fit
             t == [req[r] EXCEPT !.at = "write", !.lessons = found]
  <1>1. req[r].op \in Giving /\ req[r].at = "read" BY DEF CheckFree
  <1>2. req[r] \in RequestType BY Typed DEF MarksInv
  <1>3. Becomes(r, t) /\ UNCHANGED <<status, gap, mark, marks, told>> BY DEF CheckFree
  <1>4. \A s \in found : mark[c][Slot[s].day] # OnLeave BY DEF Free, OnLeave
  <1>5. t.op \in Giving /\ t.teacher = c /\ t.lessons = found BY <1>1, <1>2 DEF RequestType
  <1> HIDE DEF t, found
  <1>6. Knows(t) BY <1>4, <1>5 DEF Knows, SawCovers, SawDays, FoundHere, Giving
  <1> QED BY <1>3, <1>6, MarksRequestStep

-----------------------------------------------------------------------------

\* The marks stay, and covers at most end: nothing changes but what leaves are approved.
LEMMA MarksStay ==
    ASSUME MarksInv, UNCHANGED mark, NEW q \in Requests, req'[q] = req[q],
           \A s \in Lessons : gap'[s].cover \in {gap[s].cover, Nobody}
    PROVE  Knows(req[q])'
  <1>1. Knows(req[q]) /\ req[q] \in RequestType /\ WellFormed(req[q])
    BY Typed DEF MarksInv, AwayInv, Fits
  <1>2. SawCovers(req[q])'
    <2> SUFFICES ASSUME req[q].op = "approve", req[q].at = "write" PROVE SawCovers(req[q])' BY DEF SawCovers
    <2>1. req[q].leave \in Leaves BY <1>1 DEF WellFormed, Deciding
    <2>2. Form[req[q].leave].teacher # Nobody BY <2>1, FormOf, LeaveAssumption
    <2>3. CoversOf(req[q].leave)' \subseteq CoversOf(req[q].leave) BY <2>2 DEF CoversOf
    <2> QED BY <1>1, <2>3 DEF Knows, SawCovers
  <1>3. SawDays(req[q])' /\ FoundHere(req[q])' BY <1>1 DEF Knows, SawDays, FoundHere
  <1> QED BY <1>2, <1>3 DEF Knows

LEMMA IdleKnows == ASSUME NEW r \in Requests, MarksInv, Ends(r) PROVE Knows(req[r])'
  <1>1. req'[r] = Idle BY DEF Ends, Becomes, MarksInv, LeaveInv, TypeOK
  <1> QED BY <1>1, IdleFits DEF Knows, SawCovers, SawDays, FoundHere, Giving

LEMMA OthersStand ==
    ASSUME MarksInv, NEW r \in Requests, Ends(r), NEW q \in Requests \ {r} PROVE req'[q] = req[q]
  BY DEF Ends, Becomes, MarksInv, LeaveInv, TypeOK

\* reject, cancel of a pending leave, clear, decline.
LEMMA MarksQuietStep ==
    ASSUME MarksInv, UNCHANGED mark,
           \A l \in Leaves : status'[l] = "APPROVED" <=> status[l] = "APPROVED",
           \A s \in Lessons : gap'[s].cover \in {gap[s].cover, Nobody},
           \/ UNCHANGED req
           \/ \E r \in Requests : Ends(r)
    PROVE  AwayInv'
  <1>1. AwayMarked' /\ MarkedAway' BY DEF MarksInv, AwayInv, AwayMarked, MarkedAway
  <1>2. CoverNotAway' BY DEF MarksInv, AwayInv, CoverNotAway, Away
  <1>3. \A q \in Requests : Knows(req[q])'
    <2>1. CASE UNCHANGED req BY <2>1, MarksStay
    <2>2. ASSUME NEW r \in Requests, Ends(r) PROVE \A q \in Requests : Knows(req[q])'
      BY <2>2, IdleKnows, OthersStand, MarksStay
    <2> QED BY <2>1, <2>2
  <1> QED BY <1>1, <1>2, <1>3 DEF AwayInv

LEMMA MarksQuiet ==
    ASSUME MarksInv,
           \/ \E r \in Requests : Reject(r) \/ CancelPending(r) \/ ClearWrite(r)
           \/ \E c \in Teachers : \E ss \in Answers(c) : Decline(c, ss)
           \/ \E l \in Leaves : Apply(l)
           \/ UNCHANGED vars
    PROVE  AwayInv'
  <1> USE DEF MarksInv
  <1>1. gap \in [Lessons -> GapType] /\ status \in [Leaves -> {"none", "PENDING", "APPROVED", "REJECTED", "CANCELLED"}]
    BY DEF LeaveInv, TypeOK
  <1>2. ASSUME NEW r \in Requests, Reject(r) \/ CancelPending(r) PROVE AwayInv'
    <2>1. status[req[r].leave] = "PENDING" BY <1>2 DEF Reject, CancelPending, StillPending
    <2>2. UNCHANGED <<gap, mark>> /\ Ends(r) BY <1>2 DEF Reject, CancelPending
    <2>3. PICK st \in {"REJECTED", "CANCELLED"} : status' = [status EXCEPT ![req[r].leave] = st]
      BY <1>2 DEF Reject, CancelPending
    <2>4. \A l \in Leaves : status'[l] = "APPROVED" <=> status[l] = "APPROVED" BY <1>1, <2>1, <2>3
    <2> QED BY <2>2, <2>4, MarksQuietStep
  <1>3. ASSUME NEW r \in Requests, ClearWrite(r) PROVE AwayInv'
    <2>1. \A s \in Lessons : gap'[s].cover \in {gap[s].cover, Nobody}
      BY <1>1, <1>3 DEF ClearWrite, Hand, GapType
    <2> QED BY <1>3, <2>1, MarksQuietStep DEF ClearWrite
  <1>4. ASSUME NEW c \in Teachers, NEW ss \in Answers(c), Decline(c, ss) PROVE AwayInv'
    <2>1. \A s \in Lessons : gap'[s].cover \in {gap[s].cover, Nobody}
      BY <1>1, <1>4 DEF Decline, Open
    <2> QED BY <1>4, <2>1, MarksQuietStep DEF Decline
  <1>5. ASSUME NEW l \in Leaves, Apply(l) PROVE AwayInv'
    <2>1. \A k \in Leaves : status'[k] = "APPROVED" <=> status[k] = "APPROVED" BY <1>1, <1>5 DEF Apply
    <2> QED BY <1>5, <2>1, MarksQuietStep DEF Apply
  <1>6. CASE UNCHANGED vars BY <1>6, MarksQuietStep DEF vars
  <1> QED BY <1>2, <1>3, <1>4, <1>5, <1>6

LEMMA MarksRoster ==
    ASSUME MarksInv, NEW c \in Teachers, NEW d \in Days, NEW m \in RosterMarks, Roster(c, d, m)
    PROVE  AwayInv'
  <1>1. UNCHANGED <<status, gap, req>> BY DEF Roster
  <1>2. \A e \in Teachers, f \in Days : mark'[e][f] = IF e = c /\ f = d THEN m ELSE mark[e][f]
    BY DEF Roster, MarksInv, LeaveInv, TypeOK
  <1>3. m.by = "roster" /\ m # OnLeave BY DEF RosterMarks, OnLeave
  <1> HIDE DEF Roster
  <1>4. AwayMarked' BY <1>1, <1>2, <1>3, FormOf DEF MarksInv, AwayInv, AwayMarked
  <1>5. MarkedAway' BY <1>1, <1>2, <1>3 DEF MarksInv, AwayInv, MarkedAway
  <1>6. CoverNotAway'
    <2>1. \A s \in Lessons : gap[s].cover \in Teachers \union {Nobody} BY DEF MarksInv, LeaveInv, TypeOK, GapType
    <2> QED BY <1>1, <1>2, <1>3, <2>1, DayOf DEF MarksInv, AwayInv, CoverNotAway, Away
  <1>7. \A q \in Requests : Knows(req[q])'
    <2> SUFFICES ASSUME NEW q \in Requests PROVE Knows(req[q])' OBVIOUS
    <2>1. Knows(req[q]) /\ req[q] \in RequestType /\ WellFormed(req[q])
      BY Typed DEF MarksInv, AwayInv, Fits
    <2>2. SawCovers(req[q])'
      <3> SUFFICES ASSUME req[q].op = "approve", req[q].at = "write" PROVE SawCovers(req[q])'
        BY <1>1 DEF SawCovers
      <3>1. req[q].leave \in Leaves BY <2>1 DEF WellFormed, Deciding
      <3>2. CoversOf(req[q].leave)' = CoversOf(req[q].leave) BY <1>1 DEF CoversOf
      <3> QED BY <1>1, <1>2, <1>3, <2>1, <3>1, <3>2, FormOf DEF Knows, SawCovers
    <2>3. FoundHere(req[q])'
      BY <1>1, <1>2, <1>3, <2>1, DayOf DEF Knows, FoundHere, WellFormed, RequestType
    <2>4. SawDays(req[q])' BY <1>1, <2>1 DEF Knows, SawDays
    <2> QED BY <2>2, <2>3, <2>4 DEF Knows
  <1> QED BY <1>4, <1>5, <1>6, <1>7 DEF AwayInv

\* Giving: whoever was found here is here until the lock on the day ends.
LEMMA MarksGive == ASSUME FullDays, MarksInv, NEW r \in Requests, Give(r) PROVE AwayInv'
  <1> DEFINE c == req[r].teacher
             given == Unchanged(r)
  <1>1. req[r] \in RequestType /\ WellFormed(req[r]) /\ Knows(req[r])
    BY Typed DEF MarksInv, AwayInv, Fits
  <1>2. req[r].op \in Giving /\ req[r].at = "write" BY DEF Give
  <1>3. /\ c \in Teachers
        /\ \A s \in req[r].lessons : Slot[s].day \in req[r].locked /\ mark[c][Slot[s].day] # OnLeave
    BY <1>1, <1>2 DEF WellFormed, Knows, FoundHere
  <1>4. given \subseteq req[r].lessons /\ given \subseteq Lessons BY <1>1 DEF Unchanged, RequestType
  <1>5. Ends(r) /\ UNCHANGED <<status, mark, marks>> BY DEF Give
  <1>6. \A s \in Lessons : gap'[s].cover = IF s \in given THEN c ELSE gap[s].cover
    BY DEF Give, Hand, MarksInv, LeaveInv, TypeOK, GapType
  <1> HIDE DEF given
  <1>7. AwayMarked' /\ MarkedAway' BY <1>5 DEF MarksInv, AwayInv, AwayMarked, MarkedAway
  <1>8. CoverNotAway'
    <2> SUFFICES ASSUME NEW s \in Lessons, gap'[s].cover # Nobody, Away(gap'[s].cover, s)
                 PROVE  mark[gap'[s].cover][Slot[s].day].by = "roster"
      BY <1>5 DEF CoverNotAway, Away
    <2>1. CASE s \in given
      <3>1. PICK l \in Leaves : status[l] = "APPROVED" /\ Form[l].teacher = c /\ Slot[s].day \in Form[l].days
        BY <1>6, <2>1 DEF Away
      <3> QED BY <1>3, <1>4, <1>6, <2>1, <3>1 DEF MarksInv, AwayInv, AwayMarked
    <2>2. CASE s \notin given BY <1>6, <2>2 DEF MarksInv, AwayInv, CoverNotAway
    <2> QED BY <2>1, <2>2
  <1>9. \A q \in Requests : Knows(req[q])'
    <2> SUFFICES ASSUME NEW q \in Requests, q # r PROVE Knows(req[q])' BY <1>5, IdleKnows
    <2>1. req'[q] = req[q] BY <1>5, OthersStand
    <2>2. Knows(req[q]) /\ req[q] \in RequestType /\ WellFormed(req[q])
      BY Typed DEF MarksInv, AwayInv, Fits
    <2>3. SawCovers(req[q])'
      <3> SUFFICES ASSUME req[q].op = "approve", req[q].at = "write" PROVE SawCovers(req[q])'
        BY <2>1 DEF SawCovers
      <3> DEFINE l == req[q].leave
      <3>1. Form[l].days \subseteq req[q].locked BY <2>2 DEF WellFormed
      <3>2. \A s \in given : Slot[s].day \notin Form[l].days
        BY <1>3, <1>4, <3>1 DEF MarksInv, LeaveInv, DaysAlone
      <3>3. CoversOf(l)' \subseteq CoversOf(l) BY <1>6, <2>1, <3>2 DEF CoversOf
      <3> QED BY <1>5, <2>1, <2>2, <3>3 DEF Knows, SawCovers
    <2>4. SawDays(req[q])' /\ FoundHere(req[q])' BY <1>5, <2>1, <2>2 DEF Knows, SawDays, FoundHere
    <2> QED BY <2>3, <2>4 DEF Knows
  <1> QED BY <1>7, <1>8, <1>9 DEF AwayInv

LEMMA MarksApproveWrite == ASSUME FullDays, MarksInv, NEW r \in Requests, ApproveWrite(r) PROVE AwayInv'
  <1> DEFINE l == req[r].leave
             c == Form[l].teacher
             new == req[r].blank \union req[r].dates
  <1>1. req[r].op = "approve" /\ req[r].at = "write" BY DEF ApproveWrite, At
  <1>2. req[r] \in RequestType /\ Fits(req[r]) /\ SawCovers(req[r])
    BY Typed DEF MarksInv, AwayInv, Knows
  <1>3. /\ l \in Leaves /\ status[l] = "PENDING" /\ HasRow(req[r], l)
        /\ Form[l].days \subseteq req[r].locked
    BY <1>1, <1>2 DEF Fits, WellFormed, Believes, HasRow, Deciding, PastRow
  <1>4. /\ c \in Teachers /\ c # Nobody /\ Form[l].days \subseteq Days /\ Form[l].half = "DAY"
    BY <1>3, FormOf, LeaveAssumption DEF FullDays
  <1>5. /\ new \subseteq Form[l].days
        /\ \A d \in Form[l].days \ new : mark[c][d].by = "roster"
        /\ CoversOf(l) \subseteq req[r].lessons
    BY <1>1, <1>2 DEF SawCovers
  <1>6. \A k \in Leaves : status'[k] = IF k = l THEN "APPROVED" ELSE status[k]
    BY <1>3 DEF ApproveWrite, MarksInv, LeaveInv, TypeOK
  <1>7. \A e \in Teachers, d \in Days : mark'[e][d] = IF e = c /\ d \in new THEN OnLeave ELSE mark[e][d]
    BY <1>4 DEF ApproveWrite, MarksInv, LeaveInv, TypeOK
  <1>8. Ends(r) BY DEF ApproveWrite
  <1>9. \A s \in Lessons : gap'[s].cover \in {gap[s].cover, Nobody}
    BY DEF ApproveWrite, MarksInv, LeaveInv, TypeOK, Open
  <1>10. \A s \in CoversOf(l) : gap'[s].cover = Nobody
    BY <1>5 DEF ApproveWrite, CoversOf, Reopened, Open
  <1> HIDE DEF new
  \* Nobody else with a leave of this teacher: the day is not shared.
  <1>11. \A k \in Leaves : k # l /\ Live(k) /\ Form[k].teacher = c => Form[k].days \intersect Form[l].days = {}
    BY <1>3, NoSharedDay DEF MarksInv, Live
  <1>12. AwayMarked'
    <2> SUFFICES ASSUME NEW k \in Leaves, status'[k] = "APPROVED", NEW d \in Form[k].days
                 PROVE  \/ mark'[Form[k].teacher][d] = OnLeave
                        \/ mark'[Form[k].teacher][d].by = "roster"
      BY DEF AwayMarked
    <2>1. CASE k = l BY <2>1, <1>4, <1>5, <1>7
    <2>2. CASE k # l
      <3>1. \/ mark[Form[k].teacher][d] = OnLeave
            \/ mark[Form[k].teacher][d].by = "roster"
        BY <2>2, <1>6 DEF MarksInv, AwayInv, AwayMarked
      <3> QED BY <3>1, <1>7, FormOf
    <2> QED BY <2>1, <2>2
  <1>13. MarkedAway'
    <2> SUFFICES ASSUME NEW e \in Teachers, NEW d \in Days, mark'[e][d] = OnLeave
                 PROVE  \E k \in Leaves : status'[k] = "APPROVED" /\ Form[k].teacher = e /\ d \in Form[k].days
      BY DEF MarkedAway
    <2>1. CASE e = c /\ d \in new BY <2>1, <1>3, <1>5, <1>6
    <2>2. CASE ~(e = c /\ d \in new)
      <3>1. PICK k \in Leaves : status[k] = "APPROVED" /\ Form[k].teacher = e /\ d \in Form[k].days
        BY <2>2, <1>7 DEF MarksInv, AwayInv, MarkedAway
      <3> QED BY <3>1, <1>6
    <2> QED BY <2>1, <2>2
  <1>14. CoverNotAway'
    <2> SUFFICES ASSUME NEW s \in Lessons, gap'[s].cover # Nobody, Away(gap[s].cover, s)'
                 PROVE  mark'[gap'[s].cover][Slot[s].day].by = "roster"
      BY DEF CoverNotAway
    <2>1. gap'[s].cover = gap[s].cover /\ gap[s].cover # Nobody BY <1>9
    <2>2. gap[s].cover \in Teachers BY <2>1 DEF MarksInv, LeaveInv, TypeOK, GapType
    <2>3. PICK k \in Leaves : /\ status'[k] = "APPROVED" /\ Form[k].teacher = gap[s].cover
                              /\ Slot[s].day \in Form[k].days /\ InHalf(k, s)
      BY <2>1 DEF Away
    <2>4. k # l BY <2>1, <2>3, <1>4, <1>10 DEF CoversOf
    <2>5. Away(gap[s].cover, s) /\ status[k] = "APPROVED" BY <2>3, <2>4, <1>6 DEF Away
    <2>6. mark[gap[s].cover][Slot[s].day].by = "roster" BY <2>1, <2>5 DEF MarksInv, AwayInv, CoverNotAway
    <2>7. ~(gap[s].cover = c /\ Slot[s].day \in new) BY <2>3, <2>4, <2>5, <1>5, <1>11 DEF Live
    <2> QED BY <2>1, <2>2, <2>6, <2>7, <1>7, DayOf
  <1>15. \A q \in Requests : Knows(req[q])'
    <2> SUFFICES ASSUME NEW q \in Requests, q # r PROVE Knows(req[q])' BY <1>8, IdleKnows
    <2>1. req'[q] = req[q] BY <1>8, OthersStand
    <2>2. Knows(req[q]) /\ req[q] \in RequestType /\ Fits(req[q]) BY Typed DEF MarksInv, AwayInv
    <2>3. SawCovers(req[q])'
      <3> SUFFICES ASSUME req[q].op = "approve", req[q].at = "write" PROVE SawCovers(req[q])'
        BY <2>1 DEF SawCovers
      <3> DEFINE k == req[q].leave
      <3>1. k \in Leaves /\ status[k] = "PENDING" /\ HasRow(req[q], k)
        BY <2>2 DEF Fits, WellFormed, Believes, HasRow, Deciding, PastRow
      <3>2. k # l BY <1>3, <3>1 DEF MarksInv, LeaveInv, RowAlone
      <3>3. Form[k].teacher # Nobody BY <3>1, FormOf, LeaveAssumption
      <3>4. CoversOf(k)' \subseteq CoversOf(k) BY <1>9, <2>1, <3>3 DEF CoversOf
      <3>5. \A d \in Form[k].days : mark'[Form[k].teacher][d] = mark[Form[k].teacher][d]
        BY <1>5, <1>7, <1>11, <3>1, <3>2, FormOf DEF Live
      <3> QED BY <2>1, <2>2, <3>4, <3>5 DEF Knows, SawCovers
    <2>4. FoundHere(req[q])'
      <3> SUFFICES ASSUME req[q].op \in Giving, req[q].at = "write", NEW s \in req[q].lessons
                   PROVE  mark'[req[q].teacher][Slot[s].day] # OnLeave
        BY <2>1 DEF FoundHere
      <3>1. Slot[s].day \in req[q].locked /\ req[q].teacher \in Teachers /\ s \in Lessons
        BY <2>2 DEF Fits, WellFormed, RequestType
      <3>2. Slot[s].day \notin new BY <1>3, <1>5, <3>1 DEF MarksInv, LeaveInv, DaysAlone
      <3> QED BY <1>7, <2>2, <3>1, <3>2, DayOf DEF Knows, FoundHere
    <2>5. SawDays(req[q])' BY <2>1, <2>2 DEF Knows, SawDays
    <2> QED BY <2>3, <2>4, <2>5 DEF Knows
  <1> QED BY <1>12, <1>13, <1>14, <1>15 DEF AwayInv

LEMMA MarksCancelWrite == ASSUME FullDays, MarksInv, NEW r \in Requests, CancelWrite(r) PROVE AwayInv'
  <1> DEFINE l == req[r].leave
             c == Form[l].teacher
  <1>1. req[r].op = "cancel" /\ req[r].at = "write" BY DEF CancelWrite, At
  <1>2. req[r] \in RequestType /\ Fits(req[r]) /\ SawDays(req[r])
    BY Typed DEF MarksInv, AwayInv, Knows
  <1>3. l \in Leaves /\ status[l] = "APPROVED" /\ HasRow(req[r], l) /\ req[r].dates = Form[l].days
    BY <1>1, <1>2 DEF Fits, WellFormed, Believes, SawDays, HasRow, Deciding, PastRow
  <1>4. c \in Teachers /\ Form[l].days \subseteq Days BY <1>3, FormOf
  <1>5. \A k \in Leaves : status'[k] = IF k = l THEN "CANCELLED" ELSE status[k]
    BY <1>3 DEF CancelWrite, MarksInv, LeaveInv, TypeOK
  <1>6. \A e \in Teachers, d \in Days :
            mark'[e][d] = IF e = c /\ d \in Form[l].days /\ mark[e][d].status = "ON_LEAVE" THEN NoMark ELSE mark[e][d]
    BY <1>3, <1>4 DEF CancelWrite, MarksInv, LeaveInv, TypeOK
  <1>7. Ends(r) BY DEF CancelWrite
  <1>8. \A s \in Lessons : gap'[s].cover \in {gap[s].cover, Nobody}
    BY DEF CancelWrite, NoGap, Open, MarksInv, LeaveInv, TypeOK
  <1>9. \A k \in Leaves : k # l /\ Live(k) /\ Form[k].teacher = c => Form[k].days \intersect Form[l].days = {}
    BY <1>3, NoSharedDay DEF MarksInv, Live
  \* The marks of the days of the other live leaves stay.
  <1>10. \A k \in Leaves : k # l /\ Live(k) =>
             \A d \in Form[k].days : mark'[Form[k].teacher][d] = mark[Form[k].teacher][d]
    BY <1>6, <1>9, FormOf
  <1>11. NoMark # OnLeave /\ OnLeave.status = "ON_LEAVE" BY DEF NoMark, OnLeave
  <1>12. AwayMarked' BY <1>5, <1>10 DEF MarksInv, AwayInv, AwayMarked, Live
  <1>13. MarkedAway'
    <2> SUFFICES ASSUME NEW e \in Teachers, NEW d \in Days, mark'[e][d] = OnLeave
                 PROVE  \E k \in Leaves : status'[k] = "APPROVED" /\ Form[k].teacher = e /\ d \in Form[k].days
      BY DEF MarkedAway
    <2>1. mark[e][d] = OnLeave /\ ~(e = c /\ d \in Form[l].days) BY <1>6, <1>11
    <2>2. PICK k \in Leaves : status[k] = "APPROVED" /\ Form[k].teacher = e /\ d \in Form[k].days
      BY <2>1 DEF MarksInv, AwayInv, MarkedAway
    <2> QED BY <2>1, <2>2, <1>5
  <1>14. CoverNotAway'
    <2> SUFFICES ASSUME NEW s \in Lessons, gap'[s].cover # Nobody, Away(gap[s].cover, s)'
                 PROVE  mark'[gap'[s].cover][Slot[s].day].by = "roster"
      BY DEF CoverNotAway
    <2>1. gap'[s].cover = gap[s].cover BY <1>8
    <2>2. PICK k \in Leaves : /\ status'[k] = "APPROVED" /\ Form[k].teacher = gap[s].cover
                              /\ Slot[s].day \in Form[k].days /\ InHalf(k, s)
      BY <2>1 DEF Away
    <2>3. k # l /\ status[k] = "APPROVED" BY <2>2, <1>5
    <2>4. mark[gap[s].cover][Slot[s].day].by = "roster"
      BY <2>1, <2>2, <2>3 DEF Away, MarksInv, AwayInv, CoverNotAway
    <2> QED BY <2>1, <2>2, <2>3, <2>4, <1>10 DEF Live
  <1>15. \A q \in Requests : Knows(req[q])'
    <2> SUFFICES ASSUME NEW q \in Requests, q # r PROVE Knows(req[q])' BY <1>7, IdleKnows
    <2>1. req'[q] = req[q] BY <1>7, OthersStand
    <2>2. Knows(req[q]) /\ req[q] \in RequestType /\ Fits(req[q]) BY Typed DEF MarksInv, AwayInv
    <2>3. SawCovers(req[q])'
      <3> SUFFICES ASSUME req[q].op = "approve", req[q].at = "write" PROVE SawCovers(req[q])'
        BY <2>1 DEF SawCovers
      <3> DEFINE k == req[q].leave
      <3>1. k \in Leaves /\ status[k] = "PENDING" /\ HasRow(req[q], k)
        BY <2>2 DEF Fits, WellFormed, Believes, HasRow, Deciding, PastRow
      <3>2. k # l BY <1>3, <3>1
      <3>3. Form[k].teacher # Nobody BY <3>1, FormOf, LeaveAssumption
      <3>4. CoversOf(k)' \subseteq CoversOf(k) BY <1>8, <2>1, <3>3 DEF CoversOf
      <3> QED BY <2>1, <2>2, <3>1, <3>2, <3>4, <1>10 DEF Knows, SawCovers, Live
    <2>4. FoundHere(req[q])'
      <3> SUFFICES ASSUME req[q].op \in Giving, req[q].at = "write", NEW s \in req[q].lessons
                   PROVE  mark'[req[q].teacher][Slot[s].day] # OnLeave
        BY <2>1 DEF FoundHere
      <3>1. req[q].teacher \in Teachers /\ s \in Lessons BY <2>2 DEF Fits, WellFormed, RequestType
      <3> QED BY <1>6, <1>11, <2>2, <3>1, DayOf DEF Knows, FoundHere
    <2>5. SawDays(req[q])' BY <2>1, <2>2 DEF Knows, SawDays
    <2> QED BY <2>3, <2>4, <2>5 DEF Knows
  <1> QED BY <1>12, <1>13, <1>14, <1>15 DEF AwayInv

LEMMA MarksStep == ASSUME FullDays PROVE MarksInv /\ [Next]_vars => MarksInv'
  <1> SUFFICES ASSUME MarksInv, [Next]_vars PROVE MarksInv' OBVIOUS
  <1>1. LeaveInv' BY LeaveStep DEF MarksInv
  <1>2. ASSUME NEW r \in Requests, Decisions(r) PROVE AwayInv'
    BY <1>2, MarksPlainStep, MarksQuiet, MarksApproveRead, MarksApproveWrite, MarksCancelRead, MarksCancelWrite
       DEF Decisions
  <1>3. ASSUME NEW r \in Requests, Covers(r) PROVE AwayInv'
    BY <1>3, MarksPlainStep, MarksQuiet, MarksCheckFree, MarksGive DEF Covers
  <1>4. ASSUME NEW r \in Requests, LockDay(r) \/ RollBack(r) PROVE AwayInv' BY <1>4, MarksPlainStep
  <1>5. ASSUME NEW x \in Rostered, NEW m \in RosterMarks, Roster(x[1], x[2], m) PROVE AwayInv'
    BY <1>5, LeaveAssumption, MarksRoster
  <1>6. AwayInv' BY <1>2, <1>3, <1>4, <1>5, MarksQuiet DEF Next
  <1> QED BY <1>1, <1>6 DEF MarksInv

\* Whoever covers a lesson teaches nothing else then and is not on approved leave, unless
\* the roster said otherwise of the day, provided leaves are of whole days
\* (leave.service.ts approve, assign, coverBatch, reopenCoversOf).
THEOREM SubstitutesStayFree == ASSUME FullDays PROVE Spec => []SubstitutesAreFree
  <1>1. MarksInv => SubstitutesAreFree
    BY DEF MarksInv, LeaveInv, AwayInv, CoverNotAway, SubstitutesAreFree
  <1>2. Init => MarksInv BY InitMarks
  <1>3. MarksInv /\ [Next]_vars => MarksInv' BY MarksStep
  <1> QED BY <1>1, <1>2, <1>3, PTL DEF Spec

-----------------------------------------------------------------------------
(* Waiting.  Rows come before days and days in order, so of requests that  *)
(* wait for each other the one that wants the latest day waits for one     *)
(* that wants a later day still.                                           *)

InOrder ==
    \A q \in Requests :
        /\ req[q].at \in {"idle", "row"} => req[q].locked = {}
        /\ req[q].at = "days" => \A e \in req[q].locked : \A d \in DaysToLock(q) : e < d
WaitInv == TypeOK /\ RequestsFit /\ InOrder

LEMMA Greatest ==
    ASSUME NEW S, S \subseteq Nat, S # {}, NEW n \in Nat, \A x \in S : x <= n
    PROVE  \E m \in S : \A x \in S : x <= m
  <1> DEFINE R == OpToRel(<, Nat)
             T == {n - x : x \in S}
  <1>1. IsWellFoundedOn(R, Nat) BY NatLessThanWellFounded
  <1>2. R = {ss \in Nat \X Nat : ss[1] < ss[2]} BY DEF OpToRel
  <1> HIDE DEF R
  <1>3. T \subseteq Nat /\ T # {}
    <2>1. \A x \in S : n - x \in Nat OBVIOUS
    <2>2. PICK x \in S : TRUE OBVIOUS
    <2>3. n - x \in T OBVIOUS
    <2> QED BY <2>1, <2>3
  <1>4. \A x, y \in Nat : x < y => <<x, y>> \in R BY <1>2
  <1>5. PICK t \in T : \A y \in T : ~(<<y, t>> \in R) BY <1>1, <1>3, WFMin
  <1>6. PICK m \in S : t = n - m OBVIOUS
  <1>7. \A x \in S : ~(n - x < n - m) BY <1>3, <1>4, <1>5, <1>6
  <1> HIDE DEF T
  <1>8. ASSUME NEW x \in S PROVE x <= m
    <2>1. n \in Nat /\ m \in Nat /\ x \in Nat OBVIOUS
    <2>2. ~(n - x < n - m) BY <1>7
    <2> QED BY <2>1, <2>2, SMT
  <1> QED BY <1>8

\* A request that holds no day, or has all it needs.
LEMMA OrderKept ==
    ASSUME WaitInv, NEW r \in Requests, NEW t, Becomes(r, t), t.locked = {} \/ t.at \in {"read", "write"}
    PROVE  InOrder'
  <1>1. req'[r] = t /\ \A q \in Requests \ {r} : req'[q] = req[q] BY DEF Becomes, WaitInv, TypeOK
  <1>2. ASSUME NEW q \in Requests, q # r
        PROVE  /\ req'[q].at \in {"idle", "row"} => req'[q].locked = {}
               /\ req'[q].at = "days" => \A e \in req'[q].locked : \A d \in DaysToLock(q)' : e < d
    BY <1>1, <1>2 DEF WaitInv, InOrder, DaysToLock
  <1>3. /\ req'[r].at \in {"idle", "row"} => req'[r].locked = {}
        /\ req'[r].at = "days" => \A e \in req'[r].locked : \A d \in DaysToLock(r)' : e < d
    BY <1>1
  <1> QED BY <1>2, <1>3 DEF InOrder

LEMMA OrderGoes ==
    ASSUME WaitInv, NEW r \in Requests, NEW at \in {"days", "read"}, req[r].at = "row", Goes(r, at)
    PROVE  InOrder'
  <1> DEFINE t == [req[r] EXCEPT !.at = at]
  <1>1. req[r].locked = {} /\ req[r] \in RequestType BY DEF WaitInv, InOrder, TypeOK
  <1>2. t.locked = {} BY <1>1 DEF RequestType
  <1> QED BY <1>2, OrderKept DEF Goes

LEMMA OrderLockDay == ASSUME WaitInv, NEW r \in Requests, LockDay(r) PROVE InOrder'
  <1>1. PICK d \in Days : /\ NextDay(r, d)
                          /\ Becomes(r, [req[r] EXCEPT !.locked = @ \union {d},
                                                !.at = IF DaysToLock(r) = {d} THEN "read" ELSE "days"])
    BY DEF LockDay
  <1> DEFINE at == IF DaysToLock(r) = {d} THEN "read" ELSE "days"
             t == [req[r] EXCEPT !.locked = @ \union {d}, !.at = at]
  <1>2. req[r] \in RequestType /\ req[r].at = "days" BY DEF WaitInv, TypeOK, LockDay
  <1>3. /\ t.op = req[r].op /\ t.leave = req[r].leave /\ t.lessons = req[r].lessons
        /\ t.locked = req[r].locked \union {d} /\ t.at = at
    BY <1>2 DEF RequestType
  <1>4. Becomes(r, t) BY <1>1
  <1>5. CASE DaysToLock(r) = {d} BY <1>3, <1>4, <1>5, OrderKept
  <1>6. CASE DaysToLock(r) # {d}
    <2> HIDE DEF t
    <2>1. req'[r] = t /\ \A q \in Requests \ {r} : req'[q] = req[q] BY <1>4 DEF Becomes, WaitInv, TypeOK
    <2>2. DaysToLock(r)' = DaysToLock(r) \ {d} BY <1>3, <2>1 DEF DaysToLock
    <2>3. \A e \in DaysToLock(r) : e \in Nat
      <3>1. WellFormed(req[r]) /\ req[r].op \in {"approve"} \union Giving
        BY DEF WaitInv, RequestsFit, Fits, LockDay
      <3>2. req[r].op = "approve" => req[r].leave \in Leaves BY <3>1 DEF WellFormed, Deciding
      <3>3. req[r].lessons \subseteq Lessons BY <1>2 DEF RequestType
      <3>4. \A s \in Lessons : Slot[s].day \in Nat BY DayOf, LeaveAssumption
      <3>5. req[r].op = "approve" => Form[req[r].leave].days \subseteq Nat BY <3>2, FormOf, LeaveAssumption
      <3> QED BY <3>3, <3>4, <3>5 DEF DaysToLock
    <2>4. \A e \in t.locked : \A f \in DaysToLock(r) \ {d} : e < f
      <3> SUFFICES ASSUME NEW e \in t.locked, NEW f \in DaysToLock(r) \ {d} PROVE e < f OBVIOUS
      <3>1. CASE e = d BY <3>1, <1>1, <2>3 DEF NextDay
      <3>2. CASE e # d BY <3>2, <1>2, <1>3 DEF WaitInv, InOrder
      <3> QED BY <3>1, <3>2
    <2>5. ASSUME NEW q \in Requests
          PROVE  /\ req'[q].at \in {"idle", "row"} => req'[q].locked = {}
                 /\ req'[q].at = "days" => \A e \in req'[q].locked : \A f \in DaysToLock(q)' : e < f
      <3>1. CASE q = r BY <3>1, <1>3, <1>6, <2>1, <2>2, <2>4
      <3>2. CASE q # r BY <3>2, <2>1 DEF WaitInv, InOrder, DaysToLock
      <3> QED BY <3>1, <3>2
    <2> QED BY <2>5 DEF InOrder
  <1> QED BY <1>5, <1>6

LEMMA OrderStep == ASSUME WaitInv, [Next]_vars PROVE InOrder'
  <1>1. ASSUME NEW r \in Requests, Decisions(r) PROVE InOrder'
    <2>1. req[r] \in RequestType BY DEF WaitInv, TypeOK
    <2>2. CASE Ends(r) BY <2>2, IdleFits, OrderKept DEF Ends
    <2>3. CASE ApproveRow(r) \/ CancelApproved(r)
      BY <2>3, OrderGoes DEF ApproveRow, CancelApproved, At
    <2>4. ASSUME NEW op, NEW l, Becomes(r, [Idle EXCEPT !.op = op, !.at = "row", !.leave = l])
          PROVE  InOrder'
      <3>1. [Idle EXCEPT !.op = op, !.at = "row", !.leave = l].locked = {} BY DEF Idle
      <3> QED BY <2>4, <3>1, OrderKept
    <2>5. ASSUME NEW t, Becomes(r, t), t.at = "write" PROVE InOrder' BY <2>5, OrderKept
    <2>6. CASE ApproveRead(r)
      <3> DEFINE l == req[r].leave
                 marked(st) == {d \in Form[l].days : mark[Form[l].teacher][d].status = st}
                 t == [req[r] EXCEPT !.at = "write", !.lessons = CoversOf(l),
                                     !.blank = marked("none"), !.dates = marked("PRESENT")]
      <3>1. t.at = "write" BY <2>1 DEF RequestType
      <3> QED BY <2>5, <2>6, <3>1 DEF ApproveRead
    <2>7. CASE CancelRead(r)
      <3> DEFINE l == req[r].leave
                 t == [req[r] EXCEPT !.at = "write", !.lessons = GapsOf(l),
                                     !.saw = [s \in Lessons |-> IF s \in GapsOf(l) THEN gap[s].cover ELSE Nobody],
                                     !.dates = Form[l].days \ StillAway(l)]
      <3>1. t.at = "write" BY <2>1 DEF RequestType
      <3> QED BY <2>5, <2>7, <3>1 DEF CancelRead
    <2>8. CASE Reject(r) \/ CancelPending(r) \/ ApproveWrite(r) \/ CancelWrite(r)
      BY <2>2, <2>8 DEF Reject, CancelPending, ApproveWrite, CancelWrite
    <2>9. CASE \E l \in Leaves : Decide(r, l, "approve") \/ Decide(r, l, "reject") \/ Withdraw(r, l)
      BY <2>4, <2>9 DEF Decide, Withdraw
    <2> QED BY <1>1, <2>3, <2>6, <2>7, <2>8, <2>9 DEF Decisions
  <1>2. ASSUME NEW r \in Requests, Covers(r) PROVE InOrder'
    <2>1. req[r] \in RequestType BY DEF WaitInv, TypeOK
    <2>2. CASE Give(r) \/ ClearWrite(r) BY <2>2, IdleFits, OrderKept DEF Give, ClearWrite, Ends
    <2>3. CASE ShareRow(r) BY <2>3, OrderGoes DEF ShareRow
    <2>4. CASE CheckFree(r)
      <3> DEFINE fit == {s \in req[r].lessons : Free(req[r].teacher, s)}
                 open == {s \in fit : gap[s] = Open(req[r].leave)}
                 t == [req[r] EXCEPT !.at = "write", !.lessons = IF req[r].op = "batch" THEN open ELSE fit]
      <3>1. t.at = "write" BY <2>1 DEF RequestType
      <3> QED BY <2>4, <3>1, OrderKept DEF CheckFree
    <2>5. ASSUME NEW s \in Lessons, Clear(r, s) PROVE InOrder'
      <3> DEFINE t == [Idle EXCEPT !.op = "clear", !.at = "write", !.leave = gap[s].leave,
                                   !.lessons = {s}, !.saw[s] = gap[s].cover]
      <3>1. t.locked = {} BY DEF Idle
      <3> QED BY <2>5, <3>1, OrderKept DEF Clear
    <2>6. ASSUME NEW s \in Lessons, NEW c \in Teachers, Assign(r, s, c) PROVE InOrder'
      <3> DEFINE t == [Idle EXCEPT !.op = "assign", !.at = "row", !.leave = gap[s].leave, !.teacher = c,
                                   !.lessons = {s}, !.saw[s] = gap[s].cover]
      <3>1. t.locked = {} BY DEF Idle
      <3> QED BY <2>6, <3>1, OrderKept DEF Assign
    <2>7. ASSUME NEW l \in Leaves, NEW ss \in SUBSET GapsOf(l), NEW c \in Teachers, Batch(r, l, c, ss)
          PROVE  InOrder'
      <3> DEFINE t == [Idle EXCEPT !.op = "batch", !.at = "row", !.leave = l, !.teacher = c, !.lessons = ss]
      <3>1. t.locked = {} BY DEF Idle
      <3> QED BY <2>7, <3>1, OrderKept DEF Batch
    <2> QED BY <1>2, <2>2, <2>3, <2>4, <2>5, <2>6, <2>7 DEF Covers
  <1>3. ASSUME NEW r \in Requests, RollBack(r) PROVE InOrder'
    BY <1>3, IdleFits, OrderKept DEF RollBack, Ends
  <1>4. CASE UNCHANGED req BY <1>4 DEF WaitInv, InOrder, DaysToLock
  <1>5. CASE \/ \E l \in Leaves : Apply(l)
             \/ \E t \in Teachers : \E ss \in Answers(t) : Decline(t, ss)
             \/ \E x \in Rostered, m \in RosterMarks : Roster(x[1], x[2], m)
             \/ UNCHANGED vars
    BY <1>4, <1>5 DEF Apply, Decline, Roster, vars
  <1> QED BY <1>1, <1>2, <1>3, <1>5, OrderLockDay DEF Next

LEMMA NoCircle ==
    ASSUME WaitInv, NEW n \in Nat, \A d \in Days : d <= n
    PROVE  NobodyWaitsInACircle
  <1> SUFFICES ASSUME NEW rs \in SUBSET Requests, rs # {}, \A r \in rs : Holders(r) \intersect rs # {}
               PROVE  FALSE
    BY DEF NobodyWaitsInACircle
  <1>1. \A r \in rs : req[r].at \in {"row", "days"} BY DEF Holders
  <1> DEFINE Waits(d) == \E r \in rs : req[r].at = "days" /\ NextDay(r, d)
             wanted == {d \in Days : Waits(d)}
  \* Whoever waits for a day waits for one that waits for a later day.
  <1>2. ASSUME NEW r \in rs, req[r].at = "days"
        PROVE  \E d \in wanted : NextDay(r, d) /\ \E e \in wanted : d < e
    <2>1. PICK d \in Days : NextDay(r, d) /\ DayHolders(r, d) \intersect rs # {} BY <1>2 DEF Holders
    <2>2. PICK h \in rs : d \in req[h].locked BY <2>1 DEF DayHolders
    <2>3. req[h].at = "days" BY <1>1, <2>2 DEF WaitInv, InOrder
    <2>4. PICK e \in Days : NextDay(h, e) BY <2>3 DEF Holders
    <2>5. d < e BY <2>2, <2>3, <2>4 DEF WaitInv, InOrder, NextDay
    <2> QED BY <1>2, <2>1, <2>3, <2>4, <2>5
  <1>3. wanted # {}
    <2>1. PICK r \in rs : TRUE OBVIOUS
    <2>2. CASE req[r].at = "days" BY <1>2, <2>2
    <2>3. CASE req[r].at = "row"
      <3>1. PICK h \in rs : h \in RowHolders(r) BY <2>3 DEF Holders
      <3>2. req[h].at = "days" BY <1>1, <3>1 DEF RowHolders, HasRow, SharesRow, PastRow
      <3> QED BY <1>2, <3>2
    <2> QED BY <1>1, <2>2, <2>3
  <1>4. wanted \subseteq Nat /\ \A d \in wanted : d <= n BY LeaveAssumption
  <1> HIDE DEF wanted
  <1>5. PICK m \in wanted : \A d \in wanted : d <= m BY <1>3, <1>4, Greatest
  <1>6. PICK r \in rs : req[r].at = "days" /\ NextDay(r, m) BY DEF wanted
  <1>7. PICK d \in wanted : NextDay(r, d) /\ \E e \in wanted : d < e BY <1>2, <1>6
  <1>8. d = m BY <1>4, <1>6, <1>7 DEF NextDay
  <1> QED BY <1>4, <1>5, <1>7, <1>8

\* Requests that lock rows and days never wait for each other in a circle, if the days
\* that leaves and lessons are on have a last one (the sorted cover: locks).
THEOREM NoCircleOfWaits ==
    ASSUME NEW n \in Nat, \A d \in Days : d <= n
    PROVE  Spec => []NobodyWaitsInACircle
  <1>1. Init => InOrder BY IdleFits DEF Init, InOrder
  <1>2. LeaveInv /\ InOrder /\ [Next]_vars => InOrder' BY OrderStep DEF WaitInv, LeaveInv
  <1>3. LeaveInv /\ InOrder => NobodyWaitsInACircle BY NoCircle DEF WaitInv, LeaveInv
  <1> QED BY <1>1, <1>2, <1>3, LocksOfLeaveHold, PTL DEF Spec
====
