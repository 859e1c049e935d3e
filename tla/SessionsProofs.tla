---- MODULE SessionsProofs ----
(***************************************************************************)
(* What the claim of a plan guarantees, for any number of people in the    *)
(* office and of crons, and what the review guarantees when one person     *)
(* works at the year end.                                                  *)
(*                                                                         *)
(* The argument: whoever has claimed a plan is alone with its row, and     *)
(* every other write of that row waits, so the plan it applies is open and *)
(* has the decisions it has read.  A plan that was over is open only where *)
(* a late schedule was written on it.  That what is applied are the        *)
(* decisions of the review, and stays what the register shows, needs more: *)
(* the edits look at the plan before they write it by id, and only a       *)
(* person whose own request is under way is sure that nobody else has      *)
(* scheduled or started it in between.                                     *)
(***************************************************************************)
EXTENDS Sessions, TLAPS

Edits == {"update", "decide", "defaults"}
Applies == {"start", "cron"}
PlanOps == Edits \union Applies \union {"schedule", "cancel"}
Held == {"claimed", "writing"}

RequestType ==
    [op : {"none", "create", "update", "decide", "defaults", "schedule",
           "start", "cron", "cancel", "leave"},
     at : {"idle", "found", "read", "claimed", "writing"},
     plan : Plans \union {NoPlan}, year : Years \union {NoYear},
     child : Children \union {NoChild}, rows : Rows]

\* Whose request r may be, which plan it is about, and what a claim is worth.
Fits(q, r) ==
    /\ r.op \in PlanOps => r.plan \in Plans /\ plan[r.plan].status # "none"
    /\ r.at \in {"found"} \union Held => r.op \in Applies
    /\ r.op \notin {"none", "cron"} => q \in Office
    /\ r.op = "cron" => q \in Crons /\ plan[r.plan].status # "DRAFT"
    /\ r.at \in Held => Open(r.plan)
    /\ r.at = "writing" =>
         \A s \in Children : r.rows[s] # "none" => r.rows[s] = decided[r.plan][s]
RequestsFit == \A q \in Requests : Fits(q, req[q])

\* Two requests never hold one plan.
PlanAlone == \A q, r \in Requests :
    req[q].at \in Held /\ req[r].at \in Held /\ req[q].plan = req[r].plan => q = r

YearsGiven == \A p \in Plans : plan[p].status # "none" => plan[p].to \in Years

\* A page tells an earlier version of its plan, or all of the plan as it is.
PagesFit == \A u \in Office : page[u].plan \in Plans =>
    LET p == page[u].plan IN
    /\ plan[p].status # "none"
    /\ page[u].version <= plan[p].version
    /\ page[u].version = plan[p].version => page[u].decided = decided[p]

\* A plan that was over and is open was reopened.
OverStays == \A p \in over : plan[p].status # "none" /\ (Open(p) => p \in reopened)

\* Start writes rows of children there are.
Known(r) == r.at = "writing" => \A s \in Children : r.rows[s] # "none" => child[s].status # "none"
RowsKnown == \A q \in Requests : Known(req[q])

ClaimInv == /\ TypeOK /\ RequestsFit /\ PlanAlone /\ YearsGiven /\ PagesFit
            /\ OverStays /\ RowsKnown /\ AppliedOnce

\* Who has passed the gate of the review.
Gated(r) == \/ r.op = "schedule"
            \/ r.op = "start" /\ r.at # "found"
\* What a request has seen of its plan still holds.
Timely(q, r) ==
    /\ r.op \in Edits => plan[r.plan].status = "DRAFT"
    /\ Gated(r) /\ page[q].plan = r.plan => page[q].version = plan[r.plan].version

-----------------------------------------------------------------------------
(* Steps that move one request and write nothing else.                     *)

Moves(q, r) ==
    /\ r \in RequestType /\ Fits(q, r) /\ Known(r)
    /\ Timely(q, req[q]) => Timely(q, r)
    /\ r.at \in Held => RowFree(r.plan) \/ (req[q].at \in Held /\ req[q].plan = r.plan)
    /\ req' = [req EXCEPT ![q] = r]
    /\ fails' \in 0..MaxFails
    /\ UNCHANGED <<plan, decided, receipt, school, page, history>>

LEMMA UndecidedRow == Undecided \in Rows
  BY DEF Undecided, Rows

LEMMA IdleFits ==
    ASSUME NEW q
    PROVE  Idle \in RequestType /\ Fits(q, Idle) /\ Known(Idle) /\ Timely(q, Idle) /\ Idle.at \notin Held
           /\ Idle.op = "none" /\ Idle.at = "idle"
  BY UndecidedRow DEF Idle, RequestType, Fits, Known, Timely, Gated, PlanOps, Edits, Applies, Held

LEMMA EndMoves ==
    ASSUME NEW q \in Requests, Ends(q), fails' \in 0..MaxFails,
           UNCHANGED <<plan, decided, receipt, school, page, history>>
    PROVE  Moves(q, Idle)
  BY IdleFits DEF Moves, Ends

LEMMA BeginMoves ==
    ASSUME ClaimInv, NEW u \in Office, NEW op \in {"create", "update", "decide", "defaults",
                                                   "schedule", "cancel", "leave"},
           NEW request \in RequestType, Begins(u, op, request),
           op \in PlanOps => request.plan \in Plans /\ plan[request.plan].status # "none",
           op \in Edits => plan[request.plan].status = "DRAFT",
           op = "schedule" => VersionFits(u, request.plan),
           UNCHANGED <<plan, decided, receipt, school, page, fails, history>>
    PROVE  \E r \in RequestType : Moves(u, r)
  <1> DEFINE r == [request EXCEPT !.op = op, !.at = "read"]
  <1>1. r \in RequestType /\ r.op = op /\ r.at = "read" /\ r.plan = request.plan
    BY DEF RequestType
  <1>2. req' = [req EXCEPT ![u] = r] /\ u \in Requests BY DEF Begins, Requests
  <1> HIDE DEF r
  <1>3. Fits(u, r) /\ Known(r) BY <1>1 DEF Fits, Known, Applies, Held
  <1>4. Timely(u, r) BY <1>1 DEF Timely, Gated, VersionFits
  <1>5. fails' \in 0..MaxFails BY DEF ClaimInv, TypeOK
  <1> QED BY <1>1, <1>2, <1>3, <1>4, <1>5 DEF Moves, Held

LEMMA FindMoves ==
    ASSUME ClaimInv, NEW q \in Requests, NEW op \in Applies, NEW p \in Plans, Finds(q, op, p),
           plan[p].status # "none", op = "start" => q \in Office,
           op = "cron" => q \in Crons /\ plan[p].status # "DRAFT"
    PROVE  \E r \in RequestType : Moves(q, r)
  <1> DEFINE r == [Idle EXCEPT !.op = op, !.at = "found", !.plan = p]
  <1>1. r \in RequestType /\ r.op = op /\ r.at = "found" /\ r.plan = p
    BY IdleFits DEF RequestType, Applies
  <1>2. req' = [req EXCEPT ![q] = r] /\ UNCHANGED <<plan, decided, receipt, school, page, fails, history>>
    BY DEF Finds
  <1> HIDE DEF r
  <1>3. Fits(q, r) /\ Known(r) BY <1>1 DEF Fits, Known, Applies, Held
  <1>4. Timely(q, r) BY <1>1 DEF Timely, Gated, Edits, Applies
  <1>5. fails' \in 0..MaxFails BY <1>2 DEF ClaimInv, TypeOK
  <1> QED BY <1>1, <1>2, <1>3, <1>4, <1>5 DEF Moves, Held

\* An apply goes on about the plan it was for.
LEMMA GoMoves ==
    ASSUME ClaimInv, NEW q \in Requests, req[q].op \in Applies, NEW at \in {"read"} \union Held,
           NEW r \in RequestType,
           r.op = req[q].op, r.at = at, r.plan = req[q].plan,
           req' = [req EXCEPT ![q] = r],
           at \in Held => Open(r.plan) /\ (RowFree(r.plan) \/ req[q].at \in Held),
           at = "writing" => \A s \in Children : r.rows[s] # "none" =>
                                r.rows[s] = decided[r.plan][s] /\ child[s].status # "none",
           req[q].at = "found" /\ req[q].op = "start" => VersionFits(q, r.plan),
           UNCHANGED <<plan, decided, receipt, school, page, fails, history>>
    PROVE  Moves(q, r)
  <1>1. Fits(q, req[q]) BY DEF ClaimInv, RequestsFit
  <1>2. Fits(q, r) /\ Known(r) BY <1>1 DEF Fits, Known, Held
  <1>3. Timely(q, req[q]) => Timely(q, r) BY DEF Timely, Gated, VersionFits, Edits, Applies
  <1>4. fails' \in 0..MaxFails BY DEF ClaimInv, TypeOK
  <1> QED BY <1>2, <1>3, <1>4 DEF Moves

-----------------------------------------------------------------------------
(* Every action is such a move, or one of the few that write.              *)

LEMMA ComeMoves ==
    ASSUME ClaimInv, NEW u \in Office, Comes(u), ~Review(u)
    PROVE  \E r \in RequestType : Moves(u, r)
  <1> USE DEF PlanOps, Edits
  <1>0. Idle \in RequestType BY IdleFits
  <1>1. CASE CreateRead(u)
    <2>1. PICK y \in current : Begins(u, "create", [Idle EXCEPT !.year = y]) BY <1>1 DEF CreateRead
    <2>2. [Idle EXCEPT !.year = y] \in RequestType BY <1>0, <2>1 DEF RequestType, ClaimInv, TypeOK
    <2> QED BY <1>1, <2>1, <2>2, BeginMoves DEF CreateRead, Applies
  <1>2. ASSUME NEW op \in Edits, NEW p \in Plans, NEW rows \in Rows, EditRead(u, op, p, rows)
        PROVE  \E r \in RequestType : Moves(u, r)
    <2> DEFINE r == [Idle EXCEPT !.plan = p, !.rows = rows]
    <2>1. r \in RequestType /\ r.plan = p BY <1>0 DEF RequestType
    <2>2. Begins(u, op, r) BY <1>2 DEF EditRead
    <2> HIDE DEF r
    <2> QED BY <1>2, <2>1, <2>2, BeginMoves DEF EditRead, Editable, Applies
  <1>3. CASE UpdatePlan(u) BY <1>2, <1>3, UndecidedRow DEF UpdatePlan
  <1>4. CASE UpsertDecisions(u)
    <2>1. PICK p \in Plans, s \in Children, c \in Choices :
             EditRead(u, "decide", p, [Undecided EXCEPT ![s] = c])
      BY <1>4 DEF UpsertDecisions, Choices, In
    <2>2. [Undecided EXCEPT ![s] = c] \in Rows BY DEF Undecided, Rows
    <2> QED BY <1>2, <2>1, <2>2
  <1>5. CASE ApplyDefaults(u)
    <2>1. PICK p \in Plans, map \in [Classes -> Choices \union {"none"}] :
             EditRead(u, "defaults", p, [s \in Children |->
                 IF s \in Roll(p) /\ decided[p][s] = "none" THEN map[child[s].class] ELSE "none"])
      BY <1>5 DEF ApplyDefaults, Choices, In
    <2>2. [s \in Children |->
              IF s \in Roll(p) /\ decided[p][s] = "none" THEN map[child[s].class] ELSE "none"] \in Rows
      BY DEF Rows, Roll, In
    <2> QED BY <1>2, <2>1, <2>2
  <1>6. ASSUME NEW p \in Plans
        PROVE  [Idle EXCEPT !.plan = p] \in RequestType /\ [Idle EXCEPT !.plan = p].plan = p
    BY <1>0 DEF RequestType
  <1>7. CASE CancelRead(u)
    <2>1. PICK p \in Plans : Open(p) /\ Begins(u, "cancel", [Idle EXCEPT !.plan = p]) BY <1>7 DEF CancelRead
    <2> QED BY <1>6, <1>7, <2>1, BeginMoves DEF CancelRead, Open, Applies
  <1>8. CASE ScheduleGate(u)
    <2>1. PICK p \in Plans : /\ Open(p) /\ VersionFits(u, p)
                             /\ Begins(u, "schedule", [Idle EXCEPT !.plan = p])
      BY <1>8 DEF ScheduleGate
    <2> QED BY <1>6, <1>8, <2>1, BeginMoves DEF ScheduleGate, Open, Applies
  <1>9. CASE StartNow(u)
    <2>1. PICK p \in Plans : Open(p) /\ Finds(u, "start", p) BY <1>9 DEF StartNow
    <2> QED BY <2>1, FindMoves DEF Open, Applies, Requests
  <1>10. CASE LeaveRead(u)
    <2>1. PICK s \in Children : Begins(u, "leave", [Idle EXCEPT !.child = s]) BY <1>10 DEF LeaveRead
    <2>2. [Idle EXCEPT !.child = s] \in RequestType BY <1>0 DEF RequestType
    <2> QED BY <1>10, <2>1, <2>2, BeginMoves DEF LeaveRead, Applies
  <1> QED BY <1>1, <1>3, <1>4, <1>5, <1>7, <1>8, <1>9, <1>10 DEF Comes

LEMMA ApplyMoves ==
    ASSUME ClaimInv, NEW q \in Requests, ApplyRead(q) \/ Claim(q) \/ ReadRoll(q) \/ NoSeat(q)
    PROVE  \E r \in RequestType : Moves(q, r)
  <1> DEFINE p == req[q].plan
  <1>1. req[q] \in RequestType /\ Fits(q, req[q]) /\ fails \in 0..MaxFails
    BY DEF ClaimInv, RequestsFit, TypeOK, RequestType
  <1>2. UNCHANGED <<plan, decided, receipt, school, page, fails, history>>
    BY DEF ApplyRead, Claim, ReadRoll, NoSeat
  <1>3. req[q].op \in Applies BY <1>1 DEF ApplyRead, Claim, ReadRoll, NoSeat, At, Fits, Held, Applies
  <1>4. CASE Ends(q) BY <1>1, <1>2, <1>4, IdleFits, EndMoves
  <1>5. ASSUME NEW at \in {"read"} \union Held, Goes(q, at),
               at \in Held => Open(p) /\ (RowFree(p) \/ req[q].at \in Held), at # "writing",
               req[q].at = "found" /\ req[q].op = "start" => VersionFits(q, p)
        PROVE  \E r \in RequestType : Moves(q, r)
    <2> DEFINE r == [req[q] EXCEPT !.at = at]
    <2>1. r \in RequestType /\ r.op = req[q].op /\ r.at = at /\ r.plan = p BY <1>1, <1>5 DEF RequestType, Held
    <2>2. req' = [req EXCEPT ![q] = r] BY <1>5 DEF Goes
    <2> HIDE DEF r
    <2> QED BY <1>2, <1>3, <1>5, <2>1, <2>2, GoMoves
  <1>6. CASE ApplyRead(q) BY <1>4, <1>5, <1>6 DEF ApplyRead, Held, Applies
  <1>7. CASE Claim(q) BY <1>4, <1>5, <1>7 DEF Claim, At, Claimable, Held
  <1>8. CASE ReadRoll(q)
    <2> DEFINE rows == [s \in Children |-> IF s \in Roll(p) THEN decided[p][s] ELSE "none"]
               r == [req[q] EXCEPT !.at = "writing", !.rows = rows]
    <2>1. p \in Plans /\ Open(p) BY <1>1, <1>3, <1>8 DEF ReadRoll, Fits, Held, PlanOps
    <2>2. rows \in Rows BY <2>1 DEF Rows, ClaimInv, TypeOK
    <2>3. r \in RequestType /\ r.op = req[q].op /\ r.at = "writing" /\ r.plan = p /\ r.rows = rows
      BY <1>1, <2>2 DEF RequestType
    <2>4. CASE ~Ends(q)
      <3>1. req' = [req EXCEPT ![q] = r] BY <1>8, <2>4 DEF ReadRoll
      <3>2. \A s \in Children : rows[s] # "none" => rows[s] = decided[p][s] /\ child[s].status # "none"
        BY DEF Roll
      <3>3. req[q].at \in Held /\ "writing" \in Held BY <1>8 DEF ReadRoll, Held
      <3> HIDE DEF r, rows
      <3>4. req[q].at # "found" BY <1>8 DEF ReadRoll
      <3> QED BY <1>2, <1>3, <2>1, <2>3, <3>1, <3>2, <3>3, <3>4, GoMoves
    <2> QED BY <1>4, <2>4
  <1>9. CASE NoSeat(q) BY <1>4, <1>9 DEF NoSeat
  <1> QED BY <1>6, <1>7, <1>8, <1>9

\* Who writes.
WriteStep ==
          \/ \E u \in Requests : Create(u) \/ Save(u) \/ Cancel(u) \/ Schedule(u) \/ Leave(u) \/ Apply(u)
          \/ \E u \in Office : Review(u)
          \/ \E s \in Children : Admit(s)
          \/ \E c \in Classes : MoveClass(c) \/ RemoveClass(c)

LEMMA MoveOrWrite ==
    ASSUME ClaimInv, [Next]_vars
    PROVE  WriteStep \/ UNCHANGED vars \/ \E q \in Requests : \E r \in RequestType : Moves(q, r)
  <1>1. ASSUME NEW u \in Office, Comes(u) PROVE WriteStep \/ \E r \in RequestType : Moves(u, r)
    BY <1>1, ComeMoves DEF WriteStep
  <1>2. ASSUME NEW c \in Crons, StartDue(c) PROVE \E r \in RequestType : Moves(c, r)
    <2>1. PICK p \in Plans : plan[p].status = "SCHEDULED" /\ Finds(c, "cron", p) BY <1>2 DEF StartDue
    <2> QED BY <2>1, FindMoves DEF Applies, Requests
  <1>3. ASSUME NEW q \in Requests, Progress(q) PROVE WriteStep \/ \E r \in RequestType : Moves(q, r)
    BY <1>3, ApplyMoves DEF Progress, WriteStep
  <1>4. ASSUME NEW q \in Requests, Fail(q) PROVE \E r \in RequestType : Moves(q, r)
    <2>1. fails' \in 0..MaxFails BY <1>4, SessionsAssumption DEF Fail, ClaimInv, TypeOK
    <2> QED BY <1>4, <2>1, IdleFits, EndMoves DEF Fail
  <1>5. Office \subseteq Requests /\ Crons \subseteq Requests BY DEF Requests
  <1> QED BY <1>1, <1>2, <1>3, <1>4, <1>5 DEF Next, WriteStep

-----------------------------------------------------------------------------
(* The claim.                                                              *)

LEMMA PlanOf ==
    ASSUME ClaimInv, NEW q \in Requests
    PROVE  /\ req[q] \in RequestType /\ Fits(q, req[q])
           /\ req[q].op \in PlanOps => req[q].plan \in Plans
           /\ req[q].at \in Held =>
                /\ req[q].op \in Applies /\ req[q].plan \in Plans /\ Open(req[q].plan)
                /\ plan[req[q].plan].to \in Years
  BY DEF ClaimInv, TypeOK, RequestsFit, RequestType, Fits, PlanOps, YearsGiven, Open

LEMMA SavedRow ==
    ASSUME ClaimInv, NEW p \in Plans, NEW op, NEW rows \in Rows
    PROVE  Saved(p, op, rows) \in Rows
  BY DEF Saved, Rows, ClaimInv, TypeOK

LEMMA PlanTyped ==
    ASSUME ClaimInv, NEW p \in Plans
    PROVE  /\ plan[p].status \in Statuses /\ plan[p].from \in Years \union {NoYear}
           /\ plan[p].to \in Years \union {NoYear} /\ plan[p].version \in 0..MaxVersion
           /\ \A st \in Statuses : [plan[p] EXCEPT !.status = st] \in
                 [status : Statuses, from : Years \union {NoYear}, to : Years \union {NoYear},
                  version : 0..MaxVersion]
  BY DEF ClaimInv, TypeOK

LEMMA TypesKept ==
    ASSUME ClaimInv, [Next]_vars
    PROVE  TypeOK'
  <1> USE DEF ClaimInv
  <1> DEFINE PlanRow == [status : Statuses, from : Years \union {NoYear},
                         to : Years \union {NoYear}, version : 0..MaxVersion]
             ChildRow == [status : {"none", "ACTIVE", "ALUMNI", "LEFT"}, class : Classes \union {NoClass}]
             Sections == [Classes -> Years \union {Unbuilt, Removed}]
  <1>0. /\ plan \in [Plans -> PlanRow] /\ child \in [Children -> ChildRow]
        /\ req \in [Requests -> RequestType] /\ decided \in [Plans -> Rows] /\ done \in [Plans -> Rows]
        /\ receipt \in [Plans -> SUBSET Children] /\ section \in Sections
        /\ current \subseteq Years /\ page \in [Office -> Pages] /\ approved \in [Plans -> Pages]
        /\ fails \in 0..MaxFails /\ moves \in 0..MaxMoves /\ surprised \in BOOLEAN
        /\ over \subseteq Plans /\ reopened \subseteq Plans /\ again \subseteq Plans
    BY DEF TypeOK, RequestType
  <1>a. Idle \in RequestType BY IdleFits
  <1>1. ASSUME NEW q \in Requests, NEW r \in RequestType, Moves(q, r) PROVE TypeOK'
    <2>1. req' \in [Requests -> RequestType] BY <1>0, <1>1 DEF Moves
    <2> QED BY <1>0, <1>1, <2>1 DEF Moves, school, history, TypeOK, RequestType
  <1>2. CASE UNCHANGED vars BY <1>2 DEF vars, school, history, TypeOK
  <1>3. ASSUME NEW u \in Requests, Ends(u) PROVE req' \in [Requests -> RequestType]
    BY <1>0, <1>a, <1>3 DEF Ends
  <1>4. ASSUME NEW u \in Requests, Create(u) PROVE TypeOK'
    <2>1. PICK p \in Plans, y \in Years :
             plan' = [plan EXCEPT ![p] = [status |-> "DRAFT", from |-> req[u].year, to |-> y, version |-> 1]]
      BY <1>4 DEF Create
    <2>2. [status |-> "DRAFT", from |-> req[u].year, to |-> y, version |-> 1] \in PlanRow
      BY PlanOf, SessionsAssumption DEF RequestType, Statuses
    <2>3. plan' \in [Plans -> PlanRow] BY <1>0, <2>1, <2>2
    <2> QED BY <1>0, <1>3, <1>4, <2>3 DEF Create, school, history, TypeOK, RequestType
  <1>5. ASSUME NEW u \in Requests, Save(u) PROVE TypeOK'
    <2> DEFINE p == req[u].plan
    <2>1. p \in Plans /\ req[u].rows \in Rows BY <1>5, PlanOf DEF Save, At, PlanOps, Edits, RequestType
    <2>2. decided' \in [Plans -> Rows] BY <1>0, <1>5, <2>1, SavedRow DEF Save
    <2>3. plan[p].version + 1 \in 0..MaxVersion BY <1>0, <1>5, <2>1, SessionsAssumption DEF Save
    <2>4. [plan[p] EXCEPT !.version = plan[p].version + 1] \in PlanRow
      <3>1. ASSUME NEW row \in PlanRow, NEW v \in 0..MaxVersion PROVE [row EXCEPT !.version = v] \in PlanRow
        OBVIOUS
      <3>2. plan[p] \in PlanRow BY <1>0, <2>1
      <3> HIDE DEF PlanRow
      <3> QED BY <2>3, <3>1, <3>2
    <2>5. plan' = [plan EXCEPT ![p] = [plan[p] EXCEPT !.version = plan[p].version + 1]]
      BY <1>0, <1>5, <2>1 DEF Save
    <2>6. plan' \in [Plans -> PlanRow] BY <1>0, <2>4, <2>5
    <2>7. section' \in Sections
      <3>1. plan[p].to \in Years
        BY <1>5, <2>1, PlanOf DEF Save, At, Fits, PlanOps, Edits, YearsGiven
      <3>2. Built(req[u].op, plan[p].to) \subseteq Sections BY <1>0, <3>1 DEF Built
      <3> QED BY <1>5, <3>2 DEF Save
    <2> QED BY <1>0, <1>3, <1>5, <2>2, <2>6, <2>7 DEF Save, history, TypeOK, RequestType
  <1>6. ASSUME NEW u \in Requests, NEW st \in Statuses, req[u].op \in PlanOps,
               plan' = [plan EXCEPT ![req[u].plan].status = st]
        PROVE  plan' \in [Plans -> PlanRow]
    BY <1>0, <1>6, PlanOf, PlanTyped
  <1>7. ASSUME NEW u \in Requests, Cancel(u) PROVE TypeOK'
    <2>1. plan' \in [Plans -> PlanRow] BY <1>6, <1>7 DEF Cancel, At, PlanOps, Statuses
    <2>2. over' \subseteq Plans BY <1>0, <1>7, PlanOf DEF Cancel, At, PlanOps
    <2> QED BY <1>0, <1>3, <1>7, <2>1, <2>2 DEF Cancel, school, history, TypeOK, RequestType
  <1>8. ASSUME NEW u \in Requests, Schedule(u) PROVE TypeOK'
    <2>1. plan' \in [Plans -> PlanRow] BY <1>6, <1>8 DEF Schedule, At, PlanOps, Statuses
    <2>2. u \in Office BY <1>8, PlanOf DEF Schedule, At, Fits
    <2>3. approved' \in [Plans -> Pages] BY <1>0, <1>8, <2>2 DEF Schedule
    <2>4. reopened' \subseteq Plans BY <1>0, <1>8 DEF Schedule
    <2> QED BY <1>0, <1>3, <1>8, <2>1, <2>3, <2>4 DEF Schedule, school, history, TypeOK, RequestType
  <1>9. ASSUME NEW u \in Requests, Leave(u) PROVE TypeOK'
    <2>1. child' \in [Children -> ChildRow] BY <1>0, <1>9 DEF Leave
    <2> QED BY <1>0, <1>3, <1>9, <2>1 DEF Leave, history, TypeOK, RequestType
  <1>10. ASSUME NEW u \in Requests, Apply(u) PROVE TypeOK'
    <2> DEFINE p == req[u].plan
    <2>1. req[u].op \in PlanOps /\ p \in Plans /\ plan[p].to \in Years /\ req[u].rows \in Rows
      BY <1>10, PlanOf DEF Apply, Held, PlanOps, RequestType
    <2>2. plan' \in [Plans -> PlanRow] BY <1>6, <1>10, <2>1 DEF Apply, Statuses
    <2>3. ASSUME NEW s \in Children PROVE Moved(s, req[u].rows[s]) \in ChildRow
      BY <1>0, <2>1 DEF Moved
    <2>4. child' \in [Children -> ChildRow] BY <1>0, <1>10, <2>3 DEF Apply
    <2>5. current' \subseteq Years BY <1>0, <1>10, <2>1 DEF Apply, Flipped
    <2>6. /\ over' \subseteq Plans /\ again' \subseteq Plans
          /\ receipt' \in [Plans -> SUBSET Children]
      BY <1>0, <1>10, <2>1 DEF Apply
    <2>7. [s \in Children |-> IF Writes(s, req[u].rows[s]) THEN req[u].rows[s] ELSE done[p][s]] \in Rows
      BY <1>0, <2>1 DEF Rows
    <2>8. done' \in [Plans -> Rows] BY <1>0, <1>10, <2>1, <2>7 DEF Apply
    <2>9. surprised' \in BOOLEAN BY <1>10 DEF Apply
    <2> QED BY <1>0, <1>3, <1>10, <2>2, <2>4, <2>5, <2>6, <2>8, <2>9
          DEF Apply, history, TypeOK, RequestType
  <1>11. ASSUME NEW u \in Office, Review(u) PROVE TypeOK'
    <2>1. PICK p \in Plans :
             page' = [page EXCEPT ![u] = [plan |-> p, version |-> plan[p].version, decided |-> decided[p]]]
      BY <1>11 DEF Review
    <2>2. [plan |-> p, version |-> plan[p].version, decided |-> decided[p]] \in Pages BY <1>0 DEF Pages
    <2>3. page' \in [Office -> Pages] BY <1>0, <2>1, <2>2
    <2> QED BY <1>0, <1>11, <2>3 DEF Review, school, history, TypeOK, RequestType
  <1>12. ASSUME NEW s \in Children, Admit(s) PROVE TypeOK'
    <2>1. PICK c \in Classes : child' = [child EXCEPT ![s] = [status |-> "ACTIVE", class |-> c]]
      BY <1>12 DEF Admit
    <2>2. child' \in [Children -> ChildRow] BY <1>0, <2>1
    <2> QED BY <1>0, <1>12, <2>2 DEF Admit, history, TypeOK, RequestType
  <1>13. ASSUME NEW c \in Classes, MoveClass(c) \/ RemoveClass(c) PROVE TypeOK'
    <2>1. section' \in Sections /\ child' \in [Children -> ChildRow] BY <1>0, <1>13 DEF MoveClass, RemoveClass
    <2>2. moves' \in 0..MaxMoves BY <1>0, <1>13, SessionsAssumption DEF MoveClass, RemoveClass
    <2> QED BY <1>0, <1>13, <2>1, <2>2 DEF MoveClass, RemoveClass, history, TypeOK, RequestType
  <1> QED BY <1>1, <1>2, <1>4, <1>5, <1>7, <1>8, <1>9, <1>10, <1>11, <1>12, <1>13,
         MoveOrWrite DEF WriteStep

\* A write of one plan's row, while nobody else has the plan.
WritesPlan(u, p) ==
    /\ \A o \in Plans \ {p} : plan'[o] = plan[o] /\ decided'[o] = decided[o]
    /\ plan'[p].status # "none"
    /\ plan'[p].status = "DRAFT" => plan[p].status \in {"none", "DRAFT"}
    /\ \A q \in Requests \ {u} : req[q].at \in Held => req[q].plan # p
    /\ Ends(u)

LEMMA WriteKeepsClaims ==
    ASSUME ClaimInv, NEW u \in Requests, NEW p \in Plans, WritesPlan(u, p)
    PROVE  RequestsFit' /\ PlanAlone'
  <1>1. ASSUME NEW q \in Requests
        PROVE  req'[q] = IF q = u THEN Idle ELSE req[q]
    BY <1>1 DEF WritesPlan, Ends, ClaimInv, TypeOK
  <1>2. ASSUME NEW q \in Requests, q # u PROVE Fits(q, req[q])'
    <2>1. Fits(q, req[q]) BY PlanOf
    <2>2. req'[q] = req[q] BY <1>1, <1>2
    <2>3. CASE req[q].plan = p BY <2>1, <2>2, <2>3, <1>2 DEF Fits, WritesPlan, PlanOps, Applies, Held
    <2>4. CASE req[q].plan # p BY <2>1, <2>2, <2>4, <1>2 DEF Fits, WritesPlan, PlanOps, Applies, Held, Open
    <2> QED BY <2>3, <2>4
  <1>3. Fits(u, req[u])' BY <1>1, IdleFits DEF Fits, PlanOps, Edits, Applies, Held
  <1>4. PlanAlone' BY <1>1, IdleFits DEF PlanAlone, ClaimInv
  <1> QED BY <1>2, <1>3, <1>4 DEF RequestsFit

\* No child's row is ever deleted, and nobody who has left comes back.
Left == {"ALUMNI", "LEFT"}
LEMMA ChildrenKept ==
    ASSUME ClaimInv, [Next]_vars, NEW s \in Children
    PROVE  /\ child[s].status # "none" => child'[s].status # "none"
           /\ child[s].status \in Left => child'[s].status \in Left
  <1> DEFINE Stays == /\ child[s].status # "none" => child'[s].status # "none"
                      /\ child[s].status \in Left => child'[s].status \in Left
  <1>0. child \in [Children -> [status : {"none", "ACTIVE", "ALUMNI", "LEFT"},
                               class : Classes \union {NoClass}]]
    BY DEF ClaimInv, TypeOK
  <1>1. ASSUME UNCHANGED child PROVE Stays BY <1>1
  <1>2. ASSUME NEW u \in Requests, Apply(u) PROVE Stays
    <2> DEFINE d == req[u].rows[s]
    <2>1. child'[s] = IF Writes(s, d) THEN Moved(s, d) ELSE child[s] BY <1>2 DEF Apply
    <2>2. d \in Classes => Moved(s, d).status = child[s].status BY <1>0 DEF Moved
    <2>3. d \notin Classes => Moved(s, d).status \in Left BY <1>0 DEF Moved, Left
    <2> QED BY <2>1, <2>2, <2>3 DEF Writes, Left
  <1>3. ASSUME NEW u \in Requests, Leave(u) PROVE Stays BY <1>0, <1>3 DEF Leave, Left
  <1>4. ASSUME NEW k \in Children, Admit(k) PROVE Stays BY <1>0, <1>4 DEF Admit, Left
  <1>5. ASSUME NEW c \in Classes, MoveClass(c) \/ RemoveClass(c) PROVE Stays
    BY <1>0, <1>5 DEF MoveClass, RemoveClass
  <1>6. ASSUME NEW u \in Requests, Create(u) \/ Save(u) \/ Cancel(u) \/ Schedule(u) PROVE UNCHANGED child
    BY <1>6 DEF Create, Save, Cancel, Schedule, school
  <1>7. ASSUME NEW u \in Office, Review(u) PROVE UNCHANGED child BY <1>7 DEF Review, school
  <1> QED BY <1>1, <1>2, <1>3, <1>4, <1>5, <1>6, <1>7, MoveOrWrite DEF WriteStep, Moves, vars, school

LEMMA KnownKept ==
    ASSUME ClaimInv, [Next]_vars
    PROVE  RowsKnown'
  <1> SUFFICES ASSUME NEW q \in Requests PROVE Known(req[q])' BY DEF RowsKnown
  <1>0. req \in [Requests -> RequestType] BY DEF ClaimInv, TypeOK, RequestType
  <1>1. ASSUME NEW r, Known(r) PROVE Known(r)' BY <1>1, ChildrenKept DEF Known
  <1>2. ASSUME NEW u \in Requests, Ends(u) PROVE req'[q] \in {Idle, req[q]} BY <1>0, <1>2 DEF Ends
  <1>3. ASSUME NEW u \in Requests, NEW r \in RequestType, Moves(u, r) PROVE req'[q] \in {r, req[q]} /\ Known(r)
    BY <1>0, <1>3 DEF Moves
  <1>4. ASSUME WriteStep PROVE req'[q] \in {Idle, req[q]}
    BY <1>2, <1>4 DEF WriteStep, Create, Save, Cancel, Schedule, Leave, Apply, Review, Admit, MoveClass, RemoveClass
  <1>5. UNCHANGED vars => req'[q] = req[q] BY DEF vars
  <1>6. Known(Idle) /\ Known(req[q]) BY IdleFits DEF ClaimInv, RowsKnown
  <1>7. \E r : req'[q] = r /\ Known(r) BY <1>3, <1>4, <1>5, <1>6, MoveOrWrite
  <1> QED BY <1>1, <1>7

\* A plan that was over is applied again only where it was reopened.
LEMMA OverKept ==
    ASSUME ClaimInv, [Next]_vars
    PROVE  OverStays' /\ AppliedOnce'
  <1> DEFINE Kept == OverStays' /\ AppliedOnce'
  <1>0. over \subseteq Plans /\ OverStays /\ AppliedOnce BY DEF ClaimInv, TypeOK
  <1>a. plan \in [Plans -> [status : Statuses, from : Years \union {NoYear},
                           to : Years \union {NoYear}, version : 0..MaxVersion]]
    BY DEF ClaimInv, TypeOK
  <1>1. ASSUME UNCHANGED <<over, reopened, again>>,
               \A p \in over : plan'[p].status = plan[p].status
        PROVE  Kept
    BY <1>0, <1>1 DEF OverStays, AppliedOnce, Open
  <1>2. ASSUME NEW u \in Requests, Create(u) PROVE Kept
    <2>1. \A p \in over : plan'[p] = plan[p] BY <1>0, <1>2 DEF Create, OverStays, ClaimInv, TypeOK
    <2> QED BY <1>1, <1>2, <2>1 DEF Create, history
  <1>3. ASSUME NEW u \in Requests, Save(u) PROVE Kept
    <2>1. \A p \in over : plan'[p].status = plan[p].status BY <1>0, <1>3 DEF Save, ClaimInv, TypeOK
    <2> QED BY <1>1, <1>3, <2>1 DEF Save, history
  <1>4. ASSUME NEW u \in Requests, Cancel(u) PROVE Kept
    <2>1. req[u].plan \in Plans BY <1>4, PlanOf DEF Cancel, At, PlanOps
    <2>2. \A o \in Plans : plan'[o].status = IF o = req[u].plan THEN "CANCELLED" ELSE plan[o].status
      BY <1>a, <1>4, <2>1 DEF Cancel
    <2>3. over' = over \union {req[u].plan} /\ UNCHANGED <<reopened, again>> BY <1>4 DEF Cancel
    <2> QED BY <1>0, <2>1, <2>2, <2>3 DEF OverStays, AppliedOnce, Open
  <1>5. ASSUME NEW u \in Requests, Schedule(u) PROVE Kept
    BY <1>0, <1>a, <1>5 DEF Schedule, OverStays, AppliedOnce, Open
  <1>6. ASSUME NEW u \in Requests, Apply(u) PROVE Kept
    <2>1. req[u].plan \in Plans /\ Open(req[u].plan) BY <1>6, PlanOf DEF Apply, Held
    <2>2. \A o \in Plans : plan'[o].status = IF o = req[u].plan THEN "STARTED" ELSE plan[o].status
      BY <1>a, <1>6, <2>1 DEF Apply
    <2>3. /\ over' = over \union {req[u].plan} /\ UNCHANGED reopened
          /\ again' = again \union ({req[u].plan} \intersect over)
      BY <1>6 DEF Apply
    <2>4. OverStays' BY <1>0, <2>1, <2>2, <2>3 DEF OverStays, Open
    <2>5. AppliedOnce' BY <1>0, <2>1, <2>3 DEF OverStays, AppliedOnce
    <2> QED BY <2>4, <2>5
  <1>7. ASSUME UNCHANGED <<plan, history>> PROVE Kept BY <1>1, <1>7 DEF history
  <1>8. ASSUME NEW u \in Requests, Leave(u) PROVE Kept BY <1>7, <1>8 DEF Leave
  <1>9. ASSUME NEW u \in Office, Review(u) PROVE Kept BY <1>7, <1>9 DEF Review
  <1>10. ASSUME NEW s \in Children, Admit(s) PROVE Kept BY <1>7, <1>10 DEF Admit
  <1>11. ASSUME NEW c \in Classes, MoveClass(c) \/ RemoveClass(c) PROVE Kept
    BY <1>7, <1>11 DEF MoveClass, RemoveClass
  <1> QED BY <1>2, <1>3, <1>4, <1>5, <1>6, <1>7, <1>8, <1>9, <1>10, <1>11, MoveOrWrite DEF WriteStep, Moves, vars

LEMMA ClaimKept ==
    ASSUME ClaimInv, [Next]_vars
    PROVE  ClaimInv'
  <1> USE DEF ClaimInv
  <1> DEFINE Kept == RequestsFit' /\ PlanAlone' /\ YearsGiven' /\ PagesFit'
  <1>0. TypeOK' /\ RowsKnown' /\ OverStays' /\ AppliedOnce' BY TypesKept, KnownKept, OverKept
  <1>a. \A p \in Plans : plan[p].version \in Nat BY PlanTyped
  <1>1. ASSUME NEW q \in Requests, NEW r \in RequestType, Moves(q, r) PROVE Kept
    <2>1. \A x \in Requests : req'[x] = IF x = q THEN r ELSE req[x] BY <1>1 DEF Moves, TypeOK
    <2>2. RequestsFit' BY <1>1, <2>1 DEF Moves, RequestsFit, Fits, Open
    <2>3. PlanAlone' BY <1>1, <2>1 DEF Moves, PlanAlone, RowFree, Held
    <2> QED BY <1>1, <2>2, <2>3 DEF Moves, YearsGiven, PagesFit
  <1>2. CASE UNCHANGED vars
    <2>1. UNCHANGED <<plan, decided, page, req>> BY <1>2 DEF vars
    <2>2. RequestsFit' /\ PlanAlone' BY <2>1 DEF RequestsFit, Fits, Open, PlanAlone
    <2>3. YearsGiven' BY <2>1 DEF YearsGiven
    <2>4. PagesFit' BY <2>1 DEF PagesFit
    <2> QED BY <1>0, <2>2, <2>3, <2>4
  <1>3. ASSUME NEW u \in Requests, Create(u) PROVE Kept
    <2>1. PICK p \in Plans, y \in Years :
             /\ plan[p].status = "none"
             /\ plan' = [plan EXCEPT ![p] = [status |-> "DRAFT", from |-> req[u].year, to |-> y, version |-> 1]]
      BY <1>3 DEF Create
    <2>2. UNCHANGED <<decided, page>> BY <1>3 DEF Create
    <2>3. WritesPlan(u, p) BY <1>3, <2>1, <2>2, PlanOf DEF WritesPlan, Create, TypeOK, Open
    <2>4. YearsGiven' BY <2>1 DEF YearsGiven, TypeOK
    <2>5. PagesFit' BY <2>1, <2>2 DEF PagesFit, TypeOK
    <2> QED BY <2>3, <2>4, <2>5, WriteKeepsClaims
  <1>4. ASSUME NEW u \in Requests, Save(u) PROVE Kept
    <2> DEFINE p == req[u].plan
    <2>1. p \in Plans /\ plan[p].status # "none"
      BY <1>4, PlanOf DEF Save, At, Fits, PlanOps, Edits
    <2>2. UNCHANGED page BY <1>4 DEF Save
    <2>3. /\ \A o \in Plans \ {p} : plan'[o] = plan[o] /\ decided'[o] = decided[o]
          /\ plan'[p].status = plan[p].status /\ plan'[p].to = plan[p].to
          /\ plan'[p].version = plan[p].version + 1
      BY <1>4, <2>1 DEF Save, TypeOK
    <2>4. WritesPlan(u, p) BY <1>4, <2>1, <2>3 DEF WritesPlan, Save, RowFree, Held
    <2>5. YearsGiven' BY <2>3 DEF YearsGiven
    <2>6. ASSUME NEW v \in Office, page[v].plan \in Plans
          PROVE  LET o == page[v].plan IN
                 /\ plan'[o].status # "none" /\ page[v].version <= plan'[o].version
                 /\ page[v].version = plan'[o].version => page[v].decided = decided'[o]
      <3>1. page[v].version \in Nat BY DEF TypeOK, Pages
      <3>2. CASE page[v].plan = p BY <1>a, <2>1, <2>3, <2>6, <3>1, <3>2 DEF PagesFit
      <3>3. CASE page[v].plan # p BY <2>3, <2>6, <3>3 DEF PagesFit
      <3> QED BY <3>2, <3>3
    <2>7. PagesFit' BY <2>2, <2>6 DEF PagesFit
    <2> QED BY <2>1, <2>4, <2>5, <2>7, WriteKeepsClaims
  <1>5. ASSUME NEW u \in Requests, NEW p \in Plans, NEW st \in {"SCHEDULED", "CANCELLED", "STARTED"},
               plan' = [plan EXCEPT ![p].status = st], plan[p].status # "none",
               UNCHANGED <<decided, page>>, Ends(u),
               \A q \in Requests \ {u} : req[q].at \in Held => req[q].plan # p
        PROVE  RequestsFit' /\ PlanAlone' /\ YearsGiven' /\ PagesFit'
    <2>1. /\ \A o \in Plans \ {p} : plan'[o] = plan[o]
          /\ plan'[p].status = st /\ plan'[p].to = plan[p].to /\ plan'[p].version = plan[p].version
      BY <1>5 DEF TypeOK
    <2>2. WritesPlan(u, p) BY <1>5, <2>1 DEF WritesPlan
    <2>3. YearsGiven' BY <1>5, <2>1 DEF YearsGiven
    <2>4. PagesFit' BY <1>5, <2>1 DEF PagesFit
    <2> QED BY <2>2, <2>3, <2>4, WriteKeepsClaims
  <1>6. ASSUME NEW u \in Requests, Cancel(u) PROVE Kept
    <2>1. req[u].plan \in Plans /\ plan[req[u].plan].status # "none"
      BY <1>6, PlanOf DEF Cancel, At, Fits, PlanOps
    <2>2. UNCHANGED <<decided, page>> /\ Ends(u) BY <1>6 DEF Cancel
    <2> QED BY <1>5, <1>6, <2>1, <2>2 DEF Cancel, RowFree, Held
  <1>7. ASSUME NEW u \in Requests, Schedule(u) PROVE Kept
    <2>1. req[u].plan \in Plans /\ plan[req[u].plan].status # "none"
      BY <1>7, PlanOf DEF Schedule, At, Fits, PlanOps
    <2>2. UNCHANGED <<decided, page>> /\ Ends(u) BY <1>7 DEF Schedule
    <2> QED BY <1>5, <1>7, <2>1, <2>2 DEF Schedule, RowFree, Held
  <1>8. ASSUME NEW u \in Requests, Apply(u) PROVE Kept
    <2> DEFINE p == req[u].plan
    <2>1. u \in Requests /\ req[u].at \in Held /\ p \in Plans /\ Open(p) BY <1>8, PlanOf DEF Apply, Held
    <2>2. \A q \in Requests \ {u} : req[q].at \in Held => req[q].plan # p BY <2>1 DEF PlanAlone
    <2>3. UNCHANGED <<decided, page>> /\ Ends(u) /\ plan' = [plan EXCEPT ![p].status = "STARTED"]
      BY <1>8 DEF Apply
    <2> QED BY <1>5, <2>1, <2>2, <2>3 DEF Open
  <1>9. ASSUME UNCHANGED <<plan, decided>>
        PROVE  YearsGiven' /\ \A q \in Requests : \A r : Fits(q, r) => Fits(q, r)'
    BY <1>9 DEF YearsGiven, Fits, Open
  <1>10. ASSUME NEW u \in Requests, Leave(u) PROVE Kept
    <2>1. UNCHANGED <<plan, decided, page>> BY <1>10 DEF Leave
    <2>2. \A q \in Requests : req'[q] = IF q = u THEN Idle ELSE req[q] BY <1>10 DEF Leave, Ends, TypeOK
    <2>3. RequestsFit' BY <2>1, <2>2, <1>9, IdleFits DEF RequestsFit, Fits, Open
    <2>4. PlanAlone' BY <2>2, IdleFits DEF PlanAlone
    <2> QED BY <1>9, <2>1, <2>3, <2>4 DEF PagesFit
  <1>11. ASSUME NEW u \in Office, Review(u) PROVE Kept
    <2>1. UNCHANGED <<plan, decided, req>> BY <1>11 DEF Review
    <2>2. PICK p \in Plans : /\ Open(p)
                             /\ page' = [page EXCEPT ![u] = [plan |-> p, version |-> plan[p].version,
                                                             decided |-> decided[p]]]
      BY <1>11 DEF Review
    <2>3. \A v \in Office : page'[v] = IF v = u THEN [plan |-> p, version |-> plan[p].version,
                                                      decided |-> decided[p]] ELSE page[v]
      BY <2>2 DEF TypeOK
    <2>4. PagesFit' BY <1>a, <2>1, <2>2, <2>3 DEF PagesFit, Open
    <2>5. RequestsFit' /\ PlanAlone' BY <2>1 DEF RequestsFit, PlanAlone, Fits, Open
    <2> QED BY <1>9, <2>1, <2>4, <2>5
  <1>12. ASSUME UNCHANGED <<plan, decided, req, page>> PROVE Kept
    BY <1>12 DEF RequestsFit, Fits, Open, PlanAlone, YearsGiven, PagesFit
  <1>13. ASSUME NEW s \in Children, Admit(s) PROVE Kept BY <1>12, <1>13 DEF Admit
  <1>14. ASSUME NEW c \in Classes, MoveClass(c) \/ RemoveClass(c) PROVE Kept
    BY <1>12, <1>14 DEF MoveClass, RemoveClass
  <1> QED BY <1>0, <1>1, <1>2, <1>3, <1>4, <1>6, <1>7, <1>8, <1>10, <1>11, <1>13, <1>14,
         MoveOrWrite DEF WriteStep

LEMMA ClaimAtFirst == Init => ClaimInv
  <1> SUFFICES ASSUME Init PROVE ClaimInv OBVIOUS
  <1>1. PICK y \in Years \ {FirstYear} :
             plan = [p \in Plans |-> IF p \in Begun
                       THEN [status |-> "DRAFT", from |-> FirstYear, to |-> y, version |-> 1] ELSE NewPlan]
    BY DEF Init
  <1>2. 0 \in 0..MaxVersion /\ 1 \in 0..MaxVersion /\ 0 \in 0..MaxFails /\ 0 \in 0..MaxMoves
        /\ FirstYear \in Years
    BY SessionsAssumption
  <1>3. plan \in [Plans -> [status : Statuses, from : Years \union {NoYear},
                            to : Years \union {NoYear}, version : 0..MaxVersion]]
    BY <1>1, <1>2 DEF Statuses, NewPlan
  <1>4. decided \in [Plans -> Rows] /\ done \in [Plans -> Rows] /\ receipt \in [Plans -> SUBSET Children]
    BY UndecidedRow DEF Init
  <1>5. NoPage \in Pages BY <1>2, UndecidedRow DEF NoPage, Pages
  <1>6. page \in [Office -> Pages] /\ approved \in [Plans -> Pages] BY <1>5 DEF Init
  <1>7. req \in [Requests -> RequestType] /\ \A q \in Requests : req[q] = Idle BY IdleFits DEF Init
  <1>8. child \in [Children -> [status : {"none", "ACTIVE", "ALUMNI", "LEFT"}, class : Classes \union {NoClass}]]
        /\ section \in [Classes -> Years \union {Unbuilt, Removed}] /\ current \subseteq Years
    BY <1>2 DEF Init
  <1>9. /\ fails \in 0..MaxFails /\ moves \in 0..MaxMoves /\ surprised \in BOOLEAN
        /\ over \subseteq Plans /\ reopened \subseteq Plans /\ again \subseteq Plans
    BY <1>2 DEF Init
  <1>10. TypeOK BY <1>3, <1>4, <1>6, <1>7, <1>8, <1>9 DEF TypeOK, RequestType
  <1>11. RequestsFit /\ PlanAlone /\ RowsKnown BY <1>7, IdleFits DEF RequestsFit, PlanAlone, RowsKnown
  <1>12. YearsGiven BY <1>1 DEF YearsGiven, NewPlan
  <1>13. PagesFit BY SessionsAssumption DEF Init, PagesFit, NoPage
  <1>14. OverStays /\ AppliedOnce BY DEF Init, OverStays, AppliedOnce
  <1> QED BY <1>10, <1>11, <1>12, <1>13, <1>14 DEF ClaimInv

\* However requests interleave and fail: a claimed plan is held by one request and stays
\* open until that request ends (applyPlan's conditional update).
THEOREM ClaimHolds == Spec => []ClaimInv
  BY ClaimAtFirst, ClaimKept, PTL DEF Spec, Safety

\* Every row and every request keeps its columns' values (SessionPlan, SessionDecision).
THEOREM TypeCorrect == Spec => []TypeOK
  <1>1. ClaimInv => TypeOK BY DEF ClaimInv
  <1> QED BY <1>1, ClaimHolds, PTL

\* Of all requests that overlap, two clicks or the cron and a click, one applies an open plan,
\* and what is over is applied (again) only where a late schedule was written on it: that
\* write by id is the one way round the claim, and a person and the cron are enough for it.
THEOREM AppliedOnceUnlessReopened == Spec => []AppliedOnce
  <1>1. ClaimInv => AppliedOnce BY DEF ClaimInv
  <1> QED BY <1>1, ClaimHolds, PTL

-----------------------------------------------------------------------------
(* The review, with one person in the office and any number of crons.      *)

OnePerson == \A u, v \in Office : u = v

RequestsTimely == \A q \in Requests : Timely(q, req[q])
NotYetDone == \A p \in Plans :
    plan[p].status \in {"none", "DRAFT"} => done[p] = Undecided /\ receipt[p] = {}
\* The register, whatever the plan's status: it is not rewritten later.
Entry(p, s) ==
    decided[p][s] # "none" =>
        IF s \in receipt[p]
        THEN \/ done[p][s] = decided[p][s]
             \/ /\ done[p][s] = "none" /\ decided[p][s] \in Leavings
                /\ child[s].status \in Left
        ELSE done[p][s] = "none"
EntriesTrue == \A p \in Plans, s \in Children : Entry(p, s)
\* Nobody edits a scheduled plan.
ApprovalsStand == \A p \in Plans :
    plan[p].status = "SCHEDULED" /\ approved[p].plan = p => approved[p].decided = decided[p]

ReviewInv == /\ ClaimInv /\ RequestsTimely
             /\ NotYetDone /\ EntriesTrue /\ ApprovalsStand /\ StartsWhatWasReviewed

\* While one person's request is under way, nobody else's is that edits or has a page.
LEMMA OthersTimely ==
    ASSUME OnePerson, ClaimInv, NEW u \in Office, Ends(u)
    PROVE  RequestsTimely'
  <1> SUFFICES ASSUME NEW q \in Requests PROVE Timely(q, req[q])' BY DEF RequestsTimely
  <1>1. req'[q] = IF q = u THEN Idle ELSE req[q] BY DEF Ends, ClaimInv, TypeOK
  <1>2. CASE q = u BY <1>1, <1>2, IdleFits DEF Timely, Gated, Edits
  <1>3. CASE q # u
    <2>1. q \notin Office BY <1>3 DEF OnePerson
    <2>2. req[q].op \in {"none", "cron"} BY <2>1, PlanOf DEF Fits
    <2> QED BY <1>1, <1>3, <2>2 DEF Timely, Gated, Edits
  <1> QED BY <1>2, <1>3

LEMMA ReviewKept ==
    ASSUME OnePerson, ReviewInv, [Next]_vars
    PROVE  ReviewInv'
  <1> USE DEF ReviewInv
  <1> DEFINE Kept == RequestsTimely' /\ NotYetDone' /\ EntriesTrue' /\ ApprovalsStand' /\ StartsWhatWasReviewed'
             Rest == NotYetDone' /\ EntriesTrue' /\ ApprovalsStand' /\ StartsWhatWasReviewed'
  <1>0. ClaimInv' BY ClaimKept
  <1>a. /\ plan \in [Plans -> [status : Statuses, from : Years \union {NoYear},
                               to : Years \union {NoYear}, version : 0..MaxVersion]]
        /\ decided \in [Plans -> Rows] /\ done \in [Plans -> Rows] /\ approved \in [Plans -> Pages]
        /\ page \in [Office -> Pages] /\ req \in [Requests -> RequestType]
    BY DEF ClaimInv, TypeOK, RequestType
  <1>b. ASSUME UNCHANGED <<decided, receipt, done>> PROVE EntriesTrue'
    BY <1>b, ChildrenKept DEF EntriesTrue, Entry
  <1>1. ASSUME UNCHANGED <<plan, decided, receipt, history>> PROVE Rest
    BY <1>1, <1>b DEF history, NotYetDone, ApprovalsStand, StartsWhatWasReviewed
  <1>2. ASSUME NEW q \in Requests, NEW r \in RequestType, Moves(q, r) PROVE Kept
    <2>1. \A x \in Requests : req'[x] = IF x = q THEN r ELSE req[x] BY <1>a, <1>2 DEF Moves
    <2>2. Timely(q, r) BY <1>2 DEF Moves, RequestsTimely
    <2>3. UNCHANGED <<plan, page>> BY <1>2 DEF Moves
    <2>4. RequestsTimely' BY <2>1, <2>2, <2>3 DEF RequestsTimely, Timely
    <2> QED BY <1>1, <1>2, <2>4 DEF Moves
  <1>3. CASE UNCHANGED vars
    <2>1. UNCHANGED <<plan, decided, receipt, page, req, history>> BY <1>3 DEF vars
    <2>2. RequestsTimely' BY <2>1 DEF RequestsTimely, Timely
    <2> QED BY <1>0, <1>1, <2>1, <2>2
  <1>4. ASSUME NEW u \in Requests, Create(u) PROVE Kept
    <2>1. PICK p \in Plans, y \in Years :
             /\ plan[p].status = "none"
             /\ plan' = [plan EXCEPT ![p] = [status |-> "DRAFT", from |-> req[u].year, to |-> y, version |-> 1]]
      BY <1>4 DEF Create
    <2>2. \A o \in Plans : plan'[o] = IF o = p THEN [status |-> "DRAFT", from |-> req[u].year,
                                                     to |-> y, version |-> 1] ELSE plan[o]
      BY <1>a, <2>1
    <2>3. UNCHANGED <<decided, receipt, done, approved, surprised>> BY <1>4 DEF Create, history
    <2>4. Rest BY <1>b, <2>1, <2>2, <2>3 DEF NotYetDone, ApprovalsStand, StartsWhatWasReviewed
    <2>5. u \in Office /\ Ends(u) BY <1>4, PlanOf DEF Create, At, Fits
    <2> QED BY <2>4, <2>5, OthersTimely
  <1>5. ASSUME NEW u \in Requests, Save(u) PROVE Kept
    <2> DEFINE p == req[u].plan
    <2>1. u \in Office /\ Ends(u) /\ p \in Plans
      BY <1>5, PlanOf DEF Save, At, Fits, PlanOps, Edits
    <2>2. plan[p].status = "DRAFT" BY <1>5 DEF Save, At, RequestsTimely, Timely, Edits
    <2>3. UNCHANGED <<receipt, done, approved, surprised>> BY <1>5 DEF Save, history
    <2>4. \A o \in Plans : /\ plan'[o].status = plan[o].status
                           /\ o # p => decided'[o] = decided[o]
      BY <1>a, <1>5, <2>1 DEF Save
    <2>5. done[p] = Undecided /\ receipt[p] = {} BY <2>1, <2>2 DEF NotYetDone
    <2>6. EntriesTrue'
      <3>1. ASSUME NEW o \in Plans, NEW s \in Children PROVE Entry(o, s)'
        <4>1. CASE o = p BY <2>3, <2>5, <4>1 DEF Entry, Undecided
        <4>2. CASE o # p BY <2>3, <2>4, <4>2, ChildrenKept DEF Entry, EntriesTrue
        <4> QED BY <4>1, <4>2
      <3> QED BY <3>1 DEF EntriesTrue
    <2>7. Rest BY <2>2, <2>3, <2>4, <2>6 DEF NotYetDone, ApprovalsStand, StartsWhatWasReviewed
    <2> QED BY <2>1, <2>7, OthersTimely
  <1>6. ASSUME NEW u \in Requests, Cancel(u) PROVE Kept
    <2>1. u \in Office /\ Ends(u) /\ req[u].plan \in Plans BY <1>6, PlanOf DEF Cancel, At, Fits, PlanOps
    <2>2. UNCHANGED <<decided, receipt, done, approved, surprised>> BY <1>6 DEF Cancel, history
    <2>3. \A o \in Plans : plan'[o].status = IF o = req[u].plan THEN "CANCELLED" ELSE plan[o].status
      BY <1>a, <1>6, <2>1 DEF Cancel
    <2>4. Rest BY <1>b, <2>2, <2>3 DEF NotYetDone, ApprovalsStand, StartsWhatWasReviewed
    <2> QED BY <2>1, <2>4, OthersTimely
  <1>7. ASSUME NEW u \in Requests, Schedule(u) PROVE Kept
    <2> DEFINE p == req[u].plan
    <2>1. u \in Office /\ Ends(u) /\ p \in Plans BY <1>7, PlanOf DEF Schedule, At, Fits, PlanOps
    <2>2. UNCHANGED <<decided, receipt, done, surprised>> BY <1>7 DEF Schedule
    <2>3. \A o \in Plans : /\ plan'[o].status = IF o = p THEN "SCHEDULED" ELSE plan[o].status
                           /\ approved'[o] = IF o = p THEN page[u] ELSE approved[o]
      BY <1>a, <1>7, <2>1 DEF Schedule
    <2>4. page[u].plan = p => page[u].version = plan[p].version
      BY <1>7 DEF Schedule, At, RequestsTimely, Timely, Gated
    <2>5. page[u].plan = p => page[u].decided = decided[p] BY <2>1, <2>4 DEF ClaimInv, PagesFit
    <2>6. ApprovalsStand' BY <2>2, <2>3, <2>5 DEF ApprovalsStand
    <2>7. Rest BY <1>b, <2>2, <2>3, <2>6 DEF NotYetDone, StartsWhatWasReviewed
    <2> QED BY <2>1, <2>7, OthersTimely
  <1>8. ASSUME NEW u \in Requests, Apply(u) PROVE Kept
    <2> DEFINE p == req[u].plan
    <2>1. /\ Fits(u, req[u]) /\ req[u].op \in Applies /\ req[u].at = "writing" /\ p \in Plans /\ Open(p)
          /\ req[u].rows \in Rows
      BY <1>8, PlanOf DEF Apply, Held, RequestType
    <2>2. \A s \in Children : req[u].rows[s] # "none" => req[u].rows[s] = decided[p][s] BY <2>1 DEF Fits
    <2>3. UNCHANGED <<decided, page, approved>> /\ Ends(u) BY <1>8 DEF Apply
    <2>4. \A o \in Plans : /\ plan'[o].status = IF o = p THEN "STARTED" ELSE plan[o].status
                           /\ plan'[o].version = plan[o].version
                           /\ o # p => done'[o] = done[o] /\ receipt'[o] = receipt[o]
      BY <1>a, <1>8, <2>1 DEF Apply, ClaimInv, TypeOK
    <2>5. ASSUME NEW s \in Children
          PROVE  LET row == req[u].rows[s] IN
                 /\ done'[p][s] = IF Writes(s, row) THEN row ELSE done[p][s]
                 /\ s \in receipt'[p] <=> s \in receipt[p] \/ row # "none"
      BY <1>a, <1>8, <2>1 DEF Apply, ClaimInv, TypeOK
    <2>6. EntriesTrue'
      <3>1. ASSUME NEW o \in Plans, NEW s \in Children PROVE Entry(o, s)'
        <4>0. Entry(o, s) BY DEF EntriesTrue
        <4>1. CASE o # p BY <2>3, <2>4, <4>0, <4>1, ChildrenKept DEF Entry
        <4>2. CASE o = p
          <5> DEFINE row == req[u].rows[s]
          <5>1. row \in Choices \union {"none"} BY <2>1 DEF Rows
          <5>2. "none" \notin Choices BY SessionsAssumption DEF Choices
          <5>3. CASE row = "none" BY <2>3, <2>5, <4>0, <4>2, <5>2, <5>3, ChildrenKept DEF Entry, Writes, Choices
          <5>4. CASE row # "none" /\ Writes(s, row) BY <2>2, <2>3, <2>5, <4>2, <5>4 DEF Entry
          <5>5. CASE row # "none" /\ ~Writes(s, row)
            <6>1. row \in Leavings /\ child[s].status # "ACTIVE" BY <5>1, <5>5 DEF Writes, Choices
            <6>2. child[s].status # "none" BY <2>1, <5>5 DEF ClaimInv, RowsKnown, Known
            <6>3. child[s].status \in Left BY <6>1, <6>2 DEF ClaimInv, TypeOK, Left
            <6>4. child'[s].status \in Left BY <6>3, ChildrenKept
            <6>5. done'[p][s] = done[p][s] /\ s \in receipt'[p] /\ row = decided[p][s] BY <2>2, <2>5, <5>5
            <6> QED BY <2>3, <4>0, <4>2, <5>5, <6>1, <6>4, <6>5 DEF Entry
          <5> QED BY <5>3, <5>4, <5>5
        <4> QED BY <4>1, <4>2
      <3> QED BY <3>1 DEF EntriesTrue
    <2>7. Reviewed(u).plan = p => Reviewed(u).decided = decided[p]
      <3>1. CASE req[u].op = "cron"
        <4>1. plan[p].status = "SCHEDULED" BY <2>1, <3>1 DEF Fits, Open
        <4> QED BY <2>1, <3>1, <4>1 DEF Reviewed, ApprovalsStand
      <3>2. CASE req[u].op = "start"
        <4>1. u \in Office BY <2>1, <3>2 DEF Fits
        <4>2. page[u].plan = p => page[u].version = plan[p].version
          BY <2>1, <3>2 DEF RequestsTimely, Timely, Gated
        <4> QED BY <2>1, <3>2, <4>1, <4>2 DEF Reviewed, ClaimInv, PagesFit
      <3> QED BY <2>1, <3>1, <3>2 DEF Applies
    <2>8. ~Differs(u) BY <2>2, <2>7 DEF Differs
    <2>9. StartsWhatWasReviewed' BY <1>8, <2>8 DEF Apply, StartsWhatWasReviewed
    <2>10. Rest BY <2>3, <2>4, <2>6, <2>9 DEF NotYetDone, ApprovalsStand
    <2>11. RequestsTimely'
      <3>1. CASE u \in Office BY <2>3, <3>1, OthersTimely
      <3>2. CASE u \notin Office
        <4>1. plan[p].status # "DRAFT" BY <2>1, <3>2 DEF Fits, Applies
        <4>2. \A q \in Requests : req'[q] = IF q = u THEN Idle ELSE req[q] BY <1>a, <2>3 DEF Ends
        <4>3. ASSUME NEW q \in Requests, q # u PROVE Timely(q, req[q])'
          <5>1. Timely(q, req[q]) /\ req'[q] = req[q] BY <4>2, <4>3 DEF RequestsTimely
          <5>2. req[q].op \in PlanOps => req[q].plan \in Plans BY PlanOf
          <5>3. req[q].op \in Edits => plan'[req[q].plan].status = "DRAFT"
            BY <2>4, <4>1, <5>1, <5>2 DEF Timely, PlanOps
          <5>4. Gated(req[q]) => req[q].plan \in Plans BY <5>2 DEF Gated, PlanOps, Applies
          <5> QED BY <2>3, <2>4, <5>1, <5>3, <5>4 DEF Timely
        <4>4. Timely(u, req[u])' BY <4>2, IdleFits DEF Timely, Gated, Edits
        <4> QED BY <4>3, <4>4 DEF RequestsTimely
      <3> QED BY <3>1, <3>2
    <2> QED BY <2>10, <2>11
  <1>9. ASSUME NEW u \in Requests, Leave(u) PROVE Kept
    <2>1. u \in Office /\ Ends(u) BY <1>9, PlanOf DEF Leave, At, Fits
    <2> QED BY <1>1, <1>9, <2>1, OthersTimely DEF Leave
  <1>10. ASSUME NEW u \in Office, Review(u) PROVE Kept
    <2>1. req[u] = Idle /\ UNCHANGED <<plan, req>> BY <1>10 DEF Review
    <2>2. ASSUME NEW q \in Requests PROVE Timely(q, req[q])'
      <3>1. CASE q = u BY <2>1, <3>1, IdleFits DEF Timely, Gated, Edits
      <3>2. CASE q # u
        <4>1. req[q].op \in {"none", "cron"} BY <3>2, PlanOf DEF Fits, OnePerson
        <4> QED BY <2>1, <4>1 DEF Timely, Gated, Edits
      <3> QED BY <3>1, <3>2
    <2> QED BY <1>1, <1>10, <2>2 DEF Review, RequestsTimely
  <1>11. ASSUME UNCHANGED <<plan, decided, receipt, page, req, history>> PROVE Kept
    BY <1>1, <1>11 DEF RequestsTimely, Timely
  <1>12. ASSUME NEW s \in Children, Admit(s) PROVE Kept BY <1>11, <1>12 DEF Admit
  <1>13. ASSUME NEW c \in Classes, MoveClass(c) \/ RemoveClass(c) PROVE Kept
    BY <1>11, <1>13 DEF MoveClass, RemoveClass
  <1> QED BY <1>0, <1>2, <1>3, <1>4, <1>5, <1>6, <1>7, <1>8, <1>9, <1>10, <1>12, <1>13,
         MoveOrWrite DEF WriteStep

LEMMA ReviewAtFirst == Init => ReviewInv
  <1> SUFFICES ASSUME Init PROVE ReviewInv OBVIOUS
  <1>1. /\ done = [p \in Plans |-> Undecided] /\ receipt = [p \in Plans |-> {}]
        /\ approved = [p \in Plans |-> NoPage]
        /\ surprised = FALSE /\ req = [q \in Requests |-> Idle]
    BY DEF Init
  <1>2. RequestsTimely BY <1>1, IdleFits DEF RequestsTimely
  <1>3. NotYetDone /\ EntriesTrue /\ StartsWhatWasReviewed
    BY <1>1 DEF NotYetDone, EntriesTrue, Entry, StartsWhatWasReviewed, Undecided
  <1>4. ApprovalsStand BY <1>1, SessionsAssumption DEF ApprovalsStand, NoPage
  <1> QED BY <1>2, <1>3, <1>4, ClaimAtFirst DEF ReviewInv

LEMMA ReviewHolds == ASSUME OnePerson PROVE Spec => []ReviewInv
  <1>1. ReviewInv /\ [Next]_vars => ReviewInv' BY ReviewKept
  <1> QED BY <1>1, ReviewAtFirst, PTL DEF Spec, Safety

\* With one person in the office and any number of crons, the register of a plan that is
\* STARTED tells of each decided child whether Start wrote what it shows (register): no
\* edit reaches the plan afterwards, a child without a receipt was not touched, and one
\* with a receipt had its decision written unless it had left on its own by then.  Two
\* persons are enough to break it: an edit read before Start is saved after it.
THEOREM RegisterIsTrue == ASSUME OnePerson PROVE Spec => []RegisterTellsTruth
  <1>1. ReviewInv => RegisterTellsTruth BY DEF ReviewInv, EntriesTrue, Entry, RegisterTellsTruth, Left
  <1> QED BY <1>1, ReviewHolds, PTL

\* With one person in the office, a plan that is started from a review of that plan, now or
\* on its day, has the decisions of the review (start, schedule, startDue).  A page of
\* another plan passes the version check as well when its number fits: that the two differ
\* then is not excluded.
THEOREM StartedAsReviewed == ASSUME OnePerson PROVE Spec => []StartsWhatWasReviewed
  <1>1. ReviewInv => StartsWhatWasReviewed BY DEF ReviewInv
  <1> QED BY <1>1, ReviewHolds, PTL
====
