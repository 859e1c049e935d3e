---- MODULE Sessions ----
(***************************************************************************)
(* The year end of a school: a plan to move from one academic year to the  *)
(* next is drafted over days, reviewed, and started at once by the office  *)
(* or on its day by the cron.  Start moves every child of the closing year *)
(* in one transaction.                                                     *)
(*                                                                         *)
(* A request is one READ COMMITTED transaction, or two where the code has  *)
(* two.  It is cut between what it reads first and what it writes by id,   *)
(* and Start also where it claims the plan, whose row it then holds.       *)
(* Whoever writes that row waits; nothing else is waited for: where an     *)
(* edit and a Start hold each other's rows, Postgres ends one (Fail).      *)
(*                                                                         *)
(* A decision is a class (PROMOTE and STAY differ in the words of a        *)
(* message) or a way to leave, for one child at a time, or the default of  *)
(* the class map for all that have none.  The day of a scheduled plan may  *)
(* be today.                                                               *)
(***************************************************************************)
EXTENDS Naturals, FiniteSets

CONSTANTS
    Years, Classes, Plans, Children,
    Office, Crons,     \* whose requests there are, one at a time each
    Leavings,          \* the ways to leave in use
    Routes,            \* the office's routes in use
    FirstYear, Closing, Begun,  \* the year, its classes and the draft (if any) there are at first
    MaxVersion,        \* bound: the saves of a plan
    MaxFails,          \* bound: the requests that fail
    MaxMoves,          \* bound: the classes moved to another year or removed
    Unbuilt, Removed,  \* the year of a class that is not there yet, or no longer
    NoYear, NoClass, NoPlan, NoChild

Requests == Office \union Crons
Choices == Classes \union Leavings

ASSUME SessionsAssumption ==
    /\ FirstYear \in Years /\ Closing \subseteq Classes /\ Begun \subseteq Plans
    /\ Leavings \subseteq {"PASS_OUT", "LEAVE"}
    /\ Classes \intersect {"none", "PASS_OUT", "LEAVE"} = {}
    /\ MaxVersion \in Nat \ {0} /\ MaxFails \in Nat /\ MaxMoves \in Nat
    /\ Years \intersect {NoYear, Unbuilt, Removed} = {}
    /\ NoClass \notin Classes /\ NoPlan \notin Plans /\ NoChild \notin Children
    /\ Office \intersect Crons = {}

VARIABLES
    plan,       \* SessionPlan
    decided,    \* SessionDecision: per plan and child
    receipt,    \* SessionDecision: the children of a plan with appliedAt
    child,      \* Student: its status and class
    section,    \* ClassSection: the year of a class
    current,    \* AcademicYear: those with isCurrent
    page,       \* what each of the office has open: a plan's version and decisions, as reviewed
    req,        \* the requests under way
    fails, moves,
    over,       \* history: the plans once started or cancelled
    reopened,   \* history: those of them a late schedule was written on
    again,      \* history: those of them that were applied after that
    done,       \* history: what Start wrote for a child, "none" if it wrote nothing
    approved,   \* history: the page a plan was scheduled from
    surprised   \* history: a reviewed plan was applied with other decisions

school == <<child, section, current, moves>>
history == <<over, reopened, again, done, approved, surprised>>
vars == <<plan, decided, receipt, school, page, req, fails, history>>

Undecided == [s \in Children |-> "none"]
NewPlan == [status |-> "none", from |-> NoYear, to |-> NoYear, version |-> 0]
NoPage == [plan |-> NoPlan, version |-> 0, decided |-> Undecided]
Idle == [op |-> "none", at |-> "idle", plan |-> NoPlan, year |-> NoYear, child |-> NoChild,
         rows |-> Undecided]

Rows == [Children -> Choices \union {"none"}]
Pages == [plan : Plans \union {NoPlan}, version : 0..MaxVersion, decided : Rows]
Statuses == {"none", "DRAFT", "SCHEDULED", "STARTED", "CANCELLED"}
TypeOK ==
    /\ plan \in [Plans -> [status : Statuses,
                           from : Years \union {NoYear}, to : Years \union {NoYear},
                           version : 0..MaxVersion]]
    /\ decided \in [Plans -> Rows] /\ done \in [Plans -> Rows]
    /\ receipt \in [Plans -> SUBSET Children]
    /\ child \in [Children -> [status : {"none", "ACTIVE", "ALUMNI", "LEFT"},
                               class : Classes \union {NoClass}]]
    /\ section \in [Classes -> Years \union {Unbuilt, Removed}]
    /\ current \subseteq Years
    /\ page \in [Office -> Pages] /\ approved \in [Plans -> Pages]
    /\ req \in [Requests -> [op : {"none", "create", "update", "decide", "defaults",
                                   "schedule", "start", "cron", "cancel", "leave"},
                             at : {"idle", "found", "read", "claimed", "writing"},
                             plan : Plans \union {NoPlan}, year : Years \union {NoYear},
                             child : Children \union {NoChild}, rows : Rows]]
    /\ fails \in 0..MaxFails /\ moves \in 0..MaxMoves
    /\ over \subseteq Plans /\ reopened \subseteq Plans /\ again \subseteq Plans
    /\ surprised \in BOOLEAN

Init ==
    /\ section = [c \in Classes |-> IF c \in Closing THEN FirstYear ELSE Unbuilt]
    /\ child = [s \in Children |-> [status |-> "none", class |-> NoClass]]
    /\ current = {FirstYear}
    /\ \E y \in Years \ {FirstYear} :
          plan = [p \in Plans |-> IF p \in Begun
                    THEN [status |-> "DRAFT", from |-> FirstYear, to |-> y, version |-> 1] ELSE NewPlan]
    /\ decided = [p \in Plans |-> Undecided] /\ receipt = [p \in Plans |-> {}]
    /\ page = [u \in Office |-> NoPage]
    /\ req = [q \in Requests |-> Idle]
    /\ fails = 0 /\ moves = 0
    /\ over = {} /\ reopened = {} /\ again = {}
    /\ done = [p \in Plans |-> Undecided]
    /\ approved = [p \in Plans |-> NoPage]
    /\ surprised = FALSE

-----------------------------------------------------------------------------
(* Requests and rows.                                                      *)

Open(p) == plan[p].status \in {"DRAFT", "SCHEDULED"}
\* Mutant: a scheduled plan can be edited.
EditableIfOpen(p) == Open(p)
Editable(p) == plan[p].status = "DRAFT"

In(y) == {c \in Classes : section[c] = y}
\* The active roster of the closing year.
Roll(p) == {s \in Children : child[s].status = "ACTIVE" /\ child[s].class \in In(plan[p].from)}

\* Nobody has claimed the plan and not committed yet.
RowFree(p) == \A q \in Requests : req[q].plan = p => req[q].at \notin {"claimed", "writing"}

Begins(u, op, request) ==
    /\ op \in Routes /\ req[u] = Idle
    /\ req' = [req EXCEPT ![u] = [request EXCEPT !.op = op, !.at = "read"]]
Goes(q, at) == req' = [req EXCEPT ![q].at = at]
Ends(q) == req' = [req EXCEPT ![q] = Idle]
At(q, ops, at) == req[q].op \in ops /\ req[q].at = at

-----------------------------------------------------------------------------
(* The draft.                                                              *)

NoneOpen == \A p \in Plans : ~Open(p)
CreateRead(u) ==
    /\ NoneOpen
    /\ \E y \in current : Begins(u, "create", [Idle EXCEPT !.year = y])
    /\ UNCHANGED <<plan, decided, receipt, school, page, fails, history>>

\* The next year is one there is, or is made.
Create(u) ==
    /\ At(u, {"create"}, "read")
    /\ \E p \in Plans, y \in Years \ {req[u].year} :
          /\ plan[p].status = "none"
          /\ plan' = [plan EXCEPT ![p] = [status |-> "DRAFT", from |-> req[u].year, to |-> y, version |-> 1]]
    /\ Ends(u)
    /\ UNCHANGED <<decided, receipt, school, page, fails, history>>

EditRead(u, op, p, rows) ==
    /\ Editable(p) /\ plan[p].version < MaxVersion
    /\ Begins(u, op, [Idle EXCEPT !.plan = p, !.rows = rows])
    /\ UNCHANGED <<plan, decided, receipt, school, page, fails, history>>

\* updatePlan, and copyStructure, whose classes are built when it is saved.
UpdatePlan(u) == \E p \in Plans : EditRead(u, "update", p, Undecided)
\* A seat is a class of the next year.
UpsertDecisions(u) ==
    \E p \in Plans, s \in Children : \E c \in In(plan[p].to) \union Leavings :
        /\ child[s].status = "ACTIVE"
        /\ EditRead(u, "decide", p, [Undecided EXCEPT ![s] = c])
\* The class map's default for every child of the closing year without a decision; a class
\* that the map sends nowhere, or no longer into the next year, is passed over.
ApplyDefaults(u) ==
    \E p \in Plans : \E map \in [Classes -> In(plan[p].to) \union (Leavings \ {"LEAVE"}) \union {"none"}] :
        EditRead(u, "defaults", p, [s \in Children |->
            IF s \in Roll(p) /\ decided[p][s] = "none" THEN map[child[s].class] ELSE "none"])

\* skipDuplicates: a default never replaces a decision.
Saved(p, op, rows) == [s \in Children |->
    IF rows[s] = "none" \/ (op = "defaults" /\ decided[p][s] # "none") THEN decided[p][s] ELSE rows[s]]
\* copyStructure builds the classes that the next year y lacks, if any; updatePlan none.
Built(op, y) == IF op = "update" THEN {[c \in Classes |-> IF c \in new THEN y ELSE section[c]] :
                                     new \in SUBSET In(Unbuilt)}
                ELSE {section}
\* By id: what became of the plan since it was read is not looked at.
Save(u) ==
    LET p == req[u].plan IN
    /\ At(u, {"update", "decide", "defaults"}, "read") /\ RowFree(p)
    /\ plan[p].version < MaxVersion
    /\ decided' = [decided EXCEPT ![p] = Saved(p, req[u].op, req[u].rows)]
    /\ plan' = [plan EXCEPT ![p].version = @ + 1]
    /\ section' \in Built(req[u].op, plan[p].to)
    /\ Ends(u)
    /\ UNCHANGED <<receipt, child, current, moves, page, fails, history>>

CancelRead(u) ==
    /\ \E p \in Plans : Open(p) /\ Begins(u, "cancel", [Idle EXCEPT !.plan = p])
    /\ UNCHANGED <<plan, decided, receipt, school, page, fails, history>>
Cancel(u) ==
    /\ At(u, {"cancel"}, "read") /\ RowFree(req[u].plan)
    /\ plan' = [plan EXCEPT ![req[u].plan].status = "CANCELLED"]
    /\ over' = over \union {req[u].plan}
    /\ Ends(u)
    /\ UNCHANGED <<decided, receipt, school, page, fails, reopened, again, done, approved, surprised>>

-----------------------------------------------------------------------------
(* Review, schedule, start.                                                *)

Review(u) ==
    /\ req[u] = Idle
    /\ \E p \in Plans : /\ Open(p)
                        /\ page' = [page EXCEPT ![u] = [plan |-> p, version |-> plan[p].version,
                                                        decided |-> decided[p]]]
    /\ UNCHANGED <<plan, decided, receipt, school, req, fails, history>>

\* Mutant: the version the review was loaded with is not compared.
AnyVersion(u, p) == TRUE
VersionFits(u, p) == page[u].version = plan[p].version

\* The gate is a transaction of its own, and the plan is then written by id.
ScheduleGate(u) ==
    /\ page[u] # NoPage
    /\ \E p \in Plans : Open(p) /\ VersionFits(u, p) /\ Begins(u, "schedule", [Idle EXCEPT !.plan = p])
    /\ UNCHANGED <<plan, decided, receipt, school, page, fails, history>>
Schedule(u) ==
    /\ At(u, {"schedule"}, "read") /\ RowFree(req[u].plan)
    /\ plan' = [plan EXCEPT ![req[u].plan].status = "SCHEDULED"]
    /\ approved' = [approved EXCEPT ![req[u].plan] = page[u]]
    /\ reopened' = reopened \union ({req[u].plan} \intersect over)
    /\ Ends(u)
    /\ UNCHANGED <<decided, receipt, school, page, fails, over, again, done, surprised>>

Finds(q, op, p) == /\ req[q] = Idle
                   /\ req' = [req EXCEPT ![q] = [Idle EXCEPT !.op = op, !.at = "found", !.plan = p]]
                   /\ UNCHANGED <<plan, decided, receipt, school, page, fails, history>>
StartNow(u) == /\ "start" \in Routes /\ page[u] # NoPage
               /\ \E p \in Plans : Open(p) /\ Finds(u, "start", p)
\* startDue: the list of what is due is read before its plans are applied, one by one.
StartDue(c) == \E p \in Plans : plan[p].status = "SCHEDULED" /\ Finds(c, "cron", p)

ApplyRead(q) ==
    LET p == req[q].plan IN
    /\ req[q].at = "found"
    /\ IF Open(p) /\ (req[q].op = "cron" \/ VersionFits(q, p)) THEN Goes(q, "read") ELSE Ends(q)
    /\ UNCHANGED <<plan, decided, receipt, school, page, fails, history>>

\* Mutant: only a draft is claimed.
DraftsOnly(p) == plan[p].status = "DRAFT"
\* Mutant: the claim takes the plan whatever has become of it.
Whatever(p) == TRUE
Claimable(p) == Open(p)
\* The conditional update: it waits for the row, then looks again.
Claim(q) ==
    /\ At(q, {"start", "cron"}, "read") /\ RowFree(req[q].plan)
    /\ IF Claimable(req[q].plan) THEN Goes(q, "claimed") ELSE Ends(q)
    /\ UNCHANGED <<plan, decided, receipt, school, page, fails, history>>

\* A child of the roll that Start cannot place: UNDECIDED_STUDENTS, BAD_TARGET.
Refuses(p, s) == decided[p][s] \notin Leavings \union In(plan[p].to)
\* One such child and nothing is started: the claim is rolled back.
ReadRoll(q) ==
    LET p == req[q].plan
        rows == [s \in Children |-> IF s \in Roll(p) THEN decided[p][s] ELSE "none"] IN
    /\ req[q].at = "claimed"
    /\ IF \A s \in Roll(p) : ~Refuses(p, s)
       THEN req' = [req EXCEPT ![q].at = "writing", ![q].rows = rows]
       ELSE Ends(q)
    /\ UNCHANGED <<plan, decided, receipt, school, page, fails, history>>

\* Mutant: a leaver's decision is written as its status.
WrittenAsDecided(s, choice) ==
    IF choice \in Classes THEN [child[s] EXCEPT !.class = choice]
    ELSE [child[s] EXCEPT !.status = choice]
\* A seat is written for whoever was on the roll; a leaver only if still active.
Writes(s, choice) == choice \in Classes \/ (choice \in Leavings /\ child[s].status = "ACTIVE")
Moved(s, choice) ==
    IF choice \in Classes THEN [child[s] EXCEPT !.class = choice]
    ELSE [child[s] EXCEPT !.status = IF choice = "LEAVE" THEN "LEFT" ELSE "ALUMNI"]
Flipped(p) == (current \ {plan[p].from}) \union {plan[p].to}
Reviewed(q) == IF req[q].op = "cron" THEN approved[req[q].plan] ELSE page[q]
Differs(q) ==
    /\ Reviewed(q).plan = req[q].plan
    /\ \E s \in Children : req[q].rows[s] \notin {"none", Reviewed(q).decided[s]}
Seatless(q) == \E s \in Children : req[q].rows[s] \in In(Removed)
Apply(q) ==
    LET p == req[q].plan
        rows == req[q].rows IN
    /\ req[q].at = "writing" /\ ~Seatless(q)
    /\ plan' = [plan EXCEPT ![p].status = "STARTED"]
    /\ child' = [s \in Children |-> IF Writes(s, rows[s]) THEN Moved(s, rows[s]) ELSE child[s]]
    /\ receipt' = [receipt EXCEPT ![p] = @ \union {s \in Children : rows[s] # "none"}]
    /\ current' = Flipped(p)
    /\ over' = over \union {p}
    /\ again' = again \union ({p} \intersect over)
    /\ done' = [done EXCEPT ![p] = [s \in Children |-> IF Writes(s, rows[s]) THEN rows[s] ELSE @[s]]]
    /\ surprised' = (surprised \/ Differs(q))
    /\ Ends(q)
    /\ UNCHANGED <<decided, section, moves, page, fails, reopened, approved>>
\* The foreign key: no child is given a class that was removed since the roll was read.
NoSeat(q) ==
    /\ req[q].at = "writing" /\ Seatless(q)
    /\ Ends(q)
    /\ UNCHANGED <<plan, decided, receipt, school, page, fails, history>>

-----------------------------------------------------------------------------
(* Children and classes come and go by other routes; requests fail.        *)

\* Into any class there is.
Admit(s) ==
    /\ child[s].status = "none"
    /\ \E c \in Classes : /\ section[c] \in Years
                          /\ child' = [child EXCEPT ![s] = [status |-> "ACTIVE", class |-> c]]
    /\ UNCHANGED <<plan, decided, receipt, section, current, moves, page, req, fails, history>>

\* A class is moved to another year with its children, whatever plans name it.
MoveClass(c) ==
    /\ "classes" \in Routes /\ section[c] \in Years /\ moves < MaxMoves
    /\ \E y \in Years \ {section[c]} : section' = [section EXCEPT ![c] = y]
    /\ moves' = moves + 1
    /\ UNCHANGED <<plan, decided, receipt, child, current, page, req, fails, history>>
\* onDelete: SetNull for its children; the decisions keep its id.
RemoveClass(c) ==
    /\ "classes" \in Routes /\ section[c] \in Years /\ moves < MaxMoves
    /\ section' = [section EXCEPT ![c] = Removed] /\ moves' = moves + 1
    /\ child' = [s \in Children |-> IF child[s].class = c THEN [child[s] EXCEPT !.class = NoClass] ELSE child[s]]
    /\ UNCHANGED <<plan, decided, receipt, current, page, req, fails, history>>

\* applyStudentLeave: the class is kept, it is the child's last.
LeaveRead(u) ==
    /\ \E s \in Children : child[s].status = "ACTIVE" /\ Begins(u, "leave", [Idle EXCEPT !.child = s])
    /\ UNCHANGED <<plan, decided, receipt, school, page, fails, history>>
Leave(u) ==
    /\ At(u, {"leave"}, "read")
    /\ child' = [child EXCEPT ![req[u].child].status = "LEFT"]
    /\ Ends(u)
    /\ UNCHANGED <<plan, decided, receipt, section, current, moves, page, fails, history>>

\* A transaction that fails, or takes more than its ten seconds, writes nothing.
Fail(q) ==
    /\ req[q] # Idle /\ fails < MaxFails
    /\ fails' = fails + 1
    /\ Ends(q)
    /\ UNCHANGED <<plan, decided, receipt, school, page, history>>

-----------------------------------------------------------------------------
Comes(u) == \/ CreateRead(u) \/ UpdatePlan(u) \/ UpsertDecisions(u) \/ ApplyDefaults(u)
            \/ CancelRead(u) \/ Review(u) \/ ScheduleGate(u) \/ StartNow(u) \/ LeaveRead(u)
\* A request that has begun runs on.
Progress(q) == \/ Create(q) \/ Save(q) \/ Cancel(q) \/ Schedule(q) \/ Leave(q)
               \/ ApplyRead(q) \/ Claim(q) \/ ReadRoll(q) \/ Apply(q) \/ NoSeat(q)
Next == \/ \E u \in Office : Comes(u)
        \/ \E c \in Crons : StartDue(c)
        \/ \E q \in Requests : Progress(q) \/ Fail(q)
        \/ \E s \in Children : Admit(s)
        \/ \E c \in Classes : MoveClass(c) \/ RemoveClass(c)

\* The day of a scheduled plan comes, and the cron is called again.
Fairness == /\ \A q \in Requests : WF_vars(Progress(q))
            /\ \A c \in Crons : WF_vars(StartDue(c))
Safety == Init /\ [][Next]_vars
Spec == Safety /\ Fairness

-----------------------------------------------------------------------------
(* Properties.                                                             *)

\* applyPlan: two clicks, or the cron and a click, cannot both apply a plan, and a plan
\* that was cancelled is not applied.  Except a plan that start has reopened: a request to
\* schedule it, past its gate while the plan was still open, writes SCHEDULED by id on
\* what is STARTED or CANCELLED by then, and the cron applies it (again).
AppliedOnce == again \subseteq reopened

\* register: what the register of a plan that is STARTED says of each decided child.  A row
\* with a receipt: the decision is what Start wrote for the child, unless it wrote nothing
\* because the child it let go had left by another route since the roll was read.  A row
\* without: Start wrote nothing for the child.  A plan overwritten by a late cancel or
\* schedule has no register, and the property says nothing of it.
RegisterTellsTruth == \A p \in Plans : plan[p].status = "STARTED" =>
    \A s \in Children : decided[p][s] # "none" =>
        IF s \in receipt[p]
        THEN \/ done[p][s] = decided[p][s]
             \/ /\ done[p][s] = "none" /\ decided[p][s] \in Leavings
                /\ child[s].status \in {"ALUMNI", "LEFT"}
        ELSE done[p][s] = "none"

\* start: a plan started from a review of that plan, now or on its day, has the decisions of
\* the review.  A page of another plan, whose number happens to fit, is not a review of it
\* (Differs): of that the property says nothing.
StartsWhatWasReviewed == ~surprised

\* startDue: a scheduled plan is started, or is over, unless a child of the closing year
\* has no decision or a seat that is no longer in the next year: then every call of the
\* cron gives up.
DuePlansEnd == \A p \in Plans :
    plan[p].status = "SCHEDULED" ~>
        (plan[p].status # "SCHEDULED" \/ \E s \in Roll(p) : Refuses(p, s))
====
