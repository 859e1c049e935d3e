---- MODULE Outbox ----
(***************************************************************************)
(* The school API's notification outbox: rows written by other modules'    *)
(* transactions, turned into one delivery per person and channel, and sent *)
(* by drains that run at the same time in different serverless             *)
(* invocations, each of which may be killed between any two statements.    *)
(*                                                                         *)
(* A claim is the stamp `claimedAt`: here the drain that wrote it and      *)
(* whether it is older than CLAIM_TTL_MS.  An invocation lives at most     *)
(* 60 s and the TTL is 5 min, so a stamp never becomes stale while the     *)
(* invocation that wrote it still works on the row.                        *)
(***************************************************************************)
EXTENDS Integers, FiniteSets

CONSTANTS
    Drains,        \* invocations that may run at the same time
    Rows,          \* NotificationOutbox rows
    Deliveries,    \* (outboxId, userId, channel) triples, a unique key
    RowOf,         \* the outboxId of each
    Nobody,        \* claimedAt IS NULL
    MaxAttempts,   \* MAX_ATTEMPTS, for expansions
    MaxRetries,    \* DELIVERY_BACKOFF_MS.length
    Concurrency,   \* DELIVERY_CONCURRENCY
    BatchCap,      \* DELIVERY_BATCH_CAP
    MaxFaults      \* bound: failures of the platform in one behaviour

ASSUME OutboxAssumption ==
    /\ RowOf \in [Deliveries -> Rows]
    /\ Nobody \notin Drains
    /\ IsFiniteSet(Drains)
    /\ MaxAttempts \in Nat \ {0}
    /\ MaxRetries \in Nat
    /\ Concurrency \in Nat \ {0}
    /\ BatchCap \in Nat \ {0}
    /\ MaxFaults \in Nat

VARIABLES
    row,        \* NotificationOutbox: sentAt and expandedAt as a status, attempts, claim
    delivery,   \* NotificationDelivery: status, failures, whether nextAttemptAt has come, claim
    phase,      \* where each drain is
    expanding,  \* the claimed rows each drain has in hand
    work,       \* the claimed deliveries each drain, or its hung sends, has in hand
    told,       \* deliveries a provider has taken at least once
    surplus,    \* times a provider took it, less the times a failure excuses
    faults      \* failures left

vars == <<row, delivery, phase, expanding, work, told, surplus, faults>>

Free == [by |-> Nobody, stale |-> FALSE]
Claim(d) == [by |-> d, stale |-> FALSE]
Claims == [by : Drains \union {Nobody}, stale : BOOLEAN]
\* Mutant: an abandoned claim is never taken over.
FreeOnly(c) == c.by = Nobody
Claimable(c) == c.by = Nobody \/ c.stale

\* FAILED stands for every end without a send: FAILED, SKIPPED, SUPPRESSED.
Outcomes == {"SENT", "FAILED", "RETRY"}
DeliveriesOf(r) == {x \in Deliveries : RowOf[x] = r}
Queued(d) == {x \in Deliveries : work[d][x] = "queued"}
InFlight(d) == {x \in Deliveries : work[d][x] \in {"trying"} \union Outcomes}

TypeOK ==
    /\ row \in [Rows -> [status : {"none", "unexpanded", "expanded", "sent", "purged"},
                         attempts : 0..MaxAttempts, claim : Claims]]
    /\ delivery \in [Deliveries -> [status : {"none", "QUEUED", "SENT", "FAILED", "purged"},
                                    failures : 0..(MaxRetries + 1), due : BOOLEAN, claim : Claims]]
    /\ phase \in [Drains -> {"idle", "expand", "send", "close", "purge"}]
    /\ expanding \in [Drains -> [Rows -> {"none", "claimed", "created"}]]
    /\ work \in [Drains -> [Deliveries -> {"none", "queued", "trying"} \union Outcomes]]
    /\ told \subseteq Deliveries
    /\ surplus \in [Deliveries -> Int]
    /\ faults \in 0..MaxFaults

Init ==
    /\ row = [r \in Rows |-> [status |-> "none", attempts |-> 0, claim |-> Free]]
    /\ delivery = [x \in Deliveries |->
                     [status |-> "none", failures |-> 0, due |-> TRUE, claim |-> Free]]
    /\ phase = [d \in Drains |-> "idle"]
    /\ expanding = [d \in Drains |-> [r \in Rows |-> "none"]]
    /\ work = [d \in Drains |-> [x \in Deliveries |-> "none"]]
    /\ told = {}
    /\ surplus = [x \in Deliveries |-> 0]
    /\ faults = MaxFaults

Fault == faults > 0 /\ faults' = faults - 1

-----------------------------------------------------------------------------
(* Expansion: outbox rows become delivery rows.                            *)

\* A writer's transaction commits with its notification in it.
Enqueue(r) ==
    /\ row[r].status = "none"
    /\ row' = [row EXCEPT ![r].status = "unexpanded"]
    /\ UNCHANGED <<delivery, phase, expanding, work, told, surplus, faults>>

Expandable == {r \in Rows : /\ row[r].status = "unexpanded"
                            /\ row[r].attempts < MaxAttempts
                            /\ Claimable(row[r].claim)}

\* A drain begins and claims its rows in one statement.
Start(d) ==
    /\ phase[d] = "idle"
    /\ \A x \in Deliveries : work[d][x] = "none"
    /\ row' = [r \in Rows |-> IF r \in Expandable
                               THEN [row[r] EXCEPT !.claim = Claim(d)] ELSE row[r]]
    /\ expanding' = [expanding EXCEPT ![d] = [r \in Rows |->
                        IF r \in Expandable THEN "claimed" ELSE "none"]]
    /\ phase' = [phase EXCEPT ![d] = "expand"]
    /\ UNCHANGED <<delivery, work, told, surplus, faults>>

BetweenRows(d) == \A r \in Rows : expanding[d][r] # "created"

\* createMany with skipDuplicates, for the people found now.
CreateDeliveries(d, r) ==
    /\ phase[d] = "expand"
    /\ expanding[d][r] = "claimed" /\ BetweenRows(d)
    /\ \E people \in SUBSET DeliveriesOf(r) :
          delivery' = [x \in Deliveries |->
                        IF x \in people /\ delivery[x].status = "none"
                        THEN [delivery[x] EXCEPT !.status = "QUEUED"] ELSE delivery[x]]
    /\ expanding' = [expanding EXCEPT ![d][r] = "created"]
    /\ UNCHANGED <<row, phase, work, told, surplus, faults>>

\* The second statement: expandedAt, and the claim handed back.
MarkExpanded(d, r) ==
    /\ expanding[d][r] = "created"
    /\ row' = [row EXCEPT ![r] = [@ EXCEPT !.status = "expanded", !.claim = Free]]
    /\ expanding' = [expanding EXCEPT ![d][r] = "none"]
    /\ UNCHANGED <<delivery, phase, work, told, surplus, faults>>

\* Either statement throws: an attempt is counted and the claim stamped anew,
\* which makes the TTL the back-off.
ExpansionFails(d, r) ==
    /\ \/ expanding[d][r] = "created"
       \/ expanding[d][r] = "claimed" /\ BetweenRows(d)
    /\ row' = [row EXCEPT ![r] = [row[r] EXCEPT !.attempts = @ + 1, !.claim = Claim(d)]]
    /\ expanding' = [expanding EXCEPT ![d][r] = "none"]
    /\ UNCHANGED <<delivery, phase, work, told, surplus, faults>>

\* The failure cannot be recorded either: the old claim lapses.
FailureUnrecorded(d, r) ==
    /\ Fault
    /\ \/ expanding[d][r] = "created"
       \/ expanding[d][r] = "claimed" /\ BetweenRows(d)
    /\ expanding' = [expanding EXCEPT ![d][r] = "none"]
    /\ UNCHANGED <<row, delivery, phase, work, told, surplus>>

\* Out of time: the rows not reached are released by id and no delivery is
\* claimed ("close"); or the delivery table is not there yet ("idle").
StopExpanding(d) ==
    /\ Fault
    /\ phase[d] = "expand" /\ BetweenRows(d)
    /\ row' = [r \in Rows |-> IF expanding[d][r] = "claimed"
                               THEN [row[r] EXCEPT !.claim = Free] ELSE row[r]]
    /\ expanding' = [expanding EXCEPT ![d] = [r \in Rows |-> "none"]]
    /\ \E p \in {"close", "idle"} : phase' = [phase EXCEPT ![d] = p]
    /\ UNCHANGED <<delivery, work, told, surplus>>

-----------------------------------------------------------------------------
(* Delivery.                                                               *)

\* Mutant: the claim statement does not look at claimedAt.
DueAtAll == {x \in Deliveries : delivery[x].status = "QUEUED" /\ delivery[x].due}
Sendable == {x \in Deliveries : /\ delivery[x].status = "QUEUED"
                                /\ delivery[x].due
                                /\ Claimable(delivery[x].claim)}

\* Due deliveries are claimed in one statement, up to the cap.
ClaimDue(d) ==
    /\ phase[d] = "expand"
    /\ \A r \in Rows : expanding[d][r] = "none"
    /\ \E batch \in SUBSET Sendable :
          /\ batch = Sendable \/ Cardinality(batch) = BatchCap
          /\ Cardinality(batch) <= BatchCap
          /\ delivery' = [x \in Deliveries |-> IF x \in batch
                           THEN [delivery[x] EXCEPT !.claim = Claim(d)] ELSE delivery[x]]
          /\ work' = [work EXCEPT ![d] = [x \in Deliveries |->
                           IF x \in batch THEN "queued" ELSE "none"]]
    /\ phase' = [phase EXCEPT ![d] = "send"]
    /\ UNCHANGED <<row, expanding, told, surplus, faults>>

\* The next chunk starts when the one before it has settled.
StartChunk(d) ==
    /\ phase[d] = "send"
    /\ InFlight(d) = {}
    /\ \E chunk \in SUBSET Queued(d) \ {{}} :
          /\ chunk = Queued(d) \/ Cardinality(chunk) = Concurrency
          /\ Cardinality(chunk) <= Concurrency
          /\ work' = [work EXCEPT ![d] = [x \in Deliveries |->
                           IF x \in chunk THEN "trying" ELSE work[d][x]]]
    /\ UNCHANGED <<row, delivery, phase, expanding, told, surplus, faults>>

\* One send, in the drain that started it or long after that drain returned.
\* SENT and some failures (a timeout after the provider took it) reach the
\* provider.
Attempt(d, x) ==
    /\ work[d][x] = "trying"
    /\ \E outcome \in Outcomes :
          /\ work' = [work EXCEPT ![d][x] = outcome]
          /\ told' \in IF outcome = "SENT" THEN {told \union {x}}
                       ELSE IF outcome = "RETRY" THEN {told, told \union {x}} ELSE {told}
          /\ surplus' = IF outcome = "SENT" THEN [surplus EXCEPT ![x] = @ + 1] ELSE surplus
    /\ UNCHANGED <<row, delivery, phase, expanding, faults>>

\* What record() writes for an outcome.
Recorded(old, outcome) ==
    IF outcome # "RETRY"
    THEN [old EXCEPT !.status = outcome, !.claim = Free]
    ELSE IF old.failures + 1 > MaxRetries
         THEN [old EXCEPT !.status = "FAILED", !.failures = @ + 1, !.claim = Free]
         ELSE [old EXCEPT !.status = "QUEUED", !.failures = @ + 1, !.due = FALSE, !.claim = Free]

\* Mutant: the status write does not compare claimedAt.
AnyClaim(d, x) == TRUE

\* The row still carries the stamp this drain's claim wrote.  A drain begins
\* only when its old sends are gone, so its name stands for one stamp.
OwnClaim(d, x) == delivery[x].claim.by = d

Record(d, x) ==
    /\ work[d][x] \in Outcomes
    /\ delivery' = IF OwnClaim(d, x)
                   THEN [delivery EXCEPT ![x] = Recorded(@, work[d][x])] ELSE delivery
    /\ work' = [work EXCEPT ![d][x] = "none"]
    /\ UNCHANGED <<row, phase, expanding, told, surplus, faults>>

\* Sends taken by the provider whose outcome will not be written.
Excuse(S) == surplus' = [x \in Deliveries |-> IF x \in S THEN surplus[x] - 1 ELSE surplus[x]]

\* The status write fails; the claim stands until it lapses.
RecordFails(d, x) ==
    /\ Fault
    /\ work[d][x] \in Outcomes
    /\ work' = [work EXCEPT ![d][x] = "none"]
    /\ Excuse({x} \intersect {y \in Deliveries : work[d][y] = "SENT"})
    /\ UNCHANGED <<row, delivery, phase, expanding, told>>

\* release(): claims cleared by id.  It may fail; then they lapse.
Release(S) ==
    \/ delivery' = [x \in Deliveries |->
                      IF x \in S THEN [delivery[x] EXCEPT !.claim = Free] ELSE delivery[x]]
    \/ delivery' = delivery

\* Mutant: the deadline is looked at in the middle of a chunk, which goes on.
ReleaseMidChunk(d) ==
    /\ Fault
    /\ phase[d] = "send"
    /\ Release(Queued(d) \union InFlight(d))
    /\ work' = [work EXCEPT ![d] = [x \in Deliveries |->
                    IF work[d][x] = "queued" THEN "none" ELSE work[d][x]]]
    /\ phase' = [phase EXCEPT ![d] = "close"]
    /\ UNCHANGED <<row, expanding, told, surplus>>

\* The lookups failed, or the deadline came between two chunks.
ReleaseUnstarted(d) ==
    /\ Fault
    /\ phase[d] = "send"
    /\ InFlight(d) = {}
    /\ Release(Queued(d))
    /\ work' = [work EXCEPT ![d] = [x \in Deliveries |-> "none"]]
    /\ phase' = [phase EXCEPT ![d] = "close"]
    /\ UNCHANGED <<row, expanding, told, surplus>>

\* A chunk is still in flight at the hard stop: it is left behind, with its claims.
HardStop(d) ==
    /\ Fault
    /\ phase[d] = "send"
    /\ InFlight(d) # {}
    /\ Release(Queued(d))
    /\ work' = [work EXCEPT ![d] = [x \in Deliveries |->
                    IF work[d][x] = "queued" THEN "none" ELSE work[d][x]]]
    /\ phase' = [phase EXCEPT ![d] = "close"]
    /\ Excuse(InFlight(d))
    /\ UNCHANGED <<row, expanding, told>>

AllSent(d) ==
    /\ phase[d] = "send"
    /\ \A x \in Deliveries : work[d][x] = "none"
    /\ phase' = [phase EXCEPT ![d] = "close"]
    /\ UNCHANGED <<row, delivery, expanding, work, told, surplus, faults>>

-----------------------------------------------------------------------------
(* Closing and retention.                                                  *)

Addressed(r) == \E x \in DeliveriesOf(r) : delivery[x].status # "none"

\* Mutant: a parked row is left alone even if its people were told.
FinishedExpanded(r) ==
    /\ row[r].status = "expanded"
    /\ \A x \in DeliveriesOf(r) : delivery[x].status # "QUEUED"

\* Expanded, or parked with its deliveries written; and none of them waits.
Finished(r) ==
    /\ \/ row[r].status = "expanded"
       \/ /\ row[r].status = "unexpanded"
          /\ row[r].attempts >= MaxAttempts
          /\ Addressed(r)
    /\ \A x \in DeliveriesOf(r) : delivery[x].status # "QUEUED"

CloseFinished(d) ==
    /\ phase[d] = "close"
    /\ row' = [r \in Rows |-> IF Finished(r)
                               THEN [row[r] EXCEPT !.status = "sent", !.claim = Free] ELSE row[r]]
    /\ phase' = [phase EXCEPT ![d] = "purge"]
    /\ UNCHANGED <<delivery, expanding, work, told, surplus, faults>>

CloseFails(d) ==
    /\ Fault
    /\ phase[d] = "close"
    /\ phase' = [phase EXCEPT ![d] = "purge"]
    /\ UNCHANGED <<row, delivery, expanding, work, told, surplus>>

\* Only the cron's drain sweeps, and what it finds older than thirty days.
\* Deliveries go with their row (ON DELETE CASCADE).
Purgeable == {r \in Rows : row[r].status = "sent"}

PurgeDelivered(d) ==
    /\ phase[d] = "purge"
    /\ \E old \in SUBSET Purgeable :
          /\ row' = [r \in Rows |-> IF r \in old THEN [row[r] EXCEPT !.status = "purged"] ELSE row[r]]
          /\ delivery' = [x \in Deliveries |->
                            IF RowOf[x] \in old /\ delivery[x].status # "none"
                            THEN [delivery[x] EXCEPT !.status = "purged", !.claim = Free]
                            ELSE delivery[x]]
    /\ phase' = [phase EXCEPT ![d] = "idle"]
    /\ UNCHANGED <<expanding, work, told, surplus, faults>>

-----------------------------------------------------------------------------
(* The platform: invocations end, time passes.                             *)

\* The function is killed at its ceiling, or the instance dies.
Kill(d) ==
    /\ Fault
    /\ phase[d] # "idle"
    /\ phase' = [phase EXCEPT ![d] = "idle"]
    /\ expanding' = [expanding EXCEPT ![d] = [r \in Rows |-> "none"]]
    /\ work' = [work EXCEPT ![d] = [x \in Deliveries |-> "none"]]
    /\ Excuse(IF phase[d] = "send" THEN {x \in Deliveries : work[d][x] = "SENT"} ELSE {})
    /\ UNCHANGED <<row, delivery, told>>

\* Sends left behind by a drain that has returned are lost with their instance.
Recycle(d) ==
    /\ phase[d] = "idle"
    /\ \E x \in Deliveries : work[d][x] # "none"
    /\ work' = [work EXCEPT ![d] = [x \in Deliveries |-> "none"]]
    /\ UNCHANGED <<row, delivery, phase, expanding, told, surplus, faults>>

\* A claim grows older than the TTL; its invocation is over by then.
LapseRow(r) ==
    /\ row[r].claim.by # Nobody /\ ~row[r].claim.stale
    /\ expanding[row[r].claim.by][r] = "none"
    /\ row' = [row EXCEPT ![r].claim.stale = TRUE]
    /\ UNCHANGED <<delivery, phase, expanding, work, told, surplus, faults>>

LapseDelivery(x) ==
    /\ delivery[x].claim.by # Nobody /\ ~delivery[x].claim.stale
    /\ LET d == delivery[x].claim.by IN phase[d] = "idle" \/ work[d][x] = "none"
    /\ delivery' = [delivery EXCEPT ![x].claim.stale = TRUE]
    /\ UNCHANGED <<row, phase, expanding, work, told, surplus, faults>>

\* nextAttemptAt comes.
BecomeDue(x) ==
    /\ ~delivery[x].due
    /\ delivery' = [delivery EXCEPT ![x].due = TRUE]
    /\ UNCHANGED <<row, phase, expanding, work, told, surplus, faults>>

-----------------------------------------------------------------------------

\* What a drain does next by itself.
Progress(d) ==
    \/ \E r \in Rows : CreateDeliveries(d, r) \/ MarkExpanded(d, r) \/ ExpansionFails(d, r)
    \/ ClaimDue(d) \/ StartChunk(d) \/ AllSent(d) \/ CloseFinished(d) \/ PurgeDelivered(d)
    \/ \E x \in Deliveries : Attempt(d, x) \/ Record(d, x)

\* What may go wrong with it.
Trouble(d) ==
    \/ \E r \in Rows : FailureUnrecorded(d, r)
    \/ \E x \in Deliveries : RecordFails(d, x)
    \/ StopExpanding(d) \/ ReleaseUnstarted(d) \/ HardStop(d) \/ CloseFails(d) \/ Kill(d)

Next ==
    \/ \E r \in Rows : Enqueue(r) \/ LapseRow(r)
    \/ \E x \in Deliveries : LapseDelivery(x) \/ BecomeDue(x)
    \/ \E d \in Drains : Start(d) \/ Progress(d) \/ Trouble(d) \/ Recycle(d)

\* The ten-minute workflow and the nightly cron keep starting drains; a drain
\* that is neither killed nor out of time goes on; time passes.
Fairness ==
    /\ \A d \in Drains : WF_vars(Start(d)) /\ WF_vars(Progress(d)) /\ WF_vars(Recycle(d))
    /\ \A r \in Rows : WF_vars(LapseRow(r))
    /\ \A x \in Deliveries : WF_vars(LapseDelivery(x)) /\ WF_vars(BecomeDue(x))

Safety == Init /\ [][Next]_vars
Spec == Safety /\ Fairness

-----------------------------------------------------------------------------
(* Properties.                                                             *)

\* Two drains that are both running never have the same delivery in hand: the
\* claim statement, the releases by id and the lapse of claims leave no window
\* for a second send ("never claimed twice", sendDue).
OneDrainPerDelivery ==
    \A d, e \in Drains : d # e /\ phase[d] # "idle" /\ phase[e] # "idle" =>
        \A x \in Deliveries : work[d][x] = "none" \/ work[e][x] = "none"

\* A provider takes a delivery once, and once more for each send whose outcome
\* was lost to a crash, a hung provider, a failed status write or an error
\* after acceptance.  Overlapping drains alone never repeat a message.
RepeatsAreExcused == \A x \in Deliveries : surplus[x] <= 1

\* How rows and deliveries look to whoever is promised something.
NoticeState == [r \in Rows |->
    CASE row[r].status \in {"unexpanded", "expanded"} -> "owed"
      [] row[r].status = "sent" -> "settled"
      [] row[r].status = "purged" -> "forgotten"
      [] OTHER -> "none"]

MessageState == [x \in Deliveries |->
    CASE delivery[x].status = "QUEUED" -> "owed"
      [] delivery[x].status = "SENT" -> "told"
      [] delivery[x].status = "FAILED" -> "dropped"
      [] delivery[x].status = "purged" -> "forgotten"
      [] OTHER -> "none"]

Promise == INSTANCE OutboxPromise WITH
    Notices <- Rows, Messages <- Deliveries, NoticeOf <- RowOf,
    notice <- NoticeState, message <- MessageState, accepted <- told

\* The outbox keeps its promise: rows are settled only when nobody waits,
\* ends are final, SENT means a provider took it, the sweep forgets only
\* settled rows.
PromiseKept == Promise!Spec

\* Once failures stop, every delivery reaches an end: an abandoned claim lapses
\* and is taken again, a failed send is tried again until it succeeds or its
\* retries are used up.
EveryDeliveryEnds == Promise!EveryMessageEnds

\* Once failures stop, every row is closed, except one parked without a single
\* delivery, which waits for an operator.
EveryRowCloses ==
    \A r \in Rows : row[r].status = "unexpanded" ~>
        \/ row[r].status \in {"sent", "purged"}
        \/ row[r].attempts = MaxAttempts /\ ~Addressed(r)
====
