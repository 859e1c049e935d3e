---- MODULE OutboxProofs ----
(***************************************************************************)
(* Proofs about Outbox for any number of drains, rows and deliveries, any  *)
(* retry limits and any number of failures.                                *)
(***************************************************************************)
EXTENDS Outbox, FiniteSetTheorems, TLAPS

\* A row that a drain expands is unexpanded, has an attempt left and carries
\* that drain's stamp.
RowsInHand ==
    \A d \in Drains, r \in Rows : expanding[d][r] # "none" =>
        /\ row[r].status = "unexpanded"
        /\ row[r].attempts < MaxAttempts
        /\ row[r].claim = Claim(d)

\* So does a delivery that a running drain has in hand.
DeliveriesInHand ==
    \A d \in Drains, x \in Deliveries :
        phase[d] # "idle" /\ work[d][x] # "none" => delivery[x].claim = Claim(d)

\* What is in hand, or was left in hand by a drain that returned, exists; an
\* outcome SENT was taken by the provider.
WorkExists ==
    \A d \in Drains, x \in Deliveries :
        /\ work[d][x] # "none" => delivery[x].status # "none"
        /\ work[d][x] = "SENT" => x \in told

\* Only deliveries that wait are claimed, and they have a retry left.
ClaimedWait ==
    \A x \in Deliveries :
        /\ delivery[x].claim.by # Nobody => delivery[x].status = "QUEUED"
        /\ delivery[x].status \in {"none", "QUEUED"} => delivery[x].failures <= MaxRetries

\* No delivery of a closed row waits.
SettledDone ==
    \A x \in Deliveries :
        row[RowOf[x]].status \in {"sent", "purged"} => delivery[x].status # "QUEUED"

IInv == TypeOK /\ RowsInHand /\ DeliveriesInHand /\ WorkExists /\ ClaimedWait /\ SettledDone

LEMMA InitIInv == ASSUME Init PROVE IInv
  BY OutboxAssumption DEF Init, IInv, TypeOK, RowsInHand, DeliveriesInHand, WorkExists,
     ClaimedWait, SettledDone, Free, Claims, Claim

-----------------------------------------------------------------------------
(* Steps that change outbox rows.                                          *)

RowState == {"none", "unexpanded", "expanded", "sent", "purged"}
RowType == [status : RowState, attempts : 0..MaxAttempts, claim : Claims]
DeliveryType == [status : {"none", "QUEUED", "SENT", "FAILED", "purged"},
                 failures : 0..(MaxRetries + 1), due : BOOLEAN, claim : Claims]

LEMMA ClaimTypes ==
    /\ Free \in Claims
    /\ \A d \in Drains : Claim(d) \in Claims
  BY DEF Free, Claims, Claim

LEMMA FreshClaim == ASSUME NEW d \in Drains PROVE ~Claimable(Claim(d))
  BY OutboxAssumption DEF Claimable, Claim

LEMMA ClaimNamesDrain == ASSUME NEW d \in Drains, NEW e \in Drains, Claim(d) = Claim(e) PROVE d = e
  <1>1. Claim(d).by = Claim(e).by OBVIOUS
  <1> QED BY <1>1 DEF Claim

LEMMA FaultType == ASSUME TypeOK, Fault PROVE faults' \in 0..MaxFaults
  BY OutboxAssumption DEF TypeOK, Fault

LEMMA EnqueueStep == ASSUME IInv, NEW r \in Rows, Enqueue(r) PROVE IInv'
  <1> USE DEF IInv, Enqueue
  <1>1. TypeOK' BY DEF TypeOK
  <1>2. RowsInHand' BY DEF RowsInHand, TypeOK
  <1>3. (DeliveriesInHand /\ WorkExists /\ ClaimedWait)'
    BY DEF DeliveriesInHand, WorkExists, ClaimedWait
  <1>4. SettledDone' BY OutboxAssumption DEF SettledDone, TypeOK
  <1> QED BY <1>1, <1>2, <1>3, <1>4

LEMMA StartStep == ASSUME IInv, NEW d \in Drains, Start(d) PROVE IInv'
  <1> USE DEF IInv, Start
  <1>1. TypeOK' BY ClaimTypes, SMTT(30) DEF TypeOK, Expandable
  <1>2. RowsInHand'
    <2> SUFFICES ASSUME NEW e \in Drains, NEW r \in Rows, expanding'[e][r] # "none"
                 PROVE  /\ row'[r].status = "unexpanded"
                        /\ row'[r].attempts < MaxAttempts
                        /\ row'[r].claim = Claim(e)
      BY DEF RowsInHand
    <2>1. CASE e = d BY <2>1 DEF TypeOK, Expandable
    <2>2. CASE e # d
      <3>1. expanding[e][r] # "none" BY <2>2 DEF TypeOK
      <3>2. r \notin Expandable
        BY <3>1, FreshClaim DEF RowsInHand, Expandable
      <3> QED BY <3>1, <3>2 DEF RowsInHand
    <2> QED BY <2>1, <2>2
  <1>3. DeliveriesInHand' BY DEF DeliveriesInHand, TypeOK
  <1>4. (WorkExists /\ ClaimedWait)' BY DEF WorkExists, ClaimedWait
  <1>5. SettledDone' BY OutboxAssumption DEF SettledDone, TypeOK, Expandable
  <1> QED BY <1>1, <1>2, <1>3, <1>4, <1>5

LEMMA CreateDeliveriesStep ==
    ASSUME IInv, NEW d \in Drains, NEW r \in Rows, CreateDeliveries(d, r) PROVE IInv'
  <1> USE DEF IInv, CreateDeliveries
  <1>1. PICK people \in SUBSET DeliveriesOf(r) :
          delivery' = [x \in Deliveries |->
                        IF x \in people /\ delivery[x].status = "none"
                        THEN [delivery[x] EXCEPT !.status = "QUEUED"] ELSE delivery[x]]
    OBVIOUS
  <1>2. TypeOK'
    <2> HIDE DEF CreateDeliveries
    <2>1. delivery \in [Deliveries -> DeliveryType] BY DEF TypeOK, DeliveryType
    <2> HIDE DEF IInv
    <2>2. delivery' \in [Deliveries -> DeliveryType] BY <1>1, <2>1 DEF DeliveryType
    <2> HIDE <1>1
    <2> QED BY <2>2 DEF TypeOK, DeliveryType, IInv, CreateDeliveries
  <1>3. RowsInHand' BY DEF RowsInHand, TypeOK
  <1>4. DeliveriesInHand' BY <1>1 DEF DeliveriesInHand, TypeOK
  <1>5. WorkExists' BY <1>1 DEF WorkExists, TypeOK
  <1>6. ClaimedWait' BY <1>1 DEF ClaimedWait, TypeOK
  <1>7. row[r].status = "unexpanded" BY DEF RowsInHand
  <1>8. SettledDone' BY <1>1, <1>7, OutboxAssumption DEF SettledDone, TypeOK, DeliveriesOf
  <1> QED BY <1>2, <1>3, <1>4, <1>5, <1>6, <1>8

LEMMA MarkExpandedStep ==
    ASSUME IInv, NEW d \in Drains, NEW r \in Rows, MarkExpanded(d, r) PROVE IInv'
  <1> USE DEF IInv, MarkExpanded
  <1>0. row[r].status = "unexpanded" /\ row[r].claim = Claim(d) BY DEF RowsInHand
  <1>1. TypeOK'
    <2>1. row \in [Rows -> RowType] BY DEF TypeOK, RowType, RowState
    <2>2. [row[r] EXCEPT !.status = "expanded", !.claim = Free] \in RowType
      BY <2>1, ClaimTypes DEF RowType, RowState
    <2>3. row' \in [Rows -> RowType] BY <2>1, <2>2
    <2> QED BY <2>3 DEF TypeOK, RowType, RowState
  <1>2. RowsInHand'
    <2> SUFFICES ASSUME NEW e \in Drains, NEW q \in Rows, expanding'[e][q] # "none"
                 PROVE  /\ row'[q].status = "unexpanded"
                        /\ row'[q].attempts < MaxAttempts
                        /\ row'[q].claim = Claim(e)
      BY DEF RowsInHand
    <2>1. expanding[e][q] # "none" /\ ~(e = d /\ q = r) BY DEF TypeOK
    <2>2. q # r BY <1>0, <2>1, ClaimNamesDrain DEF RowsInHand
    <2> QED BY <2>1, <2>2 DEF RowsInHand, TypeOK
  <1>3. (DeliveriesInHand /\ WorkExists /\ ClaimedWait)'
    BY DEF DeliveriesInHand, WorkExists, ClaimedWait
  <1>4. SettledDone' BY OutboxAssumption DEF SettledDone, TypeOK
  <1> QED BY <1>1, <1>2, <1>3, <1>4

LEMMA ExpansionFailsStep ==
    ASSUME IInv, NEW d \in Drains, NEW r \in Rows, ExpansionFails(d, r) PROVE IInv'
  <1> USE DEF IInv, ExpansionFails
  <1>0. /\ row[r].status = "unexpanded" /\ row[r].claim = Claim(d)
        /\ row[r].attempts < MaxAttempts
    BY DEF RowsInHand
  <1>1. TypeOK'
    <2>1. row[r].attempts + 1 \in 0..MaxAttempts BY <1>0, OutboxAssumption DEF TypeOK
    <2>2. row \in [Rows -> RowType] BY DEF TypeOK, RowType, RowState
    <2> DEFINE new == [row[r] EXCEPT !.attempts = @ + 1, !.claim = Claim(d)]
    <2>3. new \in RowType BY <2>1, <2>2, ClaimTypes DEF RowType, RowState
    <2>4. row' = [row EXCEPT ![r] = new] OBVIOUS
    <2> HIDE DEF new
    <2>5. row' \in [Rows -> RowType] BY <2>2, <2>3, <2>4
    <2> QED BY <2>5 DEF TypeOK, RowType, RowState
  <1>2. RowsInHand'
    <2> SUFFICES ASSUME NEW e \in Drains, NEW q \in Rows, expanding'[e][q] # "none"
                 PROVE  /\ row'[q].status = "unexpanded"
                        /\ row'[q].attempts < MaxAttempts
                        /\ row'[q].claim = Claim(e)
      BY DEF RowsInHand
    <2>1. expanding[e][q] # "none" /\ ~(e = d /\ q = r) BY DEF TypeOK
    <2>2. q # r BY <1>0, <2>1, ClaimNamesDrain DEF RowsInHand
    <2> QED BY <2>1, <2>2 DEF RowsInHand, TypeOK
  <1>3. (DeliveriesInHand /\ WorkExists /\ ClaimedWait)'
    BY DEF DeliveriesInHand, WorkExists, ClaimedWait
  <1>4. SettledDone' BY <1>0, OutboxAssumption DEF SettledDone, TypeOK
  <1> QED BY <1>1, <1>2, <1>3, <1>4

LEMMA FailureUnrecordedStep ==
    ASSUME IInv, NEW d \in Drains, NEW r \in Rows, FailureUnrecorded(d, r) PROVE IInv'
  <1> USE DEF IInv, FailureUnrecorded
  <1>1. TypeOK' BY FaultType DEF TypeOK
  <1>2. RowsInHand' BY DEF RowsInHand, TypeOK
  <1>3. (DeliveriesInHand /\ WorkExists /\ ClaimedWait /\ SettledDone)'
    BY DEF DeliveriesInHand, WorkExists, ClaimedWait, SettledDone
  <1> QED BY <1>1, <1>2, <1>3

LEMMA StopExpandingStep == ASSUME IInv, NEW d \in Drains, StopExpanding(d) PROVE IInv'
  <1> USE DEF IInv, StopExpanding
  <1>1. TypeOK'
    <2>0. row \in [Rows -> RowType] BY DEF TypeOK, RowType, RowState
    <2>1. row' \in [Rows -> RowType]
      <3> SUFFICES ASSUME NEW r \in Rows PROVE row'[r] \in RowType OBVIOUS
      <3>1. [row[r] EXCEPT !.claim = Free] \in RowType BY <2>0, ClaimTypes DEF RowType
      <3> QED BY <2>0, <3>1
    <2>2. phase' \in [Drains -> {"idle", "expand", "send", "close", "purge"}] BY DEF TypeOK
    <2> QED BY <2>1, <2>2, FaultType DEF TypeOK, RowType, RowState
  <1>2. RowsInHand'
    <2> SUFFICES ASSUME NEW e \in Drains, NEW q \in Rows, expanding'[e][q] # "none"
                 PROVE  /\ row'[q].status = "unexpanded"
                        /\ row'[q].attempts < MaxAttempts
                        /\ row'[q].claim = Claim(e)
      BY DEF RowsInHand
    <2>1. expanding[e][q] # "none" /\ e # d BY DEF TypeOK
    <2>2. expanding[d][q] = "none" BY <2>1, ClaimNamesDrain DEF RowsInHand
    <2> QED BY <2>1, <2>2 DEF RowsInHand
  <1>3. DeliveriesInHand' BY DEF DeliveriesInHand, TypeOK
  <1>4. (WorkExists /\ ClaimedWait)' BY DEF WorkExists, ClaimedWait
  <1>5. SettledDone' BY OutboxAssumption DEF SettledDone, TypeOK
  <1> QED BY <1>1, <1>2, <1>3, <1>4, <1>5

-----------------------------------------------------------------------------
(* Steps that change deliveries or what is in hand.                        *)

LEMMA ClaimDueStep == ASSUME IInv, NEW d \in Drains, ClaimDue(d) PROVE IInv'
  <1> USE DEF IInv
  <1>1. PICK batch \in SUBSET Sendable :
          /\ delivery' = [x \in Deliveries |-> IF x \in batch
                           THEN [delivery[x] EXCEPT !.claim = Claim(d)] ELSE delivery[x]]
          /\ work' = [work EXCEPT ![d] = [x \in Deliveries |->
                           IF x \in batch THEN "queued" ELSE "none"]]
    BY DEF ClaimDue
  <1>2. /\ phase' = [phase EXCEPT ![d] = "send"]
        /\ UNCHANGED <<row, expanding, told, surplus, faults>>
    BY DEF ClaimDue
  <1>3. TypeOK'
    <2>1. delivery' \in [Deliveries -> DeliveryType]
      <3>1. delivery \in [Deliveries -> DeliveryType] BY DEF TypeOK, DeliveryType
      <3>2. Claim(d) \in Claims BY ClaimTypes
      <3> HIDE DEF IInv
      <3> QED BY <1>1, <3>1, <3>2 DEF DeliveryType
    <2>2. work' \in [Drains -> [Deliveries -> {"none", "queued", "trying"} \union Outcomes]]
      BY <1>1 DEF TypeOK
    <2> QED BY <1>2, <2>1, <2>2 DEF TypeOK, DeliveryType
  <1>4. RowsInHand' BY <1>2 DEF RowsInHand
  <1>5. DeliveriesInHand'
    <2> SUFFICES ASSUME NEW e \in Drains, NEW x \in Deliveries,
                        phase'[e] # "idle", work'[e][x] # "none"
                 PROVE  delivery'[x].claim = Claim(e)
      BY DEF DeliveriesInHand
    <2>1. CASE e = d BY <1>1, <2>1 DEF TypeOK
    <2>2. CASE e # d
      <3>1. delivery[x].claim = Claim(e) BY <1>1, <1>2, <2>2 DEF TypeOK, DeliveriesInHand
      <3>2. x \notin batch BY <1>1, <3>1, FreshClaim DEF Sendable
      <3> QED BY <1>1, <3>1, <3>2
    <2> QED BY <2>1, <2>2
  <1>6. WorkExists' BY <1>1, <1>2 DEF WorkExists, TypeOK, Sendable
  <1>7. ClaimedWait' BY <1>1 DEF ClaimedWait, TypeOK, Sendable
  <1>8. SettledDone' BY <1>1, <1>2, OutboxAssumption DEF SettledDone, TypeOK
  <1> QED BY <1>3, <1>4, <1>5, <1>6, <1>7, <1>8

LEMMA StartChunkStep == ASSUME IInv, NEW d \in Drains, StartChunk(d) PROVE IInv'
  <1> USE DEF IInv
  <1>1. PICK chunk \in SUBSET Queued(d) :
          work' = [work EXCEPT ![d] = [x \in Deliveries |->
                           IF x \in chunk THEN "trying" ELSE work[d][x]]]
    BY DEF StartChunk
  <1>2. UNCHANGED <<row, delivery, phase, expanding, told, surplus, faults>> BY DEF StartChunk
  <1>3. TypeOK' BY <1>1, <1>2 DEF TypeOK
  <1>4. (RowsInHand /\ ClaimedWait /\ SettledDone)'
    BY <1>2 DEF RowsInHand, ClaimedWait, SettledDone
  <1>5. DeliveriesInHand' BY <1>1, <1>2 DEF DeliveriesInHand, TypeOK, Queued
  <1>6. WorkExists' BY <1>1, <1>2 DEF WorkExists, TypeOK, Queued
  <1> QED BY <1>3, <1>4, <1>5, <1>6

LEMMA AttemptStep ==
    ASSUME IInv, NEW d \in Drains, NEW x \in Deliveries, Attempt(d, x) PROVE IInv'
  <1> USE DEF IInv
  <1>1. PICK outcome \in Outcomes :
          /\ work' = [work EXCEPT ![d][x] = outcome]
          /\ told' \in IF outcome = "SENT" THEN {told \union {x}}
                       ELSE IF outcome = "RETRY" THEN {told, told \union {x}} ELSE {told}
          /\ surplus' = IF outcome = "SENT" THEN [surplus EXCEPT ![x] = @ + 1] ELSE surplus
    BY DEF Attempt
  <1>2. work[d][x] = "trying" /\ UNCHANGED <<row, delivery, phase, expanding, faults>>
    BY DEF Attempt
  <1>3. told \subseteq told' /\ told' \subseteq Deliveries /\ (outcome = "SENT" => x \in told')
    BY <1>1 DEF TypeOK
  <1>4. TypeOK'
    <2>1. work' \in [Drains -> [Deliveries -> {"none", "queued", "trying"} \union Outcomes]]
      BY <1>1 DEF TypeOK
    <2>2. surplus' \in [Deliveries -> Int] BY <1>1 DEF TypeOK
    <2> QED BY <1>2, <1>3, <2>1, <2>2 DEF TypeOK
  <1>5. (RowsInHand /\ ClaimedWait /\ SettledDone)'
    BY <1>2 DEF RowsInHand, ClaimedWait, SettledDone
  <1>6. DeliveriesInHand' BY <1>1, <1>2 DEF DeliveriesInHand, TypeOK
  <1>7. WorkExists' BY <1>1, <1>2, <1>3 DEF WorkExists, TypeOK
  <1> QED BY <1>4, <1>5, <1>6, <1>7

LEMMA RecordedFacts ==
    ASSUME IInv, NEW x \in Deliveries, NEW outcome \in Outcomes, delivery[x].status = "QUEUED"
    PROVE  LET new == Recorded(delivery[x], outcome)
           IN  /\ new \in DeliveryType
               /\ new.claim = Free
               /\ new.status \in {"QUEUED", "SENT", "FAILED"}
               /\ new.status = "QUEUED" => new.failures <= MaxRetries
               /\ new.status = "SENT" => outcome = "SENT"
  <1>1. delivery[x] \in DeliveryType BY DEF IInv, TypeOK, DeliveryType
  <1>2. delivery[x].failures \in Nat /\ delivery[x].failures <= MaxRetries
    BY <1>1 DEF IInv, ClaimedWait, DeliveryType
  <1>3. delivery[x].failures + 1 \in 0..(MaxRetries + 1) BY <1>2, OutboxAssumption
  <1>4. CASE outcome # "RETRY"
    BY <1>1, <1>2, <1>4, ClaimTypes DEF Recorded, DeliveryType, Outcomes
  <1>5. CASE outcome = "RETRY" /\ delivery[x].failures + 1 > MaxRetries
    BY <1>1, <1>3, <1>5, ClaimTypes DEF Recorded, DeliveryType
  <1>6. CASE outcome = "RETRY" /\ ~(delivery[x].failures + 1 > MaxRetries)
    <2>1. delivery[x].failures + 1 <= MaxRetries BY <1>2, <1>6, OutboxAssumption
    <2> QED BY <1>1, <1>3, <1>6, <2>1, ClaimTypes DEF Recorded, DeliveryType
  <1> QED BY <1>4, <1>5, <1>6

LEMMA RecordStep ==
    ASSUME IInv, NEW d \in Drains, NEW x \in Deliveries, Record(d, x) PROVE IInv'
  <1> USE DEF IInv
  <1>1. /\ work[d][x] \in Outcomes
        /\ work' = [work EXCEPT ![d][x] = "none"]
        /\ UNCHANGED <<row, phase, expanding, told, surplus, faults>>
        /\ delivery' = IF OwnClaim(d, x)
                       THEN [delivery EXCEPT ![x] = Recorded(@, work[d][x])] ELSE delivery
    BY DEF Record
  <1>2. work' \in [Drains -> [Deliveries -> {"none", "queued", "trying"} \union Outcomes]]
    BY <1>1 DEF TypeOK
  <1>3. \A e \in Drains, y \in Deliveries :
           work'[e][y] = (IF e = d /\ y = x THEN "none" ELSE work[e][y])
    BY <1>1 DEF TypeOK
  <1>4. RowsInHand' BY <1>1 DEF RowsInHand
  <1>5. CASE ~OwnClaim(d, x)
    <2>1. delivery' = delivery BY <1>1, <1>5
    <2>2. TypeOK' BY <1>1, <1>2, <2>1 DEF TypeOK
    <2>3. (DeliveriesInHand /\ WorkExists)' BY <1>1, <1>3, <2>1 DEF DeliveriesInHand, WorkExists
    <2>4. (ClaimedWait /\ SettledDone)' BY <1>1, <2>1 DEF ClaimedWait, SettledDone
    <2> QED BY <1>4, <2>2, <2>3, <2>4
  <1>6. CASE OwnClaim(d, x)
    <2> DEFINE new == Recorded(delivery[x], work[d][x])
    <2>1. delivery[x].claim.by = d /\ delivery[x].status = "QUEUED"
      BY <1>6, OutboxAssumption DEF OwnClaim, ClaimedWait
    <2>2. /\ new \in DeliveryType
          /\ new.claim = Free
          /\ new.status \in {"QUEUED", "SENT", "FAILED"}
          /\ new.status = "QUEUED" => new.failures <= MaxRetries
      BY <1>1, <2>1, RecordedFacts
    <2> HIDE DEF new
    <2>3. delivery' = [delivery EXCEPT ![x] = new] BY <1>1, <1>6 DEF new
    <2>4. delivery \in [Deliveries -> DeliveryType] BY DEF TypeOK, DeliveryType
    <2>5. delivery' \in [Deliveries -> DeliveryType] BY <2>2, <2>3, <2>4
    <2>6. TypeOK' BY <1>1, <1>2, <2>5 DEF TypeOK, DeliveryType
    <2>7. DeliveriesInHand'
      <3> SUFFICES ASSUME NEW e \in Drains, NEW y \in Deliveries,
                          phase'[e] # "idle", work'[e][y] # "none"
                   PROVE  delivery'[y].claim = Claim(e)
        BY DEF DeliveriesInHand
      <3>1. delivery[y].claim = Claim(e) /\ ~(e = d /\ y = x)
        BY <1>1, <1>3 DEF DeliveriesInHand
      <3>2. y # x BY <2>1, <3>1 DEF Claim
      <3> QED BY <2>3, <2>4, <3>1, <3>2
    <2>8. WorkExists' BY <1>1, <1>3, <2>2, <2>3, <2>4 DEF WorkExists
    <2>9. ClaimedWait' BY <2>2, <2>3, <2>4 DEF ClaimedWait, Free
    <2>10. SettledDone' BY <1>1, <2>1, <2>3, <2>4 DEF SettledDone
    <2> QED BY <1>4, <2>6, <2>7, <2>8, <2>9, <2>10
  <1> QED BY <1>5, <1>6

LEMMA RecordFailsStep ==
    ASSUME IInv, NEW d \in Drains, NEW x \in Deliveries, RecordFails(d, x) PROVE IInv'
  <1> USE DEF IInv
  <1>1. /\ work' = [work EXCEPT ![d][x] = "none"]
        /\ Fault /\ Excuse({x} \intersect {y \in Deliveries : work[d][y] = "SENT"})
        /\ UNCHANGED <<row, delivery, phase, expanding, told>>
    BY DEF RecordFails
  <1>2. TypeOK'
    <2>1. surplus' \in [Deliveries -> Int] BY <1>1 DEF Excuse, TypeOK
    <2>2. work' \in [Drains -> [Deliveries -> {"none", "queued", "trying"} \union Outcomes]]
      BY <1>1 DEF TypeOK
    <2> QED BY <1>1, <2>1, <2>2, FaultType DEF TypeOK
  <1>3. (RowsInHand /\ ClaimedWait /\ SettledDone)'
    BY <1>1 DEF RowsInHand, ClaimedWait, SettledDone
  <1>4. (DeliveriesInHand /\ WorkExists)' BY <1>1 DEF DeliveriesInHand, WorkExists, TypeOK
  <1> QED BY <1>2, <1>3, <1>4

\* A release clears only stamps of the drain that releases.
LEMMA ReleaseFacts ==
    ASSUME IInv, NEW d \in Drains, Release(Queued(d)), phase[d] # "idle"
    PROVE  /\ delivery' \in [Deliveries -> DeliveryType]
           /\ \A x \in Deliveries :
                 /\ delivery'[x].status = delivery[x].status
                 /\ delivery'[x].failures = delivery[x].failures
                 /\ \/ delivery'[x].claim = delivery[x].claim
                    \/ work[d][x] = "queued" /\ delivery'[x].claim = Free
  <1>1. delivery \in [Deliveries -> DeliveryType] BY DEF IInv, TypeOK, DeliveryType
  <1>2. CASE delivery' = delivery BY <1>1, <1>2
  <1>3. CASE delivery' = [x \in Deliveries |-> IF x \in Queued(d)
                           THEN [delivery[x] EXCEPT !.claim = Free] ELSE delivery[x]]
    BY <1>1, <1>3, ClaimTypes DEF DeliveryType, Queued
  <1> QED BY <1>2, <1>3 DEF Release

LEMMA ReleaseStep ==
    ASSUME IInv, NEW d \in Drains, ReleaseUnstarted(d) \/ HardStop(d) PROVE IInv'
  <1> USE DEF IInv
  <1>1. /\ phase[d] = "send" /\ Release(Queued(d)) /\ Fault
        /\ phase' = [phase EXCEPT ![d] = "close"]
        /\ UNCHANGED <<row, expanding, told>>
    BY DEF ReleaseUnstarted, HardStop
  <1>2. surplus' \in [Deliveries -> Int] BY DEF ReleaseUnstarted, HardStop, Excuse, TypeOK
  <1>3. /\ work' \in [Drains -> [Deliveries -> {"none", "queued", "trying"} \union Outcomes]]
        /\ \A e \in Drains, x \in Deliveries :
              /\ work'[e][x] # "none" => work'[e][x] = work[e][x]
              /\ work[d][x] = "queued" => work'[d][x] = "none"
    <2>1. CASE ReleaseUnstarted(d) BY <2>1 DEF ReleaseUnstarted, TypeOK
    <2>2. CASE HardStop(d) BY <2>2 DEF HardStop, TypeOK
    <2> QED BY <2>1, <2>2
  <1>4. /\ delivery' \in [Deliveries -> DeliveryType]
        /\ \A x \in Deliveries :
              /\ delivery'[x].status = delivery[x].status
              /\ delivery'[x].failures = delivery[x].failures
              /\ \/ delivery'[x].claim = delivery[x].claim
                 \/ work[d][x] = "queued" /\ delivery'[x].claim = Free
    BY <1>1, ReleaseFacts
  <1>5. TypeOK' BY <1>1, <1>2, <1>3, <1>4, FaultType DEF TypeOK, DeliveryType
  <1>6. RowsInHand' BY <1>1 DEF RowsInHand
  <1>7. DeliveriesInHand'
    <2> SUFFICES ASSUME NEW e \in Drains, NEW x \in Deliveries,
                        phase'[e] # "idle", work'[e][x] # "none"
                 PROVE  delivery'[x].claim = Claim(e)
      BY DEF DeliveriesInHand
    <2>1. phase[e] # "idle" /\ work[e][x] # "none" BY <1>1, <1>3 DEF TypeOK
    <2>2. delivery[x].claim = Claim(e) BY <2>1 DEF DeliveriesInHand
    <2>3. work[d][x] # "queued"
      BY <1>1, <1>3, <2>2, ClaimNamesDrain DEF DeliveriesInHand
    <2> QED BY <1>4, <2>2, <2>3
  <1>8. WorkExists' BY <1>1, <1>3, <1>4 DEF WorkExists
  <1>9. ClaimedWait' BY <1>4 DEF ClaimedWait, Free
  <1>10. SettledDone' BY <1>1, <1>4, OutboxAssumption DEF SettledDone
  <1> QED BY <1>5, <1>6, <1>7, <1>8, <1>9, <1>10

-----------------------------------------------------------------------------
(* The rest.                                                               *)

\* Steps that only move a drain along.
LEMMA PhaseStep ==
    ASSUME IInv, NEW d \in Drains, AllSent(d) \/ CloseFails(d) PROVE IInv'
  <1> USE DEF IInv
  <1>1. /\ phase[d] # "idle" /\ \E p \in {"close", "purge"} : phase' = [phase EXCEPT ![d] = p]
        /\ UNCHANGED <<row, delivery, expanding, work, told, surplus>>
        /\ faults' \in 0..MaxFaults
    BY FaultType DEF AllSent, CloseFails, TypeOK
  <1>2. TypeOK' BY <1>1 DEF TypeOK
  <1>3. (RowsInHand /\ WorkExists /\ ClaimedWait /\ SettledDone)'
    BY <1>1 DEF RowsInHand, WorkExists, ClaimedWait, SettledDone
  <1>4. DeliveriesInHand' BY <1>1 DEF DeliveriesInHand, TypeOK
  <1> QED BY <1>2, <1>3, <1>4

LEMMA CloseFinishedStep == ASSUME IInv, NEW d \in Drains, CloseFinished(d) PROVE IInv'
  <1> USE DEF IInv
  <1>1. /\ phase[d] = "close"
        /\ phase' = [phase EXCEPT ![d] = "purge"]
        /\ row' = [r \in Rows |-> IF Finished(r)
                     THEN [row[r] EXCEPT !.status = "sent", !.claim = Free] ELSE row[r]]
        /\ UNCHANGED <<delivery, expanding, work, told, surplus, faults>>
    BY DEF CloseFinished
  <1>2. row \in [Rows -> RowType] BY DEF TypeOK, RowType, RowState
  <1>3. row' \in [Rows -> RowType]
    <2> SUFFICES ASSUME NEW r \in Rows PROVE row'[r] \in RowType BY <1>1
    <2>1. [row[r] EXCEPT !.status = "sent", !.claim = Free] \in RowType
      BY <1>2, ClaimTypes DEF RowType, RowState
    <2> QED BY <1>1, <1>2, <2>1
  <1>4. TypeOK' BY <1>1, <1>3 DEF TypeOK, RowType, RowState
  <1>5. RowsInHand'
    <2> SUFFICES ASSUME NEW e \in Drains, NEW r \in Rows, expanding[e][r] # "none"
                 PROVE  row'[r] = row[r]
      BY <1>1 DEF RowsInHand
    <2>1. row[r].status = "unexpanded" /\ row[r].attempts < MaxAttempts BY DEF RowsInHand
    <2>2. row[r].attempts \in Nat BY <1>2 DEF RowType
    <2>3. ~Finished(r) BY <2>1, <2>2, OutboxAssumption DEF Finished
    <2> QED BY <1>1, <2>3
  <1>6. DeliveriesInHand' BY <1>1 DEF DeliveriesInHand, TypeOK
  <1>7. (WorkExists /\ ClaimedWait)' BY <1>1 DEF WorkExists, ClaimedWait
  <1>8. SettledDone'
    <2> SUFFICES ASSUME NEW x \in Deliveries, row'[RowOf[x]].status \in {"sent", "purged"}
                 PROVE  delivery[x].status # "QUEUED"
      BY <1>1 DEF SettledDone
    <2>1. RowOf[x] \in Rows BY OutboxAssumption
    <2>2. CASE Finished(RowOf[x]) BY <2>2 DEF Finished, DeliveriesOf
    <2>3. CASE ~Finished(RowOf[x]) BY <1>1, <2>1, <2>3 DEF SettledDone
    <2> QED BY <2>2, <2>3
  <1> QED BY <1>4, <1>5, <1>6, <1>7, <1>8

LEMMA PurgeDeliveredStep == ASSUME IInv, NEW d \in Drains, PurgeDelivered(d) PROVE IInv'
  <1> USE DEF IInv
  <1>1. PICK old \in SUBSET Purgeable :
          /\ row' = [r \in Rows |-> IF r \in old THEN [row[r] EXCEPT !.status = "purged"] ELSE row[r]]
          /\ delivery' = [x \in Deliveries |->
                            IF RowOf[x] \in old /\ delivery[x].status # "none"
                            THEN [delivery[x] EXCEPT !.status = "purged", !.claim = Free]
                            ELSE delivery[x]]
    BY DEF PurgeDelivered
  <1>2. /\ phase[d] # "idle" /\ phase' = [phase EXCEPT ![d] = "idle"]
        /\ UNCHANGED <<expanding, work, told, surplus, faults>>
    BY DEF PurgeDelivered
  <1>3. row \in [Rows -> RowType] /\ delivery \in [Deliveries -> DeliveryType]
    BY DEF TypeOK, RowType, RowState, DeliveryType
  <1>4. row' \in [Rows -> RowType] BY <1>1, <1>3 DEF RowType, RowState
  <1>5. delivery' \in [Deliveries -> DeliveryType]
    <2> SUFFICES ASSUME NEW x \in Deliveries PROVE delivery'[x] \in DeliveryType BY <1>1
    <2>1. [delivery[x] EXCEPT !.status = "purged", !.claim = Free] \in DeliveryType
      BY <1>3, ClaimTypes DEF DeliveryType
    <2> QED BY <1>1, <1>3, <2>1
  <1>6. TypeOK' BY <1>2, <1>4, <1>5 DEF TypeOK, RowType, RowState, DeliveryType
  <1>7. RowsInHand'
    <2> SUFFICES ASSUME NEW e \in Drains, NEW r \in Rows, expanding[e][r] # "none"
                 PROVE  row'[r] = row[r]
      BY <1>2 DEF RowsInHand
    <2>1. r \notin old BY DEF RowsInHand, Purgeable
    <2> QED BY <1>1, <2>1
  <1>8. \A x \in Deliveries : RowOf[x] \in old => delivery[x].status # "QUEUED"
    BY OutboxAssumption DEF SettledDone, Purgeable
  <1>9. DeliveriesInHand'
    <2> SUFFICES ASSUME NEW e \in Drains, NEW x \in Deliveries, phase'[e] # "idle", work[e][x] # "none"
                 PROVE  delivery'[x].claim = Claim(e)
      BY <1>2 DEF DeliveriesInHand
    <2>1. delivery[x].claim = Claim(e) BY <1>2 DEF DeliveriesInHand, TypeOK
    <2>2. delivery[x].status = "QUEUED" BY <2>1, OutboxAssumption DEF ClaimedWait, Claim
    <2> QED BY <1>1, <1>8, <2>1, <2>2
  <1>10. WorkExists' BY <1>1, <1>2, <1>3 DEF WorkExists, DeliveryType
  <1>11. ClaimedWait' BY <1>1, <1>3, ClaimTypes DEF ClaimedWait, DeliveryType, Free
  <1>12. SettledDone'
    <2> SUFFICES ASSUME NEW x \in Deliveries, row'[RowOf[x]].status \in {"sent", "purged"}
                 PROVE  delivery'[x].status # "QUEUED"
      BY DEF SettledDone
    <2>1. RowOf[x] \in Rows BY OutboxAssumption
    <2>2. delivery[x].status # "QUEUED" BY <1>1, <1>8, <2>1 DEF SettledDone
    <2> QED BY <1>1, <1>3, <2>2 DEF DeliveryType
  <1> QED BY <1>6, <1>7, <1>9, <1>10, <1>11, <1>12

LEMMA KillStep == ASSUME IInv, NEW d \in Drains, Kill(d) PROVE IInv'
  <1> USE DEF IInv
  <1>1. /\ phase' = [phase EXCEPT ![d] = "idle"] /\ Fault
        /\ expanding' = [expanding EXCEPT ![d] = [r \in Rows |-> "none"]]
        /\ work' = [work EXCEPT ![d] = [x \in Deliveries |-> "none"]]
        /\ UNCHANGED <<row, delivery, told>>
    BY DEF Kill
  <1>2. surplus' \in [Deliveries -> Int] BY DEF Kill, Excuse, TypeOK
  <1>3. TypeOK'
    <2>1. work' \in [Drains -> [Deliveries -> {"none", "queued", "trying"} \union Outcomes]]
      BY <1>1 DEF TypeOK
    <2>2. expanding' \in [Drains -> [Rows -> {"none", "claimed", "created"}]] BY <1>1 DEF TypeOK
    <2> QED BY <1>1, <1>2, <2>1, <2>2, FaultType DEF TypeOK
  <1>4. RowsInHand' BY <1>1 DEF RowsInHand, TypeOK
  <1>5. (DeliveriesInHand /\ WorkExists)' BY <1>1 DEF DeliveriesInHand, WorkExists, TypeOK
  <1>6. (ClaimedWait /\ SettledDone)' BY <1>1 DEF ClaimedWait, SettledDone
  <1> QED BY <1>3, <1>4, <1>5, <1>6

LEMMA RecycleStep == ASSUME IInv, NEW d \in Drains, Recycle(d) PROVE IInv'
  <1> USE DEF IInv
  <1>1. /\ work' = [work EXCEPT ![d] = [x \in Deliveries |-> "none"]]
        /\ UNCHANGED <<row, delivery, phase, expanding, told, surplus, faults>>
    BY DEF Recycle
  <1>2. TypeOK' BY <1>1 DEF TypeOK
  <1>3. (RowsInHand /\ ClaimedWait /\ SettledDone)'
    BY <1>1 DEF RowsInHand, ClaimedWait, SettledDone
  <1>4. (DeliveriesInHand /\ WorkExists)' BY <1>1 DEF DeliveriesInHand, WorkExists, TypeOK
  <1> QED BY <1>2, <1>3, <1>4

LEMMA LapseRowStep == ASSUME IInv, NEW r \in Rows, LapseRow(r) PROVE IInv'
  <1> USE DEF IInv
  <1>1. /\ expanding[row[r].claim.by][r] = "none"
        /\ row' = [row EXCEPT ![r].claim.stale = TRUE]
        /\ UNCHANGED <<delivery, phase, expanding, work, told, surplus, faults>>
    BY DEF LapseRow
  <1>2. row \in [Rows -> RowType] BY DEF TypeOK, RowType, RowState
  <1>3. row' \in [Rows -> RowType] BY <1>1, <1>2 DEF RowType, Claims
  <1>4. TypeOK' BY <1>1, <1>3 DEF TypeOK, RowType, RowState
  <1>5. RowsInHand'
    <2> SUFFICES ASSUME NEW e \in Drains, NEW q \in Rows, expanding[e][q] # "none"
                 PROVE  row'[q] = row[q]
      BY <1>1 DEF RowsInHand
    <2>1. row[q].claim = Claim(e) BY DEF RowsInHand
    <2>2. row[q].claim.by = e BY <2>1 DEF Claim
    <2>3. q # r BY <1>1, <2>2
    <2> QED BY <1>1, <1>2, <2>3
  <1>6. (DeliveriesInHand /\ WorkExists /\ ClaimedWait)'
    BY <1>1 DEF DeliveriesInHand, WorkExists, ClaimedWait
  <1>7. SettledDone' BY <1>1, <1>2, OutboxAssumption DEF SettledDone
  <1> QED BY <1>4, <1>5, <1>6, <1>7

LEMMA LapseDeliveryStep ==
    ASSUME IInv, NEW y \in Deliveries, LapseDelivery(y) \/ BecomeDue(y) PROVE IInv'
  <1> USE DEF IInv
  <1>1. UNCHANGED <<row, phase, expanding, work, told, surplus, faults>>
    BY DEF LapseDelivery, BecomeDue
  <1>2. delivery \in [Deliveries -> DeliveryType] BY DEF TypeOK, DeliveryType
  <1>3. /\ delivery' \in [Deliveries -> DeliveryType]
        /\ \A x \in Deliveries : /\ delivery'[x].status = delivery[x].status
                                 /\ delivery'[x].failures = delivery[x].failures
                                 /\ delivery'[x].claim.by = delivery[x].claim.by
                                 /\ x # y => delivery'[x] = delivery[x]
    <2>1. CASE LapseDelivery(y)
      BY <1>2, <2>1, ZenonT(30) DEF LapseDelivery, DeliveryType, Claims
    <2>2. CASE BecomeDue(y) BY <1>2, <2>2 DEF BecomeDue, DeliveryType
    <2> QED BY <2>1, <2>2
  <1>4. TypeOK' BY <1>1, <1>3 DEF TypeOK, DeliveryType
  <1>5. RowsInHand' BY <1>1 DEF RowsInHand
  <1>6. DeliveriesInHand'
    <2>1. CASE LapseDelivery(y)
      <3>1. ASSUME NEW e \in Drains, phase[e] # "idle", work[e][y] # "none" PROVE FALSE
        <4>1. delivery[y].claim = Claim(e) BY <3>1 DEF DeliveriesInHand
        <4>2. delivery[y].claim.by = e BY <4>1 DEF Claim
        <4> QED BY <2>1, <3>1, <4>2 DEF LapseDelivery
      <3> QED BY <1>1, <1>3, <3>1 DEF DeliveriesInHand
    <2>2. CASE BecomeDue(y)
      <3>1. \A x \in Deliveries : delivery'[x].claim = delivery[x].claim
        BY <1>2, <2>2 DEF BecomeDue, DeliveryType
      <3> QED BY <1>1, <3>1 DEF DeliveriesInHand
    <2> QED BY <2>1, <2>2
  <1>7. (WorkExists /\ ClaimedWait /\ SettledDone)'
    BY <1>1, <1>3 DEF WorkExists, ClaimedWait, SettledDone
  <1> QED BY <1>4, <1>5, <1>6, <1>7

LEMMA NextIInv == ASSUME IInv, [Next]_vars PROVE IInv'
  <1>1. CASE UNCHANGED vars
    BY <1>1 DEF vars, IInv, TypeOK, RowsInHand, DeliveriesInHand, WorkExists, ClaimedWait, SettledDone
  <1>2. CASE Next
    BY <1>2, EnqueueStep, StartStep, CreateDeliveriesStep, MarkExpandedStep, ExpansionFailsStep,
       FailureUnrecordedStep, StopExpandingStep, ClaimDueStep, StartChunkStep, AttemptStep,
       RecordStep, RecordFailsStep, ReleaseStep, PhaseStep, CloseFinishedStep,
       PurgeDeliveredStep, KillStep, RecycleStep, LapseRowStep, LapseDeliveryStep
    DEF Next, Progress, Trouble
  <1> QED BY <1>1, <1>2

\* Claims do their work in every behaviour: what a running drain has in hand
\* carries its own fresh stamp, and nothing else is claimed for nothing.
THEOREM ClaimsHeld == Safety => []IInv
  <1>1. Init => IInv BY InitIInv
  <1>2. IInv /\ [Next]_vars => IInv' BY NextIInv
  <1> QED BY <1>1, <1>2, PTL DEF Safety

\* Rows, deliveries and what drains have in hand keep their types; a delivery
\* is never tried more often than the back-off table allows.
THEOREM OutboxTypeCorrect == Safety => []TypeOK
  BY ClaimsHeld, PTL DEF IInv

\* Two running drains never have one delivery in hand.
THEOREM NoTwoDrains == Safety => []OneDrainPerDelivery
  <1>1. IInv => OneDrainPerDelivery
    BY ClaimNamesDrain DEF IInv, DeliveriesInHand, OneDrainPerDelivery
  <1> QED BY <1>1, ClaimsHeld, PTL

-----------------------------------------------------------------------------
(* The refinement: every step is a step of OutboxPromise or a stutter.     *)

LEMMA InitPromise == ASSUME Init PROVE Promise!Init
  BY DEF Init, Promise!Init, NoticeState, MessageState

\* What leaves every status alone, but for expandedAt, is a stutter.
LEMMA QuietStep ==
    ASSUME \A r \in Rows : \/ row'[r].status = row[r].status
                           \/ /\ row[r].status \in {"unexpanded", "expanded"}
                              /\ row'[r].status \in {"unexpanded", "expanded"},
           \A x \in Deliveries : delivery'[x].status = delivery[x].status,
           told' = told
    PROVE  UNCHANGED Promise!vars
  <1>1. NoticeState' = NoticeState
    <2> SUFFICES ASSUME NEW r \in Rows
                 PROVE  (CASE row'[r].status \in {"unexpanded", "expanded"} -> "owed"
                           [] row'[r].status = "sent" -> "settled"
                           [] row'[r].status = "purged" -> "forgotten"
                           [] OTHER -> "none")
                      = (CASE row[r].status \in {"unexpanded", "expanded"} -> "owed"
                           [] row[r].status = "sent" -> "settled"
                           [] row[r].status = "purged" -> "forgotten"
                           [] OTHER -> "none")
      BY DEF NoticeState
    <2> QED OBVIOUS
  <1>2. MessageState' = MessageState BY DEF MessageState
  <1> QED BY <1>1, <1>2 DEF Promise!vars

LEMMA EnqueuePromise == ASSUME IInv, NEW r \in Rows, Enqueue(r) PROVE Promise!Post(r)
  <1>1. NoticeState[r] = "none" BY DEF Enqueue, NoticeState
  <1>2. NoticeState' = [NoticeState EXCEPT ![r] = "owed"]
    BY ZenonT(30) DEF Enqueue, NoticeState, IInv, TypeOK
  <1>3. UNCHANGED <<MessageState, told>> BY DEF Enqueue, MessageState
  <1> QED BY <1>1, <1>2, <1>3 DEF Promise!Post

LEMMA CreatePromise ==
    ASSUME IInv, NEW d \in Drains, NEW r \in Rows, CreateDeliveries(d, r)
    PROVE  \E S \in SUBSET Deliveries : Promise!Address(r, S)
  <1>1. PICK people \in SUBSET DeliveriesOf(r) :
          delivery' = [x \in Deliveries |->
                        IF x \in people /\ delivery[x].status = "none"
                        THEN [delivery[x] EXCEPT !.status = "QUEUED"] ELSE delivery[x]]
    BY DEF CreateDeliveries
  <1> DEFINE S == {x \in people : delivery[x].status = "none"}
  <1>2. NoticeState[r] = "owed" BY DEF CreateDeliveries, IInv, RowsInHand, NoticeState
  <1>3. S \subseteq {m \in Promise!MessagesOf(r) : MessageState[m] = "none"}
    BY DEF MessageState, DeliveriesOf, Promise!MessagesOf
  <1>4. MessageState' = [m \in Deliveries |-> IF m \in S THEN "owed" ELSE MessageState[m]]
    <2> SUFFICES ASSUME NEW m \in Deliveries
                 PROVE  MessageState'[m] = IF m \in S THEN "owed" ELSE MessageState[m]
      BY DEF MessageState
    <2>1. CASE m \in S BY <1>1, <2>1 DEF MessageState, IInv, TypeOK
    <2>2. CASE m \notin S
      <3>1. delivery'[m] = delivery[m] BY <1>1, <2>2
      <3> QED BY <2>2, <3>1 DEF MessageState
    <2> QED BY <2>1, <2>2
  <1>5. UNCHANGED <<NoticeState, told>> BY DEF CreateDeliveries, NoticeState
  <1>6. S \in SUBSET Deliveries BY DEF DeliveriesOf
  <1> QED BY <1>2, <1>3, <1>4, <1>5, <1>6 DEF Promise!Address

LEMMA AttemptPromise ==
    ASSUME IInv, NEW d \in Drains, NEW x \in Deliveries, Attempt(d, x)
    PROVE  Promise!Accept(x) \/ UNCHANGED Promise!vars
  <1>1. UNCHANGED <<row, delivery>> /\ (told' = told \/ told' = told \union {x})
    BY DEF Attempt
  <1>2. UNCHANGED <<NoticeState, MessageState>> BY <1>1 DEF NoticeState, MessageState
  <1>3. MessageState[x] # "none"
    BY DEF Attempt, IInv, TypeOK, WorkExists, MessageState
  <1> QED BY <1>1, <1>2, <1>3 DEF Promise!Accept, Promise!vars

LEMMA RecordPromise ==
    ASSUME IInv, NEW d \in Drains, NEW x \in Deliveries, Record(d, x)
    PROVE  Promise!Finish(x) \/ UNCHANGED Promise!vars
  <1>1. work[d][x] \in Outcomes /\ UNCHANGED <<row, told>> BY DEF Record
  <1>2. CASE ~OwnClaim(d, x)
    <2>1. delivery' = delivery BY <1>2 DEF Record
    <2> QED BY <1>1, <2>1, QuietStep
  <1>3. CASE OwnClaim(d, x)
    <2> DEFINE new == Recorded(delivery[x], work[d][x])
    <2>1. delivery[x].status = "QUEUED"
      BY <1>3, OutboxAssumption DEF OwnClaim, IInv, ClaimedWait
    <2>2. /\ new.status \in {"QUEUED", "SENT", "FAILED"}
          /\ new.status = "SENT" => work[d][x] = "SENT"
      BY <1>1, <2>1, RecordedFacts
    <2>3. delivery' = [delivery EXCEPT ![x] = new] BY <1>3 DEF Record
    <2>4. delivery \in [Deliveries -> DeliveryType] BY DEF IInv, TypeOK, DeliveryType
    <2> HIDE DEF new
    <2>5. CASE new.status = "QUEUED"
      <3>1. \A y \in Deliveries : delivery'[y].status = delivery[y].status
        BY <2>1, <2>3, <2>4, <2>5
      <3> QED BY <1>1, <3>1, QuietStep
    <2>6. CASE new.status # "QUEUED"
      <3> DEFINE end == IF new.status = "SENT" THEN "told" ELSE "dropped"
      <3>1. MessageState[x] = "owed" BY <2>1 DEF MessageState
      <3>2. new.status = "SENT" => x \in told BY <1>1, <2>2 DEF IInv, WorkExists
      <3>3. MessageState' = [MessageState EXCEPT ![x] = end]
        <4> SUFFICES ASSUME NEW y \in Deliveries
                     PROVE  MessageState'[y] = [MessageState EXCEPT ![x] = end][y]
          BY DEF MessageState
        <4>1. CASE y = x BY <2>2, <2>3, <2>4, <2>6, <4>1 DEF MessageState
        <4>2. CASE y # x
          <5>1. delivery'[y] = delivery[y] BY <2>3, <2>4, <4>2
          <5> QED BY <4>2, <5>1 DEF MessageState
        <4> QED BY <4>1, <4>2
      <3>4. UNCHANGED <<NoticeState, told>> BY <1>1 DEF NoticeState
      <3>5. end \in {"dropped"} \union (IF x \in told THEN {"told"} ELSE {}) BY <3>2
      <3> HIDE DEF end
      <3> QED BY <3>1, <3>3, <3>4, <3>5 DEF Promise!Finish
    <2> QED BY <2>5, <2>6
  <1> QED BY <1>2, <1>3

LEMMA ClosePromise ==
    ASSUME IInv, NEW d \in Drains, CloseFinished(d)
    PROVE  \E N \in SUBSET Rows : Promise!Settle(N)
  <1> DEFINE N == {r \in Rows : Finished(r)}
  <1>1. \A r \in N : /\ NoticeState[r] = "owed"
                     /\ \A m \in Promise!MessagesOf(r) : MessageState[m] # "owed"
    <2> SUFFICES ASSUME NEW r \in Rows, Finished(r)
                 PROVE  /\ NoticeState[r] = "owed"
                        /\ \A m \in Promise!MessagesOf(r) : MessageState[m] # "owed"
      OBVIOUS
    <2>1. NoticeState[r] = "owed" BY DEF Finished, NoticeState
    <2>2. \A m \in Promise!MessagesOf(r) : MessageState[m] # "owed"
      BY DEF Finished, DeliveriesOf, Promise!MessagesOf, MessageState
    <2> QED BY <2>1, <2>2
  <1>2. NoticeState' = [r \in Rows |-> IF r \in N THEN "settled" ELSE NoticeState[r]]
    <2> SUFFICES ASSUME NEW r \in Rows
                 PROVE  NoticeState'[r] = IF r \in N THEN "settled" ELSE NoticeState[r]
      BY DEF NoticeState
    <2>1. CASE r \in N
      <3>1. row \in [Rows -> RowType] BY DEF IInv, TypeOK, RowType, RowState
      <3>2. row'[r] = [row[r] EXCEPT !.status = "sent", !.claim = Free]
        BY <2>1 DEF CloseFinished
      <3>3. row'[r].status = "sent" BY <3>1, <3>2 DEF RowType
      <3> QED BY <2>1, <3>3 DEF NoticeState
    <2>2. CASE r \notin N
      <3>1. row'[r] = row[r] BY <2>2 DEF CloseFinished
      <3> QED BY <2>2, <3>1 DEF NoticeState
    <2> QED BY <2>1, <2>2
  <1>3. UNCHANGED <<MessageState, told>> BY DEF CloseFinished, MessageState
  <1> QED BY <1>1, <1>2, <1>3 DEF Promise!Settle

LEMMA PurgePromise ==
    ASSUME IInv, NEW d \in Drains, PurgeDelivered(d)
    PROVE  \E N \in SUBSET Rows : Promise!Forget(N)
  <1>1. PICK old \in SUBSET Purgeable :
          /\ row' = [r \in Rows |-> IF r \in old THEN [row[r] EXCEPT !.status = "purged"] ELSE row[r]]
          /\ delivery' = [x \in Deliveries |->
                            IF RowOf[x] \in old /\ delivery[x].status # "none"
                            THEN [delivery[x] EXCEPT !.status = "purged", !.claim = Free]
                            ELSE delivery[x]]
    BY DEF PurgeDelivered
  <1>2. \A r \in old : NoticeState[r] = "settled" BY DEF Purgeable, NoticeState
  <1>3. NoticeState' = [r \in Rows |-> IF r \in old THEN "forgotten" ELSE NoticeState[r]]
    <2> SUFFICES ASSUME NEW r \in Rows
                 PROVE  NoticeState'[r] = IF r \in old THEN "forgotten" ELSE NoticeState[r]
      BY DEF NoticeState
    <2>1. CASE r \in old
      <3>1. row'[r].status = "purged" BY <1>1, <2>1 DEF IInv, TypeOK
      <3> QED BY <2>1, <3>1 DEF NoticeState
    <2>2. CASE r \notin old
      <3>1. row'[r] = row[r] BY <1>1, <2>2
      <3> QED BY <2>2, <3>1 DEF NoticeState
    <2> QED BY <2>1, <2>2
  <1>4. MessageState' = [m \in Deliveries |->
           IF RowOf[m] \in old /\ MessageState[m] # "none" THEN "forgotten" ELSE MessageState[m]]
    <2> SUFFICES ASSUME NEW m \in Deliveries
                 PROVE  MessageState'[m] = IF RowOf[m] \in old /\ MessageState[m] # "none"
                                          THEN "forgotten" ELSE MessageState[m]
      BY DEF MessageState
    <2>0. MessageState[m] # "none" <=> delivery[m].status # "none"
      BY DEF MessageState, IInv, TypeOK
    <2>1. CASE RowOf[m] \in old /\ delivery[m].status # "none"
      <3>1. delivery'[m].status = "purged" BY <1>1, <2>1 DEF IInv, TypeOK
      <3> QED BY <2>0, <2>1, <3>1 DEF MessageState
    <2>2. CASE ~(RowOf[m] \in old /\ delivery[m].status # "none")
      <3>1. delivery'[m] = delivery[m] BY <1>1, <2>2
      <3> QED BY <2>0, <2>2, <3>1 DEF MessageState
    <2> QED BY <2>1, <2>2
  <1>5. told' = told BY DEF PurgeDelivered
  <1>6. old \in SUBSET Rows BY DEF Purgeable
  <1> QED BY <1>2, <1>3, <1>4, <1>5, <1>6 DEF Promise!Forget

\* The steps that nobody outside sees.
LEMMA QuietRows ==
    ASSUME IInv, NEW d \in Drains, NEW r \in Rows,
           MarkExpanded(d, r) \/ ExpansionFails(d, r) \/ FailureUnrecorded(d, r)
    PROVE  UNCHANGED Promise!vars
  <1>1. row \in [Rows -> RowType] BY DEF IInv, TypeOK, RowType, RowState
  <1>2. row[r].status = "unexpanded"
    BY DEF MarkExpanded, ExpansionFails, FailureUnrecorded, IInv, RowsInHand
  <1>3. CASE MarkExpanded(d, r)
    BY <1>1, <1>2, <1>3, QuietStep DEF MarkExpanded, RowType
  <1>4. CASE ExpansionFails(d, r)
    BY <1>1, <1>2, <1>4, QuietStep DEF ExpansionFails, RowType
  <1>5. CASE FailureUnrecorded(d, r)
    BY <1>1, <1>2, <1>5, QuietStep DEF FailureUnrecorded
  <1> QED BY <1>3, <1>4, <1>5

LEMMA QuietDrains ==
    ASSUME IInv, NEW d \in Drains,
           \/ Start(d) \/ StopExpanding(d) \/ ClaimDue(d) \/ StartChunk(d) \/ AllSent(d)
           \/ ReleaseUnstarted(d) \/ HardStop(d) \/ CloseFails(d) \/ Kill(d) \/ Recycle(d)
           \/ \E x \in Deliveries : RecordFails(d, x)
    PROVE  UNCHANGED Promise!vars
  <1>1. row \in [Rows -> RowType] /\ delivery \in [Deliveries -> DeliveryType]
    BY DEF IInv, TypeOK, RowType, RowState, DeliveryType
  <1>2. CASE Start(d) BY <1>1, <1>2, QuietStep DEF Start, RowType
  <1>3. CASE StopExpanding(d) BY <1>1, <1>3, QuietStep DEF StopExpanding, RowType
  <1>4. CASE ClaimDue(d) BY <1>1, <1>4, QuietStep DEF ClaimDue, DeliveryType
  <1>5. CASE StartChunk(d) BY <1>5, QuietStep DEF StartChunk
  <1>6. CASE AllSent(d) \/ CloseFails(d) \/ Kill(d) \/ Recycle(d)
    <2>1. UNCHANGED <<row, delivery, told>> BY <1>6 DEF AllSent, CloseFails, Kill, Recycle
    <2> QED BY <2>1, QuietStep
  <1>7. CASE ReleaseUnstarted(d) \/ HardStop(d)
    <2>1. /\ Release(Queued(d)) /\ phase[d] # "idle" /\ UNCHANGED <<row, told>>
      BY <1>7 DEF ReleaseUnstarted, HardStop
    <2>2. \A x \in Deliveries : delivery'[x].status = delivery[x].status
      BY <2>1, ReleaseFacts
    <2> QED BY <2>1, <2>2, QuietStep
  <1>8. CASE \E x \in Deliveries : RecordFails(d, x)
    <2>1. UNCHANGED <<row, delivery, told>> BY <1>8 DEF RecordFails
    <2> QED BY <2>1, QuietStep
  <1> QED BY <1>2, <1>3, <1>4, <1>5, <1>6, <1>7, <1>8

LEMMA QuietTime ==
    ASSUME IInv,
           \/ \E r \in Rows : LapseRow(r)
           \/ \E x \in Deliveries : LapseDelivery(x) \/ BecomeDue(x)
    PROVE  UNCHANGED Promise!vars
  <1>1. row \in [Rows -> RowType] /\ delivery \in [Deliveries -> DeliveryType]
    BY DEF IInv, TypeOK, RowType, RowState, DeliveryType
  <1>2. CASE \E r \in Rows : LapseRow(r)
    BY <1>1, <1>2, QuietStep DEF LapseRow, RowType, Claims
  <1>3. ASSUME NEW y \in Deliveries, LapseDelivery(y) \/ BecomeDue(y) PROVE UNCHANGED Promise!vars
    <2>1. UNCHANGED <<row, told>> BY <1>3 DEF LapseDelivery, BecomeDue
    <2>2. \A x \in Deliveries : delivery'[x].status = delivery[x].status
      <3>1. CASE LapseDelivery(y) BY <1>1, <3>1 DEF LapseDelivery, DeliveryType, Claims
      <3>2. CASE BecomeDue(y) BY <1>1, <3>2 DEF BecomeDue, DeliveryType
      <3> QED BY <1>3, <3>1, <3>2
    <2> QED BY <2>1, <2>2, QuietStep
  <1> QED BY <1>2, <1>3

LEMMA NextPromise == ASSUME IInv, [Next]_vars PROVE [Promise!Next]_(Promise!vars)
  <1>1. CASE UNCHANGED vars BY <1>1, QuietStep DEF vars
  <1>2. CASE \E r \in Rows : Enqueue(r) BY <1>2, EnqueuePromise DEF Promise!Next
  <1>3. CASE \E d \in Drains, r \in Rows : CreateDeliveries(d, r)
    BY <1>3, CreatePromise DEF Promise!Next
  <1>4. CASE \E d \in Drains, x \in Deliveries : Attempt(d, x)
    BY <1>4, AttemptPromise DEF Promise!Next
  <1>5. CASE \E d \in Drains, x \in Deliveries : Record(d, x)
    BY <1>5, RecordPromise DEF Promise!Next
  <1>6. CASE \E d \in Drains : CloseFinished(d) BY <1>6, ClosePromise DEF Promise!Next
  <1>7. CASE \E d \in Drains : PurgeDelivered(d) BY <1>7, PurgePromise DEF Promise!Next
  <1> QED
    BY <1>1, <1>2, <1>3, <1>4, <1>5, <1>6, <1>7, QuietRows, QuietDrains, QuietTime
    DEF Next, Progress, Trouble

\* The drains, with all their claims, crashes, hung sends and retries, keep the
\* outbox's promise.
THEOREM OutboxKeepsPromise == Safety => PromiseKept
  <1>1. Init => Promise!Init BY InitPromise
  <1>2. IInv /\ [Next]_vars => [Promise!Next]_(Promise!vars) BY NextPromise
  <1> QED BY <1>1, <1>2, ClaimsHeld, PTL DEF Safety, PromiseKept, Promise!Spec

-----------------------------------------------------------------------------
(* Repeats.  A send that was left behind and has not reached the provider  *)
(* is an excuse not used yet; what was taken without an excuse is at most  *)
(* one send, and it is either recorded or still in the hand of a running   *)
(* drain, which no other drain shares.                                     *)

Hung(x) == {d \in Drains : phase[d] # "send" /\ work[d][x] = "trying"}

Taken(x) ==
    \/ delivery[x].status \in {"SENT", "purged"}
    \/ \E d \in Drains : phase[d] = "send" /\ work[d][x] = "SENT"

Balanced(x) == surplus[x] + Cardinality(Hung(x)) <= IF Taken(x) THEN 1 ELSE 0

RepeatInv ==
    /\ \A x \in Deliveries : Balanced(x)
    /\ \A d \in Drains, x \in Deliveries : phase[d] = "expand" => work[d][x] = "none"

LEMMA HungFinite ==
    ASSUME NEW x \in Deliveries
    PROVE  /\ IsFiniteSet(Hung(x)) /\ Cardinality(Hung(x)) \in Nat
           /\ IsFiniteSet(Hung(x)') /\ Cardinality(Hung(x)') \in Nat
  <1>1. Hung(x) \subseteq Drains /\ Hung(x)' \subseteq Drains BY DEF Hung
  <1> QED BY <1>1, FS_Subset, FS_CardinalityType, OutboxAssumption

\* Fewer hung sends, no more surplus and no loss of what was taken.
LEMMA StillBalanced ==
    ASSUME IInv, IInv', NEW x \in Deliveries, Balanced(x),
           surplus'[x] <= surplus[x], Hung(x)' \subseteq Hung(x), Taken(x) => Taken(x)'
    PROVE  Balanced(x)'
  <1>1. surplus[x] \in Int /\ surplus'[x] \in Int BY DEF IInv, TypeOK
  <1>2. Cardinality(Hung(x)') <= Cardinality(Hung(x)) BY HungFinite, FS_Subset
  <1> QED BY <1>1, <1>2, HungFinite DEF Balanced

\* A send not taken may be excused once more.
LEMMA OneMoreHung ==
    ASSUME IInv, IInv', NEW x \in Deliveries, NEW d \in Drains, Balanced(x),
           surplus'[x] = surplus[x] - 1, Hung(x)' \subseteq Hung(x) \union {d}
    PROVE  surplus'[x] + Cardinality(Hung(x)') <= surplus[x] + Cardinality(Hung(x))
  <1>1. surplus[x] \in Int /\ surplus'[x] \in Int BY DEF IInv, TypeOK
  <1>2. IsFiniteSet(Hung(x) \union {d}) /\
        Cardinality(Hung(x) \union {d}) <= Cardinality(Hung(x)) + 1
    <2>1. IsFiniteSet(Hung(x)) /\ Cardinality(Hung(x)) \in Nat BY HungFinite
    <2>2. /\ IsFiniteSet(Hung(x) \union {d})
          /\ Cardinality(Hung(x) \union {d})
               = IF d \in Hung(x) THEN Cardinality(Hung(x)) ELSE Cardinality(Hung(x)) + 1
      BY <2>1, FS_AddElement, Zenon
    <2> QED BY <2>1, <2>2
  <1>3. Cardinality(Hung(x)') <= Cardinality(Hung(x) \union {d}) BY <1>2, FS_Subset
  <1>4. Cardinality(Hung(x) \union {d}) \in Nat BY <1>2, FS_CardinalityType
  <1> QED BY <1>1, <1>2, <1>3, <1>4, HungFinite

\* A running drain has x in hand: it waits, and no other drain has taken it.
LEMMA InHandAlone ==
    ASSUME IInv, NEW d \in Drains, NEW x \in Deliveries, phase[d] # "idle", work[d][x] # "none"
    PROVE  /\ delivery[x].status = "QUEUED"
           /\ \A e \in Drains : phase[e] # "idle" /\ work[e][x] # "none" => e = d
  <1>1. delivery[x].claim = Claim(d) BY DEF IInv, DeliveriesInHand
  <1>2. delivery[x].claim.by = d BY <1>1 DEF Claim
  <1>3. delivery[x].status = "QUEUED" BY <1>2, OutboxAssumption DEF IInv, ClaimedWait
  <1>4. \A e \in Drains : phase[e] # "idle" /\ work[e][x] # "none" => e = d
    BY <1>1, ClaimNamesDrain DEF IInv, DeliveriesInHand
  <1> QED BY <1>3, <1>4

LEMMA AttemptRepeat ==
    ASSUME IInv, IInv', RepeatInv, NEW d \in Drains, NEW y \in Deliveries, Attempt(d, y),
           NEW x \in Deliveries
    PROVE  Balanced(x)'
  <1>1. /\ work[d][y] = "trying"
        /\ UNCHANGED <<row, delivery, phase, expanding, faults>>
        /\ \E outcome \in Outcomes :
             /\ work' = [work EXCEPT ![d][y] = outcome]
             /\ surplus' = IF outcome = "SENT" THEN [surplus EXCEPT ![y] = @ + 1] ELSE surplus
    BY DEF Attempt
  <1>2. PICK outcome \in Outcomes :
             /\ work' = [work EXCEPT ![d][y] = outcome]
             /\ surplus' = IF outcome = "SENT" THEN [surplus EXCEPT ![y] = @ + 1] ELSE surplus
    BY <1>1
  <1>3. \A e \in Drains, z \in Deliveries :
           work'[e][z] = (IF e = d /\ z = y THEN outcome ELSE work[e][z])
    BY <1>2 DEF IInv, TypeOK
  <1>4. Balanced(x) BY DEF RepeatInv
  <1>5. Hung(x)' \subseteq Hung(x) /\ (Taken(x) => Taken(x)')
    BY <1>1, <1>3 DEF Hung, Taken, Outcomes
  <1>6. CASE x # y \/ outcome # "SENT"
    <2>1. surplus'[x] = surplus[x] BY <1>2, <1>6 DEF IInv, TypeOK
    <2>2. surplus'[x] <= surplus[x] BY <2>1 DEF IInv, TypeOK
    <2> QED BY <1>4, <1>5, <2>2, StillBalanced
  <1>7. CASE x = y /\ outcome = "SENT"
    <2>1. surplus[x] \in Int /\ surplus'[x] = surplus[x] + 1 BY <1>2, <1>7 DEF IInv, TypeOK
    <2>2. CASE phase[d] = "send"
      <3>1. ~Taken(x) BY <1>1, <1>7, <2>2, InHandAlone DEF Taken
      <3>2. Taken(x)' BY <1>1, <1>3, <1>7, <2>2 DEF Taken
      <3>3. Cardinality(Hung(x)') <= Cardinality(Hung(x)) BY <1>5, HungFinite, FS_Subset
      <3> QED BY <1>4, <2>1, <3>1, <3>2, <3>3, HungFinite DEF Balanced
    <2>3. CASE phase[d] # "send"
      <3>1. d \in Hung(x) /\ Hung(x)' = Hung(x) \ {d}
        BY <1>1, <1>3, <1>7, <2>3 DEF Hung
      <3>2. Cardinality(Hung(x)') = Cardinality(Hung(x)) - 1
        BY <3>1, HungFinite, FS_RemoveElement
      <3> QED BY <1>4, <1>5, <2>1, <3>2, HungFinite DEF Balanced
    <2> QED BY <2>2, <2>3
  <1> QED BY <1>6, <1>7

LEMMA RecordRepeat ==
    ASSUME IInv, IInv', RepeatInv, NEW d \in Drains, NEW y \in Deliveries, Record(d, y),
           NEW x \in Deliveries
    PROVE  Balanced(x)'
  <1>1. /\ work[d][y] \in Outcomes
        /\ work' = [work EXCEPT ![d][y] = "none"]
        /\ UNCHANGED <<row, phase, expanding, told, surplus, faults>>
        /\ delivery' = IF OwnClaim(d, y)
                       THEN [delivery EXCEPT ![y] = Recorded(@, work[d][y])] ELSE delivery
    BY DEF Record
  <1>2. \A e \in Drains, z \in Deliveries :
           work'[e][z] = (IF e = d /\ z = y THEN "none" ELSE work[e][z])
    BY <1>1 DEF IInv, TypeOK
  <1>3. Hung(x)' \subseteq Hung(x) BY <1>1, <1>2 DEF Hung
  <1>4. delivery \in [Deliveries -> DeliveryType] BY DEF IInv, TypeOK, DeliveryType
  <1>5. Taken(x) => Taken(x)'
    <2>1. CASE x # y
      <3>1. delivery'[x] = delivery[x] BY <1>1, <2>1
      <3> QED BY <1>1, <1>2, <2>1, <3>1 DEF Taken
    <2>2. CASE x = y /\ delivery[x].status \in {"SENT", "purged"}
      <3>1. ~OwnClaim(d, y) BY <2>2, OutboxAssumption DEF OwnClaim, IInv, ClaimedWait
      <3> QED BY <1>1, <2>2, <3>1 DEF Taken
    <2>3. CASE x = y /\ delivery[x].status \notin {"SENT", "purged"} /\ Taken(x)
      <3>1. PICK e \in Drains : phase[e] = "send" /\ work[e][x] = "SENT"
        BY <2>3 DEF Taken
      <3>2. CASE e # d BY <1>1, <1>2, <3>1, <3>2 DEF Taken
      <3>3. CASE e = d
        <4>1. delivery[x].claim = Claim(d) BY <3>1, <3>3 DEF IInv, DeliveriesInHand
        <4>2. OwnClaim(d, x) BY <4>1 DEF OwnClaim, Claim
        <4>3. delivery'[x] = Recorded(delivery[x], "SENT")
          BY <1>1, <1>4, <2>3, <3>1, <3>3, <4>2
        <4>4. delivery'[x].status = "SENT" BY <1>4, <4>3 DEF Recorded, DeliveryType
        <4> QED BY <4>4 DEF Taken
      <3> QED BY <3>2, <3>3
    <2> QED BY <2>1, <2>2, <2>3
  <1>6. surplus'[x] <= surplus[x] BY <1>1 DEF IInv, TypeOK
  <1> QED BY <1>3, <1>5, <1>6, StillBalanced DEF RepeatInv

\* An excuse pays for what is no longer in hand.
LEMMA ExcusedBalanced ==
    ASSUME IInv, IInv', NEW x \in Deliveries, Balanced(x),
           surplus'[x] = surplus[x] - 1, Hung(x)' \subseteq Hung(x)
    PROVE  Balanced(x)'
  <1>1. surplus[x] \in Int BY DEF IInv, TypeOK
  <1>2. Cardinality(Hung(x)') <= Cardinality(Hung(x)) BY HungFinite, FS_Subset
  <1>3. surplus[x] + Cardinality(Hung(x)) <= 1 BY <1>1, HungFinite DEF Balanced
  <1>4. surplus'[x] + Cardinality(Hung(x)') <= 0 BY <1>1, <1>2, <1>3, HungFinite
  <1> QED BY <1>1, <1>4, HungFinite DEF Balanced

LEMMA RecordFailsRepeat ==
    ASSUME IInv, IInv', RepeatInv, NEW d \in Drains, NEW y \in Deliveries, RecordFails(d, y),
           NEW x \in Deliveries
    PROVE  Balanced(x)'
  <1>1. /\ work' = [work EXCEPT ![d][y] = "none"]
        /\ Excuse({y} \intersect {z \in Deliveries : work[d][z] = "SENT"})
        /\ UNCHANGED <<row, delivery, phase, expanding, told>>
    BY DEF RecordFails
  <1>2. \A e \in Drains, z \in Deliveries :
           work'[e][z] = (IF e = d /\ z = y THEN "none" ELSE work[e][z])
    BY <1>1 DEF IInv, TypeOK
  <1>3. Hung(x)' \subseteq Hung(x) BY <1>1, <1>2 DEF Hung
  <1>4. CASE x = y /\ work[d][y] = "SENT"
    <2>1. surplus'[x] = surplus[x] - 1 BY <1>1, <1>4 DEF Excuse
    <2> QED BY <1>3, <2>1, ExcusedBalanced DEF RepeatInv
  <1>5. CASE ~(x = y /\ work[d][y] = "SENT")
    <2>1. surplus'[x] = surplus[x] BY <1>1, <1>5 DEF Excuse
    <2>2. surplus'[x] <= surplus[x] BY <2>1 DEF IInv, TypeOK
    <2>3. Taken(x) => Taken(x)' BY <1>1, <1>2, <1>5 DEF Taken
    <2> QED BY <1>3, <2>2, <2>3, StillBalanced DEF RepeatInv
  <1> QED BY <1>4, <1>5

LEMMA HardStopRepeat ==
    ASSUME IInv, IInv', RepeatInv, NEW d \in Drains, HardStop(d), NEW x \in Deliveries
    PROVE  Balanced(x)'
  <1>1. /\ phase[d] = "send" /\ Release(Queued(d)) /\ Excuse(InFlight(d))
        /\ phase' = [phase EXCEPT ![d] = "close"]
        /\ work' = [work EXCEPT ![d] = [z \in Deliveries |->
                       IF work[d][z] = "queued" THEN "none" ELSE work[d][z]]]
    BY DEF HardStop
  <1>2. delivery'[x].status = delivery[x].status BY <1>1, ReleaseFacts
  <1>3. /\ \A e \in Drains : e # d => work'[e][x] = work[e][x] /\ phase'[e] = phase[e]
        /\ work'[d][x] = IF work[d][x] = "queued" THEN "none" ELSE work[d][x]
        /\ phase'[d] = "close"
    BY <1>1 DEF IInv, TypeOK
  <1>4. CASE work[d][x] = "trying"
    <2>1. surplus'[x] = surplus[x] - 1 BY <1>1, <1>4 DEF Excuse, InFlight
    <2>2. Hung(x)' \subseteq Hung(x) \union {d} BY <1>3 DEF Hung
    <2>3. ~Taken(x) BY <1>1, <1>4, InHandAlone DEF Taken
    <2>4. surplus'[x] + Cardinality(Hung(x)') <= surplus[x] + Cardinality(Hung(x))
      BY <2>1, <2>2, OneMoreHung DEF RepeatInv
    <2>5. surplus[x] + Cardinality(Hung(x)) <= 0 BY <2>3 DEF RepeatInv, Balanced
    <2>6. surplus[x] \in Int /\ surplus'[x] \in Int BY DEF IInv, TypeOK
    <2> QED BY <2>4, <2>5, <2>6, HungFinite DEF Balanced
  <1>5. CASE work[d][x] \in Outcomes
    <2>1. surplus'[x] = surplus[x] - 1 BY <1>1, <1>5 DEF Excuse, InFlight
    <2>2. Hung(x)' \subseteq Hung(x) BY <1>3, <1>5 DEF Hung, Outcomes
    <2> QED BY <2>1, <2>2, ExcusedBalanced DEF RepeatInv
  <1>6. CASE x \notin InFlight(d)
    <2>1. surplus'[x] = surplus[x] BY <1>1, <1>6 DEF Excuse
    <2>2. surplus'[x] <= surplus[x] BY <2>1 DEF IInv, TypeOK
    <2>3. Hung(x)' \subseteq Hung(x) BY <1>3, <1>6 DEF Hung, InFlight
    <2>4. Taken(x) => Taken(x)' BY <1>2, <1>3, <1>6 DEF Taken, InFlight, Outcomes
    <2> QED BY <2>2, <2>3, <2>4, StillBalanced DEF RepeatInv
  <1> QED BY <1>4, <1>5, <1>6 DEF InFlight

LEMMA KillRepeat ==
    ASSUME IInv, IInv', RepeatInv, NEW d \in Drains, Kill(d), NEW x \in Deliveries
    PROVE  Balanced(x)'
  <1>1. /\ phase' = [phase EXCEPT ![d] = "idle"]
        /\ work' = [work EXCEPT ![d] = [z \in Deliveries |-> "none"]]
        /\ Excuse(IF phase[d] = "send" THEN {z \in Deliveries : work[d][z] = "SENT"} ELSE {})
        /\ delivery' = delivery
    BY DEF Kill
  <1>2. /\ \A e \in Drains : e # d => work'[e][x] = work[e][x] /\ phase'[e] = phase[e]
        /\ work'[d][x] = "none" /\ phase'[d] = "idle"
    BY <1>1 DEF IInv, TypeOK
  <1>3. Hung(x)' \subseteq Hung(x) BY <1>2 DEF Hung
  <1>4. CASE phase[d] = "send" /\ work[d][x] = "SENT"
    <2>1. surplus'[x] = surplus[x] - 1 BY <1>1, <1>4 DEF Excuse
    <2> QED BY <1>3, <2>1, ExcusedBalanced DEF RepeatInv
  <1>5. CASE ~(phase[d] = "send" /\ work[d][x] = "SENT")
    <2>1. surplus'[x] = surplus[x] BY <1>1, <1>5 DEF Excuse
    <2>2. surplus'[x] <= surplus[x] BY <2>1 DEF IInv, TypeOK
    <2>3. Taken(x) => Taken(x)' BY <1>1, <1>2, <1>5 DEF Taken
    <2> QED BY <1>3, <2>2, <2>3, StillBalanced DEF RepeatInv
  <1> QED BY <1>4, <1>5

\* Steps that neither send nor lose an outcome.
LEMMA OtherRepeat ==
    ASSUME IInv, IInv', RepeatInv, NEW d \in Drains, NEW x \in Deliveries,
           \/ Start(d) \/ StopExpanding(d) \/ ClaimDue(d) \/ StartChunk(d) \/ AllSent(d)
           \/ ReleaseUnstarted(d) \/ CloseFinished(d) \/ CloseFails(d) \/ PurgeDelivered(d)
           \/ Recycle(d)
    PROVE  Balanced(x)'
  <1>1. surplus'[x] <= surplus[x]
    <2>1. surplus' = surplus
      BY DEF Start, StopExpanding, ClaimDue, StartChunk, AllSent, ReleaseUnstarted,
         CloseFinished, CloseFails, PurgeDelivered, Recycle
    <2> QED BY <2>1 DEF IInv, TypeOK
  <1>2. \A e \in Drains : e # d => work'[e][x] = work[e][x] /\ phase'[e] = phase[e]
    <2> SUFFICES ASSUME NEW e \in Drains, e # d
                 PROVE  work'[e][x] = work[e][x] /\ phase'[e] = phase[e]
      OBVIOUS
    <2>1. work'[e] = work[e]
      <3>1. CASE ClaimDue(d) BY <3>1 DEF ClaimDue, IInv, TypeOK
      <3>2. CASE StartChunk(d) BY <3>2 DEF StartChunk, IInv, TypeOK
      <3>3. CASE ReleaseUnstarted(d) \/ Recycle(d)
        BY <3>3 DEF ReleaseUnstarted, Recycle, IInv, TypeOK
      <3>4. CASE \/ Start(d) \/ StopExpanding(d) \/ AllSent(d)
                 \/ CloseFinished(d) \/ CloseFails(d) \/ PurgeDelivered(d)
        BY <3>4 DEF Start, StopExpanding, AllSent, CloseFinished, CloseFails, PurgeDelivered
      <3> QED BY <3>1, <3>2, <3>3, <3>4
    <2>2. phase'[e] = phase[e]
      <3>1. CASE Start(d) \/ ClaimDue(d) BY <3>1 DEF Start, ClaimDue, IInv, TypeOK
      <3>2. CASE StopExpanding(d) BY <3>2 DEF StopExpanding, IInv, TypeOK
      <3>3. CASE ReleaseUnstarted(d) \/ AllSent(d) BY <3>3 DEF ReleaseUnstarted, AllSent, IInv, TypeOK
      <3>4. CASE CloseFinished(d) \/ CloseFails(d) \/ PurgeDelivered(d)
        BY <3>4 DEF CloseFinished, CloseFails, PurgeDelivered, IInv, TypeOK
      <3>5. CASE StartChunk(d) \/ Recycle(d) BY <3>5 DEF StartChunk, Recycle
      <3> QED BY <3>1, <3>2, <3>3, <3>4, <3>5
    <2> QED BY <2>1, <2>2
  <1>3. delivery[x].status \in {"SENT", "purged"} => delivery'[x].status \in {"SENT", "purged"}
    <2>1. CASE ClaimDue(d) BY <2>1 DEF ClaimDue, Sendable, IInv, TypeOK
    <2>2. CASE ReleaseUnstarted(d) BY <2>2, ReleaseFacts DEF ReleaseUnstarted
    <2>3. CASE PurgeDelivered(d)
      <3>1. delivery \in [Deliveries -> DeliveryType] BY DEF IInv, TypeOK, DeliveryType
      <3>2. \/ delivery'[x] = delivery[x]
            \/ delivery'[x] = [delivery[x] EXCEPT !.status = "purged", !.claim = Free]
        BY <2>3 DEF PurgeDelivered
      <3> QED BY <3>1, <3>2 DEF DeliveryType
    <2>4. CASE ~(ClaimDue(d) \/ ReleaseUnstarted(d) \/ PurgeDelivered(d))
      <3>1. delivery' = delivery
        BY <2>4 DEF Start, StopExpanding, StartChunk, AllSent, CloseFinished, CloseFails, Recycle
      <3> QED BY <3>1
    <2> QED BY <2>1, <2>2, <2>3, <2>4
  <1>4. /\ d \in Hung(x)' => d \in Hung(x)
        /\ phase[d] = "send" /\ work[d][x] = "SENT" => phase'[d] = "send" /\ work'[d][x] = "SENT"
    <2>1. CASE Start(d) BY <2>1 DEF Start, Hung, IInv, TypeOK
    <2>2. CASE StopExpanding(d) BY <2>2 DEF StopExpanding, Hung, IInv, TypeOK
    <2>3. CASE ClaimDue(d) BY <2>3 DEF ClaimDue, Hung, IInv, TypeOK
    <2>4. CASE StartChunk(d) BY <2>4 DEF StartChunk, Hung, Queued, IInv, TypeOK
    <2>5. CASE AllSent(d) BY <2>5 DEF AllSent, Hung, IInv, TypeOK
    <2>6. CASE ReleaseUnstarted(d)
      <3>1. work'[d][x] = "none" BY <2>6 DEF ReleaseUnstarted, IInv, TypeOK
      <3>2. work[d][x] # "SENT" BY <2>6 DEF ReleaseUnstarted, InFlight, Outcomes
      <3> QED BY <3>1, <3>2 DEF Hung
    <2>7. CASE CloseFinished(d) BY <2>7 DEF CloseFinished, Hung, IInv, TypeOK
    <2>8. CASE CloseFails(d) BY <2>8 DEF CloseFails, Hung, IInv, TypeOK
    <2>9. CASE PurgeDelivered(d) BY <2>9 DEF PurgeDelivered, Hung, IInv, TypeOK
    <2>10. CASE Recycle(d) BY <2>10 DEF Recycle, Hung, IInv, TypeOK
    <2> QED BY <2>1, <2>2, <2>3, <2>4, <2>5, <2>6, <2>7, <2>8, <2>9, <2>10
  <1>5. Hung(x)' \subseteq Hung(x) BY <1>2, <1>4 DEF Hung
  <1>6. Taken(x) => Taken(x)' BY <1>2, <1>3, <1>4 DEF Taken
  <1> QED BY <1>1, <1>5, <1>6, StillBalanced DEF RepeatInv

\* Steps that touch no drain's sends.
LEMMA QuietRepeat ==
    ASSUME IInv, IInv', RepeatInv, NEW x \in Deliveries, UNCHANGED <<phase, work, surplus>>,
           delivery[x].status \in {"SENT", "purged"} => delivery'[x].status \in {"SENT", "purged"}
    PROVE  Balanced(x)'
  <1>1. surplus'[x] <= surplus[x] BY DEF IInv, TypeOK
  <1>2. Hung(x)' \subseteq Hung(x) BY DEF Hung
  <1>3. Taken(x) => Taken(x)' BY DEF Taken
  <1> QED BY <1>1, <1>2, <1>3, StillBalanced DEF RepeatInv

LEMMA RowRepeat ==
    ASSUME IInv, IInv', RepeatInv, NEW x \in Deliveries, NEW r \in Rows,
           \/ Enqueue(r) \/ LapseRow(r)
           \/ \E d \in Drains : \/ CreateDeliveries(d, r) \/ MarkExpanded(d, r)
                               \/ ExpansionFails(d, r) \/ FailureUnrecorded(d, r)
    PROVE  Balanced(x)'
  <1>1. UNCHANGED <<phase, work, surplus>>
    BY DEF Enqueue, LapseRow, CreateDeliveries, MarkExpanded, ExpansionFails, FailureUnrecorded
  <1>2. delivery[x].status \in {"SENT", "purged"} => delivery'[x] = delivery[x]
    BY DEF Enqueue, LapseRow, CreateDeliveries, MarkExpanded, ExpansionFails, FailureUnrecorded
  <1> QED BY <1>1, <1>2, QuietRepeat

LEMMA TimeRepeat ==
    ASSUME IInv, IInv', RepeatInv, NEW x \in Deliveries, NEW y \in Deliveries,
           LapseDelivery(y) \/ BecomeDue(y)
    PROVE  Balanced(x)'
  <1>1. UNCHANGED <<phase, work, surplus>> BY DEF LapseDelivery, BecomeDue
  <1>2. delivery \in [Deliveries -> DeliveryType] BY DEF IInv, TypeOK, DeliveryType
  <1>3. delivery'[x].status = delivery[x].status
    <2>1. CASE LapseDelivery(y)
      BY <1>2, <2>1, ZenonT(30) DEF LapseDelivery, DeliveryType, Claims
    <2>2. CASE BecomeDue(y) BY <1>2, <2>2 DEF BecomeDue, DeliveryType
    <2> QED BY <2>1, <2>2
  <1> QED BY <1>1, <1>3, QuietRepeat

\* A drain that expands has no sends in hand.
LEMMA ExpandEmpty ==
    ASSUME IInv, IInv', RepeatInv, Next, NEW d \in Drains, NEW x \in Deliveries,
           phase'[d] = "expand"
    PROVE  work'[d][x] = "none"
  <1> USE DEF IInv, TypeOK
  <1>0. phase[d] = "expand" => work[d][x] = "none" BY DEF RepeatInv
  <1>1. CASE \E r \in Rows : Enqueue(r) \/ LapseRow(r)
    BY <1>0, <1>1 DEF Enqueue, LapseRow
  <1>2. CASE \E y \in Deliveries : LapseDelivery(y) \/ BecomeDue(y)
    BY <1>0, <1>2 DEF LapseDelivery, BecomeDue
  <1>3. ASSUME NEW e \in Drains, Start(e) PROVE work'[d][x] = "none"
    BY <1>0, <1>3 DEF Start
  <1>4. ASSUME NEW e \in Drains, NEW r \in Rows,
               \/ CreateDeliveries(e, r) \/ MarkExpanded(e, r)
               \/ ExpansionFails(e, r) \/ FailureUnrecorded(e, r)
        PROVE  work'[d][x] = "none"
    BY <1>0, <1>4 DEF CreateDeliveries, MarkExpanded, ExpansionFails, FailureUnrecorded
  <1>5. ASSUME NEW e \in Drains, ClaimDue(e) PROVE work'[d][x] = "none"
    <2>1. e # d BY <1>5 DEF ClaimDue
    <2> QED BY <1>0, <1>5, <2>1 DEF ClaimDue
  <1>6. ASSUME NEW e \in Drains, StartChunk(e) PROVE work'[d][x] = "none"
    <2>1. e # d BY <1>6 DEF StartChunk
    <2> QED BY <1>0, <1>6, <2>1 DEF StartChunk
  <1>7. ASSUME NEW e \in Drains,
               \/ AllSent(e) \/ CloseFinished(e) \/ CloseFails(e) \/ PurgeDelivered(e)
               \/ StopExpanding(e)
        PROVE  work'[d][x] = "none"
    BY <1>0, <1>7 DEF AllSent, CloseFinished, CloseFails, PurgeDelivered, StopExpanding
  <1>8. ASSUME NEW e \in Drains, NEW y \in Deliveries, Attempt(e, y) PROVE work'[d][x] = "none"
    <2>1. phase[d] = "expand" BY <1>8 DEF Attempt
    <2>2. ~(e = d /\ y = x) BY <1>0, <1>8, <2>1 DEF Attempt
    <2>3. \E o \in Outcomes : work' = [work EXCEPT ![e][y] = o] BY <1>8 DEF Attempt
    <2> QED BY <1>0, <2>1, <2>2, <2>3
  <1>9. ASSUME NEW e \in Drains, NEW y \in Deliveries, Record(e, y) \/ RecordFails(e, y)
        PROVE  work'[d][x] = "none"
    <2>1. phase' = phase /\ work' = [work EXCEPT ![e][y] = "none"] BY <1>9 DEF Record, RecordFails
    <2> QED BY <1>0, <2>1
  <1>10. ASSUME NEW e \in Drains, ReleaseUnstarted(e) \/ HardStop(e) PROVE work'[d][x] = "none"
    <2>1. e # d BY <1>10 DEF ReleaseUnstarted, HardStop
    <2>2. phase'[d] = phase[d] /\ work'[d] = work[d]
      <3>1. CASE ReleaseUnstarted(e) BY <2>1, <3>1 DEF ReleaseUnstarted
      <3>2. CASE HardStop(e) BY <2>1, <3>2 DEF HardStop
      <3> QED BY <1>10, <3>1, <3>2
    <2> QED BY <1>0, <2>2
  <1>11. ASSUME NEW e \in Drains, Kill(e) PROVE work'[d][x] = "none"
    BY <1>0, <1>11 DEF Kill
  <1>12. ASSUME NEW e \in Drains, Recycle(e) PROVE work'[d][x] = "none"
    BY <1>0, <1>12 DEF Recycle
  <1> QED
    BY <1>1, <1>2, <1>3, <1>4, <1>5, <1>6, <1>7, <1>8, <1>9, <1>10, <1>11, <1>12
    DEF Next, Progress, Trouble

\* Overlapping drains never repeat a message: a provider takes it once, and
\* once more for every send whose outcome a failure lost.
THEOREM OnlyFailuresRepeat == Safety => []RepeatsAreExcused
  <1>1. ASSUME Init PROVE RepeatInv
    <2> SUFFICES ASSUME NEW x \in Deliveries PROVE Balanced(x) BY <1>1 DEF RepeatInv, Init
    <2>1. Hung(x) = {} /\ surplus[x] = 0 BY <1>1 DEF Hung, Init
    <2>2. Cardinality(Hung(x)) = 0 BY <2>1, FS_EmptySet
    <2> QED BY <2>1, <2>2 DEF Balanced
  <1>2. ASSUME IInv, IInv', RepeatInv, [Next]_vars PROVE RepeatInv'
    <2>1. CASE UNCHANGED vars BY <1>2, <2>1 DEF vars, RepeatInv, Balanced, Hung, Taken
    <2>2. CASE Next
      <3>1. ASSUME NEW x \in Deliveries PROVE Balanced(x)'
        BY <1>2, <2>2, AttemptRepeat, RecordRepeat, RecordFailsRepeat, HardStopRepeat, KillRepeat,
           OtherRepeat, RowRepeat, TimeRepeat
        DEF Next, Progress, Trouble
      <3>2. \A d \in Drains, x \in Deliveries : phase'[d] = "expand" => work'[d][x] = "none"
        BY <1>2, <2>2, ExpandEmpty
      <3> QED BY <3>1, <3>2 DEF RepeatInv
    <2> QED BY <1>2, <2>1, <2>2
  <1>3. ASSUME IInv, RepeatInv PROVE RepeatsAreExcused
    <2> SUFFICES ASSUME NEW x \in Deliveries PROVE surplus[x] <= 1 BY DEF RepeatsAreExcused
    <2>1. surplus[x] \in Int BY <1>3 DEF IInv, TypeOK
    <2> QED BY <1>3, <2>1, HungFinite DEF RepeatInv, Balanced
  <1> QED BY <1>1, <1>2, <1>3, ClaimsHeld, PTL DEF Safety
====
