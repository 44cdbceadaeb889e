------------------------ MODULE ShipmentsJourneyProofs ------------------------
(***************************************************************************)
(* What holds of the shipment tables as long as no two requests in flight  *)
(* concern one shipment, for any number of shipments, payments and         *)
(* requests: the timeline, previousStatus and the audit trail tell the     *)
(* truth, one payment at most is verified, and every step is a step of     *)
(* DeliveryJourney.  A server that handles one request at a time is the    *)
(* simplest case, a lock of the shipment's row from the read to the write  *)
(* another; the code has neither.                                          *)
(***************************************************************************)
EXTENDS ShipmentsJourney, ShipmentsProofs, FiniteSetTheorems

\* The shipments that a request in flight has read in order to write to them.
Concerns(plan) ==
  IF plan.op = "idle" THEN {}
  ELSE IF plan.op = "bulk" THEN DOMAIN plan.seen
  ELSE {plan.shipment}

\* No two requests in flight concern one shipment.
OneRequestPerShipment ==
  \A q, r \in Requests :
    q # r => Concerns(request[q]) \cap Concerns(request[r]) = {}

\* A status change in flight is still a legal step from the row it was read from.
FreshTransition(s, from, to) ==
  /\ from = shipment[s].status
  /\ isValidTransition(from, to, shipment[s].serviceType,
                       shipment[s].previousStatus)

\* What a request in flight has read is still what the tables hold.
Fresh(plan) ==
  /\ plan.op = "cancel" =>
       shipment[plan.shipment].status = "PENDING_PAYMENT"
  /\ plan.op = "status" =>
       FreshTransition(plan.shipment, plan.from, plan.to)
  /\ plan.op = "bulk" =>
       \A s \in DOMAIN plan.seen : FreshTransition(s, plan.seen[s], plan.to)
  /\ plan.op = "weight" =>
       /\ plan.status = shipment[plan.shipment].status
       /\ plan.totalBefore = shipment[plan.shipment].totalAmount
  /\ plan.op \in {"count", "verify"} =>
       plan.appendPaidEvent =
         (shipment[plan.shipment].status = "PENDING_PAYMENT")
  /\ plan.op \in {"count", "verify", "reject"} =>
       plan.payment \notin VerifiedOf(plan.shipment)
  /\ plan.op = "verify" => VerifiedOf(plan.shipment) = {}

PlansAreFresh == \A r \in Requests : Fresh(request[r])

\* Two verified payments of one shipment are the same payment.
VerifiedIsUnique ==
  \A s \in Shipments : \A p, q \in VerifiedOf(s) : p = q

\* What every step preserves as long as no two requests concern one shipment.
CalmInv ==
  /\ PreviousOnlyWhileHeld
  /\ TimelineShowsStatus
  /\ VerifiedIsUnique
  /\ PlansAreFresh

-------------------------------------------------------------------------------
(* What a step writes.                                                     *)

\* The step is about shipment s alone: the other rows, their timelines and their
\* verified payments are kept.
OthersKept(s) ==
  \A t \in Shipments \ {s} :
    /\ shipment'[t] = shipment[t]
    /\ latestEvent'[t] = latestEvent[t]
    /\ VerifiedOf(t)' = VerifiedOf(t)

\* The row that the step leaves says what the tables promise of it.
CalmRow(s) ==
  /\ shipment'[s].previousStatus # NULL => shipment'[s].status = "ON_HOLD"
  /\ latestEvent'[s] = shipment'[s].status
  /\ \A p, q \in VerifiedOf(s)' : p = q

\* The ways in which one shipment's journey may go on, or stand still.
Stands(s) ==
  /\ LegOf(StageOf(s))' = LegOf(StageOf(s))
  /\ (shipment'[s].status = "ON_HOLD") = (shipment[s].status = "ON_HOLD")
  /\ VerifiedOf(s)' = VerifiedOf(s)

Advances(s) ==
  /\ shipment[s].status # "ON_HOLD" /\ shipment'[s].status # "ON_HOLD"
  /\ LegOf(StageOf(s)) \in 1 .. 6
  /\ LegOf(StageOf(s))' = LegOf(StageOf(s)) + 1
  /\ VerifiedOf(s)' = VerifiedOf(s)

Holds(s) ==
  /\ shipment[s].status # "ON_HOLD" /\ shipment'[s].status = "ON_HOLD"
  /\ LegOf(StageOf(s)) \in 3 .. 6
  /\ LegOf(StageOf(s))' = LegOf(StageOf(s))
  /\ VerifiedOf(s)' = VerifiedOf(s)

GoesOn(s) ==
  /\ shipment[s].status = "ON_HOLD" /\ shipment'[s].status # "ON_HOLD"
  /\ LegOf(StageOf(s))' = LegOf(StageOf(s))
  /\ VerifiedOf(s)' = VerifiedOf(s)

IsCalledOff(s) ==
  /\ shipment[s].status = "ON_HOLD" \/ LegOf(StageOf(s)) \in 1 .. 3
  /\ shipment'[s].status # "ON_HOLD"
  /\ LegOf(StageOf(s))' = 0
  /\ VerifiedOf(s)' = VerifiedOf(s)

IsSettled(s) ==
  /\ VerifiedOf(s) = {}
  /\ \E p \in Payments : VerifiedOf(s)' = {p}
  /\ LegOf(StageOf(s))' =
       IF LegOf(StageOf(s)) = 1 THEN 2 ELSE LegOf(StageOf(s))
  /\ (shipment'[s].status = "ON_HOLD") = (shipment[s].status = "ON_HOLD")

JourneyRow(s) ==
  \/ Stands(s)
  \/ Advances(s)
  \/ Holds(s)
  \/ GoesOn(s)
  \/ IsCalledOff(s)
  \/ IsSettled(s)

\* The audit row of a status change or of a correction of request r tells what
\* became of shipment s.
AuditTells(r, s) ==
  /\ request[r].op \in {"status", "bulk"} =>
       /\ audit'.entity = s
       /\ audit'.before = shipment[s].status
       /\ audit'.after = shipment'[s].status
  /\ request[r].op = "weight" =>
       /\ audit'.entity = s
       /\ audit'.totalBefore = shipment[s].totalAmount
       /\ audit'.totalAfter = shipment'[s].totalAmount

\* A step of request r that reads, refuses or fails.
Reads(r) ==
  /\ UNCHANGED <<shipment, payment, latestEvent>>
  /\ \E plan : Fresh(plan) /\ request' = [request EXCEPT ![r] = plan]

\* A step of request r that writes what it planned for shipment s.
Writes(r, s) ==
  /\ OthersKept(s)
  /\ CalmRow(s)
  /\ JourneyRow(s)
  /\ AuditTells(r, s)
  /\ \E plan \in RequestState :
       /\ Fresh(plan)
       /\ s \notin Concerns(plan)
       /\ request' = [request EXCEPT ![r] = plan]

-------------------------------------------------------------------------------
(* Facts about rows and plans.                                             *)

\* A plan concerns shipments.
LEMMA ConcernsAre ==
  ASSUME NEW plan \in RequestState
  PROVE  Concerns(plan) \subseteq Shipments
<1>1. plan.op = "bulk" => \E ids \in SUBSET Shipments : plan.seen \in [ids -> Status]
  BY SlotFields
<1>2. plan.op \notin {"idle", "bulk"} => plan.shipment \in Shipments
  BY SlotFields DEF RequestState
<1>3. QED
  BY <1>1, <1>2 DEF Concerns

\* A slot without a plan has read nothing.
LEMMA IdleIsFresh == Idle \in RequestState /\ Fresh(Idle) /\ Concerns(Idle) = {}
BY DEF Idle, RequestState, Fresh, Concerns

\* A plan stays fresh under a write to a shipment it does not concern.
LEMMA FreshKept ==
  ASSUME NEW plan \in RequestState, Fresh(plan),
         NEW s, s \notin Concerns(plan), OthersKept(s)
  PROVE  Fresh(plan)'
<1>1. ASSUME NEW t \in Concerns(plan)
      PROVE  shipment'[t] = shipment[t] /\ VerifiedOf(t)' = VerifiedOf(t)
  <2>1. t \in Shipments \ {s}
    BY ConcernsAre
  <2>2. QED
    BY <2>1 DEF OthersKept
<1>2. CASE plan.op = "bulk"
  <2>1. \A t \in DOMAIN plan.seen : shipment'[t] = shipment[t]
    BY <1>1, <1>2 DEF Concerns
  <2>2. QED
    BY <1>2, <2>1 DEF Fresh, FreshTransition
<1>3. CASE plan.op = "idle"
  BY <1>3 DEF Fresh
<1>4. CASE plan.op \notin {"idle", "bulk"}
  <2>1. /\ shipment'[plan.shipment] = shipment[plan.shipment]
        /\ VerifiedOf(plan.shipment)' = VerifiedOf(plan.shipment)
    BY <1>1, <1>4 DEF Concerns
  <2>2. QED
    BY <1>4, <2>1 DEF Fresh, FreshTransition
<1>5. QED
  BY <1>2, <1>3, <1>4

\* Reading keeps the promises.
LEMMA ReadsKeepCalm ==
  ASSUME TypeOK, CalmInv, NEW r \in Requests, Reads(r)
  PROVE  CalmInv'
<1>1. UNCHANGED <<shipment, payment, latestEvent>>
  BY DEF Reads
<1>2. PICK plan : Fresh(plan) /\ request' = [request EXCEPT ![r] = plan]
  BY DEF Reads
<1>3. ASSUME NEW q \in Requests
      PROVE  Fresh(request[q])'
  <2>1. Fresh(request'[q])
    BY <1>2 DEF TypeOK, CalmInv, PlansAreFresh
  <2>2. QED
    BY <1>1, <2>1 DEF Fresh, FreshTransition, VerifiedOf, PaymentsOf
<1>4. PlansAreFresh'
  BY <1>3 DEF PlansAreFresh
<1>5. QED
  BY <1>1, <1>4 DEF CalmInv, PreviousOnlyWhileHeld, TimelineShowsStatus,
     VerifiedIsUnique, VerifiedOf, PaymentsOf

\* So does writing, as long as no other request concerns the same shipment.
LEMMA WritesKeepCalm ==
  ASSUME TypeOK, CalmInv, OneRequestPerShipment, NEW r \in Requests,
         NEW s \in Concerns(request[r]), Writes(r, s)
  PROVE  CalmInv'
<1>1. OthersKept(s) /\ CalmRow(s)
  BY DEF Writes
<1>2. PICK plan \in RequestState :
        /\ Fresh(plan)
        /\ s \notin Concerns(plan)
        /\ request' = [request EXCEPT ![r] = plan]
  BY DEF Writes
<1>3. ASSUME NEW q \in Requests
      PROVE  Fresh(request[q])'
  <2>1. PICK mine : mine = request'[q]
    OBVIOUS
  <2>2. mine \in RequestState /\ Fresh(mine) /\ s \notin Concerns(mine)
    <3>1. CASE q = r
      BY <1>2, <2>1, <3>1 DEF TypeOK
    <3>2. CASE q # r
      <4>1. mine = request[q]
        BY <1>2, <2>1, <3>2
      <4>2. s \notin Concerns(request[q])
        BY <3>2 DEF OneRequestPerShipment
      <4>3. QED
        BY <4>1, <4>2 DEF TypeOK, CalmInv, PlansAreFresh
    <3>3. QED
      BY <3>1, <3>2
  <2>3. Fresh(mine)'
    BY <1>1, <2>2, FreshKept
  <2>4. QED
    BY <2>1, <2>3 DEF Fresh, FreshTransition, VerifiedOf, PaymentsOf
<1>4. PlansAreFresh'
  BY <1>3 DEF PlansAreFresh
<1>5. PreviousOnlyWhileHeld' /\ TimelineShowsStatus'
  BY <1>1 DEF CalmInv, PreviousOnlyWhileHeld, TimelineShowsStatus, OthersKept, CalmRow
<1>6. VerifiedIsUnique'
  <2>1. ASSUME NEW t \in Shipments
        PROVE  \A p, q \in VerifiedOf(t)' : p = q
    BY <1>1 DEF CalmInv, VerifiedIsUnique, OthersKept, CalmRow
  <2>2. QED
    BY <2>1 DEF VerifiedIsUnique
<1>7. QED
  BY <1>4, <1>5, <1>6 DEF CalmInv

-------------------------------------------------------------------------------
(* What each write does to its shipment.                                   *)

\* A step that leaves the payments alone leaves the verified ones alone.
LEMMA VerifiedSame ==
  ASSUME UNCHANGED payment
  PROVE  \A t : VerifiedOf(t)' = VerifiedOf(t)
BY DEF VerifiedOf, PaymentsOf

\* A step that changes one row at most, its timeline and no payment.
LEMMA OneRowStep ==
  ASSUME TypeOK, CalmInv, NEW s \in Shipments, NEW new, NEW event,
         shipment' = [shipment EXCEPT ![s] = new],
         latestEvent' = [latestEvent EXCEPT ![s] = event],
         \A t \in Shipments : VerifiedOf(t)' = VerifiedOf(t),
         event = new.status,
         new.previousStatus # NULL => new.status = "ON_HOLD"
  PROVE  OthersKept(s) /\ CalmRow(s)
<1>1. /\ shipment'[s] = new
      /\ latestEvent'[s] = event
      /\ \A t \in Shipments \ {s} :
           shipment'[t] = shipment[t] /\ latestEvent'[t] = latestEvent[t]
  BY DEF TypeOK
<1>2. \A p, q \in VerifiedOf(s)' : p = q
  BY DEF CalmInv, VerifiedIsUnique
<1>3. QED
  BY <1>1, <1>2 DEF OthersKept, CalmRow

\* The statuses, and where the status machine lets each of them go.
LEMMA WaysOn ==
  ASSUME NEW from \in Status \ {"ON_HOLD"}, NEW to, NEW service, NEW previous,
         isValidTransition(from, to, service, previous)
  PROVE  \/ /\ to = "ON_HOLD"
            /\ LegOf(from) \in 3 .. 6
         \/ /\ to = "CANCELLED"
            /\ LegOf(from) \in 1 .. 3
            /\ LegOf(to) = 0
         \/ /\ to \notin {"ON_HOLD", "CANCELLED"}
            /\ LegOf(from) \in 1 .. 6
            /\ LegOf(to) = LegOf(from) + 1
<1>1. to \in STATUS_TRANSITIONS[from]
  BY DEF isValidTransition, getAllowedTransitions
<1>2. CASE from = "PENDING_PAYMENT"
  BY <1>1, <1>2 DEF STATUS_TRANSITIONS, LegOf
<1>3. CASE from = "PAID"
  BY <1>1, <1>3 DEF STATUS_TRANSITIONS, LegOf
<1>4. CASE from = "RECEIVED_AT_WAREHOUSE"
  BY <1>1, <1>4 DEF STATUS_TRANSITIONS, LegOf
<1>5. CASE from = "IN_TRANSIT"
  BY <1>1, <1>5 DEF STATUS_TRANSITIONS, LegOf
<1>6. CASE from = "ARRIVED_AT_DESTINATION"
  BY <1>1, <1>6 DEF STATUS_TRANSITIONS, LegOf
<1>7. CASE from = "READY_FOR_PICKUP"
  BY <1>1, <1>7 DEF STATUS_TRANSITIONS, LegOf
<1>8. CASE from = "OUT_FOR_DELIVERY"
  BY <1>1, <1>8 DEF STATUS_TRANSITIONS, LegOf
<1>9. CASE from \in {"DELIVERED", "CANCELLED"}
  BY <1>1, <1>9 DEF STATUS_TRANSITIONS
<1>10. QED
  BY <1>2, <1>3, <1>4, <1>5, <1>6, <1>7, <1>8, <1>9 DEF Status

\* A status change that is still legal when it is written takes the journey on.
LEMMA TransitionTakesOn ==
  ASSUME TypeOK, HeldCanResume, CalmInv,
         NEW s \in Shipments, NEW from \in Status, NEW to \in Status,
         NEW deliveredTo \in BOOLEAN, NEW cancelReason \in BOOLEAN,
         FreshTransition(s, from, to),
         ApplyTransition(s, from, to, deliveredTo, cancelReason),
         UNCHANGED payment
  PROVE  /\ OthersKept(s)
         /\ CalmRow(s)
         /\ JourneyRow(s)
         /\ audit'.entity = s
         /\ audit'.before = shipment[s].status
         /\ audit'.after = shipment'[s].status
<1> DEFINE row == shipment[s]
           previous == nextPreviousStatus(from, to, row.previousStatus)
           delivered == IF to = "DELIVERED" THEN deliveredTo ELSE row.deliveredTo
           explained == IF to = "CANCELLED" THEN cancelReason ELSE row.cancelReason
           new == [row EXCEPT !.status = to, !.previousStatus = previous,
                              !.deliveredTo = delivered,
                              !.cancelReason = explained]
<1>1. /\ shipment' = [shipment EXCEPT ![s] = new]
      /\ latestEvent' = [latestEvent EXCEPT ![s] = to]
  BY DEF ApplyTransition, AppendEvent
<1>2. row \in ShipmentRow
  BY DEF TypeOK
<1>3. new.status = to /\ new.previousStatus = previous
  <2> HIDE DEF previous, delivered, explained
  <2>1. QED
    BY <1>2 DEF ShipmentRow
<1>4. shipment'[s] = new
  <2> HIDE DEF new
  <2>1. QED
    BY <1>1 DEF TypeOK
<1> HIDE DEF new
<1>5. /\ from = row.status
      /\ isValidTransition(from, to, row.serviceType, row.previousStatus)
  BY DEF FreshTransition
<1>6. row.previousStatus # NULL => from = "ON_HOLD"
  BY <1>5 DEF CalmInv, PreviousOnlyWhileHeld
<1>7. previous # NULL => to = "ON_HOLD"
  BY <1>6 DEF nextPreviousStatus
<1>8. \A t : VerifiedOf(t)' = VerifiedOf(t)
  BY VerifiedSame
<1>9. OthersKept(s) /\ CalmRow(s)
  BY <1>1, <1>3, <1>7, <1>8, OneRowStep
<1>10. JourneyRow(s)
  <2>1. StageOf(s)' = IF to = "ON_HOLD" THEN previous ELSE to
    BY <1>3, <1>4 DEF StageOf
  <2>2. shipment'[s].status = to /\ shipment[s].status = from
    BY <1>3, <1>4, <1>5
  <2>3. CASE from = "ON_HOLD"
    <3>1. /\ row.previousStatus \in Holdable
          /\ StageOf(s) = row.previousStatus
      BY <2>2, <2>3 DEF HeldCanResume, StageOf
    <3>2. to = row.previousStatus \/ to = "CANCELLED"
      BY <1>5, <2>3 DEF isValidTransition, getAllowedTransitions, WaysOutOfHold
    <3>3. to # "ON_HOLD"
      BY <3>1, <3>2, HoldableIs
    <3>4. CASE to = row.previousStatus
      <4>1. StageOf(s)' = StageOf(s)
        BY <2>1, <3>1, <3>3, <3>4
      <4>2. LegOf(StageOf(s))' = LegOf(StageOf(s))
        BY <4>1 DEF LegOf
      <4>3. QED
        BY <1>8, <2>2, <2>3, <3>3, <4>2 DEF JourneyRow, GoesOn
    <3>5. CASE to = "CANCELLED"
      <4>1. LegOf(StageOf(s))' = 0
        BY <2>1, <3>5 DEF LegOf
      <4>2. QED
        BY <1>8, <2>2, <2>3, <3>5, <4>1 DEF JourneyRow, IsCalledOff
    <3>6. QED
      BY <3>2, <3>4, <3>5
  <2>4. CASE from # "ON_HOLD"
    <3>1. StageOf(s) = from
      BY <2>2, <2>4 DEF StageOf
    <3>2. StageOf(s)' = IF to = "ON_HOLD" THEN from ELSE to
      BY <2>1 DEF nextPreviousStatus
    <3>3. LegOf(StageOf(s))' = IF to = "ON_HOLD" THEN LegOf(from) ELSE LegOf(to)
      BY <3>2 DEF LegOf
    <3>4. CASE to = "ON_HOLD" /\ LegOf(from) \in 3 .. 6
      BY <1>8, <2>2, <2>4, <3>1, <3>3, <3>4 DEF JourneyRow, Holds
    <3>5. CASE to = "CANCELLED" /\ LegOf(from) \in 1 .. 3 /\ LegOf(to) = 0
      BY <1>8, <2>2, <2>4, <3>1, <3>3, <3>5 DEF JourneyRow, IsCalledOff
    <3>6. CASE /\ to \notin {"ON_HOLD", "CANCELLED"}
               /\ LegOf(from) \in 1 .. 6
               /\ LegOf(to) = LegOf(from) + 1
      BY <1>8, <2>2, <2>4, <3>1, <3>3, <3>6 DEF JourneyRow, Advances
    <3>7. QED
      BY <1>5, <2>4, <3>4, <3>5, <3>6, WaysOn
  <2>5. QED
    BY <2>3, <2>4
<1>11. audit' = StatusAudit(s, from, to)
  BY DEF ApplyTransition
<1>12. QED
  BY <1>3, <1>4, <1>5, <1>9, <1>10, <1>11 DEF StatusAudit

\* A step that keeps a shipment's status, previousStatus and verified payments keeps
\* its place in the journey.
LEMMA SameStage ==
  ASSUME NEW s,
         shipment'[s].status = shipment[s].status,
         shipment'[s].previousStatus = shipment[s].previousStatus
  PROVE  LegOf(StageOf(s))' = LegOf(StageOf(s))
BY DEF LegOf, StageOf

\* A step that changes one row, but neither its statuses nor what is verified,
\* keeps the promises and its place in the journey.
LEMMA SameRowStep ==
  ASSUME TypeOK, CalmInv, NEW s \in Shipments, NEW new,
         shipment' = [shipment EXCEPT ![s] = new],
         new.status = shipment[s].status,
         new.previousStatus = shipment[s].previousStatus,
         UNCHANGED latestEvent,
         \A t : VerifiedOf(t)' = VerifiedOf(t)
  PROVE  OthersKept(s) /\ CalmRow(s) /\ JourneyRow(s)
<1>1. shipment'[s] = new
  BY DEF TypeOK
<1>2. /\ latestEvent[s] = shipment[s].status
      /\ shipment[s].previousStatus # NULL => shipment[s].status = "ON_HOLD"
  BY DEF CalmInv, PreviousOnlyWhileHeld, TimelineShowsStatus
<1>3. latestEvent' = [latestEvent EXCEPT ![s] = new.status]
  BY <1>2 DEF TypeOK
<1>4. OthersKept(s) /\ CalmRow(s)
  BY <1>2, <1>3, OneRowStep
<1>5. JourneyRow(s)
  BY <1>1, SameStage DEF JourneyRow, Stands
<1>6. QED
  BY <1>4, <1>5

-------------------------------------------------------------------------------
(* Every action reads, or writes one shipment it concerns.                 *)

\* What a step of request r does.
ReadsOrWrites(r) ==
  Reads(r) \/ \E s \in Concerns(request[r]) : Writes(r, s)

\* A request that has read and planned something fresh has only read.
LEMMA PlannedOnly ==
  ASSUME NEW r \in Requests, NEW plan, Fresh(plan),
         UNCHANGED <<shipment, payment, latestEvent>>,
         Begin(r, plan) \/ Continue(r, plan)
  PROVE  ReadsOrWrites(r)
BY DEF Reads, Begin, Continue, ReadsOrWrites

\* A request that gives up has only read.
LEMMA GaveUp ==
  ASSUME NEW r \in Requests, UNCHANGED db, Finish(r)
  PROVE  ReadsOrWrites(r)
BY IdleIsFresh DEF Reads, Finish, db, ReadsOrWrites

\* A request that is done after its write has written what it planned.
LEMMA WroteLast ==
  ASSUME NEW r \in Requests, NEW s \in Concerns(request[r]),
         OthersKept(s), CalmRow(s), JourneyRow(s), AuditTells(r, s), Finish(r)
  PROVE  ReadsOrWrites(r)
<1>1. /\ Idle \in RequestState
      /\ Fresh(Idle)
      /\ s \notin Concerns(Idle)
      /\ request' = [request EXCEPT ![r] = Idle]
  BY IdleIsFresh DEF Finish
<1>2. Writes(r, s)
  BY <1>1 DEF Writes
<1>3. QED
  BY <1>2 DEF ReadsOrWrites

\* The customer's actions.
LEMMA CustomerIs ==
  ASSUME TypeOK, PaymentsInFlight, CalmInv, NEW r \in Requests, Customer(r)
  PROVE  ReadsOrWrites(r)
<1> USE DEF db
<1>a. ASSUME NEW s \in Shipments
      PROVE  shipment[s] \in ShipmentRow
  BY DEF TypeOK
<1>b. request[r] \in RequestState /\ Fresh(request[r])
  BY DEF TypeOK, CalmInv, PlansAreFresh
<1>c. ASSUME request[r].op \notin {"idle", "bulk"}
      PROVE  /\ request[r].shipment \in Shipments
             /\ request[r].shipment \in Concerns(request[r])
  BY <1>b, <1>c, SlotFields DEF Concerns, RequestState
<1>1. ASSUME NEW s \in Shipments, CancelRead(r, s)
      PROVE  ReadsOrWrites(r)
  <2>1. Fresh([op |-> "cancel", shipment |-> s])
    BY <1>1 DEF Fresh, CancelRead, CANCELLABLE_STATUSES
  <2>2. QED
    BY <1>1, <2>1, PlannedOnly DEF CancelRead
<1>2. ASSUME NEW s \in Shipments, UploadRead(r, s)
      PROVE  ReadsOrWrites(r)
  <2>1. Fresh([op |-> "save", shipment |-> s])
    BY DEF Fresh
  <2>2. QED
    BY <1>2, <2>1, PlannedOnly DEF UploadRead
<1>3. ASSUME NEW s \in Shipments, NEW recipient \in Recipients,
             UpdateRead(r, s, recipient)
      PROVE  ReadsOrWrites(r)
  <2>1. Fresh([op |-> "update", shipment |-> s, recipient |-> recipient])
    BY DEF Fresh
  <2>2. QED
    BY <1>3, <2>1, PlannedOnly DEF UpdateRead
<1>4. ASSUME NEW p \in Payments, UploadSave(r, p)
      PROVE  ReadsOrWrites(r)
  <2>1. Fresh([op |-> "upload", shipment |-> request[r].shipment, payment |-> p])
    BY DEF Fresh
  <2>2. QED
    BY <1>4, <2>1, PlannedOnly DEF UploadSave
<1>5. CASE CancelWrite(r)
  <2>1. PICK s \in Shipments : s = request[r].shipment /\ s \in Concerns(request[r])
    BY <1>5, <1>c DEF CancelWrite
  <2> DEFINE new == [shipment[s] EXCEPT !.status = "CANCELLED",
                                        !.cancelReason = TRUE]
  <2>2. /\ new.status = "CANCELLED"
        /\ new.previousStatus = shipment[s].previousStatus
    BY <1>a DEF ShipmentRow
  <2>3. shipment[s].status = "PENDING_PAYMENT"
    BY <1>5, <1>b, <2>1 DEF Fresh, CancelWrite
  <2>4. new.previousStatus = NULL
    BY <2>2, <2>3 DEF CalmInv, PreviousOnlyWhileHeld
  <2>5. /\ shipment' = [shipment EXCEPT ![s] = new]
        /\ latestEvent' = [latestEvent EXCEPT ![s] = "CANCELLED"]
        /\ UNCHANGED payment
        /\ Finish(r)
    BY <1>5, <2>1 DEF CancelWrite, AppendEvent
  <2> HIDE DEF new
  <2>6. OthersKept(s) /\ CalmRow(s)
    BY <2>2, <2>4, <2>5, VerifiedSame, OneRowStep
  <2>7. shipment'[s].status = "CANCELLED"
    BY <2>2, <2>5 DEF TypeOK
  <2>8. /\ LegOf(StageOf(s)) = 1
        /\ LegOf(StageOf(s))' = 0
    BY <2>3, <2>7 DEF LegOf, StageOf
  <2>9. JourneyRow(s)
    BY <2>5, <2>7, <2>8, VerifiedSame DEF JourneyRow, IsCalledOff
  <2>10. AuditTells(r, s)
    BY <1>5 DEF AuditTells, CancelWrite
  <2>11. QED
    BY <2>1, <2>5, <2>6, <2>9, <2>10, WroteLast
<1>6. CASE UpdateWrite(r)
  <2>1. PICK s \in Shipments : s = request[r].shipment /\ s \in Concerns(request[r])
    BY <1>6, <1>c DEF UpdateWrite
  <2> DEFINE new == [shipment[s] EXCEPT !.recipient = request[r].recipient]
  <2>2. /\ new.status = shipment[s].status
        /\ new.previousStatus = shipment[s].previousStatus
    BY <1>a DEF ShipmentRow
  <2>3. /\ shipment' = [shipment EXCEPT ![s] = new]
        /\ UNCHANGED <<payment, latestEvent>>
        /\ Finish(r)
    BY <1>6, <2>1 DEF UpdateWrite
  <2> HIDE DEF new
  <2>4. OthersKept(s) /\ CalmRow(s) /\ JourneyRow(s)
    <3>1. \A t : VerifiedOf(t)' = VerifiedOf(t)
      BY <2>3, VerifiedSame
    <3>2. QED
      BY <2>2, <2>3, <3>1, SameRowStep
  <2>5. AuditTells(r, s)
    BY <1>6 DEF AuditTells, UpdateWrite
  <2>6. QED
    BY <2>1, <2>3, <2>4, <2>5, WroteLast
<1>7. CASE UploadWrite(r)
  <2>1. PICK s \in Shipments : s = request[r].shipment /\ s \in Concerns(request[r])
    BY <1>7, <1>c DEF UploadWrite
  <2> DEFINE new == [shipment[s] EXCEPT !.paymentStatus = "WAITING_VERIFICATION"]
  <2>2. /\ new.status = shipment[s].status
        /\ new.previousStatus = shipment[s].previousStatus
    BY <1>a DEF ShipmentRow
  <2>3. /\ shipment' = [shipment EXCEPT ![s] = new]
        /\ UNCHANGED latestEvent
        /\ Finish(r)
    BY <1>7, <2>1 DEF UploadWrite
  <2> HIDE DEF new
  <2>4. ASSUME NEW t
        PROVE  VerifiedOf(t)' = VerifiedOf(t)
    <3>1. PICK p : p = request[r].payment
      OBVIOUS
    <3>2. p \notin DOMAIN payment
      BY <1>7, <3>1 DEF PaymentsInFlight, UploadWrite
    <3>3. /\ DOMAIN payment' = DOMAIN payment \cup {p}
          /\ payment'[p].status = "WAITING_VERIFICATION"
          /\ \A q \in DOMAIN payment : payment'[q] = payment[q]
      BY <1>7, <3>1, <3>2 DEF UploadWrite
    <3>4. QED
      BY <3>2, <3>3 DEF VerifiedOf, PaymentsOf
  <2>5. OthersKept(s) /\ CalmRow(s) /\ JourneyRow(s)
    BY <2>2, <2>3, <2>4, SameRowStep
  <2>6. AuditTells(r, s)
    BY <1>7 DEF AuditTells, UploadWrite
  <2>7. QED
    BY <2>1, <2>3, <2>5, <2>6, WroteLast
<1>8. QED
  BY <1>1, <1>2, <1>3, <1>4, <1>5, <1>6, <1>7 DEF Customer

\* The cashier's actions.
LEMMA CashierIs ==
  ASSUME TypeOK, PaymentsInFlight, HeldCanResume, CalmInv,
         NEW r \in Requests, Cashier(r)
  PROVE  ReadsOrWrites(r)
<1> USE DEF db
<1>a. ASSUME NEW s \in Shipments
      PROVE  shipment[s] \in ShipmentRow
  BY DEF TypeOK
<1>b. request[r] \in RequestState /\ Fresh(request[r])
  BY DEF TypeOK, CalmInv, PlansAreFresh
<1>c. ASSUME request[r].op \notin {"idle", "bulk"}
      PROVE  /\ request[r].shipment \in Shipments
             /\ request[r].shipment \in Concerns(request[r])
  BY <1>b, <1>c, SlotFields DEF Concerns, RequestState
<1>1. ASSUME NEW p \in Payments, VerifyRead(r, p)
      PROVE  ReadsOrWrites(r)
  <2> DEFINE s    == payment[p].shipment
             plan == [op |-> "count", payment |-> p, shipment |-> s,
                      before |-> payment[p].status,
                      appendPaidEvent |-> shipment[s].status = "PENDING_PAYMENT"]
  <2>1. p \notin VerifiedOf(s)
    BY <1>1 DEF VerifyRead, VerifiedOf
  <2>2. Fresh(plan)
    BY <2>1 DEF Fresh
  <2>3. Begin(r, plan) /\ UNCHANGED <<shipment, payment, latestEvent>>
    BY <1>1 DEF VerifyRead
  <2>4. QED
    BY <2>2, <2>3, PlannedOnly
<1>2. CASE VerifyCount(r)
  <2> DEFINE plan == [request[r] EXCEPT !.op = "verify"]
  <2>1. /\ plan.op = "verify"
        /\ plan.shipment = request[r].shipment
        /\ plan.payment = request[r].payment
        /\ plan.appendPaidEvent = request[r].appendPaidEvent
    BY <1>2, <1>b DEF VerifyCount, RequestState
  <2>2. Continue(r, plan) /\ UNCHANGED <<shipment, payment, latestEvent>>
    BY <1>2 DEF VerifyCount
  <2> HIDE DEF plan
  <2>3. VerifiedOf(request[r].shipment) = {}
    <3>1. request[r].payment \notin VerifiedOf(request[r].shipment)
      BY <1>2, <1>b DEF VerifyCount, Fresh
    <3>2. QED
      BY <1>2, <3>1 DEF VerifyCount, OthersVerified, VerifiedOf
  <2>4. Fresh(plan)
    BY <1>2, <1>b, <2>1, <2>3 DEF Fresh, VerifyCount
  <2>5. QED
    BY <2>2, <2>4, PlannedOnly
<1>3. CASE VerifyRefuse(r)
  BY <1>3, GaveUp DEF VerifyRefuse
<1>4. ASSUME NEW p \in Payments, RejectRead(r, p)
      PROVE  ReadsOrWrites(r)
  <2> DEFINE plan == [op |-> "reject", payment |-> p,
                      shipment |-> payment[p].shipment,
                      before |-> payment[p].status]
  <2>1. Fresh(plan)
    BY <1>4 DEF RejectRead, Fresh, VerifiedOf
  <2>2. Begin(r, plan) /\ UNCHANGED <<shipment, payment, latestEvent>>
    BY <1>4 DEF RejectRead
  <2>3. QED
    BY <2>1, <2>2, PlannedOnly
<1>5. CASE VerifyWrite(r)
  <2>1. PICK s \in Shipments : s = request[r].shipment /\ s \in Concerns(request[r])
    BY <1>5, <1>c DEF VerifyWrite
  <2>2. PICK p \in PaymentsOf(s) : p = request[r].payment
    BY <1>5, <2>1 DEF PaymentsInFlight, VerifyWrite
  <2>3. p \in DOMAIN payment /\ p \in Payments /\ payment[p].shipment = s
    BY <2>2 DEF PaymentsOf, TypeOK
  <2>4. /\ VerifiedOf(s) = {}
        /\ request[r].appendPaidEvent = (shipment[s].status = "PENDING_PAYMENT")
    BY <1>5, <1>b, <2>1 DEF Fresh, VerifyWrite
  <2>5. /\ DOMAIN payment' = DOMAIN payment
        /\ payment'[p].status = "VERIFIED"
        /\ payment'[p].shipment = s
        /\ \A q \in DOMAIN payment : q # p => payment'[q] = payment[q]
    <3>1. payment' = [payment EXCEPT ![p] = Verified(payment[p])]
      BY <1>5, <2>2 DEF VerifyWrite
    <3>2. /\ Verified(payment[p]).status = "VERIFIED"
          /\ Verified(payment[p]).shipment = s
      BY <2>3 DEF Verified, TypeOK, PaymentRow
    <3>3. QED
      BY <2>3, <3>1, <3>2 DEF TypeOK
  <2>6. VerifiedOf(s)' = {p}
    BY <2>3, <2>4, <2>5 DEF VerifiedOf, PaymentsOf
  <2>7. ASSUME NEW t \in Shipments \ {s}
        PROVE  VerifiedOf(t)' = VerifiedOf(t)
    BY <2>3, <2>5 DEF VerifiedOf, PaymentsOf
  <2> DEFINE paid == [shipment[s] EXCEPT !.paymentStatus = "PAID",
                                         !.outstandingAmount = 0]
             moved == [paid EXCEPT !.status = "PAID"]
             new == IF request[r].appendPaidEvent THEN moved ELSE paid
  <2>8. /\ paid.status = shipment[s].status
        /\ paid.previousStatus = shipment[s].previousStatus
        /\ moved.status = "PAID"
        /\ moved.previousStatus = shipment[s].previousStatus
    BY <1>a DEF ShipmentRow
  <2>9. /\ shipment' = [shipment EXCEPT ![s] = new]
        /\ IF request[r].appendPaidEvent
           THEN latestEvent' = [latestEvent EXCEPT ![s] = "PAID"]
           ELSE UNCHANGED latestEvent
        /\ Finish(r)
    BY <1>5, <2>1 DEF VerifyWrite, AppendEvent
  <2> HIDE DEF paid, moved
  <2>10. /\ new.previousStatus = shipment[s].previousStatus
         /\ new.status = IF shipment[s].status = "PENDING_PAYMENT"
                         THEN "PAID" ELSE shipment[s].status
    BY <2>4, <2>8
  <2>11. /\ latestEvent[s] = shipment[s].status
         /\ shipment[s].previousStatus # NULL => shipment[s].status = "ON_HOLD"
    BY DEF CalmInv, PreviousOnlyWhileHeld, TimelineShowsStatus
  <2>12. /\ shipment'[s] = new
         /\ \A t \in Shipments \ {s} : shipment'[t] = shipment[t]
    <3> HIDE DEF new
    <3>1. QED
      BY <2>9 DEF TypeOK
  <2>13. /\ latestEvent'[s] = new.status
         /\ \A t \in Shipments \ {s} : latestEvent'[t] = latestEvent[t]
    BY <2>4, <2>9, <2>10, <2>11 DEF TypeOK
  <2> HIDE DEF new
  <2>14. OthersKept(s)
    BY <2>7, <2>12, <2>13 DEF OthersKept
  <2>15. CalmRow(s)
    BY <2>6, <2>10, <2>11, <2>12, <2>13 DEF CalmRow
  <2>16. JourneyRow(s)
    <3>1. LegOf(StageOf(s))' =
            IF LegOf(StageOf(s)) = 1 THEN 2 ELSE LegOf(StageOf(s))
      <4>1. CASE shipment[s].status = "PENDING_PAYMENT"
        <5>1. StageOf(s) = "PENDING_PAYMENT" /\ StageOf(s)' = "PAID"
          BY <2>10, <2>12, <4>1 DEF StageOf
        <5>2. QED
          BY <5>1 DEF LegOf
      <4>2. CASE shipment[s].status # "PENDING_PAYMENT"
        <5>1. LegOf(StageOf(s))' = LegOf(StageOf(s))
          BY <2>10, <2>12, <4>2, SameStage
        <5>2. StageOf(s) \in Status \ {"PENDING_PAYMENT"}
          BY <1>a, <4>2, HoldableIs DEF StageOf, HeldCanResume, ShipmentRow, Status
        <5>3. LegOf(StageOf(s)) # 1
          BY <5>2 DEF LegOf, Status
        <5>4. QED
          BY <5>1, <5>3
      <4>3. QED
        BY <4>1, <4>2
    <3>2. (shipment'[s].status = "ON_HOLD") = (shipment[s].status = "ON_HOLD")
      BY <2>10, <2>12
    <3>3. \E q \in Payments : VerifiedOf(s)' = {q}
      BY <2>3, <2>6
    <3>4. QED
      BY <2>4, <3>1, <3>2, <3>3 DEF JourneyRow, IsSettled
  <2>17. AuditTells(r, s)
    BY <1>5 DEF AuditTells, VerifyWrite
  <2>18. QED
    BY <2>1, <2>9, <2>14, <2>15, <2>16, <2>17, WroteLast
<1>6. CASE RejectWrite(r)
  <2>1. PICK s \in Shipments : s = request[r].shipment /\ s \in Concerns(request[r])
    BY <1>6, <1>c DEF RejectWrite
  <2> DEFINE new == [shipment[s] EXCEPT !.paymentStatus = "UNPAID"]
  <2>2. /\ new.status = shipment[s].status
        /\ new.previousStatus = shipment[s].previousStatus
    BY <1>a DEF ShipmentRow
  <2>3. /\ shipment' = [shipment EXCEPT ![s] = new]
        /\ UNCHANGED latestEvent
        /\ Finish(r)
    BY <1>6, <2>1 DEF RejectWrite
  <2> HIDE DEF new
  <2>4. ASSUME NEW t
        PROVE  VerifiedOf(t)' = VerifiedOf(t)
    <3>1. PICK p \in PaymentsOf(s) : p = request[r].payment
      BY <1>6, <2>1 DEF PaymentsInFlight, RejectWrite
    <3>2. p \in DOMAIN payment /\ payment[p].status # "VERIFIED"
      BY <1>6, <1>b, <2>1, <3>1 DEF Fresh, VerifiedOf, PaymentsOf, RejectWrite
    <3>3. /\ DOMAIN payment' = DOMAIN payment
          /\ payment'[p].status = "REJECTED"
          /\ \A q \in DOMAIN payment : q # p => payment'[q] = payment[q]
      <4>1. payment' = [payment EXCEPT ![p] = [payment[p] EXCEPT
                                                 !.status = "REJECTED"]]
        BY <1>6, <3>1 DEF RejectWrite
      <4>2. [payment[p] EXCEPT !.status = "REJECTED"].status = "REJECTED"
        BY <3>2 DEF TypeOK, PaymentRow
      <4>3. QED
        BY <3>2, <4>1, <4>2 DEF TypeOK
    <3>4. QED
      BY <3>2, <3>3 DEF VerifiedOf, PaymentsOf
  <2>5. OthersKept(s) /\ CalmRow(s) /\ JourneyRow(s)
    BY <2>2, <2>3, <2>4, SameRowStep
  <2>6. AuditTells(r, s)
    BY <1>6 DEF AuditTells, RejectWrite
  <2>7. QED
    BY <2>1, <2>3, <2>5, <2>6, WroteLast
<1>7. QED
  BY <1>1, <1>2, <1>3, <1>4, <1>5, <1>6 DEF Cashier

\* The operator's actions.
LEMMA OperatorIs ==
  ASSUME TypeOK, HeldCanResume, CalmInv, NEW r \in Requests, Operator(r)
  PROVE  ReadsOrWrites(r)
<1> USE DEF db
<1>a. ASSUME NEW s \in Shipments
      PROVE  shipment[s] \in ShipmentRow
  BY DEF TypeOK
<1>b. request[r] \in RequestState /\ Fresh(request[r])
  BY DEF TypeOK, CalmInv, PlansAreFresh
<1>c. ASSUME request[r].op \notin {"idle", "bulk"}
      PROVE  /\ request[r].shipment \in Shipments
             /\ request[r].shipment \in Concerns(request[r])
  BY <1>b, <1>c, SlotFields DEF Concerns, RequestState
<1>1. ASSUME NEW s \in Shipments, NEW next \in RequestedStatus,
             NEW deliveredTo \in BOOLEAN, NEW reason \in BOOLEAN,
             StatusRead(r, s, next, deliveredTo, reason)
      PROVE  ReadsOrWrites(r)
  <2> DEFINE plan == [op |-> "status", shipment |-> s,
                      from |-> shipment[s].status, to |-> next,
                      deliveredTo |-> next = "DELIVERED" /\ deliveredTo,
                      cancelReason |-> next = "CANCELLED" /\ reason]
  <2>1. Fresh(plan)
    BY <1>1 DEF StatusRead, Fresh, FreshTransition, checkTransition
  <2>2. Begin(r, plan) /\ UNCHANGED <<shipment, payment, latestEvent>>
    BY <1>1 DEF StatusRead
  <2>3. QED
    BY <2>1, <2>2, PlannedOnly
<1>2. ASSUME NEW ids \in SUBSET Shipments, NEW next \in RequestedStatus,
             BulkRead(r, ids, next)
      PROVE  ReadsOrWrites(r)
  <2> DEFINE passing ==
               {s \in ids : checkTransition(next, shipment[s].status,
                              shipment[s].serviceType, shipment[s].previousStatus,
                              FALSE, FALSE)}
             seen == [s \in passing |-> shipment[s].status]
             plan == [op |-> "bulk", to |-> next, seen |-> seen]
  <2>1. Begin(r, plan) /\ UNCHANGED <<shipment, payment, latestEvent>>
    BY <1>2 DEF BulkRead
  <2>2. ASSUME NEW s \in passing
        PROVE  FreshTransition(s, seen[s], next)
    BY <2>2 DEF FreshTransition, checkTransition
  <2>3. DOMAIN seen = passing
    OBVIOUS
  <2> HIDE DEF passing, seen
  <2>4. Fresh(plan)
    BY <2>2, <2>3 DEF Fresh
  <2>5. QED
    BY <2>1, <2>4, PlannedOnly
<1>3. ASSUME NEW s \in Shipments, NEW weight \in Weights, WeightRead(r, s, weight)
      PROVE  ReadsOrWrites(r)
  <2> DEFINE tariff == Recalculated(shipment[s], weight)
             plan == [op |-> "weight", shipment |-> s,
                      status |-> shipment[s].status, actualWeight |-> weight,
                      chargeableWeight |-> tariff.chargeableWeight,
                      totalAmount |-> tariff.total,
                      outstandingAmount |->
                        OutstandingAfter(shipment[s], tariff.total),
                      totalBefore |-> shipment[s].totalAmount]
  <2>1. Begin(r, plan) /\ UNCHANGED <<shipment, payment, latestEvent>>
    BY <1>3 DEF WeightRead
  <2>2. Fresh(plan)
    BY DEF Fresh
  <2>3. QED
    BY <2>1, <2>2, PlannedOnly
<1>4. CASE StatusWrite(r)
  <2>1. PICK s \in Shipments : s = request[r].shipment /\ s \in Concerns(request[r])
    BY <1>4, <1>c DEF StatusWrite
  <2> DEFINE plan == request[r]
  <2>2. /\ plan.from \in Status /\ plan.to \in Status
        /\ plan.deliveredTo \in BOOLEAN /\ plan.cancelReason \in BOOLEAN
    BY <1>4, <1>b, SlotFields DEF StatusWrite
  <2>3. FreshTransition(s, plan.from, plan.to)
    BY <1>4, <1>b, <2>1 DEF Fresh, StatusWrite
  <2>4. /\ ApplyTransition(s, plan.from, plan.to, plan.deliveredTo,
                           plan.cancelReason)
        /\ UNCHANGED payment
        /\ Finish(r)
    BY <1>4, <2>1 DEF StatusWrite
  <2>5. /\ OthersKept(s)
        /\ CalmRow(s)
        /\ JourneyRow(s)
        /\ audit'.entity = s
        /\ audit'.before = shipment[s].status
        /\ audit'.after = shipment'[s].status
    BY <2>2, <2>3, <2>4, TransitionTakesOn
  <2>6. AuditTells(r, s)
    BY <1>4, <2>5 DEF AuditTells, StatusWrite
  <2>7. QED
    BY <2>1, <2>4, <2>5, <2>6, WroteLast
<1>5. CASE BulkWrite(r)
  <2> DEFINE seen == request[r].seen
  <2>1. PICK s \in DOMAIN seen :
          /\ ApplyTransition(s, seen[s], request[r].to, FALSE, FALSE)
          /\ AfterRow(r, s)
    BY <1>5 DEF BulkWrite
  <2>2. PICK ids \in SUBSET Shipments : seen \in [ids -> Status]
    BY <1>5, <1>b, SlotFields DEF BulkWrite
  <2>3. /\ s \in Shipments
        /\ s \in Concerns(request[r])
        /\ seen[s] \in Status
        /\ request[r].to \in Status
    BY <1>5, <1>b, <2>2, SlotFields DEF Concerns, BulkWrite
  <2>4. FreshTransition(s, seen[s], request[r].to) /\ UNCHANGED payment
    BY <1>5, <1>b DEF Fresh, BulkWrite
  <2>5. /\ OthersKept(s)
        /\ CalmRow(s)
        /\ JourneyRow(s)
        /\ audit'.entity = s
        /\ audit'.before = shipment[s].status
        /\ audit'.after = shipment'[s].status
    BY <2>1, <2>3, <2>4, TransitionTakesOn
  <2>6. AuditTells(r, s)
    BY <1>5, <2>5 DEF AuditTells, BulkWrite
  <2> DEFINE rest == DOMAIN seen \ {s}
             left == [t \in rest |-> seen[t]]
             plan == [request[r] EXCEPT !.seen = left]
  <2>7. CASE rest = {}
    <3>1. Finish(r)
      BY <2>1, <2>7 DEF AfterRow
    <3>2. QED
      BY <2>3, <2>5, <2>6, <3>1, WroteLast
  <2>8. CASE rest # {}
    <3>1. request' = [request EXCEPT ![r] = plan]
      BY <2>1, <2>8 DEF AfterRow, Continue
    <3>2. request'[r] = plan /\ request' \in [Requests -> RequestState]
      <4> HIDE DEF plan
      <4>1. QED
        BY <1>5, <2>1, <3>1, BulkSlot DEF TypeOK, BulkWrite
    <3>3. plan \in RequestState
      BY <3>2
    <3>4. /\ plan.op = "bulk"
          /\ plan.to = request[r].to
          /\ plan.seen = left
      <4>1. request[r] \in [op : {"bulk"},
                            seen : UNION {[i -> Status] : i \in SUBSET Shipments},
                            to : Status]
        BY <1>5, <1>b DEF RequestState, BulkWrite
      <4> HIDE DEF left
      <4>2. QED
        BY <4>1
    <3>5. /\ DOMAIN left = rest
          /\ \A t \in rest : left[t] = seen[t]
      OBVIOUS
    <3>6. \A t \in rest : FreshTransition(t, seen[t], request[r].to)
      BY <1>5, <1>b DEF Fresh, BulkWrite
    <3> HIDE DEF plan, left
    <3>7. Fresh(plan) /\ s \notin Concerns(plan)
      BY <3>4, <3>5, <3>6 DEF Fresh, Concerns
    <3>8. Writes(r, s)
      BY <2>5, <2>6, <3>1, <3>3, <3>7 DEF Writes
    <3>9. QED
      BY <2>3, <3>8 DEF ReadsOrWrites
  <2>9. QED
    BY <2>7, <2>8
<1>6. CASE WeightWrite(r)
  <2>1. PICK s \in Shipments : s = request[r].shipment /\ s \in Concerns(request[r])
    BY <1>6, <1>c DEF WeightWrite
  <2> DEFINE plan == request[r]
             new == [shipment[s] EXCEPT !.actualWeight = plan.actualWeight,
                                        !.chargeableWeight = plan.chargeableWeight,
                                        !.totalAmount = plan.totalAmount,
                                        !.outstandingAmount = plan.outstandingAmount]
  <2>2. /\ new.status = shipment[s].status
        /\ new.previousStatus = shipment[s].previousStatus
        /\ new.totalAmount = plan.totalAmount
    BY <1>a DEF ShipmentRow
  <2>3. /\ shipment' = [shipment EXCEPT ![s] = new]
        /\ latestEvent' = [latestEvent EXCEPT ![s] = plan.status]
        /\ audit' = [action |-> "SHIPMENT_WEIGHT_CORRECTED", entity |-> s,
                     totalBefore |-> plan.totalBefore,
                     totalAfter |-> plan.totalAmount]
        /\ UNCHANGED payment
        /\ Finish(r)
    BY <1>6, <2>1 DEF WeightWrite, AppendEvent
  <2>4. /\ plan.status = shipment[s].status
        /\ plan.totalBefore = shipment[s].totalAmount
    BY <1>6, <1>b, <2>1 DEF Fresh, WeightWrite
  <2> HIDE DEF new
  <2>5. UNCHANGED latestEvent
    BY <2>3, <2>4 DEF CalmInv, TimelineShowsStatus, TypeOK
  <2>6. \A t : VerifiedOf(t)' = VerifiedOf(t)
    BY <2>3, VerifiedSame
  <2>7. OthersKept(s) /\ CalmRow(s) /\ JourneyRow(s)
    BY <2>2, <2>3, <2>5, <2>6, SameRowStep
  <2>8. shipment'[s] = new
    BY <2>3 DEF TypeOK
  <2>9. AuditTells(r, s)
    BY <1>6, <2>2, <2>3, <2>4, <2>8 DEF AuditTells, WeightWrite
  <2>10. QED
    BY <2>1, <2>3, <2>7, <2>9, WroteLast
<1>7. QED
  BY <1>1, <1>2, <1>3, <1>4, <1>5, <1>6 DEF Operator

\* Every step of the shipment tables is a request that reads, or one that writes
\* what it planned for one shipment it concerns.
LEMMA StepIs ==
  ASSUME TypeOK, PaymentsInFlight, HeldCanResume, CalmInv, Next
  PROVE  \E r \in Requests : ReadsOrWrites(r)
<1>1. PICK r \in Requests : Customer(r) \/ Cashier(r) \/ Operator(r) \/ Fail(r)
  BY DEF Next
<1>2. CASE Fail(r)
  BY <1>2, GaveUp DEF Fail
<1>3. QED
  BY <1>1, <1>2, CustomerIs, CashierIs, OperatorIs

-------------------------------------------------------------------------------
(* Theorems.                                                               *)

\* Booked shipments keep all the promises.
LEMMA CalmInit ==
  ASSUME Init
  PROVE  CalmInv
<1>1. PICK service \in [Shipments -> ServiceType], rate \in [Shipments -> Rates],
           weight \in [Shipments -> BookableWeights],
           recipient \in [Shipments -> Recipients] :
        shipment = [s \in Shipments |->
                      Booked(service[s], rate[s], weight[s], recipient[s])]
  BY DEF Init
<1>2. \A s \in Shipments : /\ shipment[s].status = "PENDING_PAYMENT"
                           /\ shipment[s].previousStatus = NULL
  BY <1>1 DEF Booked
<1>3. /\ latestEvent = [s \in Shipments |-> "PENDING_PAYMENT"]
      /\ DOMAIN payment = {}
      /\ request = [r \in Requests |-> Idle]
  BY DEF Init
<1>4. PlansAreFresh
  BY <1>3, IdleIsFresh DEF PlansAreFresh
<1>5. QED
  BY <1>2, <1>3, <1>4 DEF CalmInv, PreviousOnlyWhileHeld, TimelineShowsStatus,
     VerifiedIsUnique, VerifiedOf, PaymentsOf

\* Every step keeps them while no two requests concern one shipment.
LEMMA CalmStep ==
  ASSUME TypeOK, PaymentsInFlight, HeldCanResume, CalmInv, OneRequestPerShipment,
         [Next]_vars
  PROVE  CalmInv'
<1>1. CASE UNCHANGED vars
  BY <1>1 DEF vars, CalmInv, PreviousOnlyWhileHeld, TimelineShowsStatus,
     VerifiedIsUnique, VerifiedOf, PaymentsOf, PlansAreFresh, Fresh, FreshTransition
<1>2. CASE Next
  BY <1>2, StepIs, ReadsKeepCalm, WritesKeepCalm DEF ReadsOrWrites
<1>3. QED
  BY <1>1, <1>2

\* All that is used below of a system in which no two requests in flight concern
\* one shipment.
LEMMA CalmCorrect ==
  Spec /\ []OneRequestPerShipment =>
    [](TypeOK /\ PaymentsInFlight /\ HeldCanResume /\ CalmInv)
<1>1. Init => CalmInv
  BY CalmInit
<1>2. /\ TypeOK /\ PaymentsInFlight /\ HeldCanResume /\ CalmInv
      /\ OneRequestPerShipment /\ [Next]_vars
      => CalmInv'
  BY CalmStep
<1>3. QED
  BY <1>1, <1>2, TypeCorrect, PaymentsAlwaysSoundInFlight, HeldCanAlwaysResume, PTL
     DEF Spec

\* A server with one slot never has two requests in flight.
LEMMA OneSlotSuffices ==
  ASSUME NEW r, Requests = {r}
  PROVE  OneRequestPerShipment
BY DEF OneRequestPerShipment

\* previousStatus is filled in only while the shipment is held, for any number of
\* requests, as long as no two in flight concern one shipment (nextPreviousStatus).
THEOREM PreviousOnlyWhileHeldWithoutOverlap ==
  Spec /\ []OneRequestPerShipment => []PreviousOnlyWhileHeld
<1>1. CalmInv => PreviousOnlyWhileHeld
  BY DEF CalmInv
<1>2. QED
  BY <1>1, CalmCorrect, PTL

\* Under the same condition the newest line of the timeline is the status the
\* shipment is in (applyTransition, cancel, verify, correctWeight).
THEOREM TimelineShowsStatusWithoutOverlap ==
  Spec /\ []OneRequestPerShipment => []TimelineShowsStatus
<1>1. CalmInv => TimelineShowsStatus
  BY DEF CalmInv
<1>2. QED
  BY <1>1, CalmCorrect, PTL

\* Under the same condition one payment of a shipment at most is VERIFIED: the
\* count that verify makes before its transaction is enough (verify,
\* countVerifiedForShipment).
THEOREM SingleVerifiedWithoutOverlap ==
  Spec /\ []OneRequestPerShipment => []SingleVerified
<1>1. CalmInv => SingleVerified
  <2> SUFFICES ASSUME CalmInv, NEW s \in Shipments
               PROVE  Cardinality(VerifiedOf(s)) <= 1
    BY DEF SingleVerified, VerifiedOf
  <2>1. CASE VerifiedOf(s) = {}
    BY <2>1, FS_EmptySet
  <2>2. CASE VerifiedOf(s) # {}
    <3>1. PICK p \in VerifiedOf(s) : TRUE
      BY <2>2
    <3>2. VerifiedOf(s) = {p}
      BY <3>1 DEF CalmInv, VerifiedIsUnique
    <3>3. Cardinality(VerifiedOf(s)) = 1
      BY <3>2, FS_Singleton
    <3>4. QED
      BY <3>3
  <2>3. QED
    BY <2>1, <2>2
<1>2. QED
  BY <1>1, CalmCorrect, PTL

\* Under the same condition the audit row of a status change or of a correction is
\* the row before and after the transaction (applyTransition, correctWeight).
THEOREM AuditTellsWithoutOverlap ==
  Spec /\ []OneRequestPerShipment => AuditTellsTheChange
<1> DEFINE Tells ==
      \A r \in Requests :
        LET s == audit'.entity
        IN  request'[r] # request[r] /\ shipment' # shipment =>
              /\ request[r].op \in {"status", "bulk"} =>
                   /\ audit'.before = shipment[s].status
                   /\ audit'.after = shipment'[s].status
              /\ request[r].op = "weight" =>
                   /\ audit'.totalBefore = shipment[s].totalAmount
                   /\ audit'.totalAfter = shipment'[s].totalAmount
<1>1. TypeOK /\ PaymentsInFlight /\ HeldCanResume /\ CalmInv /\ [Next]_vars
      => [Tells]_vars
  <2> SUFFICES ASSUME TypeOK, PaymentsInFlight, HeldCanResume, CalmInv, Next,
                      NEW r \in Requests,
                      request'[r] # request[r], shipment' # shipment
               PROVE  LET s == audit'.entity
                      IN  /\ request[r].op \in {"status", "bulk"} =>
                               /\ audit'.before = shipment[s].status
                               /\ audit'.after = shipment'[s].status
                          /\ request[r].op = "weight" =>
                               /\ audit'.totalBefore = shipment[s].totalAmount
                               /\ audit'.totalAfter = shipment'[s].totalAmount
    BY DEF vars
  <2>1. PICK q \in Requests : ReadsOrWrites(q)
    BY StepIs
  <2>2. PICK s \in Concerns(request[q]) : Writes(q, s)
    BY <2>1 DEF ReadsOrWrites, Reads
  <2>3. q = r
    BY <2>2 DEF Writes, TypeOK
  <2>4. QED
    BY <2>2, <2>3 DEF Writes, AuditTells
<1> HIDE DEF Tells
<1>2. Spec /\ []OneRequestPerShipment => [][Tells]_vars
  BY <1>1, CalmCorrect, PTL DEF Spec
<1>3. QED
  BY <1>2 DEF Tells, AuditTellsTheChange

-------------------------------------------------------------------------------
(* The refinement.                                                         *)

\* The state of the journey of one shipment is what is said of its row.
LEMMA JourneyKept ==
  ASSUME NEW t, shipment'[t] = shipment[t], VerifiedOf(t)' = VerifiedOf(t)
  PROVE  /\ LegOf(StageOf(t))' = LegOf(StageOf(t))
         /\ (shipment[t].status = "ON_HOLD")' = (shipment[t].status = "ON_HOLD")
         /\ SettlingPayment(t)' = SettlingPayment(t)
BY DEF LegOf, StageOf, SettlingPayment

\* Booked shipments are at the beginning of their journey.
LEMMA JourneyInit ==
  ASSUME Init
  PROVE  Journey!Init
<1>1. PICK service \in [Shipments -> ServiceType], rate \in [Shipments -> Rates],
           weight \in [Shipments -> BookableWeights],
           recipient \in [Shipments -> Recipients] :
        shipment = [s \in Shipments |->
                      Booked(service[s], rate[s], weight[s], recipient[s])]
  BY DEF Init
<1>2. ASSUME NEW s \in Shipments
      PROVE  /\ LegOf(StageOf(s)) = 1
             /\ shipment[s].status # "ON_HOLD"
             /\ SettlingPayment(s) = NoPayment
  <2>1. shipment[s].status = "PENDING_PAYMENT"
    BY <1>1 DEF Booked
  <2>2. VerifiedOf(s) = {}
    BY DEF Init, VerifiedOf, PaymentsOf
  <2>3. QED
    BY <2>1, <2>2 DEF LegOf, StageOf, SettlingPayment
<1>3. QED
  BY <1>2 DEF Journey!Init, Journey!AwaitsPayment

\* A write takes the journey of its shipment one step on, or lets it stand.
LEMMA WritesRefine ==
  ASSUME NEW r, NEW s \in Shipments, Writes(r, s)
  PROVE  [Journey!Next]_(Journey!vars)
<1> DEFINE legs == [t \in Shipments |-> LegOf(StageOf(t))]
           holds == [t \in Shipments |-> shipment[t].status = "ON_HOLD"]
           settlings == [t \in Shipments |-> SettlingPayment(t)]
<1>1. \A t \in Shipments \ {s} :
        /\ LegOf(StageOf(t))' = LegOf(StageOf(t))
        /\ (shipment[t].status = "ON_HOLD")' = (shipment[t].status = "ON_HOLD")
        /\ SettlingPayment(t)' = SettlingPayment(t)
  BY JourneyKept DEF Writes, OthersKept
<1>2. ASSUME NEW leg, LegOf(StageOf(s))' = leg
      PROVE  legs' = [legs EXCEPT ![s] = leg]
  BY <1>1, <1>2
<1>3. ASSUME NEW held \in BOOLEAN, (shipment'[s].status = "ON_HOLD") = held
      PROVE  holds' = [holds EXCEPT ![s] = held]
  BY <1>1, <1>3
<1>4. ASSUME NEW settled, SettlingPayment(s)' = settled
      PROVE  settlings' = [settlings EXCEPT ![s] = settled]
  BY <1>1, <1>4
<1>5. VerifiedOf(s)' = VerifiedOf(s) => SettlingPayment(s)' = SettlingPayment(s)
  BY DEF SettlingPayment
<1>6. /\ legs[s] = LegOf(StageOf(s))
      /\ holds[s] = (shipment[s].status = "ON_HOLD")
      /\ settlings[s] = SettlingPayment(s)
  OBVIOUS
<1>7. ASSUME LegOf(StageOf(s))' = LegOf(StageOf(s))
      PROVE  legs' = legs
  BY <1>1, <1>7
<1>8. ASSUME (shipment'[s].status = "ON_HOLD") = (shipment[s].status = "ON_HOLD")
      PROVE  holds' = holds
  BY <1>1, <1>8
<1>9. ASSUME VerifiedOf(s)' = VerifiedOf(s)
      PROVE  settlings' = settlings
  BY <1>1, <1>5, <1>9
<1> USE DEF Journey!Delivered, Journey!AwaitsPayment, Journey!AtWarehouse,
            Journey!CalledOff
<1>10. CASE Stands(s)
  <2>1. legs' = legs /\ holds' = holds /\ settlings' = settlings
    BY <1>7, <1>8, <1>9, <1>10 DEF Stands
  <2>2. QED
    BY <2>1 DEF Journey!vars
<1>11. CASE Advances(s)
  <2>1. legs' = [legs EXCEPT ![s] = legs[s] + 1]
    BY <1>2, <1>6, <1>11 DEF Advances
  <2>2. holds' = holds /\ settlings' = settlings
    BY <1>8, <1>9, <1>11 DEF Advances
  <2>3. ~holds[s] /\ legs[s] \in 1 .. 6
    BY <1>6, <1>11 DEF Advances
  <2>4. Journey!Advance(s)
    BY <2>1, <2>2, <2>3 DEF Journey!Advance
  <2>5. QED
    BY <2>4 DEF Journey!Next
<1>12. CASE Holds(s)
  <2>1. holds' = [holds EXCEPT ![s] = TRUE]
    BY <1>3, <1>12 DEF Holds
  <2>2. legs' = legs /\ settlings' = settlings
    BY <1>7, <1>9, <1>12 DEF Holds
  <2>3. ~holds[s] /\ legs[s] \in 3 .. 6
    BY <1>6, <1>12 DEF Holds
  <2>4. Journey!Hold(s)
    BY <2>1, <2>2, <2>3 DEF Journey!Hold
  <2>5. QED
    BY <2>4 DEF Journey!Next
<1>13. CASE GoesOn(s)
  <2>1. holds' = [holds EXCEPT ![s] = FALSE]
    BY <1>3, <1>13 DEF GoesOn
  <2>2. legs' = legs /\ settlings' = settlings
    BY <1>7, <1>9, <1>13 DEF GoesOn
  <2>3. holds[s]
    BY <1>6, <1>13 DEF GoesOn
  <2>4. Journey!Resume(s)
    BY <2>1, <2>2, <2>3 DEF Journey!Resume
  <2>5. QED
    BY <2>4 DEF Journey!Next
<1>14. CASE IsCalledOff(s)
  <2>1. holds' = [holds EXCEPT ![s] = FALSE]
    BY <1>3, <1>14 DEF IsCalledOff
  <2>2. legs' = [legs EXCEPT ![s] = 0] /\ settlings' = settlings
    BY <1>2, <1>9, <1>14 DEF IsCalledOff
  <2>3. holds[s] \/ legs[s] \in 1 .. 3
    BY <1>6, <1>14 DEF IsCalledOff
  <2>4. Journey!CallOff(s)
    BY <2>1, <2>2, <2>3 DEF Journey!CallOff
  <2>5. QED
    BY <2>4 DEF Journey!Next
<1>15. CASE IsSettled(s)
  <2>1. PICK p \in Payments : VerifiedOf(s)' = {p}
    BY <1>15 DEF IsSettled
  <2>2. SettlingPayment(s)' = p
    BY <2>1 DEF SettlingPayment
  <2>3. settlings' = [settlings EXCEPT ![s] = p]
    BY <1>4, <2>2
  <2>4. settlings[s] = NoPayment
    BY <1>6, <1>15 DEF IsSettled, SettlingPayment
  <2>5. legs' = [legs EXCEPT ![s] = IF legs[s] = 1 THEN legs[s] + 1 ELSE legs[s]]
    <3>1. LegOf(StageOf(s))' = IF legs[s] = 1 THEN legs[s] + 1 ELSE legs[s]
      BY <1>6, <1>15 DEF IsSettled
    <3>2. QED
      BY <1>2, <3>1
  <2>6. holds' = holds
    BY <1>8, <1>15 DEF IsSettled
  <2>7. Journey!Settle(s, p)
    BY <2>3, <2>4, <2>5, <2>6 DEF Journey!Settle
  <2>8. QED
    BY <2>1, <2>7 DEF Journey!Next
<1>16. QED
  BY <1>10, <1>11, <1>12, <1>13, <1>14, <1>15 DEF Writes, JourneyRow

\* Every step of the tables is a step of the journey, or none.
LEMMA JourneyStep ==
  ASSUME TypeOK, PaymentsInFlight, HeldCanResume, CalmInv, [Next]_vars
  PROVE  [Journey!Next]_(Journey!vars)
<1>1. ASSUME UNCHANGED <<shipment, payment>>
      PROVE  UNCHANGED Journey!vars
  <2>1. \A t : /\ LegOf(StageOf(t))' = LegOf(StageOf(t))
               /\ (shipment[t].status = "ON_HOLD")' = (shipment[t].status = "ON_HOLD")
               /\ SettlingPayment(t)' = SettlingPayment(t)
    BY <1>1, VerifiedSame, JourneyKept
  <2>2. QED
    BY <2>1 DEF Journey!vars
<1>2. CASE UNCHANGED vars
  BY <1>1, <1>2 DEF vars
<1>3. CASE Next
  <2>1. PICK r \in Requests : ReadsOrWrites(r)
    BY <1>3, StepIs
  <2>2. CASE Reads(r)
    BY <1>1, <2>2 DEF Reads
  <2>3. ASSUME NEW s \in Concerns(request[r]), Writes(r, s)
        PROVE  [Journey!Next]_(Journey!vars)
    <3>1. s \in Shipments
      BY ConcernsAre DEF TypeOK
    <3>2. QED
      BY <2>3, <3>1, WritesRefine
  <2>4. QED
    BY <2>1, <2>2, <2>3 DEF ReadsOrWrites
<1>4. QED
  BY <1>2, <1>3

\* As long as no two requests in flight concern one shipment, every committed step
\* of the shipment tables is a step of the promised journey: one leg forward, a
\* pause, a resumption, a legal calling off, or the one settlement
\* (checkTransition, verify, reject, cancel).
THEOREM KeepsJourneyWithoutOverlap ==
  Spec /\ []OneRequestPerShipment => KeepsJourney
<1>1. Init => Journey!Init
  BY JourneyInit
<1>2. TypeOK /\ PaymentsInFlight /\ HeldCanResume /\ CalmInv /\ [Next]_vars
      => [Journey!Next]_(Journey!vars)
  BY JourneyStep
<1>3. QED
  BY <1>1, <1>2, CalmCorrect, PTL DEF Spec, KeepsJourney, Journey!Spec

\* A server that handles one request at a time, as in the run serial, keeps the
\* promised journey, with one verified payment and a truthful timeline, for any
\* number of shipments and payments.
THEOREM OneAtATimeKeepsJourney ==
  ASSUME NEW r, Requests = {r}
  PROVE  Spec => KeepsJourney /\ []SingleVerified /\ []TimelineShowsStatus
<1>1. OneRequestPerShipment
  BY OneSlotSuffices
<1>2. QED
  BY <1>1, KeepsJourneyWithoutOverlap, SingleVerifiedWithoutOverlap,
     TimelineShowsStatusWithoutOverlap, PTL
===============================================================================
