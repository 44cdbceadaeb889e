---------------------------- MODULE ShipmentsProofs ---------------------------
(***************************************************************************)
(* What is always true of the types, of the statuses and of the money, for *)
(* any shipments, payments, rates, weights and number of overlapping       *)
(* requests.                                                               *)
(***************************************************************************)
EXTENDS Shipments, FreshShipmentProofs

-------------------------------------------------------------------------------
(* Facts about the status machine.                                         *)

\* Only the stages between the warehouse and the customer can be held.
LEMMA HoldableIs ==
  Holdable = {"RECEIVED_AT_WAREHOUSE", "IN_TRANSIT", "ARRIVED_AT_DESTINATION",
              "READY_FOR_PICKUP", "OUT_FOR_DELIVERY"}
BY DEF Holdable, Status, STATUS_TRANSITIONS

\* No transition enters ON_HOLD but from a status that can be held.
LEMMA HeldFromHoldable ==
  ASSUME NEW from \in Status, NEW service, NEW previous,
         isValidTransition(from, "ON_HOLD", service, previous)
  PROVE  from \in Holdable
BY DEF isValidTransition, getAllowedTransitions, WaysOutOfHold, Holdable

-------------------------------------------------------------------------------
(* Types.                                                                  *)

\* A weight that can be booked is a natural number.
LEMMA BookableType == BookableWeights \subseteq Nat
<1>1. ASSUME NEW weight \in BookableWeights
      PROVE  weight \in Nat
  <2>1. weight \in Int /\ weight > 0
    BY WeightsAssumption DEF BookableWeights, WeightsAssumption
  <2>2. QED
    BY <2>1
<1>2. QED
  BY <1>1

\* The initial tables are tables.
LEMMA InitType ==
  ASSUME Init
  PROVE  TypeOK
<1> USE RatesAssumption, WeightsAssumption
<1>1. PICK service \in [Shipments -> ServiceType], rate \in [Shipments -> Rates],
           weight \in [Shipments -> BookableWeights],
           recipient \in [Shipments -> Recipients] :
        shipment = [s \in Shipments |->
                      Booked(service[s], rate[s], weight[s], recipient[s])]
  BY DEF Init
<1>2. ASSUME NEW s \in Shipments
      PROVE  Booked(service[s], rate[s], weight[s], recipient[s]) \in ShipmentRow
  <2>1. weight[s] \in Nat /\ rate[s] \in Rate
    BY BookableType
  <2>2. /\ calculateTariff(weight[s], rate[s]).total \in Nat
        /\ calculateTariff(weight[s], rate[s]).chargeableWeight \in Nat
    BY <2>1, TariffType
  <2>3. QED
    BY <2>2 DEF Booked, ShipmentRow, Status, ShipmentPaymentStatus
<1>3. shipment \in [Shipments -> ShipmentRow]
  BY <1>1, <1>2
<1>4. payment \in [DOMAIN payment -> PaymentRow] /\ DOMAIN payment \subseteq Payments
  BY DEF Init
<1>5. latestEvent \in [Shipments -> Status]
  BY DEF Init, Status
<1>6. audit \in AuditRow /\ stored \subseteq Payments
  BY DEF Init, AuditRow
<1>7. request \in [Requests -> RequestState]
  BY DEF Init, Idle, RequestState
<1>8. QED
  BY <1>3, <1>4, <1>5, <1>6, <1>7 DEF TypeOK

\* The three ways a slot changes keep it a slot.
LEMMA SlotType ==
  ASSUME TypeOK, NEW r \in Requests, NEW plan \in RequestState,
         Begin(r, plan) \/ Continue(r, plan) \/ Finish(r)
  PROVE  request' \in [Requests -> RequestState]
<1>1. Idle \in RequestState
  BY DEF Idle, RequestState
<1>2. QED
  BY <1>1 DEF TypeOK, Begin, Continue, Finish

\* One status change keeps the tables tables.
LEMMA TransitionType ==
  ASSUME TypeOK, NEW s \in Shipments, NEW from \in Status, NEW to \in Status,
         NEW deliveredTo \in BOOLEAN, NEW cancelReason \in BOOLEAN,
         ApplyTransition(s, from, to, deliveredTo, cancelReason)
  PROVE  /\ shipment' \in [Shipments -> ShipmentRow]
         /\ latestEvent' \in [Shipments -> Status]
         /\ audit' \in AuditRow
<1>1. nextPreviousStatus(from, to, shipment[s].previousStatus)
        \in Status \cup {NULL}
  BY DEF TypeOK, ShipmentRow, nextPreviousStatus
<1>2. shipment[s] \in ShipmentRow
  BY DEF TypeOK
<1> DEFINE row == shipment[s]
           delivered == IF to = "DELIVERED" THEN deliveredTo ELSE row.deliveredTo
           explained == IF to = "CANCELLED" THEN cancelReason ELSE row.cancelReason
           new == [row EXCEPT
                     !.status = to,
                     !.previousStatus =
                        nextPreviousStatus(from, to, row.previousStatus),
                     !.deliveredTo = delivered,
                     !.cancelReason = explained]
<1>3. delivered \in BOOLEAN /\ explained \in BOOLEAN
  BY <1>2 DEF ShipmentRow
<1>4. new \in ShipmentRow
  <2> HIDE DEF delivered, explained
  <2>1. QED
    BY <1>1, <1>2, <1>3 DEF ShipmentRow
<1>5. shipment' = [shipment EXCEPT ![s] = new]
  BY DEF ApplyTransition
<1>6. shipment' \in [Shipments -> ShipmentRow]
  <2> HIDE DEF new
  <2>1. QED
    BY <1>4, <1>5 DEF TypeOK
<1>7. latestEvent' \in [Shipments -> Status]
  BY DEF TypeOK, ApplyTransition, AppendEvent
<1>8. audit' \in AuditRow
  BY DEF ApplyTransition, StatusAudit, AuditRow
<1>9. QED
  BY <1>6, <1>7, <1>8

\* What a slot holds is told by its op.
LEMMA SlotFields ==
  ASSUME NEW slot \in RequestState
  PROVE  /\ slot.op \in {"cancel", "save", "update", "upload", "count", "verify",
                         "reject", "status", "weight"} =>
              slot.shipment \in Shipments
         /\ slot.op = "update" => slot.recipient \in Recipients
         /\ slot.op \in {"upload", "count", "verify", "reject"} =>
              slot.payment \in Payments
         /\ slot.op \in {"count", "verify", "reject"} =>
              slot.before \in PaymentRecordStatus
         /\ slot.op = "count" => [slot EXCEPT !.op = "verify"] \in RequestState
         /\ slot.op = "status" =>
              /\ slot.from \in Status
              /\ slot.to \in Status
              /\ slot.deliveredTo \in BOOLEAN
              /\ slot.cancelReason \in BOOLEAN
         /\ slot.op = "bulk" =>
              /\ slot.to \in Status
              /\ \E ids \in SUBSET Shipments : slot.seen \in [ids -> Status]
         /\ slot.op = "weight" =>
              /\ slot.status \in Status
              /\ slot.actualWeight \in BookableWeights
              /\ slot.chargeableWeight \in Nat
              /\ slot.totalAmount \in Nat
              /\ slot.outstandingAmount \in Nat
              /\ slot.totalBefore \in Nat
BY DEF RequestState

\* A shipment table with one row replaced by a row is a shipment table.
LEMMA ReplaceRow ==
  ASSUME TypeOK, NEW s \in Shipments, NEW row \in ShipmentRow
  PROVE  [shipment EXCEPT ![s] = row] \in [Shipments -> ShipmentRow]
BY DEF TypeOK

\* A bulk change that has one row less to do is still a bulk change.
LEMMA BulkSlot ==
  ASSUME TypeOK, NEW r \in Requests, request[r].op = "bulk",
         NEW s \in DOMAIN request[r].seen, AfterRow(r, s)
  PROVE  request' \in [Requests -> RequestState]
<1> DEFINE seen == request[r].seen
           rest == DOMAIN seen \ {s}
           left == [t \in rest |-> seen[t]]
<1>1. request[r] \in RequestState
  BY DEF TypeOK
<1>2. PICK ids \in SUBSET Shipments : seen \in [ids -> Status]
  BY <1>1, SlotFields
<1>3. rest \in SUBSET Shipments /\ left \in [rest -> Status]
  BY <1>2
<1>4. [request[r] EXCEPT !.seen = left] \in RequestState
  <2>1. request[r] \in [op : {"bulk"},
                        seen : UNION {[i -> Status] : i \in SUBSET Shipments},
                        to : Status]
    BY <1>1 DEF RequestState
  <2>2. left \in UNION {[i -> Status] : i \in SUBSET Shipments}
    BY <1>3
  <2> HIDE DEF left
  <2>3. QED
    BY <2>1, <2>2 DEF RequestState
<1>5. Finish(r) \/ Continue(r, [request[r] EXCEPT !.seen = left])
  BY DEF AfterRow
<1>6. Idle \in RequestState
  BY DEF Idle, RequestState
<1>7. QED
  <2> HIDE DEF left
  <2>1. QED
    BY <1>4, <1>5, <1>6, SlotType

\* Every action of every request, and every stuttering step, keeps the types.
LEMMA TypeStep ==
  ASSUME TypeOK, [Next]_vars
  PROVE  TypeOK'
<1> USE DEF db
<1>a. ASSUME NEW s \in Shipments
      PROVE  shipment[s] \in ShipmentRow
  BY DEF TypeOK
<1>b. ASSUME NEW p \in DOMAIN payment
      PROVE  payment[p] \in PaymentRow
  BY DEF TypeOK
<1>c. ASSUME NEW r \in Requests
      PROVE  request[r] \in RequestState
  BY DEF TypeOK
<1>d. Idle \in RequestState
  BY DEF Idle, RequestState
<1>1. CASE UNCHANGED vars
  BY <1>1 DEF TypeOK, vars
<1> SUFFICES ASSUME NEW r \in Requests,
                    Customer(r) \/ Cashier(r) \/ Operator(r) \/ Fail(r)
             PROVE  TypeOK'
  BY <1>1 DEF Next
<1>2. ASSUME NEW plan \in RequestState,
             Begin(r, plan) \/ Continue(r, plan),
             UNCHANGED db
      PROVE  TypeOK'
  BY <1>2, SlotType DEF TypeOK
<1>3. ASSUME Finish(r)
      PROVE  request' \in [Requests -> RequestState]
  BY <1>3, <1>d, SlotType
<1>4. ASSUME NEW s \in Shipments, CancelRead(r, s)
      PROVE  TypeOK'
  <2>1. [op |-> "cancel", shipment |-> s] \in RequestState
    BY DEF RequestState
  <2>2. QED
    BY <1>2, <1>4, <2>1 DEF CancelRead
<1>5. CASE CancelWrite(r)
  <2> DEFINE s == request[r].shipment
             new == [shipment[s] EXCEPT !.status = "CANCELLED",
                                        !.cancelReason = TRUE]
  <2>1. s \in Shipments
    BY <1>5, <1>c, SlotFields DEF CancelWrite
  <2>2. new \in ShipmentRow
    BY <1>a, <2>1 DEF ShipmentRow, Status
  <2>3. shipment' \in [Shipments -> ShipmentRow]
    BY <1>5, <2>1, <2>2, ReplaceRow DEF CancelWrite
  <2>4. latestEvent' \in [Shipments -> Status]
    BY <1>5, <2>1 DEF CancelWrite, AppendEvent, TypeOK, Status
  <2>5. QED
    BY <1>3, <1>5, <2>3, <2>4 DEF CancelWrite, TypeOK
<1>6. ASSUME NEW s \in Shipments, NEW recipient \in Recipients,
             UpdateRead(r, s, recipient)
      PROVE  TypeOK'
  <2>1. [op |-> "update", shipment |-> s, recipient |-> recipient] \in RequestState
    BY DEF RequestState
  <2>2. QED
    BY <1>2, <1>6, <2>1 DEF UpdateRead
<1>7. CASE UpdateWrite(r)
  <2> DEFINE s == request[r].shipment
             new == [shipment[s] EXCEPT !.recipient = request[r].recipient]
  <2>1. s \in Shipments /\ request[r].recipient \in Recipients
    BY <1>7, <1>c, SlotFields DEF UpdateWrite
  <2>2. new \in ShipmentRow
    BY <1>a, <2>1 DEF ShipmentRow
  <2>3. shipment' = [shipment EXCEPT ![s] = new]
    BY <1>7 DEF UpdateWrite
  <2>4. shipment' \in [Shipments -> ShipmentRow]
    BY <2>1, <2>2, <2>3, ReplaceRow
  <2>5. QED
    BY <1>3, <1>7, <2>4 DEF UpdateWrite, TypeOK
<1>8. ASSUME NEW s \in Shipments, UploadRead(r, s)
      PROVE  TypeOK'
  <2>1. [op |-> "save", shipment |-> s] \in RequestState
    BY DEF RequestState
  <2>2. QED
    BY <1>2, <1>8, <2>1 DEF UploadRead
<1>9. ASSUME NEW p \in Payments, UploadSave(r, p)
      PROVE  TypeOK'
  <2>1. [op |-> "upload", shipment |-> request[r].shipment, payment |-> p]
          \in RequestState
    BY <1>9, <1>c, SlotFields DEF UploadSave, RequestState
  <2>2. request' \in [Requests -> RequestState]
    BY <1>9, <2>1, SlotType DEF UploadSave
  <2>3. QED
    BY <1>9, <2>2 DEF UploadSave, TypeOK
<1>10. CASE UploadWrite(r)
  <2> DEFINE s == request[r].shipment
             p == request[r].payment
             new == [shipment |-> s, status |-> "WAITING_VERIFICATION",
                     verified |-> FALSE]
             row == [shipment[s] EXCEPT !.paymentStatus = "WAITING_VERIFICATION"]
  <2>1. s \in Shipments /\ p \in Payments
    BY <1>10, <1>c, SlotFields DEF UploadWrite
  <2>2. new \in PaymentRow
    BY <2>1 DEF PaymentRow, PaymentRecordStatus
  <2>3. payment' = [q \in DOMAIN payment \cup {p} |->
                      IF q = p THEN new ELSE payment[q]]
    BY <1>10 DEF UploadWrite
  <2>4. /\ DOMAIN payment' \subseteq Payments
        /\ payment' \in [DOMAIN payment' -> PaymentRow]
    <3> HIDE DEF new
    <3>1. QED
      BY <1>b, <2>1, <2>2, <2>3 DEF TypeOK
  <2>5. row \in ShipmentRow
    BY <1>a, <2>1 DEF ShipmentRow, ShipmentPaymentStatus
  <2>6. shipment' = [shipment EXCEPT ![s] = row]
    BY <1>10 DEF UploadWrite
  <2>7. shipment' \in [Shipments -> ShipmentRow]
    BY <2>1, <2>5, <2>6, ReplaceRow
  <2>8. QED
    BY <1>3, <1>10, <2>4, <2>7 DEF UploadWrite, TypeOK
<1>11. ASSUME NEW p \in Payments, VerifyRead(r, p)
       PROVE  TypeOK'
  <2> DEFINE s == payment[p].shipment
  <2>1. s \in Shipments /\ payment[p].status \in PaymentRecordStatus
    BY <1>11, <1>b DEF VerifyRead, PaymentRow
  <2>2. [op |-> "count", payment |-> p, shipment |-> s,
         before |-> payment[p].status,
         appendPaidEvent |-> shipment[s].status = "PENDING_PAYMENT"] \in RequestState
    BY <2>1 DEF RequestState
  <2>3. QED
    BY <1>2, <1>11, <2>2 DEF VerifyRead
<1>12. CASE VerifyCount(r)
  BY <1>2, <1>12, <1>c, SlotFields DEF VerifyCount
<1>13. CASE VerifyRefuse(r)
  BY <1>3, <1>13 DEF VerifyRefuse, TypeOK
<1>14. CASE VerifyWrite(r)
  <2> DEFINE s == request[r].shipment
             p == request[r].payment
             paid == [shipment[s] EXCEPT !.paymentStatus = "PAID",
                                         !.outstandingAmount = 0]
             moved == [paid EXCEPT !.status = "PAID"]
  <2>1. /\ s \in Shipments
        /\ p \in Payments
        /\ request[r].before \in PaymentRecordStatus
    BY <1>14, <1>c, SlotFields DEF VerifyWrite
  <2>2. payment' = [payment EXCEPT ![p] = Verified(payment[p])]
    BY <1>14 DEF VerifyWrite
  <2>3. /\ DOMAIN payment' \subseteq Payments
        /\ payment' \in [DOMAIN payment' -> PaymentRow]
    <3>1. p \in DOMAIN payment => Verified(payment[p]) \in PaymentRow
      BY <1>b DEF Verified, PaymentRow, PaymentRecordStatus
    <3>2. QED
      BY <2>2, <3>1 DEF TypeOK
  <2>4. paid \in ShipmentRow
    BY <1>a, <2>1 DEF ShipmentRow, ShipmentPaymentStatus
  <2>5. moved \in ShipmentRow
    <3> HIDE DEF paid
    <3>1. QED
      BY <2>4 DEF ShipmentRow, Status
  <2>6. \/ shipment' = [shipment EXCEPT ![s] = moved]
        \/ shipment' = [shipment EXCEPT ![s] = paid]
    BY <1>14 DEF VerifyWrite
  <2>7. shipment' \in [Shipments -> ShipmentRow]
    <3> HIDE DEF paid, moved
    <3>1. QED
      BY <2>1, <2>4, <2>5, <2>6, ReplaceRow
  <2>8. latestEvent' \in [Shipments -> Status]
    <3>1. \/ AppendEvent(s, "PAID")
          \/ UNCHANGED latestEvent
      BY <1>14 DEF VerifyWrite
    <3>2. QED
      BY <2>1, <3>1 DEF AppendEvent, TypeOK, Status
  <2>9. audit' \in AuditRow
    BY <1>14, <2>1 DEF VerifyWrite, AuditRow, PaymentRecordStatus
  <2>10. QED
    BY <1>3, <1>14, <2>3, <2>7, <2>8, <2>9 DEF VerifyWrite, TypeOK
<1>15. ASSUME NEW p \in Payments, RejectRead(r, p)
       PROVE  TypeOK'
  <2>1. [op |-> "reject", payment |-> p, shipment |-> payment[p].shipment,
         before |-> payment[p].status] \in RequestState
    BY <1>15, <1>b DEF RejectRead, PaymentRow, RequestState
  <2>2. QED
    BY <1>2, <1>15, <2>1 DEF RejectRead
<1>16. CASE RejectWrite(r)
  <2> DEFINE s == request[r].shipment
             p == request[r].payment
             row == [shipment[s] EXCEPT !.paymentStatus = "UNPAID"]
  <2>1. /\ s \in Shipments
        /\ p \in Payments
        /\ request[r].before \in PaymentRecordStatus
    BY <1>16, <1>c, SlotFields DEF RejectWrite
  <2>2. payment' = [payment EXCEPT ![p] = [payment[p] EXCEPT !.status = "REJECTED"]]
    BY <1>16 DEF RejectWrite
  <2>3. /\ DOMAIN payment' \subseteq Payments
        /\ payment' \in [DOMAIN payment' -> PaymentRow]
    <3>1. p \in DOMAIN payment =>
            [payment[p] EXCEPT !.status = "REJECTED"] \in PaymentRow
      BY <1>b DEF PaymentRow, PaymentRecordStatus
    <3>2. QED
      BY <2>2, <3>1 DEF TypeOK
  <2>4. row \in ShipmentRow
    BY <1>a, <2>1 DEF ShipmentRow, ShipmentPaymentStatus
  <2>5. shipment' = [shipment EXCEPT ![s] = row]
    BY <1>16 DEF RejectWrite
  <2>6. shipment' \in [Shipments -> ShipmentRow]
    BY <2>1, <2>4, <2>5, ReplaceRow
  <2>7. audit' \in AuditRow
    BY <1>16, <2>1 DEF RejectWrite, AuditRow, PaymentRecordStatus
  <2>8. QED
    BY <1>3, <1>16, <2>3, <2>6, <2>7 DEF RejectWrite, TypeOK
<1>17. ASSUME NEW s \in Shipments, NEW next \in RequestedStatus,
              NEW deliveredTo \in BOOLEAN, NEW reason \in BOOLEAN,
              StatusRead(r, s, next, deliveredTo, reason)
       PROVE  TypeOK'
  <2> DEFINE plan == [op |-> "status", shipment |-> s,
                      from |-> shipment[s].status, to |-> next,
                      deliveredTo |-> next = "DELIVERED" /\ deliveredTo,
                      cancelReason |-> next = "CANCELLED" /\ reason]
  <2>1. shipment[s].status \in Status /\ next \in Status
    BY <1>a, RequestedStatusAssumption DEF ShipmentRow
  <2>2. plan \in RequestState
    BY <2>1 DEF RequestState
  <2>3. QED
    BY <1>2, <1>17, <2>2 DEF StatusRead
<1>18. CASE StatusWrite(r)
  <2>1. /\ request[r].shipment \in Shipments
        /\ request[r].from \in Status
        /\ request[r].to \in Status
        /\ request[r].deliveredTo \in BOOLEAN
        /\ request[r].cancelReason \in BOOLEAN
    BY <1>18, <1>c, SlotFields DEF StatusWrite
  <2>2. /\ shipment' \in [Shipments -> ShipmentRow]
        /\ latestEvent' \in [Shipments -> Status]
        /\ audit' \in AuditRow
    BY <1>18, <2>1, TransitionType DEF StatusWrite
  <2>3. QED
    BY <1>3, <1>18, <2>2 DEF StatusWrite, TypeOK
<1>19. ASSUME NEW ids \in SUBSET Shipments, NEW next \in RequestedStatus,
              BulkRead(r, ids, next)
       PROVE  TypeOK'
  <2> DEFINE passing ==
               {s \in ids : checkTransition(next, shipment[s].status,
                              shipment[s].serviceType, shipment[s].previousStatus,
                              FALSE, FALSE)}
             seen == [s \in passing |-> shipment[s].status]
  <2>1. \A s \in Shipments : shipment[s].status \in Status
    BY <1>a DEF ShipmentRow
  <2>2. passing \in SUBSET Shipments /\ seen \in [passing -> Status]
    BY <2>1
  <2>3. next \in Status
    BY RequestedStatusAssumption
  <2>4. request' = [request EXCEPT ![r] = [op |-> "bulk", to |-> next, seen |-> seen]]
    BY <1>19 DEF BulkRead, Begin
  <2>5. [op |-> "bulk", to |-> next, seen |-> seen] \in RequestState
    <3> HIDE DEF passing, seen
    <3>1. QED
      BY <2>2, <2>3 DEF RequestState
  <2>6. request' \in [Requests -> RequestState]
    <3> HIDE DEF seen
    <3>1. QED
      BY <2>4, <2>5 DEF TypeOK
  <2>7. QED
    BY <1>19, <2>6 DEF BulkRead, TypeOK
<1>20. CASE BulkWrite(r)
  <2>1. request[r].op = "bulk"
    BY <1>20 DEF BulkWrite
  <2>2. PICK s \in DOMAIN request[r].seen :
          /\ ApplyTransition(s, request[r].seen[s], request[r].to, FALSE, FALSE)
          /\ AfterRow(r, s)
    BY <1>20 DEF BulkWrite
  <2>3. PICK ids \in SUBSET Shipments : request[r].seen \in [ids -> Status]
    BY <1>c, <2>1, SlotFields
  <2>4. request[r].to \in Status
    BY <1>c, <2>1, SlotFields
  <2>5. s \in Shipments /\ request[r].seen[s] \in Status
    BY <2>2, <2>3
  <2>6. /\ shipment' \in [Shipments -> ShipmentRow]
        /\ latestEvent' \in [Shipments -> Status]
        /\ audit' \in AuditRow
    BY <2>2, <2>4, <2>5, TransitionType
  <2>7. request' \in [Requests -> RequestState]
    BY <1>3, <2>1, <2>2, BulkSlot DEF AfterRow
  <2>8. QED
    BY <1>20, <2>6, <2>7 DEF BulkWrite, TypeOK
<1>21. ASSUME NEW s \in Shipments, NEW weight \in Weights, WeightRead(r, s, weight)
       PROVE  TypeOK'
  <2>1. weight \in BookableWeights /\ weight \in Nat
    BY <1>21, BookableType DEF WeightRead, BookableWeights
  <2> DEFINE row == shipment[s]
             tariff == Recalculated(row, weight)
             debt == OutstandingAfter(row, tariff.total)
             plan == [op |-> "weight", shipment |-> s, status |-> row.status,
                      actualWeight |-> weight,
                      chargeableWeight |-> tariff.chargeableWeight,
                      totalAmount |-> tariff.total,
                      outstandingAmount |-> debt,
                      totalBefore |-> row.totalAmount]
  <2>2. row.rate \in Rate /\ row.totalAmount \in Nat /\ row.status \in Status
    BY <1>a, RatesAssumption DEF ShipmentRow
  <2>3. tariff.total \in Nat /\ tariff.chargeableWeight \in Nat
    BY <2>1, <2>2, TariffType DEF Recalculated
  <2>4. debt \in Nat
    <3> HIDE DEF tariff
    <3>1. QED
      BY <2>2, <2>3 DEF OutstandingAfter, AtLeast
  <2>5. Begin(r, plan) /\ UNCHANGED db
    BY <1>21 DEF WeightRead
  <2>6. plan \in RequestState
    <3> HIDE DEF tariff, debt
    <3>1. QED
      BY <2>1, <2>2, <2>3, <2>4 DEF RequestState
  <2>7. QED
    <3> HIDE DEF plan
    <3>1. QED
      BY <1>2, <2>5, <2>6
<1>22. CASE WeightWrite(r)
  <2> DEFINE plan == request[r]
             s == plan.shipment
             new == [shipment[s] EXCEPT
                       !.actualWeight = plan.actualWeight,
                       !.chargeableWeight = plan.chargeableWeight,
                       !.totalAmount = plan.totalAmount,
                       !.outstandingAmount = plan.outstandingAmount]
  <2>1. /\ s \in Shipments
        /\ plan.status \in Status
        /\ plan.actualWeight \in BookableWeights
        /\ plan.chargeableWeight \in Nat
        /\ plan.totalAmount \in Nat
        /\ plan.outstandingAmount \in Nat
        /\ plan.totalBefore \in Nat
    BY <1>22, <1>c, SlotFields DEF WeightWrite
  <2>2. new \in ShipmentRow
    BY <1>a, <2>1 DEF ShipmentRow
  <2>3. shipment' = [shipment EXCEPT ![s] = new]
    BY <1>22 DEF WeightWrite
  <2>4. shipment' \in [Shipments -> ShipmentRow]
    <3> HIDE DEF new
    <3>1. QED
      BY <2>1, <2>2, <2>3, ReplaceRow
  <2>5. latestEvent' \in [Shipments -> Status]
    BY <1>22, <2>1 DEF WeightWrite, AppendEvent, TypeOK
  <2>6. audit' \in AuditRow
    BY <1>22, <2>1 DEF WeightWrite, AuditRow
  <2>7. QED
    BY <1>3, <1>22, <2>4, <2>5, <2>6 DEF WeightWrite, TypeOK
<1>23. CASE Fail(r)
  BY <1>3, <1>23 DEF Fail, TypeOK
<1>24. CASE Customer(r)
  BY <1>4, <1>5, <1>6, <1>7, <1>8, <1>9, <1>10, <1>24 DEF Customer
<1>25. CASE Cashier(r)
  BY <1>11, <1>12, <1>13, <1>14, <1>15, <1>16, <1>25 DEF Cashier
<1>26. CASE Operator(r)
  BY <1>17, <1>18, <1>19, <1>20, <1>21, <1>22, <1>26 DEF Operator
<1>27. QED
  BY <1>23, <1>24, <1>25, <1>26

\* Whatever requests overlap and fail, every table, every plan in flight and the
\* audit row keep the shape the schema gives them; in particular no amount ever
\* turns negative and no enum column leaves its enum.
THEOREM TypeCorrect == Spec => []TypeOK
<1>1. Init => TypeOK
  BY InitType
<1>2. TypeOK /\ [Next]_vars => TypeOK'
  BY TypeStep
<1>3. QED
  BY <1>1, <1>2, PTL DEF Spec

-------------------------------------------------------------------------------
(* What is always true of the statuses.                                    *)

\* The inductive invariant of the statuses: what the tables say, and what the
\* requests in flight may still write into them.
StatusInv ==
  /\ HeldCanResume
  /\ ServiceRespected
  /\ FinalStatusIsExplained
  /\ AuditedStepIsLegal
  /\ TransitionsInFlight

\* No handler changes the service or the rate of a booking.
SnapshotKept ==
  \A s \in Shipments :
    /\ shipment'[s].serviceType = shipment[s].serviceType
    /\ shipment'[s].rate = shipment[s].rate

\* A step that leaves alone the columns of the status keeps what is said of them.
LEMMA StatusColumnsKept ==
  ASSUME TypeOK, StatusInv,
         \A s \in Shipments :
           /\ shipment'[s].serviceType = shipment[s].serviceType
           /\ shipment'[s].status = shipment[s].status
           /\ shipment'[s].previousStatus = shipment[s].previousStatus
           /\ shipment'[s].deliveredTo = shipment[s].deliveredTo
           /\ shipment'[s].cancelReason = shipment[s].cancelReason,
         UNCHANGED latestEvent,
         audit'.action = "SHIPMENT_STATUS_CHANGED" => UNCHANGED audit
  PROVE  /\ HeldCanResume'
         /\ ServiceRespected'
         /\ FinalStatusIsExplained'
         /\ AuditedStepIsLegal'
<1>1. HeldCanResume'
  BY DEF StatusInv, HeldCanResume
<1>2. ServiceRespected'
  BY DEF StatusInv, ServiceRespected
<1>3. FinalStatusIsExplained'
  BY DEF StatusInv, FinalStatusIsExplained
<1>4. AuditedStepIsLegal'
  <2>1. audit.action = "SHIPMENT_STATUS_CHANGED" => audit.entity \in Shipments
    BY DEF TypeOK, AuditRow
  <2>2. QED
    BY <2>1 DEF StatusInv, AuditedStepIsLegal
<1>5. QED
  BY <1>1, <1>2, <1>3, <1>4

\* A sound transition that is explained keeps what is said of the statuses.
LEMMA TransitionKeeps ==
  ASSUME TypeOK, StatusInv,
         NEW s \in Shipments, NEW from \in Status, NEW to \in Status,
         NEW deliveredTo \in BOOLEAN, NEW cancelReason \in BOOLEAN,
         SoundTransition(s, from, to),
         to = "DELIVERED" => deliveredTo,
         to = "CANCELLED" => cancelReason,
         ApplyTransition(s, from, to, deliveredTo, cancelReason)
  PROVE  /\ SnapshotKept
         /\ HeldCanResume'
         /\ ServiceRespected'
         /\ FinalStatusIsExplained'
         /\ AuditedStepIsLegal'
<1> DEFINE row == shipment[s]
           previous == nextPreviousStatus(from, to, row.previousStatus)
           delivered == IF to = "DELIVERED" THEN deliveredTo ELSE row.deliveredTo
           explained == IF to = "CANCELLED" THEN cancelReason ELSE row.cancelReason
           new == [row EXCEPT !.status = to, !.previousStatus = previous,
                              !.deliveredTo = delivered,
                              !.cancelReason = explained]
<1>1. shipment' = [shipment EXCEPT ![s] = new]
  BY DEF ApplyTransition
<1>2. row \in ShipmentRow
  BY DEF TypeOK
<1>3. /\ new.status = to
      /\ new.previousStatus = previous
      /\ new.deliveredTo = delivered
      /\ new.cancelReason = explained
      /\ new.serviceType = row.serviceType
      /\ new.rate = row.rate
  <2> HIDE DEF previous, delivered, explained
  <2>1. QED
    BY <1>2 DEF ShipmentRow
<1>4. /\ shipment'[s] = new
      /\ \A t \in Shipments \ {s} : shipment'[t] = shipment[t]
  <2> HIDE DEF new
  <2>1. QED
    BY <1>1 DEF TypeOK
<1> HIDE DEF new
<1>5. SnapshotKept
  BY <1>3, <1>4 DEF SnapshotKept
<1>6. HeldCanResume'
  <2>1. ASSUME to = "ON_HOLD"
        PROVE  /\ previous \in Holdable
               /\ isValidTransition("ON_HOLD", previous, row.serviceType, previous)
    <3>1. previous = from /\ from \in Holdable
      BY <2>1 DEF nextPreviousStatus, SoundTransition
    <3>2. isAllowedForService(from, row.serviceType)
      BY DEF SoundTransition
    <3>3. from \notin {NULL, "ON_HOLD"}
      BY <3>1, HoldableIs DEF NULL
    <3>4. QED
      BY <3>1, <3>2, <3>3
         DEF isValidTransition, getAllowedTransitions, WaysOutOfHold
  <2>2. QED
    BY <1>3, <1>4, <2>1 DEF HeldCanResume, StatusInv
<1>7. ServiceRespected'
  <2>1. /\ isAllowedForService(to, row.serviceType)
        /\ isAllowedForService(from, row.serviceType)
    BY DEF SoundTransition
  <2>2. isAllowedForService(previous, row.serviceType)
    BY <2>1 DEF nextPreviousStatus, ServiceRespected, StatusInv,
                isAllowedForService, NULL
  <2>3. latestEvent'[s] = to /\ \A t \in Shipments \ {s} : latestEvent'[t] = latestEvent[t]
    BY DEF ApplyTransition, AppendEvent, TypeOK
  <2> HIDE DEF previous
  <2>4. QED
    BY <1>3, <1>4, <2>1, <2>2, <2>3 DEF ServiceRespected, StatusInv
<1>8. FinalStatusIsExplained'
  BY <1>3, <1>4 DEF FinalStatusIsExplained, StatusInv
<1>9. AuditedStepIsLegal'
  <2>1. audit' = StatusAudit(s, from, to)
    BY DEF ApplyTransition
  <2>2. /\ audit'.entity = s
        /\ audit'.before = from
        /\ audit'.after = to
    BY <2>1 DEF StatusAudit
  <2>3. shipment'[s].serviceType = row.serviceType
    BY <1>3, <1>4
  <2>4. QED
    BY <2>2, <2>3 DEF SoundTransition, AuditedStepIsLegal
<1>10. QED
  BY <1>5, <1>6, <1>7, <1>8, <1>9

\* A sound plan stays sound whatever the other requests write.
LEMMA PlanKept ==
  ASSUME TypeOK, SnapshotKept, NEW plan \in RequestState, SoundPlan(plan)
  PROVE  SoundPlan(plan)'
<1>1. /\ plan.op \in {"status", "weight"} => plan.shipment \in Shipments
      /\ plan.op = "bulk" => DOMAIN plan.seen \subseteq Shipments
  <2>1. plan.op = "bulk" => \E ids \in SUBSET Shipments : plan.seen \in [ids -> Status]
    BY SlotFields
  <2>2. QED
    BY <2>1, SlotFields
<1>2. ASSUME NEW s \in Shipments, NEW from, NEW to, SoundTransition(s, from, to)
      PROVE  SoundTransition(s, from, to)'
  BY <1>2 DEF SoundTransition, SnapshotKept
<1>3. plan.op = "status" =>
        /\ SoundTransition(plan.shipment, plan.from, plan.to)'
        /\ plan.to = "DELIVERED" => plan.deliveredTo
        /\ plan.to = "CANCELLED" => plan.cancelReason
  BY <1>1, <1>2 DEF SoundPlan
<1>4. plan.op = "bulk" =>
        /\ plan.to \notin {"ON_HOLD", "DELIVERED", "CANCELLED"}
        /\ \A s \in DOMAIN plan.seen : SoundTransition(s, plan.seen[s], plan.to)'
  BY <1>1, <1>2 DEF SoundPlan
<1>5. plan.op = "weight" =>
        isAllowedForService(plan.status, shipment'[plan.shipment].serviceType)
  BY <1>1 DEF SoundPlan, SnapshotKept
<1>6. QED
  BY <1>3, <1>4, <1>5 DEF SoundPlan

\* Replacing one slot by a sound plan keeps all slots sound.
LEMMA SlotsKept ==
  ASSUME TypeOK, TransitionsInFlight, SnapshotKept,
         NEW r \in Requests, NEW plan, SoundPlan(plan)',
         request' = [request EXCEPT ![r] = plan]
  PROVE  TransitionsInFlight'
<1>1. ASSUME NEW q \in Requests
      PROVE  SoundPlan(request[q])'
  <2>1. CASE q = r
    <3>1. request'[q] = plan
      BY <2>1 DEF TypeOK
    <3>2. QED
      BY <3>1 DEF SoundPlan, SoundTransition
  <2>2. CASE q # r
    <3>1. request'[q] = request[q] /\ request[q] \in RequestState
      BY <2>2 DEF TypeOK
    <3>2. SoundPlan(request[q])
      BY DEF TransitionsInFlight
    <3> DEFINE mine == request[q]
    <3>3. \A kept \in RequestState : SoundPlan(kept) => SoundPlan(kept)'
      BY PlanKept
    <3>4. QED
      BY <3>1, <3>2, <3>3 DEF SoundPlan, SoundTransition
  <2>3. QED
    BY <2>1, <2>2
<1>2. QED
  BY <1>1 DEF TransitionsInFlight

\* A request that has nothing more to write promises nothing.
LEMMA FinishKeeps ==
  ASSUME TypeOK, TransitionsInFlight, SnapshotKept, NEW r \in Requests, Finish(r)
  PROVE  TransitionsInFlight'
<1>1. SoundPlan(Idle)'
  BY DEF SoundPlan, Idle
<1>2. QED
  BY <1>1, SlotsKept DEF Finish

\* A request that only reads, and then plans something sound, keeps the invariant.
LEMMA ReadKeepsStatus ==
  ASSUME TypeOK, StatusInv, NEW r \in Requests, NEW plan, SoundPlan(plan),
         Begin(r, plan) \/ Continue(r, plan), UNCHANGED db
  PROVE  StatusInv'
<1> USE DEF db
<1>1. SnapshotKept
  BY DEF SnapshotKept
<1>2. SoundPlan(plan)'
  BY DEF SoundPlan, SoundTransition
<1>3. TransitionsInFlight'
  BY <1>1, <1>2, SlotsKept DEF Begin, Continue, StatusInv
<1>4. /\ HeldCanResume'
      /\ ServiceRespected'
      /\ FinalStatusIsExplained'
      /\ AuditedStepIsLegal'
  BY StatusColumnsKept
<1>5. QED
  BY <1>3, <1>4 DEF StatusInv

\* A step that writes one row but none of its status columns, and no audit row of a
\* status change, keeps what is said of the statuses and the snapshot.
LEMMA OtherColumnsKeepStatus ==
  ASSUME TypeOK, StatusInv, NEW s \in Shipments, NEW new,
         shipment' = [shipment EXCEPT ![s] = new],
         new.serviceType = shipment[s].serviceType,
         new.rate = shipment[s].rate,
         new.status = shipment[s].status,
         new.previousStatus = shipment[s].previousStatus,
         new.deliveredTo = shipment[s].deliveredTo,
         new.cancelReason = shipment[s].cancelReason,
         UNCHANGED latestEvent,
         audit'.action = "SHIPMENT_STATUS_CHANGED" => UNCHANGED audit
  PROVE  /\ SnapshotKept
         /\ HeldCanResume'
         /\ ServiceRespected'
         /\ FinalStatusIsExplained'
         /\ AuditedStepIsLegal'
<1>1. /\ shipment'[s] = new
      /\ \A t \in Shipments \ {s} : shipment'[t] = shipment[t]
  BY DEF TypeOK
<1>2. SnapshotKept
  BY <1>1 DEF SnapshotKept
<1>3. \A t \in Shipments :
        /\ shipment'[t].serviceType = shipment[t].serviceType
        /\ shipment'[t].status = shipment[t].status
        /\ shipment'[t].previousStatus = shipment[t].previousStatus
        /\ shipment'[t].deliveredTo = shipment[t].deliveredTo
        /\ shipment'[t].cancelReason = shipment[t].cancelReason
  BY <1>1
<1>4. QED
  BY <1>2, <1>3, StatusColumnsKept

\* A step that moves a row to a status that can neither be held nor is a delivery,
\* together with its event, keeps them too (cancel, and verify of an unpaid one).
LEMMA MoveKeepsStatus ==
  ASSUME TypeOK, StatusInv, NEW s \in Shipments, NEW new,
         NEW status \in {"PAID", "CANCELLED"},
         shipment' = [shipment EXCEPT ![s] = new],
         new.serviceType = shipment[s].serviceType,
         new.rate = shipment[s].rate,
         new.status = status,
         new.previousStatus = shipment[s].previousStatus,
         status = "CANCELLED" => new.cancelReason,
         AppendEvent(s, status),
         audit'.action = "SHIPMENT_STATUS_CHANGED" => UNCHANGED audit
  PROVE  /\ SnapshotKept
         /\ HeldCanResume'
         /\ ServiceRespected'
         /\ FinalStatusIsExplained'
         /\ AuditedStepIsLegal'
<1>1. /\ shipment'[s] = new
      /\ \A t \in Shipments \ {s} : shipment'[t] = shipment[t]
  BY DEF TypeOK
<1>2. /\ latestEvent'[s] = status
      /\ \A t \in Shipments \ {s} : latestEvent'[t] = latestEvent[t]
  BY DEF TypeOK, AppendEvent
<1>3. SnapshotKept
  BY <1>1 DEF SnapshotKept
<1>4. HeldCanResume'
  BY <1>1 DEF StatusInv, HeldCanResume
<1>5. ServiceRespected'
  <2>1. isAllowedForService(status, shipment[s].serviceType)
    BY DEF isAllowedForService
  <2>2. isAllowedForService(shipment[s].previousStatus, shipment[s].serviceType)
    BY DEF StatusInv, ServiceRespected
  <2>3. QED
    BY <1>1, <1>2, <2>1, <2>2 DEF StatusInv, ServiceRespected
<1>6. FinalStatusIsExplained'
  BY <1>1 DEF StatusInv, FinalStatusIsExplained
<1>7. AuditedStepIsLegal'
  <2>1. audit.action = "SHIPMENT_STATUS_CHANGED" => audit.entity \in Shipments
    BY DEF TypeOK, AuditRow
  <2>2. QED
    BY <1>3, <2>1 DEF StatusInv, AuditedStepIsLegal, SnapshotKept
<1>8. QED
  BY <1>3, <1>4, <1>5, <1>6, <1>7

\* A plan to change a status is sound when it is made: checkTransition said so.
LEMMA CheckedIsSound ==
  ASSUME TypeOK, StatusInv, NEW s \in Shipments, NEW next \in Status,
         NEW deliveredTo \in BOOLEAN, NEW reason \in BOOLEAN,
         checkTransition(next, shipment[s].status, shipment[s].serviceType,
                         shipment[s].previousStatus, deliveredTo, reason)
  PROVE  SoundTransition(s, shipment[s].status, next)
<1> DEFINE row == shipment[s]
<1>1. isValidTransition(row.status, next, row.serviceType, row.previousStatus)
  BY DEF checkTransition
<1>2. isAllowedForService(row.status, row.serviceType)
  BY DEF StatusInv, ServiceRespected
<1>3. isAllowedForService(next, row.serviceType)
  BY <1>1 DEF isValidTransition, getAllowedTransitions
<1>4. next = "ON_HOLD" => row.status \in Holdable
  BY <1>1, HeldFromHoldable DEF TypeOK, ShipmentRow
<1>5. row.status # "ON_HOLD" =>
        isValidTransition(row.status, next, row.serviceType, NULL)
  BY <1>1 DEF isValidTransition, getAllowedTransitions
<1>6. QED
  BY <1>2, <1>3, <1>4, <1>5 DEF SoundTransition

\* Every action keeps the invariant of the statuses.
LEMMA StatusStep ==
  ASSUME TypeOK, StatusInv, [Next]_vars
  PROVE  StatusInv'
<1>a. ASSUME NEW s \in Shipments
      PROVE  shipment[s] \in ShipmentRow
  BY DEF TypeOK
<1>b. ASSUME NEW r \in Requests
      PROVE  request[r] \in RequestState
  BY DEF TypeOK
<1>c. TransitionsInFlight
  BY DEF StatusInv
<1>1. CASE UNCHANGED vars
  <2>1. SnapshotKept
    BY <1>1 DEF vars, SnapshotKept
  <2>2. TransitionsInFlight'
    BY <1>1, <1>c DEF vars, TransitionsInFlight, SoundPlan, SoundTransition
  <2>3. QED
    BY <1>1, <2>2, StatusColumnsKept DEF vars, StatusInv
<1> SUFFICES ASSUME NEW r \in Requests,
                    Customer(r) \/ Cashier(r) \/ Operator(r) \/ Fail(r)
             PROVE  StatusInv'
  BY <1>1 DEF Next
<1>2. ASSUME Finish(r), SnapshotKept,
             HeldCanResume', ServiceRespected', FinalStatusIsExplained',
             AuditedStepIsLegal'
      PROVE  StatusInv'
  BY <1>2, <1>c, FinishKeeps DEF StatusInv
<1>3. ASSUME Finish(r), UNCHANGED db
      PROVE  StatusInv'
  BY <1>2, <1>3, StatusColumnsKept DEF SnapshotKept, db
<1>4. ASSUME NEW s \in Shipments, CancelRead(r, s)
      PROVE  StatusInv'
  <2>1. SoundPlan([op |-> "cancel", shipment |-> s])
    BY DEF SoundPlan
  <2>2. QED
    BY <1>4, <2>1, ReadKeepsStatus DEF CancelRead
<1>5. CASE CancelWrite(r)
  <2> DEFINE s == request[r].shipment
             new == [shipment[s] EXCEPT !.status = "CANCELLED",
                                        !.cancelReason = TRUE]
  <2>1. s \in Shipments
    BY <1>5, <1>b, SlotFields DEF CancelWrite
  <2>2. /\ new.status = "CANCELLED"
        /\ new.cancelReason
        /\ new.previousStatus = shipment[s].previousStatus
        /\ new.serviceType = shipment[s].serviceType
        /\ new.rate = shipment[s].rate
    BY <1>a, <2>1 DEF ShipmentRow
  <2>3. /\ shipment' = [shipment EXCEPT ![s] = new]
        /\ AppendEvent(s, "CANCELLED")
        /\ UNCHANGED audit
        /\ Finish(r)
    BY <1>5 DEF CancelWrite
  <2> HIDE DEF new
  <2>4. QED
    BY <1>2, <2>1, <2>2, <2>3, MoveKeepsStatus
<1>6. ASSUME NEW s \in Shipments, NEW recipient \in Recipients,
             UpdateRead(r, s, recipient)
      PROVE  StatusInv'
  <2>1. SoundPlan([op |-> "update", shipment |-> s, recipient |-> recipient])
    BY DEF SoundPlan
  <2>2. QED
    BY <1>6, <2>1, ReadKeepsStatus DEF UpdateRead
<1>7. CASE UpdateWrite(r)
  <2> DEFINE s == request[r].shipment
             new == [shipment[s] EXCEPT !.recipient = request[r].recipient]
  <2>1. s \in Shipments
    BY <1>7, <1>b, SlotFields DEF UpdateWrite
  <2>2. /\ new.serviceType = shipment[s].serviceType
        /\ new.rate = shipment[s].rate
        /\ new.status = shipment[s].status
        /\ new.previousStatus = shipment[s].previousStatus
        /\ new.deliveredTo = shipment[s].deliveredTo
        /\ new.cancelReason = shipment[s].cancelReason
    BY <1>a, <2>1 DEF ShipmentRow
  <2>3. /\ shipment' = [shipment EXCEPT ![s] = new]
        /\ UNCHANGED <<latestEvent, audit>>
        /\ Finish(r)
    BY <1>7 DEF UpdateWrite
  <2> HIDE DEF new
  <2>4. QED
    BY <1>2, <2>1, <2>2, <2>3, OtherColumnsKeepStatus
<1>8. ASSUME NEW s \in Shipments, UploadRead(r, s)
      PROVE  StatusInv'
  <2>1. SoundPlan([op |-> "save", shipment |-> s])
    BY DEF SoundPlan
  <2>2. QED
    BY <1>8, <2>1, ReadKeepsStatus DEF UploadRead
<1>9. ASSUME NEW p \in Payments, UploadSave(r, p)
      PROVE  StatusInv'
  <2>1. SoundPlan([op |-> "upload", shipment |-> request[r].shipment,
                   payment |-> p])'
    BY DEF SoundPlan
  <2>2. UNCHANGED <<shipment, latestEvent, audit>>
    BY <1>9 DEF UploadSave
  <2>3. SnapshotKept
    BY <2>2 DEF SnapshotKept
  <2>4. TransitionsInFlight'
    BY <1>9, <1>c, <2>1, <2>3, SlotsKept DEF UploadSave, Continue
  <2>5. QED
    BY <2>2, <2>4, StatusColumnsKept DEF StatusInv
<1>10. CASE UploadWrite(r)
  <2> DEFINE s == request[r].shipment
             new == [shipment[s] EXCEPT !.paymentStatus = "WAITING_VERIFICATION"]
  <2>1. s \in Shipments
    BY <1>10, <1>b, SlotFields DEF UploadWrite
  <2>2. /\ new.serviceType = shipment[s].serviceType
        /\ new.rate = shipment[s].rate
        /\ new.status = shipment[s].status
        /\ new.previousStatus = shipment[s].previousStatus
        /\ new.deliveredTo = shipment[s].deliveredTo
        /\ new.cancelReason = shipment[s].cancelReason
    BY <1>a, <2>1 DEF ShipmentRow
  <2>3. /\ shipment' = [shipment EXCEPT ![s] = new]
        /\ UNCHANGED <<latestEvent, audit>>
        /\ Finish(r)
    BY <1>10 DEF UploadWrite
  <2> HIDE DEF new
  <2>4. QED
    BY <1>2, <2>1, <2>2, <2>3, OtherColumnsKeepStatus
<1>11. ASSUME NEW p \in Payments, VerifyRead(r, p)
       PROVE  StatusInv'
  <2> DEFINE s == payment[p].shipment
             plan == [op |-> "count", payment |-> p, shipment |-> s,
                      before |-> payment[p].status,
                      appendPaidEvent |-> shipment[s].status = "PENDING_PAYMENT"]
  <2>1. SoundPlan(plan)
    BY DEF SoundPlan
  <2>2. Begin(r, plan) /\ UNCHANGED db
    BY <1>11 DEF VerifyRead
  <2> HIDE DEF plan
  <2>3. QED
    BY <2>1, <2>2, ReadKeepsStatus
<1>12. CASE VerifyCount(r)
  <2> DEFINE plan == [request[r] EXCEPT !.op = "verify"]
  <2>1. plan.op = "verify"
    BY <1>12, <1>b DEF VerifyCount, RequestState
  <2>2. Continue(r, plan) /\ UNCHANGED db
    BY <1>12 DEF VerifyCount
  <2> HIDE DEF plan
  <2>3. SoundPlan(plan)
    BY <2>1 DEF SoundPlan
  <2>4. QED
    BY <2>2, <2>3, ReadKeepsStatus
<1>13. CASE VerifyRefuse(r)
  BY <1>3, <1>13 DEF VerifyRefuse
<1>14. CASE VerifyWrite(r)
  <2> DEFINE s == request[r].shipment
             paid == [shipment[s] EXCEPT !.paymentStatus = "PAID",
                                         !.outstandingAmount = 0]
             moved == [paid EXCEPT !.status = "PAID"]
  <2>1. s \in Shipments
    BY <1>14, <1>b, SlotFields DEF VerifyWrite
  <2>2. /\ paid.serviceType = shipment[s].serviceType
        /\ paid.rate = shipment[s].rate
        /\ paid.status = shipment[s].status
        /\ paid.previousStatus = shipment[s].previousStatus
        /\ paid.deliveredTo = shipment[s].deliveredTo
        /\ paid.cancelReason = shipment[s].cancelReason
    BY <1>a, <2>1 DEF ShipmentRow
  <2>3. /\ moved.serviceType = shipment[s].serviceType
        /\ moved.rate = shipment[s].rate
        /\ moved.status = "PAID"
        /\ moved.previousStatus = shipment[s].previousStatus
    BY <1>a, <2>1 DEF ShipmentRow
  <2>4. /\ \/ /\ shipment' = [shipment EXCEPT ![s] = moved]
              /\ AppendEvent(s, "PAID")
           \/ /\ shipment' = [shipment EXCEPT ![s] = paid]
              /\ UNCHANGED latestEvent
        /\ audit'.action = "PAYMENT_VERIFIED"
        /\ Finish(r)
    BY <1>14 DEF VerifyWrite
  <2> HIDE DEF paid, moved
  <2>5. CASE shipment' = [shipment EXCEPT ![s] = moved] /\ AppendEvent(s, "PAID")
    BY <1>2, <2>1, <2>3, <2>4, <2>5, MoveKeepsStatus
  <2>6. CASE shipment' = [shipment EXCEPT ![s] = paid] /\ UNCHANGED latestEvent
    BY <1>2, <2>1, <2>2, <2>4, <2>6, OtherColumnsKeepStatus
  <2>7. QED
    BY <2>4, <2>5, <2>6
<1>15. ASSUME NEW p \in Payments, RejectRead(r, p)
       PROVE  StatusInv'
  <2>1. SoundPlan([op |-> "reject", payment |-> p,
                   shipment |-> payment[p].shipment, before |-> payment[p].status])
    BY DEF SoundPlan
  <2>2. QED
    BY <1>15, <2>1, ReadKeepsStatus DEF RejectRead
<1>16. CASE RejectWrite(r)
  <2> DEFINE s == request[r].shipment
             new == [shipment[s] EXCEPT !.paymentStatus = "UNPAID"]
  <2>1. s \in Shipments
    BY <1>16, <1>b, SlotFields DEF RejectWrite
  <2>2. /\ new.serviceType = shipment[s].serviceType
        /\ new.rate = shipment[s].rate
        /\ new.status = shipment[s].status
        /\ new.previousStatus = shipment[s].previousStatus
        /\ new.deliveredTo = shipment[s].deliveredTo
        /\ new.cancelReason = shipment[s].cancelReason
    BY <1>a, <2>1 DEF ShipmentRow
  <2>3. /\ shipment' = [shipment EXCEPT ![s] = new]
        /\ UNCHANGED latestEvent
        /\ audit'.action = "PAYMENT_REJECTED"
        /\ Finish(r)
    BY <1>16 DEF RejectWrite
  <2> HIDE DEF new
  <2>4. QED
    BY <1>2, <2>1, <2>2, <2>3, OtherColumnsKeepStatus
<1>17. ASSUME NEW s \in Shipments, NEW next \in RequestedStatus,
              NEW deliveredTo \in BOOLEAN, NEW reason \in BOOLEAN,
              StatusRead(r, s, next, deliveredTo, reason)
       PROVE  StatusInv'
  <2> DEFINE plan == [op |-> "status", shipment |-> s,
                      from |-> shipment[s].status, to |-> next,
                      deliveredTo |-> next = "DELIVERED" /\ deliveredTo,
                      cancelReason |-> next = "CANCELLED" /\ reason]
  <2>1. next \in Status
    BY RequestedStatusAssumption
  <2>2. checkTransition(next, shipment[s].status, shipment[s].serviceType,
                        shipment[s].previousStatus, deliveredTo, reason)
    BY <1>17 DEF StatusRead
  <2>3. SoundTransition(s, shipment[s].status, next)
    BY <2>1, <2>2, CheckedIsSound
  <2>4. /\ next = "DELIVERED" => deliveredTo
        /\ next = "CANCELLED" => reason
    BY <2>2 DEF checkTransition, requiresDeliveredTo, requiresReason
  <2>5. SoundPlan(plan)
    BY <2>3, <2>4 DEF SoundPlan
  <2>6. Begin(r, plan) /\ UNCHANGED db
    BY <1>17 DEF StatusRead
  <2> HIDE DEF plan
  <2>7. QED
    BY <2>5, <2>6, ReadKeepsStatus
<1>18. CASE StatusWrite(r)
  <2>1. /\ request[r].op = "status"
        /\ request[r].shipment \in Shipments
        /\ request[r].from \in Status
        /\ request[r].to \in Status
        /\ request[r].deliveredTo \in BOOLEAN
        /\ request[r].cancelReason \in BOOLEAN
    BY <1>18, <1>b, SlotFields DEF StatusWrite
  <2>2. /\ SoundTransition(request[r].shipment, request[r].from, request[r].to)
        /\ request[r].to = "DELIVERED" => request[r].deliveredTo
        /\ request[r].to = "CANCELLED" => request[r].cancelReason
    BY <1>c, <2>1 DEF TransitionsInFlight, SoundPlan
  <2>3. /\ ApplyTransition(request[r].shipment, request[r].from, request[r].to,
                           request[r].deliveredTo, request[r].cancelReason)
        /\ Finish(r)
    BY <1>18 DEF StatusWrite
  <2>4. QED
    BY <1>2, <2>1, <2>2, <2>3, TransitionKeeps
<1>19. ASSUME NEW ids \in SUBSET Shipments, NEW next \in RequestedStatus,
              BulkRead(r, ids, next)
       PROVE  StatusInv'
  <2> DEFINE passing ==
               {s \in ids : checkTransition(next, shipment[s].status,
                              shipment[s].serviceType, shipment[s].previousStatus,
                              FALSE, FALSE)}
             seen == [s \in passing |-> shipment[s].status]
             plan == [op |-> "bulk", to |-> next, seen |-> seen]
  <2>1. next \in Status
    BY RequestedStatusAssumption
  <2>2. \A s \in passing : SoundTransition(s, seen[s], next)
    BY <2>1, CheckedIsSound
  <2>3. next \notin {"ON_HOLD", "DELIVERED", "CANCELLED"}
    <3>1. PICK s \in passing : TRUE
      BY <1>19 DEF BulkRead
    <3>2. QED
      BY <3>1 DEF checkTransition, requiresDeliveredTo, requiresReason
  <2>4. SoundPlan(plan)
    <3>1. DOMAIN seen = passing
      OBVIOUS
    <3> HIDE DEF seen, passing
    <3>2. QED
      BY <2>2, <2>3, <3>1 DEF SoundPlan
  <2>5. Begin(r, plan) /\ UNCHANGED db
    BY <1>19 DEF BulkRead
  <2> HIDE DEF plan
  <2>6. QED
    BY <2>4, <2>5, ReadKeepsStatus
<1>20. CASE BulkWrite(r)
  <2> DEFINE seen == request[r].seen
             to == request[r].to
  <2>1. request[r].op = "bulk"
    BY <1>20 DEF BulkWrite
  <2>2. PICK s \in DOMAIN seen :
          /\ ApplyTransition(s, seen[s], to, FALSE, FALSE)
          /\ AfterRow(r, s)
    BY <1>20 DEF BulkWrite
  <2>3. PICK ids \in SUBSET Shipments : seen \in [ids -> Status]
    BY <1>b, <2>1, SlotFields
  <2>4. /\ to \in Status
        /\ to \notin {"ON_HOLD", "DELIVERED", "CANCELLED"}
        /\ \A t \in DOMAIN seen : SoundTransition(t, seen[t], to)
    BY <1>b, <1>c, <2>1, SlotFields DEF TransitionsInFlight, SoundPlan
  <2>5. s \in Shipments /\ seen[s] \in Status
    BY <2>2, <2>3
  <2>6. /\ SnapshotKept
        /\ HeldCanResume'
        /\ ServiceRespected'
        /\ FinalStatusIsExplained'
        /\ AuditedStepIsLegal'
    BY <2>2, <2>4, <2>5, TransitionKeeps
  <2>7. CASE Finish(r)
    BY <1>2, <2>6, <2>7
  <2>8. ASSUME Continue(r, [request[r] EXCEPT
                              !.seen = [t \in DOMAIN seen \ {s} |-> seen[t]]])
        PROVE  StatusInv'
    <3> DEFINE left == [t \in DOMAIN seen \ {s} |-> seen[t]]
               plan == [request[r] EXCEPT !.seen = left]
    <3>1. plan.op = "bulk" /\ plan.to = to /\ plan.seen = left
      <4> HIDE DEF left
      <4>1. request[r] \in [op : {"bulk"},
                            seen : UNION {[i -> Status] : i \in SUBSET Shipments},
                            to : Status]
        BY <1>b, <2>1 DEF RequestState
      <4>2. QED
        BY <2>1, <4>1
    <3>2. PICK rest : rest = plan
      OBVIOUS
    <3>3. /\ rest.op = "bulk"
          /\ rest.to \notin {"ON_HOLD", "DELIVERED", "CANCELLED"}
      <4> HIDE DEF plan, left
      <4>1. QED
        BY <2>4, <3>1, <3>2
    <3>4. \A t \in DOMAIN rest.seen :
            t \in Shipments /\ SoundTransition(t, rest.seen[t], rest.to)
      <4>1. \A t \in DOMAIN left :
              t \in Shipments /\ SoundTransition(t, left[t], to)
        BY <2>3, <2>4
      <4> HIDE DEF plan, left
      <4>2. QED
        BY <3>1, <3>2, <4>1
    <3>5. \A t \in DOMAIN rest.seen : SoundTransition(t, rest.seen[t], rest.to)'
      BY <2>6, <3>4 DEF SoundTransition, SnapshotKept
    <3>6. request' = [request EXCEPT ![r] = rest]
      BY <2>8, <3>2 DEF Continue
    <3>7. SoundPlan(rest)'
      BY <3>3, <3>5 DEF SoundPlan
    <3>8. TransitionsInFlight'
      BY <1>c, <2>6, <3>6, <3>7, SlotsKept
    <3>9. QED
      BY <2>6, <3>8 DEF StatusInv
  <2>9. QED
    BY <2>2, <2>7, <2>8 DEF AfterRow
<1>21. ASSUME NEW s \in Shipments, NEW weight \in Weights, WeightRead(r, s, weight)
       PROVE  StatusInv'
  <2> DEFINE row == shipment[s]
             tariff == Recalculated(row, weight)
             plan == [op |-> "weight", shipment |-> s, status |-> row.status,
                      actualWeight |-> weight,
                      chargeableWeight |-> tariff.chargeableWeight,
                      totalAmount |-> tariff.total,
                      outstandingAmount |-> OutstandingAfter(row, tariff.total),
                      totalBefore |-> row.totalAmount]
  <2>1. SoundPlan(plan)
    BY DEF SoundPlan, StatusInv, ServiceRespected
  <2>2. Begin(r, plan) /\ UNCHANGED db
    BY <1>21 DEF WeightRead
  <2> HIDE DEF plan
  <2>3. QED
    BY <2>1, <2>2, ReadKeepsStatus
<1>22. CASE WeightWrite(r)
  <2> DEFINE plan == request[r]
             s == plan.shipment
             new == [shipment[s] EXCEPT
                       !.actualWeight = plan.actualWeight,
                       !.chargeableWeight = plan.chargeableWeight,
                       !.totalAmount = plan.totalAmount,
                       !.outstandingAmount = plan.outstandingAmount]
  <2>1. s \in Shipments
    BY <1>22, <1>b, SlotFields DEF WeightWrite
  <2>2. /\ new.serviceType = shipment[s].serviceType
        /\ new.rate = shipment[s].rate
        /\ new.status = shipment[s].status
        /\ new.previousStatus = shipment[s].previousStatus
        /\ new.deliveredTo = shipment[s].deliveredTo
        /\ new.cancelReason = shipment[s].cancelReason
    BY <1>a, <2>1 DEF ShipmentRow
  <2>3. /\ shipment' = [shipment EXCEPT ![s] = new]
        /\ AppendEvent(s, plan.status)
        /\ audit'.action = "SHIPMENT_WEIGHT_CORRECTED"
        /\ Finish(r)
    BY <1>22 DEF WeightWrite
  <2> HIDE DEF new
  <2>4. /\ shipment'[s] = new
        /\ \A t \in Shipments \ {s} : shipment'[t] = shipment[t]
    BY <2>1, <2>3 DEF TypeOK
  <2>5. SnapshotKept
    BY <2>2, <2>4 DEF SnapshotKept
  <2>6. HeldCanResume' /\ FinalStatusIsExplained' /\ AuditedStepIsLegal'
    BY <2>2, <2>3, <2>4
       DEF StatusInv, HeldCanResume, FinalStatusIsExplained, AuditedStepIsLegal
  <2>7. ServiceRespected'
    <3>1. isAllowedForService(plan.status, shipment[s].serviceType)
      BY <1>22, <1>c DEF WeightWrite, TransitionsInFlight, SoundPlan
    <3>2. /\ latestEvent'[s] = plan.status
          /\ \A t \in Shipments \ {s} : latestEvent'[t] = latestEvent[t]
      BY <2>1, <2>3 DEF TypeOK, AppendEvent
    <3>3. QED
      BY <2>2, <2>4, <3>1, <3>2 DEF StatusInv, ServiceRespected
  <2>8. QED
    BY <1>2, <2>3, <2>5, <2>6, <2>7
<1>23. CASE Fail(r)
  BY <1>3, <1>23 DEF Fail
<1>24. CASE Customer(r)
  BY <1>4, <1>5, <1>6, <1>7, <1>8, <1>9, <1>10, <1>24 DEF Customer
<1>25. CASE Cashier(r)
  BY <1>11, <1>12, <1>13, <1>14, <1>15, <1>16, <1>25 DEF Cashier
<1>26. CASE Operator(r)
  BY <1>17, <1>18, <1>19, <1>20, <1>21, <1>22, <1>26 DEF Operator
<1>27. QED
  BY <1>23, <1>24, <1>25, <1>26

\* A freshly booked shipment is neither held nor final, and nothing is in flight.
LEMMA StatusInit ==
  ASSUME Init
  PROVE  StatusInv
<1>1. \A s \in Shipments :
        /\ shipment[s].status = "PENDING_PAYMENT"
        /\ shipment[s].previousStatus = NULL
        /\ latestEvent[s] = "PENDING_PAYMENT"
  BY DEF Init, Booked
<1>2. \A r \in Requests : request[r] = Idle
  BY DEF Init
<1>3. audit.action = "NONE"
  BY DEF Init
<1>4. HeldCanResume /\ ServiceRespected /\ FinalStatusIsExplained
  BY <1>1 DEF HeldCanResume, ServiceRespected, FinalStatusIsExplained,
              isAllowedForService, NULL
<1>5. AuditedStepIsLegal
  BY <1>3 DEF AuditedStepIsLegal
<1>6. TransitionsInFlight
  BY <1>2 DEF TransitionsInFlight, SoundPlan, Idle
<1>7. QED
  BY <1>4, <1>5, <1>6 DEF StatusInv

\* The statuses stay coherent whatever requests overlap, as one invariant.
LEMMA StatusCorrect == Spec => [](TypeOK /\ StatusInv)
<1>1. Init => TypeOK /\ StatusInv
  BY InitType, StatusInit
<1>2. TypeOK /\ StatusInv /\ [Next]_vars => (TypeOK /\ StatusInv)'
  BY TypeStep, StatusStep
<1>3. QED
  BY <1>1, <1>2, PTL DEF Spec

\* A held shipment can always be resumed, however many admins change its status
\* from stale reads: ON_HOLD never comes with a previousStatus the status machine
\* would refuse to go back to (nextPreviousStatus, getAllowedTransitions).
THEOREM HeldCanAlwaysResume == Spec => []HeldCanResume
<1>1. StatusInv => HeldCanResume
  BY DEF StatusInv
<1>2. QED
  BY <1>1, StatusCorrect, PTL

\* A shipment never takes, keeps or shows the last mile of the other service,
\* although only the read, never the write, is checked (isAllowedForService).
THEOREM ServiceAlwaysRespected == Spec => []ServiceRespected
<1>1. StatusInv => ServiceRespected
  BY DEF StatusInv
<1>2. QED
  BY <1>1, StatusCorrect, PTL

\* A delivery always has a recipient's name and a cancellation a reason, whoever
\* wrote last (checkTransition, applyTransition, ShipmentsRepository.cancel).
THEOREM FinalStatusAlwaysExplained == Spec => []FinalStatusIsExplained
<1>1. StatusInv => FinalStatusIsExplained
  BY DEF StatusInv
<1>2. QED
  BY <1>1, StatusCorrect, PTL

\* The audit trail only ever shows transitions of STATUS_TRANSITIONS, from any
\* status but ON_HOLD (audit.record in applyTransition).
THEOREM AuditedStepAlwaysLegal == Spec => []AuditedStepIsLegal
<1>1. StatusInv => AuditedStepIsLegal
  BY DEF StatusInv
<1>2. QED
  BY <1>1, StatusCorrect, PTL

\* A status change that waits to be written fits the service of its shipment, holds
\* only what can be held, and explains the final status it asks for, whatever was
\* written to the row since it was checked (changeStatus, bulkChangeStatus,
\* correctWeight).
THEOREM TransitionsAlwaysSoundInFlight == Spec => []TransitionsInFlight
<1>1. StatusInv => TransitionsInFlight
  BY DEF StatusInv
<1>2. QED
  BY <1>1, StatusCorrect, PTL

-------------------------------------------------------------------------------
(* Payments and the bill stay coherent, whatever requests overlap.         *)

\* The inductive invariant of the money: what the tables say, and what the
\* requests in flight may still write into them.
MoneyInv ==
  /\ BillFollowsSnapshot
  /\ DebtNeedsVerification
  /\ ProofIsStored
  /\ PaymentsInFlight
  /\ CorrectionsInFlight

\* No payment is ever deleted, moved to another shipment or stripped of its stamp.
PaymentsGrow ==
  \A p \in DOMAIN payment :
    /\ p \in DOMAIN payment'
    /\ payment'[p].shipment = payment[p].shipment
    /\ payment[p].verified => payment'[p].verified

RatesKept == \A s \in Shipments : shipment'[s].rate = shipment[s].rate

\* A verdict in flight is about a payment of the shipment it will write to.
SoundVerdict(plan) ==
  plan.op \in {"count", "verify", "reject"} =>
    plan.payment \in PaymentsOf(plan.shipment)

\* A payment of a shipment remains one.
LEMMA PaymentsOfGrow ==
  ASSUME PaymentsGrow, NEW s
  PROVE  /\ PaymentsOf(s) \subseteq PaymentsOf(s)'
         /\ \A p \in PaymentsOf(s) : payment[p].verified => payment'[p].verified
BY DEF PaymentsGrow, PaymentsOf

\* A sound correction stays sound whatever the other requests write.
LEMMA CorrectionKept ==
  ASSUME RatesKept, PaymentsGrow, NEW plan \in RequestState, SoundCorrection(plan)
  PROVE  SoundCorrection(plan)'
<1>1. SUFFICES ASSUME plan.op = "weight"
               PROVE  SoundCorrection(plan)'
  BY DEF SoundCorrection
<1>2. plan.shipment \in Shipments
  BY <1>1, SlotFields
<1>3. shipment'[plan.shipment].rate = shipment[plan.shipment].rate
  BY <1>2 DEF RatesKept
<1>4. (\E p \in PaymentsOf(plan.shipment) : payment[p].verified) =>
        (\E p \in PaymentsOf(plan.shipment)' : payment'[p].verified)
  BY PaymentsOfGrow
<1>5. QED
  BY <1>1, <1>3, <1>4 DEF SoundCorrection

\* Replacing one slot by a sound correction, or none, keeps all corrections sound.
LEMMA CorrectionSlotsKept ==
  ASSUME TypeOK, CorrectionsInFlight, RatesKept, PaymentsGrow,
         NEW r \in Requests, NEW plan \in RequestState, SoundCorrection(plan),
         request' = [request EXCEPT ![r] = plan]
  PROVE  CorrectionsInFlight'
<1>1. ASSUME NEW q \in Requests
      PROVE  SoundCorrection(request[q])'
  <2>1. PICK kept : kept = request'[q]
    OBVIOUS
  <2>2. kept \in RequestState /\ SoundCorrection(kept)
    BY <2>1 DEF TypeOK, CorrectionsInFlight
  <2>3. SoundCorrection(kept)'
    BY <2>2, CorrectionKept
  <2>4. QED
    BY <2>1, <2>3 DEF SoundCorrection
<1>2. QED
  BY <1>1 DEF CorrectionsInFlight

\* The verdicts in flight stay sound when one slot is replaced by a sound verdict.
LEMMA VerdictSlotsKept ==
  ASSUME TypeOK, PaymentsInFlight, PaymentsGrow,
         NEW r \in Requests, NEW plan, SoundVerdict(plan),
         request' = [request EXCEPT ![r] = plan]
  PROVE  \A q \in Requests : SoundVerdict(request[q])'
<1>1. ASSUME NEW q \in Requests
      PROVE  SoundVerdict(request[q])'
  <2>1. PICK kept : kept = request'[q]
    OBVIOUS
  <2>2. kept = plan \/ kept = request[q]
    BY <2>1 DEF TypeOK
  <2>3. SoundVerdict(request[q])
    BY DEF PaymentsInFlight, SoundVerdict
  <2>4. SoundVerdict(kept)
    BY <2>2, <2>3
  <2>5. QED
    BY <2>1, <2>4, PaymentsOfGrow DEF SoundVerdict
<1>2. QED
  BY <1>1

\* The part of PaymentsInFlight about uploads.
UploadsInFlight ==
  \A r \in Requests :
    request[r].op = "upload" =>
      /\ request[r].payment \in stored \ DOMAIN payment
      /\ \A q \in Requests \ {r} :
           request[q].op = "upload" => request[q].payment # request[r].payment

\* The two parts of PaymentsInFlight, named.
LEMMA PaymentsInFlightParts ==
  PaymentsInFlight <=>
    UploadsInFlight /\ \A r \in Requests : SoundVerdict(request[r])
BY DEF PaymentsInFlight, UploadsInFlight, SoundVerdict

\* A step that leaves the columns of the money, the payments and the storage alone,
\* and then plans no upload but something sound, keeps the invariant.
LEMMA QuietKeepsMoney ==
  ASSUME TypeOK, MoneyInv, NEW r \in Requests, NEW plan \in RequestState,
         plan.op # "upload", SoundVerdict(plan), SoundCorrection(plan),
         request' = [request EXCEPT ![r] = plan],
         UNCHANGED <<payment, stored>>,
         \A s \in Shipments :
           /\ shipment'[s].rate = shipment[s].rate
           /\ shipment'[s].declaredWeight = shipment[s].declaredWeight
           /\ shipment'[s].actualWeight = shipment[s].actualWeight
           /\ shipment'[s].chargeableWeight = shipment[s].chargeableWeight
           /\ shipment'[s].totalAmount = shipment[s].totalAmount
           /\ shipment'[s].outstandingAmount = shipment[s].outstandingAmount
           /\ shipment'[s].paymentStatus = shipment[s].paymentStatus
  PROVE  MoneyInv'
<1>1. RatesKept /\ PaymentsGrow
  BY DEF RatesKept, PaymentsGrow
<1>2. BillFollowsSnapshot'
  BY DEF MoneyInv, BillFollowsSnapshot
<1>3. DebtNeedsVerification'
  BY DEF MoneyInv, DebtNeedsVerification, PaymentsOf
<1>4. ProofIsStored'
  BY DEF MoneyInv, ProofIsStored
<1>5. UploadsInFlight'
  <2>1. \A q \in Requests :
          request'[q].op = "upload" => q # r /\ request'[q] = request[q]
    BY DEF TypeOK
  <2>2. UploadsInFlight
    BY PaymentsInFlightParts DEF MoneyInv
  <2>3. QED
    BY <2>1, <2>2 DEF UploadsInFlight
<1>6. \A q \in Requests : SoundVerdict(request[q])'
  BY <1>1, VerdictSlotsKept DEF MoneyInv
<1>7. CorrectionsInFlight'
  BY <1>1, CorrectionSlotsKept DEF MoneyInv
<1>8. PaymentsInFlight'
  BY <1>5, <1>6 DEF PaymentsInFlight, UploadsInFlight, SoundVerdict
<1>9. QED
  BY <1>2, <1>3, <1>4, <1>7, <1>8 DEF MoneyInv

\* Storing a proof under a fresh key, for an upload to come.
LEMMA UploadSaveKeepsMoney ==
  ASSUME TypeOK, MoneyInv, NEW r \in Requests, NEW p \in Payments, UploadSave(r, p)
  PROVE  MoneyInv'
<1> DEFINE plan == [op |-> "upload", shipment |-> request[r].shipment,
                    payment |-> p]
<1>1. /\ p \notin stored
      /\ stored' = stored \cup {p}
      /\ UNCHANGED <<shipment, payment>>
      /\ request' = [request EXCEPT ![r] = plan]
  BY DEF UploadSave, Continue
<1>2. RatesKept /\ PaymentsGrow
  BY <1>1 DEF RatesKept, PaymentsGrow
<1>3. plan.op = "upload" /\ plan.payment = p
  OBVIOUS
<1>4. plan \in RequestState
  <2>1. request[r].shipment \in Shipments
    BY SlotFields DEF UploadSave, TypeOK
  <2>2. QED
    BY <2>1 DEF RequestState
<1> HIDE DEF plan
<1>5. SoundVerdict(plan) /\ SoundCorrection(plan)
  BY <1>3 DEF SoundVerdict, SoundCorrection
<1>6. BillFollowsSnapshot' /\ DebtNeedsVerification'
  BY <1>1 DEF MoneyInv, BillFollowsSnapshot, DebtNeedsVerification, PaymentsOf
<1>7. ProofIsStored'
  BY <1>1 DEF MoneyInv, ProofIsStored
<1>8. UploadsInFlight'
  <2>1. UploadsInFlight /\ DOMAIN payment \subseteq stored
    BY PaymentsInFlightParts DEF MoneyInv, ProofIsStored
  <2>2. request'[r] = plan /\ \A q \in Requests \ {r} : request'[q] = request[q]
    BY <1>1 DEF TypeOK
  <2>3. QED
    BY <1>1, <1>3, <2>1, <2>2 DEF UploadsInFlight
<1>9. \A q \in Requests : SoundVerdict(request[q])'
  BY <1>1, <1>2, <1>5, VerdictSlotsKept DEF MoneyInv
<1>10. CorrectionsInFlight'
  BY <1>1, <1>2, <1>4, <1>5, CorrectionSlotsKept DEF MoneyInv
<1>11. PaymentsInFlight'
  BY <1>8, <1>9 DEF PaymentsInFlight, UploadsInFlight, SoundVerdict
<1>12. QED
  BY <1>6, <1>7, <1>10, <1>11 DEF MoneyInv

\* Inserting the payment of a stored proof.
LEMMA UploadWriteKeepsMoney ==
  ASSUME TypeOK, MoneyInv, NEW r \in Requests, UploadWrite(r)
  PROVE  MoneyInv'
<1> DEFINE s == request[r].shipment
           p == request[r].payment
           new == [shipment |-> s, status |-> "WAITING_VERIFICATION",
                   verified |-> FALSE]
           row == [shipment[s] EXCEPT !.paymentStatus = "WAITING_VERIFICATION"]
<1>1. /\ request[r].op = "upload"
      /\ payment' = [q \in DOMAIN payment \cup {p} |->
                       IF q = p THEN new ELSE payment[q]]
      /\ shipment' = [shipment EXCEPT ![s] = row]
      /\ request' = [request EXCEPT ![r] = Idle]
      /\ stored' = stored
  BY DEF UploadWrite, Finish
<1>2. UploadsInFlight
  BY PaymentsInFlightParts DEF MoneyInv
<1>3. s \in Shipments /\ p \in stored \ DOMAIN payment
  BY <1>1, <1>2, SlotFields DEF TypeOK, UploadsInFlight
<1>4. /\ DOMAIN payment' = DOMAIN payment \cup {p}
      /\ \A q \in DOMAIN payment : payment'[q] = payment[q]
  <2> HIDE DEF new
  <2>1. QED
    BY <1>1, <1>3
<1>5. PaymentsGrow
  BY <1>4 DEF PaymentsGrow
<1>6. \A t \in Shipments :
        /\ shipment'[t].rate = shipment[t].rate
        /\ shipment'[t].declaredWeight = shipment[t].declaredWeight
        /\ shipment'[t].actualWeight = shipment[t].actualWeight
        /\ shipment'[t].chargeableWeight = shipment[t].chargeableWeight
        /\ shipment'[t].totalAmount = shipment[t].totalAmount
        /\ shipment'[t].outstandingAmount = shipment[t].outstandingAmount
        /\ shipment'[t].paymentStatus
             \in {shipment[t].paymentStatus, "WAITING_VERIFICATION"}
  <2>1. \A t \in Shipments : shipment[t] \in ShipmentRow
    BY DEF TypeOK
  <2>2. /\ row.rate = shipment[s].rate
        /\ row.declaredWeight = shipment[s].declaredWeight
        /\ row.actualWeight = shipment[s].actualWeight
        /\ row.chargeableWeight = shipment[s].chargeableWeight
        /\ row.totalAmount = shipment[s].totalAmount
        /\ row.outstandingAmount = shipment[s].outstandingAmount
        /\ row.paymentStatus = "WAITING_VERIFICATION"
    BY <1>3, <2>1 DEF ShipmentRow
  <2>3. shipment'[s] = row /\ \A t \in Shipments \ {s} : shipment'[t] = shipment[t]
    <3> HIDE DEF row
    <3>1. QED
      BY <1>1, <1>3 DEF TypeOK
  <2> HIDE DEF row
  <2>4. QED
    BY <2>2, <2>3
<1>7. BillFollowsSnapshot'
  BY <1>6 DEF MoneyInv, BillFollowsSnapshot
<1>8. DebtNeedsVerification'
  <2>1. ASSUME NEW t \in Shipments
        PROVE  \/ \E q \in PaymentsOf(t)' : payment'[q].verified
               \/ /\ shipment'[t].paymentStatus # "PAID"
                  /\ shipment'[t].outstandingAmount = shipment'[t].totalAmount
    <3>1. CASE \E q \in PaymentsOf(t) : payment[q].verified
      BY <1>5, <3>1, PaymentsOfGrow
    <3>2. CASE /\ shipment[t].paymentStatus # "PAID"
               /\ shipment[t].outstandingAmount = shipment[t].totalAmount
      BY <1>6, <3>2
    <3>3. QED
      BY <3>1, <3>2 DEF MoneyInv, DebtNeedsVerification
  <2>2. QED
    BY <2>1 DEF DebtNeedsVerification
<1>9. ProofIsStored'
  BY <1>1, <1>3, <1>4 DEF MoneyInv, ProofIsStored
<1>10. RatesKept
  BY <1>6 DEF RatesKept
<1>11. Idle \in RequestState /\ SoundVerdict(Idle) /\ SoundCorrection(Idle)
  BY DEF Idle, RequestState, SoundVerdict, SoundCorrection
<1>12. UploadsInFlight'
  <2>1. /\ request'[r] = Idle
        /\ \A q \in Requests \ {r} : request'[q] = request[q]
    BY <1>1 DEF TypeOK
  <2>2. \A q \in Requests \ {r} :
          request[q].op = "upload" => request[q].payment # p
    BY <1>1, <1>2 DEF UploadsInFlight
  <2>3. QED
    BY <1>1, <1>2, <1>4, <2>1, <2>2 DEF UploadsInFlight, Idle
<1>13. \A q \in Requests : SoundVerdict(request[q])'
  BY <1>1, <1>5, <1>11, VerdictSlotsKept DEF MoneyInv
<1>14. CorrectionsInFlight'
  BY <1>1, <1>5, <1>10, <1>11, CorrectionSlotsKept DEF MoneyInv
<1>15. PaymentsInFlight'
  BY <1>12, <1>13 DEF PaymentsInFlight, UploadsInFlight, SoundVerdict
<1>16. QED
  BY <1>7, <1>8, <1>9, <1>14, <1>15 DEF MoneyInv

\* Writing a verdict: the payment keeps its shipment and its stamp, the bill is left
\* alone, and a shipment is marked paid only with a stamped payment.
LEMMA VerdictKeepsMoney ==
  ASSUME TypeOK, MoneyInv, NEW r \in Requests,
         NEW s \in Shipments, NEW p \in PaymentsOf(s), NEW paid, NEW row,
         payment' = [payment EXCEPT ![p] = paid],
         paid.shipment = s,
         payment[p].verified => paid.verified,
         shipment' = [shipment EXCEPT ![s] = row],
         row.rate = shipment[s].rate,
         row.declaredWeight = shipment[s].declaredWeight,
         row.actualWeight = shipment[s].actualWeight,
         row.chargeableWeight = shipment[s].chargeableWeight,
         row.totalAmount = shipment[s].totalAmount,
         \/ paid.verified
         \/ /\ row.paymentStatus # "PAID"
            /\ row.outstandingAmount = shipment[s].outstandingAmount,
         Finish(r), UNCHANGED stored
  PROVE  MoneyInv'
<1>1. /\ shipment'[s] = row
      /\ \A t \in Shipments \ {s} : shipment'[t] = shipment[t]
  BY DEF TypeOK
<1>2. /\ DOMAIN payment' = DOMAIN payment
      /\ p \in DOMAIN payment /\ payment[p].shipment = s
      /\ payment'[p] = paid
      /\ \A q \in DOMAIN payment \ {p} : payment'[q] = payment[q]
  BY DEF TypeOK, PaymentsOf
<1>3. request' = [request EXCEPT ![r] = Idle]
  BY DEF Finish
<1>4. PaymentsGrow
  BY <1>2 DEF PaymentsGrow
<1>5. RatesKept
  BY <1>1 DEF RatesKept
<1>6. BillFollowsSnapshot'
  BY <1>1 DEF MoneyInv, BillFollowsSnapshot
<1>7. DebtNeedsVerification'
  <2>1. ASSUME NEW t \in Shipments
        PROVE  \/ \E q \in PaymentsOf(t)' : payment'[q].verified
               \/ /\ shipment'[t].paymentStatus # "PAID"
                  /\ shipment'[t].outstandingAmount = shipment'[t].totalAmount
    <3>1. CASE \E q \in PaymentsOf(t) : payment[q].verified
      BY <1>4, <3>1, PaymentsOfGrow
    <3>2. CASE t = s /\ paid.verified
      <4>1. p \in PaymentsOf(s)' /\ payment'[p].verified
        BY <1>2, <3>2 DEF PaymentsOf
      <4>2. QED
        BY <3>2, <4>1
    <3>3. CASE /\ shipment[t].paymentStatus # "PAID"
               /\ shipment[t].outstandingAmount = shipment[t].totalAmount
               /\ t = s => ~ paid.verified
      BY <1>1, <3>3
    <3>4. QED
      BY <3>1, <3>2, <3>3 DEF MoneyInv, DebtNeedsVerification
  <2>2. QED
    BY <2>1 DEF DebtNeedsVerification
<1>8. ProofIsStored'
  BY <1>2 DEF MoneyInv, ProofIsStored
<1>9. Idle \in RequestState /\ SoundVerdict(Idle) /\ SoundCorrection(Idle)
  BY DEF Idle, RequestState, SoundVerdict, SoundCorrection
<1>10. UploadsInFlight'
  <2>1. \A q \in Requests :
          request'[q].op = "upload" => q # r /\ request'[q] = request[q]
    BY <1>3 DEF TypeOK, Idle
  <2>2. UploadsInFlight
    BY PaymentsInFlightParts DEF MoneyInv
  <2>3. QED
    BY <1>2, <2>1, <2>2 DEF UploadsInFlight
<1>11. \A q \in Requests : SoundVerdict(request[q])'
  BY <1>3, <1>4, <1>9, VerdictSlotsKept DEF MoneyInv
<1>12. CorrectionsInFlight'
  BY <1>3, <1>4, <1>5, <1>9, CorrectionSlotsKept DEF MoneyInv
<1>13. PaymentsInFlight'
  BY <1>10, <1>11 DEF PaymentsInFlight, UploadsInFlight, SoundVerdict
<1>14. QED
  BY <1>6, <1>7, <1>8, <1>12, <1>13 DEF MoneyInv

\* Writing a correction: bill and weight come from one and the same plan.
LEMMA WeightWriteKeepsMoney ==
  ASSUME TypeOK, MoneyInv, NEW r \in Requests, WeightWrite(r)
  PROVE  MoneyInv'
<1> DEFINE plan == request[r]
           s == plan.shipment
           row == [shipment[s] EXCEPT
                     !.actualWeight = plan.actualWeight,
                     !.chargeableWeight = plan.chargeableWeight,
                     !.totalAmount = plan.totalAmount,
                     !.outstandingAmount = plan.outstandingAmount]
<1>1. /\ plan.op = "weight"
      /\ shipment' = [shipment EXCEPT ![s] = row]
      /\ request' = [request EXCEPT ![r] = Idle]
      /\ UNCHANGED <<payment, stored>>
  BY DEF WeightWrite, Finish
<1>2. s \in Shipments /\ plan.actualWeight \in BookableWeights
  BY <1>1, SlotFields DEF TypeOK
<1>3. plan.actualWeight # 0
  BY <1>2 DEF BookableWeights
<1>4. /\ plan.chargeableWeight =
           calculateTariff(plan.actualWeight, shipment[s].rate).chargeableWeight
      /\ plan.totalAmount = calculateTariff(plan.actualWeight, shipment[s].rate).total
      /\ \/ \E p \in PaymentsOf(s) : payment[p].verified
         \/ plan.outstandingAmount = plan.totalAmount
  BY <1>1 DEF MoneyInv, CorrectionsInFlight, SoundCorrection
<1>5. /\ row.rate = shipment[s].rate
      /\ row.declaredWeight = shipment[s].declaredWeight
      /\ row.actualWeight = plan.actualWeight
      /\ row.chargeableWeight = plan.chargeableWeight
      /\ row.totalAmount = plan.totalAmount
      /\ row.outstandingAmount = plan.outstandingAmount
      /\ row.paymentStatus = shipment[s].paymentStatus
  <2>1. shipment[s] \in ShipmentRow
    BY <1>2 DEF TypeOK
  <2>2. QED
    BY <2>1 DEF ShipmentRow
<1> HIDE DEF row
<1>6. shipment'[s] = row /\ \A t \in Shipments \ {s} : shipment'[t] = shipment[t]
  BY <1>1, <1>2 DEF TypeOK
<1>7. RatesKept /\ PaymentsGrow
  BY <1>1, <1>5, <1>6 DEF RatesKept, PaymentsGrow
<1>8. BillFollowsSnapshot'
  BY <1>3, <1>4, <1>5, <1>6 DEF MoneyInv, BillFollowsSnapshot
<1>9. DebtNeedsVerification'
  BY <1>1, <1>4, <1>5, <1>6 DEF MoneyInv, DebtNeedsVerification, PaymentsOf
<1>10. ProofIsStored'
  BY <1>1 DEF MoneyInv, ProofIsStored
<1>11. Idle \in RequestState /\ SoundVerdict(Idle) /\ SoundCorrection(Idle)
  BY DEF Idle, RequestState, SoundVerdict, SoundCorrection
<1>12. UploadsInFlight'
  <2>1. \A q \in Requests :
          request'[q].op = "upload" => q # r /\ request'[q] = request[q]
    BY <1>1 DEF TypeOK, Idle
  <2>2. UploadsInFlight
    BY PaymentsInFlightParts DEF MoneyInv
  <2>3. QED
    BY <1>1, <2>1, <2>2 DEF UploadsInFlight
<1>13. \A q \in Requests : SoundVerdict(request[q])'
  BY <1>1, <1>7, <1>11, VerdictSlotsKept DEF MoneyInv
<1>14. CorrectionsInFlight'
  BY <1>1, <1>7, <1>11, CorrectionSlotsKept DEF MoneyInv
<1>15. PaymentsInFlight'
  BY <1>12, <1>13 DEF PaymentsInFlight, UploadsInFlight, SoundVerdict
<1>16. QED
  BY <1>8, <1>9, <1>10, <1>14, <1>15 DEF MoneyInv

\* The columns of the money in two rows are the same.
SameMoney(a, b) ==
  /\ a.rate = b.rate
  /\ a.declaredWeight = b.declaredWeight
  /\ a.actualWeight = b.actualWeight
  /\ a.chargeableWeight = b.chargeableWeight
  /\ a.totalAmount = b.totalAmount
  /\ a.outstandingAmount = b.outstandingAmount
  /\ a.paymentStatus = b.paymentStatus

\* Writing one row with the same money leaves the money of all rows alone.
LEMMA SameMoneyEverywhere ==
  ASSUME TypeOK, NEW s \in Shipments, NEW row, SameMoney(row, shipment[s]),
         shipment' = [shipment EXCEPT ![s] = row]
  PROVE  \A t \in Shipments : SameMoney(shipment'[t], shipment[t])
<1>1. shipment'[s] = row /\ \A t \in Shipments \ {s} : shipment'[t] = shipment[t]
  BY DEF TypeOK
<1>2. QED
  BY <1>1 DEF SameMoney

\* A status change leaves the money alone.
LEMMA TransitionSameMoney ==
  ASSUME TypeOK, NEW s \in Shipments, NEW from, NEW to,
         NEW deliveredTo, NEW cancelReason,
         ApplyTransition(s, from, to, deliveredTo, cancelReason)
  PROVE  \A t \in Shipments : SameMoney(shipment'[t], shipment[t])
<1> DEFINE previous == nextPreviousStatus(from, to, shipment[s].previousStatus)
           delivered == IF to = "DELIVERED" THEN deliveredTo
                                            ELSE shipment[s].deliveredTo
           explained == IF to = "CANCELLED" THEN cancelReason
                                            ELSE shipment[s].cancelReason
           row == [shipment[s] EXCEPT !.status = to, !.previousStatus = previous,
                                      !.deliveredTo = delivered,
                                      !.cancelReason = explained]
<1>1. shipment' = [shipment EXCEPT ![s] = row]
  BY DEF ApplyTransition
<1>2. shipment[s] \in ShipmentRow
  BY DEF TypeOK
<1>3. SameMoney(row, shipment[s])
  <2> HIDE DEF previous, delivered, explained
  <2>1. QED
    BY <1>2 DEF ShipmentRow, SameMoney
<1> HIDE DEF row
<1>4. QED
  BY <1>1, <1>3, SameMoneyEverywhere

\* Every action keeps the invariant of the money.
LEMMA MoneyStep ==
  ASSUME TypeOK, TypeOK', MoneyInv, [Next]_vars
  PROVE  MoneyInv'
<1>1. CASE UNCHANGED vars
  BY <1>1 DEF vars, MoneyInv, BillFollowsSnapshot, DebtNeedsVerification,
              ProofIsStored, PaymentsInFlight, CorrectionsInFlight,
              SoundCorrection, PaymentsOf
<1> SUFFICES ASSUME NEW r \in Requests,
                    Customer(r) \/ Cashier(r) \/ Operator(r) \/ Fail(r)
             PROVE  MoneyInv'
  BY <1>1 DEF Next
<1>a. request[r] \in RequestState
  BY DEF TypeOK
<1>b. \A s \in Shipments : shipment[s] \in ShipmentRow
  BY DEF TypeOK
<1>2. ASSUME NEW plan, request' = [request EXCEPT ![r] = plan],
             plan.op # "upload", SoundVerdict(plan), SoundCorrection(plan),
             UNCHANGED <<payment, stored>>,
             \A s \in Shipments : SameMoney(shipment'[s], shipment[s])
      PROVE  MoneyInv'
  <2>1. plan \in RequestState
    BY <1>2 DEF TypeOK
  <2>2. QED
    BY <1>2, <2>1, QuietKeepsMoney DEF SameMoney
<1>3. ASSUME NEW plan, Begin(r, plan), plan.op # "upload",
             SoundVerdict(plan), SoundCorrection(plan), UNCHANGED db
      PROVE  MoneyInv'
  BY <1>2, <1>3 DEF Begin, db, SameMoney
<1>4. ASSUME Finish(r), UNCHANGED <<payment, stored>>,
             \A s \in Shipments : SameMoney(shipment'[s], shipment[s])
      PROVE  MoneyInv'
  <2>1. SoundVerdict(Idle) /\ SoundCorrection(Idle) /\ Idle.op # "upload"
    BY DEF Idle, SoundVerdict, SoundCorrection
  <2>2. QED
    BY <1>2, <1>4, <2>1 DEF Finish
<1>5. ASSUME NEW s \in Shipments, CancelRead(r, s)
      PROVE  MoneyInv'
  BY <1>3, <1>5 DEF CancelRead, SoundVerdict, SoundCorrection
<1>6. CASE CancelWrite(r)
  <2> DEFINE s == request[r].shipment
             row == [shipment[s] EXCEPT !.status = "CANCELLED",
                                        !.cancelReason = TRUE]
  <2>1. s \in Shipments
    BY <1>6, <1>a, SlotFields DEF CancelWrite
  <2>2. SameMoney(row, shipment[s])
    BY <1>b, <2>1 DEF SameMoney, ShipmentRow
  <2>3. /\ shipment' = [shipment EXCEPT ![s] = row]
        /\ Finish(r) /\ UNCHANGED <<payment, stored>>
    BY <1>6 DEF CancelWrite
  <2> HIDE DEF row
  <2>4. QED
    BY <1>4, <2>1, <2>2, <2>3, SameMoneyEverywhere
<1>7. ASSUME NEW s \in Shipments, NEW recipient \in Recipients,
             UpdateRead(r, s, recipient)
      PROVE  MoneyInv'
  BY <1>3, <1>7 DEF UpdateRead, SoundVerdict, SoundCorrection
<1>8. CASE UpdateWrite(r)
  <2> DEFINE s == request[r].shipment
             row == [shipment[s] EXCEPT !.recipient = request[r].recipient]
  <2>1. s \in Shipments
    BY <1>8, <1>a, SlotFields DEF UpdateWrite
  <2>2. SameMoney(row, shipment[s])
    BY <1>b, <2>1 DEF SameMoney, ShipmentRow
  <2>3. /\ shipment' = [shipment EXCEPT ![s] = row]
        /\ Finish(r) /\ UNCHANGED <<payment, stored>>
    BY <1>8 DEF UpdateWrite
  <2> HIDE DEF row
  <2>4. QED
    BY <1>4, <2>1, <2>2, <2>3, SameMoneyEverywhere
<1>9. ASSUME NEW s \in Shipments, UploadRead(r, s)
      PROVE  MoneyInv'
  BY <1>3, <1>9 DEF UploadRead, SoundVerdict, SoundCorrection
<1>10. ASSUME NEW p \in Payments, UploadSave(r, p)
       PROVE  MoneyInv'
  BY <1>10, UploadSaveKeepsMoney
<1>11. CASE UploadWrite(r)
  BY <1>11, UploadWriteKeepsMoney
<1>12. ASSUME NEW p \in Payments, VerifyRead(r, p)
       PROVE  MoneyInv'
  <2>1. p \in PaymentsOf(payment[p].shipment)
    BY <1>12 DEF VerifyRead, PaymentsOf
  <2> DEFINE s == payment[p].shipment
             plan == [op |-> "count", payment |-> p, shipment |-> s,
                      before |-> payment[p].status,
                      appendPaidEvent |-> shipment[s].status = "PENDING_PAYMENT"]
  <2>2. SoundVerdict(plan) /\ SoundCorrection(plan) /\ plan.op # "upload"
    BY <2>1 DEF SoundVerdict, SoundCorrection
  <2>3. Begin(r, plan) /\ UNCHANGED db
    BY <1>12 DEF VerifyRead
  <2> HIDE DEF plan
  <2>4. QED
    BY <1>3, <2>2, <2>3
<1>13. CASE VerifyCount(r)
  <2> DEFINE plan == [request[r] EXCEPT !.op = "verify"]
  <2>1. /\ plan.op = "verify"
        /\ plan.payment = request[r].payment
        /\ plan.shipment = request[r].shipment
    BY <1>13, <1>a DEF VerifyCount, RequestState
  <2>2. SoundVerdict(request[r])
    BY PaymentsInFlightParts DEF MoneyInv
  <2>3. /\ request' = [request EXCEPT ![r] = plan]
        /\ UNCHANGED db
        /\ request[r].op = "count"
    BY <1>13 DEF VerifyCount, Continue
  <2> HIDE DEF plan
  <2>4. SoundVerdict(plan) /\ SoundCorrection(plan)
    BY <2>1, <2>2, <2>3 DEF SoundVerdict, SoundCorrection
  <2>5. QED
    BY <1>2, <2>1, <2>3, <2>4 DEF db, SameMoney
<1>14. CASE VerifyRefuse(r)
  BY <1>4, <1>14 DEF VerifyRefuse, db, SameMoney
<1>15. CASE VerifyWrite(r)
  <2> DEFINE s == request[r].shipment
             p == request[r].payment
             settled == [shipment[s] EXCEPT !.paymentStatus = "PAID",
                                            !.outstandingAmount = 0]
             moved == [settled EXCEPT !.status = "PAID"]
  <2>1. s \in Shipments /\ p \in PaymentsOf(s)
    BY <1>15, <1>a, SlotFields, PaymentsInFlightParts
       DEF VerifyWrite, MoneyInv, SoundVerdict
  <2>2. payment[p] \in PaymentRow /\ payment[p].shipment = s
    BY <2>1 DEF TypeOK, PaymentsOf
  <2>3. Verified(payment[p]).verified /\ Verified(payment[p]).shipment = s
    BY <2>2 DEF Verified, PaymentRow
  <2>4. ASSUME NEW row \in {settled, moved}
        PROVE  /\ row.rate = shipment[s].rate
               /\ row.declaredWeight = shipment[s].declaredWeight
               /\ row.actualWeight = shipment[s].actualWeight
               /\ row.chargeableWeight = shipment[s].chargeableWeight
               /\ row.totalAmount = shipment[s].totalAmount
    BY <1>b, <2>1 DEF ShipmentRow
  <2>5. /\ payment' = [payment EXCEPT ![p] = Verified(payment[p])]
        /\ \/ shipment' = [shipment EXCEPT ![s] = moved]
           \/ shipment' = [shipment EXCEPT ![s] = settled]
        /\ Finish(r) /\ UNCHANGED stored
    BY <1>15 DEF VerifyWrite
  <2>6. PICK row \in {settled, moved} : shipment' = [shipment EXCEPT ![s] = row]
    BY <2>5
  <2> HIDE DEF settled, moved
  <2>7. QED
    BY <2>1, <2>3, <2>4, <2>5, <2>6, VerdictKeepsMoney
<1>16. ASSUME NEW p \in Payments, RejectRead(r, p)
       PROVE  MoneyInv'
  <2>1. p \in PaymentsOf(payment[p].shipment)
    BY <1>16 DEF RejectRead, PaymentsOf
  <2> DEFINE plan == [op |-> "reject", payment |-> p,
                      shipment |-> payment[p].shipment,
                      before |-> payment[p].status]
  <2>2. SoundVerdict(plan) /\ SoundCorrection(plan) /\ plan.op # "upload"
    BY <2>1 DEF SoundVerdict, SoundCorrection
  <2>3. Begin(r, plan) /\ UNCHANGED db
    BY <1>16 DEF RejectRead
  <2> HIDE DEF plan
  <2>4. QED
    BY <1>3, <2>2, <2>3
<1>17. CASE RejectWrite(r)
  <2> DEFINE s == request[r].shipment
             p == request[r].payment
             rejected == [payment[p] EXCEPT !.status = "REJECTED"]
             row == [shipment[s] EXCEPT !.paymentStatus = "UNPAID"]
  <2>1. s \in Shipments /\ p \in PaymentsOf(s)
    BY <1>17, <1>a, SlotFields, PaymentsInFlightParts
       DEF RejectWrite, MoneyInv, SoundVerdict
  <2>2. payment[p] \in PaymentRow /\ payment[p].shipment = s
    BY <2>1 DEF TypeOK, PaymentsOf
  <2>3. rejected.verified = payment[p].verified /\ rejected.shipment = s
    BY <2>2 DEF PaymentRow
  <2>4. /\ row.rate = shipment[s].rate
        /\ row.declaredWeight = shipment[s].declaredWeight
        /\ row.actualWeight = shipment[s].actualWeight
        /\ row.chargeableWeight = shipment[s].chargeableWeight
        /\ row.totalAmount = shipment[s].totalAmount
        /\ row.outstandingAmount = shipment[s].outstandingAmount
        /\ row.paymentStatus # "PAID"
    BY <1>b, <2>1 DEF ShipmentRow
  <2>5. /\ payment' = [payment EXCEPT ![p] = rejected]
        /\ shipment' = [shipment EXCEPT ![s] = row]
        /\ Finish(r) /\ UNCHANGED stored
    BY <1>17 DEF RejectWrite
  <2> HIDE DEF rejected, row
  <2>6. QED
    BY <2>1, <2>3, <2>4, <2>5, VerdictKeepsMoney
<1>18. ASSUME NEW s \in Shipments, NEW next \in RequestedStatus,
              NEW deliveredTo \in BOOLEAN, NEW reason \in BOOLEAN,
              StatusRead(r, s, next, deliveredTo, reason)
       PROVE  MoneyInv'
  <2> DEFINE plan == [op |-> "status", shipment |-> s,
                      from |-> shipment[s].status, to |-> next,
                      deliveredTo |-> next = "DELIVERED" /\ deliveredTo,
                      cancelReason |-> next = "CANCELLED" /\ reason]
  <2>1. SoundVerdict(plan) /\ SoundCorrection(plan) /\ plan.op # "upload"
    BY DEF SoundVerdict, SoundCorrection
  <2>2. Begin(r, plan) /\ UNCHANGED db
    BY <1>18 DEF StatusRead
  <2> HIDE DEF plan
  <2>3. QED
    BY <1>3, <2>1, <2>2
<1>19. CASE StatusWrite(r)
  <2>1. request[r].shipment \in Shipments
    BY <1>19, <1>a, SlotFields DEF StatusWrite
  <2>2. \A s \in Shipments : SameMoney(shipment'[s], shipment[s])
    BY <1>19, <2>1, TransitionSameMoney DEF StatusWrite
  <2>3. QED
    BY <1>4, <1>19, <2>2 DEF StatusWrite
<1>20. ASSUME NEW ids \in SUBSET Shipments, NEW next \in RequestedStatus,
              BulkRead(r, ids, next)
       PROVE  MoneyInv'
  <2> DEFINE passing ==
               {s \in ids : checkTransition(next, shipment[s].status,
                              shipment[s].serviceType, shipment[s].previousStatus,
                              FALSE, FALSE)}
             plan == [op |-> "bulk", to |-> next,
                      seen |-> [s \in passing |-> shipment[s].status]]
  <2>1. SoundVerdict(plan) /\ SoundCorrection(plan) /\ plan.op # "upload"
    BY DEF SoundVerdict, SoundCorrection
  <2>2. Begin(r, plan) /\ UNCHANGED db
    BY <1>20 DEF BulkRead
  <2> HIDE DEF plan
  <2>3. QED
    BY <1>3, <2>1, <2>2
<1>21. CASE BulkWrite(r)
  <2>1. request[r].op = "bulk" /\ UNCHANGED <<payment, stored>>
    BY <1>21 DEF BulkWrite
  <2>2. PICK s \in DOMAIN request[r].seen :
          /\ ApplyTransition(s, request[r].seen[s], request[r].to, FALSE, FALSE)
          /\ AfterRow(r, s)
    BY <1>21 DEF BulkWrite
  <2>3. s \in Shipments
    BY <1>a, <2>1, <2>2, SlotFields
  <2>4. \A t \in Shipments : SameMoney(shipment'[t], shipment[t])
    BY <2>2, <2>3, TransitionSameMoney
  <2> DEFINE rest == DOMAIN request[r].seen \ {s}
             left == [t \in rest |-> request[r].seen[t]]
             plan == [request[r] EXCEPT !.seen = left]
  <2>5. plan.op = "bulk"
    <3> HIDE DEF left
    <3>1. request[r] \in [op : {"bulk"},
                          seen : UNION {[i -> Status] : i \in SUBSET Shipments},
                          to : Status]
      BY <1>a, <2>1 DEF RequestState
    <3>2. QED
      BY <2>1, <3>1
  <2>6. Finish(r) \/ request' = [request EXCEPT ![r] = plan]
    BY <2>2 DEF AfterRow, Continue
  <2> HIDE DEF plan
  <2>7. SoundVerdict(plan) /\ SoundCorrection(plan)
    BY <2>5 DEF SoundVerdict, SoundCorrection
  <2>8. QED
    BY <1>2, <1>4, <2>1, <2>4, <2>5, <2>6, <2>7
<1>22. ASSUME NEW s \in Shipments, NEW weight \in Weights, WeightRead(r, s, weight)
       PROVE  MoneyInv'
  <2> DEFINE row == shipment[s]
             tariff == Recalculated(row, weight)
             plan == [op |-> "weight", shipment |-> s, status |-> row.status,
                      actualWeight |-> weight,
                      chargeableWeight |-> tariff.chargeableWeight,
                      totalAmount |-> tariff.total,
                      outstandingAmount |-> OutstandingAfter(row, tariff.total),
                      totalBefore |-> row.totalAmount]
  <2>1. \/ \E p \in PaymentsOf(s) : payment[p].verified
        \/ plan.outstandingAmount = plan.totalAmount
    BY DEF MoneyInv, DebtNeedsVerification, OutstandingAfter
  <2>2. SoundCorrection(plan)
    BY <2>1 DEF SoundCorrection, Recalculated
  <2>3. SoundVerdict(plan) /\ plan.op # "upload"
    BY DEF SoundVerdict
  <2>4. Begin(r, plan) /\ UNCHANGED db
    BY <1>22 DEF WeightRead
  <2> HIDE DEF plan
  <2>5. QED
    BY <1>3, <2>2, <2>3, <2>4
<1>23. CASE WeightWrite(r)
  BY <1>23, WeightWriteKeepsMoney
<1>24. CASE Fail(r)
  BY <1>4, <1>24 DEF Fail, db, SameMoney
<1>25. CASE Customer(r)
  BY <1>5, <1>6, <1>7, <1>8, <1>9, <1>10, <1>11, <1>25 DEF Customer
<1>26. CASE Cashier(r)
  BY <1>12, <1>13, <1>14, <1>15, <1>16, <1>17, <1>26 DEF Cashier
<1>27. CASE Operator(r)
  BY <1>18, <1>19, <1>20, <1>21, <1>22, <1>23, <1>27 DEF Operator
<1>28. QED
  BY <1>24, <1>25, <1>26, <1>27

\* A freshly booked shipment owes its whole bill, and there are no payments.
LEMMA MoneyInit ==
  ASSUME Init
  PROVE  MoneyInv
<1>1. PICK service \in [Shipments -> ServiceType], rate \in [Shipments -> Rates],
           weight \in [Shipments -> BookableWeights],
           recipient \in [Shipments -> Recipients] :
        shipment = [s \in Shipments |->
                      Booked(service[s], rate[s], weight[s], recipient[s])]
  BY DEF Init
<1>2. \A s \in Shipments :
        /\ shipment[s].rate = rate[s]
        /\ shipment[s].declaredWeight = weight[s]
        /\ shipment[s].actualWeight = 0
        /\ shipment[s].chargeableWeight =
             calculateTariff(weight[s], rate[s]).chargeableWeight
        /\ shipment[s].totalAmount = calculateTariff(weight[s], rate[s]).total
        /\ shipment[s].outstandingAmount = shipment[s].totalAmount
        /\ shipment[s].paymentStatus = "UNPAID"
  BY <1>1 DEF Booked
<1>3. BillFollowsSnapshot /\ DebtNeedsVerification
  BY <1>2 DEF BillFollowsSnapshot, DebtNeedsVerification
<1>4. \A r \in Requests : request[r] = Idle
  BY DEF Init
<1>5. ProofIsStored
  BY DEF Init, ProofIsStored
<1>6. PaymentsInFlight /\ CorrectionsInFlight
  BY <1>4 DEF PaymentsInFlight, CorrectionsInFlight, SoundCorrection, Idle
<1>7. QED
  BY <1>3, <1>5, <1>6 DEF MoneyInv

\* The money stays coherent whatever requests overlap, as one invariant.
LEMMA MoneyCorrect == Spec => [](TypeOK /\ MoneyInv)
<1>1. Init => TypeOK /\ MoneyInv
  BY InitType, MoneyInit
<1>2. TypeOK /\ MoneyInv /\ [Next]_vars => (TypeOK /\ MoneyInv)'
  BY TypeStep, MoneyStep
<1>3. QED
  BY <1>1, <1>2, PTL DEF Spec

\* The bill on record is always the tariff of the weight on record at the rate of
\* the day of booking, however many corrections overlap (correctWeight).
THEOREM BillAlwaysFollowsSnapshot == Spec => []BillFollowsSnapshot
<1>1. MoneyInv => BillFollowsSnapshot
  BY DEF MoneyInv
<1>2. QED
  BY <1>1, MoneyCorrect, PTL

\* Nobody is ever let off a debt without a payment that an admin verified, whatever
\* rejections, corrections and further uploads overlap with it (verify, reject,
\* uploadProof, correctWeight).
THEOREM DebtAlwaysNeedsVerification == Spec => []DebtNeedsVerification
<1>1. MoneyInv => DebtNeedsVerification
  BY DEF MoneyInv
<1>2. QED
  BY <1>1, MoneyCorrect, PTL

\* Every payment can be shown its proof, although the file and the row are written
\* by two systems and either may fail (uploadProof, StorageService.save).
THEOREM ProofAlwaysStored == Spec => []ProofIsStored
<1>1. MoneyInv => ProofIsStored
  BY DEF MoneyInv
<1>2. QED
  BY <1>1, MoneyCorrect, PTL

\* No two uploads in flight share a proof and every verdict in flight is still about
\* a payment of its shipment, whatever is written meanwhile (uploadProof, verify,
\* reject).
THEOREM PaymentsAlwaysSoundInFlight == Spec => []PaymentsInFlight
<1>1. MoneyInv => PaymentsInFlight
  BY DEF MoneyInv
<1>2. QED
  BY <1>1, MoneyCorrect, PTL
===============================================================================
