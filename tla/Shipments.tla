------------------------------ MODULE Shipments -------------------------------
(***************************************************************************)
(* Shipments and their payments after booking: what customers and admins   *)
(* do to one row of "shipments", its rows of "payments", its timeline and  *)
(* the audit trail.  Sources: src/src/shipments and src/src/payments.      *)
(*                                                                         *)
(* Every handler has the same shape.  It reads rows (an await), checks     *)
(* them and works out what to write, and then writes in one transaction    *)
(* (another await) that locks nothing and re-reads nothing.  So a handler  *)
(* is two actions or more: a ...Read action, which leaves in the request's *)
(* slot what the transaction will write, and a ...Write action, which      *)
(* commits it.  Anything may happen in between.  A request the checks      *)
(* refuse changes nothing and is a stuttering step, save where it is       *)
(* refused after having taken a slot (VerifyRefuse).                       *)
(***************************************************************************)
EXTENDS FreshShipment, FiniteSets

CONSTANTS
  Shipments,          \* the booked shipments
  Payments,           \* ids of payment records (and of their stored proofs)
  Requests,           \* slots of requests in flight
  Rates,              \* rates a shipment may have been booked at
  Weights,            \* weights a request may carry, in tenths of a kilogram
  Recipients,         \* recipient data a request may carry
  RequestedStatus,    \* statuses an admin asks for
  Operations          \* the operations that users perform

ASSUME RatesAssumption == Rates \subseteq Rate
ASSUME WeightsAssumption == Weights \subseteq Int
ASSUME RequestedStatusAssumption == RequestedStatus \subseteq Status

VARIABLES
  shipment,           \* table shipments
  payment,            \* table payments (its domain: the ids that exist)
  stored,             \* proofs in the file storage
  latestEvent,        \* status of the newest row of shipment_events
  audit,              \* the newest row of audit_logs
  request             \* what each slot is about to do

db   == <<shipment, payment, stored, latestEvent, audit>>
vars == <<shipment, payment, stored, latestEvent, audit, request>>

-------------------------------------------------------------------------------
(* The tables.                                                             *)

ShipmentPaymentStatus == {"UNPAID", "WAITING_VERIFICATION", "PAID"}
PaymentRecordStatus   == {"WAITING_VERIFICATION", "VERIFIED", "REJECTED"}

BookableWeights == {weight \in Weights : weight > 0 /\ weight <= MAX_WEIGHT}

\* actualWeight 0 is the null of that column: no request may write 0.
ShipmentRow ==
  [serviceType : ServiceType, rate : Rates, recipient : Recipients,
   declaredWeight : BookableWeights, actualWeight : BookableWeights \cup {0},
   chargeableWeight : Nat, totalAmount : Nat, outstandingAmount : Nat,
   status : Status, previousStatus : Status \cup {NULL},
   paymentStatus : ShipmentPaymentStatus,
   deliveredTo : BOOLEAN, cancelReason : BOOLEAN]

\* verified: whether verifiedAt is filled in.
PaymentRow ==
  [shipment : Shipments, status : PaymentRecordStatus, verified : BOOLEAN]

AuditRow ==
  [action : {"NONE"}]
    \cup [action : {"SHIPMENT_STATUS_CHANGED"}, entity : Shipments,
          before : Status, after : Status]
    \cup [action : {"SHIPMENT_WEIGHT_CORRECTED"}, entity : Shipments,
          totalBefore : Nat, totalAfter : Nat]
    \cup [action : {"PAYMENT_VERIFIED", "PAYMENT_REJECTED"}, entity : Payments,
          before : PaymentRecordStatus, after : PaymentRecordStatus]

\* A bug: the status changes and the timeline is forgotten.
AppendEvent_Dropped(s, status) == UNCHANGED latestEvent

\* One new row of shipment_events.
AppendEvent(s, status) == latestEvent' = [latestEvent EXCEPT ![s] = status]

PaymentsOf(s) == {p \in DOMAIN payment : payment[p].shipment = s}

-------------------------------------------------------------------------------
(* Requests in flight: what each one will do next.                         *)

Idle == [op |-> "idle"]

RequestState ==
  [op : {"idle"}]
    \cup [op : {"cancel", "save"}, shipment : Shipments]
    \cup [op : {"update"}, shipment : Shipments, recipient : Recipients]
    \cup [op : {"upload"}, shipment : Shipments, payment : Payments]
    \cup [op : {"count", "verify"}, payment : Payments, shipment : Shipments,
          before : PaymentRecordStatus, appendPaidEvent : BOOLEAN]
    \cup [op : {"reject"}, payment : Payments, shipment : Shipments,
          before : PaymentRecordStatus]
    \cup [op : {"status"}, shipment : Shipments, from : Status, to : Status,
          deliveredTo : BOOLEAN, cancelReason : BOOLEAN]
    \cup [op : {"bulk"}, seen : UNION {[ids -> Status] : ids \in SUBSET Shipments},
          to : Status]
    \cup [op : {"weight"}, shipment : Shipments, status : Status,
          actualWeight : BookableWeights, chargeableWeight : Nat,
          totalAmount : Nat, outstandingAmount : Nat, totalBefore : Nat]

Begin(r, plan) ==
  /\ request[r] = Idle
  /\ request' = [request EXCEPT ![r] = plan]

Continue(r, plan) == request' = [request EXCEPT ![r] = plan]

Finish(r) == request' = [request EXCEPT ![r] = Idle]

-------------------------------------------------------------------------------
(* POST /shipments/:id/cancel, by the owner.                               *)

CANCELLABLE_STATUSES == {"PENDING_PAYMENT"}

CancelRead(r, s) ==
  /\ "cancel" \in Operations
  /\ shipment[s].status \in CANCELLABLE_STATUSES
  /\ Begin(r, [op |-> "cancel", shipment |-> s])
  /\ UNCHANGED db

CancelWrite(r) ==
  /\ request[r].op = "cancel"
  /\ LET s   == request[r].shipment
         row == shipment[s]
     IN  /\ shipment' = [shipment EXCEPT ![s] =
                           [row EXCEPT !.status = "CANCELLED",
                                       !.cancelReason = TRUE]]
         /\ AppendEvent(s, "CANCELLED")
  /\ Finish(r)
  /\ UNCHANGED <<payment, stored, audit>>

-------------------------------------------------------------------------------
(* PATCH /shipments/:id, by the owner.                                     *)

EDITABLE_STATUSES == {"PENDING_PAYMENT", "PAID"}

UpdateRead(r, s, recipient) ==
  /\ "update" \in Operations
  /\ shipment[s].status \in EDITABLE_STATUSES
  /\ Begin(r, [op |-> "update", shipment |-> s, recipient |-> recipient])
  /\ UNCHANGED db

UpdateWrite(r) ==
  /\ request[r].op = "update"
  /\ shipment' = [shipment EXCEPT ![request[r].shipment].recipient =
                                     request[r].recipient]
  /\ Finish(r)
  /\ UNCHANGED <<payment, stored, latestEvent, audit>>

-------------------------------------------------------------------------------
(* POST /shipments/:id/payments, by the owner: check, store the file, then *)
(* insert the payment.                                                     *)

UploadRead(r, s) ==
  /\ "upload" \in Operations
  /\ shipment[s].paymentStatus # "PAID"
  /\ shipment[s].status # "CANCELLED"
  /\ Begin(r, [op |-> "save", shipment |-> s])
  /\ UNCHANGED db

\* A bug: the key is taken from the file instead of being random.
UploadSave_SameKey(r, p) ==
  /\ request[r].op = "save"
  /\ stored' = stored \cup {p}
  /\ Continue(r, [op |-> "upload", shipment |-> request[r].shipment,
                  payment |-> p])
  /\ UNCHANGED <<shipment, payment, latestEvent, audit>>

\* A bug: an error of the storage is swallowed, as storage.remove swallows it.
UploadSave_Swallowed(r, p) ==
  /\ request[r].op = "save"
  /\ p \notin stored
  /\ Continue(r, [op |-> "upload", shipment |-> request[r].shipment,
                  payment |-> p])
  /\ UNCHANGED <<shipment, payment, stored, latestEvent, audit>>

\* storage.save under a fresh random key; the payment's id stands for the key.
UploadSave(r, p) ==
  /\ request[r].op = "save"
  /\ p \notin stored
  /\ stored' = stored \cup {p}
  /\ Continue(r, [op |-> "upload", shipment |-> request[r].shipment,
                  payment |-> p])
  /\ UNCHANGED <<shipment, payment, latestEvent, audit>>

UploadWrite(r) ==
  /\ request[r].op = "upload"
  /\ LET s == request[r].shipment
         p == request[r].payment
         new == [shipment |-> s, status |-> "WAITING_VERIFICATION",
                 verified |-> FALSE]
     IN  /\ payment' = [q \in DOMAIN payment \cup {p} |->
                          IF q = p THEN new ELSE payment[q]]
         /\ shipment' = [shipment EXCEPT
                           ![s].paymentStatus = "WAITING_VERIFICATION"]
  /\ Finish(r)
  /\ UNCHANGED <<stored, latestEvent, audit>>

-------------------------------------------------------------------------------
(* POST /admin/payments/:id/verify: read the payment, count the shipment's *)
(* other verified payments, then write.                                    *)

VerifyRead(r, p) ==
  /\ "verify" \in Operations
  /\ p \in DOMAIN payment
  /\ payment[p].status # "VERIFIED"
  /\ LET s == payment[p].shipment
     IN  Begin(r, [op |-> "count", payment |-> p, shipment |-> s,
                   before |-> payment[p].status,
                   appendPaidEvent |-> shipment[s].status = "PENDING_PAYMENT"])
  /\ UNCHANGED db

\* A bug: the count looks at the payment itself instead of at the others.
OthersVerified_Itself(r) ==
  {q \in PaymentsOf(request[r].shipment) \cap {request[r].payment} :
     payment[q].status = "VERIFIED"}

OthersVerified(r) ==
  {q \in PaymentsOf(request[r].shipment) \ {request[r].payment} :
     payment[q].status = "VERIFIED"}

VerifyCount(r) ==
  /\ request[r].op = "count"
  /\ OthersVerified(r) = {}
  /\ Continue(r, [request[r] EXCEPT !.op = "verify"])
  /\ UNCHANGED db

VerifyRefuse(r) ==
  /\ request[r].op = "count"
  /\ OthersVerified(r) # {}
  /\ Finish(r)
  /\ UNCHANGED db

\* A bug: the row is verified without its verifiedAt.
Verified_Unstamped(row) == [row EXCEPT !.status = "VERIFIED"]

Verified(row) == [row EXCEPT !.status = "VERIFIED", !.verified = TRUE]

VerifyWrite(r) ==
  /\ request[r].op = "verify"
  /\ LET s    == request[r].shipment
         p    == request[r].payment
         paid == [shipment[s] EXCEPT !.paymentStatus = "PAID",
                                     !.outstandingAmount = 0]
     IN  /\ payment' = [payment EXCEPT ![p] = Verified(@)]
         /\ IF request[r].appendPaidEvent
            THEN /\ shipment' = [shipment EXCEPT
                                   ![s] = [paid EXCEPT !.status = "PAID"]]
                 /\ AppendEvent(s, "PAID")
            ELSE /\ shipment' = [shipment EXCEPT ![s] = paid]
                 /\ UNCHANGED latestEvent
         /\ audit' = [action |-> "PAYMENT_VERIFIED", entity |-> p,
                      before |-> request[r].before, after |-> "VERIFIED"]
  /\ Finish(r)
  /\ UNCHANGED stored

-------------------------------------------------------------------------------
(* POST /admin/payments/:id/reject, with a reason of at least 10 letters.  *)

RejectRead(r, p) ==
  /\ "reject" \in Operations
  /\ p \in DOMAIN payment
  /\ payment[p].status # "VERIFIED"
  /\ Begin(r, [op |-> "reject", payment |-> p,
               shipment |-> payment[p].shipment, before |-> payment[p].status])
  /\ UNCHANGED db

RejectWrite(r) ==
  /\ request[r].op = "reject"
  /\ LET p == request[r].payment
     IN  /\ payment' = [payment EXCEPT ![p].status = "REJECTED"]
         /\ shipment' = [shipment EXCEPT
                           ![request[r].shipment].paymentStatus = "UNPAID"]
         /\ audit' = [action |-> "PAYMENT_REJECTED", entity |-> p,
                      before |-> request[r].before, after |-> "REJECTED"]
  /\ Finish(r)
  /\ UNCHANGED <<stored, latestEvent>>

-------------------------------------------------------------------------------
(* POST /admin/shipments/:id/status.                                       *)

StatusRead(r, s, next, deliveredTo, reason) ==
  /\ "status" \in Operations
  /\ checkTransition(next, shipment[s].status, shipment[s].serviceType,
                     shipment[s].previousStatus, deliveredTo, reason)
  /\ Begin(r, [op |-> "status", shipment |-> s,
               from |-> shipment[s].status, to |-> next,
               deliveredTo |-> next = "DELIVERED" /\ deliveredTo,
               cancelReason |-> next = "CANCELLED" /\ reason])
  /\ UNCHANGED db

\* A bug: before and after are swapped.
StatusAudit_Swapped(s, from, to) ==
  [action |-> "SHIPMENT_STATUS_CHANGED", entity |-> s,
   before |-> to, after |-> from]

StatusAudit(s, from, to) ==
  [action |-> "SHIPMENT_STATUS_CHANGED", entity |-> s,
   before |-> from, after |-> to]

\* applyTransition and applyStatusTransition: the row, one event, one audit row.
ApplyTransition(s, from, to, deliveredTo, cancelReason) ==
  LET row == shipment[s]
      new == [row EXCEPT
                !.status = to,
                !.previousStatus = nextPreviousStatus(from, to, row.previousStatus),
                !.deliveredTo = IF to = "DELIVERED" THEN deliveredTo ELSE @,
                !.cancelReason = IF to = "CANCELLED" THEN cancelReason ELSE @]
  IN  /\ shipment' = [shipment EXCEPT ![s] = new]
      /\ AppendEvent(s, to)
      /\ audit' = StatusAudit(s, from, to)

StatusWrite(r) ==
  /\ request[r].op = "status"
  /\ ApplyTransition(request[r].shipment, request[r].from, request[r].to,
                     request[r].deliveredTo, request[r].cancelReason)
  /\ Finish(r)
  /\ UNCHANGED <<payment, stored>>

-------------------------------------------------------------------------------
(* POST /admin/shipments/bulk-status: one read of all the rows, then one   *)
(* transaction per row that passed the check, in any order.                *)

BulkRead(r, ids, next) ==
  LET passing ==
        {s \in ids : checkTransition(next, shipment[s].status,
                       shipment[s].serviceType, shipment[s].previousStatus,
                       FALSE, FALSE)}
  IN  /\ "bulk" \in Operations
      /\ passing # {}
      /\ Begin(r, [op |-> "bulk", to |-> next,
                   seen |-> [s \in passing |-> shipment[s].status]])
      /\ UNCHANGED db

\* A bug: the loop ends after its first row.
AfterRow_Return(r, s) == Finish(r)

\* The loop goes on to the rows left.
AfterRow(r, s) ==
  LET seen == request[r].seen
      rest == DOMAIN seen \ {s}
  IN  IF rest = {}
      THEN Finish(r)
      ELSE Continue(r, [request[r] EXCEPT !.seen = [t \in rest |-> seen[t]]])

BulkWrite(r) ==
  /\ request[r].op = "bulk"
  /\ \E s \in DOMAIN request[r].seen :
       /\ ApplyTransition(s, request[r].seen[s], request[r].to, FALSE, FALSE)
       /\ AfterRow(r, s)
  /\ UNCHANGED <<payment, stored>>

-------------------------------------------------------------------------------
(* PATCH /admin/shipments/:id/weight.                                      *)

WEIGHT_CORRECTABLE_STATUSES ==
  {"PENDING_PAYMENT", "PAID", "RECEIVED_AT_WAREHOUSE", "IN_TRANSIT", "ON_HOLD"}

\* A bug: an overpayment becomes a negative debt.
OutstandingAfter_NotClamped(row, total) ==
  IF row.paymentStatus = "PAID" THEN total - row.totalAmount ELSE total

\* What remains to be paid once the bill becomes `total`.
OutstandingAfter(row, total) ==
  IF row.paymentStatus = "PAID" THEN AtLeast(total - row.totalAmount, 0)
                                ELSE total

\* A bug: the minimum weight of the booking is not part of the snapshot.
Recalculated_NoMinimum(row, weight) ==
  calculateTariff(weight, [row.rate EXCEPT !.minChargeableWeight = 1])

\* The tariff of the new weight at the shipment's own snapshot.
Recalculated(row, weight) == calculateTariff(weight, row.rate)

WeightRead(r, s, weight) ==
  LET row    == shipment[s]
      tariff == Recalculated(row, weight)
  IN  /\ "weight" \in Operations
      /\ weight > 0
      /\ weight <= MAX_WEIGHT
      /\ row.status \in WEIGHT_CORRECTABLE_STATUSES
      /\ Begin(r, [op |-> "weight", shipment |-> s, status |-> row.status,
                   actualWeight |-> weight,
                   chargeableWeight |-> tariff.chargeableWeight,
                   totalAmount |-> tariff.total,
                   outstandingAmount |-> OutstandingAfter(row, tariff.total),
                   totalBefore |-> row.totalAmount])
      /\ UNCHANGED db

WeightWrite(r) ==
  /\ request[r].op = "weight"
  /\ LET plan == request[r]
         s    == plan.shipment
         row  == shipment[s]
         new  == [row EXCEPT !.actualWeight = plan.actualWeight,
                             !.chargeableWeight = plan.chargeableWeight,
                             !.totalAmount = plan.totalAmount,
                             !.outstandingAmount = plan.outstandingAmount]
     IN  /\ shipment' = [shipment EXCEPT ![s] = new]
         /\ AppendEvent(s, plan.status)
         /\ audit' = [action |-> "SHIPMENT_WEIGHT_CORRECTED", entity |-> s,
                      totalBefore |-> plan.totalBefore,
                      totalAfter |-> plan.totalAmount]
  /\ Finish(r)
  /\ UNCHANGED <<payment, stored>>

-------------------------------------------------------------------------------
\* A database error, a storage error or a crash of the process: the request is
\* gone, and what it had already committed stays.
Fail(r) ==
  /\ request[r] # Idle
  /\ Finish(r)
  /\ UNCHANGED db

Init ==
  /\ \E service \in [Shipments -> ServiceType], rate \in [Shipments -> Rates],
        weight \in [Shipments -> BookableWeights],
        recipient \in [Shipments -> Recipients] :
       shipment = [s \in Shipments |->
                     Booked(service[s], rate[s], weight[s], recipient[s])]
  /\ payment = [p \in {} |-> Idle]
  /\ stored = {}
  /\ latestEvent = [s \in Shipments |-> "PENDING_PAYMENT"]
  /\ audit = [action |-> "NONE"]
  /\ request = [r \in Requests |-> Idle]

Customer(r) ==
  \/ \E s \in Shipments :
       \/ CancelRead(r, s)
       \/ UploadRead(r, s)
       \/ \E recipient \in Recipients : UpdateRead(r, s, recipient)
  \/ \E p \in Payments : UploadSave(r, p)
  \/ CancelWrite(r)
  \/ UpdateWrite(r)
  \/ UploadWrite(r)

Cashier(r) ==
  \/ \E p \in Payments : VerifyRead(r, p) \/ RejectRead(r, p)
  \/ VerifyCount(r)
  \/ VerifyRefuse(r)
  \/ VerifyWrite(r)
  \/ RejectWrite(r)

Operator(r) ==
  \/ \E s \in Shipments, next \in RequestedStatus,
        deliveredTo \in BOOLEAN, reason \in BOOLEAN :
       StatusRead(r, s, next, deliveredTo, reason)
  \/ \E ids \in SUBSET Shipments, next \in RequestedStatus :
       BulkRead(r, ids, next)
  \/ \E s \in Shipments, weight \in Weights : WeightRead(r, s, weight)
  \/ StatusWrite(r)
  \/ BulkWrite(r)
  \/ WeightWrite(r)

Next == \E r \in Requests : Customer(r) \/ Cashier(r) \/ Operator(r) \/ Fail(r)

Spec == Init /\ [][Next]_vars

\* The awaits of a handler resolve: the database and the storage answer, and Node's
\* event loop resumes every handler whose await has resolved.
Resumes(r) ==
  \/ \E p \in Payments : UploadSave(r, p)
  \/ CancelWrite(r) \/ UpdateWrite(r) \/ UploadWrite(r)
  \/ VerifyCount(r) \/ VerifyRefuse(r) \/ VerifyWrite(r) \/ RejectWrite(r)
  \/ StatusWrite(r) \/ BulkWrite(r) \/ WeightWrite(r)

FaultFreeNext == \E r \in Requests : Customer(r) \/ Cashier(r) \/ Operator(r)

FaultFreeSpec ==
  Init /\ [][FaultFreeNext]_vars /\ \A r \in Requests : WF_vars(Resumes(r))
-------------------------------------------------------------------------------
(* Safety: what holds whatever requests overlap.                           *)

\* Every variable keeps its shape: rows, plans in flight and the audit row have
\* the columns and enum values the schema and the handlers give them.
TypeOK ==
  /\ shipment \in [Shipments -> ShipmentRow]
  /\ DOMAIN payment \subseteq Payments
  /\ payment \in [DOMAIN payment -> PaymentRow]
  /\ stored \subseteq Payments
  /\ latestEvent \in [Shipments -> Status]
  /\ audit \in AuditRow
  /\ request \in [Requests -> RequestState]

\* A held shipment can always be resumed: while status is ON_HOLD, previousStatus
\* names a stage the shipment can be held at, and the status machine lets it go
\* back there for this service (getAllowedTransitions, the ON_HOLD branch).
HeldCanResume ==
  \A s \in Shipments :
    shipment[s].status = "ON_HOLD" =>
      /\ shipment[s].previousStatus \in Holdable
      /\ isValidTransition("ON_HOLD", shipment[s].previousStatus,
                           shipment[s].serviceType, shipment[s].previousStatus)

\* No shipment, held or not, and no line of its timeline ever shows the last mile
\* of the other service, although statuses are written from stale reads
\* (isAllowedForService is only asked at read time).
ServiceRespected ==
  \A s \in Shipments :
    \A status \in {shipment[s].status, shipment[s].previousStatus, latestEvent[s]} :
      isAllowedForService(status, shipment[s].serviceType)

\* The bill is always the tariff of the weight on record at the rate of the day
\* of booking: overlapping corrections never mix the columns of two of them.
BillFollowsSnapshot ==
  \A s \in Shipments :
    LET row    == shipment[s]
        weight == IF row.actualWeight = 0 THEN row.declaredWeight
                                          ELSE row.actualWeight
        tariff == calculateTariff(weight, row.rate)
    IN  /\ row.chargeableWeight = tariff.chargeableWeight
        /\ row.totalAmount = tariff.total

\* Debt is only ever forgiven by a verification: a shipment marked PAID, or one
\* whose outstanding amount is below its bill, has a payment that was verified
\* at some time (verifiedAt is set), whatever overwrote its status since.
DebtNeedsVerification ==
  \A s \in Shipments :
    \/ \E p \in PaymentsOf(s) : payment[p].verified
    \/ /\ shipment[s].paymentStatus # "PAID"
       /\ shipment[s].outstandingAmount = shipment[s].totalAmount

\* A delivered shipment says who received it and a cancelled one why, whichever
\* handler wrote the final status, also when it overwrote another final status.
FinalStatusIsExplained ==
  \A s \in Shipments :
    /\ shipment[s].status = "DELIVERED" => shipment[s].deliveredTo
    /\ shipment[s].status = "CANCELLED" => shipment[s].cancelReason

\* Every payment record has its proof in the file storage, also when uploads
\* overlap, fail half-way or are retried (the file is stored first).
ProofIsStored == DOMAIN payment \subseteq stored

\* The audit trail never shows a status change the status machine forbids, even
\* where the change it describes was made from a stale read.
AuditedStepIsLegal ==
  audit.action = "SHIPMENT_STATUS_CHANGED" /\ audit.before # "ON_HOLD" =>
    isValidTransition(audit.before, audit.after,
                      shipment[audit.entity].serviceType, NULL)

-------------------------------------------------------------------------------
(* What a request in flight may still rely on when it finally writes,      *)
(* although the rows it read may have changed.                             *)

\* A status change read from `from` and asking for `to` fits the service, holds
\* only what can be held, and was legal when it was read.
SoundTransition(s, from, to) ==
  /\ isAllowedForService(from, shipment[s].serviceType)
  /\ isAllowedForService(to, shipment[s].serviceType)
  /\ to = "ON_HOLD" => from \in Holdable
  /\ from # "ON_HOLD" =>
       isValidTransition(from, to, shipment[s].serviceType, NULL)

\* What a plan promises about the statuses it will write.
SoundPlan(plan) ==
  /\ plan.op = "status" =>
       /\ SoundTransition(plan.shipment, plan.from, plan.to)
       /\ plan.to = "DELIVERED" => plan.deliveredTo
       /\ plan.to = "CANCELLED" => plan.cancelReason
  /\ plan.op = "bulk" =>
       /\ plan.to \notin {"ON_HOLD", "DELIVERED", "CANCELLED"}
       /\ \A s \in DOMAIN plan.seen : SoundTransition(s, plan.seen[s], plan.to)
  /\ plan.op = "weight" =>
       isAllowedForService(plan.status, shipment[plan.shipment].serviceType)

\* Every status change in flight is sound and carries the explanation its final
\* status needs; a bulk change asks for no status that needs one
\* (checkTransition was passed at read time).
TransitionsInFlight == \A r \in Requests : SoundPlan(request[r])

\* A stored proof waits for exactly one upload, and a verdict in flight is about an
\* existing payment of the shipment it will write to.
PaymentsInFlight ==
  \A r \in Requests :
    /\ request[r].op = "upload" =>
         /\ request[r].payment \in stored \ DOMAIN payment
         /\ \A q \in Requests \ {r} :
              request[q].op = "upload" => request[q].payment # request[r].payment
    /\ request[r].op \in {"count", "verify", "reject"} =>
         request[r].payment \in PaymentsOf(request[r].shipment)

\* What a weight correction promises about the bill it will write.
SoundCorrection(plan) ==
  plan.op = "weight" =>
    LET s      == plan.shipment
        tariff == calculateTariff(plan.actualWeight, shipment[s].rate)
    IN  /\ plan.chargeableWeight = tariff.chargeableWeight
        /\ plan.totalAmount = tariff.total
        /\ \/ \E p \in PaymentsOf(s) : payment[p].verified
           \/ plan.outstandingAmount = plan.totalAmount

\* A correction in flight carries the tariff of its own weight at the shipment's
\* snapshot, and forgives nothing unless a payment was verified.
CorrectionsInFlight == \A r \in Requests : SoundCorrection(request[r])

-------------------------------------------------------------------------------
(* What holds while requests do not overlap, and is lost when they do.     *)

\* At most one payment of a shipment is VERIFIED (schema.prisma, model Payment).
SingleVerified ==
  \A s \in Shipments :
    Cardinality({p \in PaymentsOf(s) : payment[p].status = "VERIFIED"}) <= 1

\* previousStatus is filled in only while the shipment is held
\* (shipment-status.ts, nextPreviousStatus).
PreviousOnlyWhileHeld ==
  \A s \in Shipments :
    shipment[s].previousStatus # NULL => shipment[s].status = "ON_HOLD"

\* The newest line of the timeline is the status the shipment is in: every status
\* change appends its event and a weight correction repeats the current status.
TimelineShowsStatus ==
  \A s \in Shipments : latestEvent[s] = shipment[s].status

\* An audit row describes the change made with it: `before` and `after` are the
\* row before and after the transaction (applyTransition, correctWeight).
AuditTellsTheChange ==
  [][\A r \in Requests :
       LET s == audit'.entity
       IN  request'[r] # request[r] /\ shipment' # shipment =>
             /\ request[r].op \in {"status", "bulk"} =>
                  /\ audit'.before = shipment[s].status
                  /\ audit'.after = shipment'[s].status
             /\ request[r].op = "weight" =>
                  /\ audit'.totalBefore = shipment[s].totalAmount
                  /\ audit'.totalAfter = shipment'[s].totalAmount]_vars

-------------------------------------------------------------------------------
(* Liveness, when nothing fails.                                           *)

\* Every row a bulk change found changeable does get the status asked for, whatever
\* becomes of the other rows and whoever else writes to them (bulkChangeStatus).
BulkMovesEveryRow ==
  \A r \in Requests, s \in Shipments, next \in Status :
    /\ request[r].op = "bulk"
    /\ s \in DOMAIN request[r].seen
    /\ request[r].to = next
    ~> shipment[s].status = next

-------------------------------------------------------------------------------
(* What the documentation says and one request after another can break.    *)

\* While a shipment is paid, raising (or repeating) its bill does not lower what
\* is still owed: the shortfall is marked (correctWeight).
ShortfallStaysMarked ==
  [][\A s \in Shipments :
       /\ shipment[s].paymentStatus = "PAID"
       /\ shipment'[s].paymentStatus = "PAID"
       /\ shipment'[s].totalAmount >= shipment[s].totalAmount
       => shipment'[s].outstandingAmount >= shipment[s].outstandingAmount]_vars

\* A shipment with a verified payment shows as paid (paymentStatus PAID), so that
\* no more proofs are taken for it (uploadProof).
VerifiedShowsPaid ==
  \A p \in DOMAIN payment :
    payment[p].status = "VERIFIED" =>
      shipment[payment[p].shipment].paymentStatus = "PAID"
===============================================================================
