---------------------------- MODULE ShipmentStatus ----------------------------
(***************************************************************************)
(* The status machine of a shipment, src/src/shipments/shipment-status.ts. *)
(* The file is pure functions over two enums of the Prisma schema, and so  *)
(* is this module: no variables, only operators.                           *)
(***************************************************************************)

\* The value of a nullable column that is not filled in.
NULL == "NULL"

ServiceType == {"PORT_TO_PORT", "PORT_TO_DOOR"}

Status ==
  {"PENDING_PAYMENT", "PAID", "RECEIVED_AT_WAREHOUSE", "IN_TRANSIT",
   "ARRIVED_AT_DESTINATION", "READY_FOR_PICKUP", "OUT_FOR_DELIVERY",
   "DELIVERED", "ON_HOLD", "CANCELLED"}

\* The way out of ON_HOLD is decided by previousStatus, not by this table.
STATUS_TRANSITIONS ==
  [PENDING_PAYMENT        |-> {"PAID", "CANCELLED"},
   PAID                   |-> {"RECEIVED_AT_WAREHOUSE", "CANCELLED"},
   RECEIVED_AT_WAREHOUSE  |-> {"IN_TRANSIT", "ON_HOLD", "CANCELLED"},
   IN_TRANSIT             |-> {"ARRIVED_AT_DESTINATION", "ON_HOLD"},
   ARRIVED_AT_DESTINATION |-> {"READY_FOR_PICKUP", "OUT_FOR_DELIVERY",
                               "ON_HOLD"},
   READY_FOR_PICKUP       |-> {"DELIVERED", "ON_HOLD"},
   OUT_FOR_DELIVERY       |-> {"DELIVERED", "ON_HOLD"},
   ON_HOLD                |-> {},
   DELIVERED              |-> {},
   CANCELLED              |-> {}]

isAllowedForService(status, service) ==
  /\ status = "READY_FOR_PICKUP" => service = "PORT_TO_PORT"
  /\ status = "OUT_FOR_DELIVERY" => service = "PORT_TO_DOOR"

\* A bug: a held shipment may go on to anything the departure board knows.
WaysOutOfHold_Anywhere(previous) ==
  {"RECEIVED_AT_WAREHOUSE", "IN_TRANSIT", "ARRIVED_AT_DESTINATION", "CANCELLED"}

\* A held shipment goes back to where it was held, or is cancelled.
WaysOutOfHold(previous) == ({previous} \ {NULL, "ON_HOLD"}) \cup {"CANCELLED"}

\* A bug: the table is returned without asking whether the service allows it.
getAllowedTransitions_AnyService(status, service, previous) ==
  IF status = "ON_HOLD" THEN WaysOutOfHold(previous) ELSE STATUS_TRANSITIONS[status]

getAllowedTransitions(status, service, previous) ==
  LET table == IF status = "ON_HOLD" THEN WaysOutOfHold(previous)
                                     ELSE STATUS_TRANSITIONS[status]
  IN  {next \in table : isAllowedForService(next, service)}

isValidTransition(from, to, service, previous) ==
  to \in getAllowedTransitions(from, service, previous)

\* A bug: a cancellation needs no reason.
requiresReason_HoldOnly(status) == status = "ON_HOLD"

requiresReason(status) == status \in {"ON_HOLD", "CANCELLED"}

\* A bug: a delivery needs no name.
requiresDeliveredTo_Never(status) == FALSE

requiresDeliveredTo(status) == status = "DELIVERED"

\* TRUE where the code returns null (no objection); deliveredTo and reason say
\* whether the request carries a non-blank value.
checkTransition(next, status, service, previous, deliveredTo, reason) ==
  /\ isValidTransition(status, next, service, previous)
  /\ requiresDeliveredTo(next) => deliveredTo
  /\ requiresReason(next) => reason

\* Two bugs: leaving ON_HOLD keeps the marker; entering it marks the new status.
nextPreviousStatus_NotCleared(current, next, kept) ==
  IF next = "ON_HOLD" THEN current ELSE kept

nextPreviousStatus_MarksNext(current, next, kept) ==
  IF next = "ON_HOLD" THEN next ELSE IF current = "ON_HOLD" THEN NULL ELSE kept

\* What the previousStatus column holds after the transition, `kept` being what
\* it holds before: the code's `undefined` leaves the column alone.
nextPreviousStatus(current, next, kept) ==
  IF next = "ON_HOLD" THEN current
  ELSE IF current = "ON_HOLD" THEN NULL ELSE kept

\* The statuses a shipment can be put on hold from.
Holdable == {status \in Status : "ON_HOLD" \in STATUS_TRANSITIONS[status]}
===============================================================================
