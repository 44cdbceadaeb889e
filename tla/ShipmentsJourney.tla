--------------------------- MODULE ShipmentsJourney ---------------------------
(***************************************************************************)
(* The shipment tables seen as journeys: the refinement mapping from       *)
(* Shipments to DeliveryJourney.  A server that handles one request at a   *)
(* time (Requests is a singleton) implements DeliveryJourney; one that     *)
(* overlaps requests does not.                                             *)
(***************************************************************************)
EXTENDS Shipments

CONSTANT NoPayment

\* The stage a shipment has reached: where it was held, if it is held.
StageOf(s) ==
  IF shipment[s].status = "ON_HOLD" THEN shipment[s].previousStatus
                                    ELSE shipment[s].status

LegOf(stage) ==
  CASE stage = "PENDING_PAYMENT"        -> 1
    [] stage = "PAID"                   -> 2
    [] stage = "RECEIVED_AT_WAREHOUSE"  -> 3
    [] stage = "IN_TRANSIT"             -> 4
    [] stage = "ARRIVED_AT_DESTINATION" -> 5
    [] stage = "READY_FOR_PICKUP"       -> 6
    [] stage = "OUT_FOR_DELIVERY"       -> 6
    [] stage = "DELIVERED"              -> 7
    [] OTHER                            -> 0

VerifiedOf(s) == {p \in PaymentsOf(s) : payment[p].status = "VERIFIED"}

SettlingPayment(s) ==
  IF VerifiedOf(s) = {} THEN NoPayment ELSE CHOOSE p \in VerifiedOf(s) : TRUE

Journey ==
  INSTANCE DeliveryJourney WITH
    leg     <- [s \in Shipments |-> LegOf(StageOf(s))],
    held    <- [s \in Shipments |-> shipment[s].status = "ON_HOLD"],
    settled <- [s \in Shipments |-> SettlingPayment(s)]

\* One request at a time, every committed step of the shipment tables is a step of
\* the promised journey: one leg forward, a pause, a resumption, a legal calling
\* off, or the one settlement (checkTransition, verify, reject, cancel).
KeepsJourney == Journey!Spec
===============================================================================
