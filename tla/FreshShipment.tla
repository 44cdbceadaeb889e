---------------------------- MODULE FreshShipment -----------------------------
(***************************************************************************)
(* The row that a booking inserts into "shipments":                        *)
(* ShipmentsRepository.create on a quoted tariff.                          *)
(***************************************************************************)
EXTENDS ShipmentStatus, Tariff

\* `rate` is the snapshot of the rate the booking was quoted at.
Booked(service, rate, weight, recipient) ==
  LET tariff == calculateTariff(weight, rate)
  IN  [serviceType |-> service, rate |-> rate, recipient |-> recipient,
       declaredWeight |-> weight, actualWeight |-> 0,
       chargeableWeight |-> tariff.chargeableWeight,
       totalAmount |-> tariff.total, outstandingAmount |-> tariff.total,
       status |-> "PENDING_PAYMENT", previousStatus |-> NULL,
       paymentStatus |-> "UNPAID",
       deliveredTo |-> FALSE, cancelReason |-> FALSE]
===============================================================================
