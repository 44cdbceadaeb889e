\* One request at a time: rejecting a second proof marks a paid shipment unpaid.
SPECIFICATION Spec
CONSTANTS
  Shipments = {s1}
  Payments = {p1, p2}
  NoPayment = NoPayment
  Requests = {r1}
  Rates <- OneRate
  Weights <- SomeWeights
  Recipients = {n1}
  RequestedStatus = {"PAID"}
  Operations = {"upload", "verify", "reject"}
INVARIANT
  VerifiedShowsPaid
CHECK_DEADLOCK FALSE
