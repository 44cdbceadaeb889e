\* Two requests that overlap on one shipment: payments and the bill.
SPECIFICATION Spec
CONSTANTS
  Shipments = {s1}
  Payments = {p1, p2}
  NoPayment = NoPayment
  Requests = {r1, r2}
  Rates <- OneRate
  Weights <- SomeWeights
  Recipients = {n1}
  RequestedStatus = {"RECEIVED_AT_WAREHOUSE", "CANCELLED"}
  Operations = {"upload", "verify", "reject", "weight", "status"}
INVARIANTS
  TypeOK
  BillFollowsSnapshot
  DebtNeedsVerification
  ProofIsStored
  PaymentsInFlight
SYMMETRY Symmetric
CHECK_DEADLOCK FALSE
