\* Two requests that overlap on one shipment: statuses.
SPECIFICATION Spec
CONSTANTS
  Shipments = {s1}
  Payments = {p1}
  NoPayment = NoPayment
  Requests = {r1, r2}
  Rates <- OneRate
  Weights <- OneWeight
  Recipients = {n1}
  RequestedStatus <- Status
  Operations = {"cancel", "upload", "verify", "status", "bulk", "weight"}
INVARIANTS
  HeldCanResume
  ServiceRespected
  FinalStatusIsExplained
  AuditedStepIsLegal
  TransitionsInFlight
SYMMETRY Symmetric
CHECK_DEADLOCK FALSE
