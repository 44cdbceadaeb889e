\* One request at a time: a second weight correction forgets the shortfall.
SPECIFICATION Spec
CONSTANTS
  Shipments = {s1}
  Payments = {p1, p2}
  NoPayment = NoPayment
  Requests = {r1}
  Rates <- OneRate
  Weights <- SomeWeights
  Recipients = {n1}
  RequestedStatus = {"PAID"}
  Operations = {"upload", "verify", "weight"}
PROPERTY
  ShortfallStaysMarked
CHECK_DEADLOCK FALSE
