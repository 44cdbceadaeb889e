\* One request at a time: the journey is kept.
SPECIFICATION Spec
CONSTANTS
  Shipments = {s1}
  Payments = {p1, p2}
  NoPayment = NoPayment
  Requests = {r1}
  Rates <- OneRate
  Weights <- EdgeWeights
  Recipients = {n1, n2}
  RequestedStatus <- Status
  Operations <- AllOperations
INVARIANTS
  PreviousOnlyWhileHeld
  TimelineShowsStatus
  SingleVerified
PROPERTIES
  KeepsJourney
  AuditTellsTheChange
CHECK_DEADLOCK FALSE
