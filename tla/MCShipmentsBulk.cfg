\* Bulk changes of two shipments, overlapped by another request; nothing fails.
SPECIFICATION FaultFreeSpec
CONSTANTS
  Shipments = {s1, s2}
  Payments = {p1}
  NoPayment = NoPayment
  Requests = {r1, r2}
  Rates <- OneRate
  Weights <- OneWeight
  Recipients = {n1}
  RequestedStatus = {"PAID", "RECEIVED_AT_WAREHOUSE", "CANCELLED"}
  Operations = {"bulk", "cancel", "status"}
PROPERTIES
  BulkMovesEveryRow
CHECK_DEADLOCK FALSE
