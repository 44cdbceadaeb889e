------------------------------ MODULE Dashboards ------------------------------
(***************************************************************************)
(* The figures on the dashboards, src/src/dashboard, as functions of the   *)
(* rows of "shipments", "payments" and "agent_profiles".  A row is         *)
(* [id, of, is], as in Seeding; updatedAgo is its age in days.             *)
(***************************************************************************)
EXTENDS ShipmentStatus, Integers, FiniteSets

STALL_THRESHOLD_DAYS == 3

countByStatus(shipments) ==
  [status \in {row.is.status : row \in shipments} |->
     Cardinality({row \in shipments : row.is.status = status})]

countActive(shipments) ==
  Cardinality({row \in shipments : row.is.status \notin {"DELIVERED", "CANCELLED"}})

\* A bug: a shipment counts as stalled on its fourth day, not after it.
findStalled_OnTheDay(shipments) ==
  {row \in shipments :
     /\ row.is.status \notin {"DELIVERED", "CANCELLED"}
     /\ row.is.updatedAgo >= STALL_THRESHOLD_DAYS}

\* Active shipments that have not moved for more than three whole days.
findStalled(shipments) ==
  {row \in shipments :
     /\ row.is.status \notin {"DELIVERED", "CANCELLED"}
     /\ row.is.updatedAgo >= STALL_THRESHOLD_DAYS + 1}

countPendingPaymentVerification(shipments, payments) ==
  Cardinality({row \in shipments :
    \E payment \in payments :
      payment.of["shipments"] = row.id /\ payment.is.status = "WAITING_VERIFICATION"})

countByApprovalStatus(profiles, status) ==
  Cardinality({row \in profiles : row.is.approvalStatus = status})

\* AdminDashboardService.summary, were its reads one: they are not, each is a query
\* of its own.
summary(shipments, payments, profiles) ==
  [pendingPaymentVerification |-> countPendingPaymentVerification(shipments, payments),
   pendingAgentApproval       |-> countByApprovalStatus(profiles, "PENDING"),
   stalledShipments           |-> Cardinality(findStalled(shipments)),
   totalShipments             |-> Cardinality(shipments),
   activeShipments            |-> countActive(shipments),
   statusCounts               |-> countByStatus(shipments)]

NOT_IN_PROGRESS == {"PENDING_PAYMENT", "DELIVERED", "CANCELLED"}

\* DashboardService.summaryFor, for the shipments of one user.
summaryFor(shipments, user) ==
  LET own == {row \in shipments : row.of["users"] = user}
      count(statuses) == Cardinality({row \in own : row.is.status \in statuses})
  IN  [totalShipments       |-> Cardinality(own),
       awaitingPaymentCount |-> count({"PENDING_PAYMENT"}),
       inProgressCount      |-> count(Status \ NOT_IN_PROGRESS),
       deliveredCount       |-> count({"DELIVERED"})]
===============================================================================
