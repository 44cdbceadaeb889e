------------------------------- MODULE SeedData -------------------------------
(***************************************************************************)
(* The sample data, src/prisma/seed-data.ts: the columns that the program  *)
(* of the seed decides on.  Names, addresses and phone numbers are left    *)
(* out; a route goes by its destination code, an account by its name.      *)
(***************************************************************************)
EXTENDS Tariff, ShipmentStatus, Sequences

Port(code, price) ==
  [code |-> code, serviceType |-> "PORT_TO_PORT",
   rate |-> [pricePerKg |-> price, minChargeableWeight |-> 5, baseFee |-> 15000]]

Door(code, price) ==
  [code |-> code, serviceType |-> "PORT_TO_DOOR",
   rate |-> [pricePerKg |-> price, minChargeableWeight |-> 3, baseFee |-> 10000]]

ROUTES ==
  <<Port("PLW", 28000), Port("UPG", 24000), Port("MDC", 31000),
    Door("JABODETABEK", 9000), Door("JABAR", 12000), Door("BANTEN", 12000),
    Door("JATENG_DIY", 14000), Door("JATIM", 16000)>>

User(id, role, status, approval) ==
  [id |-> id, role |-> role, status |-> status, approvalStatus |-> approval]

USERS ==
  <<User("customer", "CUSTOMER", "ACTIVE", NULL),
    User("agent-approved", "AGENT", "ACTIVE", "APPROVED"),
    User("agent-pending", "AGENT", "ACTIVE", "PENDING"),
    User("cust-dewi", "CUSTOMER", "ACTIVE", NULL),
    User("cust-rahmat", "CUSTOMER", "ACTIVE", NULL),
    User("cust-suspended", "CUSTOMER", "SUSPENDED", NULL),
    User("agent-nusantara", "AGENT", "ACTIVE", "APPROVED"),
    User("agent-rejected", "AGENT", "ACTIVE", "REJECTED"),
    User("agent-baru2", "AGENT", "ACTIVE", "PENDING")>>

OPERATIONAL_SENDERS ==
  <<"cust-dewi", "cust-rahmat", "agent-nusantara", "cust-suspended">>

\* An entry of the plan: weight in tenths of a kilogram, previousStatus only for
\* ON_HOLD, awaiting a verification only where a proof has been uploaded.
Entry(status, destination, weight, staleDays) ==
  [status |-> status, destination |-> destination, weight |-> weight,
   staleDays |-> staleDays, awaitingVerification |-> FALSE, claimedDelta |-> 0,
   previousStatus |-> NULL]

Awaiting(destination, weight, staleDays, delta) ==
  [Entry("PENDING_PAYMENT", destination, weight, staleDays) EXCEPT
     !.awaitingVerification = TRUE, !.claimedDelta = delta]

OnHold(destination, weight, staleDays, previous) ==
  [Entry("ON_HOLD", destination, weight, staleDays) EXCEPT !.previousStatus = previous]

OPERATIONAL_PLAN ==
  <<Entry("PENDING_PAYMENT", "UPG", 80, 1),
    Entry("PENDING_PAYMENT", "JATIM", 30, 5),
    Awaiting("PLW", 150, 1, 0),
    Awaiting("MDC", 60, 2, 0),
    Awaiting("JATENG_DIY", 45, 3, -50000),
    Awaiting("JABODETABEK", 20, 4, 0),
    Entry("PAID", "UPG", 220, 1),
    Entry("PAID", "JABAR", 90, 5),
    Entry("PAID", "MDC", 110, 2),
    Entry("RECEIVED_AT_WAREHOUSE", "UPG", 300, 1),
    Entry("RECEIVED_AT_WAREHOUSE", "PLW", 180, 2),
    Entry("RECEIVED_AT_WAREHOUSE", "MDC", 250, 6),
    Entry("RECEIVED_AT_WAREHOUSE", "JATIM", 70, 1),
    Entry("RECEIVED_AT_WAREHOUSE", "JATENG_DIY", 120, 1),
    Entry("IN_TRANSIT", "UPG", 400, 1),
    Entry("IN_TRANSIT", "PLW", 160, 4),
    Entry("IN_TRANSIT", "MDC", 95, 2),
    Entry("IN_TRANSIT", "JABAR", 50, 7),
    Entry("ARRIVED_AT_DESTINATION", "UPG", 140, 1),
    Entry("ARRIVED_AT_DESTINATION", "PLW", 200, 5),
    Entry("ARRIVED_AT_DESTINATION", "JATIM", 65, 2),
    Entry("READY_FOR_PICKUP", "UPG", 130, 3),
    Entry("READY_FOR_PICKUP", "MDC", 170, 8),
    Entry("READY_FOR_PICKUP", "PLW", 100, 1),
    Entry("OUT_FOR_DELIVERY", "JABODETABEK", 35, 1),
    Entry("OUT_FOR_DELIVERY", "JATENG_DIY", 80, 1),
    Entry("OUT_FOR_DELIVERY", "JATIM", 55, 4),
    Entry("DELIVERED", "UPG", 190, 12),
    Entry("DELIVERED", "PLW", 80, 20),
    Entry("DELIVERED", "MDC", 260, 15),
    Entry("DELIVERED", "JABODETABEK", 40, 9),
    Entry("DELIVERED", "JATIM", 110, 30),
    Entry("DELIVERED", "JABAR", 75, 18),
    OnHold("MDC", 210, 6, "IN_TRANSIT"),
    OnHold("JATIM", 40, 2, "OUT_FOR_DELIVERY"),
    Entry("CANCELLED", "UPG", 60, 14),
    Entry("CANCELLED", "JATENG_DIY", 30, 22)>>

STATUS_PATH ==
  <<"PENDING_PAYMENT", "PAID", "RECEIVED_AT_WAREHOUSE", "IN_TRANSIT",
    "ARRIVED_AT_DESTINATION", "READY_FOR_PICKUP", "OUT_FOR_DELIVERY", "DELIVERED">>

\* The entries of the customers' address books, each with its owner.
RECIPIENTS ==
  <<[id |-> "recipient-1", user |-> "customer"],
    [id |-> "recipient-2", user |-> "agent-approved"]>>
===============================================================================
