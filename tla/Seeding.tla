------------------------------- MODULE Seeding --------------------------------
(***************************************************************************)
(* The seed, src/prisma/seed.ts: a program of single statements, without a *)
(* transaction around them, that empties the database and fills it again.  *)
(* It may break off between two statements and be run again, and the       *)
(* server may be up while it runs.                                         *)
(*                                                                         *)
(* The database is every table of src/prisma/schema.prisma with its        *)
(* foreign keys.  A row is [id, of, is]: its key, the rows it refers to,   *)
(* and the columns that matter.                                            *)
(***************************************************************************)
EXTENDS SeedData, Dashboards, SequencesExt

CONSTANTS
  Visitors   \* people who register and book while the seed runs

ASSUME VisitorsAssumption ==
  Visitors \cap ({"admin"} \cup {USERS[i].id : i \in DOMAIN USERS}) = {}

VARIABLES
  production,  \* NODE_ENV is production
  db,          \* the rows of each table
  files,       \* payment proofs on the disk
  seed         \* the run of the seed under way: --minimal or not, and which
               \*   statement it is at; 0 when there is none

seedingVars == <<production, db, files, seed>>

Tables ==
  {"audit_logs", "payments", "attachments", "shipment_events", "shipment_items",
   "shipments", "recipients", "refresh_tokens", "agent_profiles", "users", "rates",
   "routes"}

\* <<referring table, table referred to>>, by what a deletion there does.
CascadingKeys ==
  {<<"agent_profiles", "users">>, <<"refresh_tokens", "users">>,
   <<"recipients", "users">>, <<"rates", "routes">>,
   <<"shipment_items", "shipments">>, <<"shipment_events", "shipments">>,
   <<"payments", "shipments">>}

RestrictingKeys ==
  {<<"shipments", "users">>, <<"shipments", "routes">>,
   <<"attachments", "users">>, <<"payments", "attachments">>}

Ids(table) == {row.id : row \in db[table]}

-------------------------------------------------------------------------------
(* The statements.                                                         *)

deleteMany(table) == [do |-> "deleteMany", table |-> table]
create(rows)      == [do |-> "create", rows |-> rows]
writeFile(key)    == [do |-> "writeFile", key |-> key]

In(table, id, of, is) ==
  [table |-> table, row |-> [id |-> id, of |-> of, is |-> is]]

\* A bug: a table is emptied before the one that refers to it.
clean_AttachmentsFirst ==
  <<deleteMany("audit_logs"), deleteMany("attachments"), deleteMany("payments"),
    deleteMany("shipment_events"), deleteMany("shipment_items"),
    deleteMany("shipments"), deleteMany("recipients"), deleteMany("refresh_tokens"),
    deleteMany("agent_profiles"), deleteMany("users"), deleteMany("rates"),
    deleteMany("routes")>>

clean ==
  <<deleteMany("audit_logs"), deleteMany("payments"), deleteMany("attachments"),
    deleteMany("shipment_events"), deleteMany("shipment_items"),
    deleteMany("shipments"), deleteMany("recipients"), deleteMany("refresh_tokens"),
    deleteMany("agent_profiles"), deleteMany("users"), deleteMany("rates"),
    deleteMany("routes")>>

seedRoutes ==
  [i \in DOMAIN ROUTES |->
     LET route == ROUTES[i]
     IN  create(<<In("routes", route.code, << >>, [serviceType |-> route.serviceType]),
                  In("rates", route.code, [routes |-> route.code], route.rate)>>)]

seedAdmin == <<create(<<In("users", "admin", << >>, [role |-> "ADMIN"])>>)>>

seedUsers ==
  [i \in DOMAIN USERS |->
     LET user == USERS[i]
     IN  create(<<In("users", user.id, << >>, [role |-> user.role])>>
           \o IF user.approvalStatus = NULL THEN << >>
              ELSE <<In("agent_profiles", user.id, [users |-> user.id],
                        [approvalStatus |-> user.approvalStatus])>>)]

seedRecipients ==
  [i \in DOMAIN RECIPIENTS |->
     create(<<In("recipients", RECIPIENTS[i].id, [users |-> RECIPIENTS[i].user], << >>)>>)]

-------------------------------------------------------------------------------
(* Shipments and payments.                                                 *)

routeOf(code) == ROUTES[CHOOSE i \in DOMAIN ROUTES : ROUTES[i].code = code]

\* A bug: the minimum weight is forgotten.
calculateRateFor_AnyWeight(route, weight) ==
  [chargeableWeight |-> CeilKg(weight),
   total |-> RoundUp100(CeilKg(weight) * route.rate.pricePerKg + route.rate.baseFee)]

\* The program's own copy of the tariff.
calculateRateFor(route, weight) ==
  LET charged == AtLeast(CeilKg(weight), route.rate.minChargeableWeight)
  IN  [chargeableWeight |-> charged,
       total |-> RoundUp100(charged * route.rate.pricePerKg + route.rate.baseFee)]

\* A shipment with its items and its timeline, in one statement.  Its id is a name
\* with a number.
createShipment(id, user, code, is, timeline) ==
  <<create(<<In("shipments", id, [users |-> user, routes |-> code], is),
             In("shipment_items", id, [shipments |-> id], << >>)>>
           \o [step \in DOMAIN timeline |->
                 In("shipment_events", <<id, step>>, [shipments |-> id],
                    timeline[step])])>>

\* A bug: the row comes before the file.
createPayment_RowFirst(id, user, is) ==
  <<create(<<In("attachments", id, [users |-> user], [storageKey |-> id])>>),
    writeFile(id),
    create(<<In("payments", id, [shipments |-> id, attachments |-> id], is)>>)>>

\* The proof is stored, then its attachment inserted, then the payment.  It goes
\* by the name of its shipment.
createPayment(id, user, is) ==
  <<writeFile(id),
    create(<<In("attachments", id, [users |-> user], [storageKey |-> id])>>),
    create(<<In("payments", id, [shipments |-> id, attachments |-> id], is)>>)>>

Verified(amount, ago) ==
  [status |-> "VERIFIED", claimedAmount |-> amount, verifiedAgo |-> ago]

Waiting(amount) ==
  [status |-> "WAITING_VERIFICATION", claimedAmount |-> amount, verifiedAgo |-> 0]

At(status, ago) == [status |-> status, ago |-> ago]

ShipmentIs(status, previous, payment, declared, actual, rate, outstanding, created, updated) ==
  [status |-> status, previousStatus |-> previous, paymentStatus |-> payment,
   declaredWeight |-> declared, actualWeight |-> actual,
   chargeableWeight |-> rate.chargeableWeight, totalAmount |-> rate.total,
   outstandingAmount |-> outstanding, createdAgo |-> created,
   updatedAgo |-> updated]

seedCustomerShipments ==
  LET first  == calculateRateFor(routeOf("UPG"), 120)
      second == calculateRateFor(routeOf("JATIM"), 40)
      third  == calculateRateFor(routeOf("MDC"), 75)
  IN  createShipment(<<"shipment", 1>>, "customer", "UPG",
        ShipmentIs("IN_TRANSIT", NULL, "PAID", 120, 124, first, 0, 4, 1),
        <<At("PENDING_PAYMENT", 4), At("PAID", 4), At("RECEIVED_AT_WAREHOUSE", 2),
          At("IN_TRANSIT", 1)>>)
      \o createPayment(<<"shipment", 1>>, "customer", Verified(first.total, 4))
      \o createShipment(<<"shipment", 2>>, "customer", "JATIM",
           ShipmentIs("PENDING_PAYMENT", NULL, "UNPAID", 40, 0, second, second.total,
                      1, 1),
           <<At("PENDING_PAYMENT", 1)>>)
      \o createShipment(<<"shipment", 3>>, "agent-approved", "MDC",
           ShipmentIs("DELIVERED", NULL, "PAID", 75, 75, third, 0, 26, 21),
           <<At("PENDING_PAYMENT", 26), At("PAID", 26), At("RECEIVED_AT_WAREHOUSE", 25),
             At("IN_TRANSIT", 24), At("ARRIVED_AT_DESTINATION", 22),
             At("READY_FOR_PICKUP", 22), At("DELIVERED", 21)>>)
      \o createPayment(<<"shipment", 3>>, "agent-approved", Verified(third.total, 26))

\* A bug: every service passes both the counter and the courier.
filteredPath_AnyService(plan) ==
  LET effective == IF plan.previousStatus = NULL THEN plan.status ELSE plan.previousStatus
  IN  IF Contains(STATUS_PATH, effective)
      THEN SubSeq(STATUS_PATH, 1, CHOOSE i \in DOMAIN STATUS_PATH : STATUS_PATH[i] = effective)
      ELSE <<"PENDING_PAYMENT">>

\* The path to the status of now, or to the one before ON_HOLD, as far as the
\* service knows it; a status that is not on the path has only its beginning.
filteredPath(plan) ==
  LET effective == IF plan.previousStatus = NULL THEN plan.status ELSE plan.previousStatus
      path == IF Contains(STATUS_PATH, effective)
              THEN SubSeq(STATUS_PATH, 1,
                          CHOOSE i \in DOMAIN STATUS_PATH : STATUS_PATH[i] = effective)
              ELSE <<"PENDING_PAYMENT">>
      service == routeOf(plan.destination).serviceType
  IN  FlattenSeq([step \in DOMAIN path |->
        IF isAllowedForService(path[step], service) THEN <<path[step]>> ELSE << >>])

createdDaysAgo(plan) == plan.staleDays + Len(filteredPath(plan)) + 2

timeline(plan) ==
  LET path == filteredPath(plan)
      created == createdDaysAgo(plan)
      pace == AtLeast(1, created \div (Len(path) + 1))
  IN  [step \in DOMAIN path |->
         At(path[step], AtLeast(plan.staleDays, created - (step - 1) * pace))]
      \o IF plan.previousStatus = NULL THEN << >>
         ELSE <<At(plan.status, plan.staleDays)>>

\* A bug: whoever has sent a proof is taken to have paid.
operationalPayment_Trusting(plan, total) ==
  IF Contains(filteredPath(plan), "PAID") \/ plan.awaitingVerification
  THEN <<Verified(total, createdDaysAgo(plan) - 1)>>
  ELSE << >>

\* The payment of an entry of the plan, if it has one.
operationalPayment(plan, total) ==
  IF Contains(filteredPath(plan), "PAID")
  THEN <<Verified(total, createdDaysAgo(plan) - 1)>>
  ELSE IF plan.awaitingVerification
       THEN <<Waiting(total + plan.claimedDelta)>>
       ELSE << >>

\* The statements for the entry with the given index.
operationalShipment(index) ==
  LET plan   == OPERATIONAL_PLAN[index]
      route  == routeOf(plan.destination)
      rate   == calculateRateFor(route, plan.weight)
      sender == OPERATIONAL_SENDERS[((index - 1) % Len(OPERATIONAL_SENDERS)) + 1]
      isPaid == Contains(filteredPath(plan), "PAID")
      id     == <<"shipment-op", index - 1>>
  IN  createShipment(id, sender, plan.destination,
        ShipmentIs(plan.status, plan.previousStatus,
          IF isPaid THEN "PAID"
          ELSE IF plan.awaitingVerification THEN "WAITING_VERIFICATION" ELSE "UNPAID",
          plan.weight, IF isPaid THEN plan.weight ELSE 0, rate,
          IF isPaid THEN 0 ELSE rate.total, createdDaysAgo(plan), plan.staleDays),
        timeline(plan))
      \o FlattenSeq([i \in DOMAIN operationalPayment(plan, rate.total) |->
           createPayment(id, sender, operationalPayment(plan, rate.total)[i])])

seedOperationalShipments ==
  FlattenSeq([index \in DOMAIN OPERATIONAL_PLAN |-> operationalShipment(index)])

-------------------------------------------------------------------------------
(* main().                                                                 *)

\* A bug: the admin first, so that the guard below locks too early.
MinimalProgram_AdminFirst == clean \o seedAdmin \o seedRoutes

MinimalProgram == clean \o seedRoutes \o seedAdmin

FullProgram ==
  MinimalProgram \o seedUsers \o seedRecipients \o seedCustomerShipments
    \o seedOperationalShipments

Program == IF seed.minimal THEN MinimalProgram ELSE FullProgram

Running == seed.at # 0 /\ seed.at \in DOMAIN Program

\* After the last statement the rows are counted and the program ends.
Finished == seed.at = Len(Program) + 1

NotRunning == [minimal |-> FALSE, at |-> 0]

\* A bug: a production database is only protected from the sample data.
SafeForProduction_Minimal(minimal) == production => minimal

\* assertSafeForProduction: no sample data in production, and nothing to lose.
SafeForProduction(minimal) == production => minimal /\ db["users"] = {}

Start(minimal) ==
  /\ seed.at = 0
  /\ SafeForProduction(minimal)
  /\ seed' = [minimal |-> minimal, at |-> 1]
  /\ UNCHANGED <<production, db, files>>

\* The rows that a statement would leave without the row they refer to.
Refused(statement) ==
  \/ /\ statement.do = "deleteMany"
     /\ \E key \in RestrictingKeys :
          key[2] = statement.table /\ db[key[1]] # {} /\ db[key[2]] # {}
  \/ /\ statement.do = "create"
     /\ \E i \in DOMAIN statement.rows :
          LET new == statement.rows[i]
          IN  \/ new.row.id \in Ids(new.table)
              \/ \E parent \in DOMAIN new.row.of :
                   /\ new.row.of[parent] \notin Ids(parent)
                   /\ \A j \in 1 .. (i - 1) :
                        statement.rows[j].table # parent
                          \/ statement.rows[j].row.id # new.row.of[parent]

Advance == seed' = [seed EXCEPT !.at = @ + 1]

\* Emptying a table empties the tables whose rows hang on it.
DeleteMany ==
  /\ Running
  /\ Program[seed.at].do = "deleteMany"
  /\ ~Refused(Program[seed.at])
  /\ LET table == Program[seed.at].table
     IN  db' = [t \in Tables |->
                  IF t = table \/ <<t, table>> \in CascadingKeys THEN {} ELSE db[t]]
  /\ Advance
  /\ UNCHANGED <<production, files>>

Create ==
  /\ Running
  /\ Program[seed.at].do = "create"
  /\ ~Refused(Program[seed.at])
  /\ LET rows == Program[seed.at].rows
     IN  db' = [t \in Tables |->
                  db[t] \cup {rows[i].row : i \in {j \in DOMAIN rows : rows[j].table = t}}]
  /\ Advance
  /\ UNCHANGED <<production, files>>

WriteFile ==
  /\ Running
  /\ Program[seed.at].do = "writeFile"
  /\ files' = files \cup {Program[seed.at].key}
  /\ Advance
  /\ UNCHANGED <<production, db>>

\* process.exit(1) on an error, a crash, or the end of the program.
Stop ==
  /\ seed.at # 0
  /\ seed' = NotRunning
  /\ UNCHANGED <<production, db, files>>

-------------------------------------------------------------------------------
(* The server, meanwhile.                                                  *)

VisitorWrites(table, row) ==
  /\ row.id \notin Ids(table)
  /\ \A parent \in DOMAIN row.of : row.of[parent] \in Ids(parent)
  /\ db' = [db EXCEPT ![table] = @ \cup {row}]
  /\ UNCHANGED <<production, files, seed>>

Register(v) ==
  VisitorWrites("users", [id |-> v, of |-> << >>, is |-> [role |-> "CUSTOMER"]])

Book(v, code) ==
  VisitorWrites("shipments",
    [id |-> <<"visitor", v>>, of |-> [users |-> v, routes |-> code],
     is |-> ShipmentIs("PENDING_PAYMENT", NULL, "UNPAID", 10, 0,
                       calculateRateFor(routeOf(code), 10),
                       calculateRateFor(routeOf(code), 10).total, 0, 0)])

-------------------------------------------------------------------------------
SeedingInit ==
  /\ production \in BOOLEAN
  /\ db = [t \in Tables |-> {}]
  /\ files = {}
  /\ seed = NotRunning

SeedingNext ==
  \/ \E minimal \in BOOLEAN : Start(minimal)
  \/ DeleteMany
  \/ Create
  \/ WriteFile
  \/ Stop
  \/ \E v \in Visitors : Register(v)
  \/ \E v \in Visitors : Book(v, ROUTES[1].code)

SeedingSpec == SeedingInit /\ [][SeedingNext]_seedingVars
-------------------------------------------------------------------------------
NoVisitor ==
  /\ Ids("users") \cap Visitors = {}
  /\ \A id \in Ids("shipments") : id[1] # "visitor"

\* Wherever an earlier run broke off, no statement is refused by a foreign key or
\* a unique index, unless the server wrote something meanwhile (clean, main).
NothingIsRefused == Running /\ NoVisitor => ~Refused(Program[seed.at])

\* In production an account that exists while no seed runs is never deleted: the
\* next seed refuses to start (assertSafeForProduction).
ProductionKeepsAccounts ==
  \A id \in Visitors \cup {"admin"} :
    [](production /\ seed.at = 0 /\ id \in Ids("users") => [](id \in Ids("users")))

\* In production the guard locks with the first account.  The admin is the last
\* row, so that what the seed then refuses to repeat is complete (main).
AdminMeansSeeded ==
  production /\ "admin" \in Ids("users") =>
    \A i \in DOMAIN ROUTES :
      ROUTES[i].code \in Ids("routes") \cap Ids("rates")

\* An attachment has its file, also when the seed breaks off between the two
\* (storeProof, createPayment).
AttachmentsHaveFiles == \A row \in db["attachments"] : row.is.storageKey \in files

\* The timeline of a sample shipment could have happened: it starts with the
\* booking, each step is one that the status machine allows for the service, none
\* is dated before the one it follows, and it ends with the status of the row --
\* save for CANCELLED, which the program leaves out (createShipment,
\* seedOperationalShipments).
SeededHistoryIsLegal ==
  \A shipment \in db["shipments"] :
    LET service == routeOf(shipment.of["routes"]).serviceType
        events == {row \in db["shipment_events"] : row.of["shipments"] = shipment.id}
        At1(step) == (CHOOSE row \in events : row.id[2] = step).is
        last == Cardinality(events)
    IN  last > 0 =>
          /\ At1(1).status = "PENDING_PAYMENT"
          /\ At1(1).ago <= shipment.is.createdAgo
          /\ \A step \in 2 .. last :
               /\ At1(step).ago <= At1(step - 1).ago
               /\ isValidTransition(At1(step - 1).status, At1(step).status, service, NULL)
          /\ \/ At1(last).status = shipment.is.status
             \/ shipment.is.status = "CANCELLED"
          /\ shipment.is.status = "ON_HOLD" =>
               At1(last - 1).status = shipment.is.previousStatus

Complete == Finished /\ ~seed.minimal /\ NoVisitor

\* The sample data is what the README announces (README.md, "Data contoh") and what
\* the dashboards then show: 8 routes with their rates, 10 accounts, 40 shipments in
\* every status, 4 payments to verify of which one claims another amount than the
\* bill, 10 shipments that do not move, 2 on hold that can be resumed.
SeededFigures ==
  Complete =>
    LET shipments == db["shipments"]
        payments  == db["payments"]
        figures   == summary(shipments, payments, db["agent_profiles"])
        waiting   == {row \in payments : row.is.status = "WAITING_VERIFICATION"}
        budi      == summaryFor(shipments, "customer")
    IN  /\ Cardinality(Ids("routes")) = 8 /\ Ids("rates") = Ids("routes")
        /\ Cardinality(Ids("users")) = 10
        /\ figures.totalShipments = 40
        /\ DOMAIN figures.statusCounts = Status
        /\ figures.statusCounts["ON_HOLD"] = 2
        /\ figures.pendingPaymentVerification = 4
        /\ figures.stalledShipments = 10
        /\ Cardinality({row \in waiting :
             \E shipment \in shipments :
               /\ shipment.id = row.of["shipments"]
               /\ shipment.is.totalAmount # row.is.claimedAmount}) = 1
        /\ budi = [totalShipments |-> 2, awaitingPaymentCount |-> 1,
                   inProgressCount |-> 1, deliveredCount |-> 0]

\* A sample shipment and its payment tell one story: the bill is the tariff of its
\* route, it is settled exactly when a payment of its amount was verified, no later
\* than its PAID event, and it waits exactly when a payment waits.
SeededBillsAgree ==
  Complete =>
    \A shipment \in db["shipments"] :
      LET is       == shipment.is
          rate     == routeOf(shipment.of["routes"]).rate
          own      == {row.is : row \in {p \in db["payments"] : p.id = shipment.id}}
          verified == {payment \in own : payment.status = "VERIFIED"}
          paid     == {row.is : row \in {e \in db["shipment_events"] :
                         e.of["shipments"] = shipment.id /\ e.is.status = "PAID"}}
      IN  /\ is.totalAmount = calculateTariff(is.declaredWeight, rate).total
          /\ is.paymentStatus = "PAID" <=> verified # {}
          /\ is.paymentStatus = "PAID" <=> paid # {}
          /\ is.outstandingAmount = IF verified = {} THEN is.totalAmount ELSE 0
          /\ is.paymentStatus = "WAITING_VERIFICATION" <=> own # {} /\ verified = {}
          /\ \A payment \in verified, event \in paid :
               /\ payment.claimedAmount = is.totalAmount
               /\ payment.verifiedAgo <= is.createdAgo
               /\ event.ago <= payment.verifiedAgo
===============================================================================
