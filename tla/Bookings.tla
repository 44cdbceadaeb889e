------------------------------- MODULE Bookings -------------------------------
(***************************************************************************)
(* How a shipment comes into being: create and duplicate (by its owner,    *)
(* src/src/shipments/shipments.service.ts) and createWalkIn (by an admin,  *)
(* admin-shipments.service.ts), composed with the routes and rates they    *)
(* are priced from and the accounts they are made for.  A booking is a     *)
(* chain of awaits - the account, the price, the tracking number, the      *)
(* insert, and for a walk-in the audit row - and routes, rates and         *)
(* accounts may change between any two of them.                            *)
(***************************************************************************)
EXTENDS RouteRates, Accounts

CONSTANTS
  Weights,      \* weights a booking may declare, in tenths of a kilogram
  Numbers,      \* tracking numbers that may be drawn
  Desks,        \* slots of booking requests in flight
  MaxBookings,  \* bound of the checks: length of the booking history
  TRACKING_NUMBER_ATTEMPTS   \* 5 in the code

ASSUME WeightsArePositive == \A weight \in Weights : weight \in Int /\ weight > 0
ASSUME MaxBookingsAssumption == MaxBookings \in Nat
ASSUME AttemptsAssumption == TRACKING_NUMBER_ATTEMPTS \in Nat \ {0}

VARIABLES
  booking,      \* table shipments as bookings leave it, in the order of commits
  addressBook,  \* table recipients: <<owner, booking>> each entry was copied from
  walkInAudit,  \* audit_logs: bookings with a SHIPMENT_CREATED_BY_ADMIN row
  desk          \* what each slot is about to do

bookingTables == <<booking, addressBook, walkInAudit>>
bookingVars   == <<booking, addressBook, walkInAudit, desk>>
otherVars     == <<routeVars, accountVars>>
vars          == <<bookingVars, otherVars>>

\* byAdmin stands for the note of the first event, which tells a walk-in.
BookingRow ==
  [owner : Emails, route : Routes, number : Numbers, byAdmin : BOOLEAN,
   rate : Rate, declaredWeight : Weights, chargeableWeight : Nat,
   totalAmount : Nat, outstandingAmount : Nat]

NumbersTaken == {booking[i].number : i \in DOMAIN booking}

-------------------------------------------------------------------------------
(* Requests in flight.                                                     *)

DeskIdle == [op |-> "idle"]

\* What a booking asks for, known once its first await has resolved.
Asked ==
  [owner : Emails, route : Routes, weight : Weights,
   byAdmin : BOOLEAN, saveRecipient : BOOLEAN]

DeskState ==
  [op : {"idle"}]
    \cup [op : {"check", "price"}, asked : Asked]
    \cup [op : {"number"}, asked : Asked, terms : Offers,
          attempt : 0 .. (TRACKING_NUMBER_ATTEMPTS - 1)]
    \cup [op : {"insert"}, asked : Asked, terms : Offers, number : Numbers]
    \cup [op : {"audit"}, booking : 1 .. MaxBookings]

DeskBegin(d, plan) ==
  /\ desk[d] = DeskIdle
  /\ desk' = [desk EXCEPT ![d] = plan]

Continue(d, plan) == desk' = [desk EXCEPT ![d] = plan]

DeskFinish(d) == desk' = [desk EXCEPT ![d] = DeskIdle]

-------------------------------------------------------------------------------
(* The beginnings.                                                         *)

\* A bug: every agent may book, whatever became of its review.
BookingAllowed_AnyAgent(u) == u \in DOMAIN account

\* assertBookingAllowed: an agent books while it is approved.
BookingAllowed(u) ==
  /\ u \in DOMAIN account
  /\ account[u].role = "AGENT" => account[u].approvalStatus = "APPROVED"

\* POST /shipments: the account, then the checks of the body.
CreateRead(d, u, k, weight, save) ==
  /\ BookingAllowed(u)
  /\ weight <= MAX_WEIGHT
  /\ DeskBegin(d, [op |-> "price",
                   asked |-> [owner |-> u, route |-> k, weight |-> weight,
                              byAdmin |-> FALSE, saveRecipient |-> save]])

\* POST /shipments/:id/duplicate: the booking it copies, then the account.
DuplicateRead(d, i) ==
  DeskBegin(d, [op |-> "check",
                asked |-> [owner |-> booking[i].owner, route |-> booking[i].route,
                           weight |-> booking[i].declaredWeight,
                           byAdmin |-> FALSE, saveRecipient |-> FALSE]])

\* A bug: the owner of the copied booking is not checked again.
DuplicateCheck_Skipped(d) ==
  /\ desk[d].op = "check"
  /\ Continue(d, [desk[d] EXCEPT !.op = "price"])

DuplicateCheck(d) ==
  /\ desk[d].op = "check"
  /\ IF BookingAllowed(desk[d].asked.owner)
     THEN Continue(d, [desk[d] EXCEPT !.op = "price"])
     ELSE DeskFinish(d)

\* POST /admin/shipments: for the admin himself, or for an account that is active.
WalkInRead(d, u, k, weight) ==
  /\ u \in DOMAIN account
  /\ account[u].status # "SUSPENDED"
  /\ weight <= MAX_WEIGHT
  /\ DeskBegin(d, [op |-> "price",
                   asked |-> [owner |-> u, route |-> k, weight |-> weight,
                              byAdmin |-> TRUE, saveRecipient |-> FALSE]])

-------------------------------------------------------------------------------
(* The rest of the chain, the same for all three.                          *)

\* A bug: the rate is looked up by destination alone.
Pricing_AnyService(k) == {i \in DOMAIN rate : rate[i].isActive}

\* A bug: whichever rate of the route is found first, in force or not.
Pricing_AnyRate(k) == {i \in RatesOf(k) : k \in DOMAIN route /\ route[k]}

\* getPricing: the active rates the read may return, if the route is served.
Pricing(k) == {i \in ActiveRates(k) : k \in DOMAIN route /\ route[k]}

Price(d) ==
  /\ desk[d].op = "price"
  /\ LET found == Pricing(desk[d].asked.route)
     IN  IF found = {}
         THEN DeskFinish(d)
         ELSE \E i \in found :
                Continue(d, [op |-> "number", asked |-> desk[d].asked,
                             terms |-> rate[i].terms, attempt |-> 0])

\* A bug: the last attempt is followed by another.
DrawNumber_OneMore(d, number) ==
  /\ desk[d].op = "number"
  /\ IF number \notin NumbersTaken
     THEN Continue(d, [op |-> "insert", asked |-> desk[d].asked,
                       terms |-> desk[d].terms, number |-> number])
     ELSE IF desk[d].attempt < TRACKING_NUMBER_ATTEMPTS
     THEN Continue(d, [desk[d] EXCEPT !.attempt = @ + 1])
     ELSE DeskFinish(d)

\* nextTrackingNumber: draws until a number is free, a few times at most.
DrawNumber(d, number) ==
  /\ desk[d].op = "number"
  /\ IF number \notin NumbersTaken
     THEN Continue(d, [op |-> "insert", asked |-> desk[d].asked,
                       terms |-> desk[d].terms, number |-> number])
     ELSE IF desk[d].attempt + 1 < TRACKING_NUMBER_ATTEMPTS
     THEN Continue(d, [desk[d] EXCEPT !.attempt = @ + 1])
     ELSE DeskFinish(d)

\* The row that repo.create inserts.
RowOf(asked, terms, number) ==
  LET row == Booked(asked.route.serviceType, terms, asked.weight, NULL)
  IN  [owner |-> asked.owner, route |-> asked.route, number |-> number,
       byAdmin |-> asked.byAdmin, rate |-> row.rate,
       declaredWeight |-> row.declaredWeight,
       chargeableWeight |-> row.chargeableWeight,
       totalAmount |-> row.totalAmount,
       outstandingAmount |-> row.outstandingAmount]

\* A bug: no unique index, the check of nextTrackingNumber is trusted.
Insertable_NoIndex(number) == TRUE

\* The unique index on trackingNumber.
Insertable(number) == number \notin NumbersTaken

\* The address book's new entry, if one was asked for.
SavedRecipient(asked, i) == IF asked.saveRecipient THEN {<<asked.owner, i>>} ELSE {}

\* A bug: the recipient is saved before the row is inserted, in a transaction of
\* its own.
Insert_SavesFirst(d) ==
  /\ desk[d].op = "insert"
  /\ Len(booking) < MaxBookings
  /\ LET asked == desk[d].asked
         i     == Len(booking) + 1
     IN  /\ addressBook' = addressBook \cup SavedRecipient(asked, i)
         /\ IF Insertable(desk[d].number)
            THEN booking' = Append(booking, RowOf(asked, desk[d].terms, desk[d].number))
            ELSE UNCHANGED booking
         /\ IF asked.byAdmin
            THEN Continue(d, [op |-> "audit", booking |-> i])
            ELSE DeskFinish(d)

Insert(d) ==
  /\ desk[d].op = "insert"
  /\ Len(booking) < MaxBookings
  /\ LET asked == desk[d].asked
         i     == Len(booking) + 1
     IN  IF Insertable(desk[d].number)
         THEN /\ booking' = Append(booking, RowOf(asked, desk[d].terms, desk[d].number))
              /\ addressBook' = addressBook \cup SavedRecipient(asked, i)
              /\ IF asked.byAdmin
                 THEN Continue(d, [op |-> "audit", booking |-> i])
                 ELSE DeskFinish(d)
         ELSE DeskFinish(d) /\ UNCHANGED <<booking, addressBook>>

\* The walk-in's audit row, on its own.
AuditWalkIn(d) ==
  /\ desk[d].op = "audit"
  /\ walkInAudit' = walkInAudit \cup {desk[d].booking}
  /\ DeskFinish(d)

\* A database error or a crash.
DeskFail(d) ==
  /\ desk[d] # DeskIdle
  /\ DeskFinish(d)

-------------------------------------------------------------------------------
Init ==
  /\ RoutesInit
  /\ AccountsInit
  /\ booking = <<>>
  /\ addressBook = {}
  /\ walkInAudit = {}
  /\ desk = [d \in Desks |-> DeskIdle]

\* The steps that only read the tables.
Inquire(d) ==
  \/ \E u \in Emails, k \in Routes, weight \in Weights :
       \/ \E save \in BOOLEAN : CreateRead(d, u, k, weight, save)
       \/ WalkInRead(d, u, k, weight)
  \/ \E i \in DOMAIN booking : DuplicateRead(d, i)
  \/ DuplicateCheck(d)
  \/ Price(d)
  \/ \E number \in Numbers : DrawNumber(d, number)
  \/ DeskFail(d)

DeskStep(d) ==
  \/ Inquire(d) /\ UNCHANGED bookingTables
  \/ Insert(d) /\ UNCHANGED walkInAudit
  \/ AuditWalkIn(d) /\ UNCHANGED <<booking, addressBook>>

BookingsNext == \E d \in Desks : DeskStep(d)

Next ==
  \/ RoutesNext /\ UNCHANGED <<bookingVars, accountVars>>
  \/ AccountsNext /\ UNCHANGED <<bookingVars, routeVars>>
  \/ BookingsNext /\ UNCHANGED otherVars

Spec == Init /\ [][Next]_vars
-------------------------------------------------------------------------------
BookingsTypeOK ==
  /\ booking \in Seq(BookingRow)
  /\ Len(booking) <= MaxBookings
  /\ addressBook \subseteq Emails \X (1 .. MaxBookings)
  /\ walkInAudit \subseteq 1 .. MaxBookings
  /\ desk \in [Desks -> DeskState]

TypeOK == RoutesTypeOK /\ AccountsTypeOK /\ BookingsTypeOK

\* Terms that were set for the route, now or before.
Quoted(k, terms) == \E i \in RatesOf(k) : terms = rate[i].terms

\* A booking's bill is the tariff of its declared weight at one rate of its own
\* route - all three columns of one rate that really was set - however the rates
\* changed while the request was under way (getPricing, calculateTariff, create).
PricedFromItsRoute ==
  \A b \in DOMAIN booking :
    LET row    == booking[b]
        tariff == calculateTariff(row.declaredWeight, row.rate)
    IN  /\ Quoted(row.route, row.rate)
        /\ row.chargeableWeight = tariff.chargeableWeight
        /\ row.totalAmount = tariff.total
        /\ row.outstandingAmount = tariff.total

\* No two bookings have one tracking number, although the number is checked in one
\* await and used in another (nextTrackingNumber, the unique index).
NumbersAreUnique ==
  \A i, j \in DOMAIN booking : booking[i].number = booking[j].number => i = j

\* An agent only after an admin has approved it, on record.
Cleared(u) ==
  u \in Agents => [action |-> "AGENT_APPROVED", entity |-> u] \in accountAudit

\* An agent that booked for itself was approved by an admin, on record, whatever
\* its status has become since (assertBookingAllowed in create and duplicate).
AgentsWereApproved ==
  \A i \in DOMAIN booking : ~booking[i].byAdmin => Cleared(booking[i].owner)

\* A booking under way is made for an account that exists and was cleared, is
\* quoted a rate that was set for its route, and saves no recipient for an admin.
StillStands(plan) ==
  /\ plan.op \in {"check", "price", "number", "insert"} =>
       /\ plan.asked.owner \in DOMAIN account
       /\ plan.asked.saveRecipient => ~plan.asked.byAdmin
  /\ plan.op \in {"price", "number", "insert"} =>
       (~plan.asked.byAdmin => Cleared(plan.asked.owner))
  /\ plan.op \in {"number", "insert"} => Quoted(plan.asked.route, plan.terms)

\* What was checked in one await of a booking still stands in the next ones
\* (assertBookingAllowed, getPricing).
BookingsInFlight == \A d \in Desks : StillStands(desk[d])

\* Every entry of an address book that a booking saved belongs to the owner of a
\* booking that was made (ShipmentsRepository.create is one transaction).
SavedWithItsBooking ==
  \A entry \in addressBook :
    /\ entry[2] \in DOMAIN booking
    /\ booking[entry[2]].owner = entry[1]
    /\ ~booking[entry[2]].byAdmin

-------------------------------------------------------------------------------
\* Every admin action leaves its audit row, in the same transaction: a walk-in
\* without one is still about to write it (README.md, "Hal yang mudah terlewat").
WalkInsAreAudited ==
  \A i \in DOMAIN booking :
    booking[i].byAdmin =>
      \/ i \in walkInAudit
      \/ \E d \in Desks : desk[d].op = "audit" /\ desk[d].booking = i
===============================================================================
