------------------------------ MODULE BookingsShop -----------------------------
(***************************************************************************)
(* The booking tables seen as a shop: the refinement mapping from Bookings *)
(* to Shop.  However routes, rates, accounts and bookings overlap and      *)
(* fail, the chains of awaits implement Shop.                              *)
(***************************************************************************)
EXTENDS Bookings

ServedRoutes == {k \in Routes : k \in DOMAIN route /\ route[k]}

TagsOf(k) == {rate[i].terms : i \in ActiveRates(k)}

\* Whom an admin may book for.
NotSuspended(u) == u \in DOMAIN account /\ account[u].status # "SUSPENDED"

WelcomeTo(byAdmin) ==
  {u \in Emails : IF byAdmin THEN NotSuspended(u) ELSE BookingAllowed(u)}

\* Where a request stands: to read a booking in order to copy it, to find its number
\* free or to fail the insert is nobody else's business.
StandingOf(plan) ==
  CASE plan.op = "price" -> [at |-> "counter", asked |-> plan.asked]
    [] plan.op \in {"number", "insert"} ->
         [at |-> "quoted", asked |-> plan.asked, terms |-> plan.terms]
    [] plan.op = "audit" -> [at |-> "record", sale |-> plan.booking]
    [] OTHER -> [at |-> "outside"]

SaleOf(i) ==
  [owner |-> booking[i].owner, route |-> booking[i].route, number |-> booking[i].number,
   byAdmin |-> booking[i].byAdmin, terms |-> booking[i].rate,
   weight |-> booking[i].declaredWeight, bill |-> booking[i].totalAmount,
   debt |-> booking[i].outstandingAmount,
   kept |-> <<booking[i].owner, i>> \in addressBook]

Tags      == [k \in Routes |-> TagsOf(k)]
Welcome   == [byAdmin \in BOOLEAN |-> WelcomeTo(byAdmin)]
Standings == [d \in Desks |-> StandingOf(desk[d])]
Sales     == [i \in DOMAIN booking |-> SaleOf(i)]

TheShop ==
  INSTANCE Shop WITH
    Clients  <- Desks,
    served   <- ServedRoutes,
    tags     <- Tags,
    welcome  <- Welcome,
    client   <- Standings,
    sold     <- Sales,
    recorded <- walkInAudit

\* However the awaits of bookings interleave with each other and with changes of
\* routes, rates and accounts, and wherever they fail: every booking is of one
\* request that was let in once, was quoted a price in force at that moment on a
\* route then served, and is made once, whole and at that price (create, duplicate,
\* createWalkIn, getPricing, nextTrackingNumber, setRate).
KeepsShop == TheShop!Spec
===============================================================================
