------------------------------ MODULE RouteRates ------------------------------
(***************************************************************************)
(* Routes and the rates they are priced at: src/src/routes.  Admins create *)
(* routes, switch them on and off and set their rates.  A rate is never    *)
(* changed: setRate deactivates the active rates of the route and inserts  *)
(* a new one, in one transaction.  PostgreSQL runs it at Read Committed,   *)
(* so its UPDATE sees the rates committed before that statement, and what  *)
(* it wrote shows at the commit.                                           *)
(***************************************************************************)
EXTENDS FreshShipment, Sequences

CONSTANTS
  Routes,      \* the (serviceType, destinationCode) pairs there may be a route for
  Offers,      \* rates that an admin may ask for
  Seed,        \* the routes that seed.ts creates, in order, each with its rate
  Admins,      \* slots of admin requests in flight
  MaxRates     \* bound of the checks: length of the rate history

ASSUME RoutesAssumption == \A k \in Routes : k.serviceType \in ServiceType
ASSUME OffersAssumption == Offers \subseteq Rate
ASSUME SeedAssumption ==
  /\ Seed \in Seq([route : Routes, isActive : BOOLEAN, terms : Offers])
  /\ \A i, j \in DOMAIN Seed : Seed[i].route = Seed[j].route => i = j
  /\ MaxRates \in Nat /\ Len(Seed) <= MaxRates

VARIABLES
  route,       \* table routes: isActive of each route that exists
  rate,        \* table rates, in the order of their commits
  routeAudit,  \* the newest row of audit_logs about a route or a rate (a
               \* ROUTE_UPDATED row without its before and after)
  admin        \* what each slot is about to do

tables    == <<route, rate, routeAudit>>
routeVars == <<route, rate, routeAudit, admin>>

RateRow == [route : Routes, terms : Offers, isActive : BOOLEAN]

\* A nullable column or an optional field: nothing, or one value.
Optional(S) == {{}} \cup {{value} : value \in S}

RouteAuditRow ==
  [action : {"NONE"}]
    \cup [action : {"ROUTE_CREATED", "ROUTE_UPDATED"}, entity : Routes]
    \cup [action : {"RATE_UPDATED"}, entity : Routes,
          before : Optional(Offers), after : Offers]

RatesOf(k) == {i \in DOMAIN rate : rate[i].route = k}

\* withActiveRate: the rates of which a read takes one, in no particular order.
ActiveRates(k) == {i \in RatesOf(k) : rate[i].isActive}

-------------------------------------------------------------------------------
(* Requests in flight.                                                     *)

AdminIdle == [op |-> "idle"]

AdminState ==
  [op : {"idle"}]
    \cup [op : {"create"}, route : Routes, isActive : BOOLEAN]
    \cup [op : {"update"}, route : Routes, isActive : Optional(BOOLEAN)]
    \cup [op : {"price"}, route : Routes, terms : Offers,
          before : Optional(Offers)]
    \cup [op : {"replace"}, route : Routes, terms : Offers,
          before : Optional(Offers), replaced : SUBSET (1 .. MaxRates)]

AdminBegin(a, plan) ==
  /\ admin[a] = AdminIdle
  /\ admin' = [admin EXCEPT ![a] = plan]

AdminFinish(a) == admin' = [admin EXCEPT ![a] = AdminIdle]

-------------------------------------------------------------------------------
(* POST /admin/routes.                                                     *)

CreateRouteRead(a, k, isActive) ==
  /\ k \notin DOMAIN route
  /\ AdminBegin(a, [op |-> "create", route |-> k, isActive |-> isActive])
  /\ UNCHANGED tables

\* The unique index on (serviceType, destinationCode) refuses a second route.
CreateRouteWrite(a) ==
  /\ admin[a].op = "create"
  /\ LET k == admin[a].route
     IN  IF k \in DOMAIN route
         THEN UNCHANGED tables
         ELSE /\ route' = [j \in DOMAIN route \cup {k} |->
                             IF j = k THEN admin[a].isActive ELSE route[j]]
              /\ routeAudit' = [action |-> "ROUTE_CREATED", entity |-> k]
              /\ UNCHANGED rate
  /\ AdminFinish(a)

-------------------------------------------------------------------------------
(* PATCH /admin/routes/:id, with at least one field.                       *)

UpdateRouteRead(a, k, isActive) ==
  /\ k \in DOMAIN route
  /\ AdminBegin(a, [op |-> "update", route |-> k, isActive |-> isActive])
  /\ UNCHANGED tables

UpdateRouteWrite(a) ==
  /\ admin[a].op = "update"
  /\ LET k     == admin[a].route
         given == admin[a].isActive
     IN  /\ route' = [route EXCEPT ![k] = IF given = {} THEN @ ELSE given = {TRUE}]
         /\ routeAudit' = [action |-> "ROUTE_UPDATED", entity |-> k]
  /\ AdminFinish(a)
  /\ UNCHANGED rate

-------------------------------------------------------------------------------
(* PUT /admin/routes/:id/rate.                                             *)

\* A bug: the route is read without its rates, so none seems to be replaced.
PreviousTerms_NotIncluded(k) == {{}}

\* What the read of the route may return as its active rate.
PreviousTerms(k) ==
  IF ActiveRates(k) = {} THEN {{}} ELSE {{rate[i].terms} : i \in ActiveRates(k)}

SetRateRead(a, k, terms) ==
  /\ k \in DOMAIN route
  /\ terms.pricePerKg > 0
  /\ terms.minChargeableWeight > 0
  /\ \E before \in PreviousTerms(k) :
       AdminBegin(a, [op |-> "price", route |-> k, terms |-> terms,
                      before |-> before])
  /\ UNCHANGED tables

\* A bug: the deactivation is a statement of its own, outside the transaction.
SetRateDeactivate_Commits(a) ==
  /\ admin[a].op = "price"
  /\ admin' = [admin EXCEPT ![a] =
                 [op |-> "replace", route |-> admin[a].route,
                  terms |-> admin[a].terms, before |-> admin[a].before,
                  replaced |-> {}]]
  /\ rate' = [i \in DOMAIN rate |->
                [rate[i] EXCEPT !.isActive = @ /\ rate[i].route # admin[a].route]]
  /\ UNCHANGED <<route, routeAudit>>

\* A bug: the updateMany does not say which route it is about.
SetRateDeactivate_AnyRoute(a) ==
  /\ admin[a].op = "price"
  /\ admin' = [admin EXCEPT ![a] =
                 [op |-> "replace", route |-> admin[a].route,
                  terms |-> admin[a].terms, before |-> admin[a].before,
                  replaced |-> {i \in DOMAIN rate : rate[i].isActive}]]
  /\ UNCHANGED tables

\* The updateMany: the rows it finds active are deactivated at the commit.
SetRateDeactivate(a) ==
  /\ admin[a].op = "price"
  /\ admin' = [admin EXCEPT ![a] =
                 [op |-> "replace", route |-> admin[a].route,
                  terms |-> admin[a].terms, before |-> admin[a].before,
                  replaced |-> ActiveRates(admin[a].route)]]
  /\ UNCHANGED tables

\* A bug: the rates found active are left so.
Replaced_Forgotten(a) == rate

\* The history once the rates found active are deactivated.
Replaced(a) ==
  [i \in DOMAIN rate |->
     [rate[i] EXCEPT !.isActive = @ /\ i \notin admin[a].replaced]]

SetRateCommit(a) ==
  /\ admin[a].op = "replace"
  /\ Len(rate) < MaxRates
  /\ LET k == admin[a].route
     IN  /\ rate' = Append(Replaced(a), [route |-> k, terms |-> admin[a].terms,
                                         isActive |-> TRUE])
         /\ routeAudit' = [action |-> "RATE_UPDATED", entity |-> k,
                           before |-> admin[a].before, after |-> admin[a].terms]
  /\ AdminFinish(a)
  /\ UNCHANGED route

-------------------------------------------------------------------------------
\* A database error or a crash: an open transaction is rolled back.
AdminFail(a) ==
  /\ admin[a] # AdminIdle
  /\ AdminFinish(a)
  /\ UNCHANGED tables

\* An empty database, or what the seed leaves in it.
RoutesInit ==
  /\ route = [k \in {Seed[i].route : i \in DOMAIN Seed} |->
                \E i \in DOMAIN Seed : Seed[i].route = k /\ Seed[i].isActive]
  /\ rate = [i \in DOMAIN Seed |-> [route |-> Seed[i].route,
                                    terms |-> Seed[i].terms, isActive |-> TRUE]]
  /\ routeAudit = [action |-> "NONE"]
  /\ admin = [a \in Admins |-> AdminIdle]

AdminStep(a) ==
  \/ \E k \in Routes, isActive \in BOOLEAN : CreateRouteRead(a, k, isActive)
  \/ \E k \in Routes, isActive \in Optional(BOOLEAN) : UpdateRouteRead(a, k, isActive)
  \/ \E k \in Routes, terms \in Offers : SetRateRead(a, k, terms)
  \/ CreateRouteWrite(a)
  \/ UpdateRouteWrite(a)
  \/ SetRateDeactivate(a)
  \/ SetRateCommit(a)
  \/ AdminFail(a)

RoutesNext == \E a \in Admins : AdminStep(a)

RoutesSpec == RoutesInit /\ [][RoutesNext]_routeVars
-------------------------------------------------------------------------------
RoutesTypeOK ==
  /\ DOMAIN route \subseteq Routes
  /\ route \in [DOMAIN route -> BOOLEAN]
  /\ rate \in Seq(RateRow)
  /\ Len(rate) <= MaxRates
  /\ routeAudit \in RouteAuditRow
  /\ admin \in [Admins -> AdminState]

\* A route that was ever priced can be priced at any time: however changes of
\* its rate overlap or fail, it is never left without an active rate (setRate's
\* one transaction; getPricing answers ROUTE_NOT_SERVED where there is none).
PricedStaysPriced == \A k \in Routes : RatesOf(k) # {} => ActiveRates(k) # {}

\* A change of a rate that is under way replaces rates of its own route only,
\* whatever other changes commit meanwhile (the where of setRate's updateMany).
ReplacementsInFlight ==
  \A a \in Admins :
    admin[a].op = "replace" => admin[a].replaced \subseteq RatesOf(admin[a].route)

\* While one admin at a time changes rates, a route has one active rate at most,
\* so that every quote and booking gets the same price (setRate, getPricing).
OneActiveRate ==
  \A k \in Routes : \A i, j \in ActiveRates(k) : i = j

\* While one admin at a time changes rates, a RATE_UPDATED row tells the rate that
\* really was replaced (setRate's before).
RateAuditTellsTheChange ==
  [][ rate' # rate =>
        routeAudit'.before = {rate[i].terms : i \in ActiveRates(routeAudit'.entity)}
    ]_routeVars
===============================================================================
