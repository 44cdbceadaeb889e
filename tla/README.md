# Verification of the shipment service

TLA+ models, model checking and machine-checked proofs for the backend in `src/`: a
NestJS server over PostgreSQL (Prisma) that books parcels, takes proofs of payment,
moves shipments through their statuses and keeps an audit trail.

Everything here is translated from the TypeScript under `src/src/` and `src/prisma/`; the documentation
of the repository is quoted only where it disagrees with the code (see *Findings*).
`PROJECT.json` holds the machine-readable part: components, runs, the lines each
definition models, hazards, findings, mutants and theorems.

- [1. The system](#1-the-system)
- [2. What is hard about it](#2-what-is-hard-about-it)
- [3. The modules](#3-the-modules)
- [4. How state and actions correspond to the code](#4-how-state-and-actions-correspond-to-the-code)
- [5. The runs](#5-the-runs)
- [6. The proofs](#6-the-proofs)
- [7. Findings](#7-findings)
- [8. What is not modelled](#8-what-is-not-modelled)
- [9. Plan](#9-plan)

## 1. The system

One Node process answers HTTP requests. A request runs a controller method, which calls
a service, which calls repositories; a repository call is one SQL statement or one
Prisma transaction. The process keeps no state between requests (the throttler's
counters aside): all state is in the tables and in the file storage. So components
interact by calling each other within one request and, between requests, only through
rows that several of them read and write.

| Component (source under `src/src/`) | State | Operations that change it | Calls / shares | What makes it correct |
|---|---|---|---|---|
| status machine (`shipments/shipment-status.ts`) | none: pure functions | - | called by both shipment services | what may follow what, for which service; a held shipment returns to where it was held |
| tariff (`common/utils/money.ts`) | none: pure functions | - | called at quote, booking, duplicate, walk-in, weight correction | bill = ceil of the weight, at least the minimum, times price, plus fee, rounded up to Rp100 |
| shipments, customer (`shipments/shipments.service.ts`) | `shipments`, `shipment_items`, `shipment_events`, `recipients` | create, duplicate, update, cancel | reads routes, rates, users; shares `shipments` with the admin side and payments | only the owner; only while editable / cancellable; bill priced from the active rate |
| shipments, admin (`shipments/admin-shipments.service.ts`) | same rows and `audit_logs` | changeStatus, bulkChangeStatus, correctWeight, createWalkIn | status machine, tariff, audit | only legal status changes, each with one event and one audit row; bill and debt consistent |
| payments (`payments/*.ts`) | `payments`, and `paymentStatus`, `outstandingAmount`, `status` of `shipments` | uploadProof, verify, reject | storage, audit, `shipments` | every payment has its proof; at most one is VERIFIED; debt forgiven only by a verification |
| storage (`storage/storage.service.ts`) | files on disk or in a bucket | save, remove | called by uploadProof | a saved key is readable |
| audit (`audit/audit.service.ts`) | `audit_logs` | record | called inside the transaction it describes (the walk-in excepted) | a row describes the change made with it, and exists exactly if the change does |
| routes and rates (`routes/*.ts`, `rates/rates.service.ts`) | `routes`, `rates` | create, update, setRate | priced from by bookings and quotes | a route has at most one active rate; price changes never touch booked shipments |
| sessions (`auth/*.ts`) | `users`, `refresh_tokens`, and the JWTs the clients hold | registerCustomer, registerAgent, login, refresh, logout, changePassword, updateProfile | read by every guard through the token's claims | a refresh token is used once; a password change or a suspension ends sessions |
| agents (`agents/*.ts`) | `agent_profiles` | approve, reject | audit; read by bookings | an agent books only while approved; a review is audited with what it replaced |
| users (`users/admin-users.service.ts`, `users/recipients.service.ts`) | `users.status`, `recipients` | updateStatus, address book create/update/remove | audit; sessions read the status | an admin never suspends himself |
| dashboards (`dashboard/*.ts`) | none | none: several reads at once | all tables | the figures are those of the rows |
| views, manifest, files, health | none | none: reads | all tables | what they show agrees with the rows |
| Prisma client (`prisma/prisma.service.ts`) | the pool of connections | every query takes one and gives it back; a transaction keeps one | under every repository | nobody waits for what he holds himself; every query is served |
| seed (`prisma/seed.ts`, `seed-data.ts`, beside `src/`) | every table, the proofs on the disk | clean, then fill; minimal or with sample data | run by hand, before or beside the server | can be repeated wherever it broke off; destroys nothing in production; its data could have been produced by the handlers |
| guards, pipes, filters, throttler | the throttler's counters | - | in front of every handler | who may call what; shape of inputs and answers |

## 2. What is hard about it

*Overlap.* Every operation on a shipment reads its row in one database call, checks it in
the process, and writes in a later call. No write repeats the check, takes a lock or
carries a version (`shipments.repository.ts` 217-330, `payments.repository.ts` 73-166:
every `update` has `where: { id }`). Two requests on one shipment therefore interleave
between read and write, and what survives that is not obvious from any handler alone:
this is what the project is mainly about. The same holds of a rate, an account or a
tracking number that a booking reads several awaits before it inserts its row.

*Failure half-way.* A storage error, a database error or a crash can end a handler at any
await. What it had committed stays: the stored file of an upload whose insert fails, the
first rows of a bulk change.

*Sequences.* Some states need several legal calls in a row: a proof rejected after another
was verified, a weight corrected twice after payment, a shipment held, moved, held again.

*Expiry.* An access token lets its bearer in until it expires, whatever happens to the account
meanwhile; a refresh token is a row that a login inserts after it has read the user.

*One connection.* In production the pool has a single connection (`README.md:317`). A query that is not
handed the client of the open transaction waits for the connection that its own request holds.

*A program without transactions.* The seed is more than a hundred statements, each committed alone, and can be
broken off between any two.

*Boundaries.* Ceilings, minimum weights, the Rp100 rounding, a correction that lowers the
bill below what was paid.

`PROJECT.json` lists each hazard with its line and the properties that would catch it.

## 3. The modules

| Module | Kind | Models |
|---|---|---|
| `ShipmentStatus` | operators | `shipment-status.ts` |
| `Tariff` | operators | `money.ts` |
| `Shipments` | state machine | the customer's, the cashier's and the operator's handlers on booked shipments, with overlap and failure |
| `FreshShipment` | operators | the row that a booking inserts |
| `RouteRates` | state machine | `routes/`: create, update and setRate, the statements of setRate's transaction apart |
| `Accounts` | state machine | registration (`auth/`), the review of agents (`agents/`), suspension (`users/`) |
| `Bookings` | state machine | create, duplicate and createWalkIn as chains of awaits, composed with `RouteRates` and `Accounts` |
| `Sessions` | state machine | `auth/`: login, refresh, logout, changePassword, the expiry of tokens; composed with `Accounts` |
| `ConnectionPool` | state machine | what the handlers ask of Prisma's pool, in order, and the pool |
| `SeedData` | operators | `prisma/seed-data.ts`: the columns that decide anything |
| `Seeding` | state machine | `prisma/seed.ts` as a list of statements over all tables with their foreign keys, run and broken off beside a server |
| `Dashboards` | operators | the figures of both dashboards |
| `DeliveryJourney` | abstract state machine | what `Shipments` promises: a journey of legs, pauses, one settlement |
| `ShipmentsJourney` | refinement mapping | `Shipments` seen as `DeliveryJourney` |
| `Shop` | abstract state machine | what bookings promise: a shop with a price list that changes under way |
| `BookingsShop` | refinement mapping | `Bookings` seen as `Shop` |
| `MCShipments` (6 `.cfg` files), `MCBookings` (3), `MCSessions` | values for TLC | - |
| `FreshShipmentProofs` | lemmas | the types of a tariff and of a booked row |
| `ShipmentsProofs` | theorems | types, statuses and money of `Shipments`, under any overlap |
| `ShipmentsJourneyProofs` | theorems | what holds where requests about one shipment do not overlap, and the refinement of `DeliveryJourney` |
| `AccountsProofs` | lemmas | the invariant of accounts |
| `BookingsProofs` | theorems | the invariants of routes and rates and of the composed system, and the refinement of `Shop` |
| `SessionsProofs` | theorems | the invariant of sessions |
| `ConnectionPoolProofs` | theorems | the shape of the handlers and the invariant of the pool |
| `SeedingProofs` | theorems | what a production database may rely on; that no statement is refused and attachments have files; the histories, bills and figures of the sample data |

`FreshShipment` extends `ShipmentStatus` and `Tariff`; `Shipments` and `RouteRates` extend
`FreshShipment`; `Bookings` extends `RouteRates` and `Accounts`; `ShipmentsJourney` extends
`Shipments` and instantiates `DeliveryJourney`; `BookingsShop` extends `Bookings` and instantiates `Shop`; `Sessions` extends `Accounts`; `Seeding` extends `SeedData`
and `Dashboards`. Each `...Proofs` module extends the module it is named after; besides, `ShipmentsProofs` extends
`FreshShipmentProofs`, `ShipmentsJourneyProofs` extends `ShipmentsProofs`, `BookingsProofs` extends
`BookingsShop`, `AccountsProofs` and `FreshShipmentProofs`, and `SessionsProofs` extends `AccountsProofs`. No module declares a
RECURSIVE operator.

The life of a shipment is cut in two at the insert of its row. `Bookings` ends with a row
that has the bill of `Booked`, and `Shipments` starts from rows that are `Booked`, with
any service, rate, weight and recipient; nothing that `RouteRates` or `Accounts` do afterwards
touches the columns that `Shipments` models.

## 4. How state and actions correspond to the code

Variables of `Shipments`:

| Variable | Stands for |
|---|---|
| `shipment` | table `shipments`, the columns the handlers decide from or write; `rate` is the three snapshot columns, `recipient` all the fields the owner may edit; `deliveredTo` and `cancelReason` are whether the column is filled in; `actualWeight` 0 is null |
| `payment` | table `payments`; its domain is the ids that exist; `verified` is whether `verifiedAt` is filled in |
| `stored` | keys in the file storage; an upload draws a fresh random key, and the payment's id stands for it |
| `latestEvent` | the newest row of `shipment_events` of each shipment |
| `audit` | the newest row of `audit_logs` |
| `request` | one slot per request in flight: which await it is at, and the plan it computed before it |

Each handler is split at its awaits, and nowhere else:

| Handler | Actions |
|---|---|
| `ShipmentsService.cancel` | `CancelRead`, `CancelWrite` |
| `ShipmentsService.update` | `UpdateRead`, `UpdateWrite` |
| `PaymentsService.uploadProof` | `UploadRead`, `UploadSave` (storage), `UploadWrite` (transaction) |
| `PaymentsService.verify` | `VerifyRead`, `VerifyCount` or `VerifyRefuse`, `VerifyWrite` |
| `PaymentsService.reject` | `RejectRead`, `RejectWrite` |
| `AdminShipmentsService.changeStatus` | `StatusRead`, `StatusWrite` |
| `AdminShipmentsService.bulkChangeStatus` | `BulkRead`, then `BulkWrite` once per passing row, in any order |
| `AdminShipmentsService.correctWeight` | `WeightRead`, `WeightWrite` |
| any, at any await | `Fail` |

Variables of `RouteRates`, `Accounts` and `Bookings`:

| Variable | Stands for |
|---|---|
| `route` | table `routes`: `isActive` of each route that exists; a route is its (serviceType, destinationCode), which is unique and never changes |
| `rate` | table `rates`, in the order of the commits; rows are never changed but for `isActive` |
| `routeAudit` | the newest row of `audit_logs` about a route or a rate |
| `account` | tables `users` and `agent_profiles`, by e-mail (unique, and fixed here) |
| `accountAudit` | `audit_logs`: which actions are recorded about which account |
| `booking` | table `shipments` as bookings leave it, in the order of the commits; `byAdmin` is the note of the first event, which tells a walk-in |
| `addressBook` | table `recipients`: the entries that bookings added, each with its booking |
| `walkInAudit` | `audit_logs`: the bookings that have a `SHIPMENT_CREATED_BY_ADMIN` row |
| `admin`, `clerk`, `desk` | one slot per request in flight about routes, accounts, bookings |

| Handler | Actions |
|---|---|
| `RoutesService.create` | `CreateRouteRead`, `CreateRouteWrite` (under the unique index) |
| `RoutesService.update` | `UpdateRouteRead`, `UpdateRouteWrite` |
| `RoutesService.setRate` | `SetRateRead`, `SetRateDeactivate` and `SetRateCommit` (one transaction) |
| `AuthService.registerCustomer`, `registerAgent` | `RegisterRead`, `RegisterWrite` (under the unique index) |
| `AgentsService.approve`, `reject` | `ReviewRead`, `ReviewWrite` |
| `AdminUsersService.updateStatus` | `StatusChangeRead`, `StatusChangeWrite` |
| `ShipmentsService.create` | `CreateRead`, `Price`, `DrawNumber` (once or more), `Insert` |
| `ShipmentsService.duplicate` | `DuplicateRead`, `DuplicateCheck`, then as create |
| `AdminShipmentsService.createWalkIn` | `WalkInRead`, then as create, then `AuditWalkIn` |
| any, at any await | `AdminFail`, `ClerkFail`, `DeskFail` |

Variables of `Sessions` (and those of `Accounts`):

| Variable | Stands for |
|---|---|
| `password` | `users.passwordHash`: which password is in force, numbered in the order of the changes |
| `token` | table `refresh_tokens`, each row together with the access token that was issued with it. `refresh` is "dead" once the row is revoked or past `expiresAt`, `access` "expired" once the JWT is. `under`, `late` and `exchanges` are ghosts: the password that the first login gave, whether it had changed when the row was inserted, how many pairs were issued for the row |
| `caller` | one slot per request to `/auth` in flight |
| `interrupted` | ghost: users whose change of password broke off before the sessions were revoked |

| Handler | Actions |
|---|---|
| `AuthService.login` | `LoginRead`, `IssueWrite` |
| `AuthService.refresh` | `RefreshRead`, then `ExchangeWrite` and `IssueWrite`, or `RevokeWrite` for a suspended user |
| `AuthService.logout` | `LogoutRead`, `RevokeWrite` |
| `AuthService.changePassword` | `ChangePasswordRead`, `PasswordWrite`, `RevokeAllWrite` |
| any, at any await | `CallerFail` |
| the clock | `AccessExpires`, `RefreshExpires` |

`Admitted(u)` is what `JwtAuthGuard` and `JwtStrategy.validate` decide: somebody holds an access token
of `u` that has not expired. The bearer of any token may use it, so no client is modelled: a token is
refreshed by whoever has it, once or ten times. A refused login, refresh or change of password writes nothing.

Variables of `Seeding`:

| Variable | Stands for |
|---|---|
| `production` | `NODE_ENV` |
| `db` | every table of `schema.prisma`: its rows as key, rows referred to, and the columns that are decided on |
| `files` | the placeholder proofs on the disk |
| `seed` | the process: `--minimal` or not, and the statement it is at |

`main()` is a sequence of statements that does not depend on what they find, so it is one:
`MinimalProgram` or `FullProgram`, built by one operator per function of `seed.ts` (`clean`, `seedRoutes`,
`createShipment`, `createPayment`, ...). `Start` is the guard `assertSafeForProduction` and the begin,
`DeleteMany`, `Create` and `WriteFile` execute the next statement under the foreign keys of the schema,
`Stop` ends the process anywhere. `Register` and `Book` are a visitor at the server meanwhile. A row with its
nested rows is one statement, as Prisma runs it in one transaction. Dates are days before the
start of the program. A row's id is a name, or a name with a number (the third shipment, its second event): the code
lets the database draw them, and nothing reads more into them.

Variables of `ConnectionPool`:

| Variable | Stands for |
|---|---|
| `todo` | what each request in flight has still to ask of the database |
| `running`, `waiting` | its calls that have a connection, and the queue of those that wait for one |
| `holds` | whether it has an open interactive transaction |
| `free` | connections in the pool |

Each handler is an operator that lists what it asks, in order: single calls, several at once
(`Promise.all`), or a transaction with the calls inside it. What a call inside a transaction asks depends on
whether it is handed the transaction's client: `record(TRUE)` is `AuditService.record` with it, as all
transactions do, `record(FALSE)` without, as the walk-in does. A handler that returns early is one that
`Fails` at that point. Every interactive transaction of the code and every `Promise.all` over queries is here; left out are
handlers that make single calls one after another, as `Login` does (registration, logout, details, the address book, files), and
the paged lists, whose two queries are one batch on one connection. Rows and their locks are not part of this module.

What the abstraction rests on:

- *Transactions are atomic.* PostgreSQL runs them at Read Committed and the handlers'
  transactions only write (no read inside decides anything), so what another request can
  see of one is nothing or all of it. Two that touch the same rows take them in the same
  order - a payment, then its shipment - so they do not deadlock and commit one after
  another.
  The exception is setRate: its UPDATE decides by `isActive`, a column that it shares with
  other transactions. So it is two actions: the UPDATE finds the rows that are active and
  committed, the commit deactivates them and inserts the new rate. A row that another
  transaction has deactivated meanwhile is deactivated twice, which changes nothing.
- *A read with `include` is one action.* Prisma may issue one statement per relation;
  no handler depends on two relations read at different moments, save `verify`, which
  reads the payment and its shipment's status; splitting that read only makes the status
  older or newer within the interval that the model already leaves open before the write.
- *Refused requests change nothing*, so they are stuttering steps and have no action,
  unless they had taken a slot already (`VerifyRefuse`). Bulk rows that fail the check
  are reported and dropped; a bulk request with none left writes nothing.
- *The answer's reload*, after the commit, reads only and is left out.
- *The order of awaits before the price* in create and walk-in: only the read of the account
  decides anything that may change meanwhile, so it is the action that begins the request.
- *Which active rate is read*: `withActiveRate` takes one row and gives no order, so `Pricing`
  and `PreviousTerms` let any active rate of the route be the one.
- *Who calls*: the guards and `getOwnedOrThrow` answer 401, 403 or 404 before any of these
  actions; the actions are those of callers that passed.
- Amounts are `BigInt` in the code and unbounded here. A weight is a float of which only
  the ceiling matters; it is counted in tenths of a kilogram.

Bounds, all of them constants: `Shipments`, `Payments` (how many uploads can be made),
`Requests` (how many overlap), `Rates`, `Weights`, `Recipients`, `RequestedStatus` (what an
admin asks for) and `Operations` (which handlers a run includes); in `Bookings` the pairs a
route may have (`Routes`), the rates an admin may ask for (`Offers`), `Seed` (what `seed.ts`
leaves, or nothing), the slots `Admins`, `Clerks`, `Desks`, the `Emails`, the `Numbers` that
may be drawn, `MaxRates` and `MaxBookings` (lengths of the histories) and
`TRACKING_NUMBER_ATTEMPTS` (5 in the code, 2 in the runs). The proofs leave all of
them arbitrary. Ids, numbers and histories run out, so runs end in states without successors and set
`CHECK_DEADLOCK FALSE`; their handlers wait for nobody. Where handlers do wait for each other, in
`ConnectionPool`, deadlock is checked. In `Sessions` the bounds are the slots `Callers`, the `Tokens` (a pair
that is used up and that no request is about makes room for another, so histories may be of any length)
and `MaxChanges` of a password; in `Seeding` the `Visitors` (the program itself is modelled whole); in `ConnectionPool` the
slots `Requests`, `PoolSize`, `Attempts` and `BulkRows`.

`DeliveryJourney` knows no statuses: a shipment is on one of seven legs, may pause from the
warehouse on, may be called off until departure or while it pauses, and is settled by at
most one payment. `ShipmentsJourney` maps the status (or, when held, `previousStatus`) to
the leg and the VERIFIED payment to the settlement.

`Shop` knows no tables, requests or draws of a number: a client is let in if he is welcome, is quoted a price, buys
once at that price or leaves, and what an admin sells is recorded afterwards. `BookingsShop` maps the active routes
to the routes that are served, the terms of the active rates to the tags on a route, whom `BookingAllowed` accepts (for
an admin: whoever is not suspended) to the guest list, and each desk slot to where its client stands: outside, at the counter once
the account was read, quoted once the price was, at the record once a walk-in is inserted. Reading a booking in order
to copy it, finding a number free and failing the insert on the unique index are nobody else's business and map to no
step. What `Shop` says beyond the invariants: the quote and the sale are of *one* request that was let in, the price was in force and
the route served at one and the same moment between the two, nothing is sold twice, and no sale ever changes.

## 5. The runs

| Run | Instance | Shows |
|---|---|---|
| `serial` | 1 shipment, 2 payments, 1 slot, all operations and statuses, weights at the limits | handlers that do not overlap implement `DeliveryJourney`; the timeline ends in the current status, the hold marker is set exactly while held, one payment is verified, an audit row tells the change made with it |
| `status` | 1 shipment, 1 payment, 2 slots, all statuses | what stays true of statuses under overlap: a held shipment can be resumed, the last mile fits the service, final statuses are explained, audited changes are legal |
| `money` | 1 shipment, 2 payments, 2 slots, three weights | the same for money: the bill is that of one correction, no debt vanishes without a verification, every payment has its proof |
| `bulk` | 2 shipments, 2 slots, nothing fails | liveness: every row that a bulk change found changeable gets its status |
| `rates` | an empty database, 2 routes, 1 admin, 1 booking, rate history of 2 | a booking beside changes of routes and rates implements `Shop`: quoted a price then in force on a route then served, made once at that price, a walk-in recorded after; a priced route stays priced, one rate is active, a booking's bill is the tariff at one rate of its own route, the audit row tells the rate that was replaced |
| `accounts` | a seeded route, 2 accounts, 1 clerk, 2 bookings in flight, 2 numbers, 2 attempts | numbers are unique, agents were approved when they booked, verdicts are on record, address books agree with bookings, what was checked under way still stands |
| `sessions` | the admin and one user, 1 clerk, 2 requests to `/auth`, 2 token pairs at a time, one change of password | a refresh token is exchanged only by requests that overlap its first exchange; a session of a former password is alive only for one of three named reasons; liveness: who stays suspended ends up with no access |
| `seeding` | the whole seed, both modes, both environments, one visitor | wherever an earlier run broke off, no statement of the next is refused; production keeps its accounts, and an account there means complete routes; attachments have files; the sample data has legal histories, bills that add up, and the figures that `README.md:61` announces |
| `pool` | one connection, any two handlers, up to 7 calls at once, 2 draws of a number, 2 rows in bulk | no connection is lost or given back twice; nobody waits for a connection while he holds one; no deadlock; liveness: every request is answered |
| `shortfall`, `unpaid`, `walk_in` | as small as they can be | see *Findings* |

*Why these bounds are enough to be interesting.* All the hazards are between two requests
on one shipment, so two slots and one shipment show them, and two payments are the fewest
that can be verified side by side. `OneRate` (Rp130/kg, minimum 3 kg, fee Rp50) makes the
minimum, the ceiling and the rounding all matter, and `SomeWeights` lie below, at and above the
minimum; `EdgeWeights` adds weights that `correctWeight` must refuse. `serial` and `status`
let an admin ask for every status. Requests are interchangeable, and so are payments:
`Symmetric` permutes both, in runs without temporal properties only. The state counts are
about 277 thousand (`serial`), 462 thousand (`status`), 2.5 million (`money`), 543 thousand (`rates`), 2.0 million
(`accounts`), 1.1 million (`sessions`), 232 thousand (`seeding`) and 18 thousand (`pool`).

The routes of `rates` share their destination, so a rate of the other service is a plausible wrong
answer, and its two offers differ in every column. Two rates are enough for a replacement. One admin
is enough for everything `rates` checks but `OneActiveRate` and `RateAuditTellsTheChange`, which
two admins break (*Known races*); the other three, `KeepsShop` among them, are proved for any number. Of `Shop`, `rates` moves
the price list and the client, while the guest list stays as it is: accounts that change too make the instance too large to
keep. That part of `KeepsShop` is the proof's, and `accounts` checks `AgentsWereApproved` and `BookingsInFlight`,
on which it rests, beside such changes. In `accounts`, two desks and two
numbers are the fewest with which a number found free is taken before the insert and with which
all attempts fail; the clerk changes an account between any two awaits of a booking. Registrations,
reviews and suspensions that overlap each other need a second clerk: the proofs cover them.

In `sessions`, two requests are the fewest that race for one token and that put a login beside a change of
password, and two token pairs the fewest of which one is exchanged for the other. To keep the run short only the
user's password changes, and who registers is a customer (`MCSpec`): sessions do not tell roles apart. A
suspension, its end and another suspension may come between any two steps. The proofs drop all of these bounds.

`seeding` has nothing to make smaller: every statement of the program is a step. One visitor is enough for
what a stranger's row can stand in the way of.

In `pool` the queue is served in order, so a request waits only for those before it: two requests, one of which may
ask for seven connections at once, show every way to wait for another. Any of the 18 handlers (more, counting
attempts and rows) may meet any other, at any point.

*Fairness.* Three specifications assume any. `FaultFreeSpec`, used by `bulk`: weak fairness of
`Resumes(r)`, that is, an await of a request that has begun resolves and Node's event loop
resumes the handler. It holds while the database answers, which is what "fault free" says.
No fairness is assumed of users: nobody must send a request. `BulkMovesEveryRow` fails when
`Fail` is allowed, as it should. `SessionsFairSpec` and `MCSpec`: weak fairness of `AccessExpires(t)`, that is, time
passes and a JWT has an end (`JWT_ACCESS_EXPIRES_IN`); nothing is assumed of requests or admins. `ConnectionPool`: weak
fairness of `Proceeds(r)`, that is, the database finishes a call, Prisma gives a free connection to the first in its queue
and the event loop resumes a handler; that the queue is first-in first-out is the client's documented behaviour and an
assumption here. Failures and timeouts are allowed and never assumed, so `EveryRequestIsAnswered` does not hold by
timing out.

*Mutants.* Each property of a passing run has a mutant of the code in the modules (an operator
named `..._SomethingWrong` just before the one it distorts) that violates it.

## 6. The proofs

All proofs are checked by TLAPS (SMT, Zenon, PTL) for every value of the constants: any
number of shipments, payments, routes, accounts and overlapping requests, any rates and weights.
The only assumptions are those the modules state and TLC evaluates on every run. In
`Shipments`: `RatesAssumption` (rates are triples of naturals), `WeightsAssumption` (weights are
integers) and `RequestedStatusAssumption` (admins ask for statuses that exist, as the DTO
enforces). In `RouteRates`: `RoutesAssumption`, `OffersAssumption` (types), `SeedAssumption` (the seed names
a route once and fits the bound). In `Accounts`: `AdminAssumption`. In `Sessions`:
`SessionsAssumption` (finitely many slots, and `NoToken` is no token). In `Bookings`:
`WeightsArePositive`, `MaxBookingsAssumption`, `AttemptsAssumption` (at least one attempt). In `ConnectionPool`:
`PoolAssumption` (the pool, the attempts and the rows of a bulk change are positive). In `Seeding`: `VisitorsAssumption` (nobody
registers under the name of an account of the seed).

| Theorem | Module | States |
|---|---|---|
| `TypeCorrect` | `ShipmentsProofs` | `Spec => []TypeOK` |
| `HeldCanAlwaysResume`, `ServiceAlwaysRespected`, `FinalStatusAlwaysExplained`, `AuditedStepAlwaysLegal`, `TransitionsAlwaysSoundInFlight` | `ShipmentsProofs` | the properties of the run `status` |
| `BillAlwaysFollowsSnapshot`, `DebtAlwaysNeedsVerification`, `ProofAlwaysStored`, `PaymentsAlwaysSoundInFlight` | `ShipmentsProofs` | the properties of the run `money` |
| `PreviousOnlyWhileHeldWithoutOverlap`, `TimelineShowsStatusWithoutOverlap`, `SingleVerifiedWithoutOverlap`, `AuditTellsWithoutOverlap`, `KeepsJourneyWithoutOverlap` | `ShipmentsJourneyProofs` | the properties of the run `serial`, of behaviours with `[]OneRequestPerShipment` |
| `OneAtATimeKeepsJourney` | `ShipmentsJourneyProofs` | `KeepsJourney`, `SingleVerified`, `TimelineShowsStatus`, where `Requests` is a singleton |
| `RoutesStayPriced` | `BookingsProofs` | `PricedStaysPriced`, of routes and rates alone |
| `BookingsTypeCorrect`, `PricedAlwaysStaysPriced`, `AlwaysPricedFromItsRoute`, `NumbersAlwaysUnique`, `AgentsWereAlwaysApproved`, `VerdictsAlwaysOnRecord`, `AlwaysSavedWithItsBooking`, `ReplacementsAlwaysOfOwnRoute`, `BookingsAlwaysStandInFlight` | `BookingsProofs` | the properties of the runs `rates` and `accounts` that hold under any overlap, and `ReplacementsInFlight` |
| `OneActiveRateWithoutOverlap`, `RateAuditTellsWithoutOverlap` | `BookingsProofs` | the other two of `rates`, of behaviours with `[]OneChangePerRoute` |
| `OneAdminLeavesOneRate` | `BookingsProofs` | `OneActiveRate`, where `Admins` is a singleton |
| `SessionsAlwaysSound`, `ExchangedByRacersOnlyAlways`, `OldSessionsAlwaysExplained` | `SessionsProofs` | the two invariants of the run `sessions` |
| `HoldersNeverWait`, `ConnectionsAccounted` | `ConnectionPoolProofs` | the two invariants of the run `pool` |
| `BookingsKeepShop` | `BookingsProofs` | `KeepsShop`, the refinement checked by the run `rates`, under any overlap |
| `AdminAlwaysMeansSeeded`, `ProductionAlwaysKeepsAccounts` | `SeedingProofs` | the two properties of the run `seeding` that are about production |
| `NothingIsEverRefused`, `AttachmentsAlwaysHaveFiles` | `SeedingProofs` | its two invariants about interrupted seeds of either mode |
| `SeededHistoryIsAlwaysLegal`, `SeededBillsAlwaysAgree`, `SeededFiguresAlwaysHold` | `SeedingProofs` | its three invariants about the sample data, of the whole program and any visitors |

*The argument.* None of these invariants is inductive as it stands: a `...Write` action
writes what was decided earlier, so it preserves the invariant of the tables only because
of what its slot still promises. The inductive invariants add those promises.

- `StatusInv` is the type invariant, the four status properties and `TransitionsInFlight`: a plan in
  flight was legal for the status it read, fits the shipment's service (which never changes),
  asks for a hold only from a status that can be held, and carries the explanation its final
  status needs. None of this mentions the row as it is at the time of the write, which is
  why it survives any overlap. `HeldCanResume` is the subtle one: `previousStatus` is
  written from the status *read*, and what is proved is that it is a holdable status of the
  service whatever the row has become since.
- `MoneyInv` is the type invariant, the bill, debt and proof properties,
  `PaymentsInFlight` (an upload's key is stored, unused and no other upload's; a verdict
  is about an existing payment of its shipment) and `CorrectionsInFlight` (a correction
  carries the tariff of its own weight at the snapshot, and forgives nothing unless a payment was
  verified). `DebtNeedsVerification` needs the history bit `verified`: the payment that
  justified a forgiven debt may since have been rejected by an overlapping request.

- `RoutesInv` is the types, `PricedStaysPriced` and `ReplacementsInFlight`. A commit
  deactivates the rows that an earlier statement found; that a route stays priced rests on those
  rows being its own (so that no other route loses its rate) and on the insert in the same commit.
- `AccountsInv` is the types, `VerdictsAreOnRecord` and `AccountsInFlight` (a review in
  flight is about an agent, a change of status about an account that exists).
- `BookingsInv` is both, the types and properties of bookings, `BookingsInFlight` (the owner exists
  and was cleared, the terms were set for the route) and `OwnersHaveAccounts`. The composition
  works because each part only adds to what the others rely on: rates are appended, accounts keep their
  role, audit rows stay. `AgentsWereApproved` speaks of the audit trail and not of the
  profile for that reason: the profile may be REJECTED by the time the booking is inserted.

- `SessionsInv` is the types with what every plan in flight is about (`SessionsSound`), `RevokedBeforeExchanged`
  (a token that was exchanged, or whose next pair is about to be issued, is dead), and the two properties. The first
  property counts: exchanges made plus exchanges in flight never exceed the slots. A slot joins only while the token is
  live, when no exchange was made; once dead, an exchange in flight turns into one made and nothing joins. The proof needs
  cardinalities of sets of slots, which is why the slots are finite.

- `PoolInv` is the accounts of the pool, `RequestSound` (a request has an open transaction exactly when its next step
  needs one, and makes calls only when its next step is calls) and `WaitSound` (who waits to begin a transaction waits for nothing else
  and runs nothing else). It rests on the shape of the handlers, which is proved first: a call is `Bracketed`, a
  transaction whose body is all `Inside` is, and so is what is chained or repeated of these
  (`ConcatIsBracketed`, `TimesIsBracketed`), hence every member of `Handlers`, for any number of draws and
  rows (`HandlersAreBracketed`). Hand a repository call inside a transaction the pool's client instead
  and that lemma is where the proof stops. That no connection is lost is a cardinality: `Lent` names each
  connection that is out, and each action adds or removes one name.
- `ProductionInv` says that in production only the minimal program runs, that the routes follow its
  position, and that an admin means it has ended. That the admin is its last statement is what makes it inductive.
  `ProductionKeepsAccounts` follows because a production seed cannot start while there is an account.
- `FillingInv` is about both modes: what the statements before the present one wrote is there; a table that has
  been emptied holds nothing else but visitors' rows; every attachment has its file. That it is inductive rests on a fact about the
  text of the programs, proved first: both are `Seedlike`, that is, they empty all tables, in an order in which no row
  is left without what it refers to, before they create anything, and each statement fits what is
  known after those before it (`FitAfter`): it refers to rows that they write, takes no key that they take, and writes a file
  before the attachment that names it. The programs are lists flattened from tables of plans; that a fact
  about each entry is one about the whole list is an induction, done with a least counterexample in a set of naturals
  (`LeastNatural`, `NaturalsReached`), since theorems with an operator for a parameter cannot be used here.
- `ToldInv` says that a shipment is a visitor's or comes from one of the `Stories` (a row, its timeline and its payment, as the
  program writes them for the 40 sample shipments), that its timeline is whole whenever any of it is there, and that a
  payment is its story's. Each story is `Legal` and `Billed`, once for all: for the operational ones by an argument about every path of the status
  machine (`Chain`: the part of STATUS_PATH up to a status that the service has is a chain of legal steps), for the
  others by looking. The two properties then carry over from stories to rows.
- For the figures, `CompleteTables` says what the tables hold when a full program ends with no visitor's row: exactly its stories, numbered
  1 to 40, and nothing else. A figure is the cardinality of a selection of them, found by a bijection with the numbers it
  selects (`SelectionCounted`).

*Without overlap.* Some properties are false when two requests about one shipment overlap (section 7, *Known races*), and the code
has no lock that would prevent it. What is proved is that overlap *of one shipment* is the only
thing that breaks them. `OneRequestPerShipment` says that no two requests in flight have read one shipment in order to
write to it; any number may be in flight about different shipments, and bulk changes count for all the rows they
still have to write. `CalmInv` then adds to the properties what they need to be inductive: what each request in flight
has read is still what the table holds (`PlansAreFresh`), because only a request about that
shipment could have changed it. The condition is a hypothesis about the whole behaviour
(`Spec /\ []OneRequestPerShipment => ...`), so a step may use it before and after. It is met by itself when
there is one slot, which `OneAtATimeKeepsJourney` states without the hypothesis, and it is what a row lock taken at
the read would establish. `OneChangePerRoute` is the same for changes of a rate.

*The refinement.* `KeepsJourneyWithoutOverlap` is proved step by step: `JourneyInit` maps the initial states, `WritesRefine`
shows for each write which step of `DeliveryJourney` it is (an advance, a pause, a resumption, a calling off, a
settlement) and `JourneyStep` that every other step, reads and failures included, leaves the
mapped variables alone. Freshness is needed for both directions: a verification counts no other VERIFIED payment, and a
status change leaves the leg that it was checked against.

`BookingsKeepShop` has no condition on overlap. `ShopOpens` maps the initial states; of the steps of routes, a commit of `setRate` is
`Retag` of one route (which needs `ReplacementsInFlight`: the rows it deactivates are of that route) and the other
writes serve a route or stop; of accounts, each write is `Reconsider` of one person; of bookings there is a lemma for each
await. The refinement needs little beyond `BookingsInv`: `ShopInv` adds that a copied booking in flight is a customer's and
that weights stay within `MAX_WEIGHT_KG`, those of stored bookings included, because `duplicate` takes
them over.

Each module proves `Init => Inv`, `Inv /\ [Next]_vars => Inv'` with one step per action, and
`Inv => property`, and closes with PTL. TLC checks `TransitionsInFlight`,
`PaymentsInFlight` and `BookingsInFlight` as invariants of the runs `status`, `money` and `accounts`; the other strengthenings are stated for the proofs alone.

*Only model-checked*: liveness. `BulkMovesEveryRow`, `SuspensionEndsSessions` and `EveryRequestIsAnswered` rest on fairness and
ENABLED, which are out of the prover's reach. Every other property of every passing run is stated by a theorem.

## 7. Findings

Three runs expect a violation; each is a few steps long and needs one request at a time only.

1. `shortfall` - a paid shipment is corrected to a larger weight (debt marked), then to the same
   weight again: the difference is 0, and `outstandingAmount` becomes 0.
   `admin-shipments.service.ts:393` says that the shortfall is marked.
2. `unpaid` - two proofs are uploaded, one is verified, the other rejected: `reject` always
   writes `UNPAID`, so the settled shipment takes proofs again, which
   `test/payments.e2e-spec.ts:355` says it does not.
3. `walk_in` - the process ends between the insert of a walk-in booking and its audit row, which
   is written on its own (`admin-shipments.service.ts:265`). `README.md:299` says that every admin
   action writes its audit row in the same transaction.

### Known races

The runs state what holds in spite of these; each can be shown by a change of one configuration.

- *Two verified payments.* Two admins verify two payments of one shipment. Each counts the other
  VERIFIED payments (none) before either writes; both are VERIFIED, although `schema.prisma:283` and
  `payments.service.ts:183` say that only one may be. `serial` checks `SingleVerified` for requests that do not
  overlap; with `Requests = {r1, r2}` and the operations upload and verify it is violated.
- *A revived shipment.* The owner cancels between the read and the write of a verification. The
  write sets PAID on a CANCELLED shipment, which `shipment-status.ts:102` calls final. With two requests, the
  operations upload, verify and cancel and the action property "a CANCELLED shipment stays so" it is violated.
- *Two active rates.* Two admins set the rate of one route at the same time. The UPDATE of each
  sees the old rate and not the other's new one, so both new rates stay active (`routes.repository.ts:116`), although
  `README.md:235` says that setting a rate deactivates the old one. `rates` checks `OneActiveRate` for one admin;
  with `Admins = {a1, a2}` and `MaxRates = 3` it is violated.
- *Two exchanges.* Two refreshes that read a token before either revokes it both get a new pair
  (`auth.service.ts:126`). `ExchangedByRacersOnly` bounds them by the requests that overlap.
- *Sessions that outlive a password.* A login or refresh that read the user before a change of password and
  inserts its row after the revocation leaves a session of the old password (`late`), and a crash between the two
  statements leaves all of them (`interrupted`). `OldSessionsAreExplained` without either of the two disjuncts
  is violated.

### Smaller observations about the seed

- A sample shipment that is CANCELLED has a timeline that ends before the cancellation: STATUS_PATH does not
  have the status, so `filteredPath` keeps the booking alone (`seed.ts:465`). `SeededHistoryIsLegal` names the exception.
- The first sample shipment was weighed at 12.4 kg and is billed for the declared 12 kg, which `correctWeight` would not
  leave so; `SeededBillsAgree` therefore speaks of the declared weight.
- Sample agents that are APPROVED or REJECTED have no row in `audit_logs`, so `VerdictsAreOnRecord` is about databases
  seeded with `--minimal`.
- The guard counts accounts and the deletions follow: an account registered in between in production is deleted.
  `ProductionKeepsAccounts` is about accounts that exist while no seed runs. A visitor who registers after a
  production seed broke off before its admin keeps the next one from starting.

## 8. What is not modelled

- *Lists, details, manifest, views, files, health*: they change no state. Of the dashboards the figures are
  modelled (`Dashboards`), were all of them read at once: the code reads them in seven queries, between which rows may
  change, and nothing depends on their agreement.
- *`updateProfile`*: two single-row writes of contact data that no decision reads; `ConnectionPool` has its calls.
- *Strengths of hashes and tokens*: a password, a token is what it is; that it cannot be guessed is not a question for a
  model like this.
- *Row locks.* `ConnectionPool` counts connections only; that two transactions do not deadlock on rows follows from the order
  in which they take them (section 4).
- *DTO validation, role guards, filters, envelopes, throttling, configuration, bootstrap*: they decide
  whether a handler runs and what its answer looks like. The models take inputs that passed
  validation and callers that passed the guards.
- *The address book* (`recipients.service.ts`): single-row reads and writes by their owner with no
  invariant beyond the row.
- *Tracking number and phone formats*: string work. `Bookings` draws numbers from a small set,
  which makes collisions likely where the code makes them rare.
- *Names, regions and days of routes, items and notes of bookings*: data that no modelled
  decision reads.
- *Storage drivers*: I/O behind `save`.

## 9. Plan

Done: the status machine, the tariff, shipments and payments with their abstract specification,
routes and rates, accounts, bookings with theirs, sessions, the connection pool, the seed, the figures of the dashboards, and the
theorems of section 6. In order of importance, next:

1. What else is true of two requests about one shipment, beyond the properties of `status` and `money`: which legs a
   verification that comes late can undo.
2. The figures of the dashboards as separate reads, if something comes to depend on their agreement.

The runs are as many as the project wants to keep running (twelve, some minutes together); that is why the known races are
described in section 7 and not each kept as a run of its own.
